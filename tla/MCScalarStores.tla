--------------------------- MODULE MCScalarStores ---------------------------
(* Instances of ScalarStores for TLC. *)
EXTENDS ScalarStores

CONSTANTS p1, p2

\* One node inserts in Redis, all in the others
OneRedisInserter ==
    [b \in Backends |-> IF b \in {"redis", "redis_ttl"} THEN {p1} ELSE Processes]
=============================================================================
