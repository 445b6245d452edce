---------------------------- MODULE PriorityCache ----------------------------
(***************************************************************************)
(* What the GDSF policy promises, without the heap that implements it: the *)
(* class comment of GDSFCache, H(key) = L + frequency * cost / size, with  *)
(* the victim an entry of least priority and L rising to its priority.     *)
(***************************************************************************)
EXTENDS Naturals

CONSTANTS
    Keys, 
    Values,
    Gain(_)     \* cost / size of a value

VARIABLES
    entries,    \* key -> [value, uses, prio]
    floor       \* L

vars == <<entries, floor>>

Entry(v, n) == [value |-> v, uses |-> n, prio |-> floor + (n * Gain(v))]

Init ==
    /\ entries = [k \in {} |-> [value |-> 0, uses |-> 0, prio |-> 0]]
    /\ floor = 0

\* A new key starts with one use, a known one keeps the uses it has had
Admit(k, v) ==
    LET n == IF k \in DOMAIN entries THEN entries[k].uses ELSE 1
    IN  /\ entries' = [x \in DOMAIN entries \cup {k} |->
                          IF x = k THEN Entry(v, n) ELSE entries[x]]
        /\ UNCHANGED floor

Touch(k) ==
    /\ k \in DOMAIN entries
    /\ entries' = [entries EXCEPT ![k] = Entry(@.value, @.uses + 1)]
    /\ UNCHANGED floor

Evict(k) ==
    /\ k \in DOMAIN entries
    /\ \A j \in DOMAIN entries : entries[k].prio <= entries[j].prio
    /\ floor' = entries[k].prio
    /\ entries' = [x \in DOMAIN entries \ {k} |-> entries[x]]

Next ==
    \E k \in Keys :
        \/ \E v \in Values : Admit(k, v)
        \/ Touch(k)
        \/ Evict(k)

Spec == Init /\ [][Next]_vars

=============================================================================
