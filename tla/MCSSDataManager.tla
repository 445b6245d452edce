--------------------------- MODULE MCSSDataManager ---------------------------
(* Instances of SSDataManager for TLC. *)
EXTENDS SSDataManager
=============================================================================
