----------------------------- MODULE MCFlatTable ------------------------------
(***************************************************************************)
(* Four keys with every assignment of eight hashes, so the table grows     *)
(* twice and runs cross its end.  The keys are interchangeable.            *)
(***************************************************************************)
EXTENDS FlatTable, TLC

AnyKeys == Permutations(CacheKeys)
================================================================================
