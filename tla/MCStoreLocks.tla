---------------------------- MODULE MCStoreLocks ----------------------------
(***************************************************************************)
(* TLC instance of StoreLocks: owners are alike, and so are callers.       *)
(***************************************************************************)
EXTENDS StoreLocks, TLC

Symmetry == Permutations(Owners) \union Permutations(Callers)
=============================================================================
