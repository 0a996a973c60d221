---------------------------- MODULE MCWillStore ----------------------------
(***************************************************************************)
(* TLC instance of WillStore: ids are interchangeable within each set.     *)
(* The placeholders of absent rows do not spoil the symmetry: no action    *)
(* and no property reads them.                                             *)
(***************************************************************************)
EXTENDS WillStore, TLC

Symmetry == Permutations(Wills) \union Permutations(Trustees)
              \union Permutations(Requests) \union Permutations(Emails)
=============================================================================
