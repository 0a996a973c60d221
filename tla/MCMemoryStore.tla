--------------------------- MODULE MCMemoryStore ---------------------------
(***************************************************************************)
(* TLC instance of MemoryStore: ids of one kind are interchangeable.       *)
(***************************************************************************)
EXTENDS MemoryStore, TLC

Symmetry == Permutations(Users) \union Permutations(Wills) \union Permutations(Trustees)
              \union Permutations(Requests) \union Permutations(Emails)
=============================================================================
