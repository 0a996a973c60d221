---------------------------- MODULE MCEnrollment ----------------------------
(***************************************************************************)
(* TLC instances of EnrollmentService: one owner, whose own address is one *)
(* of the addresses a trustee may be given.                                *)
(***************************************************************************)
EXTENDS EnrollmentService, TLC

CONSTANTS u1, own

OwnAddress == [u \in {u1} |-> own]

\* Requests, wills, trustees, callers and other addresses are interchangeable ids.
Symmetry == Permutations(Wills) \union Permutations(Trustees)
              \union Permutations(Requests) \union Permutations(Callers)
              \union Permutations(Emails \ {own})
=============================================================================
