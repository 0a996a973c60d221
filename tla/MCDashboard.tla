----------------------------- MODULE MCDashboard -----------------------------
(***************************************************************************)
(* TLC instance of DashboardSession: ids of one kind are interchangeable.  *)
(***************************************************************************)
EXTENDS DashboardSession, TLC

Symmetry == Permutations(Accounts) \union Permutations(Tokens) \union Permutations(Tabs)
=============================================================================
