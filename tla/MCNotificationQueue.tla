------------------------ MODULE MCNotificationQueue ------------------------
(***************************************************************************)
(* TLC instances of NotificationQueue: wills and trustees are              *)
(* interchangeable, as Leavers and Editors are all of the wills or none.   *)
(***************************************************************************)
EXTENDS NotificationQueue, TLC

Symmetry == Permutations(Wills) \union Permutations(Trustees)
=============================================================================
