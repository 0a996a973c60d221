-------------------------- MODULE LifecycleContract --------------------------
(***************************************************************************)
(* What the service promises about the life of a will: the state           *)
(* transition contract of API_SPEC.md (lines 157-166) with the trustee     *)
(* rules above it (line 153), free of tables, timestamps and calls.        *)
(*                                                                         *)
(*   - a will is authored (policy, trustees) only while it is active, and  *)
(*     is never published without a trustee;                               *)
(*   - only a published will with a trustee enters verification;           *)
(*   - grace begins with the response that completes a strict majority of  *)
(*     the trustees;                                                       *)
(*   - a heartbeat restores every later phase to active.                   *)
(*                                                                         *)
(* Each will moves on its own: a step of the system may be a step of none, *)
(* of one or, in a sweep, of several of them.                              *)
(***************************************************************************)
EXTENDS Integers, FiniteSets

CONSTANTS Wills, Trustees

VARIABLES
  phase,      \* "none", a lifecycle state, or "closed" once deleted
  published,  \* is the will published
  panel,      \* its trustees
  approving   \* while pending: trustees whose newest response approves

contract == <<phase, published, panel, approving>>

Phases == {"none", "active", "pending_verification", "grace_period",
           "ready_for_execution", "closed"}

IsMajority(part, whole) == 2 * Cardinality(part) > Cardinality(whole)

Init ==
  /\ phase = [w \in Wills |-> "none"]
  /\ published = [w \in Wills |-> FALSE]
  /\ panel = [w \in Wills |-> {}]
  /\ approving = [w \in Wills |-> {}]

Move(w, from, to) == phase[w] \in from /\ phase'[w] = to

Open(w) ==
  /\ Move(w, {"none"}, "active")
  /\ UNCHANGED <<published[w], panel[w], approving[w]>>

Author(w) ==
  /\ Move(w, {"active"}, "active")
  /\ published'[w] \in BOOLEAN /\ panel'[w] \in SUBSET Trustees
  /\ published'[w] => panel'[w] # {}
  /\ UNCHANGED approving[w]

BeginVerification(w) ==
  /\ published[w] /\ panel[w] # {}
  /\ Move(w, {"active"}, "pending_verification")
  /\ UNCHANGED <<published[w], panel[w], approving[w]>>

\* A response that leaves the approvals short of a majority.
Respond(w) ==
  /\ Move(w, {"pending_verification"}, "pending_verification")
  /\ \E tr \in panel[w] : approving'[w] \in {approving[w] \union {tr}, approving[w] \ {tr}}
  /\ ~IsMajority(approving'[w], panel[w])
  /\ UNCHANGED <<published[w], panel[w]>>

BeginGrace(w) ==
  /\ \E tr \in panel[w] : IsMajority(approving[w] \union {tr}, panel[w])
  /\ Move(w, {"pending_verification"}, "grace_period")
  /\ approving'[w] = {}
  /\ UNCHANGED <<published[w], panel[w]>>

BecomeReady(w) ==
  /\ Move(w, {"grace_period"}, "ready_for_execution")
  /\ UNCHANGED <<published[w], panel[w], approving[w]>>

Restore(w) ==
  /\ Move(w, {"pending_verification", "grace_period", "ready_for_execution"}, "active")
  /\ approving'[w] = {}
  /\ UNCHANGED <<published[w], panel[w]>>

Close(w) ==
  /\ Move(w, Phases \ {"none", "closed"}, "closed")
  /\ published'[w] = FALSE /\ panel'[w] = {} /\ approving'[w] = {}

Step(w) ==
  \/ Open(w) \/ Author(w) \/ Close(w)
  \/ BeginVerification(w) \/ Respond(w) \/ BeginGrace(w)
  \/ BecomeReady(w) \/ Restore(w)

Stays(w) == UNCHANGED <<phase[w], published[w], panel[w], approving[w]>>

\* They remain functions of the wills.
Shapes ==
  /\ phase' = [w \in Wills |-> phase'[w]]
  /\ published' = [w \in Wills |-> published'[w]]
  /\ panel' = [w \in Wills |-> panel'[w]]
  /\ approving' = [w \in Wills |-> approving'[w]]

Next == Shapes /\ \A w \in Wills : Step(w) \/ Stays(w)

Spec == Init /\ [][Next]_contract
=============================================================================
