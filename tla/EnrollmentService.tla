-------------------------- MODULE EnrollmentService --------------------------
(***************************************************************************)
(* The calls of services/enrollment/internal/application/service.go over   *)
(* WillStore, and the lifecycle worker's sweep.                            *)
(*                                                                         *)
(* An authoring call reads before it writes: editableWill looks at the     *)
(* lifecycle, TrusteeCount at the trustees, and only then does the call    *)
(* run its store transaction, which repeats neither check.  Each of those  *)
(* reads is a step of its own here.  Heartbeats, responses and will        *)
(* deletions are one transaction each.  The worker reads the list of wills *)
(* to look at, then runs one transaction per owner.                        *)
(*                                                                         *)
(* With Overlap = TRUE calls and sweeps interleave as the server's         *)
(* goroutines do.  With Overlap = FALSE one call or sweep runs at a time,  *)
(* which is what the checks above were written for.                        *)
(***************************************************************************)
EXTENDS WillStore

CONSTANTS
  Callers,      \* authoring calls that may be in flight together
  OwnerEmail,   \* the address of each account
  Overlap       \* do calls and sweeps interleave

ASSUME ServiceAssumption ==
  /\ OwnerEmail \in [Users -> Emails]
  /\ Overlap \in BOOLEAN

Calls ==
  [op : {"create_will", "update_will"}, user : Users, config : Config]
    \union [op : {"create_trustee"}, user : Users, email : Emails]
    \union [op : {"update_trustee"}, user : Users, trustee : Trustees, email : Emails]
    \union [op : {"delete_trustee"}, user : Users, trustee : Trustees]

NoCall == [op |-> "none"]

VARIABLES
  call,    \* the call each caller is serving
  stage,   \* what it does next: "count" trustees, or run its "commit"
  sweep    \* the worker: owners still to look at, and the tick's instant

serviceVars == <<vars, call, stage, sweep>>

NoSweep == [at |-> Never, todo |-> {}]

-----------------------------------------------------------------------------
\* Reads

Editable_MutantAnyLifecycle(u) == LiveWills(u) # {}

\* editableWill
Editable(u) == \E w \in LiveWills(u) : will[w].lifecycle = "active"

Published(u) == \E w \in LiveWills(u) : will[w].config.status = "published"

\* TrusteeCount; no live will is ErrNotFound, which every caller refuses as it
\* refuses too few trustees.
TrusteeCount(u) == Cardinality(UNION {Assigned(w) : w \in LiveWills(u)})

Overdue_MutantDraftsToo ==
  {u \in Users : \E w \in LiveWills(u) : will[w].lifecycle \in {"active", "grace_period"}}

Overdue_MutantActiveOnly ==
  {u \in Users : \E w \in LiveWills(u) :
     will[w].config.status = "published" /\ will[w].lifecycle = "active"}

Overdue_MutantAfterVote ==
  {u \in Users : \E w \in LiveWills(u) :
     will[w].config.status = "published" /\ will[w].lifecycle = "grace_period"}

\* The owners TransitionOverdueWills selects.
Overdue == {u \in Users : \E w \in LiveWills(u) :
              /\ will[w].config.status = "published"
              /\ will[w].lifecycle \in {"active", "grace_period"}}

Admitted_MutantTrusteesUnlocked(c) ==
  CASE c.op = "update_will" -> Editable(c.user)
    [] c.op \in {"create_trustee", "update_trustee"} -> c.email # OwnerEmail[c.user]
    [] OTHER -> TRUE

Admitted_MutantPolicyUnlocked(c) ==
  CASE c.op = "delete_trustee" -> Editable(c.user)
    [] c.op \in {"create_trustee", "update_trustee"} ->
         Editable(c.user) /\ c.email # OwnerEmail[c.user]
    [] OTHER -> TRUE

\* The checks a call makes before it needs the trustee count.
Admitted(c) ==
  CASE c.op = "create_will" -> TRUE
    [] c.op \in {"update_will", "delete_trustee"} -> Editable(c.user)
    [] c.op \in {"create_trustee", "update_trustee"} ->
         Editable(c.user) /\ c.email # OwnerEmail[c.user]

\* Does the call also count trustees, and how many does it need?
NeedsCount(c) ==
  CASE c.op \in {"create_will", "update_will"} -> c.config.status = "published"
    [] c.op = "delete_trustee" -> Published(c.user)
    [] OTHER -> FALSE

EnoughTrustees_MutantLastOne(c) == TrusteeCount(c.user) > 0

EnoughTrustees(c) ==
  IF c.op = "delete_trustee" THEN TrusteeCount(c.user) > 1
                             ELSE TrusteeCount(c.user) > 0

-----------------------------------------------------------------------------
\* Steps

InFlight == sweep # NoSweep \/ \E p \in Callers : call[p] # NoCall

MayBegin == Overlap \/ ~InFlight

Begin(p, c) ==
  /\ MayBegin
  /\ call[p] = NoCall
  /\ Admitted(c)
  /\ call' = [call EXCEPT ![p] = c]
  /\ stage' = [stage EXCEPT ![p] = IF NeedsCount(c) THEN "count" ELSE "commit"]
  /\ UNCHANGED <<vars, sweep>>

CountTrustees(p) ==
  /\ call[p] # NoCall /\ stage[p] = "count"
  /\ EnoughTrustees(call[p])
  /\ stage' = [stage EXCEPT ![p] = "commit"]
  /\ UNCHANGED <<vars, call, sweep>>

\* The store transaction of a call.
Transaction(c, t) ==
  \/ c.op = "create_will"    /\ CreateWill(c.user, c.config, t)
  \/ c.op = "update_will"    /\ UpdateWill(c.user, c.config, t)
  \/ c.op = "create_trustee" /\ CreateTrustee(c.user, c.email)
  \/ c.op = "update_trustee" /\ UpdateTrustee(c.user, c.trustee, c.email)
  \/ c.op = "delete_trustee" /\ DeleteTrustee(c.user, c.trustee)

Finish(p) ==
  /\ call' = [call EXCEPT ![p] = NoCall]
  /\ stage' = [stage EXCEPT ![p] = "commit"]

Commit(p, t) ==
  /\ call[p] # NoCall /\ stage[p] = "commit"
  /\ Transaction(call[p], t)
  /\ Finish(p)
  /\ UNCHANGED sweep

\* A refused check, a constraint violation, a lost connection or a cancelled
\* request: the call returns an error and nothing is written.
Fail(p) ==
  /\ call[p] # NoCall
  /\ Finish(p)
  /\ UNCHANGED <<vars, sweep>>

Direct(t) ==
  /\ MayBegin
  /\ \/ \E u \in Users : DeleteWill(u, t) \/ SubmitHeartbeat(u, t)
     \/ TrusteeStep(t)
  /\ UNCHANGED <<call, stage, sweep>>

StartSweep ==
  /\ MayBegin
  /\ sweep = NoSweep
  /\ Overdue # {}
  /\ sweep' = [at |-> now, todo |-> Overdue]
  /\ UNCHANGED <<vars, call, stage>>

Swept_MutantNeverDone(u) == sweep' = [sweep EXCEPT !.todo = @ \ {u}]

Swept(u) ==
  sweep' = IF sweep.todo = {u} THEN NoSweep
                               ELSE [sweep EXCEPT !.todo = @ \ {u}]

SweepTransition(u) ==
  /\ u \in sweep.todo
  /\ sweep.at \in ClockReading
  /\ WorkerStep(u, sweep.at)
  /\ Swept(u)
  /\ UNCHANGED <<call, stage>>

\* The owner's will exists and nothing is due.
SweepNothingDue(u) ==
  /\ u \in sweep.todo
  /\ \E w \in LiveWills(u) : ~Dormant(w, sweep.at) /\ ~GraceOver(w, sweep.at)
  /\ Swept(u)
  /\ UNCHANGED <<vars, call, stage>>

\* The first error ends the whole sweep: a will deleted since the scan
\* (ErrNotFound), a database error, a cancelled context, a crash.
AbortSweep ==
  /\ sweep # NoSweep
  /\ sweep' = NoSweep
  /\ UNCHANGED <<vars, call, stage>>

ClockTick == Tick /\ UNCHANGED <<call, stage, sweep>>

ServiceInit ==
  /\ Init
  /\ call = [p \in Callers |-> NoCall]
  /\ stage = [p \in Callers |-> "commit"]
  /\ sweep = NoSweep

ServiceNext ==
  \/ ClockTick
  \/ \E p \in Callers : \/ \E c \in Calls : Begin(p, c)
                        \/ CountTrustees(p)
                        \/ \E t \in ClockReading : Commit(p, t)
                        \/ Fail(p)
  \/ \E t \in ClockReading : Direct(t)
  \/ StartSweep
  \/ \E u \in Users : SweepTransition(u) \/ SweepNothingDue(u)
  \/ AbortSweep

ServiceSpec == ServiceInit /\ [][ServiceNext]_serviceVars

-----------------------------------------------------------------------------
\* Properties

ServiceTypeOK ==
  /\ TypeOK
  /\ call \in [Callers -> Calls \union {NoCall}]
  /\ stage \in [Callers -> {"count", "commit"}]
  /\ sweep \in [at : TimeOrNull, todo : SUBSET Users]
  /\ sweep.todo = {} <=> sweep.at = Never

Contacts(w) == {<<tr, trustee[tr].email>> : tr \in Assigned(w)}

KeepsLockedConfig ==
  \A w \in Wills :
    will[w].row = "live" /\ will[w].lifecycle # "active" /\ will'[w].row = "live" =>
      /\ will'[w].config = will[w].config
      /\ Contacts(w)' = Contacts(w)

\* API_SPEC.md:153, SECURITY.md:47: policy and trustees of a live will do not
\* change once its lifecycle has left active.
ConfigLockedOutsideActive == [][KeepsLockedConfig]_vars

\* API_SPEC.md:153: a published will retains at least one trustee.
PublishedWillsKeepATrustee ==
  \A w \in Wills :
    will[w].row = "live" /\ will[w].config.status = "published" => Assigned(w) # {}

OpensGraceByMajority ==
  \A w \in Wills :
    /\ will[w].row = "live"
    /\ will[w].lifecycle = "pending_verification"
    /\ will'[w].lifecycle = "grace_period"
    => \E r \in PendingRounds(w) :
         2 * Cardinality(Approvers(latest', r) \intersect Assigned(w))
           > Cardinality(Assigned(w))

\* API_SPEC.md:163, SECURITY.md:29: a live will enters its grace period only
\* when a strict majority of the trustees it has at that moment approve.
MajorityOfCurrentTrustees == [][OpensGraceByMajority]_vars

\* API_SPEC.md:161: nothing but a published will with a trustee is ever under
\* verification, in grace or ready for execution.
OnlyPublishedWillsLeaveActive ==
  \A w \in Wills :
    will[w].row = "live" /\ will[w].lifecycle # "active" =>
      will[w].config.status = "published" /\ Assigned(w) # {}

\* While a live will waits for verification its current trustees could still
\* reach the threshold: the round is never one that nobody can complete.
RoundsStayWinnable ==
  \A w \in Wills :
    will[w].row = "live" =>
      \A r \in PendingRounds(w) : request[r].threshold <= Cardinality(Assigned(w))

\* A live will is ready for execution only after the whole grace period its
\* policy shows, counted from the majority decision that opened it.
ReadyWaitedOutGrace ==
  \A w \in Wills :
    will[w].row = "live" /\ will[w].lifecycle = "ready_for_execution" =>
      will[w].readyAt >= will[w].graceStarted + will[w].config.grace

\* Scheduling: the worker's ticker keeps starting sweeps and a sweep ends, and a
\* transaction that is due in sweep after sweep does not fail in all of them.
FairService ==
  /\ ServiceSpec
  /\ WF_serviceVars(StartSweep)
  /\ WF_serviceVars(AbortSweep)
  /\ \A u \in Users : WF_serviceVars(SweepNothingDue(u))
                      /\ SF_serviceVars(SweepTransition(u))

PublishedNow(w) == will[w].row = "live" /\ will[w].config.status = "published"

RequestLeft == \E r \in Requests : request[r].status = "absent"

\* A published will whose dormancy interval has run out does not stay so: the
\* worker opens its verification, whatever calls come in between, unless the
\* owner returns, edits or deletes it.
DormantWillsAreVerified ==
  \A w \in Wills :
    PublishedNow(w) /\ Dormant(w, now) /\ RequestLeft
      ~> ~(PublishedNow(w) /\ Dormant(w, now) /\ RequestLeft)

\* A published will whose grace period has run out becomes ready for execution,
\* unless its owner returns, edits or deletes it.
GraceEventuallyEnds ==
  \A w \in Wills :
    PublishedNow(w) /\ GraceOver(w, now) ~> ~(PublishedNow(w) /\ GraceOver(w, now))

-----------------------------------------------------------------------------
\* The calls implement the contract of API_SPEC.md.

Phase(w) == CASE will[w].row = "absent"  -> "none"
              [] will[w].row = "deleted" -> "closed"
              [] OTHER -> will[w].lifecycle

Panel(w) == IF will[w].row = "live" THEN Assigned(w) ELSE {}

Approving(w) == IF will[w].row = "live"
                THEN UNION {Approvers(latest, r) : r \in PendingRounds(w)}
                ELSE {}

phaseOf     == [w \in Wills |-> Phase(w)]
publishedOf == [w \in Wills |-> PublishedNow(w)]
panelOf     == [w \in Wills |-> Panel(w)]
approvingOf == [w \in Wills |-> Approving(w)]

Contract == INSTANCE LifecycleContract WITH
  phase <- phaseOf, published <- publishedOf, panel <- panelOf, approving <- approvingOf

\* Every step of the service is a step of the lifecycle contract, or none: its
\* guards on publication, trustees, lock and majority included.
ImplementsContract == Contract!Spec
=============================================================================
