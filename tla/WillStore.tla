------------------------------ MODULE WillStore ------------------------------
(***************************************************************************)
(* The lifecycle tables of the enrollment service (digital_wills,          *)
(* will_versions, trustees, verification_requests, verification_responses) *)
(* and the transactions services/enrollment/internal/infrastructure/       *)
(* postgres/store.go runs on them.                                         *)
(*                                                                         *)
(* Every transaction that changes these tables locks the owner's users row *)
(* first: loadWill and RecordVerificationDecision by SELECT ... FOR        *)
(* UPDATE, CreateWill through its foreign key.  The transactions of one    *)
(* owner are therefore atomic, and each is one action here.  A transaction *)
(* that returns an error rolls back and is no step.                        *)
(*                                                                         *)
(* The service reads the clock before it calls the store, so the instant t *)
(* a transaction writes may lie in the past when it gets its locks.  It    *)
(* also checks lifecycle, status and trustee count before that call; the   *)
(* store does not repeat those checks and neither do these actions: module *)
(* EnrollmentService adds them as the separate reads they are.             *)
(***************************************************************************)
EXTENDS Integers, FiniteSets, Sequences

CONSTANTS
  Users,            \* account ids
  Wills,            \* ids digital_wills may use
  Trustees,         \* ids trustees may use
  Emails,           \* lower-cased contact addresses
  Requests,         \* ids verification_requests may use
  Decisions,        \* decisions trustees take; reject and abstain count alike
  DormancyDays,     \* values dormancy_days takes
  GraceDays,        \* values grace_days takes
  MaxTime,          \* bound: the clock stops here (days)
  MaxLag,           \* bound: longest wait between clock reading and commit
  MaxVersion        \* bound: versions of one will

ASSUME StoreAssumption ==
  /\ IsFiniteSet(Trustees)
  /\ Decisions \subseteq {"approve", "reject", "abstain"}
  /\ DormancyDays \subseteq Nat \ {0}
  /\ GraceDays \subseteq Nat \ {0}
  /\ MaxTime \in Nat /\ MaxLag \in Nat /\ MaxVersion \in Nat \ {0}
  /\ Users # {} /\ Wills # {} /\ Emails # {}
  /\ DormancyDays # {} /\ GraceDays # {}

Statuses   == {"draft", "published"}
Lifecycles == {"active", "pending_verification", "grace_period",
               "ready_for_execution"}

Never     == -1                      \* a NULL timestamp
Time      == Nat
TimeOrNull == Time \union {Never}

\* The part of a will its owner writes, and a version snapshot keeps.
Config == [status: Statuses, dormancy: DormancyDays, grace: GraceDays]

WillRow == [row: {"absent", "live", "deleted"},
            owner: Users,
            config: Config,
            version: Nat,
            lifecycle: Lifecycles,
            lastHeartbeat: TimeOrNull,
            pendingStarted: TimeOrNull,
            graceStarted: TimeOrNull,
            readyAt: TimeOrNull,
            updatedAt: Time]

TrusteeRow == [row: {"absent", "live", "deleted"}, will: Wills, email: Emails]

RequestRow == [status: {"absent", "pending", "resolved", "cancelled"},
               will: Wills, threshold: Nat]

\* What approvalCount sees of one trustee's responses to one request: the newest.
Response   == [at: TimeOrNull, decision: Decisions \union {"none"}]
NoResponse == [at |-> Never, decision |-> "none"]

VARIABLES
  now,       \* the clock, in days
  will,      \* digital_wills
  history,   \* will_versions: the snapshots of each will, oldest first
  trustee,   \* trustees
  request,   \* verification_requests
  latest     \* verification_responses: newest response per request and trustee

store == <<will, history, trustee, request, latest>>
vars  == <<now, store>>

-----------------------------------------------------------------------------
\* Reads.  An operator named X_Mutant... is X with a mistake in it: no action
\* uses it; it shows which property a change of X would break.

LiveWills_MutantIgnoresDelete(u) ==
  {w \in Wills : will[w].row # "absent" /\ will[w].owner = u}

LiveWills(u) == {w \in Wills : will[w].row = "live" /\ will[w].owner = u}

Assigned(w) == {tr \in Trustees : trustee[tr].row = "live" /\ trustee[tr].will = w}

PendingRounds(w) ==
  {r \in Requests : request[r].status = "pending" /\ request[r].will = w}

\* The instants a transaction committing now may carry.
ClockReading == {t \in 0 .. now : now <= t + MaxLag}

\* The dormancy interval runs from the last heartbeat, or from the last edit
\* while there is none.
DormancyReference(w) ==
  IF will[w].lastHeartbeat # Never THEN will[w].lastHeartbeat ELSE will[w].updatedAt

Majority_MutantHalf(n) == (n + 1) \div 2

\* floor(n / 2) + 1
Majority(n) == (n \div 2) + 1

Approvers_MutantAnyResponse(responses, r) ==
  {tr \in Trustees : responses[r][tr].decision # "none"}

\* Trustees whose newest response to r is an approval.
Approvers(responses, r) == {tr \in Trustees : responses[r][tr].decision = "approve"}

\* ORDER BY responded_at DESC keeps the later of two responses; the order of a
\* tie is the database's choice.
Newer(a, b) == {x \in {a, b} : a.at <= x.at /\ b.at <= x.at}

EmailFree(w, email, except) ==
  \A tr \in Assigned(w) \ except : trustee[tr].email # email

-----------------------------------------------------------------------------
\* Transactions of the will's owner

CreateWill(u, config, t) ==
  /\ LiveWills(u) = {}               \* digital_wills_active_user_uidx
  /\ \E w \in Wills :
       /\ will[w].row = "absent"
       /\ will' = [will EXCEPT ![w] =
            [row |-> "live", owner |-> u, config |-> config, version |-> 1,
             lifecycle |-> "active", lastHeartbeat |-> Never,
             pendingStarted |-> Never, graceStarted |-> Never,
             readyAt |-> Never, updatedAt |-> t]]
       /\ history' = [history EXCEPT ![w] = <<config>>]
  /\ UNCHANGED <<now, trustee, request, latest>>

UpdateWill_MutantStaleSnapshot(u, config, t) ==
  \E w \in LiveWills(u) :
    /\ will[w].version < MaxVersion
    /\ will' = [will EXCEPT ![w] =
                 [@ EXCEPT !.config = config, !.version = will[w].version + 1, !.updatedAt = t]]
    /\ history' = [history EXCEPT ![w] = Append(@, will[w].config)]
    /\ UNCHANGED <<now, trustee, request, latest>>

UpdateWill(u, config, t) ==
  \E w \in LiveWills(u) :
    /\ will[w].version < MaxVersion
    /\ will' = [will EXCEPT ![w] =
                 [@ EXCEPT !.config = config, !.version = will[w].version + 1, !.updatedAt = t]]
    /\ history' = [history EXCEPT ![w] = Append(@, config)]
    /\ UNCHANGED <<now, trustee, request, latest>>

\* A soft delete: the row keeps its lifecycle, its trustees and its pending round.
DeleteWill(u, t) ==
  \E w \in LiveWills(u) :
    /\ will' = [will EXCEPT ![w] = [@ EXCEPT !.row = "deleted", !.updatedAt = t]]
    /\ UNCHANGED <<now, history, trustee, request, latest>>

CreateTrustee(u, email) ==
  \E w \in LiveWills(u), tr \in Trustees :
    /\ trustee[tr].row = "absent"
    /\ EmailFree(w, email, {})       \* trustees_will_email_uidx
    /\ trustee' = [trustee EXCEPT ![tr] = [row |-> "live", will |-> w, email |-> email]]
    /\ UNCHANGED <<now, will, history, request, latest>>

\* The row is found by id and owner: a live will is required, but the trustee
\* may belong to an earlier, deleted one.
OwnTrustee(u, tr) ==
  /\ LiveWills(u) # {}
  /\ trustee[tr].row = "live"
  /\ will[trustee[tr].will].owner = u

UpdateTrustee(u, tr, email) ==
  /\ OwnTrustee(u, tr)
  /\ EmailFree(trustee[tr].will, email, {tr})
  /\ trustee' = [trustee EXCEPT ![tr] = [@ EXCEPT !.email = email]]
  /\ UNCHANGED <<now, will, history, request, latest>>

WithoutResponses_MutantNoCascade(tr) == latest

\* The responses left when tr is gone (trustee_id ... ON DELETE CASCADE).
WithoutResponses(tr) == [r \in Requests |-> [latest[r] EXCEPT ![tr] = NoResponse]]

DeleteTrustee(u, tr) ==
  /\ OwnTrustee(u, tr)
  /\ trustee' = [trustee EXCEPT ![tr] = [@ EXCEPT !.row = "deleted"]]
  /\ latest' = WithoutResponses(tr)
  /\ UNCHANGED <<now, will, history, request>>

CancelRounds_MutantForgotten(w) == request

CancelRounds_MutantUnknownStatus(w) ==
  [r \in Requests |-> IF r \in PendingRounds(w)
                      THEN [request[r] EXCEPT !.status = "expired"] ELSE request[r]]

CancelRounds_MutantResolvedToo(w) ==
  [r \in Requests |-> IF request[r].status # "absent" /\ request[r].will = w
                      THEN [request[r] EXCEPT !.status = "cancelled"] ELSE request[r]]

CancelRounds(w) ==
  [r \in Requests |-> IF r \in PendingRounds(w)
                      THEN [request[r] EXCEPT !.status = "cancelled"] ELSE request[r]]

RestoredRow_MutantKeepsGrace(row, t) ==
  [row EXCEPT !.lifecycle = "active", !.lastHeartbeat = t, !.pendingStarted = Never,
              !.readyAt = Never, !.updatedAt = t]

\* A will restored from any later stage.
RestoredRow(row, t) ==
  [row EXCEPT !.lifecycle = "active", !.lastHeartbeat = t, !.pendingStarted = Never,
              !.graceStarted = Never, !.readyAt = Never, !.updatedAt = t]

SubmitHeartbeat(u, t) ==
  \E w \in LiveWills(u) :
    /\ IF will[w].lifecycle = "active"
       THEN /\ will' = [will EXCEPT ![w] = [@ EXCEPT !.lastHeartbeat = t, !.updatedAt = t]]
            /\ UNCHANGED request
       ELSE /\ will' = [will EXCEPT ![w] = RestoredRow(@, t)]
            /\ request' = CancelRounds(w)
    /\ UNCHANGED <<now, history, trustee, latest>>

-----------------------------------------------------------------------------
\* Transactions of the lifecycle worker: the two cases of transitionSingleWill

Dormant(w, t) ==
  /\ will[w].lifecycle = "active"
  /\ Assigned(w) # {}
  /\ t >= DormancyReference(w) + will[w].config.dormancy

GraceOver_MutantFromPending(w, t) ==
  /\ will[w].lifecycle = "grace_period"
  /\ t >= will[w].pendingStarted + will[w].config.grace

GraceOver(w, t) ==
  /\ will[w].lifecycle = "grace_period"
  /\ will[w].graceStarted # Never
  /\ t >= will[w].graceStarted + will[w].config.grace

StartVerification(u, t) ==
  \E w \in LiveWills(u), r \in Requests :
    /\ Dormant(w, t)
    /\ request[r].status = "absent"
    /\ will' = [will EXCEPT ![w] =
         [@ EXCEPT !.lifecycle = "pending_verification", !.pendingStarted = t,
                   !.updatedAt = t]]
    /\ request' = [request EXCEPT ![r] =
         [status |-> "pending", will |-> w,
          threshold |-> Majority(Cardinality(Assigned(w)))]]
    /\ UNCHANGED <<now, history, trustee, latest>>

EndGrace(u, t) ==
  \E w \in LiveWills(u) :
    /\ GraceOver(w, t)
    /\ will' = [will EXCEPT ![w] =
         [@ EXCEPT !.lifecycle = "ready_for_execution", !.readyAt = t, !.updatedAt = t]]
    /\ UNCHANGED <<now, history, trustee, request, latest>>

-----------------------------------------------------------------------------
\* A trustee's response.  The row locks do not look at deleted_at.

RecordVerificationDecision(email, r, decision, t) ==
  LET w == request[r].will IN
  /\ request[r].status = "pending"
  /\ will[w].lifecycle = "pending_verification"
  /\ \E tr \in Assigned(w) :
       /\ trustee[tr].email = email
       /\ \E newest \in Newer(latest[r][tr], [at |-> t, decision |-> decision]) :
            latest' = [latest EXCEPT ![r][tr] = newest]
  /\ IF Cardinality(Approvers(latest', r)) >= request[r].threshold
     THEN /\ will' = [will EXCEPT ![w] =
               [@ EXCEPT !.lifecycle = "grace_period", !.graceStarted = t, !.updatedAt = t]]
          /\ request' = [request EXCEPT ![r] = [@ EXCEPT !.status = "resolved"]]
     ELSE UNCHANGED <<will, request>>
  /\ UNCHANGED <<now, history, trustee>>

-----------------------------------------------------------------------------

Tick ==
  /\ now < MaxTime
  /\ now' = now + 1
  /\ UNCHANGED store

AnyUser      == CHOOSE u \in Users : TRUE
AnyWill      == CHOOSE w \in Wills : TRUE
AnyEmail     == CHOOSE e \in Emails : TRUE
AnyConfig    == CHOOSE c \in Config : TRUE

\* Empty tables; an absent row holds placeholders nothing reads.
Init ==
  /\ now = 0
  /\ will = [w \in Wills |->
       [row |-> "absent", owner |-> AnyUser, config |-> AnyConfig, version |-> 0,
        lifecycle |-> "active", lastHeartbeat |-> Never, pendingStarted |-> Never,
        graceStarted |-> Never, readyAt |-> Never, updatedAt |-> 0]]
  /\ history = [w \in Wills |-> <<>>]
  /\ trustee = [tr \in Trustees |-> [row |-> "absent", will |-> AnyWill, email |-> AnyEmail]]
  /\ request = [r \in Requests |-> [status |-> "absent", will |-> AnyWill, threshold |-> 0]]
  /\ latest = [r \in Requests |-> [tr \in Trustees |-> NoResponse]]

OwnerStep(u, t) ==
  \/ \E config \in Config : CreateWill(u, config, t)
  \/ \E config \in Config : UpdateWill(u, config, t)
  \/ DeleteWill(u, t)
  \/ \E email \in Emails : CreateTrustee(u, email)
  \/ \E tr \in Trustees, email \in Emails : UpdateTrustee(u, tr, email)
  \/ \E tr \in Trustees : DeleteTrustee(u, tr)
  \/ SubmitHeartbeat(u, t)

WorkerStep(u, t) == StartVerification(u, t) \/ EndGrace(u, t)

TrusteeStep(t) ==
  \E email \in Emails, r \in Requests, decision \in Decisions :
    RecordVerificationDecision(email, r, decision, t)

Next ==
  \/ Tick
  \/ \E t \in ClockReading :
       \/ \E u \in Users : OwnerStep(u, t) \/ WorkerStep(u, t)
       \/ TrusteeStep(t)

Spec == Init /\ [][Next]_vars

-----------------------------------------------------------------------------
\* Properties

TypeOK ==
  /\ now \in Time
  /\ will \in [Wills -> WillRow]
  /\ history \in [Wills -> Seq(Config)]
  /\ trustee \in [Trustees -> TrusteeRow]
  /\ request \in [Requests -> RequestRow]
  /\ latest \in [Requests -> [Trustees -> Response]]

\* A will is pending verification exactly while one round of it is open, live
\* or deleted alike: no state strands a will in pending_verification with
\* nothing to vote on, leaves an open round behind a restored will, or makes
\* verification_requests_pending_will_uidx refuse the worker's next round.
RoundMatchesLifecycle ==
  \A w \in Wills :
    IF will[w].lifecycle = "pending_verification"
    THEN \E r \in Requests : PendingRounds(w) = {r}
    ELSE PendingRounds(w) = {}

\* The three stage timestamps say what the lifecycle column says: heartbeat
\* recovery clears every one of them, from whichever stage it restores.
TimestampsMatchLifecycle ==
  \A w \in Wills :
    /\ will[w].pendingStarted = Never <=> will[w].lifecycle = "active"
    /\ will[w].graceStarted # Never <=>
         will[w].lifecycle \in {"grace_period", "ready_for_execution"}
    /\ will[w].readyAt # Never <=> will[w].lifecycle = "ready_for_execution"

\* The current row of a will is its last immutable snapshot, and its version
\* number counts the snapshots, so UNIQUE (will_id, version) never refuses one.
VersionMatchesHistory ==
  \A w \in Wills : will[w].row # "absent" =>
    /\ will[w].version = Len(history[w])
    /\ will[w].config = history[w][Len(history[w])]

\* A response is counted only while the trustee it came from is still
\* configured for the will under verification: no approval outlives its
\* trustee, and none comes from another will's contact.
ResponsesComeFromTrustees ==
  \A r \in Requests, tr \in Trustees :
    latest[r][tr] # NoResponse =>
      /\ request[r].status # "absent"
      /\ tr \in Assigned(request[r].will)

KeepsClosedRounds ==
  \A r \in Requests :
    /\ request[r].status \in {"resolved", "cancelled"} => request'[r] = request[r]
    /\ request[r].status # "absent" =>
         /\ request'[r].will = request[r].will
         /\ request'[r].threshold = request[r].threshold

\* A round that was resolved or cancelled is never reopened or rewritten, and an
\* open one never changes its will or threshold: a late answer cannot revive a
\* verification that a heartbeat ended.
ClosedRoundsStayClosed == [][KeepsClosedRounds]_vars

OpensGraceByApproval ==
  \A w \in Wills :
    will[w].lifecycle # "grace_period" /\ will'[w].lifecycle = "grace_period" =>
      \E r \in PendingRounds(w) :
        /\ request'[r].status = "resolved"
        /\ \E panel \in SUBSET Assigned(w) :
             /\ Cardinality(panel) >= request[r].threshold
             /\ \A tr \in panel : latest'[r][tr].decision = "approve"

\* A grace period opens only on a step that resolves a round of that very will
\* with at least the round's threshold of distinct trustees, all assigned to the
\* will, whose newest response approves.
GraceNeedsApprovals == [][OpensGraceByApproval]_vars

LeavesDeletedAlone ==
  \A w \in Wills : will[w].row = "deleted" =>
    /\ will'[w].row = "deleted"
    /\ will'[w].config = will[w].config
    /\ history'[w] = history[w]
    /\ will'[w].lifecycle # will[w].lifecycle =>
         /\ will[w].lifecycle = "pending_verification"
         /\ will'[w].lifecycle = "grace_period"

\* Nothing an owner or the worker does moves a deleted will: its configuration and
\* history are frozen, and only a trustee's decision may still move it, from
\* pending_verification to grace_period.  Its trustees are not: an owner with a
\* new will may still edit and delete those of the old one (OwnTrustee).
DeletedWillsKeepTheirConfig == [][LeavesDeletedAlone]_vars
=============================================================================
