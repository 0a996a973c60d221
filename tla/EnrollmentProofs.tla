-------------------------- MODULE EnrollmentProofs --------------------------
(***************************************************************************)
(* The calls and sweeps of EnrollmentService only ever do what WillStore   *)
(* allows, so what WillStoreProofs shows of the tables holds of the        *)
(* running service, with calls overlapping or not.  The authoring rules    *)
(* hold when one call or sweep runs at a time, by the argument the code    *)
(* relies on: what a call checked is still so when its transaction runs.   *)
(***************************************************************************)
EXTENDS EnrollmentService, WillStoreProofs

\* A member of Calls has the fields its operation reads.
LEMMA TransactionIsOwnerStep ==
  ASSUME NEW c \in Calls, NEW t, Transaction(c, t)
  PROVE  \E u \in Users : OwnerStep(u, t)
<1>1. CASE c.op = "create_will" /\ CreateWill(c.user, c.config, t)
  <2>1. c.user \in Users /\ c.config \in Config
    BY <1>1 DEF Calls
  <2> QED BY <1>1, <2>1 DEF OwnerStep
<1>2. CASE c.op = "update_will" /\ UpdateWill(c.user, c.config, t)
  <2>1. c.user \in Users /\ c.config \in Config
    BY <1>2 DEF Calls
  <2> QED BY <1>2, <2>1 DEF OwnerStep
<1>3. CASE c.op = "create_trustee" /\ CreateTrustee(c.user, c.email)
  <2>1. c.user \in Users /\ c.email \in Emails
    BY <1>3 DEF Calls
  <2> QED BY <1>3, <2>1 DEF OwnerStep
<1>4. CASE c.op = "update_trustee" /\ UpdateTrustee(c.user, c.trustee, c.email)
  <2>1. c.user \in Users /\ c.trustee \in Trustees /\ c.email \in Emails
    BY <1>4 DEF Calls
  <2> QED BY <1>4, <2>1 DEF OwnerStep
<1>5. CASE c.op = "delete_trustee" /\ DeleteTrustee(c.user, c.trustee)
  <2>1. c.user \in Users /\ c.trustee \in Trustees
    BY <1>5 DEF Calls
  <2> QED BY <1>5, <2>1 DEF OwnerStep
<1> QED BY <1>1, <1>2, <1>3, <1>4, <1>5 DEF Transaction

CallsTyped == call \in [Callers -> Calls \union {NoCall}]

LEMMA CallsStep ==
  ASSUME CallsTyped, [ServiceNext]_serviceVars
  PROVE  CallsTyped'
<1>1. ASSUME NEW p \in Callers, NEW c \in Calls, Begin(p, c)
      PROVE  CallsTyped'
  BY <1>1 DEF Begin, CallsTyped
<1>2. ASSUME NEW p \in Callers, NEW t \in ClockReading, Commit(p, t)
      PROVE  CallsTyped'
  BY <1>2 DEF Commit, Finish, CallsTyped
<1>3. ASSUME UNCHANGED call
      PROVE  CallsTyped'
  BY <1>3 DEF CallsTyped
<1>4. ASSUME NEW p \in Callers, Fail(p)
      PROVE  CallsTyped'
  BY <1>4 DEF Fail, Finish, CallsTyped
<1> QED
  BY <1>1, <1>2, <1>3, <1>4
  DEF ServiceNext, ClockTick, CountTrustees, Direct, StartSweep, SweepTransition,
      SweepNothingDue, AbortSweep, serviceVars

\* Every step of the service is a store step, or leaves the tables alone.
LEMMA ServiceStepIsStoreStep ==
  ASSUME CallsTyped, [ServiceNext]_serviceVars
  PROVE  [Next]_vars
<1>1. ASSUME NEW p \in Callers, NEW t \in ClockReading, Commit(p, t)
      PROVE  Next
  <2>1. call[p] \in Calls
    BY <1>1 DEF Commit, CallsTyped
  <2>2. \E u \in Users : OwnerStep(u, t)
    BY <1>1, <2>1, TransactionIsOwnerStep DEF Commit
  <2> QED BY <2>2 DEF Next
<1>2. ASSUME NEW t \in ClockReading, Direct(t)
      PROVE  Next
  BY <1>2 DEF Direct, Next, OwnerStep
<1>3. ASSUME NEW u \in Users, SweepTransition(u)
      PROVE  Next
  BY <1>3 DEF SweepTransition, Next
<1>4. CASE ClockTick
  BY <1>4 DEF ClockTick, Next
<1> QED
  BY <1>1, <1>2, <1>3, <1>4
  DEF ServiceNext, Begin, CountTrustees, Fail, StartSweep, SweepNothingDue, AbortSweep,
      serviceVars

\* The service implements the store specification: no call, sweep or failure
\* does anything to the tables but run one of the store's transactions.
THEOREM ServiceImplementsStore == ServiceSpec => Spec
<1>1. ServiceInit => Init /\ CallsTyped
  BY DEF ServiceInit, CallsTyped
<1>2. CallsTyped /\ [ServiceNext]_serviceVars => CallsTyped' /\ [Next]_vars
  BY CallsStep, ServiceStepIsStoreStep
<1> QED BY <1>1, <1>2, PTL DEF ServiceSpec, Spec

\* Overlapping calls cannot break the tables' own consistency: a pending will of
\* the running service has exactly one open round.
THEOREM ServiceRoundsMatch == ServiceSpec => []RoundMatchesLifecycle
BY ServiceImplementsStore, RoundsMatch

\* Nor can they open a grace period no trustees approved.
THEOREM ServiceGraceIsApproved == ServiceSpec => GraceNeedsApprovals
BY ServiceImplementsStore, GraceIsApproved

-----------------------------------------------------------------------------
\* Types, with calls overlapping or not.

WorkerTyped ==
  /\ stage \in [Callers -> {"count", "commit"}]
  /\ sweep \in [at : TimeOrNull, todo : SUBSET Users]
  /\ sweep.todo = {} <=> sweep.at = Never

LEMMA SweptTypes ==
  ASSUME WorkerTyped, NEW u \in sweep.todo, Swept(u)
  PROVE  /\ sweep' \in [at : TimeOrNull, todo : SUBSET Users]
         /\ sweep'.todo = {} <=> sweep'.at = Never
         /\ sweep'.todo \subseteq sweep.todo
<1>1. CASE sweep.todo = {u}
  BY <1>1 DEF Swept, NoSweep, WorkerTyped, TimeOrNull
<1>2. CASE sweep.todo # {u}
  BY <1>2 DEF Swept, WorkerTyped
<1> QED BY <1>1, <1>2

LEMMA WorkerStepTypes ==
  ASSUME TypeOK, WorkerTyped, [ServiceNext]_serviceVars
  PROVE  WorkerTyped'
<1>1. ASSUME NEW p \in Callers, NEW c \in Calls, Begin(p, c)
      PROVE  WorkerTyped'
  BY <1>1 DEF Begin, WorkerTyped
<1>2. ASSUME NEW p \in Callers, CountTrustees(p)
      PROVE  WorkerTyped'
  BY <1>2 DEF CountTrustees, WorkerTyped
<1>3. ASSUME NEW p \in Callers, Finish(p), UNCHANGED sweep
      PROVE  WorkerTyped'
  BY <1>3 DEF Finish, WorkerTyped
<1>4. CASE StartSweep
  <2>1. Overdue \subseteq Users /\ Overdue # {}
    BY <1>4 DEF StartSweep, Overdue
  <2>2. now \in Nat /\ now # Never
    BY DEF TypeOK, Time, Never
  <2> QED BY <1>4, <2>1, <2>2 DEF StartSweep, WorkerTyped, TimeOrNull, Time
<1>5. ASSUME NEW u \in sweep.todo, Swept(u), UNCHANGED stage
      PROVE  WorkerTyped'
  BY <1>5, SweptTypes DEF WorkerTyped
<1>6. CASE AbortSweep
  BY <1>6 DEF AbortSweep, NoSweep, WorkerTyped, TimeOrNull
<1>7. CASE UNCHANGED <<stage, sweep>>
  BY <1>7 DEF WorkerTyped
<1> QED
  BY <1>1, <1>2, <1>3, <1>4, <1>5, <1>6, <1>7
  DEF ServiceNext, ClockTick, Commit, Fail, Direct, SweepTransition, SweepNothingDue,
      serviceVars

LEMMA WorkerInitTypes == ServiceInit => WorkerTyped
BY DEF ServiceInit, WorkerTyped, NoSweep, TimeOrNull

\* Every call, sweep and failure keeps the service's state well typed, and a
\* sweep under way always has an owner left to look at.
THEOREM ServiceTypes == ServiceSpec => []ServiceTypeOK
<1>1. ServiceInit => CallsTyped /\ WorkerTyped
  BY WorkerInitTypes DEF ServiceInit, CallsTyped
<1>2. TypeOK /\ CallsTyped /\ WorkerTyped /\ [ServiceNext]_serviceVars
        => CallsTyped' /\ WorkerTyped'
  BY CallsStep, WorkerStepTypes
<1>3. TypeOK /\ CallsTyped /\ WorkerTyped => ServiceTypeOK
  BY DEF CallsTyped, WorkerTyped, ServiceTypeOK
<1>4. ServiceSpec => []TypeOK
  BY ServiceImplementsStore, TypeCorrectness
<1> QED BY <1>1, <1>2, <1>3, <1>4, PTL DEF ServiceSpec

-----------------------------------------------------------------------------
\* One call or sweep at a time: what a call or sweep checked stays so.

OneLiveWill ==
  \A w, x \in Wills :
    will[w].row = "live" /\ will[x].row = "live" /\ will[w].owner = will[x].owner => w = x

OneAtATime ==
  /\ sweep # NoSweep => \A p \in Callers : call[p] = NoCall
  /\ \A p, q \in Callers : call[p] # NoCall /\ call[q] # NoCall => p = q

ChecksHold ==
  \A p \in Callers : call[p] # NoCall =>
    /\ Admitted(call[p])
    /\ stage[p] = "commit" /\ NeedsCount(call[p]) => EnoughTrustees(call[p])

SweepIsCurrent ==
  \A u \in sweep.todo : \A w \in LiveWills(u) : will[w].config.status = "published"

LEMMA OneLiveStep ==
  ASSUME TypeOK, OneLiveWill, [Next]_vars
  PROVE  OneLiveWill'
<1> USE DEF TypeOK, WillRow
<1>1. ASSUME NEW t, NEW u \in Users, NEW config \in Config, CreateWill(u, config, t)
      PROVE  OneLiveWill'
  BY <1>1 DEF CreateWill, OneLiveWill, LiveWills
<1>2. ASSUME \A w \in Wills : /\ will'[w].owner = will[w].owner
                              /\ will'[w].row = "live" => will[w].row = "live"
      PROVE  OneLiveWill'
  BY <1>2 DEF OneLiveWill
<1>3. ASSUME NEW t, NEW u \in Users, NEW config \in Config, UpdateWill(u, config, t)
      PROVE  OneLiveWill'
  BY <1>3, <1>2 DEF UpdateWill
<1>4. ASSUME NEW t, NEW u \in Users, DeleteWill(u, t)
      PROVE  OneLiveWill'
  BY <1>4, <1>2 DEF DeleteWill
<1>5. ASSUME NEW t, NEW u \in Users, SubmitHeartbeat(u, t)
      PROVE  OneLiveWill'
  <2>1. PICK w \in Wills :
          \/ will' = [will EXCEPT ![w] = [@ EXCEPT !.lastHeartbeat = t, !.updatedAt = t]]
          \/ will' = [will EXCEPT ![w] = RestoredRow(@, t)]
    BY <1>5 DEF SubmitHeartbeat, LiveWills
  <2>2. CASE will' = [will EXCEPT ![w] = RestoredRow(@, t)]
    BY <2>2, <1>2 DEF RestoredRow
  <2>3. CASE will' = [will EXCEPT ![w] = [@ EXCEPT !.lastHeartbeat = t, !.updatedAt = t]]
    BY <2>3, <1>2
  <2> QED BY <2>1, <2>2, <2>3
<1>6. ASSUME NEW t, NEW u \in Users, StartVerification(u, t)
      PROVE  OneLiveWill'
  BY <1>6, <1>2 DEF StartVerification
<1>7. ASSUME NEW t, NEW u \in Users, EndGrace(u, t)
      PROVE  OneLiveWill'
  BY <1>7, <1>2 DEF EndGrace
<1>8. ASSUME NEW t, TrusteeStep(t)
      PROVE  OneLiveWill'
  <2>1. PICK email \in Emails, r \in Requests, decision \in Decisions :
          RecordVerificationDecision(email, r, decision, t)
    BY <1>8 DEF TrusteeStep
  <2>2. \/ UNCHANGED will
        \/ will' = [will EXCEPT ![request[r].will] =
              [@ EXCEPT !.lifecycle = "grace_period", !.graceStarted = t, !.updatedAt = t]]
    BY <2>1 DEF RecordVerificationDecision
  <2>3. request[r].will \in Wills
    BY DEF RequestRow
  <2>4. CASE UNCHANGED will
    BY <2>4, <1>2
  <2>5. CASE will' = [will EXCEPT ![request[r].will] =
              [@ EXCEPT !.lifecycle = "grace_period", !.graceStarted = t, !.updatedAt = t]]
    BY <2>3, <2>5, <1>2
  <2> QED BY <2>2, <2>4, <2>5
<1>9. ASSUME UNCHANGED will
      PROVE  OneLiveWill'
  BY <1>9, <1>2
<1> QED
  BY <1>1, <1>3, <1>4, <1>5, <1>6, <1>7, <1>8, <1>9
  DEF Next, OwnerStep, WorkerStep, Tick, CreateTrustee, UpdateTrustee, DeleteTrustee,
      vars, store

LEMMA CallIsNoNoCall ==
  ASSUME NEW c \in Calls
  PROVE  c # NoCall
<1>1. c.op \in {"create_will", "update_will", "create_trustee", "update_trustee",
                "delete_trustee"}
  BY DEF Calls
<1> QED BY <1>1 DEF NoCall

\* A call or sweep that starts finds nothing else under way.
LEMMA OneAtATimeStep ==
  ASSUME ~Overlap, CallsTyped, WorkerTyped, OneAtATime, [ServiceNext]_serviceVars
  PROVE  OneAtATime'
<1>1. ASSUME NEW p \in Callers, NEW c \in Calls, Begin(p, c)
      PROVE  OneAtATime'
  BY <1>1 DEF Begin, MayBegin, InFlight, OneAtATime, CallsTyped
<1>2. ASSUME NEW p \in Callers, Finish(p), UNCHANGED sweep
      PROVE  OneAtATime'
  BY <1>2 DEF Finish, OneAtATime, CallsTyped
<1>3. CASE StartSweep
  BY <1>3 DEF StartSweep, MayBegin, InFlight, OneAtATime
<1>4. ASSUME sweep # NoSweep, UNCHANGED call
      PROVE  OneAtATime'
  BY <1>4 DEF OneAtATime
<1>5. ASSUME UNCHANGED <<call, sweep>>
      PROVE  OneAtATime'
  BY <1>5 DEF OneAtATime
<1>6. ASSUME NEW u \in Users, SweepTransition(u) \/ SweepNothingDue(u)
      PROVE  OneAtATime'
  BY <1>6, <1>4 DEF SweepTransition, SweepNothingDue, NoSweep
<1> QED
  BY <1>1, <1>2, <1>3, <1>4, <1>5, <1>6
  DEF ServiceNext, ClockTick, CountTrustees, Commit, Fail, Direct, AbortSweep, serviceVars

\* Nothing writes the tables between a call's check and its transaction.
LEMMA ChecksStep ==
  ASSUME ~Overlap, CallsTyped, WorkerTyped, OneAtATime, ChecksHold,
         [ServiceNext]_serviceVars
  PROVE  ChecksHold'
<1>1. ASSUME UNCHANGED <<will, trustee>>, NEW c
      PROVE  /\ Admitted(c) <=> Admitted(c)'
             /\ NeedsCount(c) <=> NeedsCount(c)'
             /\ EnoughTrustees(c) <=> EnoughTrustees(c)'
  BY <1>1 DEF Admitted, NeedsCount, EnoughTrustees, Editable, Published, TrusteeCount,
              LiveWills, Assigned
<1>2. ASSUME UNCHANGED <<will, trustee, call, stage>>
      PROVE  ChecksHold'
  BY <1>2, <1>1 DEF ChecksHold
<1>3. ASSUME NEW p \in Callers, NEW c \in Calls, Begin(p, c)
      PROVE  ChecksHold'
  <2>1. UNCHANGED <<will, trustee>> /\ Admitted(c)
    BY <1>3 DEF Begin, vars, store
  <2>2. \A q \in Callers : call'[q] = IF q = p THEN c ELSE call[q]
    BY <1>3 DEF Begin, CallsTyped
  <2>3. \A q \in Callers :
          stage'[q] = IF q = p THEN (IF NeedsCount(c) THEN "count" ELSE "commit")
                               ELSE stage[q]
    BY <1>3 DEF Begin, WorkerTyped
  <2> QED BY <2>1, <2>2, <2>3, <1>1 DEF ChecksHold
<1>4. ASSUME NEW p \in Callers, CountTrustees(p)
      PROVE  ChecksHold'
  <2>1. UNCHANGED <<will, trustee, call>> /\ EnoughTrustees(call[p])
    BY <1>4 DEF CountTrustees, vars, store
  <2>2. \A q \in Callers : q # p => stage'[q] = stage[q]
    BY <1>4 DEF CountTrustees, WorkerTyped
  <2> QED BY <2>1, <2>2, <1>1 DEF ChecksHold
<1>5. ASSUME NEW p \in Callers, call[p] # NoCall, Finish(p)
      PROVE  ChecksHold'
  BY <1>5 DEF Finish, ChecksHold, OneAtATime, CallsTyped
<1>6. ASSUME \A p \in Callers : call[p] = NoCall, UNCHANGED call
      PROVE  ChecksHold'
  BY <1>6 DEF ChecksHold
<1>7. ASSUME NEW u \in Users, SweepTransition(u) \/ SweepNothingDue(u)
      PROVE  ChecksHold'
  BY <1>7, <1>6 DEF SweepTransition, SweepNothingDue, OneAtATime, NoSweep
<1>8. CASE \E t \in ClockReading : Direct(t)
  BY <1>8, <1>6 DEF Direct, MayBegin, InFlight
<1>9. CASE ClockTick \/ StartSweep \/ AbortSweep \/ UNCHANGED serviceVars
  BY <1>9, <1>2 DEF ClockTick, Tick, StartSweep, AbortSweep, serviceVars, vars, store
<1> QED
  BY <1>3, <1>4, <1>5, <1>7, <1>8, <1>9 DEF ServiceNext, Commit, Fail

\* An owner on the sweep's list still has no live will but a published one.
LEMMA SweepStep ==
  ASSUME ~Overlap, TypeOK, CallsTyped, WorkerTyped, OneLiveWill, OneAtATime, SweepIsCurrent,
         [ServiceNext]_serviceVars
  PROVE  SweepIsCurrent'
<1>1. ASSUME sweep'.todo \subseteq sweep.todo,
             \A w \in Wills : will'[w].row = "live" =>
               /\ will[w].row = "live"
               /\ will'[w].owner = will[w].owner
               /\ will'[w].config = will[w].config
      PROVE  SweepIsCurrent'
  BY <1>1 DEF SweepIsCurrent, LiveWills
<1>2. CASE StartSweep
  <2>1. sweep'.todo = Overdue /\ UNCHANGED will
    BY <1>2 DEF StartSweep, vars, store
  <2> QED BY <2>1 DEF Overdue, LiveWills, SweepIsCurrent, OneLiveWill
<1>3. ASSUME NEW u \in Users, SweepTransition(u)
      PROVE  SweepIsCurrent'
  <2>1. sweep'.todo \subseteq sweep.todo
    BY <1>3, SweptTypes DEF SweepTransition
  <2>2. PICK w \in Wills :
          \/ will' = [will EXCEPT ![w] =
               [will[w] EXCEPT !.lifecycle = "pending_verification",
                               !.pendingStarted = sweep.at, !.updatedAt = sweep.at]]
          \/ will' = [will EXCEPT ![w] =
               [will[w] EXCEPT !.lifecycle = "ready_for_execution", !.readyAt = sweep.at,
                               !.updatedAt = sweep.at]]
    BY <1>3 DEF SweepTransition, WorkerStep, StartVerification, EndGrace, LiveWills
  <2> DEFINE Kept == \A x \in Wills : /\ will'[x].row = will[x].row
                                     /\ will'[x].owner = will[x].owner
                                     /\ will'[x].config = will[x].config
  <2>3. CASE will' = [will EXCEPT ![w] =
               [will[w] EXCEPT !.lifecycle = "pending_verification",
                               !.pendingStarted = sweep.at, !.updatedAt = sweep.at]]
    <3>1. Kept
      BY <2>3 DEF TypeOK, WillRow
    <3> QED BY <3>1, <2>1, <1>1
  <2>4. CASE will' = [will EXCEPT ![w] =
               [will[w] EXCEPT !.lifecycle = "ready_for_execution", !.readyAt = sweep.at,
                               !.updatedAt = sweep.at]]
    <3>1. Kept
      BY <2>4 DEF TypeOK, WillRow
    <3> QED BY <3>1, <2>1, <1>1
  <2> QED BY <2>2, <2>3, <2>4
<1>4. ASSUME NEW u \in Users, SweepNothingDue(u)
      PROVE  SweepIsCurrent'
  BY <1>4, <1>1, SweptTypes DEF SweepNothingDue, vars, store
<1>5. CASE AbortSweep
  BY <1>5, <1>1 DEF AbortSweep, NoSweep, vars, store
<1>6. ASSUME sweep = NoSweep, UNCHANGED sweep
      PROVE  SweepIsCurrent'
  BY <1>6 DEF SweepIsCurrent, NoSweep
<1>7. ASSUME NEW p \in Callers, NEW t \in ClockReading, Commit(p, t)
      PROVE  SweepIsCurrent'
  BY <1>7, <1>6 DEF Commit, OneAtATime
<1>8. CASE \E t \in ClockReading : Direct(t)
  BY <1>8, <1>6 DEF Direct, MayBegin, InFlight
<1>9. ASSUME UNCHANGED <<will, sweep>>
      PROVE  SweepIsCurrent'
  BY <1>9, <1>1
<1> QED
  BY <1>2, <1>3, <1>4, <1>5, <1>7, <1>8, <1>9
  DEF ServiceNext, ClockTick, Tick, Begin, CountTrustees, Fail, serviceVars, vars, store

-----------------------------------------------------------------------------
\* The four rules of one will, and what each transaction does to them when the
\* checks its call made still hold.

FollowsRules(w) ==
  will[w].row = "live" =>
    /\ will[w].config.status = "published" => Assigned(w) # {}
    /\ will[w].lifecycle # "active" =>
         will[w].config.status = "published" /\ Assigned(w) # {}
    /\ \A r \in PendingRounds(w) :
         request[r].threshold = Majority(Cardinality(Assigned(w)))
    /\ will[w].lifecycle = "ready_for_execution" =>
         will[w].readyAt >= will[w].graceStarted + will[w].config.grace

RulesFollowed == \A w \in Wills : FollowsRules(w)

\* A will a transaction leaves alone, but for rounds it closes.
LEMMA RulesKept ==
  ASSUME NEW w \in Wills, FollowsRules(w), will'[w] = will[w], Assigned(w)' = Assigned(w),
         \A r \in PendingRounds(w)' :
           r \in PendingRounds(w) /\ request'[r].threshold = request[r].threshold
  PROVE  FollowsRules(w)'
BY DEF FollowsRules

LEMMA RulesFrame ==
  ASSUME NEW w \in Wills, FollowsRules(w), will'[w] = will[w],
         UNCHANGED request, Assigned(w)' = Assigned(w)
  PROVE  FollowsRules(w)'
BY DEF FollowsRules, PendingRounds

\* A will of another owner, or an earlier one, is not the owner's live will.
LEMMA OnlyLiveWill ==
  ASSUME OneLiveWill, NEW u, NEW w \in LiveWills(u)
  PROVE  /\ LiveWills(u) = {w}
         /\ TrusteeCount(u) = Cardinality(Assigned(w))
<1>1. LiveWills(u) = {w}
  BY DEF OneLiveWill, LiveWills
<1>2. UNION {Assigned(x) : x \in LiveWills(u)} = Assigned(w)
  BY <1>1
<1> QED BY <1>1, <1>2 DEF TrusteeCount

LEMMA AssignedCount ==
  ASSUME NEW w
  PROVE  /\ IsFiniteSet(Assigned(w))
         /\ Cardinality(Assigned(w)) \in Nat
         /\ Cardinality(Assigned(w)) = 0 <=> Assigned(w) = {}
<1>1. IsFiniteSet(Assigned(w))
  BY StoreAssumption, FS_Subset DEF Assigned
<1> QED BY <1>1, FS_CardinalityType, FS_EmptySet

LEMMA MajorityBounds ==
  ASSUME NEW n \in Nat
  PROVE  /\ 2 * Majority(n) > n
         /\ n # 0 => Majority(n) <= n
BY DEF Majority

\* No round is open for a will in any stage but pending verification.
LEMMA NoOpenRound ==
  ASSUME RoundMatchesLifecycle, NEW w \in Wills, will[w].lifecycle # "pending_verification"
  PROVE  PendingRounds(w) = {}
BY DEF RoundMatchesLifecycle

LEMMA CreateWillRules ==
  ASSUME IInv, RulesFollowed, NEW u \in Users, NEW config \in Config, NEW t,
         config.status = "published" => TrusteeCount(u) > 0, CreateWill(u, config, t)
  PROVE  RulesFollowed'
<1>1. config.status # "published"
  <2>1. UNION {Assigned(w) : w \in LiveWills(u)} = {}
    BY DEF CreateWill
  <2>2. TrusteeCount(u) = 0
    BY <2>1, FS_EmptySet DEF TrusteeCount
  <2> QED BY <2>2
<1>2. PICK w \in Wills :
        /\ will[w].row = "absent"
        /\ will' = [will EXCEPT ![w] =
             [row |-> "live", owner |-> u, config |-> config, version |-> 1,
              lifecycle |-> "active", lastHeartbeat |-> Never,
              pendingStarted |-> Never, graceStarted |-> Never,
              readyAt |-> Never, updatedAt |-> t]]
  BY DEF CreateWill
<1>3. \A x \in Wills : Assigned(x)' = Assigned(x) /\ PendingRounds(x)' = PendingRounds(x)
  BY DEF CreateWill, Assigned, PendingRounds
<1>4. FollowsRules(w)'
  <2>1. PendingRounds(w) = {}
    BY <1>2, NoOpenRound DEF IInv, AbsentWillsAreActive
  <2>2. will'[w].config = config /\ will'[w].lifecycle = "active"
    BY <1>2 DEF IInv, TypeOK
  <2> QED BY <1>1, <1>3, <2>1, <2>2 DEF FollowsRules
<1>5. ASSUME NEW x \in Wills, x # w
      PROVE  FollowsRules(x)'
  <2>1. will'[x] = will[x] /\ UNCHANGED request
    BY <1>2, <1>5 DEF CreateWill, IInv, TypeOK
  <2> QED BY <2>1, <1>3, RulesFrame DEF RulesFollowed
<1> QED BY <1>4, <1>5 DEF RulesFollowed

LEMMA UpdateWillRules ==
  ASSUME IInv, OneLiveWill, RulesFollowed, NEW u \in Users, NEW config \in Config, NEW t,
         Editable(u), config.status = "published" => TrusteeCount(u) > 0,
         UpdateWill(u, config, t)
  PROVE  RulesFollowed'
<1>1. PICK w \in LiveWills(u) :
        will' = [will EXCEPT ![w] =
          [@ EXCEPT !.config = config, !.version = will[w].version + 1, !.updatedAt = t]]
  BY DEF UpdateWill
<1>2. w \in Wills /\ will[w].lifecycle = "active"
  BY OnlyLiveWill DEF Editable, LiveWills
<1>3. \A x \in Wills : Assigned(x)' = Assigned(x) /\ PendingRounds(x)' = PendingRounds(x)
  BY DEF UpdateWill, Assigned, PendingRounds
<1>4. FollowsRules(w)'
  <2>1. PendingRounds(w) = {}
    BY <1>2, NoOpenRound DEF IInv
  <2>2. will'[w].config = config /\ will'[w].lifecycle = "active"
    BY <1>1, <1>2 DEF IInv, TypeOK, WillRow
  <2>3. config.status = "published" => Assigned(w) # {}
    BY OnlyLiveWill, AssignedCount
  <2> QED BY <1>2, <1>3, <2>1, <2>2, <2>3 DEF FollowsRules
<1>5. ASSUME NEW x \in Wills, x # w
      PROVE  FollowsRules(x)'
  <2>1. will'[x] = will[x] /\ UNCHANGED request
    BY <1>1, <1>2, <1>5 DEF UpdateWill, IInv, TypeOK
  <2> QED BY <2>1, <1>3, RulesFrame DEF RulesFollowed
<1> QED BY <1>4, <1>5 DEF RulesFollowed

LEMMA DeleteWillRules ==
  ASSUME IInv, RulesFollowed, NEW u \in Users, NEW t, DeleteWill(u, t)
  PROVE  RulesFollowed'
<1>1. PICK w \in Wills : will' = [will EXCEPT ![w] =
        [@ EXCEPT !.row = "deleted", !.updatedAt = t]]
  BY DEF DeleteWill, LiveWills
<1>2. \A x \in Wills : Assigned(x)' = Assigned(x)
  BY DEF DeleteWill, Assigned
<1>3. FollowsRules(w)'
  <2>1. will'[w].row = "deleted"
    BY <1>1 DEF IInv, TypeOK, WillRow
  <2> QED BY <2>1 DEF FollowsRules
<1>4. ASSUME NEW x \in Wills, x # w
      PROVE  FollowsRules(x)'
  <2>1. will'[x] = will[x] /\ UNCHANGED request
    BY <1>1, <1>4 DEF DeleteWill, IInv, TypeOK
  <2> QED BY <2>1, <1>2, RulesFrame DEF RulesFollowed
<1> QED BY <1>3, <1>4 DEF RulesFollowed

\* A contact is added to the live will only while no round of it is open.
LEMMA CreateTrusteeRules ==
  ASSUME IInv, OneLiveWill, RulesFollowed, NEW u \in Users, NEW email \in Emails,
         Editable(u), CreateTrustee(u, email)
  PROVE  RulesFollowed'
<1>1. PICK w \in LiveWills(u), tr \in Trustees :
        /\ trustee[tr].row = "absent"
        /\ trustee' = [trustee EXCEPT ![tr] = [row |-> "live", will |-> w, email |-> email]]
  BY DEF CreateTrustee
<1>2. w \in Wills /\ will[w].lifecycle = "active"
  BY OnlyLiveWill DEF Editable, LiveWills
<1>3. UNCHANGED <<will, request>>
  BY DEF CreateTrustee
<1>4. FollowsRules(w)'
  <2>1. tr \in Assigned(w)'
    BY <1>1 DEF Assigned, IInv, TypeOK
  <2>2. PendingRounds(w)' = {}
    BY <1>2, <1>3, NoOpenRound DEF IInv, PendingRounds
  <2> QED BY <1>2, <1>3, <2>1, <2>2 DEF FollowsRules
<1>5. ASSUME NEW x \in Wills, x # w
      PROVE  FollowsRules(x)'
  <2>1. Assigned(x)' = Assigned(x)
    BY <1>1, <1>5 DEF Assigned, IInv, TypeOK
  <2> QED BY <2>1, <1>3, RulesFrame DEF RulesFollowed
<1> QED BY <1>4, <1>5 DEF RulesFollowed

LEMMA UpdateTrusteeRules ==
  ASSUME IInv, RulesFollowed, NEW u \in Users, NEW tr \in Trustees, NEW email \in Emails,
         UpdateTrustee(u, tr, email)
  PROVE  RulesFollowed'
<1>1. \A x \in Wills : Assigned(x)' = Assigned(x)
  BY DEF UpdateTrustee, Assigned, IInv, TypeOK, TrusteeRow
<1> QED BY <1>1, RulesFrame DEF UpdateTrustee, RulesFollowed

\* The last contact of a published live will is not removed; contacts of the
\* owner's deleted wills do not count.
LEMMA DeleteTrusteeRules ==
  ASSUME IInv, OneLiveWill, RulesFollowed, NEW u \in Users, NEW tr \in Trustees,
         Editable(u), Published(u) => TrusteeCount(u) > 1, DeleteTrustee(u, tr)
  PROVE  RulesFollowed'
<1>1. PICK w \in LiveWills(u) : will[w].lifecycle = "active"
  BY DEF Editable
<1>2. w \in Wills
  BY DEF LiveWills
<1>3. UNCHANGED <<will, request>>
  BY DEF DeleteTrustee
<1>4. \A x \in Wills : Assigned(x)' = Assigned(x) \ {tr}
  BY DEF DeleteTrustee, Assigned, IInv, TypeOK, TrusteeRow
<1>5. FollowsRules(w)'
  <2>1. ASSUME will[w].config.status = "published"
        PROVE  Assigned(w)' # {}
    <3>1. Cardinality(Assigned(w)) > 1
      BY <2>1, OnlyLiveWill DEF Published
    <3>2. Assigned(w) \subseteq {tr} => Cardinality(Assigned(w)) <= 1
      <4>1. IsFiniteSet({tr}) /\ Cardinality({tr}) = 1
        BY FS_Singleton
      <4> QED BY <4>1, FS_Subset
    <3>3. ~(Assigned(w) \subseteq {tr})
      BY <3>1, <3>2, AssignedCount
    <3> QED BY <3>3, <1>2, <1>4
  <2>2. PendingRounds(w)' = {}
    BY <1>1, <1>2, <1>3, NoOpenRound DEF IInv, PendingRounds
  <2> QED BY <1>1, <1>3, <2>1, <2>2 DEF FollowsRules
<1>6. ASSUME NEW x \in Wills, x # w, will[x].row = "live"
      PROVE  FollowsRules(x)'
  <2>1. will[x].owner # u
    BY <1>6, OnlyLiveWill DEF LiveWills
  <2>2. trustee[tr].will # x
    BY <2>1 DEF DeleteTrustee, OwnTrustee
  <2>3. Assigned(x)' = Assigned(x)
    BY <2>2, <1>4 DEF Assigned
  <2> QED BY <2>3, <1>3, RulesFrame DEF RulesFollowed
<1>7. ASSUME NEW x \in Wills, will[x].row # "live"
      PROVE  FollowsRules(x)'
  BY <1>3, <1>7 DEF FollowsRules
<1> QED BY <1>5, <1>6, <1>7 DEF RulesFollowed

\* A heartbeat takes the will back to active and closes its round.
LEMMA HeartbeatRules ==
  ASSUME IInv, RulesFollowed, NEW u \in Users, NEW t, SubmitHeartbeat(u, t)
  PROVE  RulesFollowed'
<1>1. \A x \in Wills : Assigned(x)' = Assigned(x)
  BY DEF SubmitHeartbeat, Assigned
<1>2. PICK w \in LiveWills(u) :
        IF will[w].lifecycle = "active"
        THEN /\ will' = [will EXCEPT ![w] =
                  [@ EXCEPT !.lastHeartbeat = t, !.updatedAt = t]]
             /\ UNCHANGED request
        ELSE /\ will' = [will EXCEPT ![w] = RestoredRow(@, t)]
             /\ request' = CancelRounds(w)
  BY DEF SubmitHeartbeat
<1>3. w \in Wills
  BY DEF LiveWills
<1>4. CASE will[w].lifecycle = "active"
  <2>1. /\ will'[w].row = will[w].row
        /\ will'[w].config = will[w].config
        /\ will'[w].lifecycle = will[w].lifecycle
        /\ \A x \in Wills : x # w => will'[x] = will[x]
    BY <1>2, <1>3, <1>4 DEF IInv, TypeOK, WillRow
  <2>2. UNCHANGED request /\ \A x \in Wills : PendingRounds(x)' = PendingRounds(x)
    BY <1>2, <1>4 DEF PendingRounds
  <2>3. FollowsRules(w)'
    BY <1>1, <1>3, <1>4, <2>1, <2>2 DEF FollowsRules, RulesFollowed
  <2> QED BY <1>1, <2>1, <2>2, <2>3, RulesFrame DEF RulesFollowed
<1>5. CASE will[w].lifecycle # "active"
  <2>1. /\ will'[w].config = will[w].config
        /\ will'[w].lifecycle = "active"
        /\ \A x \in Wills : x # w => will'[x] = will[x]
    <3>1. will[w] \in WillRow /\ will' = [will EXCEPT ![w] = RestoredRow(will[w], t)]
      BY <1>2, <1>3, <1>5 DEF IInv, TypeOK
    <3>2. RestoredRow(will[w], t).config = will[w].config
          /\ RestoredRow(will[w], t).lifecycle = "active"
      BY <3>1 DEF RestoredRow, WillRow
    <3> QED BY <3>1, <3>2, <1>3 DEF IInv, TypeOK
  <2>2. ASSUME NEW r \in Requests
        PROVE  /\ request'[r].threshold = request[r].threshold
               /\ request'[r].will = request[r].will
               /\ request'[r].status = "pending" =>
                    request[r].status = "pending" /\ request[r].will # w
    BY <1>2, <1>5 DEF CancelRounds, PendingRounds, IInv, TypeOK, RequestRow
  <2>3. PendingRounds(w)' = {}
    BY <2>2 DEF PendingRounds
  <2>4. will[w].row = "live" /\ FollowsRules(w)
    BY <1>3 DEF LiveWills, RulesFollowed
  <2>5. FollowsRules(w)'
    BY <1>1, <1>3, <2>1, <2>3, <2>4 DEF FollowsRules
  <2>6. ASSUME NEW x \in Wills, x # w
        PROVE  FollowsRules(x)'
    <3>1. \A r \in PendingRounds(x)' :
            r \in PendingRounds(x) /\ request'[r].threshold = request[r].threshold
      BY <2>2 DEF PendingRounds
    <3> QED BY <1>1, <2>1, <2>6, <3>1, RulesKept DEF RulesFollowed
  <2> QED BY <2>5, <2>6 DEF RulesFollowed
<1> QED BY <1>4, <1>5

\* A round opens for a published will and asks for a majority of its trustees.
LEMMA StartVerificationRules ==
  ASSUME IInv, RulesFollowed, NEW u \in Users, NEW t,
         \A w \in LiveWills(u) : will[w].config.status = "published",
         StartVerification(u, t)
  PROVE  RulesFollowed'
<1>1. \A x \in Wills : Assigned(x)' = Assigned(x)
  BY DEF StartVerification, Assigned
<1>2. PICK w \in LiveWills(u), r \in Requests :
        /\ Dormant(w, t)
        /\ request[r].status = "absent"
        /\ will' = [will EXCEPT ![w] =
             [@ EXCEPT !.lifecycle = "pending_verification", !.pendingStarted = t,
                       !.updatedAt = t]]
        /\ request' = [request EXCEPT ![r] =
             [status |-> "pending", will |-> w,
              threshold |-> Majority(Cardinality(Assigned(w)))]]
  BY DEF StartVerification
<1>3. w \in Wills
  BY DEF LiveWills
<1>4. /\ will'[w].config = will[w].config
      /\ will'[w].lifecycle = "pending_verification"
      /\ \A x \in Wills : x # w => will'[x] = will[x]
  BY <1>2, <1>3 DEF IInv, TypeOK, WillRow
<1>5. /\ request'[r].will = w
      /\ request'[r].threshold = Majority(Cardinality(Assigned(w)))
      /\ \A q \in Requests : q # r => request'[q] = request[q]
  BY <1>2 DEF IInv, TypeOK
<1>6. FollowsRules(w)'
  <2>1. Assigned(w) # {} /\ PendingRounds(w) = {}
    BY <1>2, <1>3, NoOpenRound DEF Dormant, IInv
  <2>2. \A q \in PendingRounds(w)' : q = r
    BY <2>1, <1>5 DEF PendingRounds
  <2>3. will[w].config.status = "published"
    BY <1>2
  <2> QED BY <1>1, <1>3, <1>4, <1>5, <2>1, <2>2, <2>3 DEF FollowsRules
<1>7. ASSUME NEW x \in Wills, x # w
      PROVE  FollowsRules(x)'
  <2>1. \A q \in PendingRounds(x)' :
          q \in PendingRounds(x) /\ request'[q].threshold = request[q].threshold
    BY <1>5, <1>7 DEF PendingRounds
  <2> QED BY <1>1, <1>4, <1>7, <2>1, RulesKept DEF RulesFollowed
<1> QED BY <1>6, <1>7 DEF RulesFollowed

LEMMA EndGraceRules ==
  ASSUME IInv, RulesFollowed, NEW u \in Users, NEW t, EndGrace(u, t)
  PROVE  RulesFollowed'
<1>1. \A x \in Wills : Assigned(x)' = Assigned(x) /\ PendingRounds(x)' = PendingRounds(x)
  BY DEF EndGrace, Assigned, PendingRounds
<1>2. PICK w \in LiveWills(u) :
        /\ GraceOver(w, t)
        /\ will' = [will EXCEPT ![w] =
             [@ EXCEPT !.lifecycle = "ready_for_execution", !.readyAt = t, !.updatedAt = t]]
  BY DEF EndGrace
<1>3. w \in Wills /\ will[w].row = "live"
  BY DEF LiveWills
<1>4. /\ will'[w].config = will[w].config
      /\ will'[w].graceStarted = will[w].graceStarted
      /\ will'[w].readyAt = t
      /\ \A x \in Wills : x # w => will'[x] = will[x]
  BY <1>2, <1>3 DEF IInv, TypeOK, WillRow
<1>5. UNCHANGED request
  BY DEF EndGrace
<1>6. FollowsRules(w)'
  <2>1. FollowsRules(w) /\ PendingRounds(w) = {}
    BY <1>2, <1>3, NoOpenRound DEF GraceOver, RulesFollowed, IInv
  <2> QED BY <1>1, <1>2, <1>3, <1>4, <2>1 DEF FollowsRules, GraceOver
<1>7. ASSUME NEW x \in Wills, x # w
      PROVE  FollowsRules(x)'
  BY <1>1, <1>4, <1>5, <1>7, RulesFrame DEF RulesFollowed
<1> QED BY <1>6, <1>7 DEF RulesFollowed

LEMMA DecisionRules ==
  ASSUME IInv, RulesFollowed, NEW t, TrusteeStep(t)
  PROVE  RulesFollowed'
<1>1. PICK email \in Emails, r \in Requests, decision \in Decisions :
        RecordVerificationDecision(email, r, decision, t)
  BY DEF TrusteeStep
<1>2. PICK w \in Wills : w = request[r].will /\ will[w].lifecycle = "pending_verification"
  BY <1>1 DEF RecordVerificationDecision, IInv, TypeOK, RequestRow
<1>3. \A x \in Wills : Assigned(x)' = Assigned(x)
  BY <1>1 DEF RecordVerificationDecision, Assigned
<1>4. CASE UNCHANGED <<will, request>>
  BY <1>3, <1>4, RulesFrame DEF RulesFollowed
<1>5. CASE /\ will' = [will EXCEPT ![w] =
                [@ EXCEPT !.lifecycle = "grace_period", !.graceStarted = t, !.updatedAt = t]]
           /\ request' = [request EXCEPT ![r] = [@ EXCEPT !.status = "resolved"]]
  <2>1. /\ will'[w].row = will[w].row
        /\ will'[w].config = will[w].config
        /\ will'[w].lifecycle = "grace_period"
        /\ \A x \in Wills : x # w => will'[x] = will[x]
    BY <1>2, <1>5 DEF IInv, TypeOK, WillRow
  <2>2. \A x \in Wills : \A q \in PendingRounds(x)' :
          q \in PendingRounds(x) /\ request'[q].threshold = request[q].threshold
    BY <1>5 DEF PendingRounds, IInv, TypeOK, RequestRow
  <2>3. FollowsRules(w)'
    <3>1. FollowsRules(w) /\ Assigned(w)' = Assigned(w)
      BY <1>2, <1>3 DEF RulesFollowed
    <3> QED BY <1>2, <2>1, <2>2, <3>1 DEF FollowsRules
  <2>4. ASSUME NEW x \in Wills, x # w
        PROVE  FollowsRules(x)'
    BY <1>3, <2>1, <2>2, <2>4, RulesKept DEF RulesFollowed
  <2> QED BY <2>3, <2>4 DEF RulesFollowed
<1>6. \/ UNCHANGED <<will, request>>
      \/ /\ will' = [will EXCEPT ![w] =
                [@ EXCEPT !.lifecycle = "grace_period", !.graceStarted = t, !.updatedAt = t]]
         /\ request' = [request EXCEPT ![r] = [@ EXCEPT !.status = "resolved"]]
  BY <1>1, <1>2 DEF RecordVerificationDecision
<1> QED BY <1>4, <1>5, <1>6

-----------------------------------------------------------------------------
\* The inductive invariant of the service that runs one call or sweep at a time.

SerialInv ==
  /\ IInv
  /\ CallsTyped
  /\ WorkerTyped
  /\ OneLiveWill
  /\ OneAtATime
  /\ ChecksHold
  /\ SweepIsCurrent
  /\ RulesFollowed

LEMMA SerialInit == ServiceInit => SerialInv
<1> SUFFICES ASSUME ServiceInit
             PROVE  SerialInv
  OBVIOUS
<1>1. IInv /\ CallsTyped /\ WorkerTyped
  BY InitIInv, WorkerInitTypes DEF ServiceInit, CallsTyped
<1>2. \A w \in Wills : will[w].row = "absent"
  BY DEF ServiceInit, Init
<1>3. sweep.todo = {} /\ \A p \in Callers : call[p] = NoCall
  BY DEF ServiceInit, NoSweep
<1>4. OneLiveWill /\ RulesFollowed
  BY <1>2 DEF OneLiveWill, RulesFollowed, FollowsRules
<1> QED
  BY <1>1, <1>3, <1>4 DEF SerialInv, OneAtATime, ChecksHold, SweepIsCurrent

\* A call commits what it checked.
LEMMA CommitRules ==
  ASSUME SerialInv, NEW p \in Callers, NEW t \in ClockReading, Commit(p, t)
  PROVE  RulesFollowed'
<1>1. PICK k \in Calls : k = call[p]
  BY DEF Commit, SerialInv, CallsTyped
<1>2. /\ Admitted(k)
      /\ NeedsCount(k) => EnoughTrustees(k)
      /\ Transaction(k, t)
  BY <1>1 DEF Commit, SerialInv, ChecksHold
<1>3. IInv /\ OneLiveWill /\ RulesFollowed
  BY DEF SerialInv
<1>4. CASE k.op = "create_will" /\ CreateWill(k.user, k.config, t)
  <2>1. k.user \in Users /\ k.config \in Config
    BY <1>4 DEF Calls
  <2>2. k.config.status = "published" => TrusteeCount(k.user) > 0
    BY <1>2, <1>4 DEF NeedsCount, EnoughTrustees
  <2> QED BY <1>3, <1>4, <2>1, <2>2, CreateWillRules
<1>5. CASE k.op = "update_will" /\ UpdateWill(k.user, k.config, t)
  <2>1. k.user \in Users /\ k.config \in Config
    BY <1>5 DEF Calls
  <2>2. Editable(k.user) /\ (k.config.status = "published" => TrusteeCount(k.user) > 0)
    BY <1>2, <1>5 DEF Admitted, NeedsCount, EnoughTrustees
  <2> QED BY <1>3, <1>5, <2>1, <2>2, UpdateWillRules
<1>6. CASE k.op = "create_trustee" /\ CreateTrustee(k.user, k.email)
  <2>1. k.user \in Users /\ k.email \in Emails
    BY <1>6 DEF Calls
  <2>2. Editable(k.user)
    BY <1>2, <1>6 DEF Admitted
  <2> QED BY <1>3, <1>6, <2>1, <2>2, CreateTrusteeRules
<1>7. CASE k.op = "update_trustee" /\ UpdateTrustee(k.user, k.trustee, k.email)
  <2>1. k.user \in Users /\ k.trustee \in Trustees /\ k.email \in Emails
    BY <1>7 DEF Calls
  <2> QED BY <1>3, <1>7, <2>1, UpdateTrusteeRules
<1>8. CASE k.op = "delete_trustee" /\ DeleteTrustee(k.user, k.trustee)
  <2>1. k.user \in Users /\ k.trustee \in Trustees
    BY <1>8 DEF Calls
  <2>2. Editable(k.user) /\ (Published(k.user) => TrusteeCount(k.user) > 1)
    BY <1>2, <1>8 DEF Admitted, NeedsCount, EnoughTrustees
  <2> QED BY <1>3, <1>8, <2>1, <2>2, DeleteTrusteeRules
<1> QED BY <1>2, <1>4, <1>5, <1>6, <1>7, <1>8 DEF Transaction

LEMMA RulesStep ==
  ASSUME SerialInv, [ServiceNext]_serviceVars
  PROVE  RulesFollowed'
<1>1. IInv /\ RulesFollowed
  BY DEF SerialInv
<1>2. ASSUME NEW t \in ClockReading, Direct(t)
      PROVE  RulesFollowed'
  BY <1>1, <1>2, DeleteWillRules, HeartbeatRules, DecisionRules DEF Direct
<1>3. ASSUME NEW u \in Users, SweepTransition(u)
      PROVE  RulesFollowed'
  <2>1. \A w \in LiveWills(u) : will[w].config.status = "published"
    BY <1>3 DEF SweepTransition, SerialInv, SweepIsCurrent
  <2> QED
    BY <1>1, <1>3, <2>1, StartVerificationRules, EndGraceRules
    DEF SweepTransition, WorkerStep
<1>4. ASSUME UNCHANGED <<will, trustee, request>>
      PROVE  RulesFollowed'
  BY <1>1, <1>4, RulesFrame DEF RulesFollowed, Assigned
<1> QED
  BY <1>2, <1>3, <1>4, CommitRules
  DEF ServiceNext, ClockTick, Tick, Begin, CountTrustees, Fail, StartSweep,
      SweepNothingDue, AbortSweep, serviceVars, vars, store

LEMMA SerialStep ==
  ASSUME ~Overlap, SerialInv, [ServiceNext]_serviceVars
  PROVE  SerialInv'
<1>1. [Next]_vars
  BY ServiceStepIsStoreStep DEF SerialInv
<1>2. IInv'
  BY <1>1, NextIInv DEF SerialInv
<1> QED
  BY <1>1, <1>2, CallsStep, WorkerStepTypes, OneLiveStep, OneAtATimeStep, ChecksStep,
     SweepStep, RulesStep
  DEF SerialInv, IInv

LEMMA SerialInvariant == ~Overlap /\ ServiceSpec => []SerialInv
<1>1. CASE Overlap
  BY <1>1
<1>2. CASE ~Overlap
  <2>1. SerialInv /\ [ServiceNext]_serviceVars => SerialInv'
    BY <1>2, SerialStep
  <2> QED BY <2>1, SerialInit, PTL DEF ServiceSpec
<1> QED BY <1>1, <1>2

\* One call or sweep at a time, a published will always has a trustee, whatever
\* order wills are published and contacts removed in.
THEOREM PublishedKeepATrustee == ~Overlap /\ ServiceSpec => []PublishedWillsKeepATrustee
<1>1. SerialInv => PublishedWillsKeepATrustee
  BY DEF SerialInv, RulesFollowed, FollowsRules, PublishedWillsKeepATrustee
<1> QED BY <1>1, SerialInvariant, PTL

\* And only a published will with a trustee is ever under verification, in grace
\* or ready for execution.
THEOREM OnlyPublishedLeaveActive ==
  ~Overlap /\ ServiceSpec => []OnlyPublishedWillsLeaveActive
<1>1. SerialInv => OnlyPublishedWillsLeaveActive
  BY DEF SerialInv, RulesFollowed, FollowsRules, OnlyPublishedWillsLeaveActive
<1> QED BY <1>1, SerialInvariant, PTL

\* And no open round asks for more trustees than the will has.
THEOREM RoundsWinnable == ~Overlap /\ ServiceSpec => []RoundsStayWinnable
<1>1. ASSUME SerialInv, NEW w \in Wills, will[w].row = "live", NEW r \in PendingRounds(w)
      PROVE  request[r].threshold <= Cardinality(Assigned(w))
  <2>1. will[w].lifecycle = "pending_verification"
    BY <1>1, NoOpenRound DEF SerialInv, IInv
  <2>2. /\ Assigned(w) # {}
        /\ request[r].threshold = Majority(Cardinality(Assigned(w)))
    BY <1>1, <2>1 DEF SerialInv, RulesFollowed, FollowsRules
  <2> QED BY <2>2, AssignedCount, MajorityBounds
<1>2. SerialInv => RoundsStayWinnable
  BY <1>1 DEF RoundsStayWinnable
<1> QED BY <1>2, SerialInvariant, PTL

\* And a will ready for execution has waited out the grace period its policy shows.
THEOREM ReadyWaited == ~Overlap /\ ServiceSpec => []ReadyWaitedOutGrace
<1>1. SerialInv => ReadyWaitedOutGrace
  BY DEF SerialInv, RulesFollowed, FollowsRules, ReadyWaitedOutGrace
<1> QED BY <1>1, SerialInvariant, PTL

-----------------------------------------------------------------------------
\* What a step may not do while one call or sweep runs at a time.

LEMMA MajorityStep ==
  ASSUME SerialInv, SerialInv', [ServiceNext]_serviceVars
  PROVE  OpensGraceByMajority
<1>1. OpensGraceByApproval
  BY ServiceStepIsStoreStep, GraceStep DEF SerialInv
<1>2. ASSUME NEW w \in Wills, will[w].row = "live",
             will[w].lifecycle = "pending_verification",
             will'[w].lifecycle = "grace_period"
      PROVE  \E r \in PendingRounds(w) :
               2 * Cardinality(Approvers(latest', r) \intersect Assigned(w))
                 > Cardinality(Assigned(w))
  <2>1. PICK r \in PendingRounds(w), panel \in SUBSET Assigned(w) :
          /\ Cardinality(panel) >= request[r].threshold
          /\ \A tr \in panel : latest'[r][tr].decision = "approve"
    BY <1>1, <1>2 DEF OpensGraceByApproval
  <2> DEFINE approving == Approvers(latest', r) \intersect Assigned(w)
  <2>2. request[r].threshold = Majority(Cardinality(Assigned(w)))
    BY <1>2 DEF SerialInv, RulesFollowed, FollowsRules
  <2>3. panel \subseteq approving
    BY <2>1 DEF Approvers, Assigned
  <2>4. IsFiniteSet(approving)
    BY AssignedCount, FS_Subset
  <2>5. /\ Cardinality(approving) \in Nat
        /\ Cardinality(panel) \in Nat
        /\ Cardinality(panel) <= Cardinality(approving)
    BY <2>3, <2>4, FS_Subset, FS_CardinalityType
  <2>6. 2 * Majority(Cardinality(Assigned(w))) > Cardinality(Assigned(w))
    BY AssignedCount, MajorityBounds
  <2>7. Majority(Cardinality(Assigned(w))) \in Nat
    BY ThresholdType
  <2>8. 2 * Cardinality(approving) > Cardinality(Assigned(w))
    <3> HIDE DEF approving
    <3> QED BY <2>1, <2>2, <2>5, <2>6, <2>7, AssignedCount
  <2> QED BY <2>8
<1> QED BY <1>2 DEF OpensGraceByMajority

\* One call or sweep at a time, a grace period opens only when a strict majority
\* of the trustees the will has at that moment approve.
THEOREM MajorityDecides == ~Overlap /\ ServiceSpec => MajorityOfCurrentTrustees
<1>1. SerialInv /\ SerialInv' /\ [ServiceNext]_serviceVars => [OpensGraceByMajority]_vars
  BY MajorityStep
<1> QED BY <1>1, SerialInvariant, PTL DEF ServiceSpec, MajorityOfCurrentTrustees

\* A transaction that keeps every live will's policy and the contacts of the wills
\* that have left active.
LEMMA LockFrame ==
  ASSUME \A w \in Wills : will[w].row = "live" /\ will[w].lifecycle # "active" =>
           /\ will'[w].row = "live" => will'[w].config = will[w].config
           /\ Contacts(w)' = Contacts(w)
  PROVE  KeepsLockedConfig
BY DEF KeepsLockedConfig

LEMMA ContactsKept ==
  ASSUME UNCHANGED trustee, NEW w
  PROVE  Contacts(w)' = Contacts(w)
BY DEF Contacts, Assigned

\* A contact of another will is written: the contacts of this one stay.
LEMMA ContactsFrame ==
  ASSUME NEW w, NEW tr \in Trustees, trustee[tr].row = "live" => trustee[tr].will # w,
         trustee'[tr].row = "live" => trustee'[tr].will # w,
         \A x \in Trustees : x # tr => trustee'[x] = trustee[x]
  PROVE  Contacts(w)' = Contacts(w)
<1>1. Assigned(w)' = Assigned(w)
  BY DEF Assigned
<1>2. \A x \in Assigned(w) : trustee'[x].email = trustee[x].email
  BY DEF Assigned
<1> QED BY <1>1, <1>2 DEF Contacts

LEMMA LockStep ==
  ASSUME SerialInv, [ServiceNext]_serviceVars
  PROVE  KeepsLockedConfig
<1>1. TypeOK /\ OneLiveWill
  BY DEF SerialInv, IInv
<1>2. ASSUME NEW u, Editable(u), NEW w \in Wills, will[w].row = "live",
             will[w].lifecycle # "active"
      PROVE  will[w].owner # u
  BY <1>2, <1>1, OnlyLiveWill DEF Editable, LiveWills
<1>3. ASSUME NEW p \in Callers, NEW t \in ClockReading, Commit(p, t)
      PROVE  KeepsLockedConfig
  <2>1. PICK k \in Calls : k = call[p]
    BY <1>3 DEF Commit, SerialInv, CallsTyped
  <2>2. Admitted(k) /\ Transaction(k, t)
    BY <1>3, <2>1 DEF Commit, SerialInv, ChecksHold
  <2>3. CASE k.op = "create_will" /\ CreateWill(k.user, k.config, t)
    BY <1>1, <2>3, LockFrame, ContactsKept DEF CreateWill, TypeOK
  <2>4. CASE k.op = "update_will" /\ UpdateWill(k.user, k.config, t)
    <3>1. PICK w \in LiveWills(k.user) : \E row : will' = [will EXCEPT ![w] = row]
      BY <2>4 DEF UpdateWill
    <3>2. Editable(k.user)
      BY <2>2, <2>4 DEF Admitted
    <3>3. ASSUME NEW x \in Wills, will[x].row = "live", will[x].lifecycle # "active"
          PROVE  will'[x] = will[x]
      BY <1>1, <1>2, <3>1, <3>2, <3>3 DEF LiveWills, TypeOK
    <3>4. UNCHANGED trustee
      BY <2>4 DEF UpdateWill
    <3> QED BY <3>3, <3>4, LockFrame, ContactsKept
  <2>5. ASSUME Editable(k.user), UNCHANGED will,
               NEW tr \in Trustees, \E row : trustee' = [trustee EXCEPT ![tr] = row],
               trustee[tr].row = "live" => will[trustee[tr].will].owner = k.user,
               trustee'[tr].row = "live" => will[trustee'[tr].will].owner = k.user
        PROVE  KeepsLockedConfig
    <3>1. ASSUME NEW w \in Wills, will[w].row = "live", will[w].lifecycle # "active"
          PROVE  Contacts(w)' = Contacts(w)
      <4>1. will[w].owner # k.user
        BY <1>2, <2>5, <3>1
      <4>2. \A x \in Trustees : x # tr => trustee'[x] = trustee[x]
        BY <1>1, <2>5 DEF TypeOK
      <4> QED BY <2>5, <4>1, <4>2, ContactsFrame
    <3> QED BY <2>5, <3>1, LockFrame
  <2>6. CASE k.op = "create_trustee" /\ CreateTrustee(k.user, k.email)
    <3>1. PICK w \in LiveWills(k.user), tr \in Trustees :
            /\ trustee[tr].row = "absent"
            /\ trustee' = [trustee EXCEPT ![tr] =
                 [row |-> "live", will |-> w, email |-> k.email]]
            /\ UNCHANGED will
      BY <2>6 DEF CreateTrustee
    <3>2. Editable(k.user)
      BY <2>2, <2>6 DEF Admitted
    <3>3. trustee'[tr].will = w /\ will[w].owner = k.user
      BY <1>1, <3>1 DEF TypeOK, LiveWills
    <3> QED BY <2>5, <3>1, <3>2, <3>3
  <2>7. CASE k.op = "update_trustee" /\ UpdateTrustee(k.user, k.trustee, k.email)
    <3>1. k.trustee \in Trustees /\ Editable(k.user)
      BY <2>2, <2>7 DEF Admitted, Calls
    <3>2. trustee'[k.trustee].will = trustee[k.trustee].will
      BY <1>1, <2>7, <3>1 DEF UpdateTrustee, TypeOK, TrusteeRow
    <3> QED BY <2>5, <2>7, <3>1, <3>2 DEF UpdateTrustee, OwnTrustee
  <2>8. CASE k.op = "delete_trustee" /\ DeleteTrustee(k.user, k.trustee)
    <3>1. k.trustee \in Trustees /\ Editable(k.user)
      BY <2>2, <2>8 DEF Admitted, Calls
    <3>2. trustee'[k.trustee].will = trustee[k.trustee].will
      BY <1>1, <2>8, <3>1 DEF DeleteTrustee, TypeOK, TrusteeRow
    <3> QED BY <2>5, <2>8, <3>1, <3>2 DEF DeleteTrustee, OwnTrustee
  <2> QED BY <2>2, <2>3, <2>4, <2>6, <2>7, <2>8 DEF Transaction
<1>4. ASSUME NEW t \in ClockReading, Direct(t)
      PROVE  KeepsLockedConfig
  <2>1. UNCHANGED trustee
    BY <1>4 DEF Direct, DeleteWill, SubmitHeartbeat, TrusteeStep, RecordVerificationDecision
  <2>2. ASSUME NEW u \in Users, DeleteWill(u, t)
        PROVE  \A w \in Wills : will'[w].config = will[w].config
    BY <1>1, <2>2 DEF DeleteWill, TypeOK, WillRow
  <2>3. ASSUME NEW u \in Users, SubmitHeartbeat(u, t)
        PROVE  \A w \in Wills : will'[w].config = will[w].config
    <3>1. PICK w \in Wills :
            \/ will' = [will EXCEPT ![w] =
                 [will[w] EXCEPT !.lastHeartbeat = t, !.updatedAt = t]]
            \/ will' = [will EXCEPT ![w] = RestoredRow(will[w], t)]
      BY <2>3 DEF SubmitHeartbeat, LiveWills
    <3>2. CASE will' = [will EXCEPT ![w] =
                 [will[w] EXCEPT !.lastHeartbeat = t, !.updatedAt = t]]
      BY <1>1, <3>2 DEF TypeOK, WillRow
    <3>3. CASE will' = [will EXCEPT ![w] = RestoredRow(will[w], t)]
      BY <1>1, <3>3 DEF TypeOK, WillRow, RestoredRow
    <3> QED BY <3>1, <3>2, <3>3
  <2>4. ASSUME TrusteeStep(t)
        PROVE  \A w \in Wills : will'[w].config = will[w].config
    <3>1. PICK email \in Emails, r \in Requests, decision \in Decisions :
            RecordVerificationDecision(email, r, decision, t)
      BY <2>4 DEF TrusteeStep
    <3>2. PICK w \in Wills : w = request[r].will
      BY <1>1 DEF TypeOK, RequestRow
    <3>3. CASE UNCHANGED will
      BY <3>3
    <3>4. CASE will' = [will EXCEPT ![w] = [will[w] EXCEPT
                 !.lifecycle = "grace_period", !.graceStarted = t, !.updatedAt = t]]
      BY <1>1, <3>4 DEF TypeOK, WillRow
    <3> QED BY <3>1, <3>2, <3>3, <3>4 DEF RecordVerificationDecision
  <2> QED BY <1>4, <2>1, <2>2, <2>3, <2>4, LockFrame, ContactsKept DEF Direct
<1>5. ASSUME NEW u \in Users, SweepTransition(u)
      PROVE  KeepsLockedConfig
  <2>1. UNCHANGED trustee
    BY <1>5 DEF SweepTransition, WorkerStep, StartVerification, EndGrace
  <2>2. ASSUME StartVerification(u, sweep.at)
        PROVE  \A w \in Wills : will'[w].config = will[w].config
    BY <1>1, <2>2 DEF StartVerification, TypeOK, WillRow
  <2>3. ASSUME EndGrace(u, sweep.at)
        PROVE  \A w \in Wills : will'[w].config = will[w].config
    BY <1>1, <2>3 DEF EndGrace, TypeOK, WillRow
  <2> QED
    BY <1>5, <2>1, <2>2, <2>3, LockFrame, ContactsKept DEF SweepTransition, WorkerStep
<1>6. ASSUME UNCHANGED <<will, trustee>>
      PROVE  KeepsLockedConfig
  BY <1>6, LockFrame, ContactsKept
<1> QED
  BY <1>3, <1>4, <1>5, <1>6
  DEF ServiceNext, ClockTick, Tick, Begin, CountTrustees, Fail, StartSweep,
      SweepNothingDue, AbortSweep, serviceVars, vars, store

\* One call or sweep at a time, the policy and the trustees of a live will stand
\* still from the moment its verification opens until it is active again.
THEOREM ConfigLocked == ~Overlap /\ ServiceSpec => ConfigLockedOutsideActive
<1>1. SerialInv /\ [ServiceNext]_serviceVars => [KeepsLockedConfig]_vars
  BY LockStep
<1> QED BY <1>1, SerialInvariant, PTL DEF ServiceSpec, ConfigLockedOutsideActive
=============================================================================
