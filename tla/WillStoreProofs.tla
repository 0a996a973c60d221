--------------------------- MODULE WillStoreProofs ---------------------------
(***************************************************************************)
(* Theorems about WillStore, for every value of its constants.             *)
(***************************************************************************)
EXTENDS WillStore, TLAPS, FiniteSetTheorems

\* Times a transaction writes are natural numbers.
LEMMA ClockReadingType ==
  ASSUME TypeOK, NEW t \in ClockReading
  PROVE  t \in Time /\ t # Never
BY DEF TypeOK, ClockReading, Time, Never

\* A trustee count is a number, so a threshold is one.
LEMMA ThresholdType ==
  ASSUME NEW w \in Wills
  PROVE  Majority(Cardinality(Assigned(w))) \in Nat
<1>1. IsFiniteSet(Assigned(w))
  BY StoreAssumption, FS_Subset DEF Assigned
<1>2. Cardinality(Assigned(w)) \in Nat
  BY <1>1, FS_CardinalityType
<1> QED BY <1>2 DEF Majority

LEMMA NewerType ==
  ASSUME NEW a, NEW b, NEW x \in Newer(a, b)
  PROVE  x = a \/ x = b
BY DEF Newer

LEMMA CancelRoundsType ==
  ASSUME TypeOK, NEW w \in Wills
  PROVE  CancelRounds(w) \in [Requests -> RequestRow]
<1>1. ASSUME NEW r \in Requests
      PROVE  [request[r] EXCEPT !.status = "cancelled"] \in RequestRow
  BY <1>1 DEF TypeOK, RequestRow
<1> QED BY <1>1 DEF CancelRounds, TypeOK

LEMMA GraceRowType ==
  ASSUME NEW row \in WillRow, NEW t \in Time
  PROVE  [row EXCEPT !.lifecycle = "grace_period", !.graceStarted = t, !.updatedAt = t]
           \in WillRow
BY DEF WillRow, TimeOrNull, Lifecycles

LEMMA InitTypeOK == Init => TypeOK
<1> SUFFICES ASSUME Init PROVE TypeOK
  OBVIOUS
<1>1. AnyUser \in Users /\ AnyWill \in Wills /\ AnyEmail \in Emails
  BY StoreAssumption DEF AnyUser, AnyWill, AnyEmail
<1>2. AnyConfig \in Config
  <2>1. PICK d \in DormancyDays, g \in GraceDays : TRUE
    BY StoreAssumption
  <2>2. [status |-> "draft", dormancy |-> d, grace |-> g] \in Config
    BY <2>1 DEF Config, Statuses
  <2> QED BY <2>2 DEF AnyConfig
<1>3. will \in [Wills -> WillRow]
  BY <1>1, <1>2 DEF Init, WillRow, Time, TimeOrNull, Never, Lifecycles
<1>4. trustee \in [Trustees -> TrusteeRow] /\ request \in [Requests -> RequestRow]
  BY <1>1 DEF Init, TrusteeRow, RequestRow
<1>5. latest \in [Requests -> [Trustees -> Response]]
  BY DEF Init, Response, NoResponse, TimeOrNull, Never
<1> QED BY <1>3, <1>4, <1>5 DEF Init, TypeOK, Time

\* The type invariant is inductive.
LEMMA NextTypeOK == TypeOK /\ [Next]_vars => TypeOK'
<1> SUFFICES ASSUME TypeOK, [Next]_vars PROVE TypeOK'
  OBVIOUS
<1> USE DEF TypeOK
<1>1. ASSUME NEW u \in Users, NEW config \in Config, NEW t \in ClockReading,
             CreateWill(u, config, t)
      PROVE  TypeOK'
  <2>1. t \in Time
    BY ClockReadingType
  <2>2. PICK w \in Wills :
          /\ will' = [will EXCEPT ![w] =
               [row |-> "live", owner |-> u, config |-> config, version |-> 1,
                lifecycle |-> "active", lastHeartbeat |-> Never,
                pendingStarted |-> Never, graceStarted |-> Never,
                readyAt |-> Never, updatedAt |-> t]]
          /\ history' = [history EXCEPT ![w] = <<config>>]
    BY <1>1 DEF CreateWill
  <2>3. will' \in [Wills -> WillRow]
    BY <2>1, <2>2 DEF WillRow, Lifecycles, TimeOrNull, Time, Never
  <2> QED BY <1>1, <2>2, <2>3 DEF CreateWill
<1>2. ASSUME NEW u \in Users, NEW config \in Config, NEW t \in ClockReading,
             UpdateWill(u, config, t)
      PROVE  TypeOK'
  <2>1. t \in Time
    BY ClockReadingType
  <2>2. PICK w \in Wills :
          /\ will' = [will EXCEPT ![w] =
               [@ EXCEPT !.config = config, !.version = will[w].version + 1, !.updatedAt = t]]
          /\ history' = [history EXCEPT ![w] = Append(@, config)]
    BY <1>2 DEF UpdateWill, LiveWills
  <2>3. [will[w] EXCEPT !.config = config, !.version = will[w].version + 1, !.updatedAt = t]
          \in WillRow
    <3>1. will[w] \in WillRow /\ will[w].version + 1 \in Nat
      BY DEF WillRow
    <3>2. \A v \in Nat : [will[w] EXCEPT !.config = config, !.version = v, !.updatedAt = t]
            \in WillRow
      BY <2>1, <3>1 DEF WillRow
    <3> QED BY <3>1, <3>2
  <2>4. history' \in [Wills -> Seq(Config)]
    BY <2>2
  <2>5. will' \in [Wills -> WillRow]
    BY <2>2, <2>3
  <2> QED BY <1>2, <2>4, <2>5 DEF UpdateWill
<1>3. ASSUME NEW u \in Users, NEW t \in ClockReading, DeleteWill(u, t)
      PROVE  TypeOK'
  <2>1. t \in Time
    BY ClockReadingType
  <2>2. PICK w \in Wills :
          will' = [will EXCEPT ![w] = [@ EXCEPT !.row = "deleted", !.updatedAt = t]]
    BY <1>3 DEF DeleteWill, LiveWills
  <2>3. [will[w] EXCEPT !.row = "deleted", !.updatedAt = t] \in WillRow
    BY <2>1, ZenonT(60) DEF WillRow
  <2>4. will' \in [Wills -> WillRow]
    BY <2>2, <2>3
  <2> QED BY <1>3, <2>4 DEF DeleteWill
<1>4. ASSUME NEW u \in Users, NEW email \in Emails, CreateTrustee(u, email)
      PROVE  TypeOK'
  BY <1>4 DEF CreateTrustee, LiveWills, TrusteeRow
<1>5. ASSUME NEW u \in Users, NEW tr \in Trustees, NEW email \in Emails,
             UpdateTrustee(u, tr, email)
      PROVE  TypeOK'
  BY <1>5 DEF UpdateTrustee, TrusteeRow
<1>6. ASSUME NEW u \in Users, NEW tr \in Trustees, DeleteTrustee(u, tr)
      PROVE  TypeOK'
  <2>1. trustee' \in [Trustees -> TrusteeRow]
    BY <1>6 DEF DeleteTrustee, TrusteeRow
  <2>2. NoResponse \in Response
    BY DEF NoResponse, Response, TimeOrNull, Never
  <2>3. latest' \in [Requests -> [Trustees -> Response]]
    BY <1>6, <2>2 DEF DeleteTrustee, WithoutResponses
  <2> QED BY <1>6, <2>1, <2>3 DEF DeleteTrustee
<1>7. ASSUME NEW u \in Users, NEW t \in ClockReading, SubmitHeartbeat(u, t)
      PROVE  TypeOK'
  <2>1. t \in Time
    BY ClockReadingType
  <2>2. PICK w \in Wills :
          IF will[w].lifecycle = "active"
          THEN /\ will' = [will EXCEPT ![w] =
                    [@ EXCEPT !.lastHeartbeat = t, !.updatedAt = t]]
               /\ UNCHANGED request
          ELSE /\ will' = [will EXCEPT ![w] = RestoredRow(@, t)]
               /\ request' = CancelRounds(w)
    BY <1>7 DEF SubmitHeartbeat, LiveWills
  <2>3. RestoredRow(will[w], t) \in WillRow
    BY <2>1, ZenonT(60) DEF RestoredRow, WillRow, TimeOrNull, Lifecycles
  <2>4. [will[w] EXCEPT !.lastHeartbeat = t, !.updatedAt = t] \in WillRow
    BY <2>1, ZenonT(60) DEF WillRow, TimeOrNull
  <2>5. will' \in [Wills -> WillRow]
    BY <2>2, <2>3, <2>4
  <2>6. CancelRounds(w) \in [Requests -> RequestRow]
    BY CancelRoundsType
  <2>7. request' \in [Requests -> RequestRow]
    BY <2>2, <2>6
  <2> QED BY <1>7, <2>5, <2>7 DEF SubmitHeartbeat
<1>8. ASSUME NEW u \in Users, NEW t \in ClockReading, StartVerification(u, t)
      PROVE  TypeOK'
  <2>1. t \in Time
    BY ClockReadingType
  <2>2. PICK w \in Wills, r \in Requests :
          /\ will' = [will EXCEPT ![w] =
               [@ EXCEPT !.lifecycle = "pending_verification", !.pendingStarted = t,
                         !.updatedAt = t]]
          /\ request' = [request EXCEPT ![r] =
               [status |-> "pending", will |-> w,
                threshold |-> Majority(Cardinality(Assigned(w)))]]
    BY <1>8 DEF StartVerification, LiveWills
  <2>3. [will[w] EXCEPT !.lifecycle = "pending_verification", !.pendingStarted = t,
                        !.updatedAt = t] \in WillRow
    BY <2>1, ZenonT(60) DEF WillRow, TimeOrNull, Lifecycles
  <2>4. will' \in [Wills -> WillRow]
    BY <2>2, <2>3
  <2>5. request' \in [Requests -> RequestRow]
    BY <2>2, ThresholdType DEF RequestRow
  <2> QED BY <1>8, <2>4, <2>5 DEF StartVerification
<1>9. ASSUME NEW u \in Users, NEW t \in ClockReading, EndGrace(u, t)
      PROVE  TypeOK'
  <2>1. t \in Time
    BY ClockReadingType
  <2>2. PICK w \in Wills :
          will' = [will EXCEPT ![w] =
            [@ EXCEPT !.lifecycle = "ready_for_execution", !.readyAt = t, !.updatedAt = t]]
    BY <1>9 DEF EndGrace, LiveWills
  <2>3. [will[w] EXCEPT !.lifecycle = "ready_for_execution", !.readyAt = t,
                        !.updatedAt = t] \in WillRow
    BY <2>1, ZenonT(60) DEF WillRow, TimeOrNull, Lifecycles
  <2>4. will' \in [Wills -> WillRow]
    BY <2>2, <2>3
  <2> QED BY <1>9, <2>4 DEF EndGrace
<1>10. ASSUME NEW email \in Emails, NEW r \in Requests, NEW decision \in Decisions,
              NEW t \in ClockReading,
              RecordVerificationDecision(email, r, decision, t)
       PROVE  TypeOK'
  <2>1. t \in Time
    BY ClockReadingType
  <2>2. PICK w \in Wills : w = request[r].will
    BY DEF RequestRow
  <2>3. PICK tr \in Trustees :
          \E newest \in Newer(latest[r][tr], [at |-> t, decision |-> decision]) :
            latest' = [latest EXCEPT ![r][tr] = newest]
    BY <1>10 DEF RecordVerificationDecision, Assigned
  <2>4. [at |-> t, decision |-> decision] \in Response
    BY <2>1 DEF Response, TimeOrNull
  <2>5. latest' \in [Requests -> [Trustees -> Response]]
    BY <2>3, <2>4, NewerType
  <2>6. [will[w] EXCEPT !.lifecycle = "grace_period", !.graceStarted = t,
                        !.updatedAt = t] \in WillRow
    BY <2>1, <2>2, GraceRowType
  <2>7. will' \in [Wills -> WillRow]
    BY <1>10, <2>2, <2>6 DEF RecordVerificationDecision
  <2>8. [request[r] EXCEPT !.status = "resolved"] \in RequestRow
    BY DEF RequestRow
  <2>9. request' \in [Requests -> RequestRow]
    BY <1>10, <2>8 DEF RecordVerificationDecision
  <2> QED BY <1>10, <2>5, <2>7, <2>9 DEF RecordVerificationDecision
<1>11. CASE Tick
  BY <1>11 DEF Tick, store, Time
<1>12. CASE UNCHANGED vars
  BY <1>12 DEF vars, store
<1> QED
  BY <1>1, <1>2, <1>3, <1>4, <1>5, <1>6, <1>7, <1>8, <1>9, <1>10, <1>11, <1>12
  DEF Next, OwnerStep, WorkerStep, TrusteeStep

\* Every reachable state of the tables has its type: no transaction writes a
\* status, lifecycle or timestamp the columns do not admit.
THEOREM TypeCorrectness == Spec => []TypeOK
BY InitTypeOK, NextTypeOK, PTL DEF Spec

-----------------------------------------------------------------------------
\* The inductive invariant: every invariant the runs check, and what they need
\* of a row no transaction has written yet.

AbsentWillsAreActive ==
  \A w \in Wills : will[w].row = "absent" => will[w].lifecycle = "active"

IInv ==
  /\ TypeOK
  /\ AbsentWillsAreActive
  /\ RoundMatchesLifecycle
  /\ TimestampsMatchLifecycle
  /\ VersionMatchesHistory
  /\ ResponsesComeFromTrustees

LEMMA InitIInv == Init => IInv
<1> SUFFICES ASSUME Init PROVE IInv
  OBVIOUS
<1>1. TypeOK
  BY InitTypeOK
<1>2. AbsentWillsAreActive /\ RoundMatchesLifecycle
  BY DEF Init, AbsentWillsAreActive, RoundMatchesLifecycle, PendingRounds
<1>3. TimestampsMatchLifecycle /\ VersionMatchesHistory
  BY DEF Init, TimestampsMatchLifecycle, VersionMatchesHistory
<1>4. ResponsesComeFromTrustees
  BY DEF Init, ResponsesComeFromTrustees
<1> QED BY <1>1, <1>2, <1>3, <1>4 DEF IInv

\* Rows already written are not unwritten, and a row is active when written.
LEMMA AbsentStep ==
  ASSUME TypeOK, AbsentWillsAreActive, [Next]_vars
  PROVE  AbsentWillsAreActive'
<1> USE DEF TypeOK, AbsentWillsAreActive, WillRow
<1>1. ASSUME NEW u \in Users, NEW t \in ClockReading, OwnerStep(u, t)
      PROVE  AbsentWillsAreActive'
  <2>1. ASSUME NEW config \in Config, CreateWill(u, config, t)
        PROVE  AbsentWillsAreActive'
    BY <2>1 DEF CreateWill
  <2>2. ASSUME NEW config \in Config, UpdateWill(u, config, t)
        PROVE  AbsentWillsAreActive'
    BY <2>2 DEF UpdateWill
  <2>3. CASE DeleteWill(u, t)
    BY <2>3 DEF DeleteWill
  <2>4. ASSUME NEW email \in Emails, CreateTrustee(u, email)
        PROVE  AbsentWillsAreActive'
    BY <2>4 DEF CreateTrustee
  <2>5. ASSUME NEW tr \in Trustees, NEW email \in Emails, UpdateTrustee(u, tr, email)
        PROVE  AbsentWillsAreActive'
    BY <2>5 DEF UpdateTrustee
  <2>6. ASSUME NEW tr \in Trustees, DeleteTrustee(u, tr)
        PROVE  AbsentWillsAreActive'
    BY <2>6 DEF DeleteTrustee
  <2>7. CASE SubmitHeartbeat(u, t)
    <3>1. PICK w \in LiveWills(u) :
            \/ will' = [will EXCEPT ![w] = [@ EXCEPT !.lastHeartbeat = t, !.updatedAt = t]]
            \/ will' = [will EXCEPT ![w] = RestoredRow(@, t)]
      BY <2>7 DEF SubmitHeartbeat
    <3>2. w \in Wills /\ will[w].row = "live" /\ will[w] \in WillRow
      BY DEF LiveWills
    <3>3. [will[w] EXCEPT !.lastHeartbeat = t, !.updatedAt = t].row = "live"
      BY <3>2
    <3>4. RestoredRow(will[w], t).row = "live"
      BY <3>2 DEF RestoredRow
    <3>5. will'[w].row = "live"
      BY <3>1, <3>2, <3>3, <3>4
    <3>6. \A v \in Wills \ {w} : will'[v] = will[v]
      BY <3>1
    <3> QED BY <3>5, <3>6
  <2> QED BY <1>1, <2>1, <2>2, <2>3, <2>4, <2>5, <2>6, <2>7 DEF OwnerStep
<1>2. ASSUME NEW u \in Users, NEW t \in ClockReading, WorkerStep(u, t)
      PROVE  AbsentWillsAreActive'
  <2>1. PICK w \in LiveWills(u) :
          \/ will' = [will EXCEPT ![w] =
               [@ EXCEPT !.lifecycle = "pending_verification", !.pendingStarted = t,
                         !.updatedAt = t]]
          \/ will' = [will EXCEPT ![w] =
               [@ EXCEPT !.lifecycle = "ready_for_execution", !.readyAt = t,
                         !.updatedAt = t]]
    BY <1>2 DEF WorkerStep, StartVerification, EndGrace
  <2>2. w \in Wills /\ will[w].row = "live" /\ will[w] \in WillRow
    BY DEF LiveWills
  <2>3. [will[w] EXCEPT !.lifecycle = "pending_verification", !.pendingStarted = t,
                        !.updatedAt = t].row = "live"
    BY <2>2
  <2>4. [will[w] EXCEPT !.lifecycle = "ready_for_execution", !.readyAt = t,
                        !.updatedAt = t].row = "live"
    BY <2>2
  <2>5. will'[w].row = "live"
    BY <2>1, <2>2, <2>3, <2>4
  <2>6. \A v \in Wills \ {w} : will'[v] = will[v]
    BY <2>1
  <2> QED BY <2>5, <2>6
<1>3. ASSUME NEW email \in Emails, NEW r \in Requests, NEW decision \in Decisions,
             NEW t \in ClockReading,
             RecordVerificationDecision(email, r, decision, t)
      PROVE  AbsentWillsAreActive'
  <2>1. CASE UNCHANGED will
    BY <2>1
  <2>2. CASE ~UNCHANGED will
    <3>1. PICK w \in Wills : w = request[r].will
      BY DEF RequestRow
    <3>2. /\ will[w].lifecycle = "pending_verification"
          /\ will' = [will EXCEPT ![w] =
               [@ EXCEPT !.lifecycle = "grace_period", !.graceStarted = t,
                         !.updatedAt = t]]
      BY <1>3, <2>2, <3>1 DEF RecordVerificationDecision
    <3>3. will[w].row # "absent"
      BY <3>2
    <3>4. will'[w].row # "absent"
      BY <3>2, <3>3
    <3>5. \A v \in Wills \ {w} : will'[v] = will[v]
      BY <3>2
    <3> QED BY <3>4, <3>5
  <2> QED BY <2>1, <2>2
<1>4. CASE Tick \/ UNCHANGED vars
  BY <1>4 DEF Tick, vars, store
<1> QED BY <1>1, <1>2, <1>3, <1>4 DEF Next, TrusteeStep

LEMMA RoundFrame ==
  ASSUME RoundMatchesLifecycle, UNCHANGED request,
         \A w \in Wills : will'[w].lifecycle = will[w].lifecycle
  PROVE  RoundMatchesLifecycle'
BY DEF RoundMatchesLifecycle, PendingRounds

LEMMA RoundStep ==
  ASSUME TypeOK, AbsentWillsAreActive, RoundMatchesLifecycle, [Next]_vars
  PROVE  RoundMatchesLifecycle'
<1>1. ASSUME NEW u \in Users, NEW t \in ClockReading, OwnerStep(u, t)
      PROVE  RoundMatchesLifecycle'
  <2>1. ASSUME NEW config \in Config, CreateWill(u, config, t)
        PROVE  RoundMatchesLifecycle'
    BY <2>1, RoundFrame DEF CreateWill, AbsentWillsAreActive, TypeOK
  <2>2. ASSUME NEW config \in Config, UpdateWill(u, config, t)
        PROVE  RoundMatchesLifecycle'
    BY <2>2, RoundFrame DEF UpdateWill, TypeOK, WillRow
  <2>3. CASE DeleteWill(u, t)
    BY <2>3, RoundFrame DEF DeleteWill, TypeOK, WillRow
  <2>4. ASSUME NEW email \in Emails, CreateTrustee(u, email)
        PROVE  RoundMatchesLifecycle'
    BY <2>4, RoundFrame DEF CreateTrustee
  <2>5. ASSUME NEW tr \in Trustees, NEW email \in Emails, UpdateTrustee(u, tr, email)
        PROVE  RoundMatchesLifecycle'
    BY <2>5, RoundFrame DEF UpdateTrustee
  <2>6. ASSUME NEW tr \in Trustees, DeleteTrustee(u, tr)
        PROVE  RoundMatchesLifecycle'
    BY <2>6, RoundFrame DEF DeleteTrustee
  <2>7. CASE SubmitHeartbeat(u, t)
    <3>1. PICK w \in LiveWills(u) :
            IF will[w].lifecycle = "active"
            THEN /\ will' = [will EXCEPT ![w] =
                      [@ EXCEPT !.lastHeartbeat = t, !.updatedAt = t]]
                 /\ UNCHANGED request
            ELSE /\ will' = [will EXCEPT ![w] = RestoredRow(@, t)]
                 /\ request' = CancelRounds(w)
      BY <2>7 DEF SubmitHeartbeat
    <3>2. w \in Wills
      BY DEF LiveWills
    <3>3. CASE will[w].lifecycle = "active"
      BY <3>1, <3>2, <3>3, RoundFrame DEF TypeOK, WillRow
    <3>4. CASE will[w].lifecycle # "active"
      <4>1. request' = CancelRounds(w)
        BY <3>1, <3>4
      <4>2. will'[w].lifecycle = "active"
        BY <3>1, <3>2, <3>4, ZenonT(60) DEF RestoredRow, TypeOK, WillRow
      <4>3. \A v \in Wills \ {w} : will'[v] = will[v]
        BY <3>1, <3>2, <3>4 DEF TypeOK
      <4>4. PendingRounds(w)' = {}
        BY <4>1 DEF CancelRounds, PendingRounds, TypeOK, RequestRow
      <4>5. ASSUME NEW v \in Wills \ {w}
            PROVE  PendingRounds(v)' = PendingRounds(v)
        BY <4>1, <4>5 DEF CancelRounds, PendingRounds, TypeOK, RequestRow
      <4> QED BY <4>2, <4>3, <4>4, <4>5 DEF RoundMatchesLifecycle
    <3> QED BY <3>3, <3>4
  <2> QED BY <1>1, <2>1, <2>2, <2>3, <2>4, <2>5, <2>6, <2>7 DEF OwnerStep
<1>2. ASSUME NEW u \in Users, NEW t \in ClockReading, StartVerification(u, t)
      PROVE  RoundMatchesLifecycle'
  <2>1. PICK w \in LiveWills(u), r \in Requests :
          /\ Dormant(w, t)
          /\ request[r].status = "absent"
          /\ will' = [will EXCEPT ![w] =
               [@ EXCEPT !.lifecycle = "pending_verification", !.pendingStarted = t,
                         !.updatedAt = t]]
          /\ request' = [request EXCEPT ![r] =
               [status |-> "pending", will |-> w,
                threshold |-> Majority(Cardinality(Assigned(w)))]]
    BY <1>2 DEF StartVerification
  <2>2. w \in Wills
    BY DEF LiveWills
  <2>3. will'[w].lifecycle = "pending_verification"
    BY <2>1, <2>2 DEF TypeOK, WillRow
  <2>4. \A v \in Wills \ {w} : will'[v] = will[v]
    BY <2>1, <2>2 DEF TypeOK
  <2>5. PendingRounds(w) = {}
    BY <2>1, <2>2 DEF Dormant, RoundMatchesLifecycle
  <2>6. PendingRounds(w)' = {r}
    BY <2>1, <2>5 DEF PendingRounds, TypeOK, RequestRow
  <2>7. ASSUME NEW v \in Wills \ {w}
        PROVE  PendingRounds(v)' = PendingRounds(v)
    BY <2>1, <2>7 DEF PendingRounds, TypeOK, RequestRow
  <2> QED BY <2>3, <2>4, <2>6, <2>7 DEF RoundMatchesLifecycle
<1>3. ASSUME NEW u \in Users, NEW t \in ClockReading, EndGrace(u, t)
      PROVE  RoundMatchesLifecycle'
  <2>1. PICK w \in Wills :
          /\ will[w].lifecycle = "grace_period"
          /\ will' = [will EXCEPT ![w] =
               [@ EXCEPT !.lifecycle = "ready_for_execution", !.readyAt = t,
                         !.updatedAt = t]]
    BY <1>3 DEF EndGrace, LiveWills, GraceOver
  <2>2. will'[w].lifecycle = "ready_for_execution"
    BY <2>1 DEF TypeOK, WillRow
  <2>3. \A v \in Wills \ {w} : will'[v] = will[v]
    BY <2>1 DEF TypeOK
  <2>4. \A v \in Wills : PendingRounds(v)' = PendingRounds(v)
    BY <1>3 DEF EndGrace, PendingRounds
  <2> QED BY <2>1, <2>2, <2>3, <2>4 DEF RoundMatchesLifecycle
<1>4. ASSUME NEW email \in Emails, NEW r \in Requests, NEW decision \in Decisions,
             NEW t \in ClockReading,
             RecordVerificationDecision(email, r, decision, t)
      PROVE  RoundMatchesLifecycle'
  <2>1. CASE UNCHANGED <<will, request>>
    BY <2>1, RoundFrame
  <2>2. CASE ~UNCHANGED <<will, request>>
    <3>1. PICK w \in Wills : w = request[r].will
      BY DEF TypeOK, RequestRow
    <3>2. /\ request[r].status = "pending"
          /\ will[w].lifecycle = "pending_verification"
          /\ will' = [will EXCEPT ![w] =
               [@ EXCEPT !.lifecycle = "grace_period", !.graceStarted = t,
                         !.updatedAt = t]]
          /\ request' = [request EXCEPT ![r] = [@ EXCEPT !.status = "resolved"]]
      BY <1>4, <2>2, <3>1 DEF RecordVerificationDecision
    <3>3. will'[w].lifecycle = "grace_period"
      BY <3>2 DEF TypeOK, WillRow
    <3>4. \A v \in Wills \ {w} : will'[v] = will[v]
      BY <3>2 DEF TypeOK
    <3>5. PendingRounds(w) = {r}
      BY <3>1, <3>2 DEF RoundMatchesLifecycle, PendingRounds
    <3>6. PendingRounds(w)' = {}
      BY <3>2, <3>5 DEF PendingRounds, TypeOK, RequestRow
    <3>7. ASSUME NEW v \in Wills \ {w}
          PROVE  PendingRounds(v)' = PendingRounds(v)
      BY <3>1, <3>2, <3>7 DEF PendingRounds, TypeOK, RequestRow
    <3> QED BY <3>3, <3>4, <3>6, <3>7 DEF RoundMatchesLifecycle
  <2> QED BY <2>1, <2>2
<1>5. CASE Tick \/ UNCHANGED vars
  BY <1>5, RoundFrame DEF Tick, vars, store
<1> QED BY <1>1, <1>2, <1>3, <1>4, <1>5 DEF Next, WorkerStep, TrusteeStep

\* The condition TimestampsMatchLifecycle puts on one row.
StampsMatch(row) ==
  /\ row.pendingStarted = Never <=> row.lifecycle = "active"
  /\ row.graceStarted # Never <=> row.lifecycle \in {"grace_period", "ready_for_execution"}
  /\ row.readyAt # Never <=> row.lifecycle = "ready_for_execution"

\* What each write of a will row does to that condition.
LEMMA StampsOfRow ==
  ASSUME NEW row \in WillRow, StampsMatch(row), NEW t \in Time, t # Never
  PROVE  /\ StampsMatch([row EXCEPT !.row = "deleted", !.updatedAt = t])
         /\ StampsMatch([row EXCEPT !.lastHeartbeat = t, !.updatedAt = t])
         /\ StampsMatch(RestoredRow(row, t))
         /\ row.lifecycle = "active" =>
              StampsMatch([row EXCEPT !.lifecycle = "pending_verification",
                                      !.pendingStarted = t, !.updatedAt = t])
         /\ row.lifecycle = "pending_verification" =>
              StampsMatch([row EXCEPT !.lifecycle = "grace_period",
                                      !.graceStarted = t, !.updatedAt = t])
         /\ row.lifecycle = "grace_period" =>
              StampsMatch([row EXCEPT !.lifecycle = "ready_for_execution",
                                      !.readyAt = t, !.updatedAt = t])
         /\ \A config \in Config, v \in Nat :
              StampsMatch([row EXCEPT !.config = config, !.version = v, !.updatedAt = t])
<1>1. /\ StampsMatch([row EXCEPT !.row = "deleted", !.updatedAt = t])
      /\ StampsMatch([row EXCEPT !.lastHeartbeat = t, !.updatedAt = t])
  BY DEF StampsMatch, WillRow
<1>2. StampsMatch(RestoredRow(row, t))
  BY DEF StampsMatch, WillRow, RestoredRow
<1>3. ASSUME row.lifecycle = "active"
      PROVE  StampsMatch([row EXCEPT !.lifecycle = "pending_verification",
                                     !.pendingStarted = t, !.updatedAt = t])
  BY <1>3 DEF StampsMatch, WillRow
<1>4. ASSUME row.lifecycle = "pending_verification"
      PROVE  StampsMatch([row EXCEPT !.lifecycle = "grace_period",
                                     !.graceStarted = t, !.updatedAt = t])
  BY <1>4 DEF StampsMatch, WillRow
<1>5. ASSUME row.lifecycle = "grace_period"
      PROVE  StampsMatch([row EXCEPT !.lifecycle = "ready_for_execution",
                                     !.readyAt = t, !.updatedAt = t])
  BY <1>5 DEF StampsMatch, WillRow
<1>6. ASSUME NEW config \in Config, NEW v \in Nat
      PROVE  StampsMatch([row EXCEPT !.config = config, !.version = v, !.updatedAt = t])
  BY <1>6 DEF StampsMatch, WillRow
<1> QED BY <1>1, <1>2, <1>3, <1>4, <1>5, <1>6

\* A step that writes at most one row of digital_wills, consistently.
LEMMA StampsOneRow ==
  ASSUME TypeOK, TimestampsMatchLifecycle, NEW w \in Wills, NEW row,
         StampsMatch(row), will' = [will EXCEPT ![w] = row]
  PROVE  TimestampsMatchLifecycle'
<1>1. will'[w] = row
  BY DEF TypeOK
<1>2. \A v \in Wills \ {w} : will'[v] = will[v]
  BY DEF TypeOK
<1> QED BY <1>1, <1>2 DEF TimestampsMatchLifecycle, StampsMatch

LEMMA TimestampsStep ==
  ASSUME TypeOK, TimestampsMatchLifecycle, [Next]_vars
  PROVE  TimestampsMatchLifecycle'
<1>a. ASSUME NEW w \in Wills
      PROVE  will[w] \in WillRow /\ StampsMatch(will[w])
  BY DEF TypeOK, TimestampsMatchLifecycle, StampsMatch
<1>b. ASSUME NEW t \in ClockReading
      PROVE  t \in Time /\ t # Never
  BY ClockReadingType
<1>c. UNCHANGED will => TimestampsMatchLifecycle'
  BY DEF TimestampsMatchLifecycle
<1>1. ASSUME NEW u \in Users, NEW config \in Config, NEW t \in ClockReading,
             CreateWill(u, config, t)
      PROVE  TimestampsMatchLifecycle'
  <2> DEFINE new == [row |-> "live", owner |-> u, config |-> config, version |-> 1,
                     lifecycle |-> "active", lastHeartbeat |-> Never,
                     pendingStarted |-> Never, graceStarted |-> Never,
                     readyAt |-> Never, updatedAt |-> t]
  <2>1. PICK w \in Wills : will' = [will EXCEPT ![w] = new]
    BY <1>1 DEF CreateWill
  <2>2. StampsMatch(new)
    BY DEF StampsMatch
  <2> QED BY <2>1, <2>2, StampsOneRow
<1>2. ASSUME NEW u \in Users, NEW config \in Config, NEW t \in ClockReading,
             UpdateWill(u, config, t)
      PROVE  TimestampsMatchLifecycle'
  <2>1. PICK w \in Wills :
          will' = [will EXCEPT ![w] =
            [will[w] EXCEPT !.config = config, !.version = will[w].version + 1,
                            !.updatedAt = t]]
    BY <1>2 DEF UpdateWill, LiveWills
  <2>2. will[w].version + 1 \in Nat
    BY <1>a, SMTT(40) DEF WillRow
  <2>3. StampsMatch([will[w] EXCEPT !.config = config, !.version = will[w].version + 1,
                                    !.updatedAt = t])
    BY <1>a, <1>b, <2>2, StampsOfRow
  <2> QED BY <2>1, <2>3, StampsOneRow
<1>3. ASSUME NEW u \in Users, NEW t \in ClockReading, DeleteWill(u, t)
      PROVE  TimestampsMatchLifecycle'
  <2>1. PICK w \in Wills :
          will' = [will EXCEPT ![w] = [will[w] EXCEPT !.row = "deleted", !.updatedAt = t]]
    BY <1>3 DEF DeleteWill, LiveWills
  <2>2. StampsMatch([will[w] EXCEPT !.row = "deleted", !.updatedAt = t])
    BY <1>a, <1>b, StampsOfRow
  <2> QED BY <2>1, <2>2, StampsOneRow
<1>4. ASSUME NEW u \in Users, NEW email \in Emails, CreateTrustee(u, email)
      PROVE  TimestampsMatchLifecycle'
  BY <1>4, <1>c DEF CreateTrustee
<1>5. ASSUME NEW u \in Users, NEW tr \in Trustees, NEW email \in Emails,
             UpdateTrustee(u, tr, email)
      PROVE  TimestampsMatchLifecycle'
  BY <1>5, <1>c DEF UpdateTrustee
<1>6. ASSUME NEW u \in Users, NEW tr \in Trustees, DeleteTrustee(u, tr)
      PROVE  TimestampsMatchLifecycle'
  BY <1>6, <1>c DEF DeleteTrustee
<1>7. ASSUME NEW u \in Users, NEW t \in ClockReading, SubmitHeartbeat(u, t)
      PROVE  TimestampsMatchLifecycle'
  <2>1. PICK w \in Wills :
          \/ will' = [will EXCEPT ![w] =
               [will[w] EXCEPT !.lastHeartbeat = t, !.updatedAt = t]]
          \/ will' = [will EXCEPT ![w] = RestoredRow(will[w], t)]
    BY <1>7, ZenonT(60) DEF SubmitHeartbeat, LiveWills
  <2>2. /\ StampsMatch([will[w] EXCEPT !.lastHeartbeat = t, !.updatedAt = t])
        /\ StampsMatch(RestoredRow(will[w], t))
    BY <1>a, <1>b, StampsOfRow
  <2> QED BY <2>1, <2>2, StampsOneRow
<1>8. ASSUME NEW u \in Users, NEW t \in ClockReading, StartVerification(u, t)
      PROVE  TimestampsMatchLifecycle'
  <2>1. PICK w \in Wills :
          /\ will[w].lifecycle = "active"
          /\ will' = [will EXCEPT ![w] =
               [will[w] EXCEPT !.lifecycle = "pending_verification",
                               !.pendingStarted = t, !.updatedAt = t]]
    BY <1>8 DEF StartVerification, LiveWills, Dormant
  <2>2. StampsMatch([will[w] EXCEPT !.lifecycle = "pending_verification",
                                    !.pendingStarted = t, !.updatedAt = t])
    BY <2>1, <1>a, <1>b, StampsOfRow
  <2> QED BY <2>1, <2>2, StampsOneRow
<1>9. ASSUME NEW u \in Users, NEW t \in ClockReading, EndGrace(u, t)
      PROVE  TimestampsMatchLifecycle'
  <2>1. PICK w \in Wills :
          /\ will[w].lifecycle = "grace_period"
          /\ will' = [will EXCEPT ![w] =
               [will[w] EXCEPT !.lifecycle = "ready_for_execution", !.readyAt = t,
                               !.updatedAt = t]]
    BY <1>9 DEF EndGrace, LiveWills, GraceOver
  <2>2. StampsMatch([will[w] EXCEPT !.lifecycle = "ready_for_execution", !.readyAt = t,
                                    !.updatedAt = t])
    BY <2>1, <1>a, <1>b, StampsOfRow
  <2> QED BY <2>1, <2>2, StampsOneRow
<1>10. ASSUME NEW email \in Emails, NEW r \in Requests, NEW decision \in Decisions,
              NEW t \in ClockReading,
              RecordVerificationDecision(email, r, decision, t)
       PROVE  TimestampsMatchLifecycle'
  <2>1. CASE UNCHANGED will
    BY <2>1, <1>c
  <2>2. CASE ~UNCHANGED will
    <3>1. PICK w \in Wills : w = request[r].will
      BY DEF TypeOK, RequestRow
    <3>2. /\ will[w].lifecycle = "pending_verification"
          /\ will' = [will EXCEPT ![w] =
               [will[w] EXCEPT !.lifecycle = "grace_period", !.graceStarted = t,
                               !.updatedAt = t]]
      BY <1>10, <2>2, <3>1 DEF RecordVerificationDecision
    <3>3. StampsMatch([will[w] EXCEPT !.lifecycle = "grace_period", !.graceStarted = t,
                                      !.updatedAt = t])
      BY <3>2, <1>a, <1>b, StampsOfRow
    <3> QED BY <3>2, <3>3, StampsOneRow
  <2> QED BY <2>1, <2>2
<1>11. CASE Tick \/ UNCHANGED vars
  BY <1>11, <1>c DEF Tick, vars, store
<1> QED BY <1>1, <1>2, <1>3, <1>4, <1>5, <1>6, <1>7, <1>8, <1>9, <1>10, <1>11
        DEF Next, OwnerStep, WorkerStep, TrusteeStep

\* A step that leaves every will's existence, configuration and version alone.
LEMMA VersionFrame ==
  ASSUME VersionMatchesHistory, UNCHANGED history,
         \A w \in Wills :
           /\ will'[w].row = "absent" <=> will[w].row = "absent"
           /\ will'[w].config = will[w].config
           /\ will'[w].version = will[w].version
  PROVE  VersionMatchesHistory'
BY DEF VersionMatchesHistory

LEMMA VersionStep ==
  ASSUME TypeOK, VersionMatchesHistory, [Next]_vars
  PROVE  VersionMatchesHistory'
<1>a. ASSUME NEW w \in Wills
      PROVE  will[w] \in WillRow /\ history[w] \in Seq(Config)
  BY DEF TypeOK
<1>1. ASSUME NEW u \in Users, NEW config \in Config, NEW t \in ClockReading,
             CreateWill(u, config, t)
      PROVE  VersionMatchesHistory'
  <2> DEFINE new == [row |-> "live", owner |-> u, config |-> config, version |-> 1,
                     lifecycle |-> "active", lastHeartbeat |-> Never,
                     pendingStarted |-> Never, graceStarted |-> Never,
                     readyAt |-> Never, updatedAt |-> t]
  <2>1. PICK w \in Wills : /\ will' = [will EXCEPT ![w] = new]
                           /\ history' = [history EXCEPT ![w] = <<config>>]
    BY <1>1 DEF CreateWill
  <2>2. will'[w] = new /\ history'[w] = <<config>>
    BY <2>1 DEF TypeOK
  <2>3. Len(<<config>>) = 1 /\ <<config>>[1] = config
    OBVIOUS
  <2>4. will'[w].version = Len(history'[w]) /\ will'[w].config = history'[w][Len(history'[w])]
    BY <2>2, <2>3
  <2>5. \A v \in Wills \ {w} : will'[v] = will[v] /\ history'[v] = history[v]
    BY <2>1 DEF TypeOK
  <2> QED BY <2>4, <2>5 DEF VersionMatchesHistory
<1>2. ASSUME NEW u \in Users, NEW config \in Config, NEW t \in ClockReading,
             UpdateWill(u, config, t)
      PROVE  VersionMatchesHistory'
  <2>1. PICK w \in Wills :
          /\ will[w].row = "live"
          /\ will' = [will EXCEPT ![w] =
               [will[w] EXCEPT !.config = config, !.version = will[w].version + 1,
                               !.updatedAt = t]]
          /\ history' = [history EXCEPT ![w] = Append(history[w], config)]
    BY <1>2 DEF UpdateWill, LiveWills
  <2>2. /\ will'[w].version = will[w].version + 1
        /\ will'[w].config = config
    BY <2>1, <1>a DEF TypeOK, WillRow
  <2>3. history'[w] = Append(history[w], config)
    BY <2>1 DEF TypeOK
  <2>4. will[w].version = Len(history[w])
    BY <2>1 DEF VersionMatchesHistory
  <2>5. /\ config \in Config
        /\ Len(Append(history[w], config)) = Len(history[w]) + 1
        /\ Append(history[w], config)[Len(history[w]) + 1] = config
    BY <1>a
  <2>6. \A v \in Wills \ {w} : will'[v] = will[v] /\ history'[v] = history[v]
    BY <2>1 DEF TypeOK
  <2> QED BY <2>2, <2>3, <2>4, <2>5, <2>6 DEF VersionMatchesHistory
<1>3. ASSUME NEW u \in Users, NEW t \in ClockReading, DeleteWill(u, t)
      PROVE  VersionMatchesHistory'
  <2>1. PICK w \in Wills :
          /\ will[w].row = "live"
          /\ will' = [will EXCEPT ![w] = [will[w] EXCEPT !.row = "deleted", !.updatedAt = t]]
          /\ UNCHANGED history
    BY <1>3 DEF DeleteWill, LiveWills
  <2>2. /\ will'[w].row = "deleted"
        /\ will'[w].config = will[w].config
        /\ will'[w].version = will[w].version
    BY <2>1, <1>a DEF TypeOK, WillRow
  <2>3. \A v \in Wills \ {w} : will'[v] = will[v]
    BY <2>1 DEF TypeOK
  <2> QED BY <2>1, <2>2, <2>3, VersionFrame
<1>4. ASSUME NEW u \in Users, NEW email \in Emails, CreateTrustee(u, email)
      PROVE  VersionMatchesHistory'
  BY <1>4, VersionFrame DEF CreateTrustee
<1>5. ASSUME NEW u \in Users, NEW tr \in Trustees, NEW email \in Emails,
             UpdateTrustee(u, tr, email)
      PROVE  VersionMatchesHistory'
  BY <1>5, VersionFrame DEF UpdateTrustee
<1>6. ASSUME NEW u \in Users, NEW tr \in Trustees, DeleteTrustee(u, tr)
      PROVE  VersionMatchesHistory'
  BY <1>6, VersionFrame DEF DeleteTrustee
<1>7. ASSUME NEW u \in Users, NEW t \in ClockReading, SubmitHeartbeat(u, t)
      PROVE  VersionMatchesHistory'
  <2>1. PICK w \in Wills :
          \/ will' = [will EXCEPT ![w] =
               [will[w] EXCEPT !.lastHeartbeat = t, !.updatedAt = t]]
          \/ will' = [will EXCEPT ![w] = RestoredRow(will[w], t)]
    BY <1>7 DEF SubmitHeartbeat, LiveWills
  <2>2. ASSUME NEW row \in {[will[w] EXCEPT !.lastHeartbeat = t, !.updatedAt = t],
                            RestoredRow(will[w], t)}
        PROVE  row.row = will[w].row /\ row.config = will[w].config
               /\ row.version = will[w].version
    BY <2>2, <1>a DEF WillRow, RestoredRow
  <2>3. \A v \in Wills \ {w} : will'[v] = will[v]
    BY <2>1 DEF TypeOK
  <2>4. will'[w] \in {[will[w] EXCEPT !.lastHeartbeat = t, !.updatedAt = t],
                      RestoredRow(will[w], t)}
    BY <2>1 DEF TypeOK
  <2> QED BY <1>7, <2>2, <2>3, <2>4, VersionFrame DEF SubmitHeartbeat
<1>8. ASSUME NEW u \in Users, NEW t \in ClockReading, StartVerification(u, t)
      PROVE  VersionMatchesHistory'
  <2>1. PICK w \in Wills :
          will' = [will EXCEPT ![w] =
               [will[w] EXCEPT !.lifecycle = "pending_verification",
                               !.pendingStarted = t, !.updatedAt = t]]
    BY <1>8 DEF StartVerification, LiveWills
  <2>2. /\ will'[w].row = will[w].row /\ will'[w].config = will[w].config
        /\ will'[w].version = will[w].version
    BY <2>1, <1>a DEF TypeOK, WillRow
  <2>3. \A v \in Wills \ {w} : will'[v] = will[v]
    BY <2>1 DEF TypeOK
  <2> QED BY <1>8, <2>2, <2>3, VersionFrame DEF StartVerification
<1>9. ASSUME NEW u \in Users, NEW t \in ClockReading, EndGrace(u, t)
      PROVE  VersionMatchesHistory'
  <2>1. PICK w \in Wills :
          will' = [will EXCEPT ![w] =
               [will[w] EXCEPT !.lifecycle = "ready_for_execution", !.readyAt = t,
                               !.updatedAt = t]]
    BY <1>9 DEF EndGrace, LiveWills
  <2>2. /\ will'[w].row = will[w].row /\ will'[w].config = will[w].config
        /\ will'[w].version = will[w].version
    BY <2>1, <1>a DEF TypeOK, WillRow
  <2>3. \A v \in Wills \ {w} : will'[v] = will[v]
    BY <2>1 DEF TypeOK
  <2> QED BY <1>9, <2>2, <2>3, VersionFrame DEF EndGrace
<1>10. ASSUME NEW email \in Emails, NEW r \in Requests, NEW decision \in Decisions,
              NEW t \in ClockReading,
              RecordVerificationDecision(email, r, decision, t)
       PROVE  VersionMatchesHistory'
  <2>1. CASE UNCHANGED will
    BY <1>10, <2>1, VersionFrame DEF RecordVerificationDecision
  <2>2. CASE ~UNCHANGED will
    <3>1. PICK w \in Wills :
            will' = [will EXCEPT ![w] =
               [will[w] EXCEPT !.lifecycle = "grace_period", !.graceStarted = t,
                               !.updatedAt = t]]
      BY <1>10, <2>2 DEF RecordVerificationDecision, TypeOK, RequestRow
    <3>2. /\ will'[w].row = will[w].row /\ will'[w].config = will[w].config
          /\ will'[w].version = will[w].version
      BY <3>1, <1>a DEF TypeOK, WillRow
    <3>3. \A v \in Wills \ {w} : will'[v] = will[v]
      BY <3>1 DEF TypeOK
    <3> QED BY <1>10, <3>2, <3>3, VersionFrame DEF RecordVerificationDecision
  <2> QED BY <2>1, <2>2
<1>11. CASE Tick \/ UNCHANGED vars
  BY <1>11, VersionFrame DEF Tick, vars, store
<1> QED BY <1>1, <1>2, <1>3, <1>4, <1>5, <1>6, <1>7, <1>8, <1>9, <1>10, <1>11
        DEF Next, OwnerStep, WorkerStep, TrusteeStep

\* A step that writes no response, deletes no trustee and keeps every round.
LEMMA ResponsesFrame ==
  ASSUME ResponsesComeFromTrustees, UNCHANGED latest,
         \A r \in Requests : request[r].status # "absent" =>
           request'[r].status # "absent" /\ request'[r].will = request[r].will,
         \A tr \in Trustees : trustee[tr].row = "live" =>
           trustee'[tr].row = "live" /\ trustee'[tr].will = trustee[tr].will
  PROVE  ResponsesComeFromTrustees'
BY DEF ResponsesComeFromTrustees, Assigned

LEMMA ResponsesStep ==
  ASSUME TypeOK, ResponsesComeFromTrustees, [Next]_vars
  PROVE  ResponsesComeFromTrustees'
<1>1. ASSUME NEW u \in Users, NEW config \in Config, NEW t \in ClockReading,
             CreateWill(u, config, t) \/ UpdateWill(u, config, t)
      PROVE  ResponsesComeFromTrustees'
  BY <1>1, ResponsesFrame DEF CreateWill, UpdateWill
<1>2. ASSUME NEW u \in Users, NEW t \in ClockReading, DeleteWill(u, t)
      PROVE  ResponsesComeFromTrustees'
  BY <1>2, ResponsesFrame DEF DeleteWill
<1>3. ASSUME NEW u \in Users, NEW email \in Emails, CreateTrustee(u, email)
      PROVE  ResponsesComeFromTrustees'
  BY <1>3, ResponsesFrame DEF CreateTrustee, TypeOK
<1>4. ASSUME NEW u \in Users, NEW tr \in Trustees, NEW email \in Emails,
             UpdateTrustee(u, tr, email)
      PROVE  ResponsesComeFromTrustees'
  BY <1>4, ResponsesFrame DEF UpdateTrustee, TypeOK, TrusteeRow
<1>5. ASSUME NEW u \in Users, NEW tr \in Trustees, DeleteTrustee(u, tr)
      PROVE  ResponsesComeFromTrustees'
  <2>1. latest' = WithoutResponses(tr) /\ UNCHANGED request
    BY <1>5 DEF DeleteTrustee
  <2>2. \A r \in Requests : latest'[r][tr] = NoResponse
    BY <2>1 DEF WithoutResponses, TypeOK
  <2>3. \A r \in Requests, x \in Trustees \ {tr} : latest'[r][x] = latest[r][x]
    BY <2>1 DEF WithoutResponses, TypeOK
  <2>4. \A x \in Trustees \ {tr} : trustee'[x] = trustee[x]
    BY <1>5 DEF DeleteTrustee, TypeOK
  <2> QED BY <2>1, <2>2, <2>3, <2>4 DEF ResponsesComeFromTrustees, Assigned
<1>6. ASSUME NEW u \in Users, NEW t \in ClockReading, SubmitHeartbeat(u, t)
      PROVE  ResponsesComeFromTrustees'
  <2>1. PICK w \in Wills : UNCHANGED request \/ request' = CancelRounds(w)
    BY <1>6 DEF SubmitHeartbeat, LiveWills
  <2>2. \A r \in Requests : request[r].status # "absent" =>
          request'[r].status # "absent" /\ request'[r].will = request[r].will
    BY <2>1 DEF CancelRounds, TypeOK, RequestRow
  <2> QED BY <1>6, <2>2, ResponsesFrame DEF SubmitHeartbeat
<1>7. ASSUME NEW u \in Users, NEW t \in ClockReading, StartVerification(u, t)
      PROVE  ResponsesComeFromTrustees'
  <2>1. PICK w \in Wills, r \in Requests :
          /\ request[r].status = "absent"
          /\ request' = [request EXCEPT ![r] =
               [status |-> "pending", will |-> w,
                threshold |-> Majority(Cardinality(Assigned(w)))]]
    BY <1>7 DEF StartVerification, LiveWills
  <2>2. \A x \in Requests : request[x].status # "absent" => request'[x] = request[x]
    BY <2>1 DEF TypeOK
  <2> QED BY <1>7, <2>2, ResponsesFrame DEF StartVerification
<1>8. ASSUME NEW u \in Users, NEW t \in ClockReading, EndGrace(u, t)
      PROVE  ResponsesComeFromTrustees'
  BY <1>8, ResponsesFrame DEF EndGrace
<1>9. ASSUME NEW email \in Emails, NEW r \in Requests, NEW decision \in Decisions,
             NEW t \in ClockReading,
             RecordVerificationDecision(email, r, decision, t)
      PROVE  ResponsesComeFromTrustees'
  <2>1. /\ request[r].status = "pending"
        /\ UNCHANGED trustee
    BY <1>9 DEF RecordVerificationDecision
  <2>2. PICK tr \in Assigned(request[r].will) :
          \E newest : latest' = [latest EXCEPT ![r][tr] = newest]
    BY <1>9 DEF RecordVerificationDecision
  <2>3. \A x \in Requests, y \in Trustees :
          <<x, y>> # <<r, tr>> => latest'[x][y] = latest[x][y]
    BY <2>2 DEF TypeOK
  <2>4. \A x \in Requests : request[x].status # "absent" =>
          request'[x].status # "absent" /\ request'[x].will = request[x].will
    <3>1. \/ UNCHANGED request
          \/ request' = [request EXCEPT ![r] = [request[r] EXCEPT !.status = "resolved"]]
      BY <1>9 DEF RecordVerificationDecision
    <3>2. /\ [request[r] EXCEPT !.status = "resolved"].status = "resolved"
          /\ [request[r] EXCEPT !.status = "resolved"].will = request[r].will
      BY DEF TypeOK, RequestRow
    <3>3. CASE UNCHANGED request
      BY <3>3
    <3>4. CASE request' = [request EXCEPT ![r] = [request[r] EXCEPT !.status = "resolved"]]
      <4>1. request'[r] = [request[r] EXCEPT !.status = "resolved"]
        BY <3>4 DEF TypeOK
      <4>2. \A x \in Requests \ {r} : request'[x] = request[x]
        BY <3>4 DEF TypeOK
      <4> QED BY <4>1, <4>2, <3>2
    <3> QED BY <3>1, <3>3, <3>4
  <2> QED BY <2>1, <2>2, <2>3, <2>4 DEF ResponsesComeFromTrustees, Assigned
<1>10. CASE Tick \/ UNCHANGED vars
  BY <1>10, ResponsesFrame DEF Tick, vars, store
<1> QED BY <1>1, <1>2, <1>3, <1>4, <1>5, <1>6, <1>7, <1>8, <1>9, <1>10
        DEF Next, OwnerStep, WorkerStep, TrusteeStep

LEMMA NextIInv == IInv /\ [Next]_vars => IInv'
BY NextTypeOK, AbsentStep, RoundStep, TimestampsStep, VersionStep, ResponsesStep DEF IInv

LEMMA InductiveInvariant == Spec => []IInv
BY InitIInv, NextIInv, PTL DEF Spec

\* A pending will always has exactly one open round and any other will none, so
\* the worker's INSERT of a round never meets the unique index, however calls,
\* sweeps and responses interleave.
THEOREM RoundsMatch == Spec => []RoundMatchesLifecycle
BY InductiveInvariant, PTL DEF IInv

\* The stage timestamps agree with the lifecycle column, after every heartbeat
\* recovery too.
THEOREM TimestampsMatch == Spec => []TimestampsMatchLifecycle
BY InductiveInvariant, PTL DEF IInv

\* Version numbers count the snapshots and the newest snapshot is the row.
THEOREM VersionsMatch == Spec => []VersionMatchesHistory
BY InductiveInvariant, PTL DEF IInv

\* Every response on file is from a trustee the will under verification has.
THEOREM ResponsesMatch == Spec => []ResponsesComeFromTrustees
BY InductiveInvariant, PTL DEF IInv

-----------------------------------------------------------------------------
\* What a step may never do

LEMMA ClosedRoundsStep ==
  ASSUME TypeOK, [Next]_vars
  PROVE  KeepsClosedRounds
<1>a. \A r \in Requests : request[r] \in RequestRow
  BY DEF TypeOK
<1>b. UNCHANGED request => KeepsClosedRounds
  BY DEF KeepsClosedRounds
<1>1. ASSUME NEW u \in Users, NEW t \in ClockReading, OwnerStep(u, t),
             ~SubmitHeartbeat(u, t)
      PROVE  KeepsClosedRounds
  BY <1>1, <1>b DEF OwnerStep, CreateWill, UpdateWill, DeleteWill, CreateTrustee,
                    UpdateTrustee, DeleteTrustee
<1>2. ASSUME NEW u \in Users, NEW t \in ClockReading, SubmitHeartbeat(u, t)
      PROVE  KeepsClosedRounds
  <2>1. PICK w \in Wills : UNCHANGED request \/ request' = CancelRounds(w)
    BY <1>2 DEF SubmitHeartbeat, LiveWills
  <2> QED BY <2>1, <1>a, <1>b DEF KeepsClosedRounds, CancelRounds, PendingRounds, RequestRow
<1>3. ASSUME NEW u \in Users, NEW t \in ClockReading, StartVerification(u, t)
      PROVE  KeepsClosedRounds
  <2>1. PICK r \in Requests :
          /\ request[r].status = "absent"
          /\ \E new : request' = [request EXCEPT ![r] = new]
    BY <1>3 DEF StartVerification
  <2>2. \A x \in Requests \ {r} : request'[x] = request[x]
    BY <2>1 DEF TypeOK
  <2> QED BY <2>1, <2>2 DEF KeepsClosedRounds
<1>4. ASSUME NEW u \in Users, NEW t \in ClockReading, EndGrace(u, t)
      PROVE  KeepsClosedRounds
  BY <1>4, <1>b DEF EndGrace
<1>5. ASSUME NEW email \in Emails, NEW r \in Requests, NEW decision \in Decisions,
             NEW t \in ClockReading,
             RecordVerificationDecision(email, r, decision, t)
      PROVE  KeepsClosedRounds
  <2>1. /\ request[r].status = "pending"
        /\ \/ UNCHANGED request
           \/ request' = [request EXCEPT ![r] = [request[r] EXCEPT !.status = "resolved"]]
    BY <1>5 DEF RecordVerificationDecision
  <2> QED BY <2>1, <1>a DEF KeepsClosedRounds, TypeOK, RequestRow
<1>6. CASE Tick \/ UNCHANGED vars
  BY <1>6, <1>b DEF Tick, vars, store
<1> QED BY <1>1, <1>2, <1>3, <1>4, <1>5, <1>6 DEF Next, WorkerStep, TrusteeStep

\* A closed round is final, under every interleaving of owners, worker and
\* trustees.
THEOREM ClosedRoundsAreFinal == Spec => ClosedRoundsStayClosed
<1>1. TypeOK /\ [Next]_vars => [KeepsClosedRounds]_vars
  BY ClosedRoundsStep
<1> QED BY <1>1, TypeCorrectness, PTL DEF Spec, ClosedRoundsStayClosed

LEMMA GraceStep ==
  ASSUME IInv, IInv', [Next]_vars
  PROVE  OpensGraceByApproval
<1>a. ASSUME NEW w \in Wills
      PROVE  will[w] \in WillRow
  BY DEF IInv, TypeOK
<1>b. ASSUME \A w \in Wills : will'[w].lifecycle # will[w].lifecycle =>
                                will'[w].lifecycle # "grace_period"
      PROVE  OpensGraceByApproval
  BY <1>b DEF OpensGraceByApproval
<1>1. ASSUME NEW u \in Users, NEW t \in ClockReading, OwnerStep(u, t)
      PROVE  OpensGraceByApproval
  <2> DEFINE RowKeepsOrRestores ==
               \E w \in Wills : \E row :
                 /\ will' = [will EXCEPT ![w] = row]
                 /\ row.lifecycle \in {will[w].lifecycle, "active"}
  <2>1. \/ UNCHANGED will
        \/ RowKeepsOrRestores
    <3>1. ASSUME NEW config \in Config, CreateWill(u, config, t)
          PROVE  RowKeepsOrRestores
      <4> DEFINE new == [row |-> "live", owner |-> u, config |-> config, version |-> 1,
                         lifecycle |-> "active", lastHeartbeat |-> Never,
                         pendingStarted |-> Never, graceStarted |-> Never,
                         readyAt |-> Never, updatedAt |-> t]
      <4>1. PICK w \in Wills : will' = [will EXCEPT ![w] = new]
        BY <3>1 DEF CreateWill
      <4>2. new.lifecycle = "active"
        OBVIOUS
      <4> HIDE DEF new
      <4> QED BY <4>1, <4>2
    <3>2. ASSUME NEW config \in Config, UpdateWill(u, config, t)
          PROVE  RowKeepsOrRestores
      <4>1. PICK w \in Wills :
              will' = [will EXCEPT ![w] =
                [will[w] EXCEPT !.config = config, !.version = will[w].version + 1,
                                !.updatedAt = t]]
        BY <3>2 DEF UpdateWill, LiveWills
      <4>2. [will[w] EXCEPT !.config = config, !.version = will[w].version + 1,
                            !.updatedAt = t].lifecycle = will[w].lifecycle
        BY <1>a DEF WillRow
      <4> QED BY <4>1, <4>2
    <3>3. ASSUME DeleteWill(u, t)
          PROVE  RowKeepsOrRestores
      <4>1. PICK w \in Wills :
              will' = [will EXCEPT ![w] = [will[w] EXCEPT !.row = "deleted", !.updatedAt = t]]
        BY <3>3 DEF DeleteWill, LiveWills
      <4>2. [will[w] EXCEPT !.row = "deleted", !.updatedAt = t].lifecycle = will[w].lifecycle
        BY <1>a DEF WillRow
      <4> QED BY <4>1, <4>2
    <3>4. ASSUME SubmitHeartbeat(u, t)
          PROVE  RowKeepsOrRestores
      <4>1. PICK w \in Wills :
              \/ will' = [will EXCEPT ![w] =
                   [will[w] EXCEPT !.lastHeartbeat = t, !.updatedAt = t]]
              \/ will' = [will EXCEPT ![w] = RestoredRow(will[w], t)]
        BY <3>4 DEF SubmitHeartbeat, LiveWills
      <4>2. [will[w] EXCEPT !.lastHeartbeat = t, !.updatedAt = t].lifecycle
              = will[w].lifecycle
        BY <1>a DEF WillRow
      <4>3. RestoredRow(will[w], t).lifecycle = "active"
        BY <1>a DEF WillRow, RestoredRow
      <4> QED BY <4>1, <4>2, <4>3
    <3>5. ASSUME NEW email \in Emails, CreateTrustee(u, email)
          PROVE  UNCHANGED will
      BY <3>5 DEF CreateTrustee
    <3>6. ASSUME NEW tr \in Trustees, NEW email \in Emails, UpdateTrustee(u, tr, email)
          PROVE  UNCHANGED will
      BY <3>6 DEF UpdateTrustee
    <3>7. ASSUME NEW tr \in Trustees, DeleteTrustee(u, tr)
          PROVE  UNCHANGED will
      BY <3>7 DEF DeleteTrustee
    <3> QED BY <1>1, <3>1, <3>2, <3>3, <3>4, <3>5, <3>6, <3>7 DEF OwnerStep
  <2> QED BY <2>1, <1>b DEF IInv, TypeOK
<1>2. ASSUME NEW u \in Users, NEW t \in ClockReading, WorkerStep(u, t)
      PROVE  OpensGraceByApproval
  <2>1. PICK w \in Wills :
          \/ will' = [will EXCEPT ![w] =
               [will[w] EXCEPT !.lifecycle = "pending_verification",
                               !.pendingStarted = t, !.updatedAt = t]]
          \/ will' = [will EXCEPT ![w] =
               [will[w] EXCEPT !.lifecycle = "ready_for_execution", !.readyAt = t,
                               !.updatedAt = t]]
    BY <1>2 DEF WorkerStep, StartVerification, EndGrace, LiveWills
  <2>2. will'[w].lifecycle \in {"pending_verification", "ready_for_execution"}
    <3>1. [will[w] EXCEPT !.lifecycle = "pending_verification", !.pendingStarted = t,
                          !.updatedAt = t].lifecycle = "pending_verification"
      BY <1>a DEF WillRow
    <3>2. [will[w] EXCEPT !.lifecycle = "ready_for_execution", !.readyAt = t,
                          !.updatedAt = t].lifecycle = "ready_for_execution"
      BY <1>a DEF WillRow
    <3> QED BY <2>1, <3>1, <3>2 DEF IInv, TypeOK
  <2>3. \A v \in Wills \ {w} : will'[v] = will[v]
    BY <2>1 DEF IInv, TypeOK
  <2> QED BY <2>2, <2>3, <1>b
<1>3. ASSUME NEW email \in Emails, NEW r \in Requests, NEW decision \in Decisions,
             NEW t \in ClockReading,
             RecordVerificationDecision(email, r, decision, t)
      PROVE  OpensGraceByApproval
  <2>1. CASE UNCHANGED will
    BY <2>1, <1>b
  <2>2. CASE ~UNCHANGED will
    <3> DEFINE w == request[r].will
               panel == Approvers(latest', r)
    <3>1. w \in Wills /\ request[r] \in RequestRow
      BY DEF IInv, TypeOK, RequestRow
    <3>2. /\ request[r].status = "pending"
          /\ Cardinality(panel) >= request[r].threshold
          /\ will' = [will EXCEPT ![w] =
               [will[w] EXCEPT !.lifecycle = "grace_period", !.graceStarted = t,
                               !.updatedAt = t]]
          /\ request' = [request EXCEPT ![r] = [request[r] EXCEPT !.status = "resolved"]]
          /\ UNCHANGED trustee
      BY <1>3, <2>2 DEF RecordVerificationDecision
    <3>3. request'[r].status = "resolved" /\ request'[r].will = w
      BY <3>1, <3>2 DEF IInv, TypeOK, RequestRow
    <3>4. r \in PendingRounds(w)
      BY <3>2 DEF PendingRounds
    <3>5. panel \in SUBSET Assigned(w)
      <4>1. \A tr \in panel : tr \in Trustees /\ latest'[r][tr].decision = "approve"
        BY DEF Approvers
      <4>2. \A tr \in panel : latest'[r][tr] # NoResponse
        BY <4>1 DEF NoResponse
      <4>3. Assigned(w)' = Assigned(w)
        BY <3>2, <3>3 DEF Assigned
      <4> QED BY <4>1, <4>2, <4>3, <3>3 DEF IInv, ResponsesComeFromTrustees, Assigned
    <3>6. \A tr \in panel : latest'[r][tr].decision = "approve"
      BY DEF Approvers
    <3>7. \A v \in Wills \ {w} : will'[v] = will[v]
      BY <3>2 DEF IInv, TypeOK
    <3> QED BY <3>2, <3>3, <3>4, <3>5, <3>6, <3>7 DEF OpensGraceByApproval
  <2> QED BY <2>1, <2>2
<1>4. CASE Tick \/ UNCHANGED vars
  BY <1>4, <1>b DEF Tick, vars, store
<1> QED BY <1>1, <1>2, <1>3, <1>4 DEF Next, TrusteeStep

\* No interleaving opens a grace period without a threshold of approvals from
\* distinct trustees the will has at that moment.
THEOREM GraceIsApproved == Spec => GraceNeedsApprovals
<1>1. IInv /\ IInv' /\ [Next]_vars => [OpensGraceByApproval]_vars
  BY GraceStep
<1> QED BY <1>1, InductiveInvariant, PTL DEF Spec, GraceNeedsApprovals

\* A step that writes the row and the history of one will that is not deleted.
LEMMA OtherWillsFrame ==
  ASSUME TypeOK, NEW w \in Wills, will[w].row # "deleted",
         \E row : will' = [will EXCEPT ![w] = row],
         UNCHANGED history \/ \E h : history' = [history EXCEPT ![w] = h]
  PROVE  LeavesDeletedAlone
<1>1. \A v \in Wills \ {w} : will'[v] = will[v] /\ history'[v] = history[v]
  BY DEF TypeOK
<1> QED BY <1>1 DEF LeavesDeletedAlone

LEMMA DeletedStep ==
  ASSUME TypeOK, [Next]_vars
  PROVE  LeavesDeletedAlone
<1>a. UNCHANGED <<will, history>> => LeavesDeletedAlone
  BY DEF LeavesDeletedAlone
<1>b. ASSUME NEW u \in Users, NEW w \in LiveWills(u)
      PROVE  w \in Wills /\ will[w].row # "deleted"
  BY DEF LiveWills
<1>1. ASSUME NEW u \in Users, NEW config \in Config, NEW t \in ClockReading,
             CreateWill(u, config, t)
      PROVE  LeavesDeletedAlone
  <2>1. PICK w \in Wills :
          /\ will[w].row = "absent"
          /\ \E row : will' = [will EXCEPT ![w] = row]
          /\ \E h : history' = [history EXCEPT ![w] = h]
    BY <1>1 DEF CreateWill
  <2> QED BY <2>1, OtherWillsFrame
<1>2. ASSUME NEW u \in Users, NEW config \in Config, NEW t \in ClockReading,
             UpdateWill(u, config, t)
      PROVE  LeavesDeletedAlone
  <2>1. PICK w \in LiveWills(u) :
          /\ \E row : will' = [will EXCEPT ![w] = row]
          /\ \E h : history' = [history EXCEPT ![w] = h]
    BY <1>2 DEF UpdateWill
  <2> QED BY <2>1, <1>b, OtherWillsFrame
<1>3. ASSUME NEW u \in Users, NEW t \in ClockReading,
             \/ DeleteWill(u, t)
             \/ SubmitHeartbeat(u, t)
             \/ WorkerStep(u, t)
      PROVE  LeavesDeletedAlone
  <2>1. PICK w \in LiveWills(u) :
          /\ \E row : will' = [will EXCEPT ![w] = row]
          /\ UNCHANGED history
    BY <1>3 DEF DeleteWill, SubmitHeartbeat, WorkerStep, StartVerification, EndGrace
  <2> QED BY <2>1, <1>b, OtherWillsFrame
<1>4. ASSUME NEW u \in Users, NEW email \in Emails, CreateTrustee(u, email)
      PROVE  LeavesDeletedAlone
  BY <1>4, <1>a DEF CreateTrustee
<1>5. ASSUME NEW u \in Users, NEW tr \in Trustees,
             DeleteTrustee(u, tr) \/ \E email \in Emails : UpdateTrustee(u, tr, email)
      PROVE  LeavesDeletedAlone
  BY <1>5, <1>a DEF UpdateTrustee, DeleteTrustee
<1>6. ASSUME NEW email \in Emails, NEW r \in Requests, NEW decision \in Decisions,
             NEW t \in ClockReading,
             RecordVerificationDecision(email, r, decision, t)
      PROVE  LeavesDeletedAlone
  <2>1. CASE UNCHANGED will
    BY <1>6, <2>1, <1>a DEF RecordVerificationDecision
  <2>2. CASE ~UNCHANGED will
    <3>1. PICK w \in Wills : w = request[r].will
      BY DEF TypeOK, RequestRow
    <3>2. /\ will[w].lifecycle = "pending_verification"
          /\ will' = [will EXCEPT ![w] =
               [will[w] EXCEPT !.lifecycle = "grace_period", !.graceStarted = t,
                               !.updatedAt = t]]
          /\ UNCHANGED history
      BY <1>6, <2>2, <3>1 DEF RecordVerificationDecision
    <3>3. /\ will'[w].row = will[w].row
          /\ will'[w].config = will[w].config
          /\ will'[w].lifecycle = "grace_period"
      BY <3>2 DEF TypeOK, WillRow
    <3>4. \A v \in Wills \ {w} : will'[v] = will[v]
      BY <3>2 DEF TypeOK
    <3> QED BY <3>2, <3>3, <3>4 DEF LeavesDeletedAlone
  <2> QED BY <2>1, <2>2
<1>7. CASE Tick \/ UNCHANGED vars
  BY <1>7, <1>a DEF Tick, vars, store
<1> QED BY <1>1, <1>2, <1>3, <1>4, <1>5, <1>6, <1>7
        DEF Next, OwnerStep, TrusteeStep

\* A deleted will is out of reach of its owner and of the worker: the one thing
\* that still moves it is a decision on the round it left open.
THEOREM DeletedWillsAreFrozen == Spec => DeletedWillsKeepTheirConfig
<1>1. TypeOK /\ [Next]_vars => [LeavesDeletedAlone]_vars
  BY DeletedStep
<1> QED BY <1>1, TypeCorrectness, PTL DEF Spec, DeletedWillsKeepTheirConfig
=============================================================================
