--------------------------- MODULE ContractProofs ---------------------------
(***************************************************************************)
(* The service, one call or sweep at a time, implements LifecycleContract: *)
(* every transaction is one step of the contract for the will it is about, *)
(* or none, and no other will notices.                                     *)
(***************************************************************************)
EXTENDS EnrollmentProofs

ContractStep == [Contract!Next]_(Contract!contract)

\* What the contract sees of a will stays.
SameView(w) ==
  /\ Phase(w)' = Phase(w)
  /\ PublishedNow(w)' = PublishedNow(w)
  /\ Panel(w)' = Panel(w)
  /\ Approving(w)' = Approving(w)

LEMMA ViewsAt ==
  ASSUME NEW w \in Wills
  PROVE  /\ phaseOf[w] = Phase(w) /\ phaseOf'[w] = Phase(w)'
         /\ publishedOf[w] = PublishedNow(w) /\ publishedOf'[w] = PublishedNow(w)'
         /\ panelOf[w] = Panel(w) /\ panelOf'[w] = Panel(w)'
         /\ approvingOf[w] = Approving(w) /\ approvingOf'[w] = Approving(w)'
BY DEF phaseOf, publishedOf, panelOf, approvingOf

\* A step takes each will a step of its own, or leaves it.
LEMMA WillsMove ==
  ASSUME \A w \in Wills : Contract!Step(w) \/ SameView(w)
  PROVE  ContractStep
<1>1. Contract!Shapes
  <2>1. phaseOf' = [w \in Wills |-> phaseOf'[w]]
    BY DEF phaseOf
  <2>2. publishedOf' = [w \in Wills |-> publishedOf'[w]]
    BY DEF publishedOf
  <2>3. panelOf' = [w \in Wills |-> panelOf'[w]]
    BY DEF panelOf
  <2>4. approvingOf' = [w \in Wills |-> approvingOf'[w]]
    BY DEF approvingOf
  <2> QED BY <2>1, <2>2, <2>3, <2>4 DEF Contract!Shapes
<1>2. ASSUME NEW w \in Wills, SameView(w) PROVE Contract!Stays(w)
  BY <1>2, ViewsAt DEF SameView, Contract!Stays
<1> QED BY <1>1, <1>2 DEF ContractStep, Contract!Next

LEMMA OneWillMoves ==
  ASSUME NEW w \in Wills, Contract!Step(w), \A x \in Wills : x # w => SameView(x)
  PROVE  ContractStep
BY WillsMove

LEMMA Stutter ==
  ASSUME \A w \in Wills : SameView(w)
  PROVE  ContractStep
BY WillsMove

\* One lemma per step of the contract, in terms of the will it is about.
LEMMA IsOpen ==
  ASSUME NEW w \in Wills,
         Phase(w) = "none", Phase(w)' = "active",
         PublishedNow(w)' = PublishedNow(w), Panel(w)' = Panel(w),
         Approving(w)' = Approving(w)
  PROVE  Contract!Step(w)
BY ViewsAt DEF Contract!Step, Contract!Open, Contract!Move

LEMMA IsAuthor ==
  ASSUME NEW w \in Wills,
         Phase(w) = "active", Phase(w)' = "active",
         PublishedNow(w)' => Panel(w)' # {}, Panel(w)' \subseteq Trustees,
         Approving(w)' = Approving(w)
  PROVE  Contract!Step(w)
<1>1. PublishedNow(w)' \in BOOLEAN
  BY DEF PublishedNow
<1>2. Contract!Author(w)
  <2>1. publishedOf'[w] \in BOOLEAN
    BY <1>1, ViewsAt
  <2>2. publishedOf'[w] => panelOf'[w] # {}
    BY ViewsAt
  <2> QED BY <2>1, <2>2, ViewsAt DEF Contract!Author, Contract!Move
<1> QED BY <1>2 DEF Contract!Step

LEMMA IsBeginVerification ==
  ASSUME NEW w \in Wills,
         Phase(w) = "active", Phase(w)' = "pending_verification",
         PublishedNow(w), Panel(w) # {},
         PublishedNow(w)' = PublishedNow(w), Panel(w)' = Panel(w),
         Approving(w)' = Approving(w)
  PROVE  Contract!Step(w)
<1>1. Contract!BeginVerification(w)
  BY ViewsAt DEF Contract!BeginVerification, Contract!Move
<1> QED BY <1>1 DEF Contract!Step

LEMMA IsRespond ==
  ASSUME NEW w \in Wills,
         Phase(w) = "pending_verification", Phase(w)' = Phase(w),
         PublishedNow(w)' = PublishedNow(w), Panel(w)' = Panel(w),
         NEW tr \in Panel(w),
         Approving(w)' \in {Approving(w) \union {tr}, Approving(w) \ {tr}},
         ~Contract!IsMajority(Approving(w)', Panel(w))
  PROVE  Contract!Step(w)
<1>1. /\ tr \in panelOf[w]
      /\ approvingOf'[w] \in {approvingOf[w] \union {tr}, approvingOf[w] \ {tr}}
      /\ ~Contract!IsMajority(approvingOf'[w], panelOf[w])
  BY ViewsAt
<1>2. Contract!Respond(w)
  BY <1>1, ViewsAt DEF Contract!Respond, Contract!Move
<1> QED BY <1>2 DEF Contract!Step

LEMMA IsBeginGrace ==
  ASSUME NEW w \in Wills,
         Phase(w) = "pending_verification", Phase(w)' = "grace_period",
         PublishedNow(w)' = PublishedNow(w), Panel(w)' = Panel(w),
         NEW tr \in Panel(w), Contract!IsMajority(Approving(w) \union {tr}, Panel(w)),
         Approving(w)' = {}
  PROVE  Contract!Step(w)
<1>1. tr \in panelOf[w] /\ Contract!IsMajority(approvingOf[w] \union {tr}, panelOf[w])
  BY ViewsAt
<1>2. Contract!BeginGrace(w)
  BY <1>1, ViewsAt DEF Contract!BeginGrace, Contract!Move
<1> QED BY <1>2 DEF Contract!Step

LEMMA IsBecomeReady ==
  ASSUME NEW w \in Wills,
         Phase(w) = "grace_period", Phase(w)' = "ready_for_execution",
         PublishedNow(w)' = PublishedNow(w), Panel(w)' = Panel(w),
         Approving(w)' = Approving(w)
  PROVE  Contract!Step(w)
BY ViewsAt DEF Contract!Step, Contract!BecomeReady, Contract!Move

LEMMA IsRestore ==
  ASSUME NEW w \in Wills,
         Phase(w) \in {"pending_verification", "grace_period", "ready_for_execution"},
         Phase(w)' = "active", PublishedNow(w)' = PublishedNow(w),
         Panel(w)' = Panel(w), Approving(w)' = {}
  PROVE  Contract!Step(w)
BY ViewsAt DEF Contract!Step, Contract!Restore, Contract!Move

LEMMA IsClose ==
  ASSUME NEW w \in Wills,
         Phase(w) \in Contract!Phases \ {"none", "closed"}, will'[w].row = "deleted"
  PROVE  Contract!Step(w)
<1>1. Phase(w)' = "closed"
  BY DEF Phase
<1>2. PublishedNow(w)' = FALSE /\ Panel(w)' = {} /\ Approving(w)' = {}
  BY DEF PublishedNow, Panel, Approving
<1> QED BY <1>1, <1>2, ViewsAt DEF Contract!Step, Contract!Close, Contract!Move

-----------------------------------------------------------------------------
\* A will no transaction has written has no trustees yet.

NoStrayTrustees ==
  \A tr \in Trustees :
    trustee[tr].row = "live" => will[trustee[tr].will].row # "absent"

LEMMA StrayStep ==
  ASSUME TypeOK, TypeOK', NoStrayTrustees, [Next]_vars
  PROVE  NoStrayTrustees'
<1>1. \A w \in Wills : will[w].row # "absent" => will'[w].row # "absent"
  <2>1. ASSUME NEW t \in ClockReading, NEW u \in Users, NEW config \in Config,
               CreateWill(u, config, t)
        PROVE  \A w \in Wills : will[w].row # "absent" => will'[w].row # "absent"
    BY <2>1 DEF CreateWill, TypeOK
  <2>2. ASSUME NEW t \in ClockReading, NEW u \in Users, NEW config \in Config,
               UpdateWill(u, config, t)
        PROVE  \A w \in Wills : will[w].row # "absent" => will'[w].row # "absent"
    BY <2>2 DEF UpdateWill, TypeOK, WillRow
  <2>3. ASSUME NEW t \in ClockReading, NEW u \in Users, DeleteWill(u, t)
        PROVE  \A w \in Wills : will[w].row # "absent" => will'[w].row # "absent"
    BY <2>3 DEF DeleteWill, TypeOK, WillRow
  <2>4. ASSUME NEW t \in ClockReading, NEW u \in Users, NEW w \in LiveWills(u),
               \E row : will' = [will EXCEPT ![w] = row] /\ row.row = "live"
        PROVE  \A x \in Wills : will[x].row # "absent" => will'[x].row # "absent"
    BY <2>4 DEF TypeOK, LiveWills
  <2>5. ASSUME NEW t \in ClockReading, NEW u \in Users, SubmitHeartbeat(u, t)
        PROVE  \A w \in Wills : will[w].row # "absent" => will'[w].row # "absent"
    <3>1. PICK w \in LiveWills(u) :
            \/ will' = [will EXCEPT ![w] =
                 [will[w] EXCEPT !.lastHeartbeat = t, !.updatedAt = t]]
            \/ will' = [will EXCEPT ![w] = RestoredRow(will[w], t)]
      BY <2>5 DEF SubmitHeartbeat
    <3>2. /\ [will[w] EXCEPT !.lastHeartbeat = t, !.updatedAt = t].row = "live"
          /\ RestoredRow(will[w], t).row = "live"
      BY DEF LiveWills, RestoredRow, TypeOK, WillRow
    <3> QED BY <3>1, <3>2, <2>4
  <2>6. ASSUME NEW t \in ClockReading, NEW u \in Users, StartVerification(u, t)
        PROVE  \A w \in Wills : will[w].row # "absent" => will'[w].row # "absent"
    BY <2>6 DEF StartVerification, TypeOK, WillRow
  <2>7. ASSUME NEW t \in ClockReading, NEW u \in Users, EndGrace(u, t)
        PROVE  \A w \in Wills : will[w].row # "absent" => will'[w].row # "absent"
    BY <2>7 DEF EndGrace, TypeOK, WillRow
  <2>8. ASSUME NEW t \in ClockReading, TrusteeStep(t)
        PROVE  \A w \in Wills : will[w].row # "absent" => will'[w].row # "absent"
    <3>1. PICK email \in Emails, r \in Requests, decision \in Decisions :
            RecordVerificationDecision(email, r, decision, t)
      BY <2>8 DEF TrusteeStep
    <3>2. PICK w \in Wills : w = request[r].will
      BY DEF TypeOK, RequestRow
    <3>3. CASE will' = [will EXCEPT ![w] = [will[w] EXCEPT
                 !.lifecycle = "grace_period", !.graceStarted = t, !.updatedAt = t]]
      BY <3>3 DEF TypeOK, WillRow
    <3> QED BY <3>1, <3>2, <3>3 DEF RecordVerificationDecision
  <2> QED
    BY <2>1, <2>2, <2>3, <2>5, <2>6, <2>7, <2>8
    DEF Next, OwnerStep, WorkerStep, Tick, CreateTrustee, UpdateTrustee, DeleteTrustee,
        vars, store
<1>2. ASSUME NEW t \in ClockReading, NEW u \in Users, NEW email \in Emails,
             CreateTrustee(u, email)
      PROVE  NoStrayTrustees'
  BY <1>2 DEF CreateTrustee, NoStrayTrustees, LiveWills, TypeOK
<1>3. ASSUME \A tr \in Trustees : trustee'[tr].row = "live" =>
               trustee[tr].row = "live" /\ trustee'[tr].will = trustee[tr].will
      PROVE  NoStrayTrustees'
  BY <1>1, <1>3 DEF NoStrayTrustees, TypeOK, TrusteeRow
<1>4. ASSUME NEW t \in ClockReading, NEW u \in Users, NEW tr \in Trustees,
             NEW email \in Emails, UpdateTrustee(u, tr, email)
      PROVE  NoStrayTrustees'
  BY <1>3, <1>4 DEF UpdateTrustee, TypeOK, TrusteeRow
<1>5. ASSUME NEW t \in ClockReading, NEW u \in Users, NEW tr \in Trustees,
             DeleteTrustee(u, tr)
      PROVE  NoStrayTrustees'
  BY <1>3, <1>5 DEF DeleteTrustee, TypeOK, TrusteeRow
<1>6. ASSUME UNCHANGED trustee
      PROVE  NoStrayTrustees'
  BY <1>3, <1>6
<1> QED
  BY <1>2, <1>4, <1>5, <1>6, ZenonT(60)
  DEF Next, OwnerStep, WorkerStep, TrusteeStep, Tick, CreateWill, UpdateWill, DeleteWill,
      SubmitHeartbeat, StartVerification, EndGrace, RecordVerificationDecision, vars, store

-----------------------------------------------------------------------------
\* Nothing is being approved for a will that is not pending.
LEMMA NotApproving ==
  ASSUME RoundMatchesLifecycle, NEW w \in Wills, will[w].lifecycle # "pending_verification"
  PROVE  Approving(w) = {}
BY NoOpenRound DEF Approving

LEMMA NotApprovingNext ==
  ASSUME RoundMatchesLifecycle', NEW w \in Wills,
         will'[w].lifecycle # "pending_verification"
  PROVE  Approving(w)' = {}
<1>1. PendingRounds(w)' = {}
  BY DEF RoundMatchesLifecycle
<1> QED BY <1>1 DEF Approving

\* A will whose row, trustees and open round are left alone looks the same.
LEMMA ViewFrame ==
  ASSUME NEW w \in Wills, UNCHANGED <<request, latest>>,
         will'[w].row = will[w].row, will'[w].config = will[w].config,
         will'[w].lifecycle = will[w].lifecycle,
         will[w].row = "live" => Assigned(w)' = Assigned(w)
  PROVE  SameView(w)
<1>1. PendingRounds(w)' = PendingRounds(w)
  BY DEF PendingRounds
<1>2. \A r \in PendingRounds(w) : Approvers(latest, r)' = Approvers(latest, r)
  BY DEF Approvers
<1>3. Approving(w)' = Approving(w)
  BY <1>1, <1>2 DEF Approving
<1> QED BY <1>3 DEF SameView, Phase, PublishedNow, Panel

\* So does one whose open round keeps its approvals.
LEMMA RoundViewFrame ==
  ASSUME NEW w \in Wills, will'[w] = will[w], Assigned(w)' = Assigned(w),
         will[w].row = "live" =>
           /\ PendingRounds(w)' = PendingRounds(w)
           /\ \A r \in PendingRounds(w) : Approvers(latest, r)' = Approvers(latest, r)
  PROVE  SameView(w)
<1>1. Approving(w)' = Approving(w)
  BY DEF Approving
<1> QED BY <1>1 DEF SameView, Phase, PublishedNow, Panel

LEMMA LivePhase ==
  ASSUME TypeOK, NEW w \in Wills, will[w].row = "live"
  PROVE  Phase(w) = will[w].lifecycle /\ Panel(w) = Assigned(w)
BY DEF Phase, Panel

LEMMA CreateWillIsOpen ==
  ASSUME IInv, IInv', NoStrayTrustees, RulesFollowed', NEW u \in Users,
         NEW config \in Config, NEW t, CreateWill(u, config, t)
  PROVE  ContractStep
<1>1. PICK w \in Wills :
        /\ will[w].row = "absent"
        /\ will' = [will EXCEPT ![w] =
             [row |-> "live", owner |-> u, config |-> config, version |-> 1,
              lifecycle |-> "active", lastHeartbeat |-> Never,
              pendingStarted |-> Never, graceStarted |-> Never,
              readyAt |-> Never, updatedAt |-> t]]
  BY DEF CreateWill
<1>2. \A x \in Wills : Assigned(x)' = Assigned(x)
  BY DEF CreateWill, Assigned
<1>3. will'[w].row = "live" /\ will'[w].lifecycle = "active" /\ Assigned(w) = {}
  BY <1>1 DEF IInv, TypeOK, NoStrayTrustees, Assigned
<1>4. Phase(w) = "none" /\ Phase(w)' = "active"
  BY <1>1, <1>3 DEF Phase
<1>5. PublishedNow(w)' = PublishedNow(w) /\ Panel(w)' = Panel(w)
  BY <1>1, <1>2, <1>3 DEF PublishedNow, Panel, RulesFollowed, FollowsRules
<1>6. Approving(w)' = Approving(w)
  BY <1>1, <1>3, NotApproving, NotApprovingNext DEF IInv, AbsentWillsAreActive
<1>7. ASSUME NEW x \in Wills, x # w
      PROVE  SameView(x)
  <2>1. will'[x] = will[x] /\ UNCHANGED <<request, latest>>
    BY <1>1, <1>7 DEF CreateWill, IInv, TypeOK
  <2> QED BY <1>2, <2>1, ViewFrame
<1> QED BY <1>4, <1>5, <1>6, <1>7, IsOpen, OneWillMoves

\* Authoring an active will: whatever it does keeps the rules.
LEMMA AuthoringStep ==
  ASSUME IInv, IInv', RulesFollowed', NEW w \in Wills,
         will[w].row = "live", will[w].lifecycle = "active",
         will'[w].row = "live", will'[w].lifecycle = "active",
         \A x \in Wills : x # w => SameView(x)
  PROVE  ContractStep
<1>1. Phase(w) = "active" /\ Phase(w)' = "active"
  BY DEF Phase
<1>2. Approving(w)' = Approving(w)
  BY NotApproving, NotApprovingNext DEF IInv
<1>3. (PublishedNow(w)' => Panel(w)' # {}) /\ Panel(w)' \subseteq Trustees
  BY DEF PublishedNow, Panel, Assigned, RulesFollowed, FollowsRules
<1> QED BY <1>1, <1>2, <1>3, IsAuthor, OneWillMoves

LEMMA UpdateWillIsAuthor ==
  ASSUME IInv, IInv', OneLiveWill, RulesFollowed', NEW u \in Users, NEW config \in Config,
         NEW t, Editable(u), UpdateWill(u, config, t)
  PROVE  ContractStep
<1>1. PICK w \in LiveWills(u) :
        will' = [will EXCEPT ![w] =
          [@ EXCEPT !.config = config, !.version = will[w].version + 1, !.updatedAt = t]]
  BY DEF UpdateWill
<1>2. w \in Wills /\ will[w].row = "live" /\ will[w].lifecycle = "active"
  BY OnlyLiveWill DEF Editable, LiveWills
<1>3. will'[w].row = "live" /\ will'[w].lifecycle = "active"
  BY <1>1, <1>2 DEF IInv, TypeOK, WillRow
<1>4. ASSUME NEW x \in Wills, x # w
      PROVE  SameView(x)
  <2>1. will'[x] = will[x]
    BY <1>1, <1>4 DEF IInv, TypeOK
  <2>2. Assigned(x)' = Assigned(x) /\ UNCHANGED <<request, latest>>
    BY DEF UpdateWill, Assigned
  <2> QED BY <2>1, <2>2, ViewFrame
<1> QED BY <1>2, <1>3, <1>4, AuthoringStep

LEMMA DeleteWillIsClose ==
  ASSUME IInv, NEW u \in Users, NEW t, DeleteWill(u, t)
  PROVE  ContractStep
<1>1. PICK w \in Wills :
        /\ will[w].row = "live"
        /\ will' = [will EXCEPT ![w] = [@ EXCEPT !.row = "deleted", !.updatedAt = t]]
  BY DEF DeleteWill, LiveWills
<1>2. will'[w].row = "deleted" /\ \A x \in Wills : x # w => will'[x] = will[x]
  BY <1>1 DEF IInv, TypeOK, WillRow
<1>3. Phase(w) \in Contract!Phases \ {"none", "closed"}
  BY <1>1, LivePhase DEF IInv, TypeOK, WillRow, Lifecycles, Contract!Phases
<1>4. \A x \in Wills : Assigned(x)' = Assigned(x) /\ UNCHANGED <<request, latest>>
  BY DEF DeleteWill, Assigned
<1> QED BY <1>2, <1>3, <1>4, ViewFrame, IsClose, OneWillMoves

LEMMA CreateTrusteeIsAuthor ==
  ASSUME IInv, IInv', OneLiveWill, RulesFollowed', NEW u \in Users, NEW email \in Emails,
         Editable(u), CreateTrustee(u, email)
  PROVE  ContractStep
<1>1. PICK w \in LiveWills(u), tr \in Trustees :
        /\ trustee[tr].row = "absent"
        /\ trustee' = [trustee EXCEPT ![tr] = [row |-> "live", will |-> w, email |-> email]]
        /\ UNCHANGED <<will, request, latest>>
  BY DEF CreateTrustee
<1>2. w \in Wills /\ will[w].row = "live" /\ will[w].lifecycle = "active"
  BY OnlyLiveWill DEF Editable, LiveWills
<1>3. ASSUME NEW x \in Wills, x # w
      PROVE  SameView(x)
  <2>1. Assigned(x)' = Assigned(x)
    BY <1>1, <1>3 DEF Assigned, IInv, TypeOK
  <2> QED BY <1>1, <2>1, ViewFrame
<1> QED BY <1>1, <1>2, <1>3, AuthoringStep

LEMMA UpdateTrusteeIsNoStep ==
  ASSUME IInv, NEW u \in Users, NEW tr \in Trustees, NEW email \in Emails,
         UpdateTrustee(u, tr, email)
  PROVE  ContractStep
<1>1. \A x \in Wills : Assigned(x)' = Assigned(x)
  BY DEF UpdateTrustee, Assigned, IInv, TypeOK, TrusteeRow
<1> QED BY <1>1, ViewFrame, Stutter DEF UpdateTrustee

\* A removed trustee takes no approval of another will with it.
LEMMA DeleteTrusteeIsAuthor ==
  ASSUME IInv, IInv', OneLiveWill, RulesFollowed', NEW u \in Users, NEW tr \in Trustees,
         Editable(u), DeleteTrustee(u, tr)
  PROVE  ContractStep
<1>1. PICK w \in LiveWills(u) : will[w].lifecycle = "active"
  BY DEF Editable
<1>2. w \in Wills /\ will[w].row = "live" /\ UNCHANGED <<will, request>>
  BY DEF LiveWills, DeleteTrustee
<1>3. ASSUME NEW x \in Wills, x # w, will[x].row = "live"
      PROVE  SameView(x)
  <2>1. trustee[tr].will # x
    BY <1>3, OnlyLiveWill DEF LiveWills, DeleteTrustee, OwnTrustee
  <2>2. Assigned(x)' = Assigned(x)
    BY <2>1 DEF DeleteTrustee, Assigned, IInv, TypeOK, TrusteeRow
  <2>3. ASSUME NEW r \in PendingRounds(x)
        PROVE  Approvers(latest, r)' = Approvers(latest, r)
    <3>1. latest[r][tr] = NoResponse
      BY <2>1 DEF IInv, ResponsesComeFromTrustees, PendingRounds, Assigned
    <3>2. \A y \in Trustees : latest'[r][y] = latest[r][y]
      BY <3>1 DEF DeleteTrustee, WithoutResponses, PendingRounds, IInv, TypeOK
    <3> QED BY <3>2 DEF Approvers
  <2>4. PendingRounds(x)' = PendingRounds(x)
    BY <1>2 DEF PendingRounds
  <2> QED BY <1>2, <2>2, <2>3, <2>4, RoundViewFrame
<1>4. ASSUME NEW x \in Wills, will[x].row # "live"
      PROVE  SameView(x)
  BY <1>2, <1>4 DEF SameView, Phase, PublishedNow, Panel, Approving
<1> QED BY <1>1, <1>2, <1>3, <1>4, AuthoringStep

LEMMA HeartbeatIsRestore ==
  ASSUME IInv, IInv', NEW u \in Users, NEW t, SubmitHeartbeat(u, t)
  PROVE  ContractStep
<1>1. UNCHANGED latest /\ \A x \in Wills : Assigned(x)' = Assigned(x)
  BY DEF SubmitHeartbeat, Assigned
<1>2. PICK w \in LiveWills(u) :
        IF will[w].lifecycle = "active"
        THEN /\ will' = [will EXCEPT ![w] =
                  [@ EXCEPT !.lastHeartbeat = t, !.updatedAt = t]]
             /\ UNCHANGED request
        ELSE /\ will' = [will EXCEPT ![w] = RestoredRow(@, t)]
             /\ request' = CancelRounds(w)
  BY DEF SubmitHeartbeat
<1>3. w \in Wills /\ will[w].row = "live" /\ will[w] \in WillRow
  BY DEF LiveWills, IInv, TypeOK
<1>4. CASE will[w].lifecycle = "active"
  <2>1. \A x \in Wills : /\ will'[x].row = will[x].row
                         /\ will'[x].config = will[x].config
                         /\ will'[x].lifecycle = will[x].lifecycle
    <3>1. will' = [will EXCEPT ![w] =
                    [will[w] EXCEPT !.lastHeartbeat = t, !.updatedAt = t]]
      BY <1>2, <1>4
    <3> QED BY <3>1, <1>3 DEF IInv, TypeOK, WillRow
  <2> QED BY <1>1, <1>2, <1>4, <2>1, ViewFrame, Stutter
<1>5. CASE will[w].lifecycle # "active"
  <2>1. /\ RestoredRow(will[w], t).row = "live"
        /\ RestoredRow(will[w], t).config = will[w].config
        /\ RestoredRow(will[w], t).lifecycle = "active"
    BY <1>3 DEF RestoredRow, WillRow
  <2>2. /\ will'[w] = RestoredRow(will[w], t)
        /\ \A x \in Wills : x # w => will'[x] = will[x]
    BY <1>2, <1>3, <1>5 DEF IInv, TypeOK
  <2>3. ASSUME NEW x \in Wills, x # w
        PROVE  SameView(x)
    <3>1. \A r \in Requests :
            /\ request'[r].will = request[r].will
            /\ request[r].will = x => request'[r] = request[r]
      BY <1>2, <1>5, <2>3 DEF CancelRounds, PendingRounds, IInv, TypeOK, RequestRow
    <3>2. PendingRounds(x)' = PendingRounds(x)
      BY <3>1 DEF PendingRounds
    <3>3. \A r \in PendingRounds(x) : Approvers(latest, r)' = Approvers(latest, r)
      BY <1>1 DEF Approvers
    <3> QED BY <1>1, <2>2, <2>3, <3>2, <3>3, RoundViewFrame
  <2>4. /\ Phase(w) \in {"pending_verification", "grace_period", "ready_for_execution"}
        /\ Phase(w)' = "active"
    BY <1>3, <1>5, <2>1, <2>2 DEF Phase, WillRow, Lifecycles
  <2>5. PublishedNow(w)' = PublishedNow(w) /\ Panel(w)' = Panel(w)
    BY <1>1, <1>3, <2>1, <2>2 DEF PublishedNow, Panel
  <2>6. Approving(w)' = {}
    BY <1>3, <2>1, <2>2, NotApprovingNext DEF IInv
  <2> QED BY <1>3, <2>3, <2>4, <2>5, <2>6, IsRestore, OneWillMoves
<1> QED BY <1>4, <1>5

\* A new round starts without approvals: no response is on file for its id.
LEMMA StartIsBeginVerification ==
  ASSUME IInv, NEW u \in Users, NEW t,
         \A w \in LiveWills(u) : will[w].config.status = "published",
         StartVerification(u, t)
  PROVE  ContractStep
<1>1. UNCHANGED latest /\ \A x \in Wills : Assigned(x)' = Assigned(x)
  BY DEF StartVerification, Assigned
<1>2. PICK w \in LiveWills(u), r \in Requests :
        /\ Dormant(w, t)
        /\ request[r].status = "absent"
        /\ will' = [will EXCEPT ![w] =
             [@ EXCEPT !.lifecycle = "pending_verification", !.pendingStarted = t,
                       !.updatedAt = t]]
        /\ request' = [request EXCEPT ![r] =
             [status |-> "pending", will |-> w,
              threshold |-> Majority(Cardinality(Assigned(w)))]]
  BY DEF StartVerification
<1>3. w \in Wills /\ will[w].row = "live" /\ will[w] \in WillRow
  BY DEF LiveWills, IInv, TypeOK
<1>4. /\ will'[w].row = "live"
      /\ will'[w].config = will[w].config
      /\ will'[w].lifecycle = "pending_verification"
      /\ \A x \in Wills : x # w => will'[x] = will[x]
  BY <1>2, <1>3 DEF IInv, TypeOK, WillRow
<1>5. /\ request'[r].will = w
      /\ \A q \in Requests : q # r => request'[q] = request[q]
  BY <1>2 DEF IInv, TypeOK
<1>6. ASSUME NEW x \in Wills, x # w
      PROVE  SameView(x)
  <2>1. PendingRounds(x)' = PendingRounds(x)
    BY <1>2, <1>5, <1>6 DEF PendingRounds
  <2>2. \A q \in PendingRounds(x) : Approvers(latest, q)' = Approvers(latest, q)
    BY <1>1 DEF Approvers
  <2> QED BY <1>1, <1>4, <1>6, <2>1, <2>2, RoundViewFrame
<1>7. will[w].lifecycle = "active" /\ Assigned(w) # {}
  BY <1>2 DEF Dormant
<1>8. /\ Phase(w) = "active" /\ Phase(w)' = "pending_verification"
      /\ PublishedNow(w) /\ Panel(w) # {}
      /\ PublishedNow(w)' = PublishedNow(w) /\ Panel(w)' = Panel(w)
  BY <1>1, <1>2, <1>3, <1>4, <1>7 DEF Phase, PublishedNow, Panel
<1>9. Approving(w)' = Approving(w)
  <2>1. Approving(w) = {} /\ PendingRounds(w) = {}
    BY <1>3, <1>7, NotApproving, NoOpenRound DEF IInv
  <2>2. PendingRounds(w)' \subseteq {r}
    BY <1>5, <2>1 DEF PendingRounds
  <2>3. Approvers(latest, r) = {}
    BY <1>2 DEF Approvers, NoResponse, IInv, ResponsesComeFromTrustees
  <2>4. \A q \in PendingRounds(w)' : Approvers(latest, q)' = {}
    BY <1>1, <2>2, <2>3 DEF Approvers
  <2>5. Approving(w)' = {}
    BY <2>4 DEF Approving
  <2> QED BY <2>1, <2>5
<1> QED BY <1>3, <1>6, <1>8, <1>9, IsBeginVerification, OneWillMoves

LEMMA EndGraceIsBecomeReady ==
  ASSUME IInv, IInv', NEW u \in Users, NEW t, EndGrace(u, t)
  PROVE  ContractStep
<1>1. UNCHANGED <<request, latest>> /\ \A x \in Wills : Assigned(x)' = Assigned(x)
  BY DEF EndGrace, Assigned
<1>2. PICK w \in LiveWills(u) :
        /\ GraceOver(w, t)
        /\ will' = [will EXCEPT ![w] =
             [@ EXCEPT !.lifecycle = "ready_for_execution", !.readyAt = t, !.updatedAt = t]]
  BY DEF EndGrace
<1>3. w \in Wills /\ will[w].row = "live" /\ will[w].lifecycle = "grace_period"
  BY <1>2 DEF LiveWills, GraceOver
<1>4. /\ will'[w].row = "live"
      /\ will'[w].config = will[w].config
      /\ will'[w].lifecycle = "ready_for_execution"
      /\ \A x \in Wills : x # w => will'[x] = will[x]
  BY <1>2, <1>3 DEF IInv, TypeOK, WillRow
<1>5. \A x \in Wills : x # w => SameView(x)
  BY <1>1, <1>4, ViewFrame
<1>6. /\ Phase(w) = "grace_period" /\ Phase(w)' = "ready_for_execution"
      /\ PublishedNow(w)' = PublishedNow(w) /\ Panel(w)' = Panel(w)
  BY <1>1, <1>3, <1>4 DEF Phase, PublishedNow, Panel
<1>7. Approving(w)' = Approving(w)
  BY <1>3, <1>4, NotApproving, NotApprovingNext DEF IInv
<1> QED BY <1>3, <1>5, <1>6, <1>7, IsBecomeReady, OneWillMoves

\* The contract counts as the store does.
LEMMA SameCardinality ==
  ASSUME NEW S
  PROVE  Contract!Cardinality(S) = Cardinality(S)
BY Zenon DEF Contract!Cardinality, Cardinality

LEMMA MajorityIsThreshold ==
  ASSUME NEW part, IsFiniteSet(part), NEW whole, IsFiniteSet(whole)
  PROVE  Cardinality(part) >= Majority(Cardinality(whole))
           <=> Contract!IsMajority(part, whole)
<1>1. Cardinality(part) \in Nat /\ Cardinality(whole) \in Nat
  BY FS_CardinalityType
<1>2. \A m, n \in Nat : m >= Majority(n) <=> 2 * m > n
  BY DEF Majority
<1> QED BY <1>1, <1>2, SameCardinality DEF Contract!IsMajority

\* A decision changes the approvals by its own trustee at most.
LEMMA ApproversAfterDecision ==
  ASSUME TypeOK, NEW r \in Requests, NEW tr \in Trustees, NEW newest,
         latest' = [latest EXCEPT ![r][tr] = newest]
  PROVE  /\ Approvers(latest', r)
              \in {Approvers(latest, r) \union {tr}, Approvers(latest, r) \ {tr}}
         /\ \A q \in Requests : q # r => Approvers(latest', q) = Approvers(latest, q)
<1>1. /\ \A q \in Requests : q # r => latest'[q] = latest[q]
      /\ \A x \in Trustees : x # tr => latest'[r][x] = latest[r][x]
  BY DEF TypeOK
<1>2. \A q \in Requests : q # r => Approvers(latest', q) = Approvers(latest, q)
  BY <1>1 DEF Approvers
<1>3. CASE latest'[r][tr].decision = "approve"
  <2>1. Approvers(latest', r) = Approvers(latest, r) \union {tr}
    BY <1>1, <1>3 DEF Approvers
  <2> QED BY <1>2, <2>1
<1>4. CASE latest'[r][tr].decision # "approve"
  <2>1. Approvers(latest', r) = Approvers(latest, r) \ {tr}
    BY <1>1, <1>4 DEF Approvers
  <2> QED BY <1>2, <2>1
<1> QED BY <1>3, <1>4

LEMMA ApproversFinite ==
  ASSUME NEW responses, NEW r
  PROVE  IsFiniteSet(Approvers(responses, r))
BY StoreAssumption, FS_Subset DEF Approvers

\* A decision is a response, or the one that opens the grace period; about a
\* deleted will it is nothing.
LEMMA DecisionIsResponse ==
  ASSUME IInv, IInv', RulesFollowed, NEW t, TrusteeStep(t)
  PROVE  ContractStep
<1>1. PICK email \in Emails, r \in Requests, decision \in Decisions :
        RecordVerificationDecision(email, r, decision, t)
  BY DEF TrusteeStep
<1>2. PICK w \in Wills : w = request[r].will
  BY DEF IInv, TypeOK, RequestRow
<1>3. /\ request[r].status = "pending"
      /\ will[w].lifecycle = "pending_verification"
      /\ \A x \in Wills : Assigned(x)' = Assigned(x)
  BY <1>1, <1>2 DEF RecordVerificationDecision, Assigned
<1>4. PICK tr \in Assigned(w) :
        \E newest : latest' = [latest EXCEPT ![r][tr] = newest]
  BY <1>1, <1>2 DEF RecordVerificationDecision
<1>5. tr \in Trustees
  BY DEF Assigned
<1>6. /\ Approvers(latest', r)
           \in {Approvers(latest, r) \union {tr}, Approvers(latest, r) \ {tr}}
      /\ \A q \in Requests : q # r => Approvers(latest', q) = Approvers(latest, q)
  BY <1>4, <1>5, ApproversAfterDecision DEF IInv
<1>7. \/ /\ Cardinality(Approvers(latest', r)) >= request[r].threshold
         /\ will' = [will EXCEPT ![w] =
              [will[w] EXCEPT !.lifecycle = "grace_period", !.graceStarted = t,
                              !.updatedAt = t]]
         /\ request' = [request EXCEPT ![r] = [@ EXCEPT !.status = "resolved"]]
      \/ /\ ~(Cardinality(Approvers(latest', r)) >= request[r].threshold)
         /\ UNCHANGED <<will, request>>
  BY <1>1, <1>2 DEF RecordVerificationDecision
<1>8. /\ \A x \in Wills : x # w => will'[x] = will[x]
      /\ will'[w].row = will[w].row
      /\ will'[w].config = will[w].config
      /\ \A q \in Requests : q # r => request'[q] = request[q]
      /\ request'[r].will = w
  <2>1. CASE UNCHANGED <<will, request>>
    BY <1>2, <2>1
  <2>2. CASE /\ will' = [will EXCEPT ![w] =
                  [will[w] EXCEPT !.lifecycle = "grace_period", !.graceStarted = t,
                                  !.updatedAt = t]]
             /\ request' = [request EXCEPT ![r] = [@ EXCEPT !.status = "resolved"]]
    BY <1>2, <2>2 DEF IInv, TypeOK, WillRow, RequestRow
  <2> QED BY <1>7, <2>1, <2>2
<1>9. ASSUME NEW x \in Wills, x # w
      PROVE  SameView(x)
  <2>1. PendingRounds(x)' = PendingRounds(x) /\ r \notin PendingRounds(x)
    BY <1>2, <1>8, <1>9 DEF PendingRounds
  <2>2. \A q \in PendingRounds(x) : Approvers(latest, q)' = Approvers(latest, q)
    BY <1>6, <2>1 DEF PendingRounds
  <2> QED BY <1>3, <1>8, <1>9, <2>1, <2>2, RoundViewFrame
<1>10. CASE will[w].row # "live"
  <2>1. will[w].row = "deleted"
    BY <1>3, <1>10 DEF IInv, TypeOK, WillRow, AbsentWillsAreActive
  <2>2. SameView(w)
    BY <1>8, <2>1 DEF SameView, Phase, PublishedNow, Panel, Approving
  <2> QED BY <1>9, <2>2, Stutter
<1>11. CASE will[w].row = "live"
  <2>1. PendingRounds(w) = {r}
    BY <1>2, <1>3 DEF IInv, RoundMatchesLifecycle, PendingRounds
  <2>2. Approving(w) = Approvers(latest, r)
    BY <1>11, <2>1 DEF Approving
  <2>3. request[r].threshold = Majority(Cardinality(Assigned(w)))
    BY <1>11, <2>1 DEF RulesFollowed, FollowsRules
  <2>4. /\ Phase(w) = "pending_verification" /\ Panel(w) = Assigned(w)
        /\ PublishedNow(w)' = PublishedNow(w) /\ Panel(w)' = Panel(w)
    BY <1>3, <1>8, <1>11 DEF Phase, Panel, PublishedNow
  <2>5. Cardinality(Approvers(latest', r)) >= request[r].threshold
          <=> Contract!IsMajority(Approvers(latest', r), Panel(w))
    BY <2>3, <2>4, ApproversFinite, AssignedCount, MajorityIsThreshold
  <2>6. CASE /\ Contract!IsMajority(Approvers(latest', r), Panel(w))
             /\ will' = [will EXCEPT ![w] =
                  [will[w] EXCEPT !.lifecycle = "grace_period", !.graceStarted = t,
                                  !.updatedAt = t]]
    <3>1. will'[w].lifecycle = "grace_period"
      BY <2>6 DEF IInv, TypeOK, WillRow
    <3>2. Phase(w)' = "grace_period" /\ Approving(w)' = {}
      BY <1>8, <1>11, <3>1, NotApprovingNext DEF Phase, IInv
    <3>3. Contract!IsMajority(Approving(w) \union {tr}, Panel(w))
      <4>1. Approvers(latest', r) \subseteq Approving(w) \union {tr}
        BY <1>6, <2>2
      <4>2. IsFiniteSet(Approving(w) \union {tr})
        BY <2>2, ApproversFinite, FS_AddElement
      <4>3. /\ Cardinality(Approvers(latest', r)) <= Cardinality(Approving(w) \union {tr})
            /\ Cardinality(Approvers(latest', r)) \in Nat
            /\ Cardinality(Approving(w) \union {tr}) \in Nat
        BY <4>1, <4>2, ApproversFinite, FS_Subset, FS_CardinalityType
      <4>4. Cardinality(Panel(w)) \in Nat
        BY <2>4, AssignedCount
      <4> QED BY <2>6, <4>3, <4>4, SameCardinality DEF Contract!IsMajority
    <3> QED BY <1>9, <2>4, <3>2, <3>3, IsBeginGrace, OneWillMoves
  <2>7. CASE /\ ~Contract!IsMajority(Approvers(latest', r), Panel(w))
             /\ UNCHANGED <<will, request>>
    <3>1. PendingRounds(w)' = {r}
      BY <2>1, <2>7 DEF PendingRounds
    <3>2. Approving(w)' = Approvers(latest', r)
      BY <1>11, <2>7, <3>1 DEF Approving
    <3>3. Phase(w)' = Phase(w)
      BY <2>7 DEF Phase
    <3>4. Approving(w)' \in {Approving(w) \union {tr}, Approving(w) \ {tr}}
      BY <1>6, <2>2, <3>2
    <3>5. ~Contract!IsMajority(Approving(w)', Panel(w))
      BY <2>7, <3>2
    <3> QED BY <1>9, <2>4, <3>3, <3>4, <3>5, IsRespond, OneWillMoves
  <2> QED BY <1>7, <2>5, <2>6, <2>7
<1> QED BY <1>10, <1>11

-----------------------------------------------------------------------------
\* The calls implement the contract.

LEMMA CommitIsContractStep ==
  ASSUME SerialInv, SerialInv', NoStrayTrustees, NEW p \in Callers,
         NEW t \in ClockReading, Commit(p, t)
  PROVE  ContractStep
<1>1. PICK k \in Calls : k = call[p]
  BY DEF Commit, SerialInv, CallsTyped
<1>2. Admitted(k) /\ Transaction(k, t)
  BY <1>1 DEF Commit, SerialInv, ChecksHold
<1>3. IInv /\ IInv' /\ OneLiveWill /\ RulesFollowed'
  BY DEF SerialInv
<1>4. CASE k.op = "create_will" /\ CreateWill(k.user, k.config, t)
  <2>1. k.user \in Users /\ k.config \in Config
    BY <1>4 DEF Calls
  <2> QED BY <1>3, <1>4, <2>1, CreateWillIsOpen
<1>5. CASE k.op = "update_will" /\ UpdateWill(k.user, k.config, t)
  <2>1. k.user \in Users /\ k.config \in Config /\ Editable(k.user)
    BY <1>2, <1>5 DEF Calls, Admitted
  <2> QED BY <1>3, <1>5, <2>1, UpdateWillIsAuthor
<1>6. CASE k.op = "create_trustee" /\ CreateTrustee(k.user, k.email)
  <2>1. k.user \in Users /\ k.email \in Emails /\ Editable(k.user)
    BY <1>2, <1>6 DEF Calls, Admitted
  <2> QED BY <1>3, <1>6, <2>1, CreateTrusteeIsAuthor
<1>7. CASE k.op = "update_trustee" /\ UpdateTrustee(k.user, k.trustee, k.email)
  <2>1. k.user \in Users /\ k.trustee \in Trustees /\ k.email \in Emails
    BY <1>7 DEF Calls
  <2> QED BY <1>3, <1>7, <2>1, UpdateTrusteeIsNoStep
<1>8. CASE k.op = "delete_trustee" /\ DeleteTrustee(k.user, k.trustee)
  <2>1. k.user \in Users /\ k.trustee \in Trustees /\ Editable(k.user)
    BY <1>2, <1>8 DEF Calls, Admitted
  <2> QED BY <1>3, <1>8, <2>1, DeleteTrusteeIsAuthor
<1> QED BY <1>2, <1>4, <1>5, <1>6, <1>7, <1>8 DEF Transaction

LEMMA ServiceStepIsContractStep ==
  ASSUME SerialInv, SerialInv', NoStrayTrustees, [ServiceNext]_serviceVars
  PROVE  ContractStep
<1>1. IInv /\ IInv' /\ RulesFollowed
  BY DEF SerialInv
<1>2. ASSUME NEW t \in ClockReading, Direct(t)
      PROVE  ContractStep
  BY <1>1, <1>2, DeleteWillIsClose, HeartbeatIsRestore, DecisionIsResponse DEF Direct
<1>3. ASSUME NEW u \in Users, SweepTransition(u)
      PROVE  ContractStep
  <2>1. \A w \in LiveWills(u) : will[w].config.status = "published"
    BY <1>3 DEF SweepTransition, SerialInv, SweepIsCurrent
  <2> QED
    BY <1>1, <1>3, <2>1, StartIsBeginVerification, EndGraceIsBecomeReady
    DEF SweepTransition, WorkerStep
<1>4. ASSUME UNCHANGED store
      PROVE  ContractStep
  <2>1. \A w \in Wills : SameView(w)
    BY <1>4, ViewFrame DEF store, Assigned
  <2> QED BY <2>1, Stutter
<1> QED
  BY <1>2, <1>3, <1>4, CommitIsContractStep
  DEF ServiceNext, ClockTick, Tick, Begin, CountTrustees, Fail, StartSweep,
      SweepNothingDue, AbortSweep, serviceVars, vars, store

LEMMA ContractInit ==
  ASSUME ServiceInit
  PROVE  Contract!Init /\ NoStrayTrustees
<1>1. \A w \in Wills : will[w].row = "absent"
  BY DEF ServiceInit, Init
<1>2. phaseOf = [w \in Wills |-> "none"]
  BY <1>1 DEF phaseOf, Phase
<1>3. \A w \in Wills : PublishedNow(w) = FALSE /\ Panel(w) = {} /\ Approving(w) = {}
  BY <1>1 DEF PublishedNow, Panel, Approving
<1>4. publishedOf = [w \in Wills |-> FALSE]
  BY <1>3 DEF publishedOf
<1>5. panelOf = [w \in Wills |-> {}] /\ approvingOf = [w \in Wills |-> {}]
  BY <1>3 DEF panelOf, approvingOf
<1>6. NoStrayTrustees
  BY DEF ServiceInit, Init, NoStrayTrustees
<1> QED BY <1>2, <1>4, <1>5, <1>6 DEF Contract!Init

\* One call or sweep at a time, the service implements the lifecycle contract of
\* API_SPEC.md for any number of owners, wills, trustees and rounds: a will is
\* authored only while active, enters verification only published and with a
\* trustee, grace only by a strict majority, and later stages in their order.
THEOREM ServiceImplementsContract == ~Overlap /\ ServiceSpec => ImplementsContract
<1>1. ServiceInit => Contract!Init /\ NoStrayTrustees
  BY ContractInit
<1>2. SerialInv /\ SerialInv' /\ NoStrayTrustees /\ [ServiceNext]_serviceVars
        => NoStrayTrustees'
  BY StrayStep, ServiceStepIsStoreStep DEF SerialInv, IInv
<1>3. SerialInv /\ SerialInv' /\ NoStrayTrustees /\ [ServiceNext]_serviceVars
        => [Contract!Next]_(Contract!contract)
  BY ServiceStepIsContractStep DEF ContractStep
<1> QED
  BY <1>1, <1>2, <1>3, SerialInvariant, PTL
  DEF ServiceSpec, ImplementsContract, Contract!Spec
=============================================================================
