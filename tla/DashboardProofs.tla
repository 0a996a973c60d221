---------------------------- MODULE DashboardProofs ----------------------------
(***************************************************************************)
(* Theorems about DashboardSession, for any number of tabs, accounts and   *)
(* tokens: its types, and that no sign-in is left behind.                  *)
(***************************************************************************)
EXTENDS AuthProofs

\* A tab waits for one call, of the service or of the mock.
OneApiAtATime == \A t \in Tabs : tab[t].asking # "none" => call[t] = NoCall

-----------------------------------------------------------------------------
\* Types

\* The service works on a call that was made, and changes no call's operation.
LEMMA ServiceMoves ==
  ASSUME AuthTypeOK, NEW t \in Tabs, Statement(t) \/ Fail(t) \/ Lose(t)
  PROVE  /\ call[t] # NoCall
         /\ \A other \in Tabs : call'[other].op = call[other].op
         /\ \A other \in Tabs \ {t} : call'[other] = call[other]
<1>1. \E at, u, k : Reach(t, at, u, k)
  BY DEF Statement, CreateUser, UserByEmail, CreateRefreshToken, AppendAuditEvent,
         RotateRefreshToken, RevokeRefreshToken, UpdateProfile, DeleteUser, Fail, Lose,
         Refuse, Succeed
<1>2. call[t].op # "none" \/ call[t].at # "start"
  BY DEF Statement, CreateUser, UserByEmail, CreateRefreshToken, AppendAuditEvent,
         RotateRefreshToken, RevokeRefreshToken, UpdateProfile, DeleteUser, Fail, Lose,
         Serving
<1>3. call[t] # NoCall
  BY <1>2 DEF NoCall, CallRecord
<1>4. QED
  BY <1>1, <1>3 DEF Reach, CallRecord, AuthTypeOK, Tabs

\* A request goes to the API the tab found, and the tab waits for its answer.
LEMMA AskEffect ==
  ASSUME DashboardTypeOK, NEW t \in Tabs, NEW request \in Call,
         NEW view \in {"restoring", "ready"}, call[t] = NoCall, Ask(t, request, view)
  PROVE  /\ tab' \in [Tabs -> Tab]
         /\ \A other \in Tabs \ {t} : tab'[other] = tab[other] /\ call'[other] = call[other]
         /\ tab'[t].view = view
         /\ \/ call'[t] = request /\ tab'[t].asking = "none"
            \/ call'[t] = NoCall /\ tab'[t].asking = request.op
<1>1. PICK backend \in Probed(t) :
        /\ tab' = [tab EXCEPT ![t] =
             [@ EXCEPT !.view = view, !.backend = backend,
                       !.asking = IF backend = "mock" THEN request.op ELSE "none"]]
        /\ IF backend = "mock" THEN UNCHANGED authVars ELSE Begin(t, request)
  BY DEF Ask
<1>2. backend \in {"available", "mock"} /\ request.op \in Operations
  BY DEF DashboardTypeOK, Probed, Tab, Call
<1>3. CASE backend = "mock"
  BY <1>1, <1>2, <1>3, ZenonT(60) DEF authVars, DashboardTypeOK, Tab
<1>4. CASE backend # "mock"
  BY <1>1, <1>2, <1>4, ZenonT(60) DEF Begin, DashboardTypeOK, AuthTypeOK, Tab, Tabs, Operations
<1>5. QED
  BY <1>3, <1>4

\* A tab restores its session exactly while a refresh of it is under way.
Restores(t) ==
  tab[t].view = "restoring" <=> call[t].op = "refresh" \/ tab[t].asking = "refresh"

TabInv ==
  /\ tab \in [Tabs -> Tab]
  /\ \A t \in Tabs : Restores(t)
  /\ OneApiAtATime

\* A request of an idle tab.
LEMMA AskTabs ==
  ASSUME DashboardTypeOK, OneApiAtATime, NEW t \in Tabs, Idle(t), NEW request \in Call,
         NEW view \in {"restoring", "ready"}, view = "restoring" <=> request.op = "refresh",
         Ask(t, request, view)
  PROVE  TabInv'
<1>1. call[t] = NoCall /\ tab[t].asking = "none"
  BY DEF Idle
<1>2. /\ tab' \in [Tabs -> Tab]
      /\ \A other \in Tabs \ {t} : tab'[other] = tab[other] /\ call'[other] = call[other]
      /\ tab'[t].view = view
      /\ \/ call'[t] = request /\ tab'[t].asking = "none"
         \/ call'[t] = NoCall /\ tab'[t].asking = request.op
  BY <1>1, AskEffect
<1>3. NoCall.op = "none"
  BY DEF NoCall, CallRecord
<1>4. QED
  BY <1>2, <1>3 DEF TabInv, Restores, OneApiAtATime, DashboardTypeOK

LEMMA StartTabs ==
  ASSUME DashboardTypeOK, OneApiAtATime, ClientInv, NEW t \in Tabs,
         Open(t) \/ SubmitForm(t) \/ Logout(t) \/ EditProfile(t)
  PROVE  TabInv'
<1> USE DEF DashboardTypeOK
<1>1. ASSUME NEW op \in {"refresh", "logout"}
      PROVE  /\ WithToken(op, Presented(stored.token)) \in Call
             /\ WithToken(op, Presented(stored.token)).op = op
  BY StoredTokenIsKnown, RequestTypes DEF WithToken, CallRecord
<1>2. ASSUME UNCHANGED call, tab' = [tab EXCEPT ![t].view = "ready"], tab[t].view = "closed"
      PROVE  TabInv'
  BY <1>2 DEF TabInv, Restores, OneApiAtATime, Tab
<1>3. CASE Open(t)
  BY <1>1, <1>2, <1>3, AskTabs DEF Open, authVars
<1>4. CASE SubmitForm(t)
  <2>1. PICK op \in {"register", "login"}, email \in Emails : Ask(t, SignIn(op, email), "ready")
    BY <1>4 DEF SubmitForm
  <2>2. SignIn(op, email) \in Call /\ SignIn(op, email).op = op
    BY DEF SignIn, CallRecord, Call, Operations
  <2>3. QED
    BY <1>4, <2>1, <2>2, AskTabs DEF SubmitForm
<1>5. CASE Logout(t)
  <2>1. CASE SignOutHere(t) /\ UNCHANGED <<authVars, disturbed>>
    BY <1>5, <2>1, ZenonT(60) DEF Logout, SignedIn, SignOutHere, authVars, TabInv, Restores,
                      OneApiAtATime, Tab, Users, Operations, Idle, NoCall, CallRecord
  <2>2. QED
    BY <1>1, <1>5, <2>1, AskTabs DEF Logout, SignedIn
<1>6. CASE EditProfile(t)
  <2>1. PICK op \in {"update_profile", "delete_profile"}, u \in Accounts \union {None} :
          Ask(t, AsUser(op, u), "ready")
    BY <1>6 DEF EditProfile
  <2>2. AsUser(op, u) \in Call /\ AsUser(op, u).op = op
    BY DEF AsUser, CallRecord, Call, Operations
  <2>3. QED
    BY <1>6, <2>1, <2>2, AskTabs DEF EditProfile, SignedIn
<1>7. QED
  BY <1>3, <1>4, <1>5, <1>6

LEMMA AnswerTabs ==
  ASSUME DashboardTypeOK, OneApiAtATime, ClientInv, NEW t \in Tabs,
         \/ SessionArrives(t) \/ RefreshRefused(t) \/ LogoutAnswered(t) \/ ProfileArrives(t)
         \/ AccountDeleted(t) \/ ErrorShown(t) \/ Close(t)
  PROVE  TabInv'
<1> USE DEF DashboardTypeOK, TabInv, Restores, OneApiAtATime
<1>1. /\ NoCall.op = "none"
      /\ call[t].account \in Users
      /\ "none" \in Operations
  BY DEF NoCall, CallRecord, AuthTypeOK, Call, Users, Tabs, Operations
<1>2. tab[t].asking # "none" => call[t].op = "none"
  BY <1>1
<1>3. CASE SessionArrives(t)
  BY <1>1, <1>2, <1>3, ZenonT(60) DEF SessionArrives, StoreSession, End, Tab, AuthTypeOK, Tabs
<1>4. CASE RefreshRefused(t)
  BY <1>1, <1>2, <1>4 DEF RefreshRefused, Serving, End, Tab, AuthTypeOK, Tabs
<1>5. CASE LogoutAnswered(t)
  BY <1>1, <1>2, <1>5, ZenonT(60) DEF LogoutAnswered, SignOutHere, End, Tab, Users, AuthTypeOK, Tabs
<1>6. CASE ProfileArrives(t)
  BY <1>1, <1>2, <1>6 DEF ProfileArrives, Serving, End, Tab, AuthTypeOK, Tabs
<1>7. CASE AccountDeleted(t)
  <2>1. CASE SignOutHere(t) /\ End(t)
    BY <1>1, <1>2, <1>7, <2>1, ZenonT(60)
    DEF AccountDeleted, Serving, SignOutHere, End, Tab, Users, AuthTypeOK, Tabs
  <2>2. CASE Begin(t, WithToken("logout", Presented(stored.token))) /\ UNCHANGED tab
    BY <1>1, <1>2, <1>7, <2>2
    DEF AccountDeleted, Serving, Begin, WithToken, CallRecord, AuthTypeOK, Tabs
  <2>3. QED
    BY <1>7, <2>1, <2>2 DEF AccountDeleted
<1>8. CASE ErrorShown(t)
  BY <1>1, <1>2, <1>8 DEF ErrorShown, clientVars, End, AuthTypeOK, Tabs
<1>9. CASE Close(t)
  BY <1>1, <1>2, <1>9 DEF Close, ClosedTab, End, Tab, Users, AuthTypeOK, Tabs
<1>10. QED
  BY <1>3, <1>4, <1>5, <1>6, <1>7, <1>8, <1>9

LEMMA MockTabs ==
  ASSUME DashboardTypeOK, OneApiAtATime, NEW t \in Tabs, MockAnswer(t)
  PROVE  TabInv' /\ demoUser' \in {"none", "signed_out", "signed_in"}
<1> USE DEF DashboardTypeOK, TabInv, Restores, OneApiAtATime
<1>1. call[t] = NoCall /\ NoCall.op = "none" /\ UNCHANGED call
  BY DEF MockAnswer, NoCall, CallRecord, authVars
<1>2. {"none", "logout"} \subseteq Operations /\ {None, Demo} \subseteq Users
  BY DEF Operations, Users
<1>. DEFINE quiet == [tab EXCEPT ![t].asking = "none"]
<1>3. CASE StoreSession(t, DemoPair) /\ demoUser' = "signed_in"
  BY <1>1, <1>2, <1>3, ZenonT(60) DEF StoreSession, DemoPair, Tab
<1>4. CASE tab' = quiet /\ tab[t].asking # "refresh" /\ UNCHANGED demoUser
  BY <1>1, <1>2, <1>4 DEF Tab
<1>5. CASE tab' = [quiet EXCEPT ![t].view = "ready"] /\ UNCHANGED demoUser
  BY <1>1, <1>2, <1>5, ZenonT(60) DEF Tab
<1>6. CASE tab' = [quiet EXCEPT ![t].user = Demo] /\ tab[t].asking # "refresh" /\ UNCHANGED demoUser
  BY <1>1, <1>2, <1>6, ZenonT(60) DEF Tab
<1>7. CASE /\ SignOutHere(t) /\ tab[t].asking # "refresh"
           /\ demoUser' \in {"none", "signed_out", "signed_in"}
  BY <1>1, <1>2, <1>7, ZenonT(60) DEF SignOutHere, Tab
<1>8. CASE /\ tab' = [tab EXCEPT ![t].asking = "logout"] /\ tab[t].asking # "refresh"
           /\ demoUser' \in {"none", "signed_out", "signed_in"}
  BY <1>1, <1>2, <1>8 DEF Tab
<1>9. \/ StoreSession(t, DemoPair) /\ demoUser' = "signed_in"
      \/ tab' = quiet /\ tab[t].asking # "refresh" /\ UNCHANGED demoUser
      \/ tab' = [quiet EXCEPT ![t].view = "ready"] /\ UNCHANGED demoUser
      \/ /\ tab' = [quiet EXCEPT ![t].user = Demo] /\ tab[t].asking # "refresh"
         /\ UNCHANGED demoUser
      \/ /\ SignOutHere(t) /\ tab[t].asking = "logout"
         /\ demoUser' = IF demoUser = "none" THEN "none" ELSE "signed_out"
      \/ /\ tab[t].asking = "delete_profile"
         /\ demoUser' = IF demoUser = "signed_in" THEN "none" ELSE demoUser
         /\ SignOutHere(t) \/ tab' = [tab EXCEPT ![t].asking = "logout"]
  BY Zenon DEF MockAnswer
<1>10. QED
  BY <1>3, <1>4, <1>5, <1>6, <1>7, <1>8, <1>9

LEMMA ServerTabs ==
  ASSUME DashboardTypeOK, OneApiAtATime, NEW t \in Tabs, Serve(t) \/ Fault(t)
  PROVE  TabInv'
<1>1. UNCHANGED tab /\ (Statement(t) \/ Fail(t) \/ Lose(t))
  BY DEF Serve, Fault, clientVars
<1>2. QED
  BY <1>1, ServiceMoves DEF DashboardTypeOK, TabInv, Restores, OneApiAtATime

LEMMA TabStep ==
  ASSUME DashboardTypeOK, OneApiAtATime, ClientInv, [DashboardNext]_dashboardVars
  PROVE  TabInv'
<1>1. CASE UNCHANGED dashboardVars
  BY <1>1 DEF dashboardVars, authVars, clientVars, DashboardTypeOK, TabInv, Restores,
              OneApiAtATime
<1>2. ASSUME NEW k \in Tokens, Lapse(k)
      PROVE  TabInv'
  BY <1>2 DEF Lapse, Expire, clientVars, DashboardTypeOK, TabInv, Restores, OneApiAtATime
<1>3. QED
  BY <1>1, <1>2, StartTabs, AnswerTabs, MockTabs, ServerTabs DEF DashboardNext

LEMMA FlagStep ==
  ASSUME DashboardTypeOK, OneApiAtATime, [DashboardNext]_dashboardVars
  PROVE  disturbed' \in BOOLEAN /\ demoUser' \in {"none", "signed_out", "signed_in"}
<1> USE DEF DashboardTypeOK
<1>1. ASSUME NEW t \in Tabs, Open(t) \/ SubmitForm(t) \/ Logout(t) \/ EditProfile(t)
      PROVE  disturbed' \in BOOLEAN /\ UNCHANGED demoUser
  BY <1>1 DEF Open, SubmitForm, Logout, EditProfile, Ask, Disturb
<1>2. ASSUME NEW t \in Tabs,
             \/ SessionArrives(t) \/ RefreshRefused(t) \/ LogoutAnswered(t)
             \/ ProfileArrives(t) \/ AccountDeleted(t) \/ ErrorShown(t) \/ Close(t)
      PROVE  disturbed' \in BOOLEAN /\ UNCHANGED demoUser
  BY <1>2 DEF SessionArrives, RefreshRefused, LogoutAnswered, ProfileArrives, AccountDeleted,
              ErrorShown, Close, Disturb, clientVars
<1>3. ASSUME NEW t \in Tabs, MockAnswer(t)
      PROVE  disturbed' \in BOOLEAN
  BY <1>3 DEF MockAnswer
<1>4. ASSUME NEW t \in Tabs, Serve(t) \/ Fault(t)
      PROVE  disturbed' \in BOOLEAN /\ UNCHANGED demoUser
  BY <1>4 DEF Serve, Fault, Disturb, clientVars
<1>5. ASSUME \/ \E k \in Tokens : Lapse(k)
             \/ UNCHANGED dashboardVars
      PROVE  UNCHANGED <<disturbed, demoUser>>
  BY <1>5 DEF Lapse, clientVars, dashboardVars
<1>6. QED
  BY <1>1, <1>2, <1>3, <1>4, <1>5, MockTabs, SMTT(40) DEF DashboardNext

ClientTypeInv == DashboardTypeOK /\ OneApiAtATime /\ ClientInv

LEMMA DashboardTypeStep ==
  ASSUME ClientTypeInv, [DashboardNext]_dashboardVars
  PROVE  ClientTypeInv'
<1> USE DEF ClientTypeInv
<1>1. TabInv' /\ ClientInv'
  BY TabStep, ClientStep
<1>2. stored' \in Pair
  <2>1. stored \in Pair /\ NoPair \in Pair /\ DemoPair \in Pair
    BY DEF DashboardTypeOK, Pair, NoPair, DemoPair, Users
  <2>2. ASSUME NEW t \in Tabs
        PROVE  [account |-> call[t].account, token |-> call[t].token] \in Pair
    BY DEF DashboardTypeOK, AuthTypeOK, Call, Pair, Users, Tabs
  <2>3. QED
    BY <2>1, <2>2, StoredStep
<1>3. QED
  BY <1>1, <1>2, FlagStep DEF DashboardTypeOK, ClientInv, TabInv, Restores

LEMMA DashboardTypeInit ==
  DashboardInit => ClientTypeInv
<1> SUFFICES ASSUME DashboardInit
             PROVE  ClientTypeInv
  OBVIOUS
<1>1. ClientInv
  BY AuthTypeInit, AccountInit, KnownInit, AuthAssumption
  DEF DashboardInit, ClientInv, StoredIsKnown, NoPair
<1>2. ClosedTab \in Tab /\ NoPair \in Pair
  BY DEF ClosedTab, Tab, NoPair, Pair, Users, Operations
<1>3. \A t \in Tabs : tab[t].view = "closed" /\ tab[t].asking = "none" /\ call[t].op = "none"
  BY DEF DashboardInit, ClosedTab, AuthInit, NoCall, CallRecord, Tabs
<1>4. QED
  BY <1>1, <1>2, <1>3 DEF DashboardInit, ClientTypeInv, DashboardTypeOK, OneApiAtATime, ClientInv

\* Tabs keep their types, and show that they restore a session exactly while the
\* refresh of it is under way, however calls, answers and the mock interleave.
THEOREM DashboardTypes ==
  DashboardSpec => []DashboardTypeOK
<1>1. ClientTypeInv /\ [DashboardNext]_dashboardVars => ClientTypeInv'
  BY DashboardTypeStep
<1>2. ClientTypeInv => DashboardTypeOK
  BY DEF ClientTypeInv
<1>3. QED
  BY <1>1, <1>2, DashboardTypeInit, PTL DEF DashboardSpec

-----------------------------------------------------------------------------
\* Sessions are held

OneBusy == \A t1, t2 \in Busy : t1 = t2

\* A refresh, and a restored tab, would find this token of u, unless it lapsed.
Works(k, u) ==
  /\ k \in Tokens
  /\ token[k].row \in {"usable", "expired", "deleted"}
  /\ token[k].account = u

StoredIsSpent == stored.token \in Tokens => token[stored.token].row # "usable"

\* What a call under way knows about the stored token, and holds itself.
SignInHolds(t) ==
  call[t].op \in {"register", "login"} =>
    /\ stored.token \notin Tokens
    /\ IF call[t].at \in {"audit", "succeeded"} THEN Works(call[t].token, call[t].account)
                                                ELSE call[t].token = None

RefreshHolds(t) ==
  call[t].op = "refresh" =>
    \/ /\ call[t].at = "start" /\ call[t].token = Presented(stored.token)
       /\ call[t].token \in Tokens /\ token[call[t].token].row = "usable" => call[t].fresh
    \/ call[t].at = "succeeded" /\ StoredIsSpent /\ Works(call[t].token, call[t].account)
    \/ call[t].at = "refused" /\ StoredIsSpent

LogoutHolds(t) ==
  call[t].op = "logout" =>
    \/ call[t].at = "start" /\ call[t].token = Presented(stored.token)
    \/ call[t].at = "succeeded" /\ call[t].token = None /\ StoredIsSpent

OtherCallsHold(t) ==
  /\ call[t].op \in {"none", "update_profile", "delete_profile"} =>
       call[t].token = None /\ call[t].at \notin {"insert_token", "audit"}
  /\ tab[t].asking # "none" => stored.token \notin Tokens

CallHolds(t) == SignInHolds(t) /\ RefreshHolds(t) /\ LogoutHolds(t) /\ OtherCallsHold(t)

Replacing(t) == call[t].op \in {"refresh", "logout"} /\ call[t].at = "succeeded"

\* The stored token works, unless the call that replaces or revokes it is under way.
StoredWorks ==
  stored.token \in Tokens =>
    Works(stored.token, stored.account) \/ \E t \in Tabs : Replacing(t)

Calm == OneBusy /\ StoredWorks /\ \A t \in Tabs : CallHolds(t)

HeldInv == ClientTypeInv /\ SessionsAreHeld /\ (~disturbed => Calm)

\* The same, when no other tab has a call under way.
Alone(t) == \A other \in Tabs \ {t} : Idle(other)

CalmAt(t) ==
  /\ Alone(t) /\ CallHolds(t)
  /\ stored.token \in Tokens => Works(stored.token, stored.account) \/ Replacing(t)
  /\ \A k \in Tokens : token[k].row = "usable" =>
       stored.token = k \/ (call[t].token = k /\ call[t].at # "refused")

LEMMA CalmFromAlone ==
  ASSUME NEW t \in Tabs, CalmAt(t)'
  PROVE  Calm' /\ SessionsAreHeld'
<1>1. \A other \in Tabs \ {t} : call'[other] = NoCall /\ tab'[other].asking = "none"
  BY DEF CalmAt, Alone, Idle
<1>2. NoCall.op = "none" /\ NoCall.token = None /\ NoCall.at = "start"
  BY DEF NoCall, CallRecord
<1>3. (OneBusy /\ \A other \in Tabs : CallHolds(other))'
  BY <1>1, <1>2 DEF CalmAt, Alone, OneBusy, Busy, CallHolds, SignInHolds, RefreshHolds,
                    LogoutHolds, OtherCallsHold
<1>4. (StoredWorks /\ SessionsAreHeld)'
  BY DEF CalmAt, StoredWorks, SessionsAreHeld, InHand
<1>5. QED
  BY <1>3, <1>4 DEF Calm

LEMMA AloneFromCalm ==
  ASSUME HeldInv, ~disturbed, NEW t \in Tabs, ~Idle(t) \/ Busy = {}
  PROVE  CalmAt(t)
<1>1. Alone(t)
  BY DEF HeldInv, Calm, OneBusy, Busy, Alone
<1>2. \A other \in Tabs \ {t} : call[other].op = "none" /\ call[other].token = None
  BY <1>1 DEF Alone, Idle, NoCall, CallRecord
<1>3. QED
  BY <1>1, <1>2, AuthAssumption
  DEF HeldInv, Calm, CalmAt, StoredWorks, Replacing, SessionsAreHeld, InHand

\* A request that disturbs nothing is made while no call is under way; it goes to
\* the mock, or signs in, only while no token of the service is stored.
LEMMA AskUndisturbed ==
  ASSUME DashboardTypeOK, NEW t \in Tabs, NEW request, NEW view, Idle(t),
         Ask(t, request, view), ~disturbed'
  PROVE  /\ ~disturbed /\ Busy = {} /\ UNCHANGED <<account, token>>
         /\ tab'[t].asking # "none" \/ request.op \in {"login", "register"} =>
              stored.token \notin Tokens
<1>1. PICK backend \in Probed(t) :
        /\ tab' = [tab EXCEPT ![t] =
             [@ EXCEPT !.view = view, !.backend = backend,
                       !.asking = IF backend = "mock" THEN request.op ELSE "none"]]
        /\ IF backend = "mock" THEN UNCHANGED authVars ELSE Begin(t, request)
        /\ Disturb(\/ Busy \ {t} # {}
                   \/ /\ stored.token \in Tokens
                      /\ backend = "mock" \/ request.op \in {"login", "register"})
  BY Zenon DEF Ask
<1>2. /\ ~disturbed /\ Busy \ {t} = {}
      /\ stored.token \in Tokens => backend # "mock" /\ request.op \notin {"login", "register"}
  BY <1>1 DEF Disturb
<1>3. UNCHANGED <<account, token>>
  BY <1>1 DEF authVars, Begin
<1>4. tab'[t].asking # "none" => backend = "mock"
  BY <1>1 DEF DashboardTypeOK, Tab
<1>5. QED
  BY <1>2, <1>3, <1>4 DEF Busy

LEMMA AskCalm ==
  ASSUME HeldInv, NEW t \in Tabs, NEW request \in Call, NEW view \in {"restoring", "ready"},
         Idle(t), Ask(t, request, view), ~disturbed', UNCHANGED stored,
         request.at = "start",
         \/ request.op \in {"register", "login", "update_profile", "delete_profile"}
            /\ request.token = None
         \/ /\ request.op \in {"refresh", "logout"} /\ request.token = Presented(stored.token)
            /\ request.token \in Tokens /\ token[request.token].row = "usable" => request.fresh
  PROVE  Calm' /\ SessionsAreHeld'
<1> USE DEF HeldInv, ClientTypeInv
<1>1. /\ ~disturbed /\ Busy = {} /\ UNCHANGED <<account, token>>
      /\ tab'[t].asking # "none" \/ request.op \in {"login", "register"} =>
           stored.token \notin Tokens
  BY AskUndisturbed
<1>2. CalmAt(t)
  BY <1>1, AloneFromCalm
<1>3. call[t] = NoCall /\ NoCall.op = "none" /\ NoCall.token = None /\ NoCall.at = "start"
  BY DEF Idle, NoCall, CallRecord
<1>4. /\ \A other \in Tabs \ {t} : tab'[other] = tab[other] /\ call'[other] = call[other]
      /\ call'[t] = request \/ call'[t] = NoCall
  BY <1>3, AskEffect
<1>5. Alone(t)'
  BY <1>2, <1>4 DEF CalmAt, Alone, Idle
<1>6. CallHolds(t)'
  BY <1>1, <1>3, <1>4
  DEF CallHolds, SignInHolds, RefreshHolds, LogoutHolds, OtherCallsHold, Presented
<1>7. stored.token \in Tokens => Works(stored.token, stored.account)'
  BY <1>1, <1>2, <1>3 DEF CalmAt, Replacing, Works
<1>8. \A k \in Tokens : token[k].row = "usable" => stored.token = k
  BY <1>2, <1>3, AuthAssumption DEF CalmAt
<1>9. CalmAt(t)'
  BY <1>1, <1>5, <1>6, <1>7, <1>8 DEF CalmAt
<1>10. QED
  BY <1>9, CalmFromAlone

\* What a tab does on its own, with no token of the service stored or none touched.
LEMMA FrameCalm ==
  ASSUME HeldInv, ~disturbed', UNCHANGED <<call, token, disturbed>>,
         stored' = stored \/ (stored.token \notin Tokens /\ stored' = NoPair),
         \A t \in Tabs : tab'[t].asking = tab[t].asking
  PROVE  Calm' /\ SessionsAreHeld'
<1>1. stored'.token \in Tokens \/ stored.token \in Tokens => stored' = stored
  BY AuthAssumption DEF NoPair
<1>2. OneBusy'
  BY DEF HeldInv, Calm, OneBusy, Busy, Idle
<1>3. (\A t \in Tabs : CallHolds(t))'
  <2> SUFFICES ASSUME NEW t \in Tabs
               PROVE  CallHolds(t)'
    OBVIOUS
  <2>1. Presented(stored.token)' = Presented(stored.token) /\ (StoredIsSpent' = StoredIsSpent)
    BY <1>1 DEF Presented, StoredIsSpent
  <2>2. CallHolds(t)
    BY DEF HeldInv, Calm
  <2>3. SignInHolds(t)' /\ OtherCallsHold(t)'
    BY <1>1, <2>2 DEF CallHolds, SignInHolds, OtherCallsHold, Works
  <2>4. RefreshHolds(t)' /\ LogoutHolds(t)'
    BY <2>1, <2>2 DEF CallHolds, RefreshHolds, LogoutHolds, Works
  <2>5. QED
    BY <2>3, <2>4 DEF CallHolds
<1>4. StoredWorks' /\ SessionsAreHeld'
  BY <1>1 DEF HeldInv, Calm, StoredWorks, Works, Replacing, SessionsAreHeld, InHand
<1>5. QED
  BY <1>2, <1>3, <1>4 DEF Calm

LEMMA StartCalm ==
  ASSUME HeldInv, ~disturbed', NEW t \in Tabs,
         Open(t) \/ SubmitForm(t) \/ Logout(t) \/ EditProfile(t)
  PROVE  Calm' /\ SessionsAreHeld'
<1> USE DEF HeldInv, ClientTypeInv
<1>1. ASSUME NEW op \in {"refresh", "logout"}
      PROVE  LET request == WithToken(op, Presented(stored.token)) IN
             /\ request \in Call /\ request.op = op /\ request.at = "start"
             /\ request.token = Presented(stored.token)
             /\ request.token \in Tokens /\ token[request.token].row = "usable" => request.fresh
  <2>. DEFINE k == Presented(stored.token)
             request == WithToken(op, k)
  <2>0. request \in Call
    BY StoredTokenIsKnown, RequestTypes DEF ClientInv
  <2>1. request \in Call /\ request.op = op /\ request.at = "start" /\ request.token = k
    BY <2>0, Zenon DEF WithToken, CallRecord
  <2>2. request.fresh = (k # None /\ token[k].row = "usable")
    BY DEF WithToken, CallRecord
  <2>3. k \in Tokens /\ token[k].row = "usable" => request.fresh
    <3>. HIDE DEF request, k
    <3>1. k \in Tokens => k # None
      BY AuthAssumption
    <3>2. QED
      BY <2>2, <3>1, Zenon
  <2>4. QED
    BY <2>1, <2>3
<1>2. CASE Open(t)
  <2>1. CASE stored.token = None
    BY <1>2, <2>1, FrameCalm DEF Open, authVars, DashboardTypeOK, Tab
  <2>2. QED
    BY <1>1, <1>2, <2>1, AskCalm DEF Open
<1>3. CASE SubmitForm(t)
  <2>1. PICK op \in {"register", "login"}, email \in Emails : Ask(t, SignIn(op, email), "ready")
    BY <1>3 DEF SubmitForm
  <2>. DEFINE request == SignIn(op, email)
  <2>2. request \in Call /\ request.op = op /\ request.at = "start" /\ request.token = None
    BY DEF SignIn, CallRecord, Call, Operations
  <2>3. QED
    BY <1>3, <2>1, <2>2, AskCalm DEF SubmitForm
<1>4. CASE Logout(t)
  <2>1. CASE stored.token = None
    BY <1>4, <2>1, FrameCalm, AuthAssumption
    DEF Logout, SignOutHere, authVars, DashboardTypeOK, Tab, SignedIn, Idle
  <2>2. QED
    BY <1>1, <1>4, <2>1, AskCalm DEF Logout, SignedIn
<1>5. CASE EditProfile(t)
  <2>1. PICK op \in {"update_profile", "delete_profile"}, u \in Accounts \union {None} :
          Ask(t, AsUser(op, u), "ready")
    BY <1>5 DEF EditProfile
  <2>. DEFINE request == AsUser(op, u)
  <2>2. request \in Call /\ request.op = op /\ request.at = "start" /\ request.token = None
    BY DEF AsUser, CallRecord, Call, Operations
  <2>3. QED
    BY <1>5, <2>1, <2>2, AskCalm DEF EditProfile, SignedIn
<1>6. QED
  BY <1>2, <1>3, <1>4, <1>5

\* An answer ends its call, unless it starts a logout.
LEMMA AnswerCalm ==
  ASSUME HeldInv, ~disturbed', NEW t \in Tabs,
         \/ SessionArrives(t) \/ RefreshRefused(t) \/ LogoutAnswered(t) \/ ProfileArrives(t)
         \/ AccountDeleted(t) \/ ErrorShown(t)
  PROVE  Calm' /\ SessionsAreHeld'
<1>0. /\ NoCall.op = "none" /\ NoCall.token = None /\ NoCall.at = "start"
      /\ NoPair.token = None /\ None \notin Tokens
  BY AuthAssumption DEF NoCall, CallRecord, NoPair
<1>1. call[t].op # "none" /\ UNCHANGED <<token, disturbed>>
  BY DEF SessionArrives, RefreshRefused, LogoutAnswered, ProfileArrives, AccountDeleted,
         ErrorShown, Serving, End, Begin, clientVars
<1>2. CalmAt(t)
  BY <1>0, <1>1, AloneFromCalm DEF Idle
<1>3. tab[t].asking = "none"
  BY <1>0, <1>1 DEF HeldInv, ClientTypeInv, OneApiAtATime
<1>4. /\ tab \in [Tabs -> Tab] /\ call \in [Tabs -> Call]
      /\ Tabs = Callers
  BY DEF HeldInv, ClientTypeInv, DashboardTypeOK, AuthTypeOK, Tabs
<1>5. ASSUME call' = [call EXCEPT ![t] = NoCall],
             \A other \in Tabs \ {t} : tab'[other] = tab[other],
             tab'[t].asking = "none",
             stored'.token \in Tokens => Works(stored'.token, stored'.account),
             \A k \in Tokens : token[k].row = "usable" => stored'.token = k
      PROVE  Calm' /\ SessionsAreHeld'
  <2>1. call'[t] = NoCall /\ \A other \in Tabs \ {t} : call'[other] = call[other]
    BY <1>4, <1>5
  <2>2. Alone(t)' /\ CallHolds(t)'
    BY <1>0, <1>2, <1>5, <2>1 DEF CalmAt, Alone, Idle, CallHolds, SignInHolds, RefreshHolds,
                                 LogoutHolds, OtherCallsHold
  <2>3. CalmAt(t)'
    BY <1>1, <1>5, <2>2 DEF CalmAt, Works
  <2>4. QED
    BY <2>3, CalmFromAlone
<1>6. CASE SessionArrives(t)
  <2>1. Works(call[t].token, call[t].account) /\ StoredIsSpent
    BY <1>2, <1>6 DEF SessionArrives, CalmAt, CallHolds, SignInHolds, RefreshHolds, StoredIsSpent
  <2>2. QED
    BY <1>2, <1>4, <1>5, <1>6, <2>1
    DEF SessionArrives, StoreSession, End, CalmAt, StoredIsSpent, Tab
<1>7. CASE RefreshRefused(t)
  <2>1. StoredIsSpent /\ call[t].at = "refused"
    BY <1>2, <1>7 DEF RefreshRefused, Serving, CalmAt, CallHolds, RefreshHolds
  <2>2. QED
    BY <1>0, <1>2, <1>3, <1>4, <1>5, <1>7, <2>1
    DEF RefreshRefused, End, CalmAt, StoredIsSpent, Tab
<1>8. CASE LogoutAnswered(t)
  <2>1. StoredIsSpent /\ call[t].token = None
    BY <1>2, <1>8 DEF LogoutAnswered, Answered, CalmAt, CallHolds, LogoutHolds
  <2>2. QED
    BY <1>0, <1>2, <1>4, <1>5, <1>8, <2>1
    DEF LogoutAnswered, SignOutHere, End, CalmAt, StoredIsSpent, Tab
<1>9. ASSUME call[t].op \in {"update_profile", "delete_profile"}
      PROVE  /\ \A k \in Tokens : token[k].row = "usable" => stored.token = k
             /\ stored.token \in Tokens => Works(stored.token, stored.account)
  BY <1>0, <1>2, <1>9 DEF CalmAt, CallHolds, OtherCallsHold, Replacing
<1>10. CASE ProfileArrives(t)
  BY <1>3, <1>4, <1>5, <1>9, <1>10 DEF ProfileArrives, Serving, End, Tab
<1>11. CASE AccountDeleted(t)
  <2>1. call[t].op = "delete_profile"
    BY <1>11 DEF AccountDeleted, Serving
  <2>2. CASE SignOutHere(t) /\ End(t) /\ stored.token = None
    BY <1>0, <1>4, <1>5, <1>9, <2>1, <2>2 DEF SignOutHere, End, Tab
  <2>3. CASE Begin(t, WithToken("logout", Presented(stored.token))) /\ UNCHANGED <<stored, tab>>
    <3>1. /\ call'[t].op = "logout" /\ call'[t].at = "start"
          /\ call'[t].token = Presented(stored.token)
          /\ \A other \in Tabs \ {t} : call'[other] = call[other]
      BY <1>4, <2>3 DEF Begin, WithToken, CallRecord
    <3>2. Alone(t)' /\ CallHolds(t)'
      BY <1>2, <1>3, <2>3, <3>1 DEF CalmAt, Alone, Idle, CallHolds, SignInHolds, RefreshHolds,
                                    LogoutHolds, OtherCallsHold, Presented
    <3>3. CalmAt(t)'
      BY <1>1, <1>9, <2>1, <2>3, <3>2 DEF CalmAt, Works
    <3>4. QED
      BY <3>3, CalmFromAlone
  <2>4. QED
    BY <1>11, <2>2, <2>3 DEF AccountDeleted
<1>12. CASE ErrorShown(t)
  <2>1. UNCHANGED <<stored, tab>> /\ call' = [call EXCEPT ![t] = NoCall]
    BY <1>12 DEF ErrorShown, End, clientVars
  <2>2. CASE call[t].op \in {"register", "login"}
    BY <1>2, <1>3, <1>4, <1>5, <1>12, <2>1, <2>2
    DEF ErrorShown, CalmAt, CallHolds, SignInHolds
  <2>3. QED
    BY <1>3, <1>4, <1>5, <1>9, <1>12, <2>1, <2>2 DEF ErrorShown
<1>13. QED
  BY <1>6, <1>7, <1>8, <1>10, <1>11, <1>12

\* A closed tab drops a call that the server has not begun, or refused.
LEMMA CloseCalm ==
  ASSUME HeldInv, ~disturbed', NEW t \in Tabs, Close(t)
  PROVE  Calm' /\ SessionsAreHeld'
<1>0. /\ NoCall.op = "none" /\ NoCall.token = None /\ NoCall.at = "start" /\ None \notin Tokens
      /\ ClosedTab.asking = "none"
  BY AuthAssumption DEF NoCall, CallRecord, ClosedTab
<1>1. /\ tab \in [Tabs -> Tab] /\ call \in [Tabs -> Call]
      /\ tab' = [tab EXCEPT ![t] = ClosedTab]
      /\ call' = [call EXCEPT ![t] = NoCall]
      /\ UNCHANGED <<token, stored>>
      /\ call[t].at = "start" \/ Answered(t)
  BY DEF HeldInv, ClientTypeInv, DashboardTypeOK, AuthTypeOK, Tabs, Close, End
<1>2. ~disturbed /\ ~Changed(t)
  BY DEF Close, Disturb
<1>3. CASE Idle(t)
  <2>1. UNCHANGED call /\ \A other \in Tabs : tab'[other].asking = tab[other].asking
    BY <1>0, <1>1, <1>3 DEF Idle
  <2>2. UNCHANGED disturbed
    BY <1>2 DEF HeldInv, ClientTypeInv, DashboardTypeOK, Close, Disturb
  <2>3. QED
    BY <1>1, <2>1, <2>2, FrameCalm
<1>4. CASE ~Idle(t)
  <2>1. CalmAt(t)
    BY <1>2, <1>4, AloneFromCalm
  <2>2. call[t].op \in {"register", "login", "refresh", "logout"} => call[t].at \in {"start", "refused"}
    BY <1>1, <1>2 DEF Changed, Answered
  <2>3. \A k \in Tokens : token[k].row = "usable" => stored.token = k
    <3> SUFFICES ASSUME NEW k \in Tokens, token[k].row = "usable", call[t].token = k,
                        call[t].at # "refused"
                 PROVE  stored.token = k
      BY <2>1 DEF CalmAt
    <3>1. call[t].op \in Operations
      BY <1>1 DEF Call
    <3>2. QED
      BY <1>0, <2>1, <2>2, <3>1 DEF CalmAt, CallHolds, SignInHolds, RefreshHolds, LogoutHolds,
                               OtherCallsHold, Presented, Operations
  <2>4. Alone(t)' /\ CallHolds(t)'
    BY <1>0, <1>1, <2>1 DEF CalmAt, Alone, Idle, CallHolds, SignInHolds, RefreshHolds,
                            LogoutHolds, OtherCallsHold
  <2>5. ~Replacing(t)
    BY <2>2 DEF Replacing
  <2>6. CalmAt(t)'
    BY <1>1, <2>1, <2>3, <2>4, <2>5 DEF CalmAt, Works
  <2>7. QED
    BY <2>6, CalmFromAlone
<1>5. QED
  BY <1>3, <1>4

\* The mock is only asked while no token of the service is stored.
LEMMA MockCalm ==
  ASSUME HeldInv, ~disturbed', NEW t \in Tabs, MockAnswer(t)
  PROVE  Calm' /\ SessionsAreHeld'
<1>0. /\ NoCall.op = "none" /\ NoCall.token = None /\ NoCall.at = "start" /\ None \notin Tokens
      /\ NoPair.token \notin Tokens /\ DemoPair.token \notin Tokens
  BY AuthAssumption, DashboardAssumption DEF NoCall, CallRecord, NoPair, DemoPair
<1>1. /\ UNCHANGED <<account, token, call, disturbed>>
      /\ call[t] = NoCall /\ tab[t].asking # "none"
  BY DEF MockAnswer, authVars, HeldInv, ClientTypeInv, OneApiAtATime
<1>2. CalmAt(t) /\ stored.token \notin Tokens
  BY <1>1, AloneFromCalm DEF Idle, CalmAt, CallHolds, OtherCallsHold
<1>3. stored' \in {stored, NoPair, DemoPair}
  BY DEF MockAnswer, StoreSession, SignOutHere
<1>4. \A other \in Tabs \ {t} : tab'[other] = tab[other]
  BY DEF MockAnswer, StoreSession, SignOutHere, HeldInv, ClientTypeInv, DashboardTypeOK
<1>5. Alone(t)' /\ CallHolds(t)'
  BY <1>0, <1>1, <1>2, <1>3, <1>4 DEF CalmAt, Alone, Idle, CallHolds, SignInHolds,
                                     RefreshHolds, LogoutHolds, OtherCallsHold
<1>6. CalmAt(t)'
  BY <1>0, <1>1, <1>2, <1>3, <1>5 DEF CalmAt
<1>7. QED
  BY <1>6, CalmFromAlone

\* Tokens may lapse or go with their account; none becomes usable or changes hands.
Fades ==
  \A k \in Tokens :
    /\ token'[k].account = token[k].account
    /\ token'[k].row = token[k].row
       \/ (token[k].row # "absent" /\ token'[k].row \in {"expired", "deleted"})

LEMMA LapseCalm ==
  ASSUME HeldInv, ~disturbed', NEW k \in Tokens, Lapse(k)
  PROVE  Calm' /\ SessionsAreHeld'
<1>1. ~disturbed /\ UNCHANGED <<stored, tab, call>>
  BY DEF Lapse, Expire, clientVars
<1>2. Fades
  BY DEF Lapse, Expire, Fades, Marked, HeldInv, ClientTypeInv, ClientInv, AuthTypeOK
<1>3. ASSUME NEW j, NEW u, Works(j, u)
      PROVE  Works(j, u)'
  BY <1>2, <1>3 DEF Fades, Works
<1>4. StoredIsSpent => StoredIsSpent'
  BY <1>1, <1>2 DEF Fades, StoredIsSpent
<1>5. ASSUME NEW t \in Tabs
      PROVE  CallHolds(t)'
  <2>1. CallHolds(t)
    BY <1>1 DEF HeldInv, Calm
  <2>2. SignInHolds(t)' /\ OtherCallsHold(t)' /\ LogoutHolds(t)'
    BY <1>1, <1>3, <1>4, <2>1
    DEF CallHolds, SignInHolds, OtherCallsHold, LogoutHolds, Presented
  <2>3. RefreshHolds(t)'
    BY <1>1, <1>2, <1>3, <1>4, <2>1 DEF CallHolds, RefreshHolds, Presented, Fades
  <2>4. QED
    BY <2>2, <2>3 DEF CallHolds
<1>6. OneBusy' /\ StoredWorks'
  BY <1>1, <1>3 DEF HeldInv, Calm, OneBusy, Busy, Idle, StoredWorks, Replacing
<1>7. SessionsAreHeld'
  BY <1>1, <1>2 DEF HeldInv, SessionsAreHeld, InHand, Fades
<1>8. QED
  BY <1>5, <1>6, <1>7 DEF Calm

\* What is to be shown of a call that the server works on.
LEMMA ServedCalm ==
  ASSUME HeldInv, NEW t \in Tabs, CalmAt(t), call[t] # NoCall, UNCHANGED <<stored, tab>>,
         \A other \in Tabs \ {t} : call'[other] = call[other],
         SignInHolds(t)', RefreshHolds(t)', LogoutHolds(t)',
         call'[t].op \in {"none", "update_profile", "delete_profile"} =>
           call'[t].token = None /\ call'[t].at \notin {"insert_token", "audit"},
         stored.token \in Tokens => Works(stored.token, stored.account)' \/ Replacing(t)',
         \A k \in Tokens : token'[k].row = "usable" =>
           stored.token = k \/ (call'[t].token = k /\ call'[t].at # "refused")
  PROVE  Calm' /\ SessionsAreHeld'
<1>1. tab[t].asking = "none"
  BY DEF HeldInv, ClientTypeInv, OneApiAtATime
<1>2. Alone(t)' /\ OtherCallsHold(t)'
  BY <1>1 DEF CalmAt, Alone, Idle, OtherCallsHold
<1>3. CalmAt(t)'
  BY <1>2 DEF CalmAt, CallHolds
<1>4. QED
  BY <1>3, CalmFromAlone

LEMMA SignInCalm ==
  ASSUME HeldInv, NEW t \in Tabs, CalmAt(t), UNCHANGED <<stored, tab>>,
         \/ CreateUser(t) \/ UserByEmail(t) \/ CreateRefreshToken(t) \/ AppendAuditEvent(t)
  PROVE  Calm' /\ SessionsAreHeld'
<1>0. /\ AuthTypeOK /\ TokensNeedAccount /\ None \notin Tokens /\ Tabs = Callers
      /\ Statement(t)
  BY AuthAssumption DEF HeldInv, ClientTypeInv, ClientInv, Tabs, Statement
<1>1. /\ call[t] # NoCall /\ call'[t].op = call[t].op
      /\ \A other \in Tabs \ {t} : call'[other] = call[other]
  BY <1>0, ServiceMoves
<1>2. call[t].op \in {"register", "login"}
  <2>1. call[t].op \in Operations
    BY <1>0 DEF AuthTypeOK, Call
  <2>2. QED
    BY <2>1 DEF CreateUser, UserByEmail, CreateRefreshToken, AppendAuditEvent, Serving, CalmAt,
                CallHolds, RefreshHolds, LogoutHolds, OtherCallsHold, Operations
<1>3. /\ stored.token \notin Tokens
      /\ IF call[t].at \in {"audit", "succeeded"} THEN Works(call[t].token, call[t].account)
                                                  ELSE call[t].token = None
  BY <1>2 DEF CalmAt, CallHolds, SignInHolds
<1>4. \A k \in Tokens : token[k].row = "usable" => call[t].token = k
  BY <1>3 DEF CalmAt
<1>5. ASSUME SignInHolds(t)',
             \A k \in Tokens : token'[k].row = "usable" =>
               call'[t].token = k /\ call'[t].at # "refused"
      PROVE  Calm' /\ SessionsAreHeld'
  BY <1>1, <1>2, <1>3, <1>5, ServedCalm DEF RefreshHolds, LogoutHolds
<1>6. CASE Refuse(t)
  <2>1. call'[t].at = "refused" /\ call'[t].token = None /\ UNCHANGED token
    BY <1>0, <1>6 DEF Refuse, Reach, CallRecord, AuthTypeOK
  <2>2. \A k \in Tokens : token[k].row # "usable"
    <3>1. CASE call[t].at = "audit"
      <4>1. AppendAuditEvent(t)
        BY <3>1 DEF CreateUser, UserByEmail, CreateRefreshToken, Serving
      <4>2. ~Live(call[t].account)
        BY <1>0, <2>1, <4>1 DEF AppendAuditEvent, Succeed, Reach, CallRecord, AuthTypeOK
      <4>3. QED
        BY <1>0, <1>3, <1>4, <3>1, <4>2 DEF Works, TokensNeedAccount
    <3>2. CASE call[t].at # "audit"
      BY <1>0, <1>3, <1>4, <3>2
      DEF CreateUser, UserByEmail, CreateRefreshToken, AppendAuditEvent, Serving
    <3>3. QED
      BY <3>1, <3>2
  <2>3. QED
    BY <1>1, <1>2, <1>3, <1>5, <2>1, <2>2 DEF SignInHolds
<1>7. CASE ~Refuse(t) /\ (CreateUser(t) \/ UserByEmail(t))
  <2>1. call'[t].at = "insert_token" /\ call'[t].token = None /\ UNCHANGED token
    BY <1>0, <1>7 DEF CreateUser, UserByEmail, Reach, CallRecord, AuthTypeOK
  <2>2. call[t].at = "start"
    BY <1>7 DEF CreateUser, UserByEmail, Serving
  <2>3. QED
    BY <1>0, <1>1, <1>3, <1>4, <1>5, <2>1, <2>2 DEF SignInHolds
<1>8. CASE ~Refuse(t) /\ CreateRefreshToken(t)
  <2>1. PICK k \in Fresh :
          /\ token' = [token EXCEPT ![k] =
               [row |-> "usable", account |-> call[t].account, session |-> k]]
          /\ Reach(t, "audit", call[t].account, k)
    BY <1>8 DEF CreateRefreshToken
  <2>2. /\ call'[t].at = "audit" /\ call'[t].token = k /\ call'[t].account = call[t].account
        /\ k \in Tokens
    BY <1>0, <2>1 DEF Reach, CallRecord, AuthTypeOK, Fresh
  <2>3. token'[k].row = "usable" /\ token'[k].account = call[t].account
    BY <1>0, <2>1, <2>2 DEF AuthTypeOK
  <2>4. \A j \in Tokens : token'[j].row = "usable" => j = k
    BY <1>0, <1>3, <1>4, <1>8, <2>1 DEF CreateRefreshToken, AuthTypeOK
  <2>5. SignInHolds(t)'
    BY <1>3, <2>2, <2>3 DEF SignInHolds, Works
  <2>6. QED
    BY <1>5, <2>2, <2>4, <2>5
<1>9. CASE ~Refuse(t) /\ AppendAuditEvent(t)
  <2>1. /\ call'[t].at = "succeeded" /\ call'[t].token = call[t].token
        /\ call'[t].account = call[t].account /\ UNCHANGED token /\ call[t].at = "audit"
    BY <1>0, <1>9 DEF AppendAuditEvent, Succeed, Reach, CallRecord, AuthTypeOK
  <2>2. QED
    BY <1>3, <1>4, <1>5, <2>1 DEF SignInHolds, Works
<1>10. QED
  BY <1>6, <1>7, <1>8, <1>9

\* A refresh, or a logout, works on the stored token, the only one that can be usable.
LEMMA StoredIsPresented ==
  ASSUME HeldInv, NEW t \in Tabs, CalmAt(t), call[t].op \in {"refresh", "logout"},
         call[t].at = "start"
  PROVE  /\ call[t].token = Presented(stored.token)
         /\ call[t].token \in Tokens => stored.token = call[t].token
         /\ stored.token \in Tokens =>
              stored.token = call[t].token /\ Works(stored.token, stored.account)
         /\ \A k \in Tokens : token[k].row = "usable" => stored.token = k
BY AuthAssumption
DEF CalmAt, CallHolds, RefreshHolds, LogoutHolds, Presented, Replacing

LEMMA RotateCalm ==
  ASSUME HeldInv, NEW t \in Tabs, CalmAt(t), UNCHANGED <<stored, tab>>, RotateRefreshToken(t)
  PROVE  Calm' /\ SessionsAreHeld'
<1>. DEFINE k == call[t].token
<1>0. /\ AuthTypeOK /\ None \notin Tokens /\ Tabs = Callers /\ Statement(t)
      /\ call[t].op = "refresh" /\ call[t].at = "start"
  BY AuthAssumption
  DEF HeldInv, ClientTypeInv, ClientInv, Tabs, Statement, RotateRefreshToken, Serving
<1>1. /\ call[t] # NoCall /\ call'[t].op = "refresh"
      /\ \A other \in Tabs \ {t} : call'[other] = call[other]
  BY <1>0, ServiceMoves
<1>2. /\ k = Presented(stored.token)
      /\ k \in Tokens => stored.token = k
      /\ stored.token \in Tokens => stored.token = k /\ Works(stored.token, stored.account)
      /\ \A j \in Tokens : token[j].row = "usable" => stored.token = j
  BY <1>0, StoredIsPresented
<1>3. k \in Tokens \union {None}
  BY <1>0 DEF AuthTypeOK, Call
<1>4. CASE ~Rotatable(k, call[t].fresh)
  <2>1. Refuse(t)
    BY <1>4 DEF RotateRefreshToken
  <2>2. call'[t].at = "refused" /\ UNCHANGED token
    BY <1>0, <2>1 DEF Refuse, Reach, CallRecord, AuthTypeOK
  <2>3. StoredIsSpent
    BY <1>0, <1>2, <1>4 DEF StoredIsSpent, Rotatable, Unrevoked, CalmAt, CallHolds, RefreshHolds
  <2>4. RefreshHolds(t)'
    BY <2>2, <2>3 DEF RefreshHolds, StoredIsSpent
  <2>5. QED
    BY <1>1, <1>2, <2>2, <2>4, ServedCalm DEF SignInHolds, LogoutHolds, Works
<1>5. CASE Rotatable(k, call[t].fresh)
  <2>1. k \in Tokens /\ Unrevoked(k) /\ stored.token = k
    BY <1>2, <1>3, <1>5 DEF Rotatable
  <2>. HIDE DEF k
  <2>2. PICK next \in Fresh :
          /\ token' = [token EXCEPT ![k] = Marked(k, "revoked"), ![next] = Marked(k, "usable")]
          /\ Succeed(t, token[k].account, next)
    BY <1>5 DEF RotateRefreshToken, k
  <2>3. next \in Tokens /\ next # k
    BY <2>1, <2>2 DEF Fresh, Unrevoked
  <2>4. /\ token'[k].row = "revoked"
        /\ token'[next].row = "usable" /\ token'[next].account = token[k].account
        /\ \A j \in Tokens \ {k, next} : token'[j] = token[j]
    BY <1>0, <2>1, <2>2, <2>3 DEF AuthTypeOK, Marked
  <2>5. /\ call'[t].at = "succeeded" /\ call'[t].token = next
        /\ call'[t].account = token[k].account
    BY <1>0, <2>2 DEF Succeed, Reach, CallRecord, AuthTypeOK
  <2>6. RefreshHolds(t)'
    BY <2>1, <2>3, <2>4, <2>5 DEF RefreshHolds, StoredIsSpent, Works
  <2>7. \A j \in Tokens : token'[j].row = "usable" => j = next
    BY <1>2, <2>1, <2>4
  <2>8. Replacing(t)'
    BY <1>1, <2>5 DEF Replacing
  <2>9. QED
    BY <1>1, <2>5, <2>6, <2>7, <2>8, ServedCalm DEF SignInHolds, LogoutHolds
<1>6. QED
  BY <1>4, <1>5

LEMMA RevokeCalm ==
  ASSUME HeldInv, NEW t \in Tabs, CalmAt(t), UNCHANGED <<stored, tab>>, RevokeRefreshToken(t)
  PROVE  Calm' /\ SessionsAreHeld'
<1>0. /\ AuthTypeOK /\ None \notin Tokens /\ Tabs = Callers /\ Statement(t)
      /\ call[t].op = "logout" /\ call[t].at = "start"
  BY AuthAssumption
  DEF HeldInv, ClientTypeInv, ClientInv, Tabs, Statement, RevokeRefreshToken, Serving
<1>1. /\ call[t] # NoCall /\ call'[t].op = "logout"
      /\ \A other \in Tabs \ {t} : call'[other] = call[other]
  BY <1>0, ServiceMoves
<1>2. /\ stored.token \in Tokens => stored.token = call[t].token
      /\ \A k \in Tokens : token[k].row = "usable" => stored.token = k
  BY <1>0, StoredIsPresented
<1>3. call'[t].at = "succeeded" /\ call'[t].token = None
  BY <1>0 DEF RevokeRefreshToken, Succeed, Reach, CallRecord, AuthTypeOK
<1>4. /\ stored.token \in Tokens => token'[stored.token].row # "usable"
      /\ \A k \in Tokens : token'[k].row = "usable" => token[k].row = "usable"
  BY <1>0, <1>2 DEF RevokeRefreshToken, Revoked, Unrevoked, Marked, AuthTypeOK
<1>5. LogoutHolds(t)' /\ Replacing(t)'
  BY <1>1, <1>3, <1>4 DEF LogoutHolds, StoredIsSpent, Replacing
<1>6. QED
  BY <1>1, <1>2, <1>3, <1>4, <1>5, ServedCalm DEF SignInHolds, RefreshHolds

LEMMA ProfileCalm ==
  ASSUME HeldInv, NEW t \in Tabs, CalmAt(t), UNCHANGED <<stored, tab>>,
         UpdateProfile(t) \/ DeleteUser(t)
  PROVE  Calm' /\ SessionsAreHeld'
<1>0. /\ AuthTypeOK /\ None \notin Tokens /\ Tabs = Callers /\ Statement(t)
      /\ call[t].op \in {"update_profile", "delete_profile"}
  BY AuthAssumption
  DEF HeldInv, ClientTypeInv, ClientInv, Tabs, Statement, UpdateProfile, DeleteUser, Serving
<1>1. /\ call[t] # NoCall /\ call'[t].op = call[t].op
      /\ \A other \in Tabs \ {t} : call'[other] = call[other]
  BY <1>0, ServiceMoves
<1>2. call'[t].token = None /\ call'[t].at \in {"succeeded", "refused"}
  BY <1>0 DEF UpdateProfile, DeleteUser, Refuse, Succeed, Reach, CallRecord, AuthTypeOK
<1>3. Fades
  BY <1>0 DEF UpdateProfile, DeleteUser, Refuse, Cascade, Marked, AuthTypeOK, Fades
<1>4. /\ stored.token \in Tokens => Works(stored.token, stored.account)
      /\ \A k \in Tokens : token[k].row = "usable" => stored.token = k
  BY <1>0 DEF CalmAt, CallHolds, OtherCallsHold, Replacing
<1>5. /\ stored.token \in Tokens => Works(stored.token, stored.account)'
      /\ \A k \in Tokens : token'[k].row = "usable" => stored.token = k
  BY <1>3, <1>4 DEF Fades, Works
<1>6. QED
  BY <1>0, <1>1, <1>2, <1>5, ServedCalm DEF SignInHolds, RefreshHolds, LogoutHolds

\* A call that fails, or whose answer is lost, has issued and revoked nothing.
LEMMA FaultCalm ==
  ASSUME HeldInv, ~disturbed', NEW t \in Tabs, CalmAt(t), Fault(t)
  PROVE  Calm' /\ SessionsAreHeld'
<1>0. /\ AuthTypeOK /\ None \notin Tokens /\ Tabs = Callers /\ Refuse(t)
      /\ UNCHANGED <<stored, tab, token>>
  BY AuthAssumption DEF HeldInv, ClientTypeInv, ClientInv, Tabs, Fault, Fail, Lose, Refuse
<1>1. /\ call[t] # NoCall /\ call'[t].op = call[t].op
      /\ \A other \in Tabs \ {t} : call'[other] = call[other]
  BY <1>0, ServiceMoves DEF Fault
<1>2. call'[t].at = "refused" /\ call'[t].token = None
  BY <1>0 DEF Refuse, Reach, CallRecord, AuthTypeOK
<1>3. /\ ~Changed(t)
      /\ call[t].op \in {"refresh", "logout"} => call[t].at # "start"
  BY DEF Fault, Disturb, Serving
<1>4. call[t].op \notin {"refresh", "logout"} /\ call[t].at \in {"start", "insert_token", "succeeded"}
  BY <1>3 DEF Fault, Fail, Lose, Changed, CalmAt, CallHolds, RefreshHolds, LogoutHolds
<1>5. call[t].token = None /\ SignInHolds(t)'
  <2>1. CASE call[t].op \in {"register", "login"}
    BY <1>0, <1>1, <1>2, <1>3, <1>4, <2>1 DEF Changed, CalmAt, CallHolds, SignInHolds
  <2>2. CASE call[t].op \notin {"register", "login"}
    <3>1. call[t].op \in {"none", "update_profile", "delete_profile"}
      BY <1>0, <1>4, <2>2 DEF AuthTypeOK, Call, Operations
    <3>2. QED
      BY <1>1, <2>2, <3>1 DEF CalmAt, CallHolds, OtherCallsHold, SignInHolds
  <2>3. QED
    BY <2>1, <2>2
<1>6. /\ stored.token \in Tokens => Works(stored.token, stored.account)'
      /\ \A k \in Tokens : token'[k].row = "usable" => stored.token = k
  BY <1>0, <1>4, <1>5 DEF CalmAt, Replacing, Works
<1>7. QED
  BY <1>0, <1>1, <1>2, <1>4, <1>5, <1>6, ServedCalm DEF RefreshHolds, LogoutHolds

LEMMA ServerCalm ==
  ASSUME HeldInv, ~disturbed', NEW t \in Tabs, Serve(t) \/ Fault(t)
  PROVE  Calm' /\ SessionsAreHeld'
<1>1. ~disturbed /\ (Statement(t) \/ Fail(t) \/ Lose(t)) /\ UNCHANGED <<stored, tab>>
  <2>1. CASE Serve(t)
    <3>1. UNCHANGED <<stored, tab, disturbed>>
      BY <2>1 DEF Serve, clientVars
    <3>2. QED
      BY <2>1, <3>1 DEF Serve
  <2>2. CASE Fault(t)
    BY <2>2 DEF Fault, Disturb
  <2>3. QED
    BY <2>1, <2>2
<1>2. CalmAt(t)
  BY <1>1, ServiceMoves, AloneFromCalm
  DEF HeldInv, ClientTypeInv, ClientInv, Idle
<1>3. CASE Fault(t)
  BY <1>2, <1>3, FaultCalm
<1>4. CASE Serve(t)
  BY <1>1, <1>2, <1>4, SignInCalm, RotateCalm, RevokeCalm, ProfileCalm DEF Serve, Statement
<1>5. QED
  BY <1>3, <1>4

LEMMA HeldStep ==
  ASSUME HeldInv, [DashboardNext]_dashboardVars
  PROVE  HeldInv'
<1>1. ClientTypeInv'
  BY DashboardTypeStep DEF HeldInv
<1>2. ASSUME ~disturbed'
      PROVE  Calm' /\ SessionsAreHeld'
  <2>1. CASE UNCHANGED dashboardVars
    <3>1. UNCHANGED <<call, token, disturbed, stored, tab>>
      BY <2>1 DEF dashboardVars, authVars, clientVars
    <3>2. QED
      BY <1>2, <3>1, FrameCalm
  <2>2. QED
    BY <1>2, <2>1, StartCalm, AnswerCalm, CloseCalm, MockCalm, ServerCalm, LapseCalm
    DEF DashboardNext
<1>3. QED
  BY <1>1, <1>2 DEF HeldInv, SessionsAreHeld

LEMMA HeldInit ==
  DashboardInit => HeldInv
<1> SUFFICES ASSUME DashboardInit
             PROVE  HeldInv
  OBVIOUS
<1>1. /\ \A t \in Tabs : call[t] = NoCall /\ tab[t].asking = "none"
      /\ \A k \in Tokens : token[k].row = "absent"
      /\ stored.token = None
  BY DEF DashboardInit, AuthInit, Tabs, ClosedTab, NoPair
<1>2. NoCall.op = "none" /\ NoCall.token = None /\ NoCall.at = "start"
  BY DEF NoCall, CallRecord
<1>3. OneBusy /\ StoredWorks /\ SessionsAreHeld
  BY <1>1, AuthAssumption DEF OneBusy, Busy, Idle, StoredWorks, SessionsAreHeld
<1>4. \A t \in Tabs : CallHolds(t)
  BY <1>1, <1>2 DEF CallHolds, SignInHolds, RefreshHolds, LogoutHolds, OtherCallsHold
<1>5. QED
  BY <1>3, <1>4, DashboardTypeInit DEF HeldInv, Calm

LEMMA HeldInvariant ==
  DashboardSpec => []HeldInv
<1>1. HeldInv /\ [DashboardNext]_dashboardVars => HeldInv'
  BY HeldStep
<1>2. QED
  BY <1>1, HeldInit, PTL DEF DashboardSpec

\* No sign-in is left behind, working and out of its user's reach, as long as
\* calls of two tabs do not overlap and no answer is lost.
THEOREM NoSignInIsLeftBehind ==
  DashboardSpec => []SessionsAreHeld
<1>1. HeldInv => SessionsAreHeld
  BY DEF HeldInv
<1>2. QED
  BY <1>1, HeldInvariant, PTL

\* As long as that holds, a reload finds the session: the stored token is the
\* stored account's and stops working only when it expires or the account goes.
THEOREM ReloadFindsSession ==
  DashboardSpec => []StoredTokenWorks
<1>1. HeldInv => StoredTokenWorks
  <2> SUFFICES ASSUME HeldInv, ~disturbed, Busy = {}, stored.token \in Tokens
               PROVE  Works(stored.token, stored.account)
    BY DEF StoredTokenWorks, Works
  <2>1. \A t \in Tabs : call[t] = NoCall
    BY DEF Busy, Idle
  <2>2. \A t \in Tabs : ~Replacing(t)
    BY <2>1 DEF Replacing, NoCall, CallRecord
  <2>3. QED
    BY <2>2 DEF HeldInv, Calm, StoredWorks
<1>2. QED
  BY <1>1, HeldInvariant, PTL
=============================================================================
