--------------------------- MODULE DashboardSession ---------------------------
(***************************************************************************)
(* The web dashboard as a client of the authentication service: the        *)
(* session handling of apps/web-dashboard/src/contexts/AuthContext.tsx and *)
(* lib/api.ts, in several tabs that share one localStorage.                *)
(*                                                                         *)
(* A tab restores its session when it is opened, by exchanging the stored  *)
(* refresh token; whatever the reason a refresh fails for, it clears the   *)
(* stored pair.  It reads the refresh token when the call begins and       *)
(* writes the pair when the answer arrives, and other tabs write in        *)
(* between.                                                                *)
(*                                                                         *)
(* Each tab probes the server once and remembers the answer; a tab whose   *)
(* probe failed talks to lib/mock.ts, whose one demo account lives in the  *)
(* same localStorage, under keys of its own.                               *)
(*                                                                         *)
(* A tab waits for one call before the user starts the next, and the two   *)
(* keys of the pair are written together.                                  *)
(***************************************************************************)
EXTENDS AuthSessions

CONSTANT Demo        \* the demo account, and every token of it

ASSUME DashboardAssumption ==
  Demo \notin Accounts /\ Demo \notin Tokens /\ Demo # None

Tabs == Callers

VARIABLES
  stored,     \* localStorage: account of the access token, refresh token
  demoUser,   \* localStorage: the demo account, if any, and is it signed in
  tab,        \* what each tab shows, and which API it found
  disturbed   \* has anything listed at Disturb happened (for properties only)

clientVars    == <<stored, demoUser, tab, disturbed>>
dashboardVars == <<authVars, clientVars>>

Users == Accounts \union {None, Demo}

Pair == [account : Users, token : Tokens \union {None, Demo}]

NoPair == [account |-> None, token |-> None]

DemoPair == [account |-> Demo, token |-> Demo]

\* asking: the call a tab makes to the mock; those to the service are in call.
Tab == [view : {"closed", "restoring", "ready"}, user : Users,
        backend : {"unknown", "available", "mock"}, asking : Operations]

ClosedTab == [view |-> "closed", user |-> None, backend |-> "unknown", asking |-> "none"]

Idle(t) == call[t] = NoCall /\ tab[t].asking = "none"

Busy == {t \in Tabs : ~Idle(t)}

\* Once a pair is lost track of, the token in it stays usable and unreachable.
\* That takes: calls of two tabs under way together; a sign-in, or a call to the
\* mock, while a pair of the service is stored; a refresh or logout that fails;
\* an answer that is lost although a token was issued or revoked.
Disturb(happens) == disturbed' = (disturbed \/ happens)

-----------------------------------------------------------------------------
\* Calls

\* isBackendAvailable: the probe of the tab's first call is remembered.
Probed(t) == IF tab[t].backend = "unknown" THEN {"available", "mock"} ELSE {tab[t].backend}

\* What the server makes of a stored token.
Presented(k) == IF k \in Tokens THEN k ELSE None

Ask(t, request, view) ==
  \E backend \in Probed(t) :
    /\ tab' = [tab EXCEPT ![t] =
         [@ EXCEPT !.view = view, !.backend = backend,
                   !.asking = IF backend = "mock" THEN request.op ELSE "none"]]
    /\ IF backend = "mock" THEN UNCHANGED authVars ELSE Begin(t, request)
    /\ Disturb(\/ Busy \ {t} # {}
               \/ /\ stored.token \in Tokens
                  /\ backend = "mock" \/ request.op \in {"login", "register"})

\* The effect of AuthProvider.  Without a stored token there is nothing to do.
Open(t) ==
  /\ tab[t].view = "closed" /\ Idle(t)
  /\ IF stored.token = None
     THEN /\ tab' = [tab EXCEPT ![t].view = "ready"]
          /\ UNCHANGED <<authVars, disturbed>>
     ELSE Ask(t, WithToken("refresh", Presented(stored.token)), "restoring")
  /\ UNCHANGED <<stored, demoUser>>

\* PublicRoute shows the forms while the tab has no user.
SubmitForm(t) ==
  /\ tab[t].view = "ready" /\ tab[t].user = None /\ Idle(t)
  /\ \E op \in {"register", "login"}, email \in Emails : Ask(t, SignIn(op, email), "ready")
  /\ UNCHANGED <<stored, demoUser>>

SignedIn(t) == tab[t].view = "ready" /\ tab[t].user # None /\ Idle(t)

SignOutHere(t) ==
  /\ stored' = NoPair
  /\ tab' = [tab EXCEPT ![t].user = None, ![t].asking = "none"]

Logout(t) ==
  /\ SignedIn(t)
  /\ IF stored.token = None
     THEN SignOutHere(t) /\ UNCHANGED <<authVars, disturbed>>
     ELSE Ask(t, WithToken("logout", Presented(stored.token)), "ready") /\ UNCHANGED stored
  /\ UNCHANGED demoUser

\* request sends the stored access token, whoever the tab shows.
EditProfile(t) ==
  /\ SignedIn(t)
  /\ \E op \in {"update_profile", "delete_profile"} :
       /\ stored.account \in Accounts \/ tab[t].backend = "mock"
       /\ Ask(t, AsUser(op, IF stored.account \in Accounts THEN stored.account ELSE None),
              "ready")
  /\ UNCHANGED <<stored, demoUser>>

-----------------------------------------------------------------------------
\* Answers of the service

StoreSession(t, pair) ==
  /\ stored' = pair
  /\ tab' = [tab EXCEPT ![t] = [@ EXCEPT !.view = "ready", !.user = pair.account,
                                         !.asking = "none"]]

SessionArrives(t) ==
  /\ call[t].op \in {"register", "login", "refresh"} /\ call[t].at = "succeeded"
  /\ StoreSession(t, [account |-> call[t].account, token |-> call[t].token])
  /\ End(t)
  /\ UNCHANGED <<demoUser, disturbed>>

RefreshRefused_MutantNotFinally(t) ==
  /\ Serving(t, "refresh", "refused")
  /\ stored' = NoPair
  /\ End(t)
  /\ UNCHANGED <<demoUser, tab, disturbed>>

\* .catch(() => clearTokens()): whatever is stored by now.
RefreshRefused(t) ==
  /\ Serving(t, "refresh", "refused")
  /\ stored' = NoPair
  /\ tab' = [tab EXCEPT ![t].view = "ready"]
  /\ End(t)
  /\ UNCHANGED <<demoUser, disturbed>>

LogoutAnswered_MutantKeepsPair(t) ==
  /\ call[t].op = "logout" /\ Answered(t)
  /\ tab' = [tab EXCEPT ![t].user = None]
  /\ End(t)
  /\ UNCHANGED <<stored, demoUser, disturbed>>

LogoutAnswered(t) ==
  /\ call[t].op = "logout" /\ Answered(t)
  /\ SignOutHere(t)
  /\ End(t)
  /\ UNCHANGED <<demoUser, disturbed>>

ProfileArrives(t) ==
  /\ Serving(t, "update_profile", "succeeded")
  /\ tab' = [tab EXCEPT ![t].user = call[t].account]
  /\ End(t)
  /\ UNCHANGED <<stored, demoUser, disturbed>>

\* ProfilePage logs out after a deletion, with the pair that is stored by now.
AccountDeleted(t) ==
  /\ Serving(t, "delete_profile", "succeeded")
  /\ IF stored.token = None
     THEN SignOutHere(t) /\ End(t)
     ELSE /\ Begin(t, WithToken("logout", Presented(stored.token)))
          /\ UNCHANGED <<stored, tab>>
  /\ UNCHANGED <<demoUser, disturbed>>

\* The form shows the error; nothing is stored or cleared.
ErrorShown(t) ==
  /\ call[t].op \in {"register", "login", "update_profile", "delete_profile"}
  /\ call[t].at = "refused"
  /\ End(t)
  /\ UNCHANGED clientVars

-----------------------------------------------------------------------------
\* Answers of the mock

MockAnswer(t) ==
  LET op == tab[t].asking
      quiet == [tab EXCEPT ![t].asking = "none"] IN
  /\ op # "none"
  /\ \/ /\ \/ op = "register" /\ demoUser = "none"
           \/ op = "login" /\ demoUser # "none"
           \/ op = "refresh" /\ demoUser = "signed_in"
        /\ demoUser' = "signed_in"
        /\ StoreSession(t, DemoPair)
     \/ /\ \/ op = "register" /\ demoUser # "none"
           \/ op = "login" /\ demoUser = "none"
           \/ op = "update_profile" /\ demoUser # "signed_in"
        /\ tab' = quiet
        /\ UNCHANGED <<stored, demoUser>>
     \/ /\ op = "refresh" /\ demoUser # "signed_in"
        /\ stored' = NoPair
        /\ tab' = [quiet EXCEPT ![t].view = "ready"]
        /\ UNCHANGED demoUser
     \/ /\ op = "update_profile" /\ demoUser = "signed_in"
        /\ tab' = [quiet EXCEPT ![t].user = Demo]
        /\ UNCHANGED <<stored, demoUser>>
     \/ /\ op = "logout"
        /\ SignOutHere(t)
        /\ demoUser' = IF demoUser = "none" THEN "none" ELSE "signed_out"
     \/ /\ op = "delete_profile"
        /\ demoUser' = IF demoUser = "signed_in" THEN "none" ELSE demoUser
        /\ IF stored.token = None THEN SignOutHere(t)
           ELSE tab' = [tab EXCEPT ![t].asking = "logout"] /\ UNCHANGED stored
  /\ UNCHANGED <<authVars, disturbed>>

-----------------------------------------------------------------------------
\* The server, the network and the user

\* The call has issued or revoked a token, and its caller does not know.
Changed(c) ==
  \/ call[c].at = "audit"
  \/ call[c].at = "succeeded" /\ call[c].op \in {"register", "login", "refresh", "logout"}

Serve(t) == Statement(t) /\ UNCHANGED clientVars

Fault(t) ==
  /\ Fail(t) \/ Lose(t)
  /\ Disturb(Changed(t) \/ Serving(t, "refresh", "start") \/ Serving(t, "logout", "start"))
  /\ UNCHANGED <<stored, demoUser, tab>>

\* Closing, or reloading, a tab drops a call the server has not begun or has
\* answered; one it is working on is answered first.
Close(t) ==
  /\ tab[t].view # "closed"
  /\ tab' = [tab EXCEPT ![t] = ClosedTab]
  /\ End(t)
  /\ Disturb(Changed(t))
  /\ UNCHANGED <<stored, demoUser>>

Lapse(k) == Expire(k) /\ UNCHANGED clientVars

DashboardInit ==
  /\ AuthInit
  /\ stored = NoPair
  /\ demoUser = "none"
  /\ tab = [t \in Tabs |-> ClosedTab]
  /\ disturbed = FALSE

DashboardNext ==
  \/ \E t \in Tabs :
       \/ Open(t) \/ SubmitForm(t) \/ Logout(t) \/ EditProfile(t) \/ Close(t)
       \/ SessionArrives(t) \/ RefreshRefused(t) \/ LogoutAnswered(t)
       \/ ProfileArrives(t) \/ AccountDeleted(t) \/ ErrorShown(t)
       \/ MockAnswer(t)
       \/ Serve(t) \/ Fault(t)
  \/ \E k \in Tokens : Lapse(k)

DashboardSpec == DashboardInit /\ [][DashboardNext]_dashboardVars

-----------------------------------------------------------------------------
\* Properties

DashboardTypeOK ==
  /\ AuthTypeOK
  /\ stored \in Pair
  /\ demoUser \in {"none", "signed_out", "signed_in"}
  /\ tab \in [Tabs -> Tab]
  /\ disturbed \in BOOLEAN
  /\ \A t \in Tabs : tab[t].view = "restoring"
                       <=> call[t].op = "refresh" \/ tab[t].asking = "refresh"

InHand(k) == \E t \in Tabs : call[t].token = k /\ call[t].at # "refused"

\* A sign-in is never left behind, working and out of reach of its user: unless
\* one of the events at Disturb happened, every token that still works is the
\* stored one or belongs to a call under way.
SessionsAreHeld ==
  ~disturbed => \A k \in Tokens :
    token[k].row = "usable" => stored.token = k \/ InHand(k)

\* Unless one of them happened, an open tab with no call under way can restore
\* its session: the stored token works until it expires or the account goes.
StoredTokenWorks ==
  ~disturbed /\ Busy = {} /\ stored.token \in Tokens =>
    /\ token[stored.token].row \in {"usable", "expired", "deleted"}
    /\ token[stored.token].account = stored.account
=============================================================================
