----------------------------- MODULE AuthSessions -----------------------------
(***************************************************************************)
(* Accounts and refresh tokens of the authentication service: the          *)
(* statements of services/auth/internal/infrastructure/postgres/store.go   *)
(* and the calls of services/auth/internal/application/service.go.         *)
(*                                                                         *)
(* A statement, or the transaction of RotateRefreshToken, is one step.     *)
(* Register and Login are three of them with nothing around: an error or a *)
(* deleted account in between leaves what was written before.  A call may  *)
(* fail at any point, and its answer may be lost after it succeeded.       *)
(*                                                                         *)
(* A session is what one sign-in starts: its refresh tokens, each          *)
(* exchanged for the next.  The code keeps no such identity; the field     *)
(* session exists to state properties.  An access token is its account:    *)
(* it is checked by signature and lifetime only, so a call that carries an *)
(* expired one fails like any other (Fail).                                *)
(***************************************************************************)
CONSTANTS
  Accounts,     \* account ids
  Emails,       \* normalised addresses
  Tokens,       \* refresh token values; random, hence never issued twice
  Callers,      \* requests in flight
  None

ASSUME AuthAssumption ==
  None \notin Accounts /\ None \notin Emails /\ None \notin Tokens

AccountRow == [row : {"absent", "live", "deleted"}, email : Emails \union {None}]

\* "revoked": revoked_at IS NOT NULL; "expired": it is NULL, and expires_at has passed;
\* "deleted": the cascade removed the row.
TokenRow == [row : {"absent", "usable", "expired", "revoked", "deleted"},
             account : Accounts \union {None},
             session : Tokens \union {None}]

Operations == {"none", "register", "login", "refresh", "logout",
               "update_profile", "delete_profile"}

\* token: the one presented, then the one issued.  fresh: had the presented
\* token not expired when the call read the clock.
Call == [op : Operations,
         at : {"start", "insert_token", "audit", "succeeded", "refused"},
         email : Emails \union {None},
         account : Accounts \union {None},
         token : Tokens \union {None},
         fresh : BOOLEAN]

CallRecord(op, at, email, u, k, fresh) ==
  [op |-> op, at |-> at, email |-> email, account |-> u, token |-> k, fresh |-> fresh]

NoCall == CallRecord("none", "start", None, None, None, FALSE)

VARIABLES
  account,   \* users
  token,     \* refresh_tokens
  call       \* the call each caller waits for

authVars == <<account, token, call>>

-----------------------------------------------------------------------------
\* Requests

SignIn(op, email) == CallRecord(op, "start", email, None, None, FALSE)

\* A token the service never issued is None.
WithToken(op, k) ==
  CallRecord(op, "start", None, None, k, k # None /\ token[k].row = "usable")

\* requireAuth hands the handler the account named in the access token.
AsUser(op, u) == CallRecord(op, "start", None, u, None, FALSE)

Answered(c) == call[c].at \in {"succeeded", "refused"}

\* A caller that has its answer may go on with the next request at once.
Begin(c, request) ==
  /\ call[c] = NoCall \/ Answered(c)
  /\ call' = [call EXCEPT ![c] = request]
  /\ UNCHANGED <<account, token>>

-----------------------------------------------------------------------------
\* Statements

Serving(c, op, at) == call[c].op = op /\ call[c].at = at

\* What the call holds from here on.
Reach(c, at, u, k) ==
  call' = [call EXCEPT ![c] = CallRecord(call[c].op, at, None, u, k, FALSE)]

\* An error tells the caller nothing else; a session names its account and token.
Refuse(c) == Reach(c, "refused", None, None) /\ UNCHANGED <<account, token>>

Succeed(c, u, k) == Reach(c, "succeeded", u, k)

Holder(email) == {u \in Accounts : account[u].row = "live" /\ account[u].email = email}

Live(u) == u \in Accounts /\ account[u].row = "live"

Fresh == {k \in Tokens : token[k].row = "absent"}

Unrevoked(k) == token[k].row \in {"usable", "expired"}

Marked(k, row) ==
  [row |-> row, account |-> token[k].account, session |-> token[k].session]

\* The tokens of a session that a refresh may still take.
Current(s) == {k \in Tokens : Unrevoked(k) /\ token[k].session = s}

CreateUser(c) ==
  /\ Serving(c, "register", "start")
  /\ IF Holder(call[c].email) # {}           \* users.email is unique
     THEN Refuse(c)
     ELSE \E u \in Accounts :
            /\ account[u].row = "absent"
            /\ account' = [account EXCEPT ![u] = [row |-> "live", email |-> call[c].email]]
            /\ Reach(c, "insert_token", u, None)
            /\ UNCHANGED token

UserByEmail(c) ==
  /\ Serving(c, "login", "start")
  /\ IF Holder(call[c].email) = {}
     THEN Refuse(c)
     ELSE \E u \in Holder(call[c].email) :
            /\ Reach(c, "insert_token", u, None)
            /\ UNCHANGED <<account, token>>

\* newSession; the foreign key refuses a user deleted since.
CreateRefreshToken(c) ==
  /\ call[c].at = "insert_token"
  /\ IF Live(call[c].account)
     THEN \E k \in Fresh :
            /\ token' = [token EXCEPT ![k] =
                 [row |-> "usable", account |-> call[c].account, session |-> k]]
            /\ Reach(c, "audit", call[c].account, k)
            /\ UNCHANGED account
     ELSE Refuse(c)

\* audit_events.user_id has a foreign key too.
AppendAuditEvent(c) ==
  /\ call[c].at = "audit"
  /\ IF Live(call[c].account)
     THEN Succeed(c, call[c].account, call[c].token) /\ UNCHANGED <<account, token>>
     ELSE Refuse(c)

Rotatable_MutantReplay(k, fresh) == k # None /\ fresh

\* Whether a token has expired depends on the clock reading alone.
Rotatable(k, fresh) == k # None /\ fresh /\ Unrevoked(k)

RotateRefreshToken_MutantKeepsOld(c) ==
  LET k == call[c].token IN
  /\ Serving(c, "refresh", "start")
  /\ IF Rotatable(k, call[c].fresh)
     THEN \E next \in Fresh :
            /\ token' = [token EXCEPT ![next] = Marked(k, "usable")]
            /\ Succeed(c, token[k].account, next)
            /\ UNCHANGED account
     ELSE Refuse(c)

\* SELECT ... FOR UPDATE, UPDATE and INSERT in one transaction.  The new token
\* gets a lifetime of its own.
RotateRefreshToken(c) ==
  LET k == call[c].token IN
  /\ Serving(c, "refresh", "start")
  /\ IF Rotatable(k, call[c].fresh)
     THEN \E next \in Fresh :
            /\ token' = [token EXCEPT ![k] = Marked(k, "revoked"),
                                      ![next] = Marked(k, "usable")]
            /\ Succeed(c, token[k].account, next)
            /\ UNCHANGED account
     ELSE Refuse(c)

Revoked_MutantNotStored(k) == token

Revoked(k) == IF k # None /\ Unrevoked(k) THEN [token EXCEPT ![k] = Marked(k, "revoked")] ELSE token

\* Succeeds whether or not there was a token to revoke.
RevokeRefreshToken(c) ==
  /\ Serving(c, "logout", "start")
  /\ token' = Revoked(call[c].token)
  /\ Succeed(c, None, None)
  /\ UNCHANGED account

\* Writes the display name only, which nothing here depends on.
UpdateProfile(c) ==
  /\ Serving(c, "update_profile", "start")
  /\ IF Live(call[c].account)
     THEN Succeed(c, call[c].account, None) /\ UNCHANGED <<account, token>>
     ELSE Refuse(c)

Cascade_MutantRevokes(u) ==
  [k \in Tokens |-> IF token[k].account = u /\ Unrevoked(k)
                    THEN Marked(k, "revoked") ELSE token[k]]

\* refresh_tokens.user_id ... ON DELETE CASCADE
Cascade(u) ==
  [k \in Tokens |-> IF token[k].account = u /\ token[k].row # "absent"
                    THEN Marked(k, "deleted") ELSE token[k]]

DeleteUser(c) ==
  /\ Serving(c, "delete_profile", "start")
  /\ IF Live(call[c].account)
     THEN /\ account' = [account EXCEPT ![call[c].account] =
                           [row |-> "deleted", email |-> None]]
          /\ token' = Cascade(call[c].account)
          /\ Succeed(c, None, None)
     ELSE Refuse(c)

Statement(c) ==
  \/ CreateUser(c) \/ UserByEmail(c) \/ CreateRefreshToken(c) \/ AppendAuditEvent(c)
  \/ RotateRefreshToken(c) \/ RevokeRefreshToken(c)
  \/ UpdateProfile(c) \/ DeleteUser(c)

-----------------------------------------------------------------------------
\* What may go wrong, and the end of a call

\* A wrong password, an invalid access token, a database error, a cancelled
\* request, a crash: no further statement runs.
Fail(c) ==
  /\ call[c].op # "none" /\ call[c].at \in {"start", "insert_token", "audit"}
  /\ Refuse(c)

\* The answer, or the acknowledgement of the commit, never arrives.
Lose(c) == call[c].at = "succeeded" /\ Refuse(c)

\* The caller has its answer, or gives up on a request that was not begun.
End(c) ==
  /\ call[c].at = "start" \/ Answered(c)
  /\ call' = [call EXCEPT ![c] = NoCall]
  /\ UNCHANGED <<account, token>>

\* expires_at passes.
Expire(k) ==
  /\ token[k].row = "usable"
  /\ token' = [token EXCEPT ![k] = Marked(k, "expired")]
  /\ UNCHANGED <<account, call>>

AuthInit ==
  /\ account = [u \in Accounts |-> [row |-> "absent", email |-> None]]
  /\ token = [k \in Tokens |-> [row |-> "absent", account |-> None,
                                session |-> None]]
  /\ call = [c \in Callers |-> NoCall]

Issued == {k \in Tokens : token[k].row # "absent"}

Known == {u \in Accounts : account[u].row # "absent"}

\* What clients may ask, with tokens they were given at any time.
Requests ==
  {SignIn(op, email) : op \in {"register", "login"}, email \in Emails}
    \union {WithToken(op, k) : op \in {"refresh", "logout"}, k \in Issued \union {None}}
    \union {AsUser(op, u) : op \in {"update_profile", "delete_profile"}, u \in Known}

AuthNext ==
  \/ \E c \in Callers : \/ \E request \in Requests : Begin(c, request)
                        \/ Statement(c) \/ Fail(c) \/ Lose(c) \/ End(c)
  \/ \E k \in Tokens : Expire(k)

AuthSpec == AuthInit /\ [][AuthNext]_authVars

-----------------------------------------------------------------------------
\* Properties

AuthTypeOK ==
  /\ account \in [Accounts -> AccountRow]
  /\ token \in [Tokens -> TokenRow]
  /\ call \in [Callers -> Call]

\* API_SPEC.md:31, DECISIONS.md:74: rotation replaces.  However refreshes,
\* logouts and deletions race, a session never has two tokens a refresh would take.
OneCurrentTokenPerSession ==
  \A s \in Tokens : \A k1, k2 \in Current(s) : k1 = k2

\* DATABASE.md:12: no refresh token outlives its account, one issued by a login
\* that was under way when the account was deleted included.
TokensNeedAccount ==
  \A k \in Tokens : token[k].row \in {"usable", "expired", "revoked"} => Live(token[k].account)

\* A session whose tokens have all been revoked never works again: no late
\* refresh and no repeated one revives what a logout ended.
EndedSessionsStayEnded ==
  [][\A s \in Tokens :
       token[s].row # "absent" /\ Current(s) = {} => Current(s)' = {}]_authVars
=============================================================================
