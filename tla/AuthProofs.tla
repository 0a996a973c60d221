------------------------------- MODULE AuthProofs -------------------------------
(***************************************************************************)
(* Proofs about AuthSessions, for any accounts, tokens and callers, and    *)
(* about DashboardSession as one client of it.                             *)
(***************************************************************************)
EXTENDS DashboardSession, TLAPS

-----------------------------------------------------------------------------
\* Types

\* A call is at its start when it is asked for, with values of the right kind.
LEMMA RequestTypes ==
  ASSUME AuthTypeOK, NEW request \in Requests
  PROVE  /\ request \in Call
         /\ request.at = "start"
<1>1. CASE \E op \in {"register", "login"}, email \in Emails : request = SignIn(op, email)
  BY <1>1 DEF SignIn, CallRecord, Call, Operations
<1>2. CASE \E op \in {"refresh", "logout"}, k \in Issued \union {None} :
             request = WithToken(op, k)
  <2>1. PICK op \in {"refresh", "logout"}, k \in Issued \union {None} :
               request = WithToken(op, k)
    BY <1>2
  <2>2. (k # None /\ token[k].row = "usable") \in BOOLEAN
    OBVIOUS
  <2>3. QED
    BY <2>1, <2>2 DEF WithToken, CallRecord, Call, Operations, Issued
<1>3. CASE \E op \in {"update_profile", "delete_profile"}, u \in Known :
             request = AsUser(op, u)
  BY <1>3 DEF AsUser, CallRecord, Call, Operations, Known
<1>4. QED
  BY <1>1, <1>2, <1>3 DEF Requests

\* Wherever the call goes on to, it stays a call.
LEMMA ReachTypes ==
  ASSUME AuthTypeOK, NEW c \in Callers,
         NEW at \in {"start", "insert_token", "audit", "succeeded", "refused"},
         NEW u \in Accounts \union {None}, NEW k \in Tokens \union {None},
         Reach(c, at, u, k)
  PROVE  call' \in [Callers -> Call]
<1>1. call[c].op \in Operations
  BY DEF AuthTypeOK, Call
<1>2. CallRecord(call[c].op, at, None, u, k, FALSE) \in Call
  BY <1>1 DEF CallRecord, Call
<1>3. QED
  BY <1>2 DEF AuthTypeOK, Reach

LEMMA RefuseTypes ==
  ASSUME AuthTypeOK, NEW c \in Callers, Refuse(c)
  PROVE  AuthTypeOK'
BY ReachTypes DEF AuthTypeOK, Refuse

\* A row keeps its type when it is marked.
LEMMA MarkedTypes ==
  ASSUME AuthTypeOK, NEW k \in Tokens,
         NEW row \in {"absent", "usable", "expired", "revoked", "deleted"}
  PROVE  Marked(k, row) \in TokenRow
BY DEF AuthTypeOK, Marked, TokenRow

LEMMA StatementTypes ==
  ASSUME AuthTypeOK, NEW c \in Callers, Statement(c)
  PROVE  AuthTypeOK'
<1>1. CASE Refuse(c)
  BY <1>1, RefuseTypes
<1>2. CASE CreateUser(c) /\ ~Refuse(c)
  <2>1. PICK u \in Accounts :
          /\ account' = [account EXCEPT ![u] = [row |-> "live", email |-> call[c].email]]
          /\ Reach(c, "insert_token", u, None)
          /\ UNCHANGED token
    BY <1>2 DEF CreateUser
  <2>2. [row |-> "live", email |-> call[c].email] \in AccountRow
    BY DEF AuthTypeOK, Call, AccountRow
  <2>3. QED
    BY <2>1, <2>2, ReachTypes DEF AuthTypeOK
<1>3. CASE UserByEmail(c) /\ ~Refuse(c)
  <2>1. PICK u \in Holder(call[c].email) :
          Reach(c, "insert_token", u, None) /\ UNCHANGED <<account, token>>
    BY <1>3 DEF UserByEmail
  <2>2. QED
    BY <2>1, ReachTypes DEF AuthTypeOK, Holder
<1>4. CASE CreateRefreshToken(c) /\ ~Refuse(c)
  <2>1. Live(call[c].account)
    BY <1>4 DEF CreateRefreshToken
  <2>2. PICK k \in Fresh :
          /\ token' = [token EXCEPT ![k] =
               [row |-> "usable", account |-> call[c].account, session |-> k]]
          /\ Reach(c, "audit", call[c].account, k)
          /\ UNCHANGED account
    BY <1>4 DEF CreateRefreshToken
  <2>3. [row |-> "usable", account |-> call[c].account, session |-> k] \in TokenRow
    BY <2>1 DEF Live, TokenRow, Fresh
  <2>4. QED
    BY <2>1, <2>2, <2>3, ReachTypes DEF AuthTypeOK, Live, Fresh
<1>5. CASE AppendAuditEvent(c) /\ ~Refuse(c)
  <2>1. call[c].account \in Accounts \union {None} /\ call[c].token \in Tokens \union {None}
    BY DEF AuthTypeOK, Call
  <2>2. QED
    BY <1>5, <2>1, ReachTypes DEF AppendAuditEvent, Succeed, AuthTypeOK
<1>6. CASE RotateRefreshToken(c) /\ ~Refuse(c)
  <2> DEFINE k == call[c].token
  <2>1. k \in Tokens
    BY <1>6 DEF RotateRefreshToken, Rotatable, AuthTypeOK, Call
  <2> HIDE DEF k
  <2>2. PICK next \in Fresh :
          /\ token' = [token EXCEPT ![k] = Marked(k, "revoked"), ![next] = Marked(k, "usable")]
          /\ Succeed(c, token[k].account, next)
          /\ UNCHANGED account
    BY <1>6 DEF RotateRefreshToken, k
  <2>3. Marked(k, "revoked") \in TokenRow /\ Marked(k, "usable") \in TokenRow
    BY <2>1, MarkedTypes
  <2>4. token' \in [Tokens -> TokenRow]
    BY <2>1, <2>2, <2>3 DEF AuthTypeOK, Fresh
  <2>5. token[k].account \in Accounts \union {None}
    BY <2>1 DEF AuthTypeOK, TokenRow
  <2>6. call' \in [Callers -> Call]
    BY <2>2, <2>5, ReachTypes DEF Succeed, Fresh
  <2>7. QED
    BY <2>2, <2>4, <2>6 DEF AuthTypeOK
<1>7. CASE RevokeRefreshToken(c)
  <2>1. Revoked(call[c].token) \in [Tokens -> TokenRow]
    BY MarkedTypes DEF Revoked, AuthTypeOK, Call
  <2>2. QED
    BY <1>7, <2>1, ReachTypes DEF RevokeRefreshToken, Succeed, AuthTypeOK
<1>8. CASE UpdateProfile(c) /\ ~Refuse(c)
  BY <1>8, ReachTypes DEF UpdateProfile, Live, Succeed, AuthTypeOK
<1>9. CASE DeleteUser(c) /\ ~Refuse(c)
  <2>1. Cascade(call[c].account) \in [Tokens -> TokenRow]
    BY MarkedTypes DEF Cascade, AuthTypeOK
  <2>2. [row |-> "deleted", email |-> None] \in AccountRow
    BY DEF AccountRow
  <2>3. QED
    BY <1>9, <2>1, <2>2, ReachTypes DEF DeleteUser, Live, Succeed, AuthTypeOK
<1>10. QED
  BY <1>1, <1>2, <1>3, <1>4, <1>5, <1>6, <1>7, <1>8, <1>9 DEF Statement

LEMMA ExpireTypes ==
  ASSUME AuthTypeOK, NEW k \in Tokens, Expire(k)
  PROVE  AuthTypeOK'
BY MarkedTypes DEF Expire, AuthTypeOK

LEMMA BeginTypes ==
  ASSUME AuthTypeOK, NEW c \in Callers, NEW request \in Requests, Begin(c, request)
  PROVE  AuthTypeOK'
BY RequestTypes DEF Begin, AuthTypeOK

LEMMA EndTypes ==
  ASSUME AuthTypeOK, NEW c \in Callers, End(c)
  PROVE  AuthTypeOK'
BY DEF End, AuthTypeOK, NoCall, CallRecord, Call, Operations

LEMMA AuthTypeInit ==
  AuthInit => AuthTypeOK
BY DEF AuthInit, AuthTypeOK, AccountRow, TokenRow, NoCall, CallRecord, Call, Operations

LEMMA AuthTypeStep ==
  ASSUME AuthTypeOK, [AuthNext]_authVars
  PROVE  AuthTypeOK'
<1>1. CASE UNCHANGED authVars
  BY <1>1 DEF authVars, AuthTypeOK
<1>2. CASE \E c \in Callers, request \in Requests : Begin(c, request)
  BY <1>2, BeginTypes
<1>3. CASE \E c \in Callers : Statement(c)
  BY <1>3, StatementTypes
<1>4. CASE \E c \in Callers : Fail(c) \/ Lose(c)
  BY <1>4, RefuseTypes DEF Fail, Lose
<1>5. CASE \E c \in Callers : End(c)
  BY <1>5, EndTypes
<1>6. CASE \E k \in Tokens : Expire(k)
  BY <1>6, ExpireTypes
<1>7. QED
  BY <1>1, <1>2, <1>3, <1>4, <1>5, <1>6 DEF AuthNext

\* Accounts, tokens and calls keep their types, whatever the interleaving.
THEOREM AuthTypes ==
  AuthSpec => []AuthTypeOK
<1>1. AuthTypeOK /\ [AuthNext]_authVars => AuthTypeOK'
  BY AuthTypeStep
<1>2. QED
  BY <1>1, AuthTypeInit, PTL DEF AuthSpec

-----------------------------------------------------------------------------
\* What a step does to the tokens

Issues(u, k) ==
  /\ k \in Fresh /\ Live(u)
  /\ token' = [token EXCEPT ![k] = [row |-> "usable", account |-> u, session |-> k]]
  /\ UNCHANGED account

Replaces(k, next) ==
  /\ k \in Tokens /\ next \in Fresh /\ Unrevoked(k)
  /\ token' = [token EXCEPT ![k] = Marked(k, "revoked"), ![next] = Marked(k, "usable")]
  /\ UNCHANGED account

Demotes(k, row) ==
  /\ k \in Tokens /\ Unrevoked(k)
  /\ token' = [token EXCEPT ![k] = Marked(k, row)]
  /\ UNCHANGED account

Deletes(u) ==
  /\ Live(u)
  /\ account' = [account EXCEPT ![u] = [row |-> "deleted", email |-> None]]
  /\ token' = Cascade(u)

\* An account may appear, and nothing else happens to accounts or tokens.
Registers ==
  /\ token' = token
  /\ \/ account' = account
     \/ \E u \in Accounts, email \in Emails \union {None} :
          /\ account[u].row = "absent"
          /\ account' = [account EXCEPT ![u] = [row |-> "live", email |-> email]]

\* Every step is of one of these five kinds.
LEMMA StepKinds ==
  ASSUME AuthTypeOK, [AuthNext]_authVars
  PROVE  \/ Registers
         \/ \E u \in Accounts, k \in Tokens : Issues(u, k)
         \/ \E k, next \in Tokens : Replaces(k, next)
         \/ \E k \in Tokens, row \in {"expired", "revoked"} : Demotes(k, row)
         \/ \E u \in Accounts : Deletes(u)
<1>1. CASE UNCHANGED authVars
  BY <1>1 DEF authVars, Registers
<1>2. ASSUME NEW c \in Callers,
             \/ \E request \in Requests : Begin(c, request)
             \/ Fail(c) \/ Lose(c) \/ End(c) \/ Refuse(c)
      PROVE  Registers
  BY <1>2 DEF Begin, Fail, Lose, End, Refuse, Registers
<1>3. ASSUME NEW c \in Callers, CreateUser(c), ~Refuse(c)
      PROVE  Registers
  <2>1. call[c].email \in Emails \union {None}
    BY DEF AuthTypeOK, Call
  <2>2. QED
    BY <1>3, <2>1 DEF CreateUser, Registers
<1>4. ASSUME NEW c \in Callers, CreateRefreshToken(c), ~Refuse(c)
      PROVE  \E u \in Accounts, k \in Tokens : Issues(u, k)
  BY <1>4 DEF CreateRefreshToken, Live, Fresh, Issues
<1>5. ASSUME NEW c \in Callers, RotateRefreshToken(c), ~Refuse(c)
      PROVE  \E k, next \in Tokens : Replaces(k, next)
  BY <1>5 DEF RotateRefreshToken, Rotatable, Fresh, Replaces, AuthTypeOK, Call
<1>6. ASSUME NEW c \in Callers, RevokeRefreshToken(c)
      PROVE  Registers \/ \E k \in Tokens : Demotes(k, "revoked")
  BY <1>6 DEF RevokeRefreshToken, Revoked, Registers, Demotes, AuthTypeOK, Call
<1>7. ASSUME NEW c \in Callers, DeleteUser(c), ~Refuse(c)
      PROVE  \E u \in Accounts : Deletes(u)
  BY <1>7 DEF DeleteUser, Live, Deletes
<1>8. ASSUME NEW c \in Callers, UserByEmail(c) \/ AppendAuditEvent(c) \/ UpdateProfile(c)
      PROVE  Registers
  BY <1>8 DEF UserByEmail, AppendAuditEvent, UpdateProfile, Refuse, Registers
<1>9. ASSUME NEW k \in Tokens, Expire(k)
      PROVE  Demotes(k, "expired")
  BY <1>9 DEF Expire, Demotes, Unrevoked
<1>10. QED
  BY <1>1, <1>2, <1>3, <1>4, <1>5, <1>6, <1>7, <1>8, <1>9 DEF AuthNext, Statement

-----------------------------------------------------------------------------
\* Sessions

\* The token a session is named after was issued before any other of it.
SessionsAreRooted ==
  \A k \in Tokens : token[k].row # "absent" =>
    /\ token[k].session \in Tokens
    /\ token[token[k].session].row # "absent"

SessionInv == AuthTypeOK /\ SessionsAreRooted /\ OneCurrentTokenPerSession

LEMMA SessionStep ==
  ASSUME SessionInv, [AuthNext]_authVars
  PROVE  SessionInv'
<1> USE DEF SessionInv
<1>1. AuthTypeOK'
  BY AuthTypeStep
<1>2. SessionsAreRooted' /\ OneCurrentTokenPerSession'
  <2>1. CASE Registers
    BY <2>1 DEF Registers, SessionsAreRooted, OneCurrentTokenPerSession, Current, Unrevoked
  <2>2. ASSUME NEW u \in Accounts, NEW k \in Tokens, Issues(u, k)
        PROVE  SessionsAreRooted' /\ OneCurrentTokenPerSession'
    BY <2>2 DEF Issues, Fresh, AuthTypeOK, SessionsAreRooted, OneCurrentTokenPerSession,
                Current, Unrevoked
  <2>3. ASSUME NEW k \in Tokens, NEW next \in Tokens, Replaces(k, next)
        PROVE  SessionsAreRooted' /\ OneCurrentTokenPerSession'
    BY <2>3 DEF Replaces, Fresh, AuthTypeOK, Marked, SessionsAreRooted,
                OneCurrentTokenPerSession, Current, Unrevoked
  <2>4. ASSUME NEW k \in Tokens, NEW row \in {"expired", "revoked"}, Demotes(k, row)
        PROVE  SessionsAreRooted' /\ OneCurrentTokenPerSession'
    BY <2>4 DEF Demotes, AuthTypeOK, Marked, SessionsAreRooted,
                OneCurrentTokenPerSession, Current, Unrevoked
  <2>5. ASSUME NEW u \in Accounts, Deletes(u)
        PROVE  SessionsAreRooted' /\ OneCurrentTokenPerSession'
    BY <2>5 DEF Deletes, Cascade, AuthTypeOK, Marked, SessionsAreRooted,
                OneCurrentTokenPerSession, Current, Unrevoked
  <2>6. QED
    BY <2>1, <2>2, <2>3, <2>4, <2>5, StepKinds
<1>3. QED
  BY <1>1, <1>2

LEMMA SessionInit ==
  AuthInit => SessionInv
BY AuthTypeInit DEF AuthInit, SessionInv, SessionsAreRooted, OneCurrentTokenPerSession,
                    Current, Unrevoked

\* However calls race, a session has at most one token that a refresh would take.
THEOREM OneCurrentToken ==
  AuthSpec => []OneCurrentTokenPerSession
<1>1. SessionInv /\ [AuthNext]_authVars => SessionInv'
  BY SessionStep
<1>2. SessionInv => OneCurrentTokenPerSession
  BY DEF SessionInv
<1>3. QED
  BY <1>1, <1>2, SessionInit, PTL DEF AuthSpec

LEMMA AccountStep ==
  ASSUME AuthTypeOK, TokensNeedAccount, [AuthNext]_authVars
  PROVE  TokensNeedAccount'
<1> USE DEF TokensNeedAccount, Live
<1>1. CASE Registers
  BY <1>1 DEF Registers, AuthTypeOK
<1>2. ASSUME NEW u \in Accounts, NEW k \in Tokens, Issues(u, k)
      PROVE  TokensNeedAccount'
  BY <1>2 DEF Issues, AuthTypeOK
<1>3. ASSUME NEW k \in Tokens, NEW next \in Tokens, Replaces(k, next)
      PROVE  TokensNeedAccount'
  BY <1>3 DEF Replaces, AuthTypeOK, Marked, Unrevoked
<1>4. ASSUME NEW k \in Tokens, NEW row \in {"expired", "revoked"}, Demotes(k, row)
      PROVE  TokensNeedAccount'
  BY <1>4 DEF Demotes, AuthTypeOK, Marked, Unrevoked
<1>5. ASSUME NEW u \in Accounts, Deletes(u)
      PROVE  TokensNeedAccount'
  BY <1>5 DEF Deletes, Cascade, AuthTypeOK, Marked
<1>6. QED
  BY <1>1, <1>2, <1>3, <1>4, <1>5, StepKinds

LEMMA AccountInit ==
  AuthInit => TokensNeedAccount
BY DEF AuthInit, TokensNeedAccount

\* Tokens go with their account, and none is issued for one that is gone.
THEOREM NoTokenOutlivesItsAccount ==
  AuthSpec => []TokensNeedAccount
<1>1. AuthTypeOK /\ TokensNeedAccount /\ [AuthNext]_authVars => TokensNeedAccount'
  BY AccountStep
<1>2. QED
  BY <1>1, AccountInit, AuthTypes, PTL DEF AuthSpec

\* No step brings back a session whose tokens are all revoked.
LEMMA EndedStep ==
  ASSUME AuthTypeOK, [AuthNext]_authVars, NEW s \in Tokens,
         token[s].row # "absent", Current(s) = {}
  PROVE  Current(s)' = {}
<1> USE DEF Current, Unrevoked
<1>1. CASE Registers
  BY <1>1 DEF Registers
<1>2. ASSUME NEW u \in Accounts, NEW k \in Tokens, Issues(u, k)
      PROVE  Current(s)' = {}
  BY <1>2 DEF Issues, Fresh, AuthTypeOK
<1>3. ASSUME NEW k \in Tokens, NEW next \in Tokens, Replaces(k, next)
      PROVE  Current(s)' = {}
  BY <1>3 DEF Replaces, Fresh, AuthTypeOK, Marked
<1>4. ASSUME NEW k \in Tokens, NEW row \in {"expired", "revoked"}, Demotes(k, row)
      PROVE  Current(s)' = {}
  BY <1>4 DEF Demotes, AuthTypeOK, Marked
<1>5. ASSUME NEW u \in Accounts, Deletes(u)
      PROVE  Current(s)' = {}
  BY <1>5 DEF Deletes, Cascade, AuthTypeOK, Marked
<1>6. QED
  BY <1>1, <1>2, <1>3, <1>4, <1>5, StepKinds

\* A late or repeated refresh never revives a session that was ended.
THEOREM NoSessionIsRevived ==
  AuthSpec => EndedSessionsStayEnded
<1>1. AuthTypeOK /\ [AuthNext]_authVars =>
        [\A s \in Tokens :
           token[s].row # "absent" /\ Current(s) = {} => Current(s)' = {}]_authVars
  BY EndedStep
<1>2. QED
  BY <1>1, AuthTypes, PTL DEF AuthSpec, EndedSessionsStayEnded

-----------------------------------------------------------------------------
\* The dashboard is one client of the service

CallsAreKnown ==
  \A c \in Callers : /\ call[c].token \in Issued \union {None}
                     /\ call[c].account \in Known \union {None}

StoredIsKnown ==
  /\ stored.token \in Tokens => stored.token \in Issued
  /\ stored.account \in Accounts => stored.account \in Known

\* What was issued, and what was registered, never becomes unknown again.
LEMMA RowsStay ==
  ASSUME AuthTypeOK, [AuthNext]_authVars
  PROVE  Issued \subseteq Issued' /\ Known \subseteq Known'
<1> USE DEF Issued, Known
<1>1. CASE Registers
  BY <1>1 DEF Registers, AuthTypeOK
<1>2. ASSUME NEW u \in Accounts, NEW k \in Tokens, Issues(u, k)
      PROVE  Issued \subseteq Issued' /\ Known \subseteq Known'
  BY <1>2 DEF Issues, Fresh, AuthTypeOK
<1>3. ASSUME NEW k \in Tokens, NEW next \in Tokens, Replaces(k, next)
      PROVE  Issued \subseteq Issued' /\ Known \subseteq Known'
  BY <1>3 DEF Replaces, Fresh, AuthTypeOK, Marked
<1>4. ASSUME NEW k \in Tokens, NEW row \in {"expired", "revoked"}, Demotes(k, row)
      PROVE  Issued \subseteq Issued' /\ Known \subseteq Known'
  BY <1>4 DEF Demotes, AuthTypeOK, Marked
<1>5. ASSUME NEW u \in Accounts, Deletes(u)
      PROVE  Issued \subseteq Issued' /\ Known \subseteq Known'
  BY <1>5 DEF Deletes, Cascade, AuthTypeOK, Marked
<1>6. QED
  BY <1>1, <1>2, <1>3, <1>4, <1>5, StepKinds

LEMMA RequestsAreKnown ==
  ASSUME NEW request \in Requests
  PROVE  request.token \in Issued \union {None} /\ request.account \in Known \union {None}
BY DEF Requests, SignIn, WithToken, AsUser, CallRecord

LEMMA ReachIsKnown ==
  ASSUME AuthTypeOK, [AuthNext]_authVars, CallsAreKnown, NEW c \in Callers, NEW at,
         NEW u \in (Known \union {None})', NEW k \in (Issued \union {None})',
         Reach(c, at, u, k)
  PROVE  CallsAreKnown'
BY RowsStay DEF Reach, CallRecord, CallsAreKnown, AuthTypeOK

\* A call names accounts and tokens that exist, or once did.
LEMMA KnownStep ==
  ASSUME AuthTypeOK, CallsAreKnown, TokensNeedAccount, [AuthNext]_authVars
  PROVE  CallsAreKnown'
<1>1. CASE UNCHANGED authVars
  BY <1>1 DEF authVars, CallsAreKnown, Issued, Known
<1>2. ASSUME NEW c \in Callers, NEW request \in Requests, Begin(c, request)
      PROVE  CallsAreKnown'
  BY <1>2, RequestsAreKnown, RowsStay DEF Begin, CallsAreKnown, AuthTypeOK
<1>3. ASSUME NEW c \in Callers, Refuse(c)
      PROVE  CallsAreKnown'
  BY <1>3, ReachIsKnown DEF Refuse
<1>4. ASSUME NEW c \in Callers, Statement(c), ~Refuse(c)
      PROVE  CallsAreKnown'
  <2>1. CASE CreateUser(c)
    <3>1. PICK u \in Accounts :
            /\ account' = [account EXCEPT ![u] = [row |-> "live", email |-> call[c].email]]
            /\ Reach(c, "insert_token", u, None)
      BY <1>4, <2>1 DEF CreateUser
    <3>2. u \in Known'
      BY <3>1 DEF Known, AuthTypeOK
    <3>3. QED
      BY <3>1, <3>2, ReachIsKnown
  <2>2. CASE UserByEmail(c)
    <3>1. PICK u \in Holder(call[c].email) : Reach(c, "insert_token", u, None)
      BY <1>4, <2>2 DEF UserByEmail
    <3>2. QED
      BY <3>1, RowsStay, ReachIsKnown DEF Holder, Known
  <2>3. CASE CreateRefreshToken(c)
    <3>1. PICK k \in Fresh :
            /\ token' = [token EXCEPT ![k] =
                 [row |-> "usable", account |-> call[c].account, session |-> k]]
            /\ Reach(c, "audit", call[c].account, k)
      BY <1>4, <2>3 DEF CreateRefreshToken
    <3>2. k \in Issued'
      BY <3>1 DEF Fresh, Issued, AuthTypeOK
    <3>3. QED
      BY <3>1, <3>2, RowsStay, ReachIsKnown DEF CallsAreKnown
  <2>4. CASE AppendAuditEvent(c)
    BY <1>4, <2>4, RowsStay, ReachIsKnown DEF AppendAuditEvent, Succeed, CallsAreKnown
  <2>5. CASE RotateRefreshToken(c)
    <3> DEFINE k == call[c].token
    <3>1. k \in Tokens /\ Unrevoked(k)
      BY <1>4, <2>5 DEF RotateRefreshToken, Rotatable, AuthTypeOK, Call
    <3>2. PICK next \in Fresh :
            /\ token' = [token EXCEPT ![k] = Marked(k, "revoked"),
                                      ![next] = Marked(k, "usable")]
            /\ Succeed(c, token[k].account, next)
      BY <1>4, <2>5 DEF RotateRefreshToken
    <3>3. next \in Issued'
      BY <3>2 DEF Fresh, Issued, Marked, AuthTypeOK
    <3>4. token[k].account \in Known
      BY <3>1 DEF TokensNeedAccount, Live, Unrevoked, Known
    <3>5. QED
      BY <3>2, <3>3, <3>4, RowsStay, ReachIsKnown DEF Succeed
  <2>6. CASE RevokeRefreshToken(c)
    BY <2>6, ReachIsKnown DEF RevokeRefreshToken, Succeed
  <2>7. CASE UpdateProfile(c)
    BY <1>4, <2>7, RowsStay, ReachIsKnown DEF UpdateProfile, Succeed, CallsAreKnown
  <2>8. CASE DeleteUser(c)
    BY <1>4, <2>8, ReachIsKnown DEF DeleteUser, Succeed
  <2>9. QED
    BY <1>4, <2>1, <2>2, <2>3, <2>4, <2>5, <2>6, <2>7, <2>8 DEF Statement
<1>5. ASSUME NEW c \in Callers, End(c)
      PROVE  CallsAreKnown'
  BY <1>5, RowsStay DEF End, NoCall, CallRecord, CallsAreKnown, AuthTypeOK
<1>6. ASSUME NEW k \in Tokens, Expire(k)
      PROVE  CallsAreKnown'
  BY <1>6, RowsStay DEF Expire, CallsAreKnown
<1>7. QED
  BY <1>1, <1>2, <1>3, <1>4, <1>5, <1>6 DEF AuthNext, Fail, Lose

LEMMA KnownInit ==
  AuthInit => CallsAreKnown
BY DEF AuthInit, CallsAreKnown, NoCall, CallRecord

\* What a step of the dashboard relies on: how its variables are typed is not part of it.
ClientInv == AuthTypeOK /\ TokensNeedAccount /\ CallsAreKnown /\ StoredIsKnown

\* A tab asks the service only for what the service may be asked.
LEMMA AskStep ==
  ASSUME NEW t \in Tabs, NEW request, NEW view, Ask(t, request, view),
         request \in Requests \/ tab[t].backend = "mock"
  PROVE  [AuthNext]_authVars
<1>1. PICK backend \in Probed(t) :
        IF backend = "mock" THEN UNCHANGED authVars ELSE Begin(t, request)
  BY DEF Ask
<1>2. CASE backend = "mock"
  BY <1>1, <1>2
<1>3. CASE backend # "mock"
  <2>1. request \in Requests
    BY <1>3 DEF Probed
  <2>2. QED
    BY <1>1, <1>3, <2>1 DEF AuthNext, Tabs
<1>4. QED
  BY <1>2, <1>3

LEMMA StoredTokenIsKnown ==
  ASSUME ClientInv, NEW op \in {"refresh", "logout"}
  PROVE  WithToken(op, Presented(stored.token)) \in Requests
BY DEF ClientInv, StoredIsKnown, Presented, Requests

LEMMA DashboardStepIsAuthStep ==
  ASSUME ClientInv, [DashboardNext]_dashboardVars
  PROVE  [AuthNext]_authVars
<1>1. CASE UNCHANGED dashboardVars
  BY <1>1 DEF dashboardVars
<1>2. ASSUME NEW t \in Tabs, Open(t)
      PROVE  [AuthNext]_authVars
  <2>1. CASE stored.token = None
    BY <1>2, <2>1 DEF Open
  <2>2. CASE stored.token # None
    BY <1>2, <2>2, AskStep, StoredTokenIsKnown DEF Open
  <2>3. QED
    BY <2>1, <2>2
<1>3. ASSUME NEW t \in Tabs, SubmitForm(t)
      PROVE  [AuthNext]_authVars
  <2>1. PICK op \in {"register", "login"}, email \in Emails : Ask(t, SignIn(op, email), "ready")
    BY <1>3 DEF SubmitForm
  <2>2. SignIn(op, email) \in Requests
    BY DEF Requests
  <2>3. QED
    BY <2>1, <2>2, AskStep
<1>4. ASSUME NEW t \in Tabs, Logout(t)
      PROVE  [AuthNext]_authVars
  <2>1. CASE stored.token = None
    BY <1>4, <2>1 DEF Logout
  <2>2. CASE stored.token # None
    BY <1>4, <2>2, AskStep, StoredTokenIsKnown DEF Logout
  <2>3. QED
    BY <2>1, <2>2
<1>5. ASSUME NEW t \in Tabs, EditProfile(t)
      PROVE  [AuthNext]_authVars
  <2> DEFINE u == IF stored.account \in Accounts THEN stored.account ELSE None
  <2>1. PICK op \in {"update_profile", "delete_profile"} :
          /\ stored.account \in Accounts \/ tab[t].backend = "mock"
          /\ Ask(t, AsUser(op, u), "ready")
    BY <1>5 DEF EditProfile
  <2>2. AsUser(op, u) \in Requests \/ tab[t].backend = "mock"
    BY <2>1 DEF Requests, ClientInv, StoredIsKnown
  <2>3. QED
    BY <2>1, <2>2, AskStep
<1>6. ASSUME NEW t \in Tabs, End(t)
      PROVE  [AuthNext]_authVars
  BY <1>6 DEF AuthNext, Tabs
<1>7. ASSUME NEW t \in Tabs, AccountDeleted(t)
      PROVE  [AuthNext]_authVars
  <2>1. CASE stored.token = None
    BY <1>6, <1>7, <2>1 DEF AccountDeleted
  <2>2. CASE stored.token # None
    BY <1>7, <2>2, StoredTokenIsKnown DEF AccountDeleted, AuthNext, Tabs
  <2>3. QED
    BY <2>1, <2>2
<1>8. ASSUME NEW t \in Tabs,
             \/ SessionArrives(t) \/ RefreshRefused(t) \/ LogoutAnswered(t)
             \/ ProfileArrives(t) \/ ErrorShown(t) \/ Close(t)
      PROVE  [AuthNext]_authVars
  BY <1>6, <1>8 DEF SessionArrives, RefreshRefused, LogoutAnswered, ProfileArrives,
                    ErrorShown, Close
<1>9. ASSUME NEW t \in Tabs, MockAnswer(t)
      PROVE  [AuthNext]_authVars
  BY <1>9 DEF MockAnswer
<1>10. ASSUME NEW t \in Tabs, Serve(t) \/ Fault(t)
       PROVE  [AuthNext]_authVars
  BY <1>10 DEF Serve, Fault, AuthNext, Tabs
<1>11. ASSUME NEW k \in Tokens, Lapse(k)
       PROVE  [AuthNext]_authVars
  BY <1>11 DEF Lapse, AuthNext
<1>12. QED
  BY <1>1, <1>2, <1>3, <1>4, <1>5, <1>7, <1>8, <1>9, <1>10, <1>11 DEF DashboardNext

\* What is stored is what it was, nothing, the demo pair, or an answer's session.
LEMMA StoredStep ==
  ASSUME [DashboardNext]_dashboardVars
  PROVE  \/ stored' \in {stored, NoPair, DemoPair}
         \/ \E t \in Tabs : stored' = [account |-> call[t].account, token |-> call[t].token]
<1> USE DEF SignOutHere, StoreSession, clientVars
<1>1. CASE UNCHANGED dashboardVars
  BY <1>1 DEF dashboardVars
<1>2. ASSUME NEW t \in Tabs,
             \/ Open(t) \/ SubmitForm(t) \/ Logout(t) \/ EditProfile(t) \/ Close(t)
             \/ RefreshRefused(t) \/ LogoutAnswered(t) \/ ProfileArrives(t)
             \/ AccountDeleted(t) \/ ErrorShown(t)
      PROVE  stored' \in {stored, NoPair, DemoPair}
  BY <1>2 DEF Open, SubmitForm, Logout, EditProfile, Close, RefreshRefused, LogoutAnswered,
              ProfileArrives, AccountDeleted, ErrorShown
<1>3. ASSUME NEW t \in Tabs, MockAnswer(t)
      PROVE  stored' \in {stored, NoPair, DemoPair}
  BY <1>3 DEF MockAnswer
<1>4. ASSUME NEW t \in Tabs, Serve(t) \/ Fault(t)
      PROVE  stored' = stored
  BY <1>4 DEF Serve, Fault
<1>5. ASSUME NEW t \in Tabs, SessionArrives(t)
      PROVE  stored' = [account |-> call[t].account, token |-> call[t].token]
  BY <1>5 DEF SessionArrives
<1>6. ASSUME NEW k \in Tokens, Lapse(k)
      PROVE  stored' = stored
  BY <1>6 DEF Lapse
<1>7. QED
  BY <1>1, <1>2, <1>3, <1>4, <1>5, <1>6 DEF DashboardNext

LEMMA ClientStep ==
  ASSUME ClientInv, [DashboardNext]_dashboardVars
  PROVE  ClientInv'
<1>1. [AuthNext]_authVars
  BY DashboardStepIsAuthStep
<1>2. (AuthTypeOK /\ TokensNeedAccount /\ CallsAreKnown)'
  BY <1>1, AuthTypeStep, AccountStep, KnownStep DEF ClientInv
<1>3. Issued \subseteq Issued' /\ Known \subseteq Known'
  BY <1>1, RowsStay DEF ClientInv
<1>4. StoredIsKnown'
  <2>1. CASE stored' \in {stored, NoPair, DemoPair}
    BY <1>3, <2>1, AuthAssumption, DashboardAssumption
    DEF ClientInv, StoredIsKnown, NoPair, DemoPair
  <2>2. ASSUME NEW t \in Tabs, stored' = [account |-> call[t].account, token |-> call[t].token]
        PROVE  StoredIsKnown'
    BY <1>3, <2>2, AuthAssumption DEF ClientInv, StoredIsKnown, CallsAreKnown, Tabs
  <2>3. QED
    BY <2>1, <2>2, StoredStep
<1>5. QED
  BY <1>2, <1>4 DEF ClientInv

\* Tabs, the mock and lost answers included, the dashboard does nothing to the
\* service that a client of it may not do.
THEOREM DashboardIsAClient ==
  DashboardSpec => AuthSpec
<1>1. DashboardInit => AuthInit /\ ClientInv
  BY AuthTypeInit, AccountInit, KnownInit, AuthAssumption
  DEF DashboardInit, ClientInv, StoredIsKnown, NoPair
<1>2. ClientInv /\ [DashboardNext]_dashboardVars => ClientInv' /\ [AuthNext]_authVars
  BY ClientStep, DashboardStepIsAuthStep
<1>3. QED
  BY <1>1, <1>2, PTL DEF DashboardSpec, AuthSpec
=============================================================================
