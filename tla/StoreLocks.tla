------------------------------ MODULE StoreLocks ------------------------------
(***************************************************************************)
(* The row locks and pool connections that the transactions of             *)
(* services/enrollment/internal/infrastructure/postgres/store.go hold      *)
(* while they run, which WillStore folds into single steps.                *)
(*                                                                         *)
(* A transaction keeps one connection and takes its locks one by one, in   *)
(* the order of its statements; a SELECT ... FOR UPDATE over a join locks  *)
(* the tables in the order of its FROM clause.  An insertion share-locks   *)
(* the rows its foreign keys refer to, in the order of the columns.        *)
(* Postgres aborts one of a circle of transactions that wait for each      *)
(* other.  WillHistory asks the pool for a second connection while it      *)
(* reads from the first.                                                   *)
(*                                                                         *)
(* Rows are the owner's account, the live will and its round, a deleted    *)
(* will and its round, and a notification.  A lock taken again is not      *)
(* listed twice, and those on trustees are left out: who takes one has the *)
(* owner's account.  Which will is live does not change under the calls.   *)
(***************************************************************************)
EXTENDS Integers, FiniteSets, Sequences

CONSTANTS
  Owners,        \* accounts with a will and an open round
  Callers,       \* goroutines: requests, and the lifecycle worker
  MaxConns       \* connections of the pool

ASSUME LockAssumption == IsFiniteSet(Callers) /\ MaxConns \in Nat \ {0}

\* "update": an edit or deletion of the will, an insertion or change of a trustee,
\* a sweep's transition.  "mark": MarkSent or MarkFailed.
Operations == {"create_will", "update", "delete_trustee", "heartbeat", "decide",
               "enqueue", "mark", "history", "delete_account"}

\* actor: the account of the trustee who decides; the second owner a sweep's
\* notifications are about (those of one owner are that up to its Cancel).
\* old: the owners of whom it is the deleted will that is decided or notified of.
Call == [op : Operations, owner : Owners, actor : Owners, old : SUBSET Owners]

Idle == [op |-> "idle"]

VARIABLES
  call,     \* what each caller runs
  conns,    \* the connections it holds
  taken     \* how many of its locks it has

lockVars == <<call, conns, taken>>

-----------------------------------------------------------------------------
\* Locks

X(row, o) == [row |-> row, owner |-> o, exclusive |-> TRUE]

S(row, o) == [row |-> row, owner |-> o, exclusive |-> FALSE]

OwnerRows_MutantUserFirst(o) == <<X("user", o), X("will", o)>>

\* loadWill ... FOR UPDATE: digital_wills JOIN users
OwnerRows(o) == <<X("will", o), X("user", o)>>

\* A restored will's round is cancelled after that.
HeartbeatRows(o) == Append(OwnerRows(o), X("round", o))

\* notifications.trustee_id is ON DELETE SET NULL.
TrusteeRows(o) == Append(OwnerRows(o), X("notice", o))

\* verification_requests JOIN digital_wills JOIN users, then the response's actor.
DecisionRows(o, actor, deleted) ==
  (IF deleted THEN <<X("old_round", o), X("old_will", o)>> ELSE <<X("round", o), X("will", o)>>)
    \o <<X("user", o), S("user", actor)>>

\* A notification's own will and owner; then its audit row, of the live will.
NotificationRows(o, deleted) ==
  IF deleted THEN <<S("old_will", o), S("user", o), S("will", o)>>
             ELSE <<S("will", o), S("user", o)>>

MarkRows_MutantLoadsForUpdate(o) == <<X("notice", o), X("will", o), X("user", o)>>

\* The audit row of a mark names the owner before the live will.
MarkRows(o) == <<X("notice", o), S("user", o), S("will", o)>>

\* DELETE FROM users, and its cascades.
AccountRows(o) == <<X("user", o), X("old_will", o), X("will", o), X("old_round", o),
                    X("round", o), X("notice", o)>>

\* The locks an operation takes, in order.
Locks(c) ==
  CASE c.op = "create_will"    -> <<S("user", c.owner)>>
    [] c.op = "update"         -> OwnerRows(c.owner)
    [] c.op = "heartbeat"      -> HeartbeatRows(c.owner)
    [] c.op = "delete_trustee" -> TrusteeRows(c.owner)
    [] c.op = "decide"         -> DecisionRows(c.owner, c.actor, c.owner \in c.old)
    [] c.op = "enqueue"        -> NotificationRows(c.owner, c.owner \in c.old)
                                    \o NotificationRows(c.actor, c.actor \in c.old)
    [] c.op = "mark"           -> MarkRows(c.owner)
    [] c.op = "history"        -> <<>>
    [] c.op = "delete_account" -> AccountRows(c.owner)

Running == {p \in Callers : call[p] # Idle}

Held(p) == {Locks(call[p])[i] : i \in 1 .. taken[p]}

Conflict(a, b) == a.row = b.row /\ a.owner = b.owner /\ (a.exclusive \/ b.exclusive)

Finished(p) == taken[p] = Len(Locks(call[p]))

\* It has a connection to send its next statement over.
Connected(p) == conns[p] > 0 \/ call[p].op = "delete_account"

\* Is p kept from its next lock by one that q holds?
WaitsFor(p, q) ==
  /\ {p, q} \subseteq Running /\ p # q
  /\ Connected(p) /\ ~Finished(p)
  /\ \E held \in Held(q) : Conflict(Locks(call[p])[taken[p] + 1], held)

Waits == {edge \in Callers \X Callers : WaitsFor(edge[1], edge[2])}

\* Does p wait for q, directly or through others?  Every set of callers that
\* lacks q lacks someone for whom p or one of them waits.
Reaches(waits, p, q) ==
  \A set \in SUBSET (Callers \ {q}) :
    \E edge \in waits : edge[1] \in set \union {p} /\ edge[2] \notin set

Deadlocked == LET waits == Waits IN {p \in Callers : Reaches(waits, p, p)}

\* Those p is in a circle with.
Circle(p) ==
  LET waits == Waits IN {q \in Callers : Reaches(waits, p, q) /\ Reaches(waits, q, p)}

-----------------------------------------------------------------------------
\* Connections

InUse == {c \in Callers \X (1 .. 2) : c[2] <= conns[c[1]]}

FreeConns == MaxConns - Cardinality(InUse)

Needed_MutantCategoriesFromPool(c) == CASE c.op \in {"history", "update"} -> 2
                                        [] c.op = "delete_account" -> 0
                                        [] OTHER -> 1

\* WillHistory reads the categories of each version through the pool, inside the
\* loop over the versions; every transaction reads them on its own connection.
\* An account is deleted over a connection of the authentication service.
Needed(c) == CASE c.op = "history" -> 2
               [] c.op = "delete_account" -> 0
               [] OTHER -> 1

-----------------------------------------------------------------------------
\* Steps

Begin(p, c) ==
  /\ call[p] = Idle
  /\ call' = [call EXCEPT ![p] = c]
  /\ UNCHANGED <<conns, taken>>

Connect(p) ==
  /\ p \in Running /\ conns[p] = 0 /\ Needed(call[p]) > 0
  /\ FreeConns > 0
  /\ conns' = [conns EXCEPT ![p] = 1]
  /\ UNCHANGED <<call, taken>>

TakeLock(p) ==
  /\ p \in Running /\ Connected(p) /\ ~Finished(p)
  /\ \A q \in Callers : ~WaitsFor(p, q)
  /\ taken' = [taken EXCEPT ![p] = @ + 1]
  /\ UNCHANGED <<call, conns>>

ConnectAgain(p) ==
  /\ p \in Running /\ Finished(p)
  /\ conns[p] = 1 /\ Needed(call[p]) = 2
  /\ FreeConns > 0
  /\ conns' = [conns EXCEPT ![p] = 2]
  /\ UNCHANGED <<call, taken>>

Leave_MutantNoRollback(p) ==
  /\ call' = [call EXCEPT ![p] = Idle]
  /\ taken' = [taken EXCEPT ![p] = 0]
  /\ UNCHANGED conns

\* Commit or rollback: locks and connections go together.
Leave(p) ==
  /\ call' = [call EXCEPT ![p] = Idle]
  /\ conns' = [conns EXCEPT ![p] = 0]
  /\ taken' = [taken EXCEPT ![p] = 0]

Commit(p) ==
  /\ p \in Running /\ Finished(p) /\ conns[p] = Needed(call[p])
  /\ Leave(p)

\* Postgres breaks a deadlock: the statement fails and the call rolls back.
Abort == \E p \in Deadlocked : Leave(p)

\* The client goes away, or the database fails.
Cancel(p) == p \in Running /\ Leave(p)

LockInit ==
  /\ call = [p \in Callers |-> Idle]
  /\ conns = [p \in Callers |-> 0]
  /\ taken = [p \in Callers |-> 0]

\* Nobody is a trustee of their own will.
Asked ==
  {c \in Call : /\ c.op \in {"decide", "enqueue"} <=> c.actor # c.owner
                /\ c.old # {} => \/ c.op = "decide" /\ c.old = {c.owner}
                                 \/ c.op = "enqueue" /\ c.old \subseteq {c.owner, c.actor}}

LockNext ==
  \/ \E p \in Callers :
       \/ \E c \in Asked : Begin(p, c)
       \/ Connect(p) \/ TakeLock(p) \/ ConnectAgain(p)
       \/ Commit(p) \/ Cancel(p)
  \/ Abort

LockSpec == LockInit /\ [][LockNext]_lockVars

-----------------------------------------------------------------------------
\* Properties

LockTypeOK ==
  /\ call \in [Callers -> Asked \union {Idle}]
  /\ \A p \in Running : conns[p] \in 0 .. Needed(call[p]) /\ taken[p] \in 0 .. Len(Locks(call[p]))
  /\ \A p \in Callers \ Running : conns[p] = 0 /\ taken[p] = 0
  /\ FreeConns >= 0

\* The calls that do not lock the live will first of all they hold.
Inverted(c) == c.op \in {"decide", "mark", "delete_account"} \/ (c.op = "enqueue" /\ c.old # {})

\* An owner's calls, the sweep's transitions and the notifications of live wills
\* never deadlock with each other: every circle has a trustee's decision, the
\* deletion of an account, the mark of a notification, or one of a deleted will.
CirclesHaveAnInversion ==
  \A p \in Deadlocked : \E q \in Circle(p) : Inverted(call[q])

\* The goroutines that queue and mark notifications never deadlock with each
\* other, whatever wills they are about and in whatever order: every circle has a
\* call that locks a will or an account for itself.
DeliveriesDoNotDeadlock ==
  \A p \in Deadlocked : \E q \in Circle(p) : call[q].op \notin {"enqueue", "mark", "create_will"}

MayProceed(p) ==
  \/ conns[p] < Needed(call[p]) /\ (conns[p] = 0 \/ Finished(p)) /\ FreeConns > 0
  \/ Connected(p) /\ ~Finished(p) /\ \A q \in Callers : ~WaitsFor(p, q)
  \/ Finished(p) /\ conns[p] = Needed(call[p])
  \/ p \in Deadlocked

\* Reading histories is the one thing that can stop the service: calls wait for
\* ever only when each connection is held by a WillHistory that waits for another.
Exhausted ==
  /\ FreeConns = 0
  /\ \A p \in Callers : conns[p] > 0 => call[p].op = "history" /\ conns[p] = 1

StuckOnlyOnHistories ==
  Running # {} /\ (\A p \in Running : ~MayProceed(p)) => Exhausted
=============================================================================
