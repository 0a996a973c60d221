------------------------- MODULE NotificationQueue -------------------------
(***************************************************************************)
(* The notification queue of the enrollment service: what a lifecycle      *)
(* transition does after its own transaction has committed.                *)
(*                                                                         *)
(* Three pieces of service.go commit transitions that owe messages: the    *)
(* worker's tick, a heartbeat that restores a will, and the response that  *)
(* completes a majority.  Each then composes its messages, inserts them in *)
(* a second transaction (Enqueue) and runs deliverPending: an unlocked     *)
(* read of the queued rows, and Send and MarkSent or MarkFailed for each   *)
(* of them.  Worker and requests run at once, each a goroutine here.       *)
(*                                                                         *)
(* When a transition is due is left open: WillStore says.  Trustees only   *)
(* leave here: one added later is told of no earlier transition.  The will *)
(* an owner makes after deleting one matters by the trustee edits it lets  *)
(* through, and the order of the rows (ORDER BY queued_at) is left open.   *)
(***************************************************************************)
EXTENDS Integers, FiniteSets

CONSTANTS
  Wills,         \* one per owner
  Leavers,       \* wills whose owner may delete the will or the account
  Editors,       \* wills whose owner may delete trustees
  Trustees,      \* of each will at first
  Owner,         \* as a recipient
  Handlers,      \* requests served at the same time
  Worker,        \* the lifecycle worker's goroutine
  WorkerLimit,   \* deliverPending's limit for the worker: 50
  RequestLimit,  \* and for a request: 20
  Faults,        \* do calls fail and processes crash
  None,          \* no message
  MaxNews,       \* bound: transitions of a will that owe messages
  MaxMail        \* bound: copies of one message the mail server takes

ASSUME QueueAssumption ==
  /\ Leavers \subseteq Wills /\ Editors \subseteq Wills
  /\ Owner \notin Trustees
  /\ IsFiniteSet(Handlers) /\ Worker \notin Handlers
  /\ WorkerLimit \in Nat /\ RequestLimit \in Nat
  /\ Faults \in BOOLEAN
  /\ MaxNews \in Nat /\ MaxMail \in Nat

Procs == Handlers \union {Worker}
Events == [will : Wills, number : 1..MaxNews]
Recipients == Trustees \union {Owner}
Notes == [event : Events, to : Recipients]

ASSUME NoneAssumption == None \notin Notes

Phases == {"active", "pending_verification", "grace_period", "ready_for_execution"}

\* "unwritten": never inserted; "purged": the row went with its owner's account.
Statuses == {"unwritten", "queued", "sent", "failed", "purged"}

VARIABLES
  phase,    \* lifecycle_state of each will
  row,      \* its row: live, deleted, or purged with the account
  panel,    \* the trustees it still has
  news,     \* how many of its transitions owed messages so far
  note,     \* status of each notification row
  mail,     \* how often the mail server has accepted each message
  step,     \* what each goroutine does next
  scan,     \* the worker's sweep: wills it still has to look at
  owed,     \* transitions a goroutine committed and has not queued
  batch,    \* the messages it composed of them
  list,     \* messages a goroutine read as queued and has not marked
  sending,  \* the message it has sent, or tried to
  editing   \* wills with trustee deletions under way past editableWill

lifecycle == <<phase, row, panel, news>>
tables == <<lifecycle, note>>
local == <<step, scan, owed, batch, list, sending>>
vars == <<tables, mail, local, editing>>

-----------------------------------------------------------------------------
NotesOf(E) == {n \in Notes : n.event \in E}

\* The messages of transitions as composed now: to owner and trustees.
Letters(E) == {n \in NotesOf(E) : n.to \in panel[n.event.will] \union {Owner}}

\* The foreign keys of the rows: the will, and the trustee it is addressed to.
Insertable(n) ==
  row[n.event.will] # "purged" /\ (n.to \in panel[n.event.will] \/ n.to = Owner)

Queued_MutantAnyStatus == {n \in Notes : note[n] \in {"queued", "sent", "failed"}}

\* Pending's WHERE clause.
Queued == {n \in Notes : note[n] = "queued"}

Limit(p) == IF p = Worker THEN WorkerLimit ELSE RequestLimit

\* The goroutine returns; what it held in memory is gone.
Return(p) ==
  /\ step' = [step EXCEPT ![p] = "idle"]
  /\ owed' = [owed EXCEPT ![p] = {}]
  /\ batch' = [batch EXCEPT ![p] = {}]
  /\ list' = [list EXCEPT ![p] = {}]
  /\ sending' = [sending EXCEPT ![p] = None]
  /\ scan' = IF p = Worker THEN {} ELSE scan

GoTo(p, s) == step' = [step EXCEPT ![p] = s]

Upcoming(w) == [will |-> w, number |-> news[w] + 1]

\* A transition that owes messages commits; p is to queue them.
Owe(p, w) ==
  /\ news[w] < MaxNews
  /\ news' = [news EXCEPT ![w] = @ + 1]
  /\ owed' = [owed EXCEPT ![p] = @ \union {Upcoming(w)}]

-----------------------------------------------------------------------------
\* Producers

\* TransitionOverdueWills scans the owners.
StartTick ==
  /\ step[Worker] = "idle"
  /\ scan' = {w \in Wills : row[w] = "live" /\ phase[w] \in {"active", "grace_period"}}
  /\ scan' # {}
  /\ GoTo(Worker, "sweep")
  /\ UNCHANGED <<tables, mail, owed, batch, list, sending, editing>>

\* transitionSingleWill: only the start of verification owes messages, to the
\* trustees its transaction reads.
SweepOne(w) ==
  /\ step[Worker] = "sweep" /\ w \in scan
  /\ row[w] = "live"
  /\ scan' = scan \ {w}
  /\ \/ /\ phase[w] = "active" /\ panel[w] # {}
        /\ phase' = [phase EXCEPT ![w] = "pending_verification"]
        /\ Owe(Worker, w)
        /\ batch' = [batch EXCEPT ![Worker] = @ \union Letters({Upcoming(w)})]
     \/ /\ phase[w] = "grace_period"
        /\ phase' = [phase EXCEPT ![w] = "ready_for_execution"]
        /\ UNCHANGED <<news, owed, batch>>
     \/ UNCHANGED <<phase, news, owed, batch>>
  /\ UNCHANGED <<row, panel, note, mail, step, list, sending, editing>>

\* A will of the scan is gone (ErrNotFound): the sweep returns no events.
SweepMissesWill ==
  /\ step[Worker] = "sweep"
  /\ \E w \in scan : row[w] # "live"
  /\ Return(Worker)
  /\ UNCHANGED <<tables, mail, editing>>

EndSweep_MutantForgets ==
  /\ step[Worker] = "sweep" /\ scan = {}
  /\ Return(Worker)
  /\ UNCHANGED <<tables, mail, editing>>

\* The tick goes on to Enqueue when the sweep produced messages.
EndSweep ==
  /\ step[Worker] = "sweep" /\ scan = {}
  /\ IF owed[Worker] = {}
     THEN Return(Worker)
     ELSE GoTo(Worker, "enqueue") /\ UNCHANGED <<scan, owed, batch, list, sending>>
  /\ UNCHANGED <<tables, mail, editing>>

\* SubmitHeartbeat restores a will; its messages are composed after Reread.
RestoringHeartbeat(p, w) ==
  /\ step[p] = "idle"
  /\ row[w] = "live" /\ phase[w] # "active"
  /\ phase' = [phase EXCEPT ![w] = "active"]
  /\ Owe(p, w)
  /\ GoTo(p, "reread")
  /\ UNCHANGED <<row, panel, note, mail, scan, batch, list, sending, editing>>

\* WillByUser and TrusteesByUser, after the transaction.
Reread(p) ==
  /\ step[p] = "reread"
  /\ IF \A e \in owed[p] : row[e.will] = "live"
     THEN /\ batch' = [batch EXCEPT ![p] = Letters(owed[p])]
          /\ GoTo(p, "enqueue")
          /\ UNCHANGED <<scan, owed, list, sending>>
     ELSE Return(p)
  /\ UNCHANGED <<tables, mail, editing>>

\* The response that completes a majority; a deleted will's round still counts.
DecisiveResponse(p, w) ==
  /\ step[p] = "idle"
  /\ row[w] # "purged" /\ phase[w] = "pending_verification" /\ panel[w] # {}
  /\ phase' = [phase EXCEPT ![w] = "grace_period"]
  /\ Owe(p, w)
  /\ batch' = [batch EXCEPT ![p] = Letters({Upcoming(w)})]
  /\ GoTo(p, "enqueue")
  /\ UNCHANGED <<row, panel, note, mail, scan, list, sending, editing>>

\* The rows are in: the goroutine goes on to deliverPending.
Queue(p) ==
  /\ note' = [n \in Notes |-> IF n \in batch[p] THEN "queued" ELSE note[n]]
  /\ owed' = [owed EXCEPT ![p] = {}]
  /\ batch' = [batch EXCEPT ![p] = {}]
  /\ GoTo(p, "pending")
  /\ UNCHANGED <<scan, list, sending>>

Enqueue_MutantDeliversAnyway(p) ==
  /\ step[p] = "enqueue"
  /\ IF \A n \in batch[p] : Insertable(n)
     THEN Queue(p)
     ELSE /\ list' = [list EXCEPT ![p] = batch[p]]
          /\ GoTo(p, "send")
          /\ UNCHANGED <<note, scan, owed, batch, sending>>
  /\ UNCHANGED <<lifecycle, mail, editing>>

Enqueue_MutantNoDelivery(p) ==
  /\ step[p] = "enqueue"
  /\ note' = [n \in Notes |-> IF n \in batch[p] THEN "queued" ELSE note[n]]
  /\ Return(p)
  /\ UNCHANGED <<lifecycle, mail, editing>>

\* One transaction for all the messages; a row that violates a foreign key
\* takes the other messages with it.
Enqueue(p) ==
  /\ step[p] = "enqueue"
  /\ IF \A n \in batch[p] : Insertable(n) THEN Queue(p) ELSE Return(p) /\ UNCHANGED note
  /\ UNCHANGED <<lifecycle, mail, editing>>

-----------------------------------------------------------------------------
\* deliverPending

AtMost(k, S) == IF Cardinality(S) <= k THEN {S}
                                      ELSE {T \in SUBSET S : Cardinality(T) = k}

Pending(p) ==
  /\ step[p] = "pending"
  /\ \E rows \in AtMost(Limit(p), Queued) :
       IF rows = {} THEN Return(p)
       ELSE /\ list' = [list EXCEPT ![p] = rows]
            /\ GoTo(p, "send")
            /\ UNCHANGED <<scan, owed, batch, sending>>
  /\ UNCHANGED <<tables, mail, editing>>

\* Send: delivered, or refused, or delivered and yet an error, as Quit comes
\* after the server has accepted the message.
Send(p, n) ==
  /\ step[p] = "send" /\ n \in list[p]
  /\ sending' = [sending EXCEPT ![p] = n]
  /\ \/ /\ mail[n] < MaxMail
        /\ mail' = [mail EXCEPT ![n] = @ + 1]
        /\ GoTo(p, "mark_sent") \/ GoTo(p, "mark_failed")
     \/ GoTo(p, "mark_failed") /\ UNCHANGED mail
  /\ UNCHANGED <<tables, scan, owed, batch, list, editing>>

\* MarkSent or MarkFailed finds no row and ends the delivery; or it updates the
\* row, whatever its status is by now, and the loop goes on.
Mark(p, s) ==
  LET n == sending[p] IN
  /\ IF note[n] = "purged"
     THEN Return(p) /\ UNCHANGED note
     ELSE /\ note' = [note EXCEPT ![n] = s]
          /\ IF list[p] = {n} THEN Return(p)
             ELSE /\ list' = [list EXCEPT ![p] = @ \ {n}]
                  /\ sending' = [sending EXCEPT ![p] = None]
                  /\ GoTo(p, "send")
                  /\ UNCHANGED <<scan, owed, batch>>
  /\ UNCHANGED <<lifecycle, mail, editing>>

MarkSent(p) == step[p] = "mark_sent" /\ Mark(p, "sent")

MarkFailed_MutantMarksSent(p) == step[p] = "mark_failed" /\ Mark(p, "sent")

MarkFailed_MutantUnknownStatus(p) == step[p] = "mark_failed" /\ Mark(p, "refused")

MarkFailed_MutantOnlyLogs(p) ==
  step[p] = "mark_failed" /\ Return(p) /\ UNCHANGED <<tables, mail, editing>>

MarkFailed(p) == step[p] = "mark_failed" /\ Mark(p, "failed")

-----------------------------------------------------------------------------
\* The rest of the system

\* DeleteWill is soft and leaves the notifications.
DeleteWill(w) ==
  /\ w \in Leavers /\ row[w] = "live"
  /\ row' = [row EXCEPT ![w] = "deleted"]
  /\ UNCHANGED <<phase, panel, news, note, mail, local, editing>>

\* Deleting the account cascades to the will and its notifications.
DeleteAccount(w) ==
  /\ w \in Leavers /\ row[w] # "purged"
  /\ row' = [row EXCEPT ![w] = "purged"]
  /\ note' = [n \in Notes |-> IF n.event.will = w /\ note[n] # "unwritten"
                              THEN "purged" ELSE note[n]]
  /\ UNCHANGED <<phase, panel, news, mail, local, editing>>

\* A trustee deletion passes its lifecycle check; others may pass it too.
EditableWill(w) ==
  /\ w \in Editors \ editing
  /\ row[w] = "live" /\ phase[w] = "active"
  /\ editing' = editing \union {w}
  /\ UNCHANGED <<tables, mail, local>>

\* The transaction finds a trustee by its owner, so the owner's next will lets
\* those of a deleted one go as well.  Their notifications stay.
DeleteTrustee(w, t) ==
  /\ w \in Editors
  /\ t \in panel[w]
  /\ (row[w] = "live" /\ w \in editing) \/ row[w] = "deleted"
  /\ panel' = [panel EXCEPT ![w] = @ \ {t}]
  /\ UNCHANGED <<phase, row, news, note, mail, local, editing>>

\* A database error, a cancelled request: the call returns the error.
Fail(p) ==
  /\ Faults /\ step[p] # "idle"
  /\ Return(p)
  /\ UNCHANGED <<tables, mail, editing>>

\* The server stops and starts again: the rows remain.
Crash ==
  /\ Faults
  /\ step' = [p \in Procs |-> "idle"]
  /\ scan' = {}
  /\ owed' = [p \in Procs |-> {}]
  /\ batch' = [p \in Procs |-> {}]
  /\ list' = [p \in Procs |-> {}]
  /\ sending' = [p \in Procs |-> None]
  /\ editing' = {}
  /\ UNCHANGED <<tables, mail>>

\* The server starts on a database whose wills may be in any stage.
Init ==
  /\ phase \in [Wills -> Phases]
  /\ row = [w \in Wills |-> "live"]
  /\ panel = [w \in Wills |-> Trustees]
  /\ news = [w \in Wills |-> 0]
  /\ note = [n \in Notes |-> "unwritten"]
  /\ mail = [n \in Notes |-> 0]
  /\ step = [p \in Procs |-> "idle"]
  /\ scan = {}
  /\ owed = [p \in Procs |-> {}]
  /\ batch = [p \in Procs |-> {}]
  /\ list = [p \in Procs |-> {}]
  /\ sending = [p \in Procs |-> None]
  /\ editing = {}

Produce ==
  \/ StartTick \/ SweepMissesWill \/ EndSweep
  \/ \E w \in Wills : \/ SweepOne(w)
                      \/ \E p \in Handlers : RestoringHeartbeat(p, w) \/ DecisiveResponse(p, w)
  \/ \E p \in Procs : Reread(p) \/ Enqueue(p)

Deliver(p) ==
  \/ Pending(p)
  \/ \E n \in Notes : Send(p, n)
  \/ MarkSent(p)
  \/ MarkFailed(p)

Next ==
  \/ Produce
  \/ \E p \in Procs : Deliver(p) \/ Fail(p)
  \/ \E w \in Wills : \/ DeleteWill(w) \/ DeleteAccount(w) \/ EditableWill(w)
                      \/ \E t \in Trustees : DeleteTrustee(w, t)
  \/ Crash

Spec == Init /\ [][Next]_vars

\* Scheduling: a goroutine that has begun takes its next step, as statements
\* return and Send is bounded by its deadline.  No request or tick need come.
Proceed(p) ==
  \/ p = Worker /\ (SweepMissesWill \/ EndSweep \/ \E w \in Wills : SweepOne(w))
  \/ Reread(p) \/ Enqueue(p) \/ Deliver(p)

FairQueue == Spec /\ \A p \in Procs : WF_vars(Proceed(p))

-----------------------------------------------------------------------------
\* Properties

QueueTypeOK ==
  /\ phase \in [Wills -> Phases]
  /\ row \in [Wills -> {"live", "deleted", "purged"}]
  /\ panel \in [Wills -> SUBSET Trustees]
  /\ news \in [Wills -> 0..MaxNews]
  /\ note \in [Notes -> Statuses]
  /\ mail \in [Notes -> Nat]
  /\ step \in [Procs -> {"idle", "sweep", "reread", "enqueue", "pending", "send",
                         "mark_sent", "mark_failed"}]
  /\ scan \in SUBSET Wills
  /\ owed \in [Procs -> SUBSET Events]
  /\ batch \in [Procs -> SUBSET Notes]
  /\ list \in [Procs -> SUBSET Notes]
  /\ sending \in [Procs -> Notes \union {None}]
  /\ editing \in SUBSET Wills

\* DECISIONS.md:122: a message is inserted into the database before it is
\* delivered, so whatever reached the mail server has had its row, in spite of
\* crashes, failed insertions and goroutines that deliver each other's rows.
RecordedBeforeMailed == \A n \in Notes : mail[n] > 0 => note[n] # "unwritten"

\* DECISIONS.md:122: a row that says sent was accepted by the mail server,
\* whichever of several racing deliveries wrote the row last.
SentMeansMailed == \A n \in Notes : note[n] = "sent" => mail[n] > 0

\* API_SPEC.md:168: a committed dormancy, grace start or recovery of a will that
\* is still there has its messages to the owner and to the trustees it still has
\* queued, or the goroutine that committed it has yet to queue them.
TransitionsAreAnnounced ==
  \A e \in Events :
    e.number <= news[e.will] /\ row[e.will] = "live" =>
      \/ \E p \in Procs : e \in owed[p]
      \/ \A n \in Letters({e}) : note[n] # "unwritten"

\* Without faults a message that was accepted is still "queued" only while a
\* goroutine that sent it has yet to mark it: a later delivery does not repeat it.
MailedIsMarked ==
  \A n \in Notes : mail[n] > 0 /\ note[n] = "queued" => \E p \in Procs : sending[p] = n

\* Without faults every further copy of a message takes another goroutine that
\* read it as queued: no goroutine mails one twice.
DuplicatesNeedRace == \A n \in Notes : mail[n] <= Cardinality(Procs)

\* Without faults, and within the limits, a queued message is tried and marked.
QueuedIsDispatched ==
  \A n \in Notes : note[n] = "queued" ~> note[n] \in {"sent", "failed"}
=============================================================================
