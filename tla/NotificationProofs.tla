------------------------- MODULE NotificationProofs -------------------------
(***************************************************************************)
(* Theorems about NotificationQueue, for every number of wills, trustees   *)
(* and requests and every limit.                                           *)
(***************************************************************************)
EXTENDS NotificationQueue, TLAPS, FiniteSetTheorems

LocalTypeOK ==
  /\ step \in [Procs -> {"idle", "sweep", "reread", "enqueue", "pending", "send",
                         "mark_sent", "mark_failed"}]
  /\ scan \in SUBSET Wills
  /\ owed \in [Procs -> SUBSET Events]
  /\ batch \in [Procs -> SUBSET Notes]
  /\ list \in [Procs -> SUBSET Notes]
  /\ sending \in [Procs -> Notes \union {None}]

-----------------------------------------------------------------------------
\* Types

\* A goroutine that returns leaves its local state well typed.
LEMMA ReturnTypes ==
  ASSUME LocalTypeOK, NEW p \in Procs, Return(p)
  PROVE  LocalTypeOK'
BY DEF LocalTypeOK, Return

\* A transition that owes messages counts and remembers it.
LEMMA OweTypes ==
  ASSUME QueueTypeOK, NEW p \in Procs, NEW w \in Wills, Owe(p, w)
  PROVE  /\ news' \in [Wills -> 0..MaxNews]
         /\ owed' \in [Procs -> SUBSET Events]
         /\ Upcoming(w) \in Events
<1>1. news[w] \in 0..MaxNews /\ news[w] + 1 \in 1..MaxNews
  BY QueueAssumption DEF QueueTypeOK, Owe
<1>2. Upcoming(w) \in Events
  BY <1>1 DEF Events, Upcoming
<1>3. news' \in [Wills -> 0..MaxNews]
  BY <1>1, QueueAssumption DEF QueueTypeOK, Owe
<1>4. owed' \in [Procs -> SUBSET Events]
  BY <1>2 DEF QueueTypeOK, Owe
<1> QED BY <1>2, <1>3, <1>4

\* Messages are composed of what is due and addressed to whom the will has.
LEMMA LettersAreNotes ==
  ASSUME NEW E
  PROVE  Letters(E) \subseteq NotesOf(E) /\ NotesOf(E) \subseteq Notes
BY DEF Letters, NotesOf

\* The worker and the producers keep the types.
LEMMA ProduceTypes ==
  ASSUME QueueTypeOK, Produce
  PROVE  QueueTypeOK'
<1> USE DEF QueueTypeOK, tables, lifecycle, local
<1>0. LocalTypeOK /\ Worker \in Procs /\ Handlers \subseteq Procs
  BY DEF LocalTypeOK, Procs
<1>1. CASE StartTick
  BY <1>0, <1>1 DEF StartTick, GoTo
<1>2. CASE SweepMissesWill
  BY <1>0, <1>2, ReturnTypes DEF SweepMissesWill, LocalTypeOK
<1>3. CASE EndSweep
  <2>1. CASE owed[Worker] = {}
    BY <1>0, <1>3, <2>1, ReturnTypes DEF EndSweep, LocalTypeOK
  <2>2. CASE owed[Worker] # {}
    BY <1>0, <1>3, <2>2 DEF EndSweep, GoTo
  <2> QED BY <2>1, <2>2
<1>4. ASSUME NEW w \in Wills, SweepOne(w) PROVE QueueTypeOK'
  <2>1. phase' \in [Wills -> Phases]
    BY <1>4 DEF SweepOne, Phases
  <2>2. news' \in [Wills -> 0..MaxNews] /\ owed' \in [Procs -> SUBSET Events]
    <3>1. CASE Owe(Worker, w)
      BY <1>0, <3>1, OweTypes
    <3>2. CASE UNCHANGED <<news, owed>>
      BY <3>2
    <3> QED BY <1>4, <3>1, <3>2 DEF SweepOne
  <2>3. batch' \in [Procs -> SUBSET Notes]
    BY <1>0, <1>4, LettersAreNotes DEF SweepOne
  <2> QED BY <1>4, <2>1, <2>2, <2>3 DEF SweepOne
<1>5. ASSUME NEW w \in Wills, NEW p \in Handlers, RestoringHeartbeat(p, w)
      PROVE  QueueTypeOK'
  <2>1. news' \in [Wills -> 0..MaxNews] /\ owed' \in [Procs -> SUBSET Events]
    BY <1>0, <1>5, OweTypes DEF RestoringHeartbeat
  <2>2. phase' \in [Wills -> Phases]
    BY <1>5 DEF RestoringHeartbeat, Phases
  <2> QED BY <1>0, <1>5, <2>1, <2>2 DEF RestoringHeartbeat, GoTo
<1>6. ASSUME NEW w \in Wills, NEW p \in Handlers, DecisiveResponse(p, w)
      PROVE  QueueTypeOK'
  <2>1. news' \in [Wills -> 0..MaxNews] /\ owed' \in [Procs -> SUBSET Events]
    BY <1>0, <1>6, OweTypes DEF DecisiveResponse
  <2>2. phase' \in [Wills -> Phases]
    BY <1>6 DEF DecisiveResponse, Phases
  <2>3. batch' \in [Procs -> SUBSET Notes]
    BY <1>0, <1>6, LettersAreNotes DEF DecisiveResponse
  <2> QED BY <1>0, <1>6, <2>1, <2>2, <2>3 DEF DecisiveResponse, GoTo
<1>7. ASSUME NEW p \in Procs, Reread(p) PROVE QueueTypeOK'
  <2>1. CASE Return(p)
    BY <1>0, <1>7, <2>1, ReturnTypes DEF Reread, LocalTypeOK
  <2>2. CASE /\ batch' = [batch EXCEPT ![p] = Letters(owed[p])]
             /\ GoTo(p, "enqueue")
             /\ UNCHANGED <<scan, owed, list, sending>>
    BY <1>7, <2>2, LettersAreNotes DEF Reread, GoTo
  <2> QED BY <1>7, <2>1, <2>2 DEF Reread
<1>8. ASSUME NEW p \in Procs, Enqueue(p) PROVE QueueTypeOK'
  <2>1. CASE Return(p) /\ UNCHANGED note
    BY <1>0, <1>8, <2>1, ReturnTypes DEF Enqueue, LocalTypeOK
  <2>2. CASE Queue(p)
    BY <1>8, <2>2 DEF Enqueue, Queue, GoTo, Statuses
  <2> QED BY <1>8, <2>1, <2>2 DEF Enqueue
<1> QED BY <1>1, <1>2, <1>3, <1>4, <1>5, <1>6, <1>7, <1>8 DEF Produce

\* Deliveries keep the types.
LEMMA DeliverTypes ==
  ASSUME QueueTypeOK, NEW p \in Procs, Deliver(p)
  PROVE  QueueTypeOK'
<1> USE DEF QueueTypeOK, tables, lifecycle, local
<1>0. LocalTypeOK
  BY DEF LocalTypeOK
<1>1. CASE Pending(p)
  <2>1. PICK rows \in AtMost(Limit(p), Queued) :
          IF rows = {} THEN Return(p)
          ELSE /\ list' = [list EXCEPT ![p] = rows]
               /\ GoTo(p, "send")
               /\ UNCHANGED <<scan, owed, batch, sending>>
    BY <1>1 DEF Pending
  <2>2. rows \subseteq Notes
    BY DEF AtMost, Queued
  <2>3. CASE Return(p)
    BY <1>0, <1>1, <2>3, ReturnTypes DEF Pending, LocalTypeOK
  <2>4. CASE ~Return(p)
    BY <1>1, <2>1, <2>2, <2>4 DEF Pending, GoTo
  <2> QED BY <2>3, <2>4
<1>2. ASSUME NEW n \in Notes, Send(p, n) PROVE QueueTypeOK'
  BY <1>2 DEF Send, GoTo
<1>3. ASSUME NEW s \in {"sent", "failed"}, Mark(p, s) PROVE QueueTypeOK'
  <2>1. note' \in [Notes -> Statuses]
    BY <1>3 DEF Mark, Statuses
  <2>2. CASE Return(p)
    BY <1>0, <1>3, <2>1, <2>2, ReturnTypes DEF Mark, LocalTypeOK
  <2>3. CASE ~Return(p)
    BY <1>3, <2>1, <2>3 DEF Mark, GoTo
  <2> QED BY <2>2, <2>3
<1> QED BY <1>1, <1>2, <1>3 DEF Deliver, MarkSent, MarkFailed

\* So do deletions, errors and crashes.
LEMMA DisturbTypes ==
  ASSUME QueueTypeOK,
         \/ \E w \in Wills : DeleteWill(w) \/ DeleteAccount(w) \/ EditableWill(w)
         \/ \E w \in Wills, t \in Trustees : DeleteTrustee(w, t)
         \/ \E p \in Procs : Fail(p)
         \/ Crash
  PROVE  QueueTypeOK'
<1> USE DEF QueueTypeOK, tables, lifecycle, local
<1>1. ASSUME NEW w \in Wills, DeleteWill(w) PROVE QueueTypeOK'
  BY <1>1 DEF DeleteWill
<1>2. ASSUME NEW w \in Wills, DeleteAccount(w) PROVE QueueTypeOK'
  BY <1>2 DEF DeleteAccount, Statuses
<1>3. ASSUME NEW p \in Procs, Fail(p) PROVE QueueTypeOK'
  BY <1>3, ReturnTypes DEF Fail, LocalTypeOK
<1>4. CASE Crash
  BY <1>4 DEF Crash
<1>5. ASSUME NEW w \in Wills, EditableWill(w) PROVE QueueTypeOK'
  BY <1>5 DEF EditableWill
<1>6. ASSUME NEW w \in Wills, NEW t \in Trustees, DeleteTrustee(w, t) PROVE QueueTypeOK'
  BY <1>6 DEF DeleteTrustee
<1> QED BY <1>1, <1>2, <1>3, <1>4, <1>5, <1>6

\* Every step, or none, keeps the types.
LEMMA NextTypes ==
  ASSUME QueueTypeOK, [Next]_vars
  PROVE  QueueTypeOK'
<1>1. CASE UNCHANGED vars
  BY <1>1 DEF QueueTypeOK, vars, tables, lifecycle, local
<1> QED BY <1>1, ProduceTypes, DeliverTypes, DisturbTypes DEF Next

\* The initial state is well typed.
LEMMA InitTypes == Init => QueueTypeOK
BY QueueAssumption DEF Init, QueueTypeOK, Phases, Statuses

\* QueueTypeOK is inductive by itself.
THEOREM QueueTypeCorrectness == Spec => []QueueTypeOK
<1>1. QueueTypeOK /\ [Next]_vars => QueueTypeOK'
  BY NextTypes
<1> QED BY <1>1, InitTypes, PTL DEF Spec

-----------------------------------------------------------------------------
\* What a step may do to a row, to the mail and to a list

\* A row that was written stays written, or is purged.
LEMMA WrittenStays ==
  ASSUME QueueTypeOK, [Next]_vars, NEW n \in Notes, note[n] # "unwritten"
  PROVE  note'[n] # "unwritten"
<1> USE DEF QueueTypeOK
<1>1. CASE UNCHANGED note
  BY <1>1
<1>2. ASSUME NEW p \in Procs, Enqueue(p) PROVE note'[n] # "unwritten"
  BY <1>2 DEF Enqueue, Queue
<1>3. ASSUME NEW p \in Procs, NEW s \in {"sent", "failed"}, Mark(p, s)
      PROVE  note'[n] # "unwritten"
  BY <1>3 DEF Mark
<1>4. ASSUME NEW w \in Wills, DeleteAccount(w) PROVE note'[n] # "unwritten"
  BY <1>4 DEF DeleteAccount
<1>5. ASSUME NEW p \in Procs, Pending(p) \/ \E m \in Notes : Send(p, m)
      PROVE  UNCHANGED note
  BY <1>5 DEF Pending, Send, tables, lifecycle
<1>6. ASSUME \/ StartTick \/ SweepMissesWill \/ EndSweep
             \/ \E w \in Wills : SweepOne(w)
             \/ \E w \in Wills, p \in Handlers : RestoringHeartbeat(p, w)
             \/ \E w \in Wills, p \in Handlers : DecisiveResponse(p, w)
             \/ \E p \in Procs : Reread(p)
             \/ \E w \in Wills : DeleteWill(w) \/ EditableWill(w)
             \/ \E w \in Wills, t \in Trustees : DeleteTrustee(w, t)
             \/ \E p \in Procs : Fail(p)
             \/ Crash
             \/ UNCHANGED vars
      PROVE  UNCHANGED note
  BY <1>6 DEF StartTick, SweepMissesWill, EndSweep, SweepOne, RestoringHeartbeat,
              DecisiveResponse, Reread, DeleteWill, EditableWill, DeleteTrustee, Fail, Crash,
              tables, lifecycle, vars
<1> QED BY <1>1, <1>2, <1>3, <1>4, <1>5, <1>6
        DEF Next, Produce, Deliver, MarkSent, MarkFailed

\* Only Send delivers.
LEMMA OnlySendMails ==
  ASSUME [Next]_vars
  PROVE  UNCHANGED mail \/ \E p \in Procs, n \in Notes : Send(p, n)
BY DEF Next, Produce, Deliver, StartTick, SweepMissesWill, EndSweep, SweepOne,
       RestoringHeartbeat, DecisiveResponse, Reread, Enqueue, Pending, MarkSent,
       MarkFailed, Mark, DeleteWill, DeleteAccount, EditableWill, DeleteTrustee, Fail, Crash,
       Queue, vars, tables, lifecycle

\* Copies are never taken back.
LEMMA MailGrows ==
  ASSUME QueueTypeOK, [Next]_vars, NEW n \in Notes
  PROVE  mail'[n] \in Nat /\ mail'[n] >= mail[n]
<1>1. CASE UNCHANGED mail
  BY <1>1 DEF QueueTypeOK
<1>2. ASSUME NEW p \in Procs, NEW m \in Notes, Send(p, m)
      PROVE  mail'[n] \in Nat /\ mail'[n] >= mail[n]
  BY <1>2 DEF Send, QueueTypeOK
<1> QED BY <1>1, <1>2, OnlySendMails

\* A goroutine only ever holds messages that it read as queued.
LEMMA ListIsRead ==
  ASSUME QueueTypeOK, [Next]_vars, NEW p \in Procs, NEW n \in list'[p]
  PROVE  n \in list[p] \/ (n \in Notes /\ note[n] = "queued")
<1> USE DEF QueueTypeOK
<1>0. ASSUME NEW q \in Procs, Return(q) PROVE list'[p] \subseteq list[p]
  BY <1>0 DEF Return
<1>1. CASE UNCHANGED list
  BY <1>1
<1>2. ASSUME NEW q \in Procs, Pending(q)
      PROVE  n \in list[p] \/ (n \in Notes /\ note[n] = "queued")
  <2>1. PICK rows \in AtMost(Limit(q), Queued) :
          IF rows = {} THEN Return(q)
          ELSE /\ list' = [list EXCEPT ![q] = rows]
               /\ GoTo(q, "send")
               /\ UNCHANGED <<scan, owed, batch, sending>>
    BY <1>2 DEF Pending
  <2>2. \A m \in rows : m \in Notes /\ note[m] = "queued"
    BY DEF AtMost, Queued
  <2> QED BY <1>0, <2>1, <2>2
<1>3. ASSUME NEW q \in Procs, NEW s \in {"sent", "failed"}, Mark(q, s)
      PROVE  list'[p] \subseteq list[p]
  BY <1>0, <1>3 DEF Mark
<1>4. ASSUME NEW q \in Procs, Reread(q) \/ Enqueue(q) \/ Fail(q)
      PROVE  list'[p] \subseteq list[p]
  BY <1>0, <1>4 DEF Reread, Enqueue, Queue, Fail
<1>5. ASSUME SweepMissesWill \/ EndSweep PROVE list'[p] \subseteq list[p]
  BY <1>0, <1>5 DEF SweepMissesWill, EndSweep, Procs
<1>6. CASE Crash
  BY <1>6 DEF Crash
<1>7. ASSUME \/ StartTick
             \/ \E w \in Wills : SweepOne(w)
             \/ \E w \in Wills, q \in Handlers : RestoringHeartbeat(q, w)
             \/ \E w \in Wills, q \in Handlers : DecisiveResponse(q, w)
             \/ \E w \in Wills : DeleteWill(w) \/ DeleteAccount(w) \/ EditableWill(w)
             \/ \E w \in Wills, t \in Trustees : DeleteTrustee(w, t)
             \/ \E q \in Procs, m \in Notes : Send(q, m)
             \/ UNCHANGED vars
      PROVE  UNCHANGED list
  BY <1>7 DEF StartTick, SweepOne, RestoringHeartbeat, DecisiveResponse, DeleteWill,
              DeleteAccount, EditableWill, DeleteTrustee, Send, local, vars
<1> QED BY <1>1, <1>2, <1>3, <1>4, <1>5, <1>6, <1>7
        DEF Next, Produce, Deliver, MarkSent, MarkFailed

\* A list grows by a read of the rows, which writes none.
LEMMA OnlyPendingLists ==
  ASSUME QueueTypeOK, [Next]_vars, NEW p \in Procs, NEW n \in list'[p], n \notin list[p]
  PROVE  UNCHANGED note
<1> USE DEF QueueTypeOK
<1>0. ASSUME NEW q \in Procs, Return(q) PROVE FALSE
  BY <1>0 DEF Return
<1>2. ASSUME NEW q \in Procs, Pending(q) PROVE UNCHANGED note
  BY <1>2 DEF Pending, tables, lifecycle
<1>3. ASSUME NEW q \in Procs, NEW s \in {"sent", "failed"}, Mark(q, s) PROVE FALSE
  BY <1>0, <1>3 DEF Mark
<1>4. ASSUME NEW q \in Procs, Reread(q) \/ Enqueue(q) \/ Fail(q) PROVE FALSE
  BY <1>0, <1>4 DEF Reread, Enqueue, Queue, Fail
<1>5. ASSUME SweepMissesWill \/ EndSweep PROVE FALSE
  BY <1>0, <1>5 DEF SweepMissesWill, EndSweep, Procs
<1>6. CASE Crash
  BY <1>6 DEF Crash
<1>7. ASSUME \/ StartTick
             \/ \E w \in Wills : SweepOne(w)
             \/ \E w \in Wills, q \in Handlers : RestoringHeartbeat(q, w)
             \/ \E w \in Wills, q \in Handlers : DecisiveResponse(q, w)
             \/ \E w \in Wills : DeleteWill(w) \/ DeleteAccount(w) \/ EditableWill(w)
             \/ \E w \in Wills, t \in Trustees : DeleteTrustee(w, t)
             \/ \E q \in Procs, m \in Notes : Send(q, m)
             \/ UNCHANGED vars
      PROVE  FALSE
  BY <1>7 DEF StartTick, SweepOne, RestoringHeartbeat, DecisiveResponse, DeleteWill,
              DeleteAccount, EditableWill, DeleteTrustee, Send, local, vars
<1> QED BY <1>2, <1>3, <1>4, <1>5, <1>6, <1>7
        DEF Next, Produce, Deliver, MarkSent, MarkFailed

-----------------------------------------------------------------------------
\* A message has its row before it is mailed.

ListsAreRecorded == \A p \in Procs : \A n \in list[p] : note[n] # "unwritten"

RecordInv == QueueTypeOK /\ ListsAreRecorded /\ RecordedBeforeMailed

\* Only listed messages are sent, and listed messages have rows.
LEMMA RecordStep ==
  ASSUME RecordInv, [Next]_vars
  PROVE  RecordInv'
<1>1. QueueTypeOK'
  BY NextTypes DEF RecordInv
<1>2. ListsAreRecorded'
  <2> SUFFICES ASSUME NEW p \in Procs, NEW n \in list'[p]
               PROVE  note'[n] # "unwritten"
    BY DEF ListsAreRecorded
  <2>1. n \in Notes
    BY <1>1 DEF QueueTypeOK
  <2>2. note[n] # "unwritten"
    BY ListIsRead DEF RecordInv, ListsAreRecorded
  <2> QED BY <2>1, <2>2, WrittenStays DEF RecordInv
<1>3. RecordedBeforeMailed'
  <2> SUFFICES ASSUME NEW n \in Notes, mail'[n] > 0
               PROVE  note'[n] # "unwritten"
    BY DEF RecordedBeforeMailed
  <2>1. mail[n] > 0 \/ \E p \in Procs : n \in list[p]
    <3>1. CASE UNCHANGED mail
      BY <3>1
    <3>2. ASSUME NEW p \in Procs, NEW m \in Notes, Send(p, m)
          PROVE  mail[n] > 0 \/ n \in list[p]
      BY <3>2 DEF Send, RecordInv, QueueTypeOK
    <3> QED BY <3>1, <3>2, OnlySendMails
  <2>2. note[n] # "unwritten"
    BY <2>1 DEF RecordInv, ListsAreRecorded, RecordedBeforeMailed
  <2> QED BY <2>2, WrittenStays DEF RecordInv
<1> QED BY <1>1, <1>2, <1>3 DEF RecordInv

\* Nothing reaches the mail server that the database does not know of.
THEOREM MailIsRecorded == Spec => []RecordedBeforeMailed
<1>1. Init => RecordInv
  BY InitTypes DEF Init, RecordInv, ListsAreRecorded, RecordedBeforeMailed
<1>2. RecordInv /\ [Next]_vars => RecordInv'
  BY RecordStep
<1>3. RecordInv => RecordedBeforeMailed
  BY DEF RecordInv
<1> QED BY <1>1, <1>2, <1>3, PTL DEF Spec

-----------------------------------------------------------------------------
\* A row that says sent was mailed.

AboutToMarkSent == \A p \in Procs : step[p] = "mark_sent" =>
                     sending[p] \in Notes /\ mail[sending[p]] > 0

SentInv == QueueTypeOK /\ AboutToMarkSent /\ SentMeansMailed

\* A row becomes "sent" only by the MarkSent of a goroutine that sent it.
LEMMA SentByMarkSent ==
  ASSUME QueueTypeOK, [Next]_vars, NEW n \in Notes, note'[n] = "sent"
  PROVE  note[n] = "sent" \/ \E p \in Procs : step[p] = "mark_sent" /\ sending[p] = n
<1> USE DEF QueueTypeOK
<1>1. ASSUME NEW p \in Procs, Enqueue(p) PROVE note[n] = "sent"
  BY <1>1 DEF Enqueue, Queue
<1>2. ASSUME NEW p \in Procs, MarkSent(p)
      PROVE  note[n] = "sent" \/ (step[p] = "mark_sent" /\ sending[p] = n)
  BY <1>2 DEF MarkSent, Mark
<1>3. ASSUME NEW p \in Procs, MarkFailed(p) PROVE note[n] = "sent"
  BY <1>3 DEF MarkFailed, Mark
<1>4. ASSUME NEW w \in Wills, DeleteAccount(w) PROVE note[n] = "sent"
  BY <1>4 DEF DeleteAccount
<1>5. ASSUME NEW p \in Procs, Pending(p) \/ \E m \in Notes : Send(p, m)
      PROVE  UNCHANGED note
  BY <1>5 DEF Pending, Send, tables, lifecycle
<1>6. ASSUME \/ StartTick \/ SweepMissesWill \/ EndSweep
             \/ \E w \in Wills : SweepOne(w)
             \/ \E w \in Wills, p \in Handlers : RestoringHeartbeat(p, w)
             \/ \E w \in Wills, p \in Handlers : DecisiveResponse(p, w)
             \/ \E p \in Procs : Reread(p)
             \/ \E w \in Wills : DeleteWill(w) \/ EditableWill(w)
             \/ \E w \in Wills, t \in Trustees : DeleteTrustee(w, t)
             \/ \E p \in Procs : Fail(p)
             \/ Crash
             \/ UNCHANGED vars
      PROVE  UNCHANGED note
  BY <1>6 DEF StartTick, SweepMissesWill, EndSweep, SweepOne, RestoringHeartbeat,
              DecisiveResponse, Reread, DeleteWill, EditableWill, DeleteTrustee, Fail, Crash,
              tables, lifecycle, vars
<1> QED BY <1>1, <1>2, <1>3, <1>4, <1>5, <1>6 DEF Next, Produce, Deliver

\* A goroutine gets to MarkSent only from a Send that delivered, and keeps the
\* message until then.
LEMMA MarkSentAfterMail ==
  ASSUME QueueTypeOK, [Next]_vars, NEW p \in Procs, step'[p] = "mark_sent"
  PROVE  \/ step[p] = "mark_sent" /\ sending'[p] = sending[p]
         \/ sending'[p] \in Notes /\ mail'[sending'[p]] > 0
<1> USE DEF QueueTypeOK
<1>. DEFINE Kept == step[p] = "mark_sent" /\ sending'[p] = sending[p]
<1>0. ASSUME NEW q \in Procs, Return(q) PROVE Kept
  BY <1>0 DEF Return
<1>1. ASSUME NEW q \in Procs, NEW n \in Notes, Send(q, n)
      PROVE  Kept \/ (sending'[p] \in Notes /\ mail'[sending'[p]] > 0)
  BY <1>1 DEF Send, GoTo
<1>2. ASSUME NEW q \in Procs, NEW s \in {"sent", "failed"}, Mark(q, s) PROVE Kept
  BY <1>0, <1>2 DEF Mark, GoTo
<1>3. ASSUME NEW q \in Procs, Pending(q) PROVE Kept
  BY <1>0, <1>3 DEF Pending, GoTo
<1>4. ASSUME NEW q \in Procs, Reread(q) \/ Enqueue(q) PROVE Kept
  BY <1>0, <1>4 DEF Reread, Enqueue, Queue, GoTo
<1>5. ASSUME StartTick \/ EndSweep PROVE Kept
  BY <1>0, <1>5 DEF StartTick, EndSweep, GoTo, Procs
<1>6. ASSUME NEW q \in Handlers, NEW w \in Wills,
             RestoringHeartbeat(q, w) \/ DecisiveResponse(q, w)
      PROVE  Kept
  BY <1>6 DEF RestoringHeartbeat, DecisiveResponse, GoTo
<1>7. ASSUME SweepMissesWill \/ \E q \in Procs : Fail(q) PROVE Kept
  BY <1>0, <1>7 DEF SweepMissesWill, Fail, Procs
<1>8. ASSUME \/ \E w \in Wills : \/ SweepOne(w) \/ DeleteWill(w)
                                 \/ DeleteAccount(w) \/ EditableWill(w)
             \/ \E w \in Wills, t \in Trustees : DeleteTrustee(w, t)
             \/ UNCHANGED vars
      PROVE  Kept
  BY <1>8 DEF SweepOne, DeleteWill, DeleteAccount, EditableWill, DeleteTrustee, local, vars
<1>9. ~Crash
  BY DEF Crash
<1> QED BY <1>1, <1>2, <1>3, <1>4, <1>5, <1>6, <1>7, <1>8, <1>9
        DEF Next, Produce, Deliver, MarkSent, MarkFailed

\* Copies are not taken back, so what is about to be marked was mailed.
LEMMA SentStep ==
  ASSUME SentInv, [Next]_vars
  PROVE  SentInv'
<1>1. QueueTypeOK /\ QueueTypeOK'
  BY NextTypes DEF SentInv
<1>2. AboutToMarkSent'
  <2> SUFFICES ASSUME NEW p \in Procs, step'[p] = "mark_sent"
               PROVE  sending'[p] \in Notes /\ mail'[sending'[p]] > 0
    BY DEF AboutToMarkSent
  <2>1. CASE step[p] = "mark_sent" /\ sending'[p] = sending[p]
    <3>1. sending[p] \in Notes /\ mail[sending[p]] > 0
      BY <2>1 DEF SentInv, AboutToMarkSent
    <3>2. mail'[sending[p]] \in Nat /\ mail'[sending[p]] >= mail[sending[p]]
      BY <1>1, <3>1, MailGrows
    <3> QED BY <1>1, <2>1, <3>1, <3>2 DEF QueueTypeOK
  <2> QED BY <1>1, <2>1, MarkSentAfterMail
<1>3. SentMeansMailed'
  <2> SUFFICES ASSUME NEW n \in Notes, note'[n] = "sent"
               PROVE  mail'[n] > 0
    BY DEF SentMeansMailed
  <2>1. mail[n] > 0
    BY <1>1, SentByMarkSent DEF SentInv, AboutToMarkSent, SentMeansMailed
  <2>2. mail'[n] \in Nat /\ mail'[n] >= mail[n]
    BY <1>1, MailGrows
  <2> QED BY <1>1, <2>1, <2>2 DEF QueueTypeOK
<1> QED BY <1>1, <1>2, <1>3 DEF SentInv

\* "sent" is the truth, whatever races, errors and crashes there were.
THEOREM SentIsTrue == Spec => []SentMeansMailed
<1>1. Init => SentInv
  BY InitTypes DEF Init, SentInv, AboutToMarkSent, SentMeansMailed
<1>2. SentInv /\ [Next]_vars => SentInv'
  BY SentStep
<1>3. SentInv => SentMeansMailed
  BY DEF SentInv
<1> QED BY <1>1, <1>2, <1>3, PTL DEF Spec

-----------------------------------------------------------------------------
\* Without faults and deletions every transition is announced.

\* Only a goroutine on its way to Enqueue owes messages.
OwedWhileQueueing ==
  \A p \in Procs : owed[p] # {} => step[p] \in {"sweep", "reread", "enqueue"}

AllLive == \A w \in Wills : row[w] = "live"

\* What a goroutine owes it has composed, but for the reads of a heartbeat.
Composed ==
  \A p \in Procs : batch[p] = IF step[p] = "reread" THEN {} ELSE Letters(owed[p])

AnnounceInv ==
  QueueTypeOK /\ AllLive /\ OwedWhileQueueing /\ Composed /\ TransitionsAreAnnounced

\* Nobody forgets a transition: an event is owed, or becomes owed with the
\* step that counts it, until its messages have rows.
LEMMA OwedUntilQueued ==
  ASSUME AnnounceInv, ~Faults, Leavers = {}, Editors = {}, Next,
         NEW e \in Events, e.number <= news'[e.will]
  PROVE  \/ \E p \in Procs : e \in owed'[p]
         \/ e.number <= news[e.will] /\ \A p \in Procs : e \notin owed[p]
         \/ \A n \in Letters({e}) : note'[n] = "queued"
<1> USE DEF AnnounceInv, QueueTypeOK
<1>. DEFINE Goal == \/ \E p \in Procs : e \in owed'[p]
                    \/ e.number <= news[e.will] /\ \A p \in Procs : e \notin owed[p]
                    \/ \A n \in Letters({e}) : note'[n] = "queued"
<1>0. e.will \in Wills /\ e.number \in 1..MaxNews /\ e = [will |-> e.will, number |-> e.number]
  BY DEF Events
<1>1. ASSUME UNCHANGED <<news, owed>> PROVE Goal
  BY <1>1
<1>2. ASSUME NEW p \in Procs, NEW w \in Wills, Owe(p, w) PROVE Goal
  <2>1. news[w] \in Nat /\ news[e.will] \in Nat
    BY <1>0, QueueAssumption
  <2>2. CASE e = Upcoming(w)
    BY <1>2, <2>2 DEF Owe
  <2>3. CASE e.number <= news[e.will]
    BY <1>2, <2>3 DEF Owe
  <2>4. e.number <= news[e.will] \/ (e.will = w /\ e.number = news[w] + 1)
    BY <1>0, <1>2, <2>1 DEF Owe
  <2> QED BY <1>0, <2>2, <2>3, <2>4 DEF Upcoming
<1>3. ASSUME NEW p \in Procs, owed[p] = {}, Return(p), UNCHANGED news PROVE Goal
  BY <1>3 DEF Return
<1>4. ASSUME NEW p \in Procs, Enqueue(p) PROVE Goal
  <2>1. batch[p] = Letters(owed[p])
    BY <1>4 DEF Enqueue, Composed
  <2>2. \A n \in batch[p] : Insertable(n)
    BY <2>1 DEF Insertable, Letters, NotesOf, Notes, Events, AllLive
  <2>3. /\ note' = [n \in Notes |-> IF n \in batch[p] THEN "queued" ELSE note[n]]
        /\ owed' = [owed EXCEPT ![p] = {}]
        /\ UNCHANGED news
    BY <1>4, <2>2 DEF Enqueue, Queue, lifecycle
  <2>4. CASE e \in owed[p]
    BY <2>1, <2>3, <2>4 DEF Letters, NotesOf
  <2>5. CASE e \notin owed[p]
    BY <2>3, <2>5
  <2> QED BY <2>4, <2>5
<1>5. ASSUME NEW w \in Wills, SweepOne(w) PROVE Goal
  BY <1>1, <1>2, <1>5 DEF SweepOne, Procs
<1>6. ASSUME NEW w \in Wills, NEW p \in Handlers,
             RestoringHeartbeat(p, w) \/ DecisiveResponse(p, w)
      PROVE  Goal
  BY <1>2, <1>6 DEF RestoringHeartbeat, DecisiveResponse, Procs
<1>7. CASE EndSweep
  <2>1. Worker \in Procs
    BY DEF Procs
  <2> QED BY <1>1, <1>3, <1>7, <2>1 DEF EndSweep, tables, lifecycle
<1>8. ASSUME NEW p \in Procs, Reread(p) PROVE Goal
  <2>1. \A f \in owed[p] : row[f.will] = "live"
    BY DEF AllLive, Events
  <2> QED BY <1>1, <1>8, <2>1 DEF Reread, tables, lifecycle
<1>9. ASSUME NEW p \in Procs, Pending(p) PROVE Goal
  <2>1. owed[p] = {}
    BY <1>9 DEF Pending, OwedWhileQueueing
  <2> QED BY <1>1, <1>3, <1>9, <2>1 DEF Pending, tables, lifecycle
<1>10. ASSUME NEW p \in Procs, MarkSent(p) \/ MarkFailed(p) PROVE Goal
  <2>1. owed[p] = {}
    BY <1>10 DEF MarkSent, MarkFailed, OwedWhileQueueing
  <2>2. UNCHANGED news /\ (UNCHANGED owed \/ Return(p))
    BY <1>10 DEF MarkSent, MarkFailed, Mark, lifecycle
  <2> QED BY <1>1, <1>3, <2>1, <2>2
<1>11. ASSUME StartTick \/ \E p \in Procs, n \in Notes : Send(p, n)
       PROVE  Goal
  BY <1>1, <1>11 DEF StartTick, Send, tables, lifecycle
<1>12. ~SweepMissesWill
  BY DEF SweepMissesWill, AllLive
<1>13. /\ \A w \in Wills : ~DeleteWill(w) /\ ~DeleteAccount(w)
       /\ \A p \in Procs : ~Fail(p)
       /\ ~Crash
       /\ \A w \in Wills : ~EditableWill(w) /\ \A t \in Trustees : ~DeleteTrustee(w, t)
  BY DEF DeleteWill, DeleteAccount, EditableWill, DeleteTrustee, Fail, Crash
<1> QED BY <1>4, <1>5, <1>6, <1>7, <1>8, <1>9, <1>10, <1>11, <1>12, <1>13
        DEF Next, Produce, Deliver

\* Wills and trustees stay without deletions.
LEMMA LiveStays ==
  ASSUME Leavers = {}, Editors = {}, [Next]_vars
  PROVE  UNCHANGED <<row, panel>>
BY DEF Next, Produce, Deliver, StartTick, SweepMissesWill, EndSweep, SweepOne,
       RestoringHeartbeat, DecisiveResponse, Reread, Enqueue, Pending, Send, MarkSent,
       MarkFailed, Mark, DeleteWill, DeleteAccount, EditableWill, DeleteTrustee, Fail, Crash,
       vars, tables, lifecycle

\* Messages of two sets of transitions are those of each.
LEMMA LettersJoin ==
  ASSUME NEW E, NEW F
  PROVE  Letters(E \union F) = Letters(E) \union Letters(F) /\ Letters({}) = {}
BY DEF Letters, NotesOf

\* With the trustees at rest, messages are composed when their transition is owed.
LEMMA ComposedStep ==
  ASSUME QueueTypeOK, OwedWhileQueueing, Composed, [Next]_vars, UNCHANGED panel
  PROVE  Composed'
<1> USE DEF QueueTypeOK
<1>. DEFINE Fine(p) == batch'[p] = IF step'[p] = "reread" THEN {} ELSE Letters(owed'[p])
<1>a. ASSUME \A p \in Procs : Fine(p) PROVE Composed'
  <2>1. \A E : Letters(E)' = Letters(E)
    BY DEF Letters, NotesOf
  <2>2. \A p \in Procs : Letters(owed[p])' = Letters(owed'[p])
    BY DEF Letters, NotesOf
  <2> QED BY <1>a, <2>2 DEF Composed
<1>b. \A p \in Procs : batch[p] = IF step[p] = "reread" THEN {} ELSE Letters(owed[p])
  BY DEF Composed
<1>c. Letters({}) = {}
  BY LettersJoin
<1> HIDE DEF Fine
<1>0. ASSUME NEW q \in Procs, Return(q) PROVE \A p \in Procs : Fine(p)
  BY <1>0, <1>b, <1>c DEF Return, Fine
<1>1. ASSUME StartTick PROVE \A p \in Procs : Fine(p)
  BY <1>1, <1>b DEF StartTick, GoTo, Procs, Fine
<1>2. ASSUME NEW w \in Wills, SweepOne(w) PROVE \A p \in Procs : Fine(p)
  <2>1. CASE UNCHANGED <<owed, batch>>
    BY <1>2, <1>b, <2>1 DEF SweepOne, Fine
  <2>2. CASE /\ Owe(Worker, w)
             /\ batch' = [batch EXCEPT ![Worker] = @ \union Letters({Upcoming(w)})]
    <3>1. /\ Worker \in Procs /\ step[Worker] = "sweep" /\ UNCHANGED step
          /\ owed' = [owed EXCEPT ![Worker] = @ \union {Upcoming(w)}]
      BY <1>2, <2>2 DEF SweepOne, Owe, Procs
    <3>2. batch[Worker] = Letters(owed[Worker])
      BY <1>b, <3>1
    <3>3. batch'[Worker] = Letters(owed[Worker]) \union Letters({Upcoming(w)})
      BY <2>2, <3>1, <3>2
    <3>4. owed'[Worker] = owed[Worker] \union {Upcoming(w)}
      BY <3>1
    <3>5. batch'[Worker] = Letters(owed'[Worker])
      BY <3>3, <3>4, LettersJoin
    <3>6. Fine(Worker)
      BY <3>1, <3>5 DEF Fine
    <3>7. ASSUME NEW q \in Procs, q # Worker PROVE Fine(q)
      <4>1. owed'[q] = owed[q] /\ step'[q] = step[q] /\ batch'[q] = batch[q]
        BY <2>2, <3>1, <3>7
      <4> QED BY <1>b, <4>1 DEF Fine
    <3> QED BY <3>6, <3>7
  <2> QED BY <1>2, <2>1, <2>2 DEF SweepOne
<1>3. ASSUME EndSweep \/ SweepMissesWill PROVE \A p \in Procs : Fine(p)
  BY <1>0, <1>3, <1>b DEF EndSweep, SweepMissesWill, GoTo, Procs, Fine
<1>4. ASSUME NEW w \in Wills, NEW p \in Handlers,
             RestoringHeartbeat(p, w) \/ DecisiveResponse(p, w)
      PROVE  \A q \in Procs : Fine(q)
  <2>1. /\ p \in Procs /\ step[p] = "idle" /\ Owe(p, w)
        /\ step' = [step EXCEPT ![p] = IF RestoringHeartbeat(p, w) THEN "reread" ELSE "enqueue"]
        /\ batch' = [batch EXCEPT ![p] = IF RestoringHeartbeat(p, w) THEN {} ELSE Letters({Upcoming(w)})]
    <3>1. p \in Procs /\ step[p] = "idle"
      BY <1>4 DEF RestoringHeartbeat, DecisiveResponse, Procs
    <3>2. owed[p] = {}
      BY <3>1 DEF OwedWhileQueueing
    <3>3. batch[p] = {}
      BY <1>b, <1>c, <3>1, <3>2
    <3>4. CASE RestoringHeartbeat(p, w)
      <4>1. Owe(p, w) /\ UNCHANGED batch /\ step' = [step EXCEPT ![p] = "reread"]
        BY <3>4 DEF RestoringHeartbeat, GoTo
      <4>2. batch' = [batch EXCEPT ![p] = {}]
        BY <3>3, <4>1
      <4> QED BY <3>1, <3>4, <4>1, <4>2
    <3>5. CASE ~RestoringHeartbeat(p, w)
      BY <1>4, <3>1, <3>5 DEF DecisiveResponse, GoTo
    <3> QED BY <3>4, <3>5
  <2>2. owed'[p] = {Upcoming(w)}
    BY <2>1 DEF Owe, OwedWhileQueueing
  <2>3. Fine(p)
    BY <2>1, <2>2 DEF Fine
  <2>4. ASSUME NEW q \in Procs, q # p PROVE Fine(q)
    <3>1. owed'[q] = owed[q] /\ step'[q] = step[q] /\ batch'[q] = batch[q]
      BY <2>1, <2>4 DEF Owe
    <3> QED BY <1>b, <3>1 DEF Fine
  <2> QED BY <2>3, <2>4
<1>5. ASSUME NEW p \in Procs, Reread(p) \/ Enqueue(p) PROVE \A q \in Procs : Fine(q)
  <2>1. CASE Return(p)
    BY <1>0, <2>1
  <2>2. CASE ~Return(p)
    <3>1. \/ /\ UNCHANGED owed /\ step' = [step EXCEPT ![p] = "enqueue"]
             /\ batch' = [batch EXCEPT ![p] = Letters(owed[p])]
          \/ /\ owed' = [owed EXCEPT ![p] = {}] /\ step' = [step EXCEPT ![p] = "pending"]
             /\ batch' = [batch EXCEPT ![p] = {}]
      BY <1>5, <2>2 DEF Reread, Enqueue, Queue, GoTo
    <3>2. ASSUME NEW q \in Procs, q # p PROVE Fine(q)
      <4>1. owed'[q] = owed[q] /\ step'[q] = step[q] /\ batch'[q] = batch[q]
        BY <3>1, <3>2
      <4> QED BY <1>b, <4>1 DEF Fine
    <3>3. ASSUME owed' = owed, step'[p] = "enqueue", batch'[p] = Letters(owed[p]) PROVE Fine(p)
      BY <3>3 DEF Fine
    <3>4. ASSUME owed'[p] = {}, step'[p] = "pending", batch'[p] = {} PROVE Fine(p)
      <4>1. Letters(owed'[p]) = {}
        BY <1>c, <3>4
      <4> QED BY <3>4, <4>1 DEF Fine
    <3>5. Fine(p)
      BY <3>1, <3>3, <3>4
    <3> QED BY <3>2, <3>5
  <2> QED BY <2>1, <2>2
<1>6. ASSUME NEW p \in Procs, Pending(p) PROVE \A q \in Procs : Fine(q)
  BY <1>0, <1>6, <1>b DEF Pending, GoTo, Fine
<1>7. ASSUME NEW p \in Procs, NEW n \in Notes, Send(p, n) PROVE \A q \in Procs : Fine(q)
  BY <1>7, <1>b DEF Send, GoTo, Fine
<1>8. ASSUME NEW p \in Procs, MarkSent(p) \/ MarkFailed(p) PROVE \A q \in Procs : Fine(q)
  BY <1>0, <1>8, <1>b DEF MarkSent, MarkFailed, Mark, GoTo, Fine
<1>9. ASSUME NEW p \in Procs, Fail(p) PROVE \A q \in Procs : Fine(q)
  BY <1>0, <1>9 DEF Fail
<1>10. ASSUME Crash PROVE \A p \in Procs : Fine(p)
  <2> SUFFICES ASSUME NEW p \in Procs PROVE Fine(p)
    OBVIOUS
  <2>1. owed'[p] = {} /\ batch'[p] = {}
    BY <1>10 DEF Crash
  <2>2. Letters(owed'[p]) = {}
    BY <1>c, <2>1
  <2> QED BY <2>1, <2>2 DEF Fine
<1>11. ASSUME \/ \E w \in Wills : DeleteWill(w) \/ DeleteAccount(w) \/ EditableWill(w)
              \/ \E w \in Wills, t \in Trustees : DeleteTrustee(w, t)
              \/ UNCHANGED vars
       PROVE  \A q \in Procs : Fine(q)
  <2>1. UNCHANGED <<step, owed, batch>>
    BY <1>11 DEF DeleteWill, DeleteAccount, EditableWill, DeleteTrustee, local, vars
  <2> QED BY <2>1, <1>b DEF Fine
<1> QED BY <1>a, <1>1, <1>2, <1>3, <1>4, <1>5, <1>6, <1>7, <1>8, <1>9, <1>10, <1>11
        DEF Next, Produce, Deliver

\* A goroutine leaves the producing steps only when it owes nothing.
LEMMA OwedStep ==
  ASSUME QueueTypeOK, OwedWhileQueueing, [Next]_vars
  PROVE  OwedWhileQueueing'
<1> USE DEF QueueTypeOK, OwedWhileQueueing
<1>0. ASSUME NEW p \in Procs, Return(p) PROVE OwedWhileQueueing'
  BY <1>0 DEF Return
<1>1. CASE StartTick
  BY <1>1 DEF StartTick, GoTo, Procs
<1>2. ASSUME NEW w \in Wills, SweepOne(w) PROVE OwedWhileQueueing'
  BY <1>2 DEF SweepOne, Owe, Procs
<1>3. CASE EndSweep \/ SweepMissesWill
  BY <1>0, <1>3 DEF EndSweep, SweepMissesWill, GoTo, Procs
<1>4. ASSUME NEW w \in Wills, NEW p \in Handlers,
             RestoringHeartbeat(p, w) \/ DecisiveResponse(p, w)
      PROVE  OwedWhileQueueing'
  BY <1>4 DEF RestoringHeartbeat, DecisiveResponse, Owe, GoTo, Procs
<1>5. ASSUME NEW p \in Procs, Reread(p) \/ Enqueue(p) PROVE OwedWhileQueueing'
  BY <1>0, <1>5 DEF Reread, Enqueue, Queue, GoTo
<1>6. ASSUME NEW p \in Procs, Pending(p) PROVE OwedWhileQueueing'
  BY <1>0, <1>6 DEF Pending, GoTo
<1>7. ASSUME NEW p \in Procs, NEW n \in Notes, Send(p, n) PROVE OwedWhileQueueing'
  BY <1>7 DEF Send, GoTo
<1>8. ASSUME NEW p \in Procs, MarkSent(p) \/ MarkFailed(p) PROVE OwedWhileQueueing'
  BY <1>0, <1>8 DEF MarkSent, MarkFailed, Mark, GoTo
<1>9. ASSUME NEW p \in Procs, Fail(p) PROVE OwedWhileQueueing'
  BY <1>0, <1>9 DEF Fail
<1>10. CASE Crash
  BY <1>10 DEF Crash
<1>11. ASSUME \/ \E w \in Wills : DeleteWill(w) \/ DeleteAccount(w) \/ EditableWill(w)
              \/ \E w \in Wills, t \in Trustees : DeleteTrustee(w, t)
              \/ UNCHANGED vars
       PROVE  OwedWhileQueueing'
  BY <1>11 DEF DeleteWill, DeleteAccount, EditableWill, DeleteTrustee, local, vars
<1> QED BY <1>1, <1>2, <1>3, <1>4, <1>5, <1>6, <1>7, <1>8, <1>9, <1>10, <1>11
        DEF Next, Produce, Deliver

\* Each step announces what it commits or keeps it owed.
LEMMA AnnounceStep ==
  ASSUME AnnounceInv, ~Faults, Leavers = {}, Editors = {}, [Next]_vars
  PROVE  AnnounceInv'
<1>0. UNCHANGED <<row, panel>>
  BY LiveStays
<1>1. QueueTypeOK' /\ AllLive' /\ OwedWhileQueueing' /\ Composed'
  BY <1>0, NextTypes, OwedStep, ComposedStep DEF AnnounceInv, AllLive
<1>2. TransitionsAreAnnounced'
  <2>1. CASE UNCHANGED vars
    BY <2>1 DEF AnnounceInv, TransitionsAreAnnounced, Letters, NotesOf,
                vars, tables, lifecycle, local
  <2>2. CASE Next
    <3> SUFFICES ASSUME NEW e \in Events, e.number <= news'[e.will],
                        \A p \in Procs : e \notin owed'[p],
                        NEW n \in Letters({e})
                 PROVE  note'[n] # "unwritten"
      BY <1>0 DEF TransitionsAreAnnounced, Letters, NotesOf
    <3>1. CASE e.number <= news[e.will] /\ \A p \in Procs : e \notin owed[p]
      <4>1. row[e.will] = "live"
        BY DEF AnnounceInv, AllLive, Events
      <4>2. n \in Notes /\ note[n] # "unwritten"
        BY <3>1, <4>1 DEF AnnounceInv, TransitionsAreAnnounced, Letters, NotesOf
      <4> QED BY <4>2, WrittenStays DEF AnnounceInv
    <3>2. CASE \A m \in Letters({e}) : note'[m] = "queued"
      BY <3>2
    <3> QED BY <2>2, <3>1, <3>2, OwedUntilQueued
  <2> QED BY <2>1, <2>2
<1> QED BY <1>1, <1>2 DEF AnnounceInv

\* However many goroutines and wills there are, only an error, a crash or the
\* deletion of a will, an account or a trustee can keep a transition from being
\* announced.
THEOREM AnnouncedWithoutFaults ==
  ASSUME ~Faults, Leavers = {}, Editors = {}
  PROVE  Spec => []TransitionsAreAnnounced
<1>1. Init => AnnounceInv
  <2> SUFFICES ASSUME Init PROVE AnnounceInv
    OBVIOUS
  <2>1. TransitionsAreAnnounced
    BY DEF Init, TransitionsAreAnnounced, Events
  <2>2. Composed
    BY LettersJoin DEF Init, Composed
  <2> QED BY <2>1, <2>2, InitTypes DEF Init, AnnounceInv, AllLive, OwedWhileQueueing
<1>2. AnnounceInv /\ [Next]_vars => AnnounceInv'
  BY AnnounceStep
<1>3. AnnounceInv => TransitionsAreAnnounced
  BY DEF AnnounceInv
<1> QED BY <1>1, <1>2, <1>3, PTL DEF Spec

-----------------------------------------------------------------------------
\* Without faults a mailed message is marked before anyone reads it again.

\* A message in hand is one of the list and about to be marked.
InHand ==
  \A p \in Procs : sending[p] # None =>
    sending[p] \in list[p] /\ step[p] \in {"mark_sent", "mark_failed"}

\* What is owed was counted, by one goroutine, and has no rows yet.
OwedCounted == \A p \in Procs : \A e \in owed[p] : e.number <= news[e.will]
RowsCounted == \A n \in Notes : note[n] # "unwritten" => n.event.number <= news[n.event.will]
OwedOnce == \A p, q \in Procs : p # q => owed[p] \intersect owed[q] = {}
OwedUnwritten == \A p \in Procs : \A n \in NotesOf(owed[p]) : note[n] = "unwritten"

OwedInv == OwedCounted /\ RowsCounted /\ OwedOnce /\ OwedUnwritten

\* Nobody composes a message he does not owe.
BatchIsOwed == \A p \in Procs : batch[p] \subseteq NotesOf(owed[p])

MarkInv == RecordInv /\ InHand /\ OwedInv /\ BatchIsOwed

\* A goroutine takes a message in hand by Send and lets go of it by marking it.
LEMMA InHandStep ==
  ASSUME QueueTypeOK, InHand, [Next]_vars
  PROVE  InHand'
<1> USE DEF QueueTypeOK, InHand
<1>0. ASSUME NEW p \in Procs, Return(p) PROVE InHand'
  BY <1>0 DEF Return
<1>1. ASSUME StartTick \/ EndSweep \/ SweepMissesWill PROVE InHand'
  BY <1>0, <1>1 DEF StartTick, EndSweep, SweepMissesWill, GoTo, Procs
<1>2. ASSUME NEW w \in Wills, NEW p \in Handlers,
             RestoringHeartbeat(p, w) \/ DecisiveResponse(p, w)
      PROVE  InHand'
  BY <1>2 DEF RestoringHeartbeat, DecisiveResponse, GoTo, Procs
<1>3. ASSUME NEW p \in Procs, Reread(p) \/ Enqueue(p) PROVE InHand'
  BY <1>0, <1>3 DEF Reread, Enqueue, Queue, GoTo
<1>4. ASSUME NEW p \in Procs, Pending(p) PROVE InHand'
  BY <1>0, <1>4 DEF Pending, GoTo
<1>5. ASSUME NEW p \in Procs, NEW n \in Notes, Send(p, n) PROVE InHand'
  BY <1>5 DEF Send, GoTo
<1>6. ASSUME NEW p \in Procs, MarkSent(p) \/ MarkFailed(p) PROVE InHand'
  BY <1>0, <1>6 DEF MarkSent, MarkFailed, Mark, GoTo
<1>7. ASSUME NEW p \in Procs, Fail(p) PROVE InHand'
  BY <1>0, <1>7 DEF Fail
<1>8. CASE Crash
  BY <1>8 DEF Crash
<1>9. ASSUME \/ \E w \in Wills : \/ SweepOne(w) \/ DeleteWill(w)
                                 \/ DeleteAccount(w) \/ EditableWill(w)
             \/ \E w \in Wills, t \in Trustees : DeleteTrustee(w, t)
             \/ UNCHANGED vars
      PROVE  InHand'
  BY <1>9 DEF SweepOne, DeleteWill, DeleteAccount, EditableWill, DeleteTrustee, local, vars
<1> QED BY <1>1, <1>2, <1>3, <1>4, <1>5, <1>6, <1>7, <1>8, <1>9 DEF Next, Produce, Deliver

\* A composed message is dropped when its transition is, or earlier.
LEMMA BatchStep ==
  ASSUME QueueTypeOK, BatchIsOwed, [Next]_vars
  PROVE  BatchIsOwed'
<1> USE DEF QueueTypeOK
<1>. DEFINE Fine(p) == batch'[p] \subseteq NotesOf(owed'[p])
<1>a. ASSUME \A p \in Procs : Fine(p) PROVE BatchIsOwed'
  BY <1>a DEF BatchIsOwed, NotesOf
<1>b. \A p \in Procs : batch[p] \subseteq NotesOf(owed[p])
  BY DEF BatchIsOwed
<1>c. \A E : Letters(E) \subseteq NotesOf(E)
  BY DEF Letters
<1>d. \A E, F : NotesOf(E \union F) = NotesOf(E) \union NotesOf(F)
  BY DEF NotesOf
<1> HIDE DEF Fine
<1>0. ASSUME NEW q \in Procs, Return(q) PROVE \A p \in Procs : Fine(p)
  BY <1>0, <1>b DEF Return, Fine
<1>1. ASSUME NEW q \in Procs, NEW w \in Wills, Owe(q, w),
             \/ UNCHANGED batch
             \/ batch' = [batch EXCEPT ![q] = @ \union Letters({Upcoming(w)})]
             \/ batch' = [batch EXCEPT ![q] = Letters({Upcoming(w)})]
      PROVE  \A p \in Procs : Fine(p)
  <2>1. \A p \in Procs : owed'[p] = IF p = q THEN owed[p] \union {Upcoming(w)} ELSE owed[p]
    BY <1>1 DEF Owe
  <2>2. \A p \in Procs : batch'[p] \subseteq
                         IF p = q THEN batch[p] \union Letters({Upcoming(w)}) ELSE batch[p]
    BY <1>1
  <2> SUFFICES ASSUME NEW p \in Procs PROVE batch'[p] \subseteq NotesOf(owed'[p])
    BY DEF Fine
  <2>3. CASE p = q
    <3>1. /\ owed'[p] = owed[p] \union {Upcoming(w)}
          /\ batch'[p] \subseteq batch[p] \union Letters({Upcoming(w)})
      BY <2>1, <2>2, <2>3
    <3>2. NotesOf(owed'[p]) = NotesOf(owed[p]) \union NotesOf({Upcoming(w)})
      BY <1>d, <3>1
    <3> QED BY <1>b, <1>c, <3>1, <3>2
  <2>4. CASE p # q
    <3>1. owed'[p] = owed[p] /\ batch'[p] \subseteq batch[p]
      BY <2>1, <2>2, <2>4
    <3> QED BY <1>b, <3>1
  <2> QED BY <2>3, <2>4
<1>2. ASSUME UNCHANGED <<owed, batch>> PROVE \A p \in Procs : Fine(p)
  BY <1>2, <1>b DEF Fine
<1>3. ASSUME StartTick \/ EndSweep \/ SweepMissesWill PROVE \A p \in Procs : Fine(p)
  BY <1>0, <1>2, <1>3 DEF StartTick, EndSweep, SweepMissesWill, Procs
<1>4. ASSUME NEW w \in Wills,
             SweepOne(w) \/ \E p \in Handlers : RestoringHeartbeat(p, w) \/ DecisiveResponse(p, w)
      PROVE  \A p \in Procs : Fine(p)
  BY <1>1, <1>2, <1>4 DEF SweepOne, RestoringHeartbeat, DecisiveResponse, Procs
<1>5. ASSUME NEW p \in Procs, Reread(p) PROVE \A q \in Procs : Fine(q)
  BY <1>0, <1>5, <1>b, <1>c DEF Reread, Fine
<1>6. ASSUME NEW p \in Procs, Enqueue(p) PROVE \A q \in Procs : Fine(q)
  BY <1>0, <1>6, <1>b DEF Enqueue, Queue, Fine
<1>7. ASSUME NEW p \in Procs, Pending(p) \/ MarkSent(p) \/ MarkFailed(p) \/ Fail(p)
      PROVE  \A q \in Procs : Fine(q)
  BY <1>0, <1>2, <1>7 DEF Pending, MarkSent, MarkFailed, Mark, Fail
<1>8. ASSUME Crash PROVE \A p \in Procs : Fine(p)
  BY <1>8 DEF Crash, Fine
<1>9. ASSUME \/ \E w \in Wills : DeleteWill(w) \/ DeleteAccount(w) \/ EditableWill(w)
             \/ \E w \in Wills, t \in Trustees : DeleteTrustee(w, t)
             \/ \E p \in Procs, n \in Notes : Send(p, n)
             \/ UNCHANGED vars
      PROVE  \A q \in Procs : Fine(q)
  BY <1>2, <1>9 DEF DeleteWill, DeleteAccount, EditableWill, DeleteTrustee, Send, local, vars
<1> QED BY <1>a, <1>3, <1>4, <1>5, <1>6, <1>7, <1>8, <1>9 DEF Next, Produce, Deliver

\* Only Enqueue writes a row, and only "queued".
LEMMA OnlyEnqueueWrites ==
  ASSUME MarkInv, [Next]_vars, NEW n \in Notes, note'[n] # note[n],
         note[n] = "unwritten" \/ note'[n] = "queued"
  PROVE  \E p \in Procs : Enqueue(p) /\ n \in NotesOf(owed[p])
<1> USE DEF MarkInv, RecordInv, QueueTypeOK
<1>1. ASSUME NEW p \in Procs, Enqueue(p) PROVE n \in NotesOf(owed[p])
  BY <1>1 DEF Enqueue, Queue, BatchIsOwed
<1>2. ASSUME NEW p \in Procs, MarkSent(p) \/ MarkFailed(p) PROVE FALSE
  <2>1. note'[n] \in {"sent", "failed"} /\ sending[p] = n
    BY <1>2 DEF MarkSent, MarkFailed, Mark
  <2>2. note[n] # "unwritten"
    BY <2>1, NoneAssumption DEF InHand, ListsAreRecorded
  <2> QED BY <2>1, <2>2
<1>3. ASSUME NEW w \in Wills, DeleteAccount(w) PROVE FALSE
  BY <1>3 DEF DeleteAccount
<1>4. ASSUME NEW p \in Procs, Pending(p) \/ \E m \in Notes : Send(p, m)
      PROVE  FALSE
  BY <1>4 DEF Pending, Send, tables, lifecycle
<1>5. ASSUME \/ StartTick \/ SweepMissesWill \/ EndSweep
             \/ \E w \in Wills : SweepOne(w)
             \/ \E w \in Wills, p \in Handlers : RestoringHeartbeat(p, w)
             \/ \E w \in Wills, p \in Handlers : DecisiveResponse(p, w)
             \/ \E p \in Procs : Reread(p)
             \/ \E w \in Wills : DeleteWill(w) \/ EditableWill(w)
             \/ \E w \in Wills, t \in Trustees : DeleteTrustee(w, t)
             \/ \E p \in Procs : Fail(p)
             \/ Crash
             \/ UNCHANGED vars
      PROVE  FALSE
  BY <1>5 DEF StartTick, SweepMissesWill, EndSweep, SweepOne, RestoringHeartbeat,
              DecisiveResponse, Reread, DeleteWill, EditableWill, DeleteTrustee, Fail, Crash,
              tables, lifecycle, vars
<1> QED BY <1>1, <1>2, <1>3, <1>4, <1>5 DEF Next, Produce, Deliver

\* What a step does to the owed transitions: one is counted and owed, or some
\* are dropped, or those just queued are.
LEMMA OwedChange ==
  ASSUME QueueTypeOK, [Next]_vars
  PROVE  \/ \E p \in Procs, w \in Wills : Owe(p, w) /\ UNCHANGED note
         \/ UNCHANGED news /\ \A p \in Procs : owed'[p] \subseteq owed[p]
<1> USE DEF QueueTypeOK
<1>. DEFINE Less == UNCHANGED news /\ \A p \in Procs : owed'[p] \subseteq owed[p]
<1>0. ASSUME NEW p \in Procs, Return(p), UNCHANGED news PROVE Less
  BY <1>0 DEF Return
<1>1. ASSUME UNCHANGED <<news, owed>> PROVE Less
  BY <1>1
<1>2. ASSUME StartTick \/ EndSweep \/ SweepMissesWill PROVE Less
  BY <1>0, <1>1, <1>2 DEF StartTick, EndSweep, SweepMissesWill, tables, lifecycle, Procs
<1>3. ASSUME NEW w \in Wills, SweepOne(w)
      PROVE  (Owe(Worker, w) /\ UNCHANGED note) \/ Less
  BY <1>1, <1>3 DEF SweepOne
<1>4. ASSUME NEW w \in Wills, NEW p \in Handlers,
             RestoringHeartbeat(p, w) \/ DecisiveResponse(p, w)
      PROVE  Owe(p, w) /\ UNCHANGED note
  BY <1>4 DEF RestoringHeartbeat, DecisiveResponse
<1>5. ASSUME NEW p \in Procs, Reread(p) PROVE Less
  BY <1>0, <1>1, <1>5 DEF Reread, tables, lifecycle
<1>6. ASSUME NEW p \in Procs, Enqueue(p) PROVE Less
  BY <1>0, <1>6 DEF Enqueue, Queue, lifecycle
<1>7. ASSUME NEW p \in Procs, Pending(p) PROVE Less
  BY <1>0, <1>1, <1>7 DEF Pending, tables, lifecycle
<1>8. ASSUME NEW p \in Procs, MarkSent(p) \/ MarkFailed(p) PROVE Less
  BY <1>0, <1>1, <1>8 DEF MarkSent, MarkFailed, Mark, lifecycle
<1>9. ASSUME NEW p \in Procs, Fail(p) PROVE Less
  BY <1>0, <1>9 DEF Fail, tables, lifecycle
<1>10. CASE Crash
  BY <1>10 DEF Crash, tables, lifecycle
<1>11. ASSUME \/ \E w \in Wills : DeleteWill(w) \/ DeleteAccount(w) \/ EditableWill(w)
              \/ \E w \in Wills, t \in Trustees : DeleteTrustee(w, t)
              \/ \E p \in Procs, n \in Notes : Send(p, n)
              \/ UNCHANGED vars
       PROVE  Less
  BY <1>1, <1>11 DEF DeleteWill, DeleteAccount, EditableWill, DeleteTrustee, Send,
              local, vars, tables, lifecycle
<1> QED BY <1>2, <1>3, <1>4, <1>5, <1>6, <1>7, <1>8, <1>9, <1>10, <1>11
        DEF Next, Produce, Deliver, Procs

\* A transition that is owed anew has the next number, so nobody owes it and
\* none of its rows is written.
LEMMA OwedInvStep ==
  ASSUME MarkInv, [Next]_vars
  PROVE  OwedInv'
<1>0. QueueTypeOK /\ QueueTypeOK'
  BY NextTypes DEF MarkInv, RecordInv
<1>1. ASSUME NEW p \in Procs, NEW w \in Wills, Owe(p, w), UNCHANGED note
      PROVE  OwedInv'
  <2>. DEFINE new == Upcoming(w)
  <2>0. new.will = w /\ new.number = news[w] + 1
    BY DEF Upcoming
  <2>1. \A v \in Wills : news[v] \in Nat /\ news'[v] = IF v = w THEN news[v] + 1 ELSE news[v]
    BY <1>0, <1>1, QueueAssumption DEF Owe, QueueTypeOK
  <2>2. \A q \in Procs : owed'[q] = IF q = p THEN owed[q] \union {new} ELSE owed[q]
    BY <1>0, <1>1 DEF Owe, QueueTypeOK
  <2>3. \A q \in Procs : new \notin owed[q]
    BY <2>0, <2>1 DEF MarkInv, OwedInv, OwedCounted
  <2>4. \A n \in Notes : n.event = new => note[n] = "unwritten"
    BY <2>0, <2>1 DEF MarkInv, OwedInv, RowsCounted
  <2>5. \A q \in Procs : \A e \in owed[q] : e.will \in Wills /\ e.number \in Nat
    BY <1>0 DEF QueueTypeOK, Events
  <2>6. \A n \in Notes : n.event.will \in Wills /\ n.event.number \in Nat
    BY DEF Notes, Events
  <2>7. OwedCounted'
    <3> SUFFICES ASSUME NEW q \in Procs, NEW e \in owed'[q]
                 PROVE  e.number <= news'[e.will]
      BY DEF OwedCounted
    <3>1. CASE e = new
      BY <2>0, <2>1, <3>1
    <3>2. CASE e \in owed[q]
      BY <2>1, <2>5, <3>2 DEF MarkInv, OwedInv, OwedCounted
    <3> QED BY <2>2, <3>1, <3>2
  <2>8. RowsCounted'
    BY <1>1, <2>1, <2>6 DEF MarkInv, OwedInv, RowsCounted
  <2>9. OwedOnce'
    BY <2>2, <2>3 DEF MarkInv, OwedInv, OwedOnce
  <2>10. OwedUnwritten'
    BY <1>1, <2>2, <2>4 DEF MarkInv, OwedInv, OwedUnwritten, NotesOf
  <2> QED BY <2>7, <2>8, <2>9, <2>10 DEF OwedInv
<1>2. ASSUME UNCHANGED news, \A p \in Procs : owed'[p] \subseteq owed[p]
      PROVE  OwedInv'
  <2>1. OwedCounted' /\ OwedOnce'
    BY <1>2 DEF MarkInv, OwedInv, OwedCounted, OwedOnce
  <2>2. RowsCounted'
    <3> SUFFICES ASSUME NEW n \in Notes, note'[n] # "unwritten"
                 PROVE  n.event.number <= news[n.event.will]
      BY <1>2 DEF RowsCounted
    <3>1. CASE note[n] # "unwritten"
      BY <3>1 DEF MarkInv, OwedInv, RowsCounted
    <3>2. CASE note[n] = "unwritten"
      <4>1. PICK p \in Procs : n \in NotesOf(owed[p])
        BY <3>2, OnlyEnqueueWrites
      <4> QED BY <4>1 DEF MarkInv, OwedInv, OwedCounted, NotesOf
    <3> QED BY <3>1, <3>2
  <2>3. OwedUnwritten'
    <3> SUFFICES ASSUME NEW q \in Procs, NEW n \in NotesOf(owed'[q])
                 PROVE  note'[n] = "unwritten"
      BY DEF OwedUnwritten, NotesOf
    <3>1. n \in Notes /\ n.event \in owed[q] /\ n.event \in owed'[q]
      BY <1>2 DEF NotesOf
    <3>2. note[n] = "unwritten"
      BY <3>1 DEF MarkInv, OwedInv, OwedUnwritten, NotesOf
    <3>3. ASSUME NEW p \in Procs, Enqueue(p), n \in NotesOf(owed[p]), note'[n] # note[n]
          PROVE  FALSE
      <4>1. p = q
        BY <3>1, <3>3 DEF MarkInv, OwedInv, OwedOnce, NotesOf
      <4>2. owed'[p] = {}
        BY <1>0, <3>3 DEF Enqueue, Queue, Return, QueueTypeOK
      <4> QED BY <3>1, <4>1, <4>2
    <3> QED BY <3>1, <3>2, <3>3, OnlyEnqueueWrites
  <2> QED BY <2>1, <2>2, <2>3 DEF OwedInv
<1> QED BY <1>0, <1>1, <1>2, OwedChange

\* Without faults only marking takes a message out of a goroutine's hand.
LEMMA KeptInHand ==
  ASSUME QueueTypeOK, InHand, ~Faults, [Next]_vars,
         NEW p \in Procs, sending[p] # None, sending'[p] # sending[p]
  PROVE  MarkSent(p) \/ MarkFailed(p)
<1> USE DEF QueueTypeOK, InHand
<1>0. ASSUME NEW q \in Procs, Return(q), step[q] \notin {"mark_sent", "mark_failed"}
      PROVE  FALSE
  BY <1>0 DEF Return
<1>1. ASSUME StartTick \/ EndSweep \/ SweepMissesWill PROVE FALSE
  BY <1>0, <1>1 DEF StartTick, EndSweep, SweepMissesWill, Procs
<1>2. ASSUME NEW q \in Procs, Reread(q) \/ Enqueue(q) PROVE FALSE
  BY <1>0, <1>2 DEF Reread, Enqueue, Queue
<1>3. ASSUME NEW q \in Procs, Pending(q) PROVE FALSE
  BY <1>0, <1>3 DEF Pending
<1>4. ASSUME NEW q \in Procs, NEW n \in Notes, Send(q, n) PROVE FALSE
  BY <1>4 DEF Send
<1>5. ASSUME NEW q \in Procs, MarkSent(q) \/ MarkFailed(q) PROVE q = p
  BY <1>5 DEF MarkSent, MarkFailed, Mark, Return
<1>6. ASSUME \/ \E w \in Wills : \/ SweepOne(w) \/ DeleteWill(w)
                                 \/ DeleteAccount(w) \/ EditableWill(w)
             \/ \E w \in Wills, t \in Trustees : DeleteTrustee(w, t)
             \/ \E w \in Wills, q \in Handlers : RestoringHeartbeat(q, w)
             \/ \E w \in Wills, q \in Handlers : DecisiveResponse(q, w)
             \/ UNCHANGED vars
      PROVE  FALSE
  BY <1>6 DEF SweepOne, DeleteWill, DeleteAccount, EditableWill, DeleteTrustee, RestoringHeartbeat, DecisiveResponse,
              local, vars
<1>7. (\A q \in Procs : ~Fail(q)) /\ ~Crash
  BY DEF Fail, Crash
<1> QED BY <1>1, <1>2, <1>3, <1>4, <1>5, <1>6, <1>7 DEF Next, Produce, Deliver

\* A mailed message has a row, so no Enqueue makes it "queued" again, and the
\* goroutine that has it in hand marks it.
LEMMA MarkedStep ==
  ASSUME MarkInv, MailedIsMarked, ~Faults, [Next]_vars
  PROVE  MailedIsMarked'
<1> USE DEF MarkInv, RecordInv
<1>0. QueueTypeOK'
  BY NextTypes
<1> SUFFICES ASSUME NEW n \in Notes, mail'[n] > 0, note'[n] = "queued"
             PROVE  \E p \in Procs : sending'[p] = n
  BY DEF MailedIsMarked
<1>1. ASSUME NEW p \in Procs, Send(p, n) PROVE sending'[p] = n
  BY <1>1 DEF Send, QueueTypeOK
<1>2. CASE mail[n] > 0
  <2>1. note[n] # "unwritten"
    BY <1>2 DEF RecordedBeforeMailed
  <2>2. note[n] = "queued"
    BY <2>1, OnlyEnqueueWrites DEF OwedInv, OwedUnwritten
  <2>3. PICK p \in Procs : sending[p] = n
    BY <1>2, <2>2 DEF MailedIsMarked
  <2>4. ASSUME MarkSent(p) \/ MarkFailed(p) PROVE FALSE
    BY <2>2, <2>3, <2>4 DEF MarkSent, MarkFailed, Mark, QueueTypeOK
  <2> QED BY <2>3, <2>4, KeptInHand, NoneAssumption
<1>3. CASE ~(mail[n] > 0)
  <2>1. mail'[n] # mail[n]
    BY <1>3
  <2>2. ASSUME NEW p \in Procs, NEW m \in Notes, Send(p, m) PROVE m = n
    BY <2>1, <2>2 DEF Send, QueueTypeOK
  <2> QED BY <1>1, <2>1, <2>2, OnlySendMails
<1> QED BY <1>2, <1>3

\* Racing deliveries may mail one message several times, but without faults
\* none of them leaves it "queued" for a later delivery to repeat.
THEOREM MarkedWithoutFaults ==
  ASSUME ~Faults
  PROVE  Spec => []MailedIsMarked
<1>1. Init => MarkInv /\ MailedIsMarked
  BY InitTypes DEF Init, MarkInv, RecordInv, ListsAreRecorded, RecordedBeforeMailed, InHand,
     OwedInv, OwedCounted, RowsCounted, OwedOnce, OwedUnwritten, BatchIsOwed, NotesOf, MailedIsMarked
<1>2. MarkInv /\ MailedIsMarked /\ [Next]_vars => (MarkInv /\ MailedIsMarked)'
  BY RecordStep, InHandStep, OwedInvStep, BatchStep, MarkedStep DEF MarkInv, RecordInv
<1> QED BY <1>1, <1>2, PTL DEF Spec

-----------------------------------------------------------------------------
\* Without faults a message is mailed at most once per goroutine.

\* Who has n in hand, and who has read n as queued and may still send it.
With(n) == {p \in Procs : sending[p] = n}
YetToSend(n) == {p \in Procs : n \in list[p] /\ sending[p] # n}

\* The copies of a message that a new reader may add to are all in hand, and
\* every copy still to come has a goroutine of its own.
CopiesInHand == \A n \in Notes : note[n] = "queued" => mail[n] <= Cardinality(With(n))
CopiesToCome == \A n \in Notes : mail[n] + Cardinality(YetToSend(n)) <= Cardinality(Procs)

RaceInv == MarkInv /\ CopiesInHand /\ CopiesToCome

\* Finitely many requests are served, so who holds what can be counted.
LEMMA ProcsCounted ==
  ASSUME NEW n
  PROVE  /\ IsFiniteSet(Procs) /\ IsFiniteSet(With(n)) /\ IsFiniteSet(YetToSend(n))
         /\ Cardinality(Procs) \in Nat
         /\ Cardinality(With(n)) \in Nat /\ Cardinality(YetToSend(n)) \in Nat
         /\ Cardinality(With(n)) + Cardinality(YetToSend(n)) <= Cardinality(Procs)
<1>1. IsFiniteSet(Procs)
  BY QueueAssumption, FS_AddElement DEF Procs
<1>2. With(n) \subseteq Procs /\ YetToSend(n) \subseteq Procs
  BY DEF With, YetToSend
<1>3. IsFiniteSet(With(n)) /\ IsFiniteSet(YetToSend(n))
  BY <1>1, <1>2, FS_Subset
<1>4. With(n) \intersect YetToSend(n) = {}
  BY DEF With, YetToSend
<1>5. Cardinality(With(n) \union YetToSend(n))
        = Cardinality(With(n)) + Cardinality(YetToSend(n))
  <2>1. Cardinality(With(n) \union YetToSend(n))
          = Cardinality(With(n)) + Cardinality(YetToSend(n))
            - Cardinality(With(n) \intersect YetToSend(n))
    BY <1>3, FS_Union
  <2>2. Cardinality(With(n) \intersect YetToSend(n)) = 0
    BY <1>4, FS_EmptySet
  <2> QED BY <1>3, <2>1, <2>2, FS_CardinalityType
<1>6. Cardinality(With(n) \union YetToSend(n)) <= Cardinality(Procs)
  <2>1. With(n) \union YetToSend(n) \subseteq Procs
    BY <1>2
  <2> QED BY <1>1, <2>1, FS_Subset
<1> QED BY <1>1, <1>3, <1>5, <1>6, FS_CardinalityType

\* The same counts after a step.
LEMMA ProcsCountedNext ==
  ASSUME NEW n
  PROVE  /\ IsFiniteSet(With(n)') /\ IsFiniteSet(YetToSend(n)')
         /\ Cardinality(With(n)') \in Nat /\ Cardinality(YetToSend(n)') \in Nat
         /\ Cardinality(With(n)') + Cardinality(YetToSend(n)') <= Cardinality(Procs)
<1>1. IsFiniteSet(Procs)
  BY QueueAssumption, FS_AddElement DEF Procs
<1>2. With(n)' \subseteq Procs /\ YetToSend(n)' \subseteq Procs
  BY DEF With, YetToSend
<1>3. IsFiniteSet(With(n)') /\ IsFiniteSet(YetToSend(n)')
  BY <1>1, <1>2, FS_Subset
<1>4. With(n)' \intersect YetToSend(n)' = {}
  BY DEF With, YetToSend
<1>5. Cardinality(With(n)' \union YetToSend(n)')
        = Cardinality(With(n)') + Cardinality(YetToSend(n)')
  <2>1. Cardinality(With(n)' \union YetToSend(n)')
          = Cardinality(With(n)') + Cardinality(YetToSend(n)')
            - Cardinality(With(n)' \intersect YetToSend(n)')
    BY <1>3, FS_Union
  <2>2. Cardinality(With(n)' \intersect YetToSend(n)') = 0
    BY <1>4, FS_EmptySet
  <2> QED BY <1>3, <2>1, <2>2, FS_CardinalityType
<1>6. Cardinality(With(n)' \union YetToSend(n)') <= Cardinality(Procs)
  <2>1. With(n)' \union YetToSend(n)' \subseteq Procs
    BY <1>2
  <2> QED BY <1>1, <2>1, FS_Subset
<1> QED BY <1>3, <1>5, <1>6, FS_CardinalityType

\* The goroutine that sends n had yet to send it and has it in hand.
LEMMA SendTakes ==
  ASSUME MarkInv, NEW p \in Procs, NEW n \in Notes, Send(p, n)
  PROVE  /\ p \in YetToSend(n) /\ YetToSend(n)' = YetToSend(n) \ {p}
         /\ p \notin With(n) /\ With(n)' = With(n) \union {p}
         /\ UNCHANGED note /\ mail'[n] \in {mail[n], mail[n] + 1}
<1>1. sending[p] = None /\ n # None
  BY NoneAssumption DEF Send, MarkInv, InHand
<1>2. n \in list[p] /\ UNCHANGED <<list, note>> /\ sending' = [sending EXCEPT ![p] = n]
  BY DEF Send, tables, lifecycle
<1>3. \A q \in Procs : sending'[q] = IF q = p THEN n ELSE sending[q]
  BY <1>2 DEF MarkInv, RecordInv, QueueTypeOK
<1>4. mail'[n] \in {mail[n], mail[n] + 1}
  BY DEF Send, MarkInv, RecordInv, QueueTypeOK
<1>5. p \in YetToSend(n) /\ YetToSend(n)' = YetToSend(n) \ {p}
  BY <1>1, <1>2, <1>3 DEF YetToSend
<1>6. p \notin With(n) /\ With(n)' = With(n) \union {p}
  BY <1>1, <1>3 DEF With
<1> QED BY <1>2, <1>4, <1>5, <1>6

\* Marking a message takes it off the list of who had it in hand.
LEMMA MarkDrops ==
  ASSUME MarkInv, NEW p \in Procs, sending[p] # None, MarkSent(p) \/ MarkFailed(p)
  PROVE  sending[p] \notin list'[p] /\ note'[sending[p]] # "queued"
<1>1. sending[p] \in Notes
  BY DEF MarkInv, RecordInv, QueueTypeOK
<1> QED BY <1>1 DEF MarkSent, MarkFailed, Mark, Return, MarkInv, RecordInv, QueueTypeOK

\* While a message stays "queued" nobody who has it in hand lets go of it; when
\* it becomes so, nobody has mailed it.
LEMMA InHandStepCounted ==
  ASSUME RaceInv, ~Faults, [Next]_vars
  PROVE  CopiesInHand'
<1> USE DEF RaceInv, MarkInv, RecordInv
<1> SUFFICES ASSUME NEW n \in Notes, note'[n] = "queued"
             PROVE  mail'[n] <= Cardinality(With(n)')
  BY DEF CopiesInHand
<1>0. mail[n] \in Nat
  BY DEF QueueTypeOK
<1>1. CASE note[n] # "queued"
  <2>1. PICK p \in Procs : Enqueue(p) /\ n \in NotesOf(owed[p])
    BY <1>1, OnlyEnqueueWrites
  <2>2. note[n] = "unwritten"
    BY <2>1 DEF OwedInv, OwedUnwritten
  <2>3. mail'[n] = 0
    BY <1>0, <2>1, <2>2 DEF Enqueue, Queue, RecordedBeforeMailed
  <2> QED BY <2>3, ProcsCountedNext
<1>2. CASE note[n] = "queued"
  <2>1. mail[n] <= Cardinality(With(n))
    BY <1>2 DEF CopiesInHand
  <2>2. ASSUME NEW p \in Procs, Send(p, n) PROVE mail'[n] <= Cardinality(With(n)')
    <3>1. Cardinality(With(n)') = Cardinality(With(n)) + 1
      BY <2>2, SendTakes, ProcsCounted, FS_AddElement
    <3> QED BY <1>0, <2>1, <2>2, <3>1, SendTakes, ProcsCounted
  <2>3. CASE mail'[n] = mail[n]
    <3>1. With(n) \subseteq With(n)'
      <4> SUFFICES ASSUME NEW p \in Procs, sending[p] = n PROVE sending'[p] = n
        BY DEF With
      <4> QED BY KeptInHand, MarkDrops, NoneAssumption
    <3>2. Cardinality(With(n)) <= Cardinality(With(n)')
      BY <3>1, ProcsCountedNext, FS_Subset
    <3> QED BY <1>0, <2>1, <2>3, <3>2, ProcsCounted, ProcsCountedNext
  <2>4. ASSUME NEW p \in Procs, NEW m \in Notes, Send(p, m), m # n PROVE mail'[n] = mail[n]
    BY <2>4 DEF Send, QueueTypeOK
  <2> QED BY <2>2, <2>3, <2>4, OnlySendMails
<1> QED BY <1>1, <1>2

\* A message is listed anew only while it is "queued", when its copies are all
\* in other hands; each Send uses up a goroutine that had yet to send.
LEMMA ToComeStepCounted ==
  ASSUME RaceInv, ~Faults, [Next]_vars
  PROVE  CopiesToCome'
<1> USE DEF RaceInv, MarkInv, RecordInv
<1> SUFFICES ASSUME NEW n \in Notes
             PROVE  mail'[n] + Cardinality(YetToSend(n)') <= Cardinality(Procs)
  BY DEF CopiesToCome, Procs
<1>0. mail[n] \in Nat /\ mail'[n] \in Nat
  BY MailGrows DEF QueueTypeOK
<1>1. CASE note'[n] = "queued"
  <2>1. mail'[n] <= Cardinality(With(n)')
    BY <1>1, InHandStepCounted DEF CopiesInHand
  <2> QED BY <1>0, <2>1, ProcsCounted, ProcsCountedNext
<1>2. CASE note'[n] # "queued"
  <2>0. mail[n] + Cardinality(YetToSend(n)) <= Cardinality(Procs)
    BY DEF CopiesToCome
  <2>1. ASSUME NEW p \in Procs, Send(p, n)
        PROVE  mail'[n] + Cardinality(YetToSend(n)') <= Cardinality(Procs)
    <3>1. Cardinality(YetToSend(n)') = Cardinality(YetToSend(n)) - 1
      BY <2>1, SendTakes, ProcsCounted, FS_RemoveElement
    <3> QED BY <1>0, <2>0, <2>1, <3>1, SendTakes, ProcsCounted
  <2>2. CASE mail'[n] = mail[n]
    <3>1. YetToSend(n)' \subseteq YetToSend(n)
      <4> SUFFICES ASSUME NEW p \in Procs, n \in list'[p], sending'[p] # n
                   PROVE  n \in list[p] /\ sending[p] # n
        BY DEF YetToSend
      <4>1. n \in list[p]
        <5>1. ASSUME note[n] = "queued", n \notin list[p] PROVE FALSE
          <6>1. UNCHANGED note
            BY <5>1, OnlyPendingLists
          <6> QED BY <1>2, <5>1, <6>1
        <5> QED BY <5>1, ListIsRead
      <4>2. sending[p] # n
        BY KeptInHand, MarkDrops, NoneAssumption
      <4> QED BY <4>1, <4>2
    <3>2. Cardinality(YetToSend(n)') <= Cardinality(YetToSend(n))
      BY <3>1, ProcsCounted, FS_Subset
    <3> QED BY <1>0, <2>0, <2>2, <3>2, ProcsCounted, ProcsCountedNext
  <2>3. ASSUME NEW p \in Procs, NEW m \in Notes, Send(p, m), m # n PROVE mail'[n] = mail[n]
    BY <2>3 DEF Send, QueueTypeOK
  <2> QED BY <2>1, <2>2, <2>3, OnlySendMails
<1> QED BY <1>1, <1>2

\* Every further copy takes another goroutine that read the row as "queued",
\* however many requests race and whatever is deleted meanwhile.
THEOREM OneCopyEach ==
  ASSUME ~Faults
  PROVE  Spec => []DuplicatesNeedRace
<1>1. Init => RaceInv
  <2> SUFFICES ASSUME Init PROVE RaceInv
    OBVIOUS
  <2>1. MarkInv
    BY InitTypes DEF Init, MarkInv, RecordInv, ListsAreRecorded, RecordedBeforeMailed, InHand,
       OwedInv, OwedCounted, RowsCounted, OwedOnce, OwedUnwritten, BatchIsOwed, NotesOf
  <2>2. \A n \in Notes : mail[n] = 0
    BY DEF Init
  <2>3. CopiesInHand
    BY <2>2, ProcsCounted DEF CopiesInHand
  <2>4. CopiesToCome
    BY <2>2, ProcsCounted DEF CopiesToCome
  <2> QED BY <2>1, <2>3, <2>4 DEF RaceInv
<1>2. RaceInv /\ [Next]_vars => RaceInv'
  <2> SUFFICES ASSUME RaceInv, [Next]_vars PROVE RaceInv'
    OBVIOUS
  <2>1. MarkInv'
    BY RecordStep, InHandStep, OwedInvStep, BatchStep DEF RaceInv, MarkInv, RecordInv
  <2> QED BY <2>1, InHandStepCounted, ToComeStepCounted DEF RaceInv
<1>3. RaceInv => DuplicatesNeedRace
  <2> SUFFICES ASSUME RaceInv, NEW n \in Notes PROVE mail[n] <= Cardinality(Procs)
    BY DEF DuplicatesNeedRace
  <2>1. mail[n] \in Nat /\ mail[n] + Cardinality(YetToSend(n)) <= Cardinality(Procs)
    BY DEF RaceInv, MarkInv, RecordInv, QueueTypeOK, CopiesToCome
  <2> QED BY <2>1, ProcsCounted
<1> QED BY <1>1, <1>2, <1>3, PTL DEF Spec

=============================================================================
