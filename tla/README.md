# Waaris: TLA+ specification, model checking and proofs

Waaris lets a person write a "digital will", name trustees, and have the trustees
confirm that the person is gone after a long silence. The implemented part is a Go
*enrollment* service (wills, trustees, heartbeats, verification, notifications) over
Postgres, a Go *authentication* service, and a React dashboard. These modules model
that code as it is, check it on small instances with TLC, and prove with TLAPS, for every instance, the invariants of
each part, and that the service and the tests' store implement the lifecycle contract. Line
numbers refer to the repository.

## 1. Inventory

| Component | State | Operations | Interacts with | Hard parts |
|---|---|---|---|---|
| Enrollment store, `services/enrollment/internal/infrastructure/postgres/store.go` | wills, versions, trustees, verification requests and responses, notifications, audit rows | one transaction per method; the owner's `users` row is locked first | service, worker, migrations (unique indexes, cascades) | soft deletion, restored wills, second rounds, instants read before the locks |
| Enrollment service, `internal/application/service.go` | none of its own | authoring calls, heartbeat, trustee decisions, lifecycle tick | store, queue, notifier | checks made in other transactions than the writes |
| Lifecycle worker, `cmd/server/main.go:130` | a ticker | `ProcessLifecycleTick` | service | scan then transition, first error ends the sweep, work after commit |
| Notification queue and SMTP | `notifications` rows | `Enqueue`, `Pending`, `MarkSent`, `MarkFailed`, `Send` | service | loss between commit and queueing, double sending, overwritten marks, limits |
| Locks and connections of the store | row locks, pool | every statement | Postgres, all callers | lock order, a second connection while holding one |
| In-memory store | maps under one mutex | the same interface | tests | differs from Postgres in places |
| HTTP transport, validation, token verification | none | decode, authorise, map errors | service | none that keeps state |
| Authentication service | users, refresh tokens, audit | register, login, refresh, logout, delete profile | dashboard | single-use rotation, races, lost answers |
| Dashboard session | the token pair in localStorage, each tab's user and availability cache | restore, sign in, log out, edit and delete the profile | authentication service, or the mock in the browser | several tabs over one pair, read before a call and written after it |
| Heartbeat, notification, witness services; MPC, ZK, contracts, mobile, deployment | none | health endpoints only, or empty directories | - | not implemented |

What makes each correct:

- **store**: rounds, lifecycle, stage timestamps, versions and responses agree with each
  other; closed rounds are final; grace needs the round's approvals; a deleted will is frozen.
- **service and worker**: configuration is locked outside `active`; a published will keeps
  a trustee; only published wills with trustees are verified; grace is the decision of a
  majority and is waited out in full; a dormant will is eventually verified.
- **queue**: every transition's messages are queued, each is sent, marks tell the truth.
- **authentication**: a refresh token works once; a session that was ended stays ended; no
  token outlives its account.
- **dashboard**: an undisturbed user is not logged out and leaves no usable session behind.
- **locks**: owners' calls and sweeps do not deadlock among themselves, nor do deliveries; the pool is not exhausted for good.
- **in-memory store**: what the tests see is what the contract promises.

`PROJECT.json` lists the hazards at their lines and the properties that watch them.

## 2. Modules

| Module | Role |
|---|---|
| `WillStore` | the lifecycle tables and every transaction on them, one action each |
| `MCWillStore` | TLC instance of it |
| `EnrollmentService` | extends `WillStore`: the service's calls as read steps followed by a transaction, and the worker's sweep |
| `LifecycleContract` | abstract specification: the state transition contract of `API_SPEC.md:153-166` |
| `MCEnrollment` | TLC instances of the service |
| `NotificationQueue`, `MCNotificationQueue` | what follows a transition's commit: queueing and delivery, by several goroutines |
| `AuthSessions` | accounts, refresh tokens and the calls on them, for any clients |
| `DashboardSession`, `MCDashboard` | extends `AuthSessions`: tabs, the stored pair and the mock as its clients |
| `MemoryStore`, `MCMemoryStore` | the store the tests run on, as an implementation of `LifecycleContract` |
| `StoreLocks`, `MCStoreLocks` | the row locks and connections inside the store's transactions |
| `WillStoreProofs` | theorems about the store |
| `EnrollmentProofs` | the service implements the store, so the store's theorems hold of it; its types, and the authoring rules that hold when one call or sweep runs at a time |
| `ContractProofs` | then the service implements `LifecycleContract` |
| `NotificationProofs` | theorems about the queue |
| `AuthProofs` | theorems about the authentication service, and that the dashboard is a client of it |
| `DashboardProofs` | what an undisturbed user of the dashboard keeps |
| `MemoryProofs` | theorems about the tests' store, and that it implements `LifecycleContract` |
| `LockProofs` | theorems about circles of waiting transactions and the pool |

### State and actions

`WillStore` keeps one row per id: `will` (a `digital_wills` row, `row` telling absent, live and
soft-deleted apart), `history` (its `will_versions`), `trustee`, `request`
(`verification_requests`), and `latest`, the newest response per request and trustee, which is
all `approvalCount` reads of `verification_responses`. `now` is the clock in days.

| Action | Code |
|---|---|
| `CreateWill`, `UpdateWill`, `DeleteWill` | `store.go:23-166` |
| `CreateTrustee`, `UpdateTrustee`, `DeleteTrustee` | `store.go:206-292` |
| `SubmitHeartbeat` | `store.go:294-343` |
| `StartVerification`, `EndGrace` | the two cases of `transitionSingleWill`, `store.go:728-793` |
| `RecordVerificationDecision` | `store.go:454-541` |
| `Begin`, `CountTrustees`, `Commit`, `Fail` (service) | `service.go:49-166`: lifecycle check, trustee count, transaction, any error |
| `Direct` (service) | heartbeat, decision, will deletion: one transaction, no check before it |
| `StartSweep`, `SweepTransition`, `SweepNothingDue`, `AbortSweep` | `store.go:374-408` under `service.go:225` |

`NotificationQueue` keeps, per goroutine, what it holds in memory between statements (the transitions it owes
messages for, `owed`; the messages composed of them, `batch`; those read for delivery, `list` and `sending`), the
`notifications` rows (`note`), the trustees each will still has (`panel`), and the copies the mail server took (`mail`).
`editing` are the wills a trustee deletion has passed its lifecycle check for.

| Action | Code |
|---|---|
| `StartTick`, `SweepOne`, `SweepMissesWill`, `EndSweep` | `service.go:225-247` over `store.go:374-408` |
| `RestoringHeartbeat`, `Reread`, `DecisiveResponse` | `service.go:168-188`, `service.go:272-284` |
| `Enqueue`, `Pending`, `MarkSent`, `MarkFailed` | `store.go:583-672` under `deliverPending`, `service.go:249-270`; `Enqueue` fails by the foreign keys of its rows (`Insertable`): a will or a trustee that is gone |
| `EditableWill`, `DeleteTrustee` | a trustee deletion, its check and its transaction: `service.go:135-166`, `store.go:267-292` |
| `Send` | `smtp_notifier.go:23-68`: delivered, refused, or delivered with an error from `Quit` |
| `DeleteWill`, `DeleteAccount`, `Fail`, `Crash` | soft deletion, cascading deletion, any error, restart |

`AuthSessions` keeps a row per account and per refresh token, and per caller the call it waits for:
what the request carried, and what the handler holds between its statements.

| Action | Code |
|---|---|
| `Begin` | a request reaches the handler, `handler.go:68-167`; for a refresh it also fixes what the clock says of the token |
| `CreateUser`, `UserByEmail`, `CreateRefreshToken`, `AppendAuditEvent` | the statements of `Register` and `Login`, `service.go:30-63`, `service.go:102-116` |
| `RotateRefreshToken`, `RevokeRefreshToken` | `store.go:62-88` of the authentication service |
| `UpdateProfile`, `DeleteUser` | `store.go:40-55`, with the cascade of migration 2 |
| `Fail`, `Lose`, `End`, `Expire` | an error at any statement, a lost answer, the caller goes on, `expires_at` passes |

`DashboardSession` adds the stored pair (`stored`), what each tab shows and which API it found (`tab`),
and the mock's account (`demoUser`).

| Action | Code |
|---|---|
| `Open`, `SessionArrives`, `RefreshRefused` | the effect of `AuthProvider`, `AuthContext.tsx:39-53` |
| `SubmitForm`, `Logout`, `LogoutAnswered` | `AuthContext.tsx:55-81` behind the routes of `RouteGuards.tsx` |
| `EditProfile`, `ProfileArrives`, `AccountDeleted`, `ErrorShown` | `AuthContext.tsx:83`, `ProfilePage.tsx:27-38`, `api.ts:70-92` |
| `MockAnswer` | `mock.ts:55-123` |
| `Serve`, `Fault`, `Lapse`, `Close` | the service works, fails or loses an answer; a token expires; a tab is closed or reloaded |

`MemoryStore` keeps one will per user with its history, trustee lists and rounds by id, as the maps do. Each
call is one step together with the checks of `service.go` before it, and `TransitionOverdueWills` moves
all users in one step (`Swept` says where each of them goes), as it does under its mutex.

`StoreLocks` keeps per caller its operation, its connections and how many of the operation's locks
it has. `TakeLock` takes the next one unless another transaction holds it in a conflicting mode; `Leave` is
commit or rollback; `Abort` is what Postgres does to a circle. The rows are an owner's account, live will and round,
a deleted will and its round, and a notification; `Locks` lists what each operation locks, in the order of its statements and, within
an insertion, of its foreign keys. `update` stands for edits and deletion of the will, trustee insertions and changes, and a sweep's
transition; `enqueue` and `mark` are the locks of `Enqueue`, and of `MarkSent` and `MarkFailed`, audit rows included. `Reaches` is reachability without recursion: q is reached from p
when every set of callers that lacks q has a wait leaving it or p. Connections in use are counted as a set of pairs (`InUse`).

Why a transaction is one action: `loadWill ... FOR UPDATE` and the decision's
`SELECT ... FOR UPDATE` both lock the owner's `users` row, and the insert of a will takes a
key-share lock on it through its foreign key, so transactions on one owner's rows run one
after the other and read what the previous one committed. A transaction that fails rolls
back, which is no step. What is *not* atomic is modelled apart: the instant a transaction
writes was read before it got its locks (`ClockReading`), and the service's checks are
reads of their own.

Two folds. `TrusteeCount` runs two statements (the will's id, then the count); they are one
step, as a will deleted in between gives a count nobody can use. A transaction that waited
for its locks while the owner deleted and recreated the will answers `ErrNotFound`, which is
`Fail`.

### Abstractions

Names, relationships, policy texts, release categories and consent rows ride along with
`config` and decide nothing. Audit events and heartbeat history are written and never read
by a transition. Times are whole days, the unit of both intervals. Trustee emails are
distinct values already lower-cased (`normalizeTrusteeInput`); `OwnerEmail` is the owner's.
Responses `reject` and `abstain` count alike, so runs use `approve` and `reject`.

In `NotificationQueue` a transition may happen whenever its stage allows it (when it is due
is `WillStore`'s matter), and trustees only leave: one added later is told of no earlier transition. Messages go to the
owner and to the trustees there were when they were composed. A limited `Pending`
returns any of the queued rows: messages of one batch have one `queued_at`, so their order is open
anyway, and letting batches mix only adds behaviours. `Fail`, where `Faults` allows it, also stands for an `Enqueue` or a mark
that Postgres aborts to break a deadlock. A trustee whose notification was mailed and who is deleted leaves the row (`ON DELETE
SET NULL`): the message keeps its name in the model.

In `AuthSessions` a session is what one sign-in starts; the code keeps no such identity, the field exists to
state properties. Passwords and signatures are not modelled: a wrong password, a forged or an expired access
token makes the call fail, which every call may do at any point. Reading a profile changes nothing and is left out.

In `DashboardSession` a tab waits for one call before its user starts the next, and the two keys of the
pair are written together: the forms are disabled while they are submitted, and the keys are set by one handler. The mock has one demo account. A closed
tab's request is one the server has not begun or has answered.

`MemoryStore` leaves out the timestamps the store only writes, and notifications, audit and heartbeat history.

In `StoreLocks` a statement that locks none of the modelled rows is left out: plain reads, inserts of rows nobody else names, waits on
unique indexes, and the locks on trustees, as whoever takes one has the owner's account. An owner has one notification row, the
one that marks and trustee deletions meet at. Which will is live, and which one deleted, does not change while calls wait: a call about
either may run at any time. `WillHistory` asks for its second connection once, as it gives it back before it asks again.
Every heartbeat is taken to restore: one that does not has the locks of `update`.

## 3. Runs

| Run | Question | Result |
|---|---|---|
| `will_store` | do the tables stay consistent under the transactions in any order, with none of the service's checks | holds, 701 thousand states |
| `serial_enrollment` | with one call or sweep at a time, do the authoring rules hold and is the contract implemented | holds, 230 thousand states |
| `worker_liveness` | with overlapping calls and failing sweeps, does the worker still do its work | holds, 39 thousand states |
| `overlap_trustees` | does a published will keep a trustee when calls overlap | violated |
| `overlap_majority` | is grace always a majority's decision when calls overlap | violated |
| `queue_faults` | with errors, crashes and deletions at any step, is mail recorded first and `sent` true | holds, 710 thousand states |
| `queue_overlap` | without them, is every transition announced and every message marked, however deliveries race | holds, 740 thousand states |
| `queue_liveness` | without them, is every queued message dispatched | holds, 9 thousand states |
| `lost_announcement` | does the deletion of a will alone lose another owner's announcement | violated |
| `sessions` | with failures and lost answers anywhere, do sessions end when they should, and does an undisturbed user keep theirs | holds, 286 thousand states |
| `memory_calls` | does the tests' store keep the contract, a sweep over two owners included | holds up to the point below, 118 thousand states |
| `row_locks` | who can deadlock, and who can exhaust the pool | holds, 166 thousand states |

The `overlap` violations are one weakness seen from two rules. The service (or the sweep) reads the lifecycle,
the status or the trustee count first, and the store transaction that follows does not read them again
although it holds the very row lock that would make the reads reliable.

- `overlap_trustees`: a `CreateWill` that publishes counts the trustee of the will its owner still has; a
  `DeleteWill` commits; the creation inserts a published will without a trustee. `API_SPEC.md:153` promises that published
  wills retain one. This is TLC's shortest trace. A draft's last trustee deleted while the publication that counted it is on
  its way, or two deletions that both counted two, break the rule in the same way.
- `overlap_majority`: `CreateTrustee` sees `active`; the worker opens a round with threshold 1 for
  the one trustee; the second trustee is inserted, where `API_SPEC.md:153` promises a `409`; one approval opens the grace period.
  `API_SPEC.md:163` asks for a majority of current trustees.

`ConfigLockedOutsideActive`, `OnlyPublishedWillsLeaveActive`, `RoundsStayWinnable` and `ImplementsContract` fail with
overlap for the same reasons: the first at the insertion of the trace above; the second, for one, when an owner makes a draft of a will
that a sweep has listed, as the transition looks at lifecycle, trustees and silence, but not at the status again. They are checked in the
serial run only. That run is about the checks themselves (boundaries, rounds, restores, long sequences of calls); it says
nothing of checks that went stale. The properties of `will_store` hold with overlap, as do `ClosedRoundsStayClosed` and `GraceNeedsApprovals`: that is what
`EnrollmentProofs` proves.

`lost_announcement` is another matter: the worker moves one will to pending verification, the next
will of its scan has been deleted, `ErrNotFound` ends the sweep, and the events so far are dropped
with the error (`store.go:400`). The moved will is not selected again, so its owner and trustees are never
told. `API_SPEC.md:168` promises the messages.

A trustee's deletion is enough, too, without errors and with all wills in place: a heartbeat restores a will and reads its trustees; the restored will is editable,
and one of the trustees is deleted; `Enqueue` then inserts a row for a trustee that is gone, the foreign key fails it (migration
`000004:75`), and the whole batch is rolled back. The retried heartbeat restores nothing and so announces nothing. This is TLC's
shortest trace when `LostAnnouncement.cfg` is given `Wills = {w1}`, `Leavers = {}`, `Editors = {w1}` and two trustees.

The other ways to lose announcements, all steps of the model, are: a heartbeat whose own will is deleted before it is read
again (`service.go:174`); an account deleted before `Enqueue`, which fails by the same kind of foreign key, with the messages of other owners in a worker's batch;
and an error or a crash between the commit and `Enqueue`. `AnnouncedWithoutFaults` shows that there are no more: without errors,
crashes and deletions of wills, accounts and trustees, nothing is lost.

The documents promise no single delivery, no retry and no order, and the code gives none: goroutines that
read the same row each mail it and the last mark stays; leftovers beyond the limit, or of a delivery that
failed, wait for the next transition. A row may say failed where the mail went out. `DuplicatesNeedRace`, `MailedIsMarked` and `QueuedIsDispatched` say what remains true.

`sessions`: rotation, the cascade and the revocation hold against every race. What the client makes of them is
weaker, and `Disturb` in `DashboardSession` lists exactly when. Calls of two tabs at once, a sign-in or a mock call over
a stored pair, a failing refresh or logout, and a lost answer each can leave a usable token that nobody has, or
a stored one that no longer works. `SessionsAreHeld` and `StoredTokenWorks` say that nothing else does. Two causes deserve
a reader's attention: two tabs opened together both present the stored token, and the one refused clears
the pair the other has just stored (`AuthContext.tsx:51`); and a tab whose probe once failed hands a good
pair to the mock, which refuses it (`api.ts:14`).

`memory_calls`: `RecordVerificationDecision` of the in-memory store finds the will by its owner
(`memory/store.go:398`). After the owner has deleted a will in verification and created another, a majority on
the old round moves the *new* will to its grace period, from any stage. Postgres joins by the
round's will. `crossed` marks such wills; up to there the contract holds, its majority included. A second difference needs no property: `UpdateTrustee`
(`memory/store.go:208`) notices a duplicate address only before the trustee it edits.

`row_locks`: `loadWill` locks will and owner in one order everywhere, so owners' calls, sweeps and the notifications of live wills
never deadlock among themselves. Each circle has one of four calls that come to the will in another order (`Inverted`): a decision locks the
round first and share-locks the answering trustee's account last (two owners may be each other's trustees); an account deletion locks the account
first; a mark locks the notification, and then its audit row share-locks the account before the will; and the audit row of a deleted will's
notification share-locks the live will after the account. So a delivery can deadlock with a heartbeat, an edit or a
sweep's transition of the same owner, and with a trustee deletion, which sets the trustee of the notification to null. Deliveries never
deadlock with each other: they share all but the notification, which they take first. Postgres fails one call of
a circle; its caller sees an error, and a delivery that is failed leaves the rest of its list queued. `WillHistory` is
the one call that can stop the service for good: with
as many of them as connections, each holds one and waits for another, and no deadlock detection sees it. Request
contexts that are cancelled free them (`Cancel`).

`DeletedWillsKeepTheirConfig` is about a deleted will's row and history. Its trustees do change: trustees are found by owner, so the owner's next
will lets those of the old one be edited and deleted. Documents say nothing of that.

### Bounds

- One owner: every read and write of a transaction is keyed by the owner, and the sweep
  treats owners independently except that an error ends it, which `AbortSweep` lets happen
  at any time for any reason.
- Two wills in `will_store` (one deleted, its successor live) and two trustees (the smallest panel in
  which half is not a majority). Rounds are few there: a second one per will, after a restore, is what
  `serial_enrollment` adds, and the two properties about finished rounds are checked in it.
- Three trustees in `serial_enrollment`: odd and even panels, and removal from three to two.
- `DormancyDays = GraceDays = {1}` and a clock of two days: one day for each interval, with room
  to restore or recreate on the second. `MaxTime`, `MaxVersion` cut the clock and the edits off; ids
  run out. That is why deadlock is not checked: a bounded instance stops, the system does not.
- `MaxLag` is the longest wait between reading the clock and committing. It is 1 in
  `worker_liveness` and 0 elsewhere, where transactions of the same day still commit in either
  order; the theorems hold for every lag.
- Two callers in the violation runs: the fewest that can overlap.

- Queue runs start in any stage, as a server finds its database, so a few further transitions
  per will reach every producer. `queue_faults` has two wills with two recipients each, one of which may lose its trustee and
  its account, and limits of 2 and 1 against a backlog of 4. `queue_overlap` has one will with three transitions in a row,
  announced and delivered by whichever goroutine; `MaxMail` is one more than `DuplicatesNeedRace` allows there. `queue_liveness` has
  limits that cover the backlog: beyond its limit a delivery does leave messages behind. It has no trustees, to stay small: its
  transitions are the restorations of two wills, each with a message that either request's delivery may take. The violation run is the smallest with a second will.

- `sessions`: two tabs, the fewest that race; one address, which two accounts have in turn; three tokens, one more than
  a rotation needs, so that the session the answer was lost of is still there when the next begins. No counter is
  cut off. The theorems of `AuthProofs` are for any number.
- `memory_calls`: two owners, as a sweep moves the wills of all under one lock; two wills, either one of each owner or two of one in turn,
  and a round for each; two trustees between them, the smallest panel in which half is not a majority. Ids run out, so deadlock is not checked.
- `row_locks`: two owners, each other's trustees; three callers and as many connections: a circle of three, and a pool that three histories
  exhaust. Deadlock is checked.

Ids are symmetric. The placeholders of rows that do not exist yet are read by nothing, so
they do not break the symmetry. Runs with a liveness property use no symmetry.

### Fairness

`FairService` assumes weak fairness of `StartSweep` (the ticker of `main.go:134` keeps calling),
of `AbortSweep` and `SweepNothingDue` (a sweep ends: each of its statements returns or fails), and strong
fairness of `SweepTransition` (a transition that is due in sweep after sweep does not meet an
error in every one). Nothing is assumed of owners, trustees or calls. A sweep that is never
aborted before it reaches an owner is *not* assumed.

`DormantWillsAreVerified` asks for a free round id (`RequestLeft`), as ids are bounded here.

`FairQueue` assumes weak fairness of each goroutine's next step once it has begun: statements return and
`Send` has a deadline. No tick or request is assumed to come, so a message is dispatched by deliveries
already under way or not at all.

## 4. Proofs

`WillStoreProofs` proves about `Spec` of `WillStore`, for all values of the constants allowed by
`StoreAssumption`:

- `TypeCorrectness`: `TypeOK` is inductive by itself.
- `RoundsMatch`, `TimestampsMatch`, `VersionsMatch`, `ResponsesMatch`: the four other invariants of the run.
  Their conjunction with `TypeOK` and `AbsentWillsAreActive` (`IInv`) is inductive. The last part is
  needed because `CreateWill` turns an absent row into an active one: the row's round
  condition must already have been that of an active will.
- `ClosedRoundsAreFinal`, `DeletedWillsAreFrozen`: action properties, from `TypeOK` alone.
- `GraceIsApproved`: the panel that witnesses it is the set of approvers after the step; it is
  inside the will's trustees because `ResponsesComeFromTrustees` holds *after* the step, so the
  proof uses `IInv'` as well as `IInv`.

`EnrollmentProofs` proves `ServiceSpec => Spec` (`ServiceImplementsStore`): a call in flight is one
of `Calls`, so what it commits is an `OwnerStep`; a sweep's transition is a `WorkerStep`; every other
step leaves the tables alone. The store's theorems follow for the service, with `Overlap`
either way (`ServiceRoundsMatch`, `ServiceGraceIsApproved`).

It also proves `ServiceTypes` with `Overlap` either way, and for `Overlap = FALSE` the rules of the serial run:
`PublishedKeepATrustee`, `OnlyPublishedLeaveActive`, `RoundsWinnable`, `ReadyWaited`, `MajorityDecides`, `ConfigLocked`. Their inductive
invariant `SerialInv` is `IInv` together with what the code relies on between its reads and its write:

- `OneAtATime` and `ChecksHold`: the one call in flight finds the lifecycle and the trustee count as it checked them;
  these are the parts that fail with `Overlap = TRUE`, and with them the rules.
- `OneLiveWill` (the unique index on an owner's live will): the will a check looked at is the will the transaction writes.
- `SweepIsCurrent`: an owner on the sweep's list has a published will when its transaction runs.
- `RulesFollowed`: per live will the four rules, with the threshold of an open round *equal* to the majority of the trustees
  the will has now. `RoundsStayWinnable` bounds it only; the equality is what `MajorityDecides` needs beside `GraceIsApproved`.

There is one lemma per transaction (`CreateWillRules` to `DecisionRules`), with just the checks its call makes as assumptions.

`ContractProofs` proves `~Overlap /\ ServiceSpec => ImplementsContract` (`ServiceImplementsContract`). A step of the contract is
one step for each will, or none (`Step(w)`, `Stays(w)`), as a sweep of the tests' store moves several. A lemma per kind of step
(`IsOpen` to `IsClose`) says what must happen to one will's view; a transaction of the service moves one will (`OneWillMoves`), and a lemma
per transaction shows which of the steps it is: authoring, opening, closing, a response, the three moves forward, the way back, or none.
Two facts are needed beyond `SerialInv`: a will not yet created has no trustees (`NoStrayTrustees`), so it opens with an empty
panel; and responses come from the will's own trustees, so a new round starts without approvals and a removed
trustee takes none from another will.

`NotificationProofs` proves about `Spec` of `NotificationQueue`, for any number of goroutines, wills and
recipients, and any limits:

- `MailIsRecorded`, `SentIsTrue`: with faults of every kind. The first needs that a goroutine's list has rows
  (`ListsAreRecorded`), as rows are never unwritten (`WrittenStays`); the second that a goroutine about to
  mark a message sent has mailed it (`AboutToMarkSent`).
- `AnnouncedWithoutFaults`, assuming no faults and no deletions of wills, accounts or trustees (`~Faults`, `Leavers = {}`, `Editors = {}`; each
  of the three is a way to lose messages, above): a goroutine that owes messages is on its way to `Enqueue`, has composed all of them once it
  is there, and composed them for trustees there still are (`Composed`), so the insertion succeeds and no return drops them.
- `MarkedWithoutFaults`, assuming no faults: what is owed has no rows yet and one goroutine owes it (`OwedInv`),
  so no `Enqueue` sets a mailed message back to queued, and whoever has one in hand marks it.
- `OneCopyEach`, assuming no faults: `DuplicatesNeedRace` counts copies against goroutines, and is not inductive. `RaceInv` counts
  who may still add one: while a row is queued, its copies are all in the hands of goroutines that will mark it
  (`CopiesInHand`), so a goroutine that reads it then is a further one; and the copies made and still to come together are no more
  than there are goroutines (`CopiesToCome`). Deletions are allowed; requests are finitely many (`QueueAssumption`).

`AuthProofs` proves about `AuthSpec`, for any number of accounts, tokens and callers, and whatever the callers ask:

- `AuthTypes`: `AuthTypeOK` is inductive.
- `OneCurrentToken`: a step is one of five kinds to the token table (`StepKinds`: it registers an account, issues a first token,
  replaces one by the next, demotes tokens, or deletes those of an account). The proof needs that an issued token's session
  is one whose first token was issued (`SessionsAreRooted`): a fresh token starts a session no other token is in.
- `NoTokenOutlivesItsAccount`: inductive with the types; the foreign key is what a late `CreateRefreshToken` fails by.
- `NoSessionIsRevived`: an action property from the same kinds of step: only a current token has a successor.
- `DashboardIsAClient`: `DashboardSpec => AuthSpec`. A tab asks only what `Requests` allows, as the pair it stores and the answers it
  waits for name issued tokens and known accounts (`ClientInv`). The theorems above hold under the dashboard.

`DashboardProofs` proves about `DashboardSpec`, for any number of tabs, accounts and tokens:

- `DashboardTypes`: inductive with `OneApiAtATime` (a tab waits for the service or for the mock, never for both) and `ClientInv`.
- `NoSignInIsLeftBehind` and `ReloadFindsSession`, from one invariant, `HeldInv`. The property says where a usable token may be, not
  why the next answer keeps it there. `Calm`, which holds until `disturbed`, says it: at most one tab has a call
  under way; the stored token works unless that call is just replacing or ending it; and `CallHolds` says for every call, and at
  each of its statements, which token it holds and what the answer will do to the stored pair. `Disturb` records a step that
  breaks one of these; the proof shows that its list is complete. After a disturbance neither theorem claims anything.

`MemoryProofs` proves about `MemorySpec`, for any number of users, wills, trustees and rounds. Its invariants are built on each other:

- `PanelInv` (`MemoryTypes`): a will has no two trustees with one id, so no more than there are ids; the store never states it,
  and `Cardinality` of the panel in `MemoryTypeOK` depends on it.
- `OwnInv`: no two users share a will's id, a round belongs to a will issued and its owner, an unused round has no responses.
- `QuietInv` (`OneRoundEach`): a will that no earlier round moved waits exactly while one round is open; and an active will
  has none, whatever moved it before: the second part holds of crossed wills too, and every edit relies on it.
- `OnlyTrusteesCount`: with `QuietInv`, as trustees are edited only while a will is active.
- `RuleInv` adds what the contract needs: a will not issued has no trustees, an open round's threshold is the majority of its panel,
  and what is published has a trustee.

`StoreImplementsContract` maps each call to a step of the contract or to none, with a lemma per call, for any number of owners. Only a sweep
moves more than one will: `SweepMoves` and `SweepLeaves` show that each will takes a step of its own or stays, `SweepIsTransition` puts them together.

`LockProofs` proves about `LockSpec`, for any number of callers, owners and connections. `LockInv` is the types with
`LocksExclude` (two calls hold no conflicting locks) and `LocksNeedConnection` (a call with a lock has its connection).

- `CirclesNeedAnInversion`: each member of a circle waits for another member (`CircleGoesOn`), and a call that is not `Inverted`
  holds its live will before anybody can wait for its other rows (`HoldsTheWill`). A call that has it exclusively then waits for nobody
  in the circle (`OwnersDoNotCircle`), so all members would be notifications of live wills; but those share their locks.
- `DeliveriesRunFreely`: the rows that `enqueue`, `mark` and `create_will` take for themselves are the first they take, so none of them waits for
  another while it has what a third one needs (`DeliveriesDoNotWait`).
- `OnlyHistoriesStick`: if everybody with a connection waited for a lock, following the waits would never end
  (`EndlessWaitsCircle`: among finitely many callers, one with the fewest reachable is in a circle), and Postgres breaks a circle. So the rest wait for
  connections, all are taken, and only a history holds one while it waits for another.

Each preservation lemma has a step per action. Steps that rewrite one will row are reduced to
a statement about that row (`StampsOneRow`, `OtherWillsFrame`), steps that leave the relevant tables
alone to a frame lemma (`RoundFrame`, `VersionFrame`, `ResponsesFrame`).

Assumptions on constants are those of the modules. Three say that a set is finite, as the counting arguments need it: `Handlers`
(requests a server works on), `Trustees` (ids given out), `Callers`.

Only model-checked: the liveness properties, as liveness under fairness is outside the prover: `DormantWillsAreVerified`,
`GraceEventuallyEnds` and `QueuedIsDispatched`. The authoring rules are proved without overlap only, as they fail with it; the
store's invariants hold either way.

## 5. Not modelled, and the plan

Not modelled for lack of state: HTTP decoding and validation, the dashboard's pages, the
health-only services. Not modelled because nothing overlaps in it and no transition reads it: the authentication service's
in-memory store, the notification slice of the enrollment one, the mock's enrollment data. Not implemented in the
repository: MPC, zero-knowledge proofs, contracts, crypto-shredding, the DP pipeline, the mobile app.

Next, in this order:

1. `NotificationQueue` over the transitions of `EnrollmentService` instead of an abstract lifecycle, and account deletion
   (a cascade) in `WillStore`.
2. Proofs: the rules that survive overlap as statements of their own (what a round's votes and threshold mean when trustees were added
   meanwhile), and what remains of a session after each single disturbance.
