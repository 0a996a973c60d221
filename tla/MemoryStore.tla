----------------------------- MODULE MemoryStore -----------------------------
(***************************************************************************)
(* The in-memory store the enrollment service's tests run on               *)
(* (services/enrollment/internal/infrastructure/memory/store.go), with the *)
(* checks application/service.go makes before it calls the store.          *)
(*                                                                         *)
(* The tests make one call at a time, so a call is one step, its checks    *)
(* included, and a sweep is one step for all users.  The store keeps one   *)
(* will per user: creating a will again forgets the deleted one, while its *)
(* trustees and rounds stay in their maps.                                 *)
(*                                                                         *)
(* pending_verification_started_at and ready_for_execution_at are written  *)
(* and never read, and are left out.  Addresses are those a trustee may be *)
(* given: not the owner's.                                                 *)
(***************************************************************************)
EXTENDS Integers, FiniteSets, SequencesExt

CONSTANTS
  Users,
  Wills,            \* ids wills may get
  Trustees,         \* ids trustees may get
  Emails,           \* lower-cased addresses
  Requests,         \* ids rounds may get
  Decisions,
  DormancyDays,
  GraceDays,
  MaxTime,          \* bound: the clock stops here (days)
  MaxVersion        \* bound: versions of one will

ASSUME MemoryAssumption ==
  /\ IsFiniteSet(Trustees)
  /\ Decisions \subseteq {"approve", "reject", "abstain"}
  /\ DormancyDays \subseteq Nat \ {0} /\ GraceDays \subseteq Nat \ {0}
  /\ MaxTime \in Nat /\ MaxVersion \in Nat \ {0}

Never == -1        \* a nil timestamp

Config == [status : {"draft", "published"}, dormancy : DormancyDays, grace : GraceDays]

StoredWill == [id : Wills, deleted : BOOLEAN, history : Seq(Config), lifecycle :
                 {"active", "pending_verification", "grace_period", "ready_for_execution"},
               lastHeartbeat : Nat \union {Never}, graceStarted : Nat \union {Never},
               updatedAt : Nat]

NoWill == [id |-> "none"]

Round == [status : {"pending", "resolved", "cancelled"}, will : Wills, user : Users,
          threshold : Nat]

NoRound == [status |-> "absent"]

VARIABLES
  now,         \* the clock, in days
  wills,       \* by user; history holds the current configuration last
  trustees,    \* by will: ids and addresses, in the order they were added
  rounds,      \* verifications
  latest,      \* newest decision per round and trustee
  issued,      \* ids that wills have had (uuid.New does not repeat one)
  crossed      \* wills moved by a round of an earlier will (for properties only)

memoryVars == <<now, wills, trustees, rounds, latest, issued, crossed>>

-----------------------------------------------------------------------------
\* Reads

\* getWillLocked
Live(u) == wills[u] # NoWill /\ ~wills[u].deleted

Current(u) == Last(wills[u].history)

OwnTrustees(u) == trustees[wills[u].id]

Ids(w) == {trustees[w][i].id : i \in DOMAIN trustees[w]}

Addresses(list) == {list[i].email : i \in DOMAIN list}

FreshTrustees == Trustees \ UNION {Ids(w) : w \in Wills}

Unused == {r \in Requests : rounds[r] = NoRound}

OpenRounds(w) == {r \in Requests : rounds[r].status = "pending" /\ rounds[r].will = w}

\* editableWill
Editable(u) == Live(u) /\ wills[u].lifecycle = "active"

\* TrusteeCount; without a live will it is an error.
HasTrustee(u) == Live(u) /\ OwnTrustees(u) # <<>>

\* latestApprovalCount
Approvals(responses, r) == Cardinality({tr \in Trustees : responses[r][tr] = "approve"})

-----------------------------------------------------------------------------
\* Calls of the owner

CreateWill(u, config) ==
  /\ ~Live(u)
  /\ config.status = "published" => HasTrustee(u)
  /\ \E w \in Wills \ issued :
       /\ wills' = [wills EXCEPT ![u] =
            [id |-> w, deleted |-> FALSE, history |-> <<config>>, lifecycle |-> "active",
             lastHeartbeat |-> Never, graceStarted |-> Never, updatedAt |-> now]]
       /\ issued' = issued \union {w}
  /\ UNCHANGED <<now, trustees, rounds, latest, crossed>>

UpdateWill(u, config) ==
  /\ Editable(u)
  /\ config.status = "published" => HasTrustee(u)
  /\ Len(wills[u].history) < MaxVersion
  /\ wills' = [wills EXCEPT ![u].history = Append(@, config), ![u].updatedAt = now]
  /\ UNCHANGED <<now, trustees, rounds, latest, issued, crossed>>

DeleteWill(u) ==
  /\ Live(u)
  /\ wills' = [wills EXCEPT ![u].deleted = TRUE, ![u].updatedAt = now]
  /\ UNCHANGED <<now, trustees, rounds, latest, issued, crossed>>

SetTrustees(u, list) ==
  /\ trustees' = [trustees EXCEPT ![wills[u].id] = list]
  /\ UNCHANGED <<now, wills, rounds, latest, issued, crossed>>

CreateTrustee(u, email) ==
  /\ Editable(u)
  /\ email \notin Addresses(OwnTrustees(u))
  /\ \E tr \in FreshTrustees :
       SetTrustees(u, Append(OwnTrustees(u), [id |-> tr, email |-> email]))

\* The loop stops at the trustee it edits: an address further down is not seen.
UpdateTrustee(u, i, email) ==
  /\ Editable(u) /\ i \in DOMAIN OwnTrustees(u)
  /\ email \notin Addresses(SubSeq(OwnTrustees(u), 1, i - 1))
  /\ SetTrustees(u, ReplaceAt(OwnTrustees(u), i, [OwnTrustees(u)[i] EXCEPT !.email = email]))

Removable(u) ==
  Editable(u) /\ (Current(u).status = "published" => Len(OwnTrustees(u)) > 1)

\* The trustee's responses stay in their rounds.
DeleteTrustee(u, i) ==
  /\ Removable(u) /\ i \in DOMAIN OwnTrustees(u)
  /\ SetTrustees(u, RemoveAt(OwnTrustees(u), i))

CancelRounds_MutantForgotten(w) == rounds

CancelRounds_MutantUnknownStatus(w) ==
  [r \in Requests |-> IF r \in OpenRounds(w) THEN [rounds[r] EXCEPT !.status = "expired"]
                                             ELSE rounds[r]]

\* cancelPendingRoundsLocked
CancelRounds(w) ==
  [r \in Requests |-> IF r \in OpenRounds(w) THEN [rounds[r] EXCEPT !.status = "cancelled"]
                                             ELSE rounds[r]]

SubmitHeartbeat(u) ==
  /\ Live(u)
  /\ IF wills[u].lifecycle = "active"
     THEN /\ wills' = [wills EXCEPT ![u].lastHeartbeat = now, ![u].updatedAt = now]
          /\ UNCHANGED rounds
     ELSE /\ wills' = [wills EXCEPT ![u].lastHeartbeat = now, ![u].updatedAt = now,
                                    ![u].lifecycle = "active", ![u].graceStarted = Never]
          /\ rounds' = CancelRounds(wills[u].id)
  /\ UNCHANGED <<now, trustees, latest, issued, crossed>>

-----------------------------------------------------------------------------
\* The sweep

Watched(u) == Live(u) /\ Current(u).status = "published"

Dormant(u) ==
  LET reference == IF wills[u].lastHeartbeat # Never THEN wills[u].lastHeartbeat
                                                     ELSE wills[u].updatedAt IN
  /\ Watched(u) /\ wills[u].lifecycle = "active"
  /\ now >= reference + Current(u).dormancy
  /\ OwnTrustees(u) # <<>>

GraceOver(u) ==
  /\ Watched(u) /\ wills[u].lifecycle = "grace_period"
  /\ wills[u].graceStarted # Never
  /\ now >= wills[u].graceStarted + Current(u).grace

Opened_MutantHalf(u) ==
  [status |-> "pending", will |-> wills[u].id, user |-> u,
   threshold |-> (Len(OwnTrustees(u)) + 1) \div 2]

Opened(u) ==
  [status |-> "pending", will |-> wills[u].id, user |-> u,
   threshold |-> (Len(OwnTrustees(u)) \div 2) + 1]

\* The state to write declared outside the loop, and so shared by its wills.
Swept_MutantSharedState(u) ==
  IF ~(Dormant(u) \/ GraceOver(u)) THEN wills[u]
  ELSE [wills[u] EXCEPT !.updatedAt = now, !.lifecycle =
          IF \E v \in Users : Dormant(v) THEN "pending_verification"
                                         ELSE "ready_for_execution"]

Swept(u) ==
  CASE Dormant(u)   -> [wills[u] EXCEPT !.lifecycle = "pending_verification", !.updatedAt = now]
    [] GraceOver(u) -> [wills[u] EXCEPT !.lifecycle = "ready_for_execution", !.updatedAt = now]
    [] OTHER        -> wills[u]

TransitionOverdueWills ==
  LET due == {u \in Users : Dormant(u)}
      over == {u \in Users : GraceOver(u)} IN
  /\ due \union over # {}
  /\ \E id \in Injection(due, Unused) :
       rounds' = [r \in Requests |-> IF \E u \in due : id[u] = r
                                     THEN Opened(CHOOSE u \in due : id[u] = r)
                                     ELSE rounds[r]]
  /\ wills' = [u \in Users |-> Swept(u)]
  /\ UNCHANGED <<now, trustees, latest, issued, crossed>>

-----------------------------------------------------------------------------
\* A trustee's decision

\* The first trustee of the round's will with that address.
Voter(w, email) ==
  trustees[w][SelectInSeq(trustees[w], LAMBDA tr : tr.email = email)].id

\* The will that moves is the one its owner has now, whichever will the round
\* was opened for, and whatever its lifecycle.
RecordVerificationDecision(email, r, decision) ==
  LET round == rounds[r]
      u == round.user IN
  /\ round.status = "pending" /\ Live(u)
  /\ email \in Addresses(trustees[round.will])
  /\ latest' = [latest EXCEPT ![r][Voter(round.will, email)] = decision]
  /\ IF Approvals(latest', r) >= round.threshold
     THEN /\ wills' = [wills EXCEPT ![u].lifecycle = "grace_period",
                                    ![u].graceStarted = now, ![u].updatedAt = now]
          /\ rounds' = [rounds EXCEPT ![r].status = "resolved"]
          /\ crossed' = crossed \union ({wills[u].id} \ {round.will})
     ELSE UNCHANGED <<wills, rounds, crossed>>
  /\ UNCHANGED <<now, trustees, issued>>

-----------------------------------------------------------------------------

Tick ==
  /\ now < MaxTime
  /\ now' = now + 1
  /\ UNCHANGED <<wills, trustees, rounds, latest, issued, crossed>>

MemoryInit ==
  /\ now = 0
  /\ wills = [u \in Users |-> NoWill]
  /\ trustees = [w \in Wills |-> <<>>]
  /\ rounds = [r \in Requests |-> NoRound]
  /\ latest = [r \in Requests |-> [tr \in Trustees |-> "none"]]
  /\ issued = {} /\ crossed = {}

MemoryNext ==
  \/ Tick
  \/ TransitionOverdueWills
  \/ \E u \in Users :
       \/ \E config \in Config : CreateWill(u, config) \/ UpdateWill(u, config)
       \/ DeleteWill(u) \/ SubmitHeartbeat(u)
       \/ \E email \in Emails : CreateTrustee(u, email)
       \/ \E i \in 1 .. Cardinality(Trustees) :
            \/ \E email \in Emails : UpdateTrustee(u, i, email)
            \/ DeleteTrustee(u, i)
  \/ \E email \in Emails, r \in Requests, decision \in Decisions :
       RecordVerificationDecision(email, r, decision)

MemorySpec == MemoryInit /\ [][MemoryNext]_memoryVars

-----------------------------------------------------------------------------
\* Properties

Panels == UNION {[1 .. n -> [id : Trustees, email : Emails]] : n \in 0 .. Cardinality(Trustees)}

MemoryTypeOK ==
  /\ now \in Nat
  /\ wills \in [Users -> StoredWill \union {NoWill}]
  /\ trustees \in [Wills -> Panels]
  /\ rounds \in [Requests -> Round \union {NoRound}]
  /\ latest \in [Requests -> [Trustees -> Decisions \union {"none"}]]
  /\ crossed \subseteq issued /\ issued \subseteq Wills

\* What the database does by a cascade, the lock on trustees must do here: a
\* response that is counted comes from a trustee of the round's will, however
\* rounds, heartbeats and edits follow each other.
VotesHaveTrustee ==
  \A r \in Requests, tr \in Trustees :
    rounds[r].status = "pending" /\ latest[r][tr] # "none" => tr \in Ids(rounds[r].will)

InOrder(u) == Live(u) /\ wills[u].id \notin crossed

\* A live will waits for verification exactly while one round of it is open, a
\* recreated one too, until a round of an earlier will moves it.
OneRoundWhileWaiting ==
  \A u \in Users : InOrder(u) =>
    Cardinality(OpenRounds(wills[u].id)) =
      IF wills[u].lifecycle = "pending_verification" THEN 1 ELSE 0

Keepers(w) == {u \in Users : InOrder(u) /\ wills[u].id = w}

PhaseOf(w) ==
  IF w \notin issued THEN "none"
  ELSE IF Keepers(w) = {} THEN "closed"
  ELSE wills[CHOOSE u \in Keepers(w) : TRUE].lifecycle

PublishedNow(w) == \E u \in Keepers(w) : Current(u).status = "published"

Panel(w) == IF Keepers(w) = {} THEN {} ELSE Ids(w)

Approving(w) ==
  {tr \in Trustees : Keepers(w) # {} /\ \E r \in OpenRounds(w) : latest[r][tr] = "approve"}

phaseOf     == [w \in Wills |-> PhaseOf(w)]
publishedOf == [w \in Wills |-> PublishedNow(w)]
panelOf     == [w \in Wills |-> Panel(w)]
approvingOf == [w \in Wills |-> Approving(w)]

Contract == INSTANCE LifecycleContract WITH
  phase <- phaseOf, published <- publishedOf, panel <- panelOf, approving <- approvingOf

\* The tests run on a store that keeps the contract of API_SPEC.md:157-166, its
\* majority of the current trustees included, up to the point where a decision
\* on a deleted will's round moves the will its owner created since.
KeepsContractUntilCrossed == Contract!Spec
=============================================================================
