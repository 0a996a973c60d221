---------------------------- MODULE MemoryProofs ----------------------------
(***************************************************************************)
(* Theorems about MemoryStore, for every number of users, wills, trustees  *)
(* and rounds.                                                             *)
(***************************************************************************)
EXTENDS MemoryStore, TLAPS, FiniteSetTheorems

TrusteeRow == [id : Trustees, email : Emails]

-----------------------------------------------------------------------------
\* Lists of trustees

\* RemoveAt closes the gap.
LEMMA RemoveAtShape ==
  ASSUME NEW s \in Seq(TrusteeRow), NEW i \in DOMAIN s
  PROVE  /\ RemoveAt(s, i) \in Seq(TrusteeRow)
         /\ Len(RemoveAt(s, i)) = Len(s) - 1
         /\ \A j \in 1 .. Len(s) - 1 :
              RemoveAt(s, i)[j] = IF j < i THEN s[j] ELSE s[j + 1]
<1>. DEFINE before == SubSeq(s, 1, i - 1)
            after == SubSeq(s, i + 1, Len(s))
<1>1. Len(s) \in Nat /\ i \in 1 .. Len(s)
  OBVIOUS
<1>2. before \in Seq(TrusteeRow) /\ Len(before) = i - 1 /\ \A j \in 1 .. i - 1 : before[j] = s[j]
  BY <1>1
<1>3. after \in Seq(TrusteeRow) /\ Len(after) = Len(s) - i
  BY <1>1
<1>4. \A j \in 1 .. Len(s) - i : after[j] = s[i + j]
  BY <1>1
<1>. HIDE DEF before, after
<1>5. before \o after \in Seq(TrusteeRow) /\ Len(before \o after) = Len(s) - 1
  BY <1>1, <1>2, <1>3
<1>6. ASSUME NEW j \in 1 .. Len(s) - 1
      PROVE  (before \o after)[j] = IF j < i THEN s[j] ELSE s[j + 1]
  <2>1. CASE j < i
    BY <1>1, <1>2, <1>3, <2>1
  <2>2. CASE ~(j < i)
    <3>1. (before \o after)[j] = after[j - (i - 1)]
      BY <1>1, <1>2, <1>3, <2>2
    <3>2. j - (i - 1) \in 1 .. Len(s) - i /\ i + (j - (i - 1)) = j + 1
      BY <1>1, <2>2
    <3> QED BY <1>4, <2>2, <3>1, <3>2
  <2> QED BY <2>1, <2>2
<1>7. RemoveAt(s, i) = before \o after
  BY DEF RemoveAt, before, after
<1> QED BY <1>5, <1>6, <1>7

\* ReplaceAt changes one place.
LEMMA ReplaceAtShape ==
  ASSUME NEW s \in Seq(TrusteeRow), NEW i \in DOMAIN s, NEW e \in TrusteeRow
  PROVE  /\ ReplaceAt(s, i, e) \in Seq(TrusteeRow)
         /\ Len(ReplaceAt(s, i, e)) = Len(s)
         /\ \A j \in 1 .. Len(s) : ReplaceAt(s, i, e)[j] = IF j = i THEN e ELSE s[j]
BY DEF ReplaceAt

\* Append adds a place at the end.
LEMMA AppendShape ==
  ASSUME NEW S, NEW s \in Seq(S), NEW e \in S
  PROVE  /\ Append(s, e) \in Seq(S)
         /\ Len(Append(s, e)) = Len(s) + 1
         /\ \A j \in 1 .. Len(s) + 1 : Append(s, e)[j] = IF j = Len(s) + 1 THEN e ELSE s[j]
OBVIOUS

\* A set of natural numbers has a least element.
LEMMA LeastNatural ==
  ASSUME NEW I, I \subseteq Nat, I # {}
  PROVE  \E k \in I : \A m \in I : k <= m
<1>1. PICK k \in I : \A m \in I : <<m, k>> \notin OpToRel(<, Nat)
  BY WFMin, NatLessThanWellFounded
<1>2. \A m \in I : ~(m < k)
  BY <1>1 DEF OpToRel
<1> QED BY <1>2

\* The address of a list's trustee finds one of its trustees.
LEMMA VoterListed ==
  ASSUME trustees \in [Wills -> Seq(TrusteeRow)], NEW w \in Wills, NEW email,
         email \in Addresses(trustees[w])
  PROVE  Voter(w, email) \in Ids(w) /\ Voter(w, email) \in Trustees
<1>. DEFINE I == {i \in 1 .. Len(trustees[w]) : trustees[w][i].email = email}
<1>1. trustees[w] \in Seq(TrusteeRow) /\ DOMAIN trustees[w] = 1 .. Len(trustees[w])
  OBVIOUS
<1>2. I # {} /\ I \subseteq Nat
  BY <1>1 DEF Addresses
<1>3. \E k \in I : \A m \in I : k <= m
  BY <1>2, LeastNatural
<1>4. Min(I) \in I
  <2>1. Min(I) \in I /\ \A m \in I : Min(I) <= m
    BY <1>3 DEF Min
  <2> QED BY <2>1
<1>5. SelectInSeq(trustees[w], LAMBDA tr : tr.email = email) = Min(I)
  BY <1>2 DEF SelectInSeq
<1>6. Voter(w, email) = trustees[w][Min(I)].id
  BY <1>5 DEF Voter
<1>7. Min(I) \in DOMAIN trustees[w] /\ trustees[w][Min(I)] \in TrusteeRow
  BY <1>1, <1>4
<1>8. Voter(w, email) \in Trustees
  BY <1>6, <1>7 DEF TrusteeRow
<1> QED BY <1>6, <1>7, <1>8 DEF Ids

-----------------------------------------------------------------------------
\* Types

\* A bound on the length of the lists is not inductive by itself: see PanelsFit.
LooseTypeOK ==
  /\ now \in Nat
  /\ wills \in [Users -> StoredWill \union {NoWill}]
  /\ trustees \in [Wills -> Seq(TrusteeRow)]
  /\ rounds \in [Requests -> Round \union {NoRound}]
  /\ latest \in [Requests -> [Trustees -> Decisions \union {"none"}]]
  /\ crossed \subseteq issued /\ issued \subseteq Wills

IssuedWills == \A u \in Users : wills[u] # NoWill => wills[u].id \in issued

\* A user's live will is a record with all its fields.
LEMMA LiveWill ==
  ASSUME LooseTypeOK, NEW u \in Users, Live(u)
  PROVE  wills[u] \in StoredWill /\ wills[u].id \in Wills /\ OwnTrustees(u) \in Seq(TrusteeRow)
<1>1. wills[u] \in StoredWill
  BY DEF LooseTypeOK, Live
<1>2. wills[u].id \in Wills
  BY <1>1 DEF StoredWill
<1> QED BY <1>1, <1>2 DEF LooseTypeOK, OwnTrustees

\* Changing some fields of a stored will leaves one with the same id.
Changed(x, y) == y \in StoredWill /\ y.id = x.id

LEMMA VersionFields ==
  ASSUME NEW x \in StoredWill, NEW t \in Nat, NEW config \in Config
  PROVE  Changed(x, [x EXCEPT !.history = Append(x.history, config), !.updatedAt = t])
<1>1. Append(x.history, config) \in Seq(Config)
  BY DEF StoredWill
<1>. HIDE DEF Config
<1> QED BY <1>1 DEF StoredWill, Changed

LEMMA WillFields ==
  ASSUME NEW x \in StoredWill, NEW t \in Nat
  PROVE  /\ Changed(x, [x EXCEPT !.deleted = TRUE, !.updatedAt = t])
         /\ Changed(x, [x EXCEPT !.lastHeartbeat = t, !.updatedAt = t])
         /\ Changed(x, [x EXCEPT !.lastHeartbeat = t, !.updatedAt = t, !.lifecycle = "active",
                                 !.graceStarted = Never])
         /\ Changed(x, [x EXCEPT !.lifecycle = "pending_verification", !.updatedAt = t])
         /\ Changed(x, [x EXCEPT !.lifecycle = "ready_for_execution", !.updatedAt = t])
         /\ Changed(x, [x EXCEPT !.lifecycle = "grace_period", !.graceStarted = t,
                                 !.updatedAt = t])
<1>. HIDE DEF Config
<1> QED BY DEF StoredWill, Never, Changed

\* Closing a round or opening one leaves the rounds typed.
LEMMA RoundsTypes ==
  ASSUME LooseTypeOK, NEW w \in Wills
  PROVE  CancelRounds(w) \in [Requests -> Round \union {NoRound}]
<1> SUFFICES ASSUME NEW r \in Requests, r \in OpenRounds(w)
             PROVE  [rounds[r] EXCEPT !.status = "cancelled"] \in Round
  BY DEF CancelRounds, LooseTypeOK
<1>1. rounds[r] \in Round
  BY DEF LooseTypeOK, OpenRounds, NoRound
<1> QED BY <1>1 DEF Round

\* A user whose will is due is watched, and opens a round of its will.
LEMMA OpenedTypes ==
  ASSUME LooseTypeOK, NEW u \in Users, Live(u)
  PROVE  Opened(u) \in Round
<1>1. wills[u].id \in Wills /\ Len(OwnTrustees(u)) \in Nat
  BY LiveWill
<1>2. (Len(OwnTrustees(u)) \div 2) + 1 \in Nat
  BY <1>1, SMTT(40)
<1> QED BY <1>1, <1>2 DEF Opened, Round

\* What the sweep does to each will and each round.
LEMMA SweepShape ==
  ASSUME TransitionOverdueWills
  PROVE  /\ \A u \in Users : wills'[u] =
              IF Dormant(u)
              THEN [wills[u] EXCEPT !.lifecycle = "pending_verification", !.updatedAt = now]
              ELSE IF GraceOver(u)
              THEN [wills[u] EXCEPT !.lifecycle = "ready_for_execution", !.updatedAt = now]
              ELSE wills[u]
         /\ \A r \in Requests : rounds'[r] # rounds[r] =>
              \E u \in Users : Dormant(u) /\ rounds[r] = NoRound /\ rounds'[r] = Opened(u)
         /\ \A u \in Users : Dormant(u) =>
              \E r \in Requests :
                /\ rounds[r] = NoRound /\ rounds'[r] = Opened(u)
                /\ \A q \in Requests \ {r} : rounds'[q] # rounds[q] =>
                     \E v \in Users \ {u} : Dormant(v) /\ rounds'[q] = Opened(v)
         /\ wills' = [u \in Users |-> wills'[u]]
         /\ rounds' = [r \in Requests |-> rounds'[r]]
         /\ UNCHANGED <<now, trustees, latest, issued, crossed>>
<1>. DEFINE due == {u \in Users : Dormant(u)}
<1>1. PICK id \in Injection(due, Unused) :
        rounds' = [r \in Requests |-> IF \E u \in due : id[u] = r
                                      THEN Opened(CHOOSE u \in due : id[u] = r)
                                      ELSE rounds[r]]
  BY Zenon DEF TransitionOverdueWills
<1>2. /\ \A u \in due : id[u] \in Unused
      /\ \A u, v \in due : id[u] = id[v] => u = v
  BY DEF Injection, IsInjective
<1>3. \A u \in due : id[u] \in Requests /\ rounds[id[u]] = NoRound
  BY <1>2 DEF Unused
<1>4. \A u \in due : rounds'[id[u]] = Opened(u)
  <2> SUFFICES ASSUME NEW u \in due PROVE rounds'[id[u]] = Opened(u)
    OBVIOUS
  <2>1. (CHOOSE v \in due : id[v] = id[u]) = u
    BY <1>2
  <2> QED BY <1>1, <1>3, <2>1
<1>5. \A r \in Requests : (\A u \in due : id[u] # r) => rounds'[r] = rounds[r]
  BY <1>1
<1>6. wills' = [u \in Users |-> Swept(u)]
  BY Zenon DEF TransitionOverdueWills
<1>7. \A u \in Users : ~(Dormant(u) /\ GraceOver(u))
  BY DEF Dormant, GraceOver
<1>8. ASSUME NEW u \in Users
      PROVE  wills'[u] =
              IF Dormant(u)
              THEN [wills[u] EXCEPT !.lifecycle = "pending_verification", !.updatedAt = now]
              ELSE IF GraceOver(u)
              THEN [wills[u] EXCEPT !.lifecycle = "ready_for_execution", !.updatedAt = now]
              ELSE wills[u]
  BY <1>6, <1>7 DEF Swept
<1>9. \A r \in Requests : rounds'[r] # rounds[r] =>
              \E u \in Users : Dormant(u) /\ rounds[r] = NoRound /\ rounds'[r] = Opened(u)
  BY <1>3, <1>4, <1>5
<1>10. ASSUME NEW u \in Users, Dormant(u)
       PROVE  \E r \in Requests :
                /\ rounds[r] = NoRound /\ rounds'[r] = Opened(u)
                /\ \A q \in Requests \ {r} : rounds'[q] # rounds[q] =>
                     \E v \in Users \ {u} : Dormant(v) /\ rounds'[q] = Opened(v)
  <2>1. u \in due
    BY <1>10
  <2>2. \A q \in Requests \ {id[u]} : rounds'[q] # rounds[q] =>
           \E v \in Users \ {u} : Dormant(v) /\ rounds'[q] = Opened(v)
    BY <1>4, <1>5
  <2> QED BY <1>3, <1>4, <2>1, <2>2
<1>11. /\ wills' = [u \in Users |-> wills'[u]]
       /\ rounds' = [r \in Requests |-> rounds'[r]]
       /\ UNCHANGED <<now, trustees, latest, issued, crossed>>
  <2>1. wills' = [u \in Users |-> wills'[u]]
    BY <1>6
  <2>2. rounds' = [r \in Requests |-> rounds'[r]]
    BY <1>1
  <2> QED BY <2>1, <2>2 DEF TransitionOverdueWills
<1> QED BY <1>8, <1>9, <1>10, <1>11

\* The sweep fills unused rounds only.
LEMMA SweepOpens ==
  ASSUME TransitionOverdueWills, NEW r \in Requests, rounds'[r] # rounds[r]
  PROVE  rounds[r] = NoRound /\ \E u \in Users : Dormant(u) /\ rounds'[r] = Opened(u)
<1>1. \A q \in Requests : rounds'[q] # rounds[q] =>
        \E u \in Users : Dormant(u) /\ rounds[q] = NoRound /\ rounds'[q] = Opened(u)
  BY SweepShape
<1> QED BY <1>1

\* The lists a call leaves: all but one as they were.
LEMMA SetTrusteesShape ==
  ASSUME LooseTypeOK, NEW u \in Users, Editable(u), NEW list, SetTrustees(u, list)
  PROVE  /\ trustees' = [trustees EXCEPT ![wills[u].id] = list]
         /\ trustees'[wills[u].id] = list
         /\ \A w \in Wills : w # wills[u].id => trustees'[w] = trustees[w]
         /\ UNCHANGED <<now, wills, rounds, latest, issued, crossed>>
<1>1. wills[u].id \in Wills
  BY LiveWill DEF Editable
<1> QED BY <1>1 DEF SetTrustees, LooseTypeOK

\* The three edits of a list, each of an active will.
PanelEdit(u) ==
  \/ \E email \in Emails : CreateTrustee(u, email)
  \/ \E i \in 1 .. Cardinality(Trustees) :
       (\E email \in Emails : UpdateTrustee(u, i, email)) \/ DeleteTrustee(u, i)

\* An edit replaces the list of one editable will by another list.
LEMMA PanelEditShape ==
  ASSUME LooseTypeOK, NEW u \in Users, PanelEdit(u)
  PROVE  /\ Editable(u)
         /\ \E list \in Seq(TrusteeRow) : SetTrustees(u, list)
<1>1. ASSUME Editable(u) PROVE OwnTrustees(u) \in Seq(TrusteeRow)
  BY <1>1, LiveWill DEF Editable
<1>2. ASSUME NEW email \in Emails, CreateTrustee(u, email)
      PROVE  Editable(u) /\ \E list \in Seq(TrusteeRow) : SetTrustees(u, list)
  <2>1. PICK tr \in FreshTrustees :
          SetTrustees(u, Append(OwnTrustees(u), [id |-> tr, email |-> email]))
    BY <1>2 DEF CreateTrustee
  <2>2. [id |-> tr, email |-> email] \in TrusteeRow
    BY DEF FreshTrustees, TrusteeRow
  <2>3. Editable(u)
    BY <1>2 DEF CreateTrustee
  <2> QED BY <1>1, <2>1, <2>2, <2>3, AppendShape
<1>3. ASSUME NEW i, NEW email \in Emails, UpdateTrustee(u, i, email)
      PROVE  Editable(u) /\ \E list \in Seq(TrusteeRow) : SetTrustees(u, list)
  <2>1. Editable(u) /\ i \in DOMAIN OwnTrustees(u)
    BY <1>3 DEF UpdateTrustee
  <2>2. OwnTrustees(u)[i] \in TrusteeRow
    BY <1>1, <2>1
  <2>3. [OwnTrustees(u)[i] EXCEPT !.email = email] \in TrusteeRow
    BY <2>2 DEF TrusteeRow
  <2> QED BY <1>1, <1>3, <2>1, <2>3, ReplaceAtShape DEF UpdateTrustee
<1>4. ASSUME NEW i, DeleteTrustee(u, i)
      PROVE  Editable(u) /\ \E list \in Seq(TrusteeRow) : SetTrustees(u, list)
  <2>1. Editable(u) /\ i \in DOMAIN OwnTrustees(u)
    BY <1>4 DEF DeleteTrustee, Removable
  <2> QED BY <1>1, <1>4, <2>1, RemoveAtShape DEF DeleteTrustee
<1> QED BY <1>2, <1>3, <1>4 DEF PanelEdit

\* A new will has an id no will had.
LEMMA CreateTypes ==
  ASSUME LooseTypeOK, IssuedWills, NEW u \in Users, NEW config \in Config,
         CreateWill(u, config)
  PROVE  LooseTypeOK' /\ IssuedWills'
<1>1. PICK w \in Wills \ issued :
        /\ wills' = [wills EXCEPT ![u] =
             [id |-> w, deleted |-> FALSE, history |-> <<config>>, lifecycle |-> "active",
              lastHeartbeat |-> Never, graceStarted |-> Never, updatedAt |-> now]]
        /\ issued' = issued \union {w}
  BY DEF CreateWill
<1>2. <<config>> \in Seq(Config)
  OBVIOUS
<1>3. [id |-> w, deleted |-> FALSE, history |-> <<config>>, lifecycle |-> "active",
       lastHeartbeat |-> Never, graceStarted |-> Never, updatedAt |-> now] \in StoredWill
  <2>. HIDE DEF Config
  <2> QED BY <1>2 DEF StoredWill, LooseTypeOK, Never
<1>4. wills' \in [Users -> StoredWill \union {NoWill}]
  BY <1>1, <1>3 DEF LooseTypeOK
<1>5. LooseTypeOK'
  BY <1>1, <1>4 DEF CreateWill, LooseTypeOK
<1>6. ASSUME NEW v \in Users, wills'[v] # NoWill PROVE wills'[v].id \in issued'
  BY <1>1, <1>6 DEF LooseTypeOK, IssuedWills
<1> QED BY <1>5, <1>6 DEF IssuedWills

\* Every other call keeps the wills' ids.
SameIds ==
  \A u \in Users : wills'[u] = wills[u] \/ (Live(u) /\ wills'[u].id = wills[u].id)

LEMMA IdsIssued ==
  ASSUME IssuedWills, SameIds, issued \subseteq issued'
  PROVE  IssuedWills'
BY DEF IssuedWills, SameIds, Live

LEMMA OwnerCallTypes ==
  ASSUME LooseTypeOK, NEW u \in Users,
         \/ \E config \in Config : UpdateWill(u, config)
         \/ DeleteWill(u) \/ SubmitHeartbeat(u)
  PROVE  LooseTypeOK' /\ SameIds /\ issued' = issued
<1>0. Live(u) /\ wills[u] \in StoredWill /\ wills[u].id \in Wills /\ now \in Nat
  BY LiveWill DEF UpdateWill, DeleteWill, SubmitHeartbeat, Editable, LooseTypeOK
<1>1. ASSUME NEW x, Changed(wills[u], x), wills' = [wills EXCEPT ![u] = x],
             rounds' \in [Requests -> Round \union {NoRound}],
             UNCHANGED <<now, trustees, latest, issued, crossed>>
      PROVE  LooseTypeOK' /\ SameIds /\ issued' = issued
  BY <1>0, <1>1 DEF LooseTypeOK, SameIds, Changed
<1>2. ASSUME NEW config \in Config, UpdateWill(u, config)
      PROVE  LooseTypeOK' /\ SameIds /\ issued' = issued
  <2>. DEFINE x == [wills[u] EXCEPT !.history = Append(wills[u].history, config),
                                    !.updatedAt = now]
  <2>1. Changed(wills[u], x)
    BY <1>0, VersionFields
  <2>2. wills' = [wills EXCEPT ![u] = x]
    BY <1>0, <1>2 DEF UpdateWill, LooseTypeOK
  <2>. HIDE DEF x
  <2> QED BY <1>1, <1>2, <2>1, <2>2 DEF UpdateWill, LooseTypeOK
<1>3. CASE DeleteWill(u)
  <2>. DEFINE x == [wills[u] EXCEPT !.deleted = TRUE, !.updatedAt = now]
  <2>1. Changed(wills[u], x)
    BY <1>0, WillFields
  <2>2. wills' = [wills EXCEPT ![u] = x]
    BY <1>0, <1>3 DEF DeleteWill, LooseTypeOK
  <2>. HIDE DEF x
  <2> QED BY <1>1, <1>3, <2>1, <2>2 DEF DeleteWill, LooseTypeOK
<1>4. CASE SubmitHeartbeat(u) /\ wills[u].lifecycle = "active"
  <2>. DEFINE x == [wills[u] EXCEPT !.lastHeartbeat = now, !.updatedAt = now]
  <2>1. Changed(wills[u], x)
    BY <1>0, WillFields
  <2>2. wills' = [wills EXCEPT ![u] = x]
    BY <1>0, <1>4 DEF SubmitHeartbeat, LooseTypeOK
  <2>. HIDE DEF x
  <2> QED BY <1>1, <1>4, <2>1, <2>2 DEF SubmitHeartbeat, LooseTypeOK
<1>5. CASE SubmitHeartbeat(u) /\ wills[u].lifecycle # "active"
  <2>. DEFINE x == [wills[u] EXCEPT !.lastHeartbeat = now, !.updatedAt = now,
                                    !.lifecycle = "active", !.graceStarted = Never]
  <2>1. Changed(wills[u], x)
    BY <1>0, WillFields
  <2>2. wills' = [wills EXCEPT ![u] = x]
    BY <1>0, <1>5 DEF SubmitHeartbeat, LooseTypeOK
  <2>. HIDE DEF x
  <2> QED BY <1>0, <1>1, <1>5, <2>1, <2>2, RoundsTypes DEF SubmitHeartbeat
<1> QED BY <1>2, <1>3, <1>4, <1>5

\* An edit of a list keeps the types and every will.
LEMMA PanelEditTypes ==
  ASSUME LooseTypeOK, NEW u \in Users, PanelEdit(u)
  PROVE  LooseTypeOK' /\ SameIds /\ issued' = issued
<1>1. PICK list \in Seq(TrusteeRow) : Editable(u) /\ SetTrustees(u, list)
  BY PanelEditShape
<1>2. trustees' \in [Wills -> Seq(TrusteeRow)]
  BY <1>1 DEF SetTrustees, LooseTypeOK
<1> QED BY <1>1, <1>2 DEF SetTrustees, LooseTypeOK, SameIds

\* The sweep moves live wills and opens rounds.
LEMMA SweepTypes ==
  ASSUME LooseTypeOK, TransitionOverdueWills
  PROVE  LooseTypeOK' /\ SameIds /\ issued' = issued
<1>0. /\ \A u \in Users : wills'[u] =
           IF Dormant(u)
           THEN [wills[u] EXCEPT !.lifecycle = "pending_verification", !.updatedAt = now]
           ELSE IF GraceOver(u)
           THEN [wills[u] EXCEPT !.lifecycle = "ready_for_execution", !.updatedAt = now]
           ELSE wills[u]
      /\ \A r \in Requests : rounds'[r] # rounds[r] =>
           \E u \in Users : Dormant(u) /\ rounds[r] = NoRound /\ rounds'[r] = Opened(u)
  BY SweepShape
<1>1. ASSUME NEW u \in Users
      PROVE  /\ wills'[u] \in StoredWill \union {NoWill}
             /\ wills'[u] = wills[u] \/ (Live(u) /\ wills'[u].id = wills[u].id)
  <2>1. CASE Dormant(u) \/ GraceOver(u)
    <3>1. Live(u) /\ wills[u] \in StoredWill /\ now \in Nat
      BY <2>1, LiveWill, SMTT(40) DEF Dormant, GraceOver, Watched, LooseTypeOK
    <3>2. Changed(wills[u], wills'[u])
      <4>1. \/ wills'[u] = [wills[u] EXCEPT !.lifecycle = "pending_verification", !.updatedAt = now]
            \/ wills'[u] = [wills[u] EXCEPT !.lifecycle = "ready_for_execution", !.updatedAt = now]
        BY <1>0, <2>1
      <4> QED BY <3>1, <4>1, WillFields
    <3> QED BY <3>1, <3>2 DEF Changed
  <2>2. CASE ~(Dormant(u) \/ GraceOver(u))
    BY <1>0, <2>2 DEF LooseTypeOK
  <2> QED BY <2>1, <2>2
<1>2. wills' \in [Users -> StoredWill \union {NoWill}]
  <2>1. wills' = [u \in Users |-> wills'[u]]
    BY SweepShape
  <2> QED BY <1>1, <2>1
<1>3. rounds' \in [Requests -> Round \union {NoRound}]
  <2>1. ASSUME NEW r \in Requests PROVE rounds'[r] \in Round \union {NoRound}
    <3>1. CASE rounds'[r] = rounds[r]
      BY <3>1 DEF LooseTypeOK
    <3>2. CASE rounds'[r] # rounds[r]
      <4>1. PICK u \in Users : Dormant(u) /\ rounds'[r] = Opened(u)
        BY <1>0, <3>2
      <4> QED BY <4>1, OpenedTypes DEF Dormant, Watched
    <3> QED BY <3>1, <3>2
  <2>2. rounds' = [r \in Requests |-> rounds'[r]]
    BY SweepShape
  <2> QED BY <2>1, <2>2
<1>4. UNCHANGED <<now, trustees, latest, issued, crossed>>
  BY SweepShape
<1> QED BY <1>1, <1>2, <1>3, <1>4 DEF LooseTypeOK, SameIds

\* A decision that does not complete a majority writes a response.  One that
\* does resolves its round and moves the will of the round's user.
Decisive(r) ==
  LET u == rounds[r].user IN
  /\ Approvals(latest', r) >= rounds[r].threshold
  /\ wills' = [wills EXCEPT ![u] = [wills[u] EXCEPT !.lifecycle = "grace_period",
                                      !.graceStarted = now, !.updatedAt = now]]
  /\ rounds' = [rounds EXCEPT ![r] = [rounds[r] EXCEPT !.status = "resolved"]]
  /\ crossed' = crossed \union ({wills[u].id} \ {rounds[r].will})

LEMMA DecisionShape ==
  ASSUME LooseTypeOK, NEW email \in Emails, NEW r \in Requests, NEW decision \in Decisions,
         RecordVerificationDecision(email, r, decision)
  PROVE  LET w == rounds[r].will
             tr == Voter(w, email) IN
         /\ rounds[r] \in Round /\ rounds[r].status = "pending"
         /\ w \in Wills /\ rounds[r].user \in Users /\ Live(rounds[r].user)
         /\ tr \in Ids(w) /\ tr \in Trustees
         /\ latest' = [latest EXCEPT ![r] = [latest[r] EXCEPT ![tr] = decision]]
         /\ \/ Decisive(r)
            \/ UNCHANGED <<wills, rounds, crossed>>
               /\ ~(Approvals(latest', r) >= rounds[r].threshold)
         /\ UNCHANGED <<now, trustees, issued>>
<1>1. /\ rounds[r].status = "pending" /\ Live(rounds[r].user)
      /\ email \in Addresses(trustees[rounds[r].will])
      /\ latest' = [latest EXCEPT ![r][Voter(rounds[r].will, email)] = decision]
      /\ UNCHANGED <<now, trustees, issued>>
  BY DEF RecordVerificationDecision
<1>2. rounds[r] \in Round
  BY <1>1 DEF LooseTypeOK, NoRound
<1>3. rounds[r].will \in Wills /\ rounds[r].user \in Users
  BY <1>2 DEF Round
<1>4. Voter(rounds[r].will, email) \in Ids(rounds[r].will)
        /\ Voter(rounds[r].will, email) \in Trustees
  BY <1>1, <1>3, VoterListed DEF LooseTypeOK
<1>5. latest' = [latest EXCEPT ![r] = [latest[r] EXCEPT ![Voter(rounds[r].will, email)] = decision]]
  BY <1>1 DEF LooseTypeOK
<1>6. \/ Decisive(r)
      \/ UNCHANGED <<wills, rounds, crossed>> /\ ~(Approvals(latest', r) >= rounds[r].threshold)
  <2>1. CASE Approvals(latest', r) >= rounds[r].threshold
    <3>1. /\ wills' = [wills EXCEPT ![rounds[r].user].lifecycle = "grace_period",
                         ![rounds[r].user].graceStarted = now,
                         ![rounds[r].user].updatedAt = now]
          /\ rounds' = [rounds EXCEPT ![r].status = "resolved"]
          /\ crossed' = crossed \union ({wills[rounds[r].user].id} \ {rounds[r].will})
      BY <2>1 DEF RecordVerificationDecision
    <3> QED BY <1>3, <2>1, <3>1 DEF Decisive, LooseTypeOK
  <2>2. CASE ~(Approvals(latest', r) >= rounds[r].threshold)
    BY <2>2 DEF RecordVerificationDecision
  <2> QED BY <2>1, <2>2
<1> QED BY <1>1, <1>2, <1>3, <1>4, <1>5, <1>6

LEMMA DecisionTypes ==
  ASSUME LooseTypeOK, IssuedWills,
         NEW email \in Emails, NEW r \in Requests, NEW decision \in Decisions,
         RecordVerificationDecision(email, r, decision)
  PROVE  LooseTypeOK' /\ SameIds /\ issued' = issued
<1>1. latest' \in [Requests -> [Trustees -> Decisions \union {"none"}]]
  <2>. DEFINE tr == Voter(rounds[r].will, email)
  <2>1. tr \in Trustees /\ latest' = [latest EXCEPT ![r] = [latest[r] EXCEPT ![tr] = decision]]
    BY DecisionShape
  <2>. HIDE DEF tr
  <2> QED BY <2>1 DEF LooseTypeOK
<1>2. CASE Decisive(r)
  <2>. DEFINE u == rounds[r].user
  <2>1. u \in Users /\ Live(u) /\ now \in Nat /\ wills[u] \in StoredWill
    BY DecisionShape, LiveWill, SMTT(40) DEF LooseTypeOK
  <2>2. Changed(wills[u], [wills[u] EXCEPT !.lifecycle = "grace_period",
                                           !.graceStarted = now, !.updatedAt = now])
    BY <2>1, WillFields
  <2>3. wills' \in [Users -> StoredWill \union {NoWill}] /\ SameIds
    BY <1>2, <2>1, <2>2 DEF Decisive, Changed, LooseTypeOK, SameIds
  <2>4. [rounds[r] EXCEPT !.status = "resolved"] \in Round
    BY DecisionShape DEF Round
  <2>5. rounds' \in [Requests -> Round \union {NoRound}]
    BY <1>2, <2>4 DEF Decisive, LooseTypeOK
  <2>6. wills[u].id \in issued
    BY <2>1 DEF IssuedWills, Live
  <2>7. crossed' \subseteq issued'
    BY <1>2, <2>6, DecisionShape DEF Decisive, LooseTypeOK
  <2> QED BY <1>1, <2>3, <2>5, <2>7, DecisionShape DEF LooseTypeOK
<1>3. CASE UNCHANGED <<wills, rounds, crossed>>
  BY <1>1, <1>3, DecisionShape DEF LooseTypeOK, SameIds
<1> QED BY <1>2, <1>3, DecisionShape

\* The calls, grouped as the proofs treat them.
LEMMA Calls ==
  ASSUME [MemoryNext]_memoryVars
  PROVE  \/ UNCHANGED <<wills, trustees, rounds, latest, issued, crossed>> /\ now' \in {now, now + 1}
         \/ TransitionOverdueWills
         \/ \E u \in Users : \E config \in Config : CreateWill(u, config)
         \/ \E u \in Users : \/ \E config \in Config : UpdateWill(u, config)
                             \/ DeleteWill(u) \/ SubmitHeartbeat(u)
         \/ \E u \in Users : PanelEdit(u)
         \/ \E email \in Emails, r \in Requests, decision \in Decisions :
              RecordVerificationDecision(email, r, decision)
<1>1. CASE Tick \/ UNCHANGED memoryVars
  BY <1>1 DEF Tick, memoryVars
<1>2. CASE MemoryNext /\ ~Tick
  BY <1>2, Zenon DEF MemoryNext, PanelEdit
<1> QED BY <1>1, <1>2

\* Every call keeps the types, and all but CreateWill the ids.
LEMMA LooseStep ==
  ASSUME LooseTypeOK, IssuedWills, [MemoryNext]_memoryVars
  PROVE  /\ LooseTypeOK' /\ IssuedWills' /\ issued \subseteq issued'
         /\ SameIds \/ \E u \in Users, config \in Config : CreateWill(u, config)
<1>1. ASSUME LooseTypeOK' /\ SameIds /\ issued' = issued
      PROVE  /\ LooseTypeOK' /\ IssuedWills' /\ issued \subseteq issued'
             /\ SameIds \/ \E u \in Users, config \in Config : CreateWill(u, config)
  BY <1>1, IdsIssued
<1>2. CASE UNCHANGED <<wills, trustees, rounds, latest, issued, crossed>> /\ now' \in {now, now + 1}
  BY <1>1, <1>2 DEF LooseTypeOK, SameIds
<1>3. ASSUME NEW u \in Users, NEW config \in Config, CreateWill(u, config)
      PROVE  LooseTypeOK' /\ IssuedWills' /\ issued \subseteq issued'
  BY <1>3, CreateTypes DEF CreateWill
<1>4. CASE TransitionOverdueWills
  BY <1>1, <1>4, SweepTypes
<1>5. ASSUME NEW u \in Users,
             \/ \E config \in Config : UpdateWill(u, config)
             \/ DeleteWill(u) \/ SubmitHeartbeat(u)
      PROVE  LooseTypeOK' /\ SameIds /\ issued' = issued
  BY <1>5, OwnerCallTypes
<1>6. ASSUME NEW u \in Users, PanelEdit(u)
      PROVE  LooseTypeOK' /\ SameIds /\ issued' = issued
  BY <1>6, PanelEditTypes
<1>7. ASSUME NEW email \in Emails, NEW r \in Requests, NEW decision \in Decisions,
             RecordVerificationDecision(email, r, decision)
      PROVE  LooseTypeOK' /\ SameIds /\ issued' = issued
  BY <1>7, DecisionTypes
<1> QED BY <1>1, <1>2, <1>3, <1>4, <1>5, <1>6, <1>7, Calls

-----------------------------------------------------------------------------
\* A will's trustees have ids of their own, so there are at most as many as ids.

Distinct(list) == \A i, j \in DOMAIN list : list[i].id = list[j].id => i = j

IdsDiffer == \A w \in Wills : Distinct(trustees[w])

\* An edit leaves distinct ids, and a published will one trustee at least.
LEMMA PanelEditDistinct ==
  ASSUME LooseTypeOK, IdsDiffer, NEW u \in Users, PanelEdit(u)
  PROVE  \E list \in Seq(TrusteeRow) :
           /\ Editable(u) /\ SetTrustees(u, list)
           /\ Distinct(list)
           /\ Current(u).status = "published" /\ OwnTrustees(u) # <<>> => list # <<>>
<1>. DEFINE own == OwnTrustees(u)
            Goal == \E list \in Seq(TrusteeRow) :
                      /\ Editable(u) /\ SetTrustees(u, list) /\ Distinct(list)
                      /\ Current(u).status = "published" /\ own # <<>> => list # <<>>
<1>0. Editable(u) /\ own \in Seq(TrusteeRow) /\ wills[u].id \in Wills
  BY PanelEditShape, LiveWill DEF Editable
<1>1. Distinct(own) /\ DOMAIN own = 1 .. Len(own) /\ Len(own) \in Nat
  BY <1>0 DEF IdsDiffer, OwnTrustees
<1>2. ASSUME NEW email \in Emails, CreateTrustee(u, email) PROVE Goal
  <2>1. PICK tr \in FreshTrustees :
          SetTrustees(u, Append(own, [id |-> tr, email |-> email]))
    BY <1>2 DEF CreateTrustee
  <2>. DEFINE new == [id |-> tr, email |-> email]
              list == Append(own, new)
  <2>2. new \in TrusteeRow /\ new.id = tr
    BY DEF FreshTrustees, TrusteeRow
  <2>3. \A j \in DOMAIN own : own[j].id # tr
    BY <1>0 DEF FreshTrustees, Ids, OwnTrustees
  <2>. HIDE DEF own, new
  <2>4. /\ list \in Seq(TrusteeRow) /\ Len(list) = Len(own) + 1 /\ list # <<>>
        /\ \A j \in 1 .. Len(own) + 1 : list[j] = IF j = Len(own) + 1 THEN new ELSE own[j]
    BY <1>0, <2>2, AppendShape
  <2>5. DOMAIN list = 1 .. Len(own) + 1
    BY <2>4
  <2>6. Distinct(list)
    BY <1>1, <2>2, <2>3, <2>4, <2>5 DEF Distinct
  <2> QED BY <1>0, <2>1, <2>4, <2>6 DEF new
<1>3. ASSUME NEW i, NEW email \in Emails, UpdateTrustee(u, i, email) PROVE Goal
  <2>1. i \in DOMAIN own /\ own[i] \in TrusteeRow
    BY <1>0, <1>3 DEF UpdateTrustee
  <2>. DEFINE new == [own[i] EXCEPT !.email = email]
              list == ReplaceAt(own, i, new)
  <2>2. new \in TrusteeRow /\ new.id = own[i].id
    BY <2>1 DEF TrusteeRow
  <2>3. SetTrustees(u, list)
    BY <1>3 DEF UpdateTrustee
  <2>. HIDE DEF own, new
  <2>4. /\ list \in Seq(TrusteeRow) /\ Len(list) = Len(own)
        /\ \A j \in 1 .. Len(own) : list[j] = IF j = i THEN new ELSE own[j]
    <3>1. own \in Seq(TrusteeRow) /\ i \in DOMAIN own /\ new \in TrusteeRow
      BY <1>0, <2>1, <2>2
    <3>. HIDE DEF list
    <3>2. /\ ReplaceAt(own, i, new) \in Seq(TrusteeRow)
          /\ Len(ReplaceAt(own, i, new)) = Len(own)
          /\ \A j \in 1 .. Len(own) :
               ReplaceAt(own, i, new)[j] = IF j = i THEN new ELSE own[j]
      BY <3>1, ReplaceAtShape, ZenonT(60)
    <3> QED BY <3>2 DEF list
  <2>5. DOMAIN list = 1 .. Len(own) /\ list # <<>>
    BY <1>1, <2>1, <2>4
  <2>6. Distinct(list)
    BY <1>1, <2>1, <2>2, <2>4, <2>5 DEF Distinct
  <2> QED BY <1>0, <2>3, <2>4, <2>5, <2>6
<1>4. ASSUME NEW i, DeleteTrustee(u, i) PROVE Goal
  <2>1. /\ i \in DOMAIN own /\ SetTrustees(u, RemoveAt(own, i))
        /\ Current(u).status = "published" => Len(own) > 1
    BY <1>4 DEF DeleteTrustee, Removable
  <2>. DEFINE list == RemoveAt(own, i)
  <2>. HIDE DEF own
  <2>4. /\ list \in Seq(TrusteeRow) /\ Len(list) = Len(own) - 1
        /\ \A j \in 1 .. Len(own) - 1 : list[j] = IF j < i THEN own[j] ELSE own[j + 1]
    <3>1. own \in Seq(TrusteeRow) /\ i \in DOMAIN own
      BY <1>0, <2>1
    <3> QED BY <3>1, RemoveAtShape
  <2>5. DOMAIN list = 1 .. Len(own) - 1
    BY <2>4
  <2>6. Distinct(list)
    <3> SUFFICES ASSUME NEW j \in 1 .. Len(own) - 1, NEW k \in 1 .. Len(own) - 1,
                        list[j].id = list[k].id
                 PROVE  j = k
      BY <2>5 DEF Distinct
    <3>. DEFINE place(m) == IF m < i THEN m ELSE m + 1
    <3>1. \A m \in 1 .. Len(own) - 1 : place(m) \in DOMAIN own /\ list[m] = own[place(m)]
      BY <1>1, <2>1, <2>4
    <3>. HIDE DEF list, place
    <3>2. /\ place(j) \in DOMAIN own /\ place(k) \in DOMAIN own
          /\ own[place(j)].id = own[place(k)].id
      BY <3>1
    <3>3. place(j) = place(k)
      BY <1>1, <3>2 DEF Distinct
    <3> QED BY <1>1, <2>1, <3>3 DEF place
  <2>7. Len(own) > 1 => list # <<>>
    BY <1>1, <2>4
  <2> QED BY <1>0, <2>1, <2>4, <2>6, <2>7
<1> QED BY <1>2, <1>3, <1>4 DEF PanelEdit

\* Only edits change a list.
LEMMA PanelsKept ==
  ASSUME LooseTypeOK, [MemoryNext]_memoryVars
  PROVE  UNCHANGED trustees
           \/ \E u \in Users : PanelEdit(u)
<1>1. ASSUME NEW email \in Emails, NEW r \in Requests, NEW decision \in Decisions,
             RecordVerificationDecision(email, r, decision)
      PROVE  UNCHANGED trustees
  BY <1>1 DEF RecordVerificationDecision
<1>2. CASE TransitionOverdueWills
  BY <1>2, SweepShape
<1>3. ASSUME NEW u \in Users,
             \/ \E config \in Config : CreateWill(u, config) \/ UpdateWill(u, config)
             \/ DeleteWill(u) \/ SubmitHeartbeat(u)
      PROVE  UNCHANGED trustees
  BY <1>3, Zenon DEF CreateWill, UpdateWill, DeleteWill, SubmitHeartbeat
<1> QED BY <1>1, <1>2, <1>3, Calls

LEMMA IdsStep ==
  ASSUME LooseTypeOK, IdsDiffer, [MemoryNext]_memoryVars
  PROVE  IdsDiffer'
<1>1. CASE UNCHANGED trustees
  BY <1>1 DEF IdsDiffer
<1>2. ASSUME NEW u \in Users, PanelEdit(u) PROVE IdsDiffer'
  <2>1. PICK list \in Seq(TrusteeRow) : Editable(u) /\ SetTrustees(u, list) /\ Distinct(list)
    BY <1>2, PanelEditDistinct
  <2>2. \A w \in Wills : trustees'[w] = IF w = wills[u].id THEN list ELSE trustees[w]
    BY <2>1, SetTrusteesShape
  <2> QED BY <2>1, <2>2 DEF IdsDiffer
<1> QED BY <1>1, <1>2, PanelsKept

\* Distinct ids bound the length.
LEMMA PanelsFit ==
  ASSUME LooseTypeOK, IdsDiffer
  PROVE  MemoryTypeOK
<1>1. ASSUME NEW w \in Wills PROVE trustees[w] \in Panels
  <2>. DEFINE list == trustees[w]
              f == [i \in 1 .. Len(list) |-> list[i].id]
  <2>1. list \in Seq(TrusteeRow) /\ Len(list) \in Nat /\ DOMAIN list = 1 .. Len(list)
    BY DEF LooseTypeOK
  <2>2. list \in [1 .. Len(list) -> TrusteeRow]
    BY <2>1
  <2>3. \A i \in 1 .. Len(list) : list[i].id \in Trustees
    BY <2>2 DEF TrusteeRow
  <2>4. f \in Injection(1 .. Len(list), Trustees)
    <3>1. f \in [1 .. Len(list) -> Trustees]
      BY <2>3
    <3>2. \A i, j \in 1 .. Len(list) : f[i] = f[j] => i = j
      BY <2>1 DEF IdsDiffer, Distinct
    <3>. HIDE DEF f
    <3> QED BY <3>1, <3>2 DEF Injection, IsInjective
  <2>5. Cardinality(1 .. Len(list)) <= Cardinality(Trustees)
    <3>. HIDE DEF f, list
    <3> QED BY <2>4, FS_Injection, MemoryAssumption
  <2>6. Cardinality(1 .. Len(list)) = Len(list) /\ Cardinality(Trustees) \in Nat
    <3>. DEFINE n == Len(list)
    <3>1. n \in Nat
      BY <2>1
    <3>. HIDE DEF n
    <3>2. Cardinality(1 .. n) = IF 1 > n THEN 0 ELSE n - 1 + 1
      BY <3>1, FS_Interval
    <3>3. Cardinality(1 .. n) = n
      BY <3>1, <3>2
    <3>4. Cardinality(Trustees) \in Nat
      BY FS_CardinalityType, MemoryAssumption
    <3> QED BY <3>3, <3>4 DEF n
  <2>7. Len(list) \in 0 .. Cardinality(Trustees)
    BY <2>1, <2>5, <2>6
  <2>8. list \in [1 .. Len(list) -> [id : Trustees, email : Emails]]
    BY <2>2 DEF TrusteeRow
  <2>. HIDE DEF list
  <2>9. list \in Panels
    BY <2>7, <2>8 DEF Panels
  <2> QED BY <2>9 DEF list
<1>2. trustees \in [Wills -> Panels]
  BY <1>1 DEF LooseTypeOK
<1> QED BY <1>2 DEF LooseTypeOK, MemoryTypeOK

PanelInv == LooseTypeOK /\ IssuedWills /\ IdsDiffer

LEMMA PanelInvStep ==
  ASSUME PanelInv, [MemoryNext]_memoryVars
  PROVE  PanelInv'
BY LooseStep, IdsStep DEF PanelInv

LEMMA PanelInvInit == MemoryInit => PanelInv
<1> SUFFICES ASSUME MemoryInit PROVE PanelInv
  OBVIOUS
<1>1. \A w \in Wills : trustees[w] = <<>>
  BY DEF MemoryInit
<1>2. LooseTypeOK
  BY DEF MemoryInit, LooseTypeOK
<1>3. IdsDiffer
  BY <1>1 DEF IdsDiffer, Distinct
<1> QED BY <1>2, <1>3 DEF MemoryInit, PanelInv, IssuedWills

\* The store's maps keep their types, and a will never has more trustees than
\* there are ids, however trustees are added, removed and added again.
THEOREM MemoryTypes == MemorySpec => []MemoryTypeOK
<1>1. PanelInv /\ [MemoryNext]_memoryVars => PanelInv'
  BY PanelInvStep
<1>2. PanelInv => MemoryTypeOK
  BY PanelsFit DEF PanelInv
<1> QED BY <1>1, <1>2, PanelInvInit, PTL DEF MemorySpec

-----------------------------------------------------------------------------
\* Whose wills and rounds they are

OwnersDiffer ==
  \A u, v \in Users :
    wills[u] # NoWill /\ wills[v] # NoWill /\ wills[u].id = wills[v].id => u = v

\* A round belongs to a will that was issued, and to its owner while he has it.
RoundsOwned ==
  \A r \in Requests : rounds[r] # NoRound =>
    /\ rounds[r].will \in issued
    /\ \A u \in Users : wills[u] # NoWill /\ wills[u].id = rounds[r].will
                          => rounds[r].user = u

UnusedUnanswered == \A r \in Unused, tr \in Trustees : latest[r][tr] = "none"

OwnInv == PanelInv /\ OwnersDiffer /\ RoundsOwned /\ UnusedUnanswered

\* Two users never come to share an id.
LEMMA OwnersStep ==
  ASSUME PanelInv, OwnersDiffer, [MemoryNext]_memoryVars
  PROVE  OwnersDiffer'
<1>1. CASE SameIds
  BY <1>1 DEF SameIds, OwnersDiffer, Live
<1>2. ASSUME NEW u \in Users, NEW config \in Config, CreateWill(u, config)
      PROVE  OwnersDiffer'
  <2>1. PICK w \in Wills \ issued : wills' = [wills EXCEPT ![u] =
             [id |-> w, deleted |-> FALSE, history |-> <<config>>, lifecycle |-> "active",
              lastHeartbeat |-> Never, graceStarted |-> Never, updatedAt |-> now]]
    BY <1>2 DEF CreateWill
  <2>2. wills'[u].id = w /\ \A v \in Users : v # u => wills'[v] = wills[v]
    BY <2>1 DEF PanelInv, LooseTypeOK
  <2> QED BY <2>2 DEF PanelInv, IssuedWills, OwnersDiffer
<1> QED BY <1>1, <1>2, LooseStep DEF PanelInv

\* A round is opened by the sweep, closed once, and otherwise left alone.
Closes(r, status) ==
  rounds[r].status = "pending" /\ rounds'[r] = [rounds[r] EXCEPT !.status = status]

LEMMA RoundMoves ==
  ASSUME LooseTypeOK, [MemoryNext]_memoryVars, NEW r \in Requests
  PROVE  \/ rounds'[r] = rounds[r]
         \/ TransitionOverdueWills /\ rounds[r] = NoRound
              /\ \E u \in Users : Dormant(u) /\ rounds'[r] = Opened(u)
         \/ Closes(r, "cancelled") \/ Closes(r, "resolved")
<1>1. CASE TransitionOverdueWills
  BY <1>1, SweepOpens
<1>2. ASSUME NEW u \in Users, SubmitHeartbeat(u)
      PROVE  rounds'[r] = rounds[r] \/ Closes(r, "cancelled")
  BY <1>2 DEF SubmitHeartbeat, CancelRounds, OpenRounds, Closes
<1>3. ASSUME NEW u \in Users,
             \/ \E config \in Config : CreateWill(u, config) \/ UpdateWill(u, config)
             \/ DeleteWill(u)
      PROVE  UNCHANGED rounds
  BY <1>3, Zenon DEF CreateWill, UpdateWill, DeleteWill
<1>4. ASSUME NEW u \in Users, PanelEdit(u) PROVE UNCHANGED rounds
  BY <1>4, PanelEditShape DEF SetTrustees
<1>5. ASSUME NEW email \in Emails, NEW q \in Requests, NEW decision \in Decisions,
             RecordVerificationDecision(email, q, decision)
      PROVE  rounds'[r] = rounds[r] \/ Closes(r, "resolved")
  <2>1. Decisive(q) \/ UNCHANGED rounds
    BY <1>5, DecisionShape
  <2>2. rounds[q].status = "pending"
    BY <1>5, DecisionShape
  <2> QED BY <2>1, <2>2 DEF Decisive, Closes, LooseTypeOK
<1> QED BY <1>1, <1>2, <1>3, <1>4, <1>5, Calls

\* Closing a round changes its status only.
LEMMA ClosedRound ==
  ASSUME LooseTypeOK, NEW r \in Requests,
         NEW status \in {"cancelled", "resolved"}, Closes(r, status)
  PROVE  /\ rounds[r] \in Round /\ rounds[r] # NoRound
         /\ rounds'[r].status = status /\ rounds'[r] # NoRound
         /\ rounds'[r].will = rounds[r].will /\ rounds'[r].user = rounds[r].user
<1>1. rounds[r] \in Round
  BY DEF Closes, NoRound, LooseTypeOK
<1>2. rounds'[r].status = status /\ rounds'[r].will = rounds[r].will
        /\ rounds'[r].user = rounds[r].user
  BY <1>1 DEF Closes, Round
<1> QED BY <1>1, <1>2 DEF Closes, NoRound

\* An opened round is its user's live will's.
LEMMA OpenedRound ==
  ASSUME NEW u \in Users, Dormant(u)
  PROVE  /\ Live(u) /\ wills[u].lifecycle = "active"
         /\ Opened(u).status = "pending" /\ Opened(u).will = wills[u].id
         /\ Opened(u).user = u
         /\ Opened(u).threshold = (Len(OwnTrustees(u)) \div 2) + 1
BY DEF Dormant, Watched, Opened

LEMMA RoundsOwnedStep ==
  ASSUME OwnInv, [MemoryNext]_memoryVars
  PROVE  RoundsOwned'
<1> USE DEF OwnInv
<1> SUFFICES ASSUME NEW r \in Requests, rounds'[r] # NoRound
             PROVE  /\ rounds'[r].will \in issued'
                    /\ \A u \in Users : wills'[u] # NoWill /\ wills'[u].id = rounds'[r].will
                                          => rounds'[r].user = u
  BY DEF RoundsOwned
<1>0. issued \subseteq issued'
  BY LooseStep DEF PanelInv
<1>1. CASE /\ rounds[r] # NoRound
           /\ rounds'[r].will = rounds[r].will /\ rounds'[r].user = rounds[r].user
  <2>1. rounds[r].will \in issued
    BY <1>1 DEF RoundsOwned
  <2>2. ASSUME NEW u \in Users, wills'[u] # NoWill, wills'[u].id = rounds[r].will
        PROVE  rounds[r].user = u
    <3>1. CASE SameIds
      BY <1>1, <2>2, <3>1 DEF SameIds, RoundsOwned, Live
    <3>2. ASSUME NEW v \in Users, NEW config \in Config, CreateWill(v, config)
          PROVE  rounds[r].user = u
      <4>1. PICK w \in Wills \ issued : wills' = [wills EXCEPT ![v] =
                 [id |-> w, deleted |-> FALSE, history |-> <<config>>,
                  lifecycle |-> "active", lastHeartbeat |-> Never,
                  graceStarted |-> Never, updatedAt |-> now]]
        BY <3>2 DEF CreateWill
      <4>2. wills'[v].id = w /\ (u # v => wills'[u] = wills[u])
        BY <4>1 DEF PanelInv, LooseTypeOK
      <4> QED BY <1>1, <2>1, <2>2, <4>2 DEF RoundsOwned
    <3> QED BY <3>1, <3>2, LooseStep DEF PanelInv
  <2> QED BY <1>0, <1>1, <2>1, <2>2
<1>2. ASSUME TransitionOverdueWills, NEW v \in Users, Dormant(v), rounds'[r] = Opened(v)
      PROVE  /\ rounds'[r].will \in issued'
             /\ \A u \in Users : wills'[u] # NoWill /\ wills'[u].id = rounds'[r].will
                                   => rounds'[r].user = u
  <2>1. Live(v) /\ rounds'[r].will = wills[v].id /\ rounds'[r].user = v
    BY <1>2, OpenedRound
  <2>2. SameIds
    BY <1>2, SweepTypes DEF PanelInv
  <2>3. wills[v].id \in issued
    BY <2>1 DEF PanelInv, IssuedWills, Live
  <2>4. ASSUME NEW u \in Users, wills'[u] # NoWill, wills'[u].id = wills[v].id PROVE u = v
    BY <2>1, <2>2, <2>4 DEF SameIds, OwnersDiffer, Live
  <2> QED BY <1>0, <2>1, <2>3, <2>4
<1>3. CASE rounds'[r] = rounds[r]
  BY <1>1, <1>3
<1>4. CASE Closes(r, "cancelled") \/ Closes(r, "resolved")
  BY <1>1, <1>4, ClosedRound DEF PanelInv
<1> QED BY <1>2, <1>3, <1>4, RoundMoves DEF PanelInv

\* What a step does to the responses.
LEMMA LatestMoves ==
  ASSUME LooseTypeOK, [MemoryNext]_memoryVars
  PROVE  \/ UNCHANGED latest
         \/ \E email \in Emails, r \in Requests, decision \in Decisions :
              RecordVerificationDecision(email, r, decision)
<1>1. ASSUME NEW u \in Users,
             \/ \E config \in Config : CreateWill(u, config) \/ UpdateWill(u, config)
             \/ DeleteWill(u) \/ SubmitHeartbeat(u)
      PROVE  UNCHANGED latest
  BY <1>1, Zenon DEF CreateWill, UpdateWill, DeleteWill, SubmitHeartbeat
<1>2. ASSUME NEW u \in Users, PanelEdit(u) PROVE UNCHANGED latest
  BY <1>2, PanelEditShape DEF SetTrustees
<1> QED BY <1>1, <1>2, SweepShape, Calls

LEMMA UnansweredStep ==
  ASSUME OwnInv, [MemoryNext]_memoryVars
  PROVE  UnusedUnanswered'
<1> USE DEF OwnInv
<1> SUFFICES ASSUME NEW r \in Requests, rounds'[r] = NoRound, NEW tr \in Trustees
             PROVE  latest'[r][tr] = "none"
  BY DEF UnusedUnanswered, Unused
<1>1. rounds[r] = NoRound
  <2>1. ~Closes(r, "cancelled") /\ ~Closes(r, "resolved")
    BY ClosedRound DEF PanelInv
  <2>2. \A u \in Users : Dormant(u) => rounds'[r] # Opened(u)
    BY OpenedRound DEF NoRound
  <2> QED BY <2>1, <2>2, RoundMoves DEF PanelInv
<1>2. latest[r][tr] = "none"
  BY <1>1 DEF UnusedUnanswered, Unused
<1>3. ASSUME NEW email \in Emails, NEW q \in Requests, NEW decision \in Decisions,
             RecordVerificationDecision(email, q, decision)
      PROVE  latest'[r] = latest[r]
  <2>1. rounds[q].status = "pending"
    BY <1>3, DecisionShape DEF PanelInv
  <2>2. q # r
    BY <1>1, <2>1 DEF NoRound
  <2>3. PICK y : latest' = [latest EXCEPT ![q] = y]
    BY <1>3, DecisionShape DEF PanelInv
  <2> QED BY <2>2, <2>3 DEF PanelInv, LooseTypeOK
<1> QED BY <1>2, <1>3, LatestMoves DEF PanelInv

LEMMA OwnInvStep ==
  ASSUME OwnInv, [MemoryNext]_memoryVars
  PROVE  OwnInv'
BY PanelInvStep, OwnersStep, RoundsOwnedStep, UnansweredStep DEF OwnInv

LEMMA OwnInvInit == MemoryInit => OwnInv
<1> SUFFICES ASSUME MemoryInit PROVE OwnInv
  OBVIOUS
<1>1. OwnersDiffer /\ RoundsOwned /\ UnusedUnanswered
  BY DEF MemoryInit, OwnersDiffer, RoundsOwned, UnusedUnanswered, Unused
<1> QED BY <1>1, PanelInvInit DEF OwnInv

-----------------------------------------------------------------------------
\* Which rounds of a will are open

\* OneRoundWhileWaiting without counting.
OneRoundFor(u) ==
  IF wills[u].lifecycle = "pending_verification"
  THEN \E r \in Requests : OpenRounds(wills[u].id) = {r}
  ELSE OpenRounds(wills[u].id) = {}

\* A live will that is active has no open round, whatever moved it before.
Settled(u) ==
  /\ Live(u) /\ wills[u].lifecycle = "active" => OpenRounds(wills[u].id) = {}
  /\ InOrder(u) => OneRoundFor(u)

QuietInv == OwnInv /\ \A u \in Users : Settled(u)

\* A heartbeat that restores a will cancels all of its rounds, and no other's.
LEMMA CancelCloses ==
  ASSUME LooseTypeOK, NEW w, rounds' = CancelRounds(w)
  PROVE  OpenRounds(w)' = {} /\ \A x : x # w => OpenRounds(x)' = OpenRounds(x)
<1>1. ASSUME NEW r \in Requests
      PROVE  rounds'[r] = IF r \in OpenRounds(w) THEN [rounds[r] EXCEPT !.status = "cancelled"]
                                                 ELSE rounds[r]
  BY DEF CancelRounds
<1>2. ASSUME NEW r \in OpenRounds(w)
      PROVE  r \in Requests /\ rounds'[r].status = "cancelled" /\ rounds[r].will = w
  <2>1. Closes(r, "cancelled") /\ r \in Requests /\ rounds[r].will = w
    BY <1>1 DEF Closes, OpenRounds
  <2> QED BY <2>1, ClosedRound
<1>3. OpenRounds(w)' = {}
  BY <1>1, <1>2 DEF OpenRounds
<1>4. ASSUME NEW x, x # w PROVE OpenRounds(x)' = OpenRounds(x)
  <2>1. \A r \in Requests : r \notin OpenRounds(w) => rounds'[r] = rounds[r]
    BY <1>1
  <2>2. \A r \in OpenRounds(w) : r \notin OpenRounds(x) /\ r \notin OpenRounds(x)'
    BY <1>2, <1>4 DEF OpenRounds
  <2> QED BY <2>1, <2>2 DEF OpenRounds
<1> QED BY <1>3, <1>4

\* A decisive response closes its round.
LEMMA DecisionCloses ==
  ASSUME LooseTypeOK, NEW r \in Requests, rounds[r].status = "pending", Decisive(r)
  PROVE  \A x : OpenRounds(x)' = OpenRounds(x) \ {r}
<1>1. rounds' = [rounds EXCEPT ![r] = [rounds[r] EXCEPT !.status = "resolved"]]
  BY DEF Decisive
<1>2. Closes(r, "resolved") /\ \A q \in Requests : q # r => rounds'[q] = rounds[q]
  BY <1>1 DEF Closes, LooseTypeOK
<1>3. rounds'[r].status = "resolved"
  BY <1>2, ClosedRound
<1> QED BY <1>2, <1>3 DEF OpenRounds

\* The sweep opens one round for a due user's will, and none for another will.
LEMMA SweepOpensOne ==
  ASSUME OwnInv, TransitionOverdueWills, NEW u \in Users, wills[u] # NoWill,
         NEW w, w = wills[u].id
  PROVE  /\ Dormant(u) => \E r \in Requests : OpenRounds(w)' = OpenRounds(w) \union {r}
         /\ ~Dormant(u) => OpenRounds(w)' = OpenRounds(w)
<1>1. ASSUME NEW v \in Users, Dormant(v), v # u PROVE Opened(v).will # w
  <2>1. Live(v) /\ Opened(v).will = wills[v].id
    BY <1>1, OpenedRound
  <2> QED BY <1>1, <2>1 DEF OwnInv, OwnersDiffer, Live
<1>2. \A q \in Requests : rounds[q] = NoRound => q \notin OpenRounds(w)
  BY DEF OpenRounds, NoRound
<1>3. CASE Dormant(u)
  <2>1. PICK r \in Requests :
           /\ rounds[r] = NoRound /\ rounds'[r] = Opened(u)
           /\ \A q \in Requests \ {r} : rounds'[q] # rounds[q] =>
                \E v \in Users \ {u} : Dormant(v) /\ rounds'[q] = Opened(v)
    <3>1. \A v \in Users : Dormant(v) =>
              \E r \in Requests :
                /\ rounds[r] = NoRound /\ rounds'[r] = Opened(v)
                /\ \A q \in Requests \ {r} : rounds'[q] # rounds[q] =>
                     \E x \in Users \ {v} : Dormant(x) /\ rounds'[q] = Opened(x)
      BY SweepShape
    <3> QED BY <1>3, <3>1
  <2>2. r \in OpenRounds(w)'
    BY <1>3, <2>1, OpenedRound DEF OpenRounds
  <2>3. ASSUME NEW q \in Requests, q # r PROVE q \in OpenRounds(w)' <=> q \in OpenRounds(w)
    <3>1. CASE rounds'[q] = rounds[q]
      BY <3>1 DEF OpenRounds
    <3>2. CASE rounds'[q] # rounds[q]
      <4>1. rounds[q] = NoRound
        BY <3>2, SweepOpens
      <4>2. PICK v \in Users \ {u} : Dormant(v) /\ rounds'[q] = Opened(v)
        BY <2>1, <2>3, <3>2
      <4> QED BY <1>1, <1>2, <4>1, <4>2 DEF OpenRounds
    <3> QED BY <3>1, <3>2
  <2>4. OpenRounds(w)' = OpenRounds(w) \union {r}
    <3>1. OpenRounds(w) \subseteq Requests /\ OpenRounds(w)' \subseteq Requests
      BY DEF OpenRounds
    <3> QED BY <2>2, <2>3, <3>1
  <2> QED BY <1>3, <2>4
<1>4. CASE ~Dormant(u)
  <2>1. ASSUME NEW q \in Requests PROVE q \in OpenRounds(w)' <=> q \in OpenRounds(w)
    <3>1. CASE rounds'[q] = rounds[q]
      BY <3>1 DEF OpenRounds
    <3>2. CASE rounds'[q] # rounds[q]
      <4>1. rounds[q] = NoRound
        BY <3>2, SweepOpens
      <4>2. PICK v \in Users : Dormant(v) /\ rounds'[q] = Opened(v)
        BY <3>2, SweepOpens
      <4>3. v # u
        BY <1>4, <4>2
      <4> QED BY <1>1, <1>2, <4>1, <4>2, <4>3 DEF OpenRounds
    <3> QED BY <3>1, <3>2
  <2>2. OpenRounds(w)' = OpenRounds(w)
    <3>1. OpenRounds(w) \subseteq Requests /\ OpenRounds(w)' \subseteq Requests
      BY DEF OpenRounds
    <3> QED BY <2>1, <3>1
  <2> QED BY <1>4, <2>2
<1> QED BY <1>3, <1>4

\* A will whose lifecycle and rounds a step leaves alone stays settled.
LEMMA SettledKept ==
  ASSUME NEW u \in Users, Settled(u), NEW w,
         Live(u)' => /\ Live(u) /\ wills[u].id = w /\ wills'[u].id = w
                     /\ wills'[u].lifecycle = wills[u].lifecycle
                     /\ OpenRounds(w)' = OpenRounds(w),
         crossed \subseteq crossed'
  PROVE  Settled(u)'
BY DEF Settled, InOrder, OneRoundFor

\* A will that becomes active with no round open is settled.
LEMMA SettledActive ==
  ASSUME NEW u \in Users, NEW w, wills'[u].id = w, wills'[u].lifecycle = "active",
         OpenRounds(w)' = {}
  PROVE  Settled(u)'
BY DEF Settled, OneRoundFor

\* Steps that touch no round: a new will has none.
LEMMA CreateSettled ==
  ASSUME QuietInv, NEW u \in Users, NEW config \in Config, CreateWill(u, config)
  PROVE  \A v \in Users : Settled(v)'
<1> USE DEF QuietInv, OwnInv, PanelInv
<1>1. PICK w \in Wills \ issued : wills' = [wills EXCEPT ![u] =
             [id |-> w, deleted |-> FALSE, history |-> <<config>>, lifecycle |-> "active",
              lastHeartbeat |-> Never, graceStarted |-> Never, updatedAt |-> now]]
  BY DEF CreateWill
<1>2. /\ wills'[u].id = w /\ wills'[u].lifecycle = "active"
      /\ \A v \in Users : v # u => wills'[v] = wills[v]
  BY <1>1 DEF LooseTypeOK
<1>3. UNCHANGED <<rounds, crossed>>
  BY DEF CreateWill
<1>4. \A x : OpenRounds(x)' = OpenRounds(x)
  BY <1>3 DEF OpenRounds
<1>5. OpenRounds(w) = {}
  BY DEF OpenRounds, RoundsOwned, NoRound
<1>6. Settled(u)'
  BY <1>2, <1>4, <1>5, SettledActive
<1>7. ASSUME NEW v \in Users, v # u PROVE Settled(v)'
  BY <1>2, <1>3, <1>4, <1>7, SettledKept DEF Live
<1> QED BY <1>6, <1>7

LEMMA OwnerCallSettled ==
  ASSUME QuietInv, NEW u \in Users,
         \/ \E config \in Config : UpdateWill(u, config)
         \/ DeleteWill(u) \/ SubmitHeartbeat(u)
  PROVE  \A v \in Users : Settled(v)'
<1> USE DEF QuietInv, OwnInv, PanelInv
<1>0. Live(u) /\ wills[u] \in StoredWill /\ \A v \in Users : v # u => wills'[v] = wills[v]
  <2>1. Live(u)
    BY DEF UpdateWill, DeleteWill, SubmitHeartbeat, Editable
  <2>2. \A v \in Users : v # u => wills'[v] = wills[v]
    BY DEF UpdateWill, DeleteWill, SubmitHeartbeat, LooseTypeOK
  <2> QED BY <2>1, <2>2, LiveWill
<1>1. ASSUME UNCHANGED <<rounds, crossed>>, Live(u)' => Live(u), wills'[u].id = wills[u].id,
             wills'[u].lifecycle = wills[u].lifecycle
      PROVE  \A v \in Users : Settled(v)'
  <2>1. \A x : OpenRounds(x)' = OpenRounds(x)
    BY <1>1 DEF OpenRounds
  <2> SUFFICES ASSUME NEW v \in Users PROVE Settled(v)'
    OBVIOUS
  <2>. DEFINE x == wills[v].id
  <2>2. Live(v)' => Live(v) /\ wills'[v].id = wills[v].id
                      /\ wills'[v].lifecycle = wills[v].lifecycle
    BY <1>0, <1>1 DEF Live
  <2> QED BY <1>1, <2>1, <2>2, SettledKept
<1>2. ASSUME NEW config \in Config, UpdateWill(u, config)
      PROVE  \A v \in Users : Settled(v)'
  <2>1. wills'[u].id = wills[u].id /\ wills'[u].lifecycle = wills[u].lifecycle
    BY <1>0, <1>2 DEF UpdateWill, LooseTypeOK, StoredWill
  <2> QED BY <1>0, <1>1, <1>2, <2>1 DEF UpdateWill
<1>3. CASE DeleteWill(u)
  <2>1. wills'[u].id = wills[u].id /\ wills'[u].lifecycle = wills[u].lifecycle
    BY <1>0, <1>3 DEF DeleteWill, LooseTypeOK, StoredWill
  <2> QED BY <1>0, <1>1, <1>3, <2>1 DEF DeleteWill
<1>4. CASE SubmitHeartbeat(u) /\ wills[u].lifecycle = "active"
  <2>1. wills'[u].id = wills[u].id /\ wills'[u].lifecycle = wills[u].lifecycle
    BY <1>0, <1>4 DEF SubmitHeartbeat, LooseTypeOK, StoredWill
  <2> QED BY <1>0, <1>1, <1>4, <2>1 DEF SubmitHeartbeat
<1>5. CASE SubmitHeartbeat(u) /\ wills[u].lifecycle # "active"
  <2>1. PICK w : w = wills[u].id
    OBVIOUS
  <2>2. wills'[u].id = w /\ wills'[u].lifecycle = "active"
    BY <1>0, <1>5, <2>1 DEF SubmitHeartbeat, LooseTypeOK, StoredWill
  <2>3. rounds' = CancelRounds(w) /\ UNCHANGED crossed
    BY <1>5, <2>1 DEF SubmitHeartbeat
  <2>4. OpenRounds(w)' = {} /\ \A x : x # w => OpenRounds(x)' = OpenRounds(x)
    BY <2>3, CancelCloses
  <2>5. Settled(u)'
    BY <2>2, <2>4, SettledActive
  <2>6. ASSUME NEW v \in Users, v # u PROVE Settled(v)'
    <3>1. Live(v)' => /\ Live(v) /\ wills'[v].id = wills[v].id /\ wills[v].id # w
                      /\ wills'[v].lifecycle = wills[v].lifecycle
      BY <1>0, <2>1, <2>6 DEF Live, OwnersDiffer
    <3> QED BY <2>3, <2>4, <3>1, SettledKept
  <2> QED BY <2>5, <2>6
<1> QED BY <1>2, <1>3, <1>4, <1>5

\* A step that changes neither wills nor rounds keeps them settled.
LEMMA SettledUnchanged ==
  ASSUME QuietInv, UNCHANGED <<wills, rounds, crossed>>
  PROVE  \A v \in Users : Settled(v)'
BY DEF QuietInv, Settled, InOrder, Live, OneRoundFor, OpenRounds

\* The sweep opens the round of a will that had none.
LEMMA SweepSettled ==
  ASSUME QuietInv, TransitionOverdueWills
  PROVE  \A v \in Users : Settled(v)'
<1> USE DEF QuietInv, OwnInv, PanelInv
<1> SUFFICES ASSUME NEW u \in Users, Live(u)' PROVE Settled(u)'
  BY DEF Settled, InOrder
<1>1. wills'[u] =
       IF Dormant(u)
       THEN [wills[u] EXCEPT !.lifecycle = "pending_verification", !.updatedAt = now]
       ELSE IF GraceOver(u)
       THEN [wills[u] EXCEPT !.lifecycle = "ready_for_execution", !.updatedAt = now]
       ELSE wills[u]
  <2>1. \A v \in Users : wills'[v] =
          IF Dormant(v)
          THEN [wills[v] EXCEPT !.lifecycle = "pending_verification", !.updatedAt = now]
          ELSE IF GraceOver(v)
          THEN [wills[v] EXCEPT !.lifecycle = "ready_for_execution", !.updatedAt = now]
          ELSE wills[v]
    BY SweepShape
  <2> QED BY <2>1
<1>2. Live(u) /\ wills[u] \in StoredWill
  <2>1. Dormant(u) \/ GraceOver(u) => Live(u)
    BY DEF Dormant, GraceOver, Watched
  <2>2. Live(u)
    BY <1>1, <2>1 DEF Live
  <2> QED BY <2>2, LiveWill
<1>3. PICK w : w = wills[u].id
  OBVIOUS
<1>4. crossed' = crossed
  BY SweepShape
<1>5. /\ Dormant(u) => \E r \in Requests : OpenRounds(w)' = OpenRounds(w) \union {r}
      /\ ~Dormant(u) => OpenRounds(w)' = OpenRounds(w)
  BY <1>2, <1>3, SweepOpensOne DEF Live
<1>6. CASE Dormant(u)
  <2>1. wills'[u].id = w /\ wills'[u].lifecycle = "pending_verification"
    BY <1>1, <1>2, <1>3, <1>6 DEF StoredWill
  <2>2. OpenRounds(w) = {}
    BY <1>2, <1>3, <1>6 DEF Dormant, Settled
  <2>3. PICK r \in Requests : OpenRounds(w)' = {r}
    BY <1>5, <1>6, <2>2
  <2> QED BY <2>1, <2>3 DEF Settled, OneRoundFor
<1>7. CASE ~Dormant(u) /\ GraceOver(u)
  <2>1. wills'[u].id = w /\ wills'[u].lifecycle = "ready_for_execution"
    BY <1>1, <1>2, <1>3, <1>7 DEF StoredWill
  <2>2. w \notin crossed => OpenRounds(w) = {}
    BY <1>2, <1>3, <1>7 DEF GraceOver, Settled, InOrder, OneRoundFor
  <2> QED BY <1>4, <1>5, <1>7, <2>1, <2>2 DEF Settled, InOrder, OneRoundFor
<1>8. CASE ~Dormant(u) /\ ~GraceOver(u)
  <2>1. wills'[u] = wills[u]
    BY <1>1, <1>8
  <2> QED BY <1>2, <1>3, <1>4, <1>5, <1>8, <2>1, SettledKept
<1> QED BY <1>6, <1>7, <1>8

\* A decisive response ends its own round and moves the will of that round, or
\* another will, which then counts as crossed.
LEMMA DecisionSettled ==
  ASSUME QuietInv, NEW email \in Emails, NEW r \in Requests, NEW decision \in Decisions,
         RecordVerificationDecision(email, r, decision)
  PROVE  \A v \in Users : Settled(v)'
<1> USE DEF QuietInv, OwnInv, PanelInv
<1>1. PICK u : u = rounds[r].user
  OBVIOUS
<1>2. rounds[r].status = "pending" /\ u \in Users /\ Live(u) /\ wills[u] \in StoredWill
  BY <1>1, DecisionShape, LiveWill
<1>3. CASE Decisive(r)
  <2>1. \A x : OpenRounds(x)' = OpenRounds(x) \ {r}
    BY <1>2, <1>3, DecisionCloses
  <2>2. /\ wills'[u].id = wills[u].id /\ wills'[u].lifecycle = "grace_period"
        /\ \A v \in Users : v # u => wills'[v] = wills[v]
    BY <1>1, <1>2, <1>3 DEF Decisive, LooseTypeOK, StoredWill
  <2>3. crossed' = crossed \union ({wills[u].id} \ {rounds[r].will})
    BY <1>1, <1>3 DEF Decisive
  <2>4. Settled(u)'
    <3>1. ASSUME InOrder(u)', NEW x, x = wills'[u].id PROVE OpenRounds(x)' = {}
      <4>1. InOrder(u) /\ rounds[r].will = wills[u].id /\ x = wills[u].id
        BY <1>2, <2>2, <2>3, <3>1 DEF InOrder
      <4>2. r \in OpenRounds(x)
        BY <1>2, <4>1 DEF OpenRounds
      <4>3. OpenRounds(x) \subseteq {r}
        BY <1>2, <4>1, <4>2 DEF Settled, OneRoundFor
      <4> QED BY <2>1, <4>3
    <3> QED BY <2>2, <3>1 DEF Settled, OneRoundFor
  <2>5. ASSUME NEW v \in Users, v # u PROVE Settled(v)'
    <3>1. PICK x : x = wills[v].id
      OBVIOUS
    <3>2. ASSUME Live(v) PROVE r \notin OpenRounds(x)
      BY <1>1, <1>2, <2>5, <3>1, <3>2 DEF OpenRounds, RoundsOwned, Live, NoRound
    <3> QED BY <2>1, <2>2, <2>3, <2>5, <3>1, <3>2, SettledKept DEF Live
  <2> QED BY <2>4, <2>5
<1>4. CASE UNCHANGED <<wills, rounds, crossed>>
  BY <1>4, SettledUnchanged
<1> QED BY <1>3, <1>4, DecisionShape

LEMMA QuietStep ==
  ASSUME QuietInv, [MemoryNext]_memoryVars
  PROVE  QuietInv'
<1>1. \A v \in Users : Settled(v)'
  <2>1. ASSUME NEW u \in Users, PanelEdit(u) PROVE UNCHANGED <<wills, rounds, crossed>>
    BY <2>1, PanelEditShape DEF SetTrustees, QuietInv, OwnInv, PanelInv
  <2> QED BY <2>1, CreateSettled, OwnerCallSettled, SettledUnchanged, SweepSettled,
             DecisionSettled, Calls
<1> QED BY <1>1, OwnInvStep DEF QuietInv

LEMMA QuietInit == MemoryInit => QuietInv
<1> SUFFICES ASSUME MemoryInit PROVE QuietInv
  OBVIOUS
<1>1. \A u \in Users : ~Live(u)
  BY DEF MemoryInit, Live
<1> QED BY <1>1, OwnInvInit DEF QuietInv, Settled, InOrder

\* However the wills of a user follow each other and whatever decision arrives
\* late: a will no earlier round moved waits exactly while one round is open.
THEOREM OneRoundEach == MemorySpec => []OneRoundWhileWaiting
<1>1. QuietInv /\ [MemoryNext]_memoryVars => QuietInv'
  BY QuietStep
<1>2. QuietInv => OneRoundWhileWaiting
  <2> SUFFICES ASSUME QuietInv, NEW u \in Users, InOrder(u)
               PROVE  Cardinality(OpenRounds(wills[u].id)) =
                        IF wills[u].lifecycle = "pending_verification" THEN 1 ELSE 0
    BY DEF OneRoundWhileWaiting
  <2>1. OneRoundFor(u)
    BY DEF QuietInv, Settled
  <2>2. CASE wills[u].lifecycle = "pending_verification"
    <3>1. PICK r \in Requests : OpenRounds(wills[u].id) = {r}
      BY <2>1, <2>2 DEF OneRoundFor
    <3> QED BY <2>2, <3>1, FS_Singleton
  <2>3. CASE wills[u].lifecycle # "pending_verification"
    BY <2>1, <2>3, FS_EmptySet DEF OneRoundFor
  <2> QED BY <2>2, <2>3
<1> QED BY <1>1, <1>2, QuietInit, PTL DEF MemorySpec

-----------------------------------------------------------------------------
\* Whose responses are counted

\* While a round is open no edit touches the trustees of its will.
LEMMA OpenRoundKeepsPanel ==
  ASSUME QuietInv, [MemoryNext]_memoryVars, NEW r \in Requests, rounds[r].status = "pending"
  PROVE  trustees'[rounds[r].will] = trustees[rounds[r].will]
<1> USE DEF QuietInv, OwnInv, PanelInv
<1>1. ASSUME NEW u \in Users, PanelEdit(u)
      PROVE  trustees'[rounds[r].will] = trustees[rounds[r].will]
  <2>1. PICK list : Editable(u) /\ SetTrustees(u, list)
    BY <1>1, PanelEditShape
  <2>2. OpenRounds(wills[u].id) = {}
    BY <2>1 DEF Editable, Settled
  <2>3. rounds[r].will # wills[u].id
    BY <2>2 DEF OpenRounds
  <2>4. rounds[r].will \in Wills
    BY DEF LooseTypeOK, NoRound, Round
  <2> QED BY <2>1, <2>3, <2>4, SetTrusteesShape
<1> QED BY <1>1, PanelsKept

\* A round that is pending after a step was so before, or has just been opened.
LEMMA PendingBefore ==
  ASSUME LooseTypeOK, [MemoryNext]_memoryVars, NEW r \in Requests, rounds'[r].status = "pending"
  PROVE  \/ rounds'[r] = rounds[r]
         \/ TransitionOverdueWills /\ rounds[r] = NoRound
              /\ \E u \in Users : Dormant(u) /\ rounds'[r] = Opened(u)
<1>1. ~Closes(r, "cancelled") /\ ~Closes(r, "resolved")
  BY ClosedRound
<1> QED BY <1>1, RoundMoves

LEMMA VotesStep ==
  ASSUME QuietInv, VotesHaveTrustee, [MemoryNext]_memoryVars
  PROVE  VotesHaveTrustee'
<1> USE DEF QuietInv, OwnInv, PanelInv
<1> SUFFICES ASSUME NEW r \in Requests, NEW tr \in Trustees,
                    rounds'[r].status = "pending", latest'[r][tr] # "none",
                    NEW w, w = rounds'[r].will
             PROVE  tr \in Ids(w)'
  BY DEF VotesHaveTrustee
<1>1. CASE rounds'[r] = rounds[r]
  <2>1. w = rounds[r].will
    BY <1>1
  <2>2. trustees'[w] = trustees[w]
    BY <1>1, <2>1, OpenRoundKeepsPanel
  <2>3. Ids(w)' = Ids(w)
    BY <2>2 DEF Ids
  <2>4. tr \in Ids(w)
    <3>1. ASSUME latest[r][tr] # "none" PROVE tr \in Ids(w)
      BY <1>1, <2>1, <3>1 DEF VotesHaveTrustee
    <3>2. ASSUME NEW email \in Emails, NEW q \in Requests, NEW decision \in Decisions,
                 RecordVerificationDecision(email, q, decision), latest[r][tr] = "none"
          PROVE  tr \in Ids(w)
      <4>1. PICK voter \in Ids(rounds[q].will) :
              latest' = [latest EXCEPT ![q] = [latest[q] EXCEPT ![voter] = decision]]
        BY <3>2, DecisionShape
      <4>2. q = r /\ voter = tr
        BY <3>2, <4>1 DEF LooseTypeOK
      <4> QED BY <2>1, <4>2
    <3> QED BY <3>1, <3>2, LatestMoves
  <2> QED BY <2>3, <2>4
<1>2. CASE TransitionOverdueWills /\ rounds[r] = NoRound
  <2>1. latest' = latest
    BY <1>2, SweepShape
  <2> QED BY <1>2, <2>1 DEF UnusedUnanswered, Unused
<1> QED BY <1>1, <1>2, PendingBefore

\* No response is counted that a trustee of the round's will did not give: no
\* cascade deletes responses here, and no edit happens while a round is open.
THEOREM OnlyTrusteesCount == MemorySpec => []VotesHaveTrustee
<1>1. MemoryInit => QuietInv /\ VotesHaveTrustee
  BY QuietInit DEF MemoryInit, VotesHaveTrustee, NoRound
<1>2. QuietInv /\ VotesHaveTrustee /\ [MemoryNext]_memoryVars => (QuietInv /\ VotesHaveTrustee)'
  BY QuietStep, VotesStep
<1> QED BY <1>1, <1>2, PTL DEF MemorySpec

-----------------------------------------------------------------------------
\* What each call does to the will of its user

LEMMA StoredIsWill ==
  ASSUME NEW x \in StoredWill
  PROVE  x # NoWill
<1>1. DOMAIN x # DOMAIN NoWill
  <2>1. "deleted" \in DOMAIN x
    BY DEF StoredWill
  <2>2. "deleted" \notin DOMAIN NoWill
    BY DEF NoWill
  <2> QED BY <2>1, <2>2
<1> QED BY <1>1

\* What the call makes of u's will, which stays live: same id, same versions.
Remains(u) ==
  /\ Live(u) /\ Live(u)'
  /\ wills'[u].id = wills[u].id /\ wills'[u].history = wills[u].history

OthersKept(u) == \A v \in Users : v # u => wills'[v] = wills[v]

LEMMA CreateEffect ==
  ASSUME LooseTypeOK, NEW u \in Users, NEW config \in Config, CreateWill(u, config)
  PROVE  \E w \in Wills \ issued :
           /\ Live(u)' /\ wills'[u].id = w /\ wills'[u].lifecycle = "active"
           /\ Current(u)' = config /\ config.status # "published" /\ ~Live(u)
           /\ OthersKept(u) /\ issued' = issued \union {w}
           /\ UNCHANGED <<trustees, rounds, latest, crossed>>
<1>1. PICK w \in Wills \ issued :
        /\ wills' = [wills EXCEPT ![u] =
             [id |-> w, deleted |-> FALSE, history |-> <<config>>, lifecycle |-> "active",
              lastHeartbeat |-> Never, graceStarted |-> Never, updatedAt |-> now]]
        /\ issued' = issued \union {w}
  BY DEF CreateWill
<1>2. wills'[u] = [id |-> w, deleted |-> FALSE, history |-> <<config>>,
                   lifecycle |-> "active", lastHeartbeat |-> Never,
                   graceStarted |-> Never, updatedAt |-> now]
  BY <1>1 DEF LooseTypeOK
<1>3. wills'[u] # NoWill
  <2>1. "deleted" \in DOMAIN wills'[u] /\ "deleted" \notin DOMAIN NoWill
    BY <1>2 DEF NoWill
  <2> QED BY <2>1
<1>4. Live(u)' /\ wills'[u].id = w /\ wills'[u].lifecycle = "active"
  BY <1>2, <1>3 DEF Live
<1>5. Current(u)' = config
  BY <1>2 DEF Current, Last
<1>6. ~Live(u) /\ config.status # "published"
  BY DEF CreateWill, HasTrustee
<1>7. OthersKept(u)
  BY <1>1 DEF OthersKept, LooseTypeOK
<1> QED BY <1>1, <1>4, <1>5, <1>6, <1>7 DEF CreateWill

LEMMA UpdateEffect ==
  ASSUME LooseTypeOK, NEW u \in Users, NEW config \in Config, UpdateWill(u, config)
  PROVE  /\ Live(u) /\ Live(u)' /\ wills'[u].id = wills[u].id
         /\ wills[u].lifecycle = "active" /\ wills'[u].lifecycle = "active"
         /\ Current(u)' = config
         /\ config.status = "published" => OwnTrustees(u) # <<>>
         /\ OthersKept(u)
         /\ UNCHANGED <<trustees, rounds, latest, issued, crossed>>
<1>. DEFINE x == [wills[u] EXCEPT !.history = Append(wills[u].history, config),
                                  !.updatedAt = now]
<1>1. Live(u) /\ wills[u].lifecycle = "active" /\ wills[u] \in StoredWill
  BY LiveWill DEF UpdateWill, Editable
<1>2. wills' = [wills EXCEPT ![u] = x]
  BY <1>1 DEF UpdateWill, LooseTypeOK
<1>3. wills'[u] = x /\ OthersKept(u)
  BY <1>2 DEF OthersKept, LooseTypeOK
<1>4. x \in StoredWill /\ x.id = wills[u].id
  BY <1>1, VersionFields DEF Changed, LooseTypeOK
<1>5. /\ x.lifecycle = wills[u].lifecycle /\ x.deleted = wills[u].deleted
      /\ x.history = Append(wills[u].history, config)
  BY <1>1 DEF StoredWill
<1>6. Live(u)'
  BY <1>1, <1>3, <1>4, <1>5, StoredIsWill DEF Live
<1>7. Current(u)' = config
  <2>1. wills[u].history \in Seq(Config)
    BY <1>1 DEF StoredWill
  <2>2. wills'[u].history = Append(wills[u].history, config)
    BY <1>3, <1>5
  <2>. HIDE DEF x, Config
  <2>3. Len(wills'[u].history) = Len(wills[u].history) + 1
    BY <2>1, <2>2
  <2>4. wills'[u].history[Len(wills[u].history) + 1] = config
    BY <2>1, <2>2
  <2> QED BY <2>3, <2>4 DEF Current, Last
<1> QED BY <1>1, <1>3, <1>4, <1>5, <1>6, <1>7 DEF UpdateWill, HasTrustee

LEMMA DeleteEffect ==
  ASSUME LooseTypeOK, NEW u \in Users, DeleteWill(u)
  PROVE  /\ Live(u) /\ ~Live(u)' /\ OthersKept(u)
         /\ UNCHANGED <<trustees, rounds, latest, issued, crossed>>
<1>1. Live(u) /\ wills[u] \in StoredWill
  BY LiveWill DEF DeleteWill
<1>2. wills' = [wills EXCEPT ![u] = [wills[u] EXCEPT !.deleted = TRUE, !.updatedAt = now]]
  BY <1>1 DEF DeleteWill, LooseTypeOK
<1>3. wills'[u].deleted /\ OthersKept(u)
  BY <1>1, <1>2 DEF OthersKept, LooseTypeOK, StoredWill
<1> QED BY <1>1, <1>3 DEF DeleteWill, Live

LEMMA HeartbeatEffect ==
  ASSUME LooseTypeOK, NEW u \in Users, SubmitHeartbeat(u)
  PROVE  /\ Remains(u) /\ wills'[u].lifecycle = "active" /\ OthersKept(u)
         /\ IF wills[u].lifecycle = "active" THEN UNCHANGED rounds
                                             ELSE rounds' = CancelRounds(wills[u].id)
         /\ UNCHANGED <<trustees, latest, issued, crossed>>
<1>1. Live(u) /\ wills[u] \in StoredWill /\ now \in Nat
  BY LiveWill DEF SubmitHeartbeat, LooseTypeOK
<1>2. \/ /\ wills[u].lifecycle = "active"
         /\ wills' = [wills EXCEPT ![u] =
                        [wills[u] EXCEPT !.lastHeartbeat = now, !.updatedAt = now]]
      \/ /\ wills[u].lifecycle # "active"
         /\ wills' = [wills EXCEPT ![u] =
                        [wills[u] EXCEPT !.lastHeartbeat = now, !.updatedAt = now,
                                         !.lifecycle = "active", !.graceStarted = Never]]
  BY <1>1 DEF SubmitHeartbeat, LooseTypeOK
<1>3. /\ OthersKept(u)
      /\ \/ wills'[u] = [wills[u] EXCEPT !.lastHeartbeat = now, !.updatedAt = now]
              /\ wills[u].lifecycle = "active"
         \/ wills'[u] = [wills[u] EXCEPT !.lastHeartbeat = now, !.updatedAt = now,
                                         !.lifecycle = "active", !.graceStarted = Never]
  BY <1>2 DEF OthersKept, LooseTypeOK
<1>4. /\ wills'[u] \in StoredWill /\ wills'[u].id = wills[u].id
      /\ wills'[u].lifecycle = "active" /\ wills'[u].history = wills[u].history
      /\ wills'[u].deleted = wills[u].deleted
  <2>1. Changed(wills[u], wills'[u])
    BY <1>1, <1>3, WillFields
  <2>2. /\ wills'[u].lifecycle = "active" /\ wills'[u].history = wills[u].history
        /\ wills'[u].deleted = wills[u].deleted
    BY <1>1, <1>3 DEF StoredWill
  <2> QED BY <2>1, <2>2 DEF Changed
<1>5. Remains(u)
  BY <1>1, <1>3, <1>4, StoredIsWill DEF Remains, Live
<1> QED BY <1>3, <1>4, <1>5 DEF SubmitHeartbeat

LEMMA SweepEffect ==
  ASSUME LooseTypeOK, TransitionOverdueWills, NEW u \in Users
  PROVE  /\ Dormant(u) \/ GraceOver(u) => Remains(u)
         /\ Dormant(u) => wills'[u].lifecycle = "pending_verification"
         /\ ~Dormant(u) /\ GraceOver(u) => wills'[u].lifecycle = "ready_for_execution"
         /\ ~Dormant(u) /\ ~GraceOver(u) => wills'[u] = wills[u]
<1>1. wills'[u] =
       IF Dormant(u)
       THEN [wills[u] EXCEPT !.lifecycle = "pending_verification", !.updatedAt = now]
       ELSE IF GraceOver(u)
       THEN [wills[u] EXCEPT !.lifecycle = "ready_for_execution", !.updatedAt = now]
       ELSE wills[u]
  <2>1. \A v \in Users : wills'[v] =
          IF Dormant(v)
          THEN [wills[v] EXCEPT !.lifecycle = "pending_verification", !.updatedAt = now]
          ELSE IF GraceOver(v)
          THEN [wills[v] EXCEPT !.lifecycle = "ready_for_execution", !.updatedAt = now]
          ELSE wills[v]
    BY SweepShape
  <2> QED BY <2>1
<1>2. ASSUME Dormant(u) \/ GraceOver(u)
      PROVE  /\ Remains(u)
             /\ wills'[u].lifecycle = IF Dormant(u) THEN "pending_verification"
                                                    ELSE "ready_for_execution"
  <2>1. Live(u) /\ wills[u] \in StoredWill /\ now \in Nat
    BY <1>2, LiveWill DEF Dormant, GraceOver, Watched, LooseTypeOK
  <2>2. wills'[u] = IF Dormant(u)
       THEN [wills[u] EXCEPT !.lifecycle = "pending_verification", !.updatedAt = now]
       ELSE [wills[u] EXCEPT !.lifecycle = "ready_for_execution", !.updatedAt = now]
    BY <1>1, <1>2
  <2>3. wills'[u] \in StoredWill /\ wills'[u].id = wills[u].id
    <3>1. CASE Dormant(u)
      <4>1. Changed(wills[u], wills'[u])
        BY <2>1, <2>2, <3>1, WillFields, ZenonT(60)
      <4> QED BY <4>1, SMTT(40) DEF Changed
    <3>2. CASE ~Dormant(u)
      <4>1. Changed(wills[u], wills'[u])
        BY <2>1, <2>2, <3>2, WillFields
      <4> QED BY <4>1 DEF Changed
    <3> QED BY <3>1, <3>2
  <2>4. /\ wills'[u].history = wills[u].history /\ wills'[u].deleted = wills[u].deleted
        /\ wills'[u].lifecycle = IF Dormant(u) THEN "pending_verification"
                                               ELSE "ready_for_execution"
    <3>1. PICK old \in StoredWill : old = wills[u]
      BY <2>1
    <3>2. CASE Dormant(u)
      BY <2>2, <3>1, <3>2 DEF StoredWill
    <3>3. CASE ~Dormant(u)
      BY <2>2, <3>1, <3>3 DEF StoredWill
    <3> QED BY <3>2, <3>3
  <2>5. Remains(u)
    BY <2>1, <2>3, <2>4, StoredIsWill DEF Remains, Live
  <2> QED BY <2>4, <2>5
<1> QED BY <1>1, <1>2

LEMMA DecisiveEffect ==
  ASSUME LooseTypeOK, NEW r \in Requests, NEW u \in Users, u = rounds[r].user,
         Live(u), Decisive(r)
  PROVE  /\ Remains(u) /\ wills'[u].lifecycle = "grace_period" /\ OthersKept(u)
         /\ crossed' = crossed \union ({wills[u].id} \ {rounds[r].will})
<1>1. wills[u] \in StoredWill /\ now \in Nat
  BY LiveWill DEF LooseTypeOK
<1>2. wills' = [wills EXCEPT ![u] = [wills[u] EXCEPT !.lifecycle = "grace_period",
                                      !.graceStarted = now, !.updatedAt = now]]
  BY SMTT(40) DEF Decisive
<1>3. /\ wills'[u] \in StoredWill /\ wills'[u].id = wills[u].id
      /\ OthersKept(u)
  BY <1>1, <1>2, WillFields DEF Changed, OthersKept, LooseTypeOK
<1>4. /\ wills'[u].lifecycle = "grace_period" /\ wills'[u].history = wills[u].history
      /\ wills'[u].deleted = wills[u].deleted
  BY <1>1, <1>2 DEF LooseTypeOK, StoredWill
<1>5. Remains(u)
  BY <1>1, <1>3, <1>4, StoredIsWill DEF Remains, Live
<1> QED BY <1>3, <1>4, <1>5 DEF Decisive

-----------------------------------------------------------------------------
\* What the contract needs of the store beside the rounds

\* An id no will has yet has no trustees.
FreshEmpty == \A w \in Wills \ issued : trustees[w] = <<>>

\* A round's threshold is the majority of the trustees its will has now.
ThresholdsHold ==
  \A r \in Requests : rounds[r].status = "pending" =>
    rounds[r].threshold = (Len(trustees[rounds[r].will]) \div 2) + 1

\* A live published will has a trustee.
PublishedHasTrustee ==
  \A u \in Users : Live(u) /\ Current(u).status = "published" => OwnTrustees(u) # <<>>

RuleInv == QuietInv /\ FreshEmpty /\ ThresholdsHold /\ PublishedHasTrustee

LEMMA FreshStep ==
  ASSUME QuietInv, FreshEmpty, [MemoryNext]_memoryVars
  PROVE  FreshEmpty'
<1> USE DEF QuietInv, OwnInv, PanelInv
<1>1. issued \subseteq issued'
  BY LooseStep
<1>2. ASSUME NEW u \in Users, PanelEdit(u)
      PROVE  \A w \in Wills \ issued : trustees'[w] = trustees[w]
  <2>1. PICK list : Editable(u) /\ SetTrustees(u, list)
    BY <1>2, PanelEditShape
  <2>2. wills[u].id \in issued
    BY <2>1 DEF Editable, Live, IssuedWills
  <2> QED BY <2>1, <2>2, SetTrusteesShape
<1> QED BY <1>1, <1>2, PanelsKept DEF FreshEmpty

LEMMA ThresholdsStep ==
  ASSUME QuietInv, ThresholdsHold, [MemoryNext]_memoryVars
  PROVE  ThresholdsHold'
<1> USE DEF QuietInv, OwnInv, PanelInv
<1> SUFFICES ASSUME NEW r \in Requests, rounds'[r].status = "pending"
             PROVE  rounds'[r].threshold = (Len(trustees'[rounds'[r].will]) \div 2) + 1
  BY DEF ThresholdsHold
<1>1. CASE rounds'[r] = rounds[r]
  BY <1>1, OpenRoundKeepsPanel DEF ThresholdsHold
<1>2. ASSUME TransitionOverdueWills, NEW u \in Users, Dormant(u), rounds'[r] = Opened(u)
      PROVE  rounds'[r].threshold = (Len(trustees'[rounds'[r].will]) \div 2) + 1
  <2>1. trustees' = trustees
    BY <1>2, SweepShape
  <2>2. /\ Opened(u).will = wills[u].id
        /\ Opened(u).threshold = (Len(OwnTrustees(u)) \div 2) + 1
    BY <1>2, OpenedRound
  <2> QED BY <1>2, <2>1, <2>2 DEF OwnTrustees
<1> QED BY <1>1, <1>2, PendingBefore

LEMMA PublishedStep ==
  ASSUME QuietInv, PublishedHasTrustee, [MemoryNext]_memoryVars
  PROVE  PublishedHasTrustee'
<1> USE DEF QuietInv, OwnInv, PanelInv
<1> SUFFICES ASSUME NEW v \in Users, Live(v)', NEW w, w = wills'[v].id,
                    NEW h, h = wills'[v].history, Last(h).status = "published"
             PROVE  trustees'[w] # <<>>
  BY DEF PublishedHasTrustee, Current, OwnTrustees
<1>1. ASSUME Live(v), wills[v].id = w, Last(wills[v].history).status = "published"
      PROVE  trustees[w] # <<>>
  BY <1>1 DEF PublishedHasTrustee, Current, OwnTrustees
<1>2. ASSUME wills'[v] = wills[v] \/ Remains(v)
      PROVE  Live(v) /\ wills[v].id = w /\ trustees[w] # <<>>
  <2>1. Live(v) /\ wills[v].id = w /\ wills[v].history = h
    BY <1>2 DEF Live, Remains
  <2> QED BY <1>1, <2>1
<1>3. ASSUME NEW u \in Users, NEW config \in Config, CreateWill(u, config)
      PROVE  trustees'[w] # <<>>
  <2>1. /\ Current(u)' = config /\ config.status # "published" /\ OthersKept(u)
        /\ UNCHANGED trustees
    BY <1>3, CreateEffect
  <2>2. v # u
    BY <2>1 DEF Current
  <2> QED BY <1>2, <2>1, <2>2 DEF OthersKept
<1>4. ASSUME NEW u \in Users, NEW config \in Config, UpdateWill(u, config)
      PROVE  trustees'[w] # <<>>
  <2>1. /\ wills'[u].id = wills[u].id /\ OthersKept(u) /\ UNCHANGED trustees
        /\ Current(u)' = config
        /\ config.status = "published" => OwnTrustees(u) # <<>>
    BY <1>4, UpdateEffect
  <2>2. CASE v = u
    BY <2>1, <2>2 DEF Current, OwnTrustees
  <2>3. CASE v # u
    BY <1>2, <2>1, <2>3 DEF OthersKept
  <2> QED BY <2>2, <2>3
<1>5. ASSUME NEW u \in Users, DeleteWill(u) \/ SubmitHeartbeat(u)
      PROVE  trustees'[w] # <<>>
  <2>1. UNCHANGED trustees /\ (wills'[v] = wills[v] \/ Remains(v))
    BY <1>5, DeleteEffect, HeartbeatEffect DEF OthersKept
  <2> QED BY <1>2, <2>1
<1>6. CASE TransitionOverdueWills
  <2>1. UNCHANGED trustees
    BY <1>6, SweepShape
  <2> QED BY <1>2, <1>6, <2>1, SweepEffect
<1>7. ASSUME NEW email \in Emails, NEW r \in Requests, NEW decision \in Decisions,
             RecordVerificationDecision(email, r, decision)
      PROVE  trustees'[w] # <<>>
  <2>1. UNCHANGED trustees
    BY <1>7 DEF RecordVerificationDecision
  <2>2. rounds[r].user \in Users /\ Live(rounds[r].user) /\ (Decisive(r) \/ UNCHANGED wills)
    BY <1>7, DecisionShape
  <2>3. wills'[v] = wills[v] \/ Remains(v)
    BY <2>2, DecisiveEffect DEF OthersKept
  <2> QED BY <1>2, <2>1, <2>3
<1>8. ASSUME NEW u \in Users, PanelEdit(u) PROVE trustees'[w] # <<>>
  <2>1. PICK list \in Seq(TrusteeRow) :
          /\ Editable(u) /\ SetTrustees(u, list)
          /\ Current(u).status = "published" /\ OwnTrustees(u) # <<>> => list # <<>>
    BY <1>8, PanelEditDistinct
  <2>2. wills' = wills
    BY <2>1 DEF SetTrustees
  <2>3. Live(v) /\ wills[v].id = w /\ trustees[w] # <<>> /\ wills[v].history = h
    BY <1>2, <2>2
  <2>4. w \in Wills
    BY <2>3, LiveWill
  <2>5. CASE v = u
    BY <2>1, <2>3, <2>5, SetTrusteesShape DEF Current, OwnTrustees
  <2>6. CASE v # u
    <3>1. w # wills[u].id
      BY <2>1, <2>3, <2>6 DEF OwnersDiffer, Live, Editable
    <3> QED BY <2>1, <2>3, <2>4, <3>1, SetTrusteesShape
  <2> QED BY <2>5, <2>6
<1> QED BY <1>2, <1>3, <1>4, <1>5, <1>6, <1>7, <1>8, Calls

LEMMA RuleStep ==
  ASSUME RuleInv, [MemoryNext]_memoryVars
  PROVE  RuleInv'
BY QuietStep, FreshStep, ThresholdsStep, PublishedStep DEF RuleInv

LEMMA RuleInit == MemoryInit => RuleInv
<1> SUFFICES ASSUME MemoryInit PROVE RuleInv
  OBVIOUS
<1>1. FreshEmpty /\ ThresholdsHold /\ PublishedHasTrustee
  BY DEF MemoryInit, FreshEmpty, ThresholdsHold, PublishedHasTrustee, Live, NoRound
<1> QED BY <1>1, QuietInit DEF RuleInv

-----------------------------------------------------------------------------
\* What the contract sees of a will

Kept(u, w) == InOrder(u) /\ wills[u].id = w

\* Nobody else keeps a will its owner keeps.
LEMMA OneKeeper ==
  ASSUME OwnersDiffer, NEW u \in Users, NEW w, Kept(u, w)
  PROVE  Keepers(w) = {u}
BY DEF Kept, Keepers, InOrder, Live, OwnersDiffer

LEMMA KeptView ==
  ASSUME OwnInv, NEW u \in Users, NEW w, Kept(u, w)
  PROVE  /\ w \in issued /\ w \in Wills
         /\ PhaseOf(w) = wills[u].lifecycle
         /\ PublishedNow(w) = (Current(u).status = "published")
         /\ Panel(w) = Ids(w)
         /\ Approving(w) = {tr \in Trustees : \E r \in OpenRounds(w) : latest[r][tr] = "approve"}
<1>1. Keepers(w) = {u}
  BY OneKeeper DEF OwnInv
<1>2. w \in issued /\ w \in Wills
  BY DEF Kept, InOrder, Live, OwnInv, PanelInv, IssuedWills, LooseTypeOK
<1>3. PhaseOf(w) = wills[u].lifecycle
  BY <1>1, <1>2 DEF PhaseOf
<1>4. PublishedNow(w) = (Current(u).status = "published")
  BY <1>1 DEF PublishedNow
<1>5. Panel(w) = Ids(w)
  BY <1>1 DEF Panel
<1>6. Approving(w) = {tr \in Trustees : \E r \in OpenRounds(w) : latest[r][tr] = "approve"}
  BY <1>1 DEF Approving
<1> QED BY <1>2, <1>3, <1>4, <1>5, <1>6

LEMMA UnkeptView ==
  ASSUME NEW w, \A u \in Users : ~Kept(u, w)
  PROVE  /\ PhaseOf(w) = IF w \in issued THEN "closed" ELSE "none"
         /\ PublishedNow(w) = FALSE /\ Panel(w) = {} /\ Approving(w) = {}
<1>1. Keepers(w) = {}
  BY DEF Kept, Keepers
<1> QED BY <1>1 DEF PhaseOf, PublishedNow, Panel, Approving

\* The same after a step.
LEMMA KeptViewNext ==
  ASSUME OwnInv', NEW u \in Users, NEW w, Kept(u, w)'
  PROVE  /\ w \in issued' /\ w \in Wills
         /\ PhaseOf(w)' = wills'[u].lifecycle
         /\ PublishedNow(w)' = (Current(u).status = "published")'
         /\ Panel(w)' = Ids(w)'
         /\ Approving(w)' = {tr \in Trustees : \E r \in OpenRounds(w)' : latest'[r][tr] = "approve"}
<1>1. Keepers(w)' = {u}
  BY DEF Kept, Keepers, InOrder, Live, OwnersDiffer, OwnInv
<1>2. w \in issued' /\ w \in Wills
  BY DEF Kept, InOrder, Live, OwnInv, PanelInv, IssuedWills, LooseTypeOK
<1>3. PhaseOf(w)' = wills'[u].lifecycle
  BY <1>1, <1>2 DEF PhaseOf
<1>4. PublishedNow(w)' = (Current(u).status = "published")'
  BY <1>1 DEF PublishedNow
<1>5. Panel(w)' = Ids(w)'
  BY <1>1 DEF Panel
<1>6. Approving(w)' = {tr \in Trustees : \E r \in OpenRounds(w)' : latest'[r][tr] = "approve"}
  BY <1>1 DEF Approving
<1> QED BY <1>2, <1>3, <1>4, <1>5, <1>6

LEMMA UnkeptViewNext ==
  ASSUME NEW w, \A u \in Users : ~Kept(u, w)'
  PROVE  /\ PhaseOf(w)' = IF w \in issued' THEN "closed" ELSE "none"
         /\ PublishedNow(w)' = FALSE /\ Panel(w)' = {} /\ Approving(w)' = {}
<1>1. Keepers(w)' = {}
  BY DEF Kept, Keepers
<1> QED BY <1>1 DEF PhaseOf, PublishedNow, Panel, Approving

\* What the contract sees of a will stays.
SameView(w) ==
  /\ PhaseOf(w)' = PhaseOf(w)
  /\ PublishedNow(w)' = PublishedNow(w)
  /\ Panel(w)' = Panel(w)
  /\ Approving(w)' = Approving(w)

\* A will that nobody keeps before and after.
LEMMA UnkeptStays ==
  ASSUME NEW w, \A u \in Users : ~Kept(u, w) /\ ~Kept(u, w)', w \in issued' <=> w \in issued
  PROVE  SameView(w)
BY UnkeptView, UnkeptViewNext DEF SameView

\* A will whose keeper, list and open rounds a step leaves alone.
LEMMA KeptStays ==
  ASSUME OwnInv, OwnInv', NEW u \in Users, NEW w, Kept(u, w), Kept(u, w)',
         wills'[u].lifecycle = wills[u].lifecycle, wills'[u].history = wills[u].history,
         trustees'[w] = trustees[w], OpenRounds(w)' = OpenRounds(w),
         \A r \in OpenRounds(w) : latest'[r] = latest[r]
  PROVE  SameView(w)
<1>1. Ids(w)' = Ids(w)
  BY DEF Ids
<1>2. (Current(u).status = "published")' = (Current(u).status = "published")
  BY DEF Current
<1>3. {tr \in Trustees : \E r \in OpenRounds(w)' : latest'[r][tr] = "approve"}
        = {tr \in Trustees : \E r \in OpenRounds(w) : latest[r][tr] = "approve"}
  OBVIOUS
<1> QED BY <1>1, <1>2, <1>3, KeptView, KeptViewNext DEF SameView

\* The approvals of a kept will follow its open rounds.
LEMMA ApprovingKept ==
  ASSUME OwnInv, OwnInv', NEW u \in Users, NEW w, Kept(u, w), Kept(u, w)',
         OpenRounds(w)' = OpenRounds(w), \A r \in OpenRounds(w) : latest'[r] = latest[r]
  PROVE  Approving(w)' = Approving(w)
<1>1. {tr \in Trustees : \E r \in OpenRounds(w)' : latest'[r][tr] = "approve"}
        = {tr \in Trustees : \E r \in OpenRounds(w) : latest[r][tr] = "approve"}
  OBVIOUS
<1> QED BY <1>1, KeptView, KeptViewNext

\* A kept will whose open rounds nobody approves has no approvals.
LEMMA NoApprovals ==
  ASSUME OwnInv', NEW u \in Users, NEW w, Kept(u, w)',
         \A r \in OpenRounds(w)', tr \in Trustees : latest'[r][tr] # "approve"
  PROVE  Approving(w)' = {}
BY KeptViewNext

LEMMA NoApprovalsNow ==
  ASSUME OwnInv, NEW u \in Users, NEW w, Kept(u, w),
         \A r \in OpenRounds(w), tr \in Trustees : latest[r][tr] # "approve"
  PROVE  Approving(w) = {}
BY KeptView

-----------------------------------------------------------------------------
\* Steps of the contract, in terms of the will they are about

ContractStep == [Contract!Next]_(Contract!contract)

LEMMA ViewsAt ==
  ASSUME NEW w \in Wills
  PROVE  /\ phaseOf[w] = PhaseOf(w) /\ phaseOf'[w] = PhaseOf(w)'
         /\ publishedOf[w] = PublishedNow(w) /\ publishedOf'[w] = PublishedNow(w)'
         /\ panelOf[w] = Panel(w) /\ panelOf'[w] = Panel(w)'
         /\ approvingOf[w] = Approving(w) /\ approvingOf'[w] = Approving(w)'
BY DEF phaseOf, publishedOf, panelOf, approvingOf

\* A step takes each will a step of its own, or leaves it.
LEMMA WillsMove ==
  ASSUME \A w \in Wills : Contract!Step(w) \/ SameView(w)
  PROVE  ContractStep
<1>1. Contract!Shapes
  <2>1. phaseOf' = [w \in Wills |-> phaseOf'[w]]
    BY DEF phaseOf
  <2>2. publishedOf' = [w \in Wills |-> publishedOf'[w]]
    BY DEF publishedOf
  <2>3. panelOf' = [w \in Wills |-> panelOf'[w]]
    BY DEF panelOf
  <2>4. approvingOf' = [w \in Wills |-> approvingOf'[w]]
    BY DEF approvingOf
  <2> QED BY <2>1, <2>2, <2>3, <2>4 DEF Contract!Shapes
<1>2. ASSUME NEW w \in Wills, SameView(w) PROVE Contract!Stays(w)
  BY <1>2, ViewsAt DEF SameView, Contract!Stays
<1> QED BY <1>1, <1>2 DEF ContractStep, Contract!Next

LEMMA OneWillMoves ==
  ASSUME NEW w \in Wills, Contract!Step(w), \A x \in Wills : x # w => SameView(x)
  PROVE  ContractStep
BY WillsMove

LEMMA Stutter ==
  ASSUME \A w \in Wills : SameView(w)
  PROVE  ContractStep
BY WillsMove

\* One lemma per step of the contract, in terms of the will it is about.
LEMMA IsOpen ==
  ASSUME NEW w \in Wills,
         PhaseOf(w) = "none", PhaseOf(w)' = "active",
         PublishedNow(w)' = PublishedNow(w), Panel(w)' = Panel(w),
         Approving(w)' = Approving(w)
  PROVE  Contract!Step(w)
BY ViewsAt DEF Contract!Step, Contract!Open, Contract!Move

LEMMA IsAuthor ==
  ASSUME NEW w \in Wills,
         PhaseOf(w) = "active", PhaseOf(w)' = "active",
         PublishedNow(w)' => Panel(w)' # {}, Panel(w)' \subseteq Trustees,
         Approving(w)' = Approving(w)
  PROVE  Contract!Step(w)
<1>1. PublishedNow(w)' \in BOOLEAN
  BY DEF PublishedNow
<1>2. Contract!Author(w)
  <2>1. publishedOf'[w] \in BOOLEAN
    BY <1>1, ViewsAt
  <2>2. publishedOf'[w] => panelOf'[w] # {}
    BY ViewsAt
  <2> QED BY <2>1, <2>2, ViewsAt DEF Contract!Author, Contract!Move
<1> QED BY <1>2 DEF Contract!Step

LEMMA IsBeginVerification ==
  ASSUME NEW w \in Wills,
         PhaseOf(w) = "active", PhaseOf(w)' = "pending_verification",
         PublishedNow(w), Panel(w) # {},
         PublishedNow(w)' = PublishedNow(w), Panel(w)' = Panel(w),
         Approving(w)' = Approving(w)
  PROVE  Contract!Step(w)
<1>1. Contract!BeginVerification(w)
  BY ViewsAt DEF Contract!BeginVerification, Contract!Move
<1> QED BY <1>1 DEF Contract!Step

LEMMA IsRespond ==
  ASSUME NEW w \in Wills,
         PhaseOf(w) = "pending_verification", PhaseOf(w)' = PhaseOf(w),
         PublishedNow(w)' = PublishedNow(w), Panel(w)' = Panel(w),
         NEW tr \in Panel(w),
         Approving(w)' \in {Approving(w) \union {tr}, Approving(w) \ {tr}},
         ~Contract!IsMajority(Approving(w)', Panel(w))
  PROVE  Contract!Step(w)
<1>1. /\ tr \in panelOf[w]
      /\ approvingOf'[w] \in {approvingOf[w] \union {tr}, approvingOf[w] \ {tr}}
      /\ ~Contract!IsMajority(approvingOf'[w], panelOf[w])
  BY ViewsAt
<1>2. Contract!Respond(w)
  BY <1>1, ViewsAt DEF Contract!Respond, Contract!Move
<1> QED BY <1>2 DEF Contract!Step

LEMMA IsBeginGrace ==
  ASSUME NEW w \in Wills,
         PhaseOf(w) = "pending_verification", PhaseOf(w)' = "grace_period",
         PublishedNow(w)' = PublishedNow(w), Panel(w)' = Panel(w),
         NEW tr \in Panel(w), Contract!IsMajority(Approving(w) \union {tr}, Panel(w)),
         Approving(w)' = {}
  PROVE  Contract!Step(w)
<1>1. tr \in panelOf[w] /\ Contract!IsMajority(approvingOf[w] \union {tr}, panelOf[w])
  BY ViewsAt
<1>2. Contract!BeginGrace(w)
  BY <1>1, ViewsAt DEF Contract!BeginGrace, Contract!Move
<1> QED BY <1>2 DEF Contract!Step

LEMMA IsBecomeReady ==
  ASSUME NEW w \in Wills,
         PhaseOf(w) = "grace_period", PhaseOf(w)' = "ready_for_execution",
         PublishedNow(w)' = PublishedNow(w), Panel(w)' = Panel(w),
         Approving(w)' = Approving(w)
  PROVE  Contract!Step(w)
BY ViewsAt DEF Contract!Step, Contract!BecomeReady, Contract!Move

LEMMA IsRestore ==
  ASSUME NEW w \in Wills,
         PhaseOf(w) \in {"pending_verification", "grace_period", "ready_for_execution"},
         PhaseOf(w)' = "active", PublishedNow(w)' = PublishedNow(w),
         Panel(w)' = Panel(w), Approving(w)' = {}
  PROVE  Contract!Step(w)
BY ViewsAt DEF Contract!Step, Contract!Restore, Contract!Move

LEMMA IsClose ==
  ASSUME NEW w \in Wills,
         PhaseOf(w) \in Contract!Phases \ {"none", "closed"}, PhaseOf(w)' = "closed",
         PublishedNow(w)' = FALSE, Panel(w)' = {}, Approving(w)' = {}
  PROVE  Contract!Step(w)
BY ViewsAt DEF Contract!Step, Contract!Close, Contract!Move

-----------------------------------------------------------------------------
\* The calls are steps of the contract, or none.

\* A list has ids of trustees, and some when it is not empty.
LEMMA IdsOfList ==
  ASSUME NEW w, trustees[w] \in Seq(TrusteeRow)
  PROVE  Ids(w) \subseteq Trustees /\ (trustees[w] # <<>> => Ids(w) # {})
<1>1. ASSUME NEW i \in DOMAIN trustees[w] PROVE trustees[w][i].id \in Trustees
  <2>1. trustees[w][i] \in TrusteeRow
    OBVIOUS
  <2> QED BY <2>1 DEF TrusteeRow
<1>2. trustees[w] # <<>> => 1 \in DOMAIN trustees[w]
  OBVIOUS
<1> QED BY <1>1, <1>2 DEF Ids

LEMMA IdsOfListNext ==
  ASSUME NEW w, trustees'[w] \in Seq(TrusteeRow)
  PROVE  Ids(w)' \subseteq Trustees /\ (trustees'[w] # <<>> => Ids(w)' # {})
<1>1. ASSUME NEW i \in DOMAIN trustees'[w] PROVE trustees'[w][i].id \in Trustees
  <2>1. trustees'[w][i] \in TrusteeRow
    OBVIOUS
  <2> QED BY <2>1 DEF TrusteeRow
<1>2. trustees'[w] # <<>> => 1 \in DOMAIN trustees'[w]
  OBVIOUS
<1> QED BY <1>1, <1>2 DEF Ids

\* A will that u keeps neither before nor after looks the same.
LEMMA OthersView ==
  ASSUME OwnInv, OwnInv', NEW u \in Users, OthersKept(u), NEW w,
         ~Kept(u, w), ~Kept(u, w)',
         w \in crossed' <=> w \in crossed, w \in issued' <=> w \in issued,
         (\E v \in Users : Kept(v, w)) =>
           /\ trustees'[w] = trustees[w] /\ OpenRounds(w)' = OpenRounds(w)
           /\ \A r \in OpenRounds(w) : latest'[r] = latest[r]
  PROVE  SameView(w)
<1>1. \A v \in Users : v # u => wills'[v] = wills[v] /\ (Kept(v, w)' <=> Kept(v, w))
  BY DEF OthersKept, Kept, InOrder, Live
<1>2. ASSUME NEW v \in Users, Kept(v, w) PROVE SameView(w)
  BY <1>1, <1>2, KeptStays
<1>3. CASE \A v \in Users : ~Kept(v, w)
  BY <1>1, <1>3, UnkeptStays
<1> QED BY <1>2, <1>3

LEMMA CreateIsOpen ==
  ASSUME RuleInv, OwnInv', NEW u \in Users, NEW config \in Config, CreateWill(u, config)
  PROVE  ContractStep
<1> USE DEF RuleInv, QuietInv, OwnInv, PanelInv
<1>1. PICK w \in Wills \ issued :
           /\ Live(u)' /\ wills'[u].id = w /\ wills'[u].lifecycle = "active"
           /\ Current(u)' = config /\ config.status # "published" /\ ~Live(u)
           /\ OthersKept(u) /\ issued' = issued \union {w}
           /\ UNCHANGED <<trustees, rounds, latest, crossed>>
  BY CreateEffect
<1>2. \A x : OpenRounds(x)' = OpenRounds(x)
  BY <1>1 DEF OpenRounds
<1>3. ASSUME NEW x \in Wills, x # w PROVE SameView(x)
  <2>1. ~Kept(u, x) /\ ~Kept(u, x)'
    BY <1>1, <1>3 DEF Kept, InOrder
  <2> QED BY <1>1, <1>2, <1>3, <2>1, OthersView
<1>4. \A v \in Users : ~Kept(v, w)
  BY DEF Kept, InOrder, Live, IssuedWills
<1>5. Kept(u, w)'
  BY <1>1 DEF Kept, InOrder, LooseTypeOK
<1>6. OpenRounds(w)' = {}
  BY <1>2 DEF OpenRounds, RoundsOwned, NoRound
<1>7. Ids(w)' = {}
  BY <1>1 DEF FreshEmpty, Ids
<1>8. /\ PhaseOf(w) = "none" /\ PublishedNow(w) = FALSE /\ Panel(w) = {} /\ Approving(w) = {}
  BY <1>4, UnkeptView
<1>9. /\ PhaseOf(w)' = "active" /\ Panel(w)' = {} /\ Approving(w)' = {}
  BY <1>1, <1>5, <1>6, <1>7, KeptViewNext
<1>10. PublishedNow(w)' = FALSE
  <2>1. PublishedNow(w)' = (Current(u)'.status = "published")
    BY <1>5, KeptViewNext
  <2> QED BY <1>1, <2>1
<1> QED BY <1>3, <1>8, <1>9, <1>10, IsOpen, OneWillMoves

LEMMA UpdateIsAuthor ==
  ASSUME RuleInv, OwnInv', NEW u \in Users, NEW config \in Config, UpdateWill(u, config)
  PROVE  ContractStep
<1> USE DEF RuleInv, QuietInv, OwnInv, PanelInv
<1>1. PICK w : w = wills[u].id
  OBVIOUS
<1>2. /\ Live(u) /\ Live(u)' /\ wills'[u].id = w
      /\ wills[u].lifecycle = "active" /\ wills'[u].lifecycle = "active"
      /\ Current(u)' = config
      /\ config.status = "published" => OwnTrustees(u) # <<>>
      /\ OthersKept(u)
      /\ UNCHANGED <<trustees, rounds, latest, issued, crossed>>
  BY <1>1, UpdateEffect
<1>3. \A x : OpenRounds(x)' = OpenRounds(x) /\ Ids(x)' = Ids(x)
  BY <1>2 DEF OpenRounds, Ids
<1>4. ASSUME NEW x \in Wills, ~Kept(u, x) PROVE SameView(x)
  <2>1. ~Kept(u, x)'
    BY <1>1, <1>2, <1>4 DEF Kept, InOrder
  <2> QED BY <1>2, <1>3, <1>4, <2>1, OthersView
<1>5. CASE Kept(u, w)
  <2>1. Kept(u, w)' /\ w \in Wills
    BY <1>1, <1>2, <1>5, KeptView DEF Kept, InOrder
  <2>2. PhaseOf(w) = "active" /\ PhaseOf(w)' = "active" /\ Panel(w)' = Ids(w)
    BY <1>2, <1>3, <1>5, <2>1, KeptView, KeptViewNext
  <2>7. Approving(w)' = Approving(w)
    BY <1>2, <1>3, <1>5, <2>1, ApprovingKept
  <2>3. PublishedNow(w)' => OwnTrustees(u) # <<>>
    <3>1. PublishedNow(w)' = (Current(u)'.status = "published")
      BY <2>1, KeptViewNext
    <3> QED BY <1>2, <3>1
  <2>4. trustees[w] \in Seq(TrusteeRow) /\ OwnTrustees(u) = trustees[w]
    BY <1>1, <2>1 DEF LooseTypeOK, OwnTrustees
  <2>5. Ids(w) \subseteq Trustees /\ (trustees[w] # <<>> => Ids(w) # {})
    BY <2>4, IdsOfList
  <2>6. \A x \in Wills : x # w => SameView(x)
    BY <1>1, <1>4 DEF Kept
  <2> QED BY <2>1, <2>2, <2>3, <2>4, <2>5, <2>6, <2>7, IsAuthor, OneWillMoves
<1>6. CASE ~Kept(u, w)
  <2>1. \A x \in Wills : SameView(x)
    BY <1>1, <1>4, <1>6 DEF Kept
  <2> QED BY <2>1, Stutter
<1> QED BY <1>5, <1>6

LEMMA DeleteIsClose ==
  ASSUME RuleInv, OwnInv', NEW u \in Users, DeleteWill(u)
  PROVE  ContractStep
<1> USE DEF RuleInv, QuietInv, OwnInv, PanelInv
<1>1. PICK w : w = wills[u].id
  OBVIOUS
<1>2. /\ Live(u) /\ ~Live(u)' /\ OthersKept(u)
      /\ UNCHANGED <<trustees, rounds, latest, issued, crossed>>
  BY DeleteEffect
<1>3. \A x : OpenRounds(x)' = OpenRounds(x)
  BY <1>2 DEF OpenRounds
<1>4. ASSUME NEW x \in Wills, ~Kept(u, x) PROVE SameView(x)
  <2>1. ~Kept(u, x)'
    BY <1>2 DEF Kept, InOrder
  <2> QED BY <1>2, <1>3, <1>4, <2>1, OthersView
<1>5. CASE Kept(u, w)
  <2>1. w \in Wills /\ w \in issued' /\ PhaseOf(w) = wills[u].lifecycle
    BY <1>2, <1>5, KeptView
  <2>2. PhaseOf(w) \in Contract!Phases \ {"none", "closed"}
    BY <1>2, <2>1, LiveWill DEF StoredWill, Contract!Phases
  <2>3. \A v \in Users : ~Kept(v, w)'
    BY <1>1, <1>2, <1>5 DEF Kept, InOrder, Live, OthersKept, OwnersDiffer
  <2>4. PhaseOf(w)' = "closed" /\ PublishedNow(w)' = FALSE /\ Panel(w)' = {}
        /\ Approving(w)' = {}
    BY <2>1, <2>3, UnkeptViewNext
  <2>5. \A x \in Wills : x # w => SameView(x)
    BY <1>1, <1>4 DEF Kept
  <2> QED BY <2>1, <2>2, <2>4, <2>5, IsClose, OneWillMoves
<1>6. CASE ~Kept(u, w)
  <2>1. \A x \in Wills : SameView(x)
    BY <1>1, <1>4, <1>6 DEF Kept
  <2> QED BY <2>1, Stutter
<1> QED BY <1>5, <1>6

\* A heartbeat restores a will that waits, and changes nothing of an active one.
LEMMA HeartbeatIsRestore ==
  ASSUME RuleInv, OwnInv', NEW u \in Users, SubmitHeartbeat(u)
  PROVE  ContractStep
<1> USE DEF RuleInv, QuietInv, OwnInv, PanelInv
<1>1. PICK w : w = wills[u].id
  OBVIOUS
<1>2. /\ Live(u) /\ Live(u)' /\ wills'[u].id = w /\ wills'[u].history = wills[u].history
      /\ wills'[u].lifecycle = "active" /\ OthersKept(u)
      /\ IF wills[u].lifecycle = "active" THEN UNCHANGED rounds ELSE rounds' = CancelRounds(w)
      /\ UNCHANGED <<trustees, latest, issued, crossed>>
  BY <1>1, HeartbeatEffect DEF Remains
<1>3. /\ \A x : x # w => OpenRounds(x)' = OpenRounds(x)
      /\ IF wills[u].lifecycle = "active" THEN OpenRounds(w)' = OpenRounds(w)
                                          ELSE OpenRounds(w)' = {}
  <2>1. CASE wills[u].lifecycle = "active"
    BY <1>2, <2>1 DEF OpenRounds
  <2>2. CASE wills[u].lifecycle # "active"
    BY <1>2, <2>2, CancelCloses
  <2> QED BY <2>1, <2>2
<1>4. ASSUME NEW x \in Wills, ~Kept(u, x) PROVE SameView(x)
  <2>1. ~Kept(u, x)'
    BY <1>1, <1>2, <1>4 DEF Kept, InOrder
  <2>2. (\E v \in Users : Kept(v, x)) => x # w
    BY <1>1, <1>2, <1>4 DEF Kept, InOrder, Live, OwnersDiffer
  <2> QED BY <1>2, <1>3, <1>4, <2>1, <2>2, OthersView
<1>5. CASE ~Kept(u, w)
  <2>1. \A x \in Wills : SameView(x)
    BY <1>1, <1>4, <1>5 DEF Kept
  <2> QED BY <2>1, Stutter
<1>6. CASE Kept(u, w) /\ wills[u].lifecycle = "active"
  <2>1. Kept(u, w)'
    BY <1>1, <1>2, <1>6 DEF Kept, InOrder
  <2>2. SameView(w)
    BY <1>2, <1>3, <1>6, <2>1, KeptStays
  <2>3. \A x \in Wills : SameView(x)
    BY <1>1, <1>4, <2>2 DEF Kept
  <2> QED BY <2>3, Stutter
<1>7. CASE Kept(u, w) /\ wills[u].lifecycle # "active"
  <2>1. Kept(u, w)' /\ w \in Wills
    BY <1>1, <1>2, <1>7, KeptView DEF Kept, InOrder
  <2>2. PhaseOf(w) = wills[u].lifecycle /\ PhaseOf(w)' = "active"
    BY <1>2, <1>7, <2>1, KeptView, KeptViewNext
  <2>3. wills[u].lifecycle \in {"pending_verification", "grace_period", "ready_for_execution"}
    BY <1>2, <1>7, LiveWill DEF StoredWill
  <2>4. Panel(w)' = Panel(w)
    <3>1. Ids(w)' = Ids(w)
      BY <1>2 DEF Ids
    <3> QED BY <1>7, <2>1, <3>1, KeptView, KeptViewNext
  <2>5. PublishedNow(w)' = PublishedNow(w)
    BY <1>2, <1>7, <2>1, KeptView, KeptViewNext DEF Current
  <2>6. Approving(w)' = {}
    BY <1>3, <1>7, <2>1, NoApprovals
  <2>7. \A x \in Wills : x # w => SameView(x)
    BY <1>1, <1>4 DEF Kept
  <2> QED BY <2>1, <2>2, <2>3, <2>4, <2>5, <2>6, <2>7, IsRestore, OneWillMoves
<1> QED BY <1>5, <1>6, <1>7

\* An edit of the trustees authors the will.
LEMMA PanelEditIsAuthor ==
  ASSUME RuleInv, OwnInv', NEW u \in Users, PanelEdit(u)
  PROVE  ContractStep
<1> USE DEF RuleInv, QuietInv, OwnInv, PanelInv
<1>1. PICK w : w = wills[u].id
  OBVIOUS
<1>2. PICK list \in Seq(TrusteeRow) :
         /\ Editable(u) /\ SetTrustees(u, list)
         /\ Current(u).status = "published" /\ OwnTrustees(u) # <<>> => list # <<>>
  BY PanelEditDistinct
<1>3. /\ Live(u) /\ wills[u].lifecycle = "active" /\ w \in Wills
      /\ UNCHANGED <<wills, rounds, latest, issued, crossed>>
      /\ trustees'[w] = list
      /\ \A x \in Wills : x # w => trustees'[x] = trustees[x]
  BY <1>1, <1>2, SetTrusteesShape, LiveWill DEF Editable
<1>4. \A x : OpenRounds(x)' = OpenRounds(x)
  BY <1>3 DEF OpenRounds
<1>5. OthersKept(u) /\ \A x : Kept(u, x)' = Kept(u, x)
  BY <1>3 DEF OthersKept, Kept, InOrder, Live
<1>6. ASSUME NEW x \in Wills, ~Kept(u, x) PROVE SameView(x)
  <2>1. ~Kept(u, x)'
    BY <1>5, <1>6
  <2>2. (\E v \in Users : Kept(v, x)) => x # w
    BY <1>1, <1>3, <1>6 DEF Kept, InOrder, Live, OwnersDiffer
  <2> QED BY <1>3, <1>4, <1>5, <1>6, <2>1, <2>2, OthersView
<1>7. CASE ~Kept(u, w)
  <2>1. \A x \in Wills : SameView(x)
    BY <1>1, <1>6, <1>7 DEF Kept
  <2> QED BY <2>1, Stutter
<1>8. CASE Kept(u, w)
  <2>1. Kept(u, w)'
    BY <1>5, <1>8
  <2>2. PhaseOf(w) = "active" /\ PhaseOf(w)' = "active" /\ Panel(w)' = Ids(w)'
    BY <1>3, <1>8, <2>1, KeptView, KeptViewNext
  <2>3. Approving(w)' = Approving(w)
    BY <1>3, <1>4, <1>8, <2>1, ApprovingKept
  <2>4. PublishedNow(w)' => list # <<>>
    <3>1. PublishedNow(w)' = (Current(u)'.status = "published") /\ Current(u)' = Current(u)
      BY <1>3, <2>1, KeptViewNext DEF Current
    <3>2. Current(u).status = "published" => OwnTrustees(u) # <<>>
      BY <1>3 DEF PublishedHasTrustee
    <3> QED BY <1>2, <3>1, <3>2
  <2>5. trustees'[w] \in Seq(TrusteeRow)
    BY <1>3
  <2>6. Ids(w)' \subseteq Trustees /\ (list # <<>> => Ids(w)' # {})
    BY <1>3, <2>5, IdsOfListNext
  <2>7. \A x \in Wills : x # w => SameView(x)
    BY <1>1, <1>6 DEF Kept
  <2> QED BY <1>3, <2>2, <2>3, <2>4, <2>6, <2>7, IsAuthor, OneWillMoves
<1> QED BY <1>7, <1>8

-----------------------------------------------------------------------------
\* The sweep moves the wills of all users in one step, each by a step of its own.

Due(u) == Dormant(u) \/ GraceOver(u)

\* The round the sweep opens has no answers yet.
LEMMA SweepAnswers ==
  ASSUME RuleInv, TransitionOverdueWills, NEW u \in Users, Kept(u, wills[u].id), Due(u),
         NEW w, w = wills[u].id
  PROVE  \A r \in OpenRounds(w)', tr \in Trustees : latest'[r][tr] # "approve"
<1> USE DEF RuleInv, QuietInv, OwnInv, PanelInv
<1>1. OpenRounds(w) = {}
  <2>1. InOrder(u) /\ wills[u].lifecycle # "pending_verification"
    BY DEF Kept, Due, Dormant, GraceOver
  <2> QED BY <2>1 DEF Settled, OneRoundFor
<1>2. \A r \in Requests : rounds'[r] # rounds[r] => rounds[r] = NoRound
  BY SweepShape
<1>3. latest' = latest
  BY SweepShape
<1>4. \A r \in OpenRounds(w)' : r \in Requests /\ rounds[r] = NoRound
  BY <1>1, <1>2 DEF OpenRounds
<1> QED BY <1>3, <1>4 DEF UnusedUnanswered, Unused

\* A user the sweep finds nothing due for keeps the will they had.
LEMMA SweepLeaves ==
  ASSUME RuleInv, OwnInv', TransitionOverdueWills, NEW u \in Users, NEW w, Kept(u, w), ~Due(u)
  PROVE  SameView(w)
<1> USE DEF RuleInv, QuietInv, OwnInv, PanelInv
<1>1. UNCHANGED <<now, trustees, latest, issued, crossed>>
  BY SweepShape
<1>2. wills'[u] = wills[u]
  BY SweepEffect DEF Due
<1>3. Kept(u, w)' /\ wills[u] # NoWill /\ w = wills[u].id
  BY <1>1, <1>2 DEF Kept, InOrder, Live
<1>4. OpenRounds(w)' = OpenRounds(w)
  BY <1>3, SweepOpensOne DEF Due
<1> QED BY <1>1, <1>2, <1>3, <1>4, KeptStays

\* A will that waits for the sweep takes the step it is due for.
LEMMA SweepMoves ==
  ASSUME RuleInv, OwnInv', TransitionOverdueWills, NEW u \in Users, NEW w, Kept(u, w), Due(u)
  PROVE  Contract!Step(w)
<1> USE DEF RuleInv, QuietInv, OwnInv, PanelInv
<1>1. UNCHANGED <<now, trustees, latest, issued, crossed>>
  BY SweepShape
<1>2. w = wills[u].id
  BY DEF Kept
<1>3. /\ Live(u) /\ Live(u)' /\ wills'[u].id = w /\ wills'[u].history = wills[u].history
      /\ Dormant(u) => wills'[u].lifecycle = "pending_verification"
      /\ ~Dormant(u) => wills'[u].lifecycle = "ready_for_execution"
  BY <1>2, SweepEffect DEF Due, Remains
<1>4. Kept(u, w)' /\ w \in Wills
  BY <1>1, <1>2, <1>3, KeptView DEF Kept, InOrder
<1>5. PhaseOf(w) = wills[u].lifecycle /\ PhaseOf(w)' = wills'[u].lifecycle
  BY <1>4, KeptView, KeptViewNext
<1>6. PublishedNow(w) /\ PublishedNow(w)' = PublishedNow(w)
  <2>1. Current(u).status = "published" /\ Current(u)' = Current(u)
    BY <1>3 DEF Due, Dormant, GraceOver, Watched, Current
  <2> QED BY <1>4, <2>1, KeptView, KeptViewNext
<1>7. Panel(w) = Ids(w) /\ Panel(w)' = Panel(w)
  <2>1. Ids(w)' = Ids(w)
    BY <1>1 DEF Ids
  <2> QED BY <1>4, <2>1, KeptView, KeptViewNext
<1>8. Approving(w) = {}
  <2>1. OpenRounds(w) = {}
    <3>1. InOrder(u) /\ wills[u].lifecycle # "pending_verification"
      BY DEF Kept, Due, Dormant, GraceOver
    <3> QED BY <1>2, <3>1 DEF Settled, OneRoundFor
  <2> QED BY <2>1, NoApprovalsNow
<1>9. Approving(w)' = {}
  BY <1>2, <1>4, SweepAnswers, NoApprovals
<1>10. CASE Dormant(u)
  <2>1. wills[u].lifecycle = "active" /\ OwnTrustees(u) # <<>>
    BY <1>10 DEF Dormant
  <2>2. trustees[w] \in Seq(TrusteeRow) /\ OwnTrustees(u) = trustees[w]
    BY <1>2, <1>4 DEF LooseTypeOK, OwnTrustees
  <2>3. Ids(w) # {}
    BY <2>1, <2>2, IdsOfList
  <2> QED BY <1>3, <1>4, <1>5, <1>6, <1>7, <1>8, <1>9, <1>10, <2>1, <2>3, IsBeginVerification
<1>11. CASE ~Dormant(u)
  <2>1. wills[u].lifecycle = "grace_period"
    BY <1>11 DEF Due, GraceOver
  <2> QED BY <1>3, <1>4, <1>5, <1>6, <1>7, <1>8, <1>9, <1>11, <2>1, IsBecomeReady
<1> QED BY <1>10, <1>11

LEMMA SweepIsTransition ==
  ASSUME RuleInv, OwnInv', TransitionOverdueWills
  PROVE  ContractStep
<1> USE DEF RuleInv, QuietInv, OwnInv, PanelInv
<1>1. UNCHANGED <<now, trustees, latest, issued, crossed>>
  BY SweepShape
<1>2. ASSUME NEW u \in Users, NEW w \in Wills, Kept(u, w)' PROVE Kept(u, w)
  <2>1. wills'[u] = wills[u] \/ Remains(u)
    BY SweepEffect
  <2> QED BY <1>1, <1>2, <2>1 DEF Kept, InOrder, Live, Remains
<1>3. ASSUME NEW w \in Wills PROVE Contract!Step(w) \/ SameView(w)
  <2>1. CASE \A u \in Users : ~Kept(u, w)
    BY <1>1, <1>2, <2>1, UnkeptStays
  <2>2. ASSUME NEW u \in Users, Kept(u, w) PROVE Contract!Step(w) \/ SameView(w)
    BY <2>2, SweepLeaves, SweepMoves
  <2> QED BY <2>1, <2>2
<1> QED BY <1>3, WillsMove

-----------------------------------------------------------------------------
\* Decisions

\* A list has as many ids as places.
LEMMA IdsCount ==
  ASSUME NEW w, trustees[w] \in Seq(TrusteeRow), Distinct(trustees[w])
  PROVE  IsFiniteSet(Ids(w)) /\ Cardinality(Ids(w)) = Len(trustees[w])
<1>. DEFINE n == Len(trustees[w])
            f == [i \in 1 .. n |-> trustees[w][i].id]
<1>1. n \in Nat /\ DOMAIN trustees[w] = 1 .. n
  OBVIOUS
<1>2. f \in [1 .. n -> Ids(w)]
  BY <1>1 DEF Ids
<1>3. \A i, j \in 1 .. n : f[i] = f[j] => i = j
  BY <1>1 DEF Distinct
<1>4. \A x \in Ids(w) : \E i \in 1 .. n : f[i] = x
  BY <1>1 DEF Ids
<1>. HIDE DEF f, n
<1>5. f \in Bijection(1 .. n, Ids(w))
  BY <1>2, <1>3, <1>4 DEF Bijection, Injection, Surjection, IsInjective
<1>6. ExistsBijection(1 .. n, Ids(w))
  BY <1>5 DEF ExistsBijection
<1>7. IsFiniteSet(1 .. n) /\ Cardinality(1 .. n) = n
  BY <1>1, FS_Interval
<1>8. IsFiniteSet(Ids(w)) /\ Cardinality(Ids(w)) = Cardinality(1 .. n)
  BY <1>6, <1>7, FS_Bijection
<1> QED BY <1>7, <1>8 DEF n

Approvers(responses, r) == {tr \in Trustees : responses[r][tr] = "approve"}

\* The contract counts as the store does.
LEMMA SameCardinality ==
  ASSUME NEW S
  PROVE  Contract!Cardinality(S) = Cardinality(S)
BY Zenon DEF Contract!Cardinality, Cardinality

LEMMA ThresholdIsMajority ==
  ASSUME NEW part, IsFiniteSet(part), NEW whole, IsFiniteSet(whole)
  PROVE  Cardinality(part) >= (Cardinality(whole) \div 2) + 1
           <=> Contract!IsMajority(part, whole)
<1>1. Cardinality(part) \in Nat /\ Cardinality(whole) \in Nat
  BY FS_CardinalityType
<1>2. \A m, n \in Nat : m >= (n \div 2) + 1 <=> 2 * m > n
  OBVIOUS
<1> QED BY <1>1, <1>2, SameCardinality DEF Contract!IsMajority

\* A larger part is a majority too.
LEMMA MajorityGrows ==
  ASSUME NEW part, NEW more, part \subseteq more, IsFiniteSet(more),
         NEW whole, IsFiniteSet(whole), Contract!IsMajority(part, whole)
  PROVE  Contract!IsMajority(more, whole)
<1>1. /\ Cardinality(part) <= Cardinality(more)
      /\ Cardinality(part) \in Nat /\ Cardinality(more) \in Nat /\ Cardinality(whole) \in Nat
  BY FS_Subset, FS_CardinalityType
<1> QED BY <1>1, SameCardinality DEF Contract!IsMajority

\* A decision changes the approvals by its own trustee at most.
LEMMA ApproversAfter ==
  ASSUME LooseTypeOK, NEW r \in Requests, NEW tr \in Trustees, NEW decision,
         latest' = [latest EXCEPT ![r] = [latest[r] EXCEPT ![tr] = decision]]
  PROVE  /\ Approvers(latest', r)
              \in {Approvers(latest, r) \union {tr}, Approvers(latest, r) \ {tr}}
         /\ \A q \in Requests : q # r => latest'[q] = latest[q]
<1>1. /\ \A q \in Requests : q # r => latest'[q] = latest[q]
      /\ \A x \in Trustees : latest'[r][x] = IF x = tr THEN decision ELSE latest[r][x]
  BY DEF LooseTypeOK
<1>2. CASE decision = "approve"
  <2>1. Approvers(latest', r) = Approvers(latest, r) \union {tr}
    BY <1>1, <1>2 DEF Approvers
  <2> QED BY <1>1, <2>1
<1>3. CASE decision # "approve"
  <2>1. Approvers(latest', r) = Approvers(latest, r) \ {tr}
    BY <1>1, <1>3 DEF Approvers
  <2> QED BY <1>1, <2>1
<1> QED BY <1>2, <1>3

\* A decision about the will its owner keeps is a response, or begins the grace
\* period.
LEMMA KeptDecision ==
  ASSUME RuleInv, OwnInv', NEW email \in Emails, NEW r \in Requests,
         NEW decision \in Decisions, RecordVerificationDecision(email, r, decision),
         NEW w, w = rounds[r].will, NEW u \in Users, u = rounds[r].user, Kept(u, w)
  PROVE  ContractStep
<1> USE DEF RuleInv, QuietInv, OwnInv, PanelInv
<1>1. PICK tr \in Ids(w) :
        /\ tr \in Trustees
        /\ latest' = [latest EXCEPT ![r] = [latest[r] EXCEPT ![tr] = decision]]
  BY DecisionShape
<1>2. /\ rounds[r].status = "pending" /\ w \in Wills /\ Live(u)
      /\ UNCHANGED <<now, trustees, issued>>
      /\ \/ Decisive(r)
         \/ UNCHANGED <<wills, rounds, crossed>>
            /\ ~(Approvals(latest', r) >= rounds[r].threshold)
  BY DecisionShape
<1>3. /\ Approvers(latest', r)
           \in {Approvers(latest, r) \union {tr}, Approvers(latest, r) \ {tr}}
      /\ \A q \in Requests : q # r => latest'[q] = latest[q]
  BY <1>1, ApproversAfter
<1>4. InOrder(u) /\ wills[u].id = w /\ w \notin crossed
  BY DEF Kept, InOrder
<1>5. OpenRounds(w) = {r} /\ wills[u].lifecycle = "pending_verification"
  <2>1. r \in OpenRounds(w) /\ OneRoundFor(u)
    BY <1>2, <1>4 DEF OpenRounds, Settled
  <2> QED BY <1>4, <2>1 DEF OneRoundFor
<1>6. /\ PhaseOf(w) = "pending_verification" /\ Panel(w) = Ids(w)
      /\ Approving(w) = Approvers(latest, r)
  BY <1>5, KeptView DEF Approvers
<1>7. trustees[w] \in Seq(TrusteeRow) /\ Distinct(trustees[w])
  BY <1>2 DEF LooseTypeOK, IdsDiffer
<1>8. IsFiniteSet(Ids(w)) /\ Cardinality(Ids(w)) = Len(trustees[w])
  BY <1>7, IdsCount
<1>9. \A part : IsFiniteSet(part) =>
        (Cardinality(part) >= rounds[r].threshold <=> Contract!IsMajority(part, Panel(w)))
  <2>1. rounds[r].threshold = (Cardinality(Ids(w)) \div 2) + 1
    BY <1>2, <1>8 DEF ThresholdsHold
  <2> QED BY <1>6, <1>8, <2>1, ThresholdIsMajority
<1>10. /\ IsFiniteSet(Approvers(latest', r)) /\ IsFiniteSet(Approvers(latest, r))
       /\ Approvals(latest', r) = Cardinality(Approvers(latest', r))
  <2>1. Approvers(latest', r) \subseteq Trustees /\ Approvers(latest, r) \subseteq Trustees
    BY DEF Approvers
  <2> QED BY <2>1, FS_Subset, MemoryAssumption DEF Approvals, Approvers
<1>11. ASSUME NEW v \in Users, NEW x \in Wills, Kept(v, x), v # u PROVE r \notin OpenRounds(x)
  BY <1>4, <1>11 DEF Kept, InOrder, Live, OwnersDiffer, OpenRounds
<1>12. CASE Decisive(r)
  <2>1. \A x : OpenRounds(x)' = OpenRounds(x) \ {r}
    BY <1>2, <1>12, DecisionCloses
  <2>2. /\ Live(u)' /\ wills'[u].id = w /\ wills'[u].history = wills[u].history
        /\ wills'[u].lifecycle = "grace_period" /\ OthersKept(u) /\ crossed' = crossed
    <3>1. /\ Remains(u) /\ wills'[u].lifecycle = "grace_period" /\ OthersKept(u)
          /\ crossed' = crossed \union ({wills[u].id} \ {rounds[r].will})
      BY <1>2, <1>4, <1>12, DecisiveEffect
    <3>2. {wills[u].id} \ {rounds[r].will} = {}
      BY <1>2, <1>4
    <3> QED BY <1>4, <3>1, <3>2 DEF Remains
  <2>3. Kept(u, w)'
    BY <1>4, <2>2 DEF Kept, InOrder
  <2>4. PhaseOf(w)' = "grace_period"
    BY <2>2, <2>3, KeptViewNext
  <2>5. PublishedNow(w)' = PublishedNow(w)
    <3>1. Current(u)' = Current(u)
      BY <2>2 DEF Current
    <3> QED BY <2>3, <3>1, KeptView, KeptViewNext
  <2>6. Panel(w)' = Panel(w)
    <3>1. Ids(w)' = Ids(w)
      BY <1>2 DEF Ids
    <3> QED BY <2>3, <3>1, KeptView, KeptViewNext
  <2>7. Approving(w)' = {}
    <3>1. OpenRounds(w)' = {}
      BY <1>5, <2>1
    <3> QED BY <2>3, <3>1, NoApprovals
  <2>8. Contract!IsMajority(Approving(w) \union {tr}, Panel(w))
    <3>1. Contract!IsMajority(Approvers(latest', r), Panel(w))
      BY <1>9, <1>10, <1>12 DEF Decisive
    <3>2. Approvers(latest', r) \subseteq Approving(w) \union {tr}
      BY <1>3, <1>6
    <3>3. IsFiniteSet(Approving(w) \union {tr})
      BY <1>6, <1>10, FS_AddElement
    <3> QED BY <1>6, <1>8, <3>1, <3>2, <3>3, MajorityGrows
  <2>9. ASSUME NEW x \in Wills, x # w PROVE SameView(x)
    <3>1. ~Kept(u, x) /\ ~Kept(u, x)'
      BY <1>4, <2>2, <2>9 DEF Kept
    <3>2. (\E v \in Users : Kept(v, x)) => r \notin OpenRounds(x)
      BY <1>11, <3>1
    <3>3. \A q \in OpenRounds(x) : q \in Requests
      BY DEF OpenRounds
    <3> QED BY <1>2, <1>3, <2>1, <2>2, <3>1, <3>2, <3>3, OthersView
  <2> QED BY <1>1, <1>2, <1>6, <2>4, <2>5, <2>6, <2>7, <2>8, <2>9, IsBeginGrace, OneWillMoves
<1>13. CASE UNCHANGED <<wills, rounds, crossed>>
              /\ ~(Approvals(latest', r) >= rounds[r].threshold)
  <2>1. \A x : OpenRounds(x)' = OpenRounds(x) /\ \A v \in Users : Kept(v, x)' = Kept(v, x)
    BY <1>13 DEF OpenRounds, Kept, InOrder, Live
  <2>2. Kept(u, w)' /\ OthersKept(u)
    BY <1>13, <2>1 DEF OthersKept
  <2>3. PhaseOf(w)' = PhaseOf(w)
    BY <1>13, <2>2, KeptView, KeptViewNext
  <2>4. PublishedNow(w)' = PublishedNow(w)
    <3>1. Current(u)' = Current(u)
      BY <1>13 DEF Current
    <3> QED BY <2>2, <3>1, KeptView, KeptViewNext
  <2>5. Panel(w)' = Panel(w)
    <3>1. Ids(w)' = Ids(w)
      BY <1>2 DEF Ids
    <3> QED BY <2>2, <3>1, KeptView, KeptViewNext
  <2>6. Approving(w)' = Approvers(latest', r)
    <3>1. OpenRounds(w)' = {r}
      BY <1>5, <2>1
    <3>2. {x \in Trustees : \E q \in OpenRounds(w)' : latest'[q][x] = "approve"}
            = Approvers(latest', r)
      BY <3>1 DEF Approvers
    <3> QED BY <2>2, <3>2, KeptViewNext
  <2>7. ~Contract!IsMajority(Approving(w)', Panel(w))
    BY <1>9, <1>10, <1>13, <2>6
  <2>8. Approving(w)' \in {Approving(w) \union {tr}, Approving(w) \ {tr}}
    BY <1>3, <1>6, <2>6
  <2>9. ASSUME NEW x \in Wills, x # w PROVE SameView(x)
    <3>1. ~Kept(u, x) /\ ~Kept(u, x)'
      BY <1>4, <2>1, <2>9 DEF Kept
    <3>2. (\E v \in Users : Kept(v, x)) => r \notin OpenRounds(x)
      BY <1>11, <3>1
    <3>3. \A q \in OpenRounds(x) : q \in Requests
      BY DEF OpenRounds
    <3> QED BY <1>2, <1>3, <1>13, <2>1, <2>2, <3>1, <3>2, <3>3, OthersView
  <2>10. tr \in Panel(w)
    BY <1>6
  <2> QED BY <1>2, <1>6, <2>3, <2>4, <2>5, <2>7, <2>8, <2>9, <2>10, IsRespond, OneWillMoves
<1> QED BY <1>2, <1>12, <1>13

\* A decision about a will its owner no longer keeps: the contract sees it only
\* when it moves the will the owner has now, which it then gives up.
LEMMA StrayDecision ==
  ASSUME RuleInv, OwnInv', NEW email \in Emails, NEW r \in Requests,
         NEW decision \in Decisions, RecordVerificationDecision(email, r, decision),
         NEW u \in Users, u = rounds[r].user, ~Kept(u, rounds[r].will)
  PROVE  ContractStep
<1> USE DEF RuleInv, QuietInv, OwnInv, PanelInv
<1>1. PICK w : w = wills[u].id
  OBVIOUS
<1>2. /\ rounds[r].status = "pending" /\ Live(u) /\ w \in Wills
      /\ UNCHANGED <<now, trustees, issued>>
      /\ Decisive(r) \/ UNCHANGED <<wills, rounds, crossed>>
      /\ \A q \in Requests : q # r => latest'[q] = latest[q]
  <2>1. PICK tr \in Trustees :
          latest' = [latest EXCEPT ![r] = [latest[r] EXCEPT ![tr] = decision]]
    BY DecisionShape
  <2>2. \A q \in Requests : q # r => latest'[q] = latest[q]
    BY <2>1, ApproversAfter
  <2>3. Live(u) /\ w \in Wills
    BY <1>1, DecisionShape, LiveWill
  <2> QED BY <2>2, <2>3, DecisionShape
<1>3. ASSUME NEW v \in Users, NEW x \in Wills, Kept(v, x) PROVE r \notin OpenRounds(x)
  <2>1. ASSUME r \in OpenRounds(x) PROVE FALSE
    <3>1. rounds[r].will = x /\ rounds[r] # NoRound
      BY <1>2, <2>1 DEF OpenRounds, NoRound
    <3>2. v = u
      BY <1>3, <3>1 DEF RoundsOwned, Kept, InOrder, Live
    <3> QED BY <1>3, <3>1, <3>2
  <2> QED BY <2>1
<1>4. \A x : \A q \in OpenRounds(x) : q \in Requests
  BY DEF OpenRounds
<1>5. CASE Decisive(r)
  <2>1. \A x : OpenRounds(x)' = OpenRounds(x) \ {r}
    BY <1>2, <1>5, DecisionCloses
  <2>2. /\ wills'[u].id = w /\ OthersKept(u)
        /\ crossed' = crossed \union ({w} \ {rounds[r].will})
    BY <1>1, <1>2, <1>5, DecisiveEffect DEF Remains
  <2>3. \A x : ~Kept(u, x)'
    BY <1>1, <1>2, <2>2 DEF Kept, InOrder
  <2>4. ASSUME NEW x \in Wills, ~Kept(u, x) PROVE SameView(x)
    <3>1. x \in crossed' <=> x \in crossed
      BY <1>1, <1>2, <2>2, <2>4 DEF Kept, InOrder
    <3>2. (\E v \in Users : Kept(v, x)) => r \notin OpenRounds(x)
      BY <1>3
    <3> QED BY <1>2, <1>4, <2>1, <2>2, <2>3, <2>4, <3>1, <3>2, OthersView
  <2>5. CASE ~Kept(u, w)
    <3>1. \A x \in Wills : SameView(x)
      BY <1>1, <2>4, <2>5 DEF Kept
    <3> QED BY <3>1, Stutter
  <2>6. CASE Kept(u, w)
    <3>1. w \in issued' /\ PhaseOf(w) = wills[u].lifecycle
      BY <1>2, <2>6, KeptView
    <3>2. PhaseOf(w) \in Contract!Phases \ {"none", "closed"}
      BY <1>2, <3>1, LiveWill DEF StoredWill, Contract!Phases
    <3>3. \A v \in Users : ~Kept(v, w)'
      BY <1>1, <1>2, <2>2, <2>3, <2>6 DEF Kept, InOrder, Live, OthersKept, OwnersDiffer
    <3>4. PhaseOf(w)' = "closed" /\ PublishedNow(w)' = FALSE /\ Panel(w)' = {}
          /\ Approving(w)' = {}
      BY <3>1, <3>3, UnkeptViewNext
    <3>5. \A x \in Wills : x # w => SameView(x)
      BY <1>1, <2>4 DEF Kept
    <3> QED BY <1>2, <3>2, <3>4, <3>5, IsClose, OneWillMoves
  <2> QED BY <2>5, <2>6
<1>6. CASE UNCHANGED <<wills, rounds, crossed>>
  <2>1. \A x : OpenRounds(x)' = OpenRounds(x) /\ \A v \in Users : Kept(v, x)' = Kept(v, x)
    BY <1>6 DEF OpenRounds, Kept, InOrder, Live
  <2>2. ASSUME NEW x \in Wills PROVE SameView(x)
    <3>1. CASE \A v \in Users : ~Kept(v, x)
      BY <1>2, <2>1, <3>1, UnkeptStays
    <3>2. ASSUME NEW v \in Users, Kept(v, x) PROVE SameView(x)
      <4>1. Kept(v, x)' /\ r \notin OpenRounds(x)
        BY <1>3, <2>1, <3>2
      <4> QED BY <1>2, <1>4, <1>6, <2>1, <3>2, <4>1, KeptStays
    <3> QED BY <3>1, <3>2
  <2> QED BY <2>2, Stutter
<1> QED BY <1>2, <1>5, <1>6

-----------------------------------------------------------------------------
\* The store keeps the contract.

LEMMA StoreStepIsContractStep ==
  ASSUME RuleInv, [MemoryNext]_memoryVars
  PROVE  ContractStep
<1>1. RuleInv' /\ OwnInv'
  BY RuleStep DEF RuleInv, QuietInv
<1>2. ASSUME NEW email \in Emails, NEW r \in Requests, NEW decision \in Decisions,
             RecordVerificationDecision(email, r, decision)
      PROVE  ContractStep
  <2>1. rounds[r].user \in Users
    BY <1>2, DecisionShape DEF RuleInv, QuietInv, OwnInv, PanelInv
  <2> QED BY <1>1, <1>2, <2>1, KeptDecision, StrayDecision
<1>3. ASSUME UNCHANGED <<wills, trustees, rounds, latest, issued, crossed>>
      PROVE  ContractStep
  <2>1. \A x : OpenRounds(x)' = OpenRounds(x) /\ \A v \in Users : Kept(v, x)' = Kept(v, x)
    BY <1>3 DEF OpenRounds, Kept, InOrder, Live
  <2>2. ASSUME NEW x \in Wills PROVE SameView(x)
    <3>1. CASE \A v \in Users : ~Kept(v, x)
      BY <1>3, <2>1, <3>1, UnkeptStays
    <3>2. ASSUME NEW v \in Users, Kept(v, x) PROVE SameView(x)
      BY <1>1, <1>3, <2>1, <3>2, KeptStays DEF RuleInv, QuietInv
    <3> QED BY <3>1, <3>2
  <2> QED BY <2>2, Stutter
<1> QED
  BY <1>1, <1>2, <1>3, Calls, CreateIsOpen, UpdateIsAuthor, DeleteIsClose,
     HeartbeatIsRestore, PanelEditIsAuthor, SweepIsTransition

LEMMA ContractInit ==
  ASSUME MemoryInit
  PROVE  Contract!Init
<1>1. \A w : (\A u \in Users : ~Kept(u, w)) /\ w \notin issued
  BY DEF MemoryInit, Kept, InOrder, Live
<1>2. \A w \in Wills : /\ PhaseOf(w) = "none" /\ PublishedNow(w) = FALSE
                       /\ Panel(w) = {} /\ Approving(w) = {}
  BY <1>1, UnkeptView
<1>3. phaseOf = [w \in Wills |-> "none"] /\ publishedOf = [w \in Wills |-> FALSE]
  BY <1>2 DEF phaseOf, publishedOf
<1>4. panelOf = [w \in Wills |-> {}] /\ approvingOf = [w \in Wills |-> {}]
  BY <1>2 DEF panelOf, approvingOf
<1> QED BY <1>3, <1>4 DEF Contract!Init

\* The store the tests run on implements the lifecycle contract of API_SPEC.md
\* for any number of owners, wills and trustees, whatever owners recreate,
\* whichever round is answered late and however many wills one sweep moves.
THEOREM StoreImplementsContract == MemorySpec => KeepsContractUntilCrossed
<1>1. RuleInv /\ [MemoryNext]_memoryVars => RuleInv'
  BY RuleStep
<1>2. RuleInv /\ [MemoryNext]_memoryVars => [Contract!Next]_(Contract!contract)
  BY StoreStepIsContractStep DEF ContractStep
<1> QED
  BY <1>1, <1>2, RuleInit, ContractInit, PTL
  DEF MemorySpec, KeepsContractUntilCrossed, Contract!Spec
=============================================================================
