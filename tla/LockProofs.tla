----------------------------- MODULE LockProofs -----------------------------
(***************************************************************************)
(* Theorems about StoreLocks, for every number of callers, accounts and    *)
(* connections: which calls can wait in a circle, and what can stop all of *)
(* them.                                                                   *)
(***************************************************************************)
EXTENDS StoreLocks, TLAPS, FiniteSetTheorems, SequenceTheorems

-----------------------------------------------------------------------------
\* The lists of locks

LockRow == [row : {"user", "will", "round", "old_will", "old_round", "notice"},
            owner : Owners, exclusive : BOOLEAN]

LEMMA RowsTyped ==
  ASSUME NEW o \in Owners
  PROVE  /\ X("user", o) \in LockRow /\ X("will", o) \in LockRow /\ X("round", o) \in LockRow
         /\ X("old_will", o) \in LockRow /\ X("old_round", o) \in LockRow
         /\ X("notice", o) \in LockRow
         /\ S("user", o) \in LockRow /\ S("will", o) \in LockRow
         /\ S("old_will", o) \in LockRow
BY DEF X, S, LockRow

LEMMA AskedFields ==
  ASSUME NEW c \in Asked
  PROVE  /\ c # Idle /\ c.op \in Operations /\ c.owner \in Owners /\ c.actor \in Owners
         /\ Needed(c) \in 0 .. 2
<1>1. c.op \in Operations /\ c.owner \in Owners /\ c.actor \in Owners
  BY DEF Asked, Call
<1>2. c # Idle
  BY <1>1 DEF Idle, Operations
<1>3. Needed(c) \in 0 .. 2
  BY DEF Needed
<1> QED BY <1>1, <1>2, <1>3

\* The calls that lock the owner's live will and account for themselves.
OwnerCalls == {"update", "delete_trustee", "heartbeat"}

LEMMA OwnerList ==
  ASSUME NEW o \in Owners
  PROVE  /\ OwnerRows(o) \in Seq(LockRow) /\ Len(OwnerRows(o)) = 2
         /\ OwnerRows(o)[1] = X("will", o) /\ OwnerRows(o)[2] = X("user", o)
<1>1. X("will", o) \in LockRow /\ X("user", o) \in LockRow
  BY RowsTyped
<1>. HIDE DEF LockRow
<1> QED BY <1>1 DEF OwnerRows

\* One lock more.
LEMMA LongerList ==
  ASSUME NEW o \in Owners, NEW a \in LockRow
  PROVE  /\ Append(OwnerRows(o), a) \in Seq(LockRow) /\ Len(Append(OwnerRows(o), a)) = 3
         /\ Append(OwnerRows(o), a)[1] = X("will", o)
         /\ Append(OwnerRows(o), a)[2] = X("user", o)
         /\ Append(OwnerRows(o), a)[3] = a
<1>1. /\ OwnerRows(o) \in Seq(LockRow) /\ Len(OwnerRows(o)) = 2
      /\ OwnerRows(o)[1] = X("will", o) /\ OwnerRows(o)[2] = X("user", o)
  BY OwnerList
<1>2. PICK rows \in Seq(LockRow) : rows = OwnerRows(o)
  BY <1>1
<1>3. Len(rows) = 2 /\ rows[1] = X("will", o) /\ rows[2] = X("user", o)
  BY <1>1, <1>2
<1>. HIDE DEF LockRow
<1>4. /\ Append(rows, a) \in Seq(LockRow) /\ Len(Append(rows, a)) = Len(rows) + 1
      /\ \A i \in 1 .. Len(rows) : Append(rows, a)[i] = rows[i]
      /\ Append(rows, a)[Len(rows) + 1] = a
  BY AppendProperties
<1>5. 1 \in 1 .. Len(rows) /\ 2 \in 1 .. Len(rows) /\ Len(rows) + 1 = 3
  BY <1>3
<1> QED BY <1>2, <1>3, <1>4, <1>5

\* The places of an owner's call.
LEMMA OwnerCallList ==
  ASSUME NEW c \in Asked, c.op \in OwnerCalls
  PROVE  /\ Locks(c) \in Seq(LockRow) /\ Len(Locks(c)) \in {2, 3}
         /\ Locks(c)[1] = X("will", c.owner) /\ Locks(c)[2] = X("user", c.owner)
         /\ Len(Locks(c)) = 3 => Locks(c)[3] \in {X("round", c.owner), X("notice", c.owner)}
<1>1. c.owner \in Owners
  BY AskedFields
<1>2. X("round", c.owner) \in LockRow /\ X("notice", c.owner) \in LockRow
  BY <1>1, RowsTyped
<1>3. CASE c.op = "update"
  <2>1. Locks(c) = OwnerRows(c.owner)
    BY <1>3 DEF Locks
  <2> QED BY <1>1, <2>1, OwnerList
<1>4. CASE c.op = "heartbeat"
  <2>1. Locks(c) = Append(OwnerRows(c.owner), X("round", c.owner))
    BY <1>4 DEF Locks, HeartbeatRows
  <2> QED BY <1>1, <1>2, <2>1, LongerList
<1>5. CASE c.op = "delete_trustee"
  <2>1. Locks(c) = Append(OwnerRows(c.owner), X("notice", c.owner))
    BY <1>5 DEF Locks, TrusteeRows
  <2> QED BY <1>1, <1>2, <2>1, LongerList
<1> QED BY <1>3, <1>4, <1>5 DEF OwnerCalls

\* Notifications of one owner, who may be among those of whom it is the deleted will.
LEMMA NotificationList ==
  ASSUME NEW o \in Owners, NEW old
  PROVE  /\ NotificationRows(o, o \in old) \in Seq(LockRow)
         /\ Len(NotificationRows(o, o \in old)) \in {2, 3}
         /\ \A i \in 1 .. Len(NotificationRows(o, o \in old)) :
              NotificationRows(o, o \in old)[i] \in {S("old_will", o), S("user", o), S("will", o)}
         /\ o \notin old => /\ Len(NotificationRows(o, o \in old)) = 2
                            /\ NotificationRows(o, o \in old)[1] = S("will", o)
                            /\ NotificationRows(o, o \in old)[2] = S("user", o)
<1>1. S("old_will", o) \in LockRow /\ S("user", o) \in LockRow /\ S("will", o) \in LockRow
  BY RowsTyped
<1>. HIDE DEF LockRow
<1>2. CASE o \in old
  <2>1. NotificationRows(o, o \in old) = <<S("old_will", o), S("user", o), S("will", o)>>
    BY <1>2 DEF NotificationRows
  <2>. DEFINE rows == <<S("old_will", o), S("user", o), S("will", o)>>
  <2>2. rows \in Seq(LockRow) /\ Len(rows) = 3
    BY <1>1
  <2>3. rows[1] = S("old_will", o) /\ rows[2] = S("user", o) /\ rows[3] = S("will", o)
    OBVIOUS
  <2>. HIDE DEF rows
  <2>4. \A i \in 1 .. Len(rows) : rows[i] \in {S("old_will", o), S("user", o), S("will", o)}
    BY <2>2, <2>3
  <2>5. NotificationRows(o, o \in old) = rows
    BY <2>1 DEF rows
  <2> QED BY <1>2, <2>2, <2>4, <2>5
<1>3. CASE o \notin old
  <2>1. NotificationRows(o, o \in old) = <<S("will", o), S("user", o)>>
    BY <1>3 DEF NotificationRows
  <2>. DEFINE rows == <<S("will", o), S("user", o)>>
  <2>2. rows \in Seq(LockRow) /\ Len(rows) = 2
    BY <1>1
  <2>3. rows[1] = S("will", o) /\ rows[2] = S("user", o)
    OBVIOUS
  <2>. HIDE DEF rows
  <2>4. \A i \in 1 .. Len(rows) : rows[i] \in {S("old_will", o), S("user", o), S("will", o)}
    BY <2>2, <2>3
  <2>5. NotificationRows(o, o \in old) = rows
    BY <2>1 DEF rows
  <2> QED BY <1>3, <2>2, <2>3, <2>4, <2>5
<1> QED BY <1>2, <1>3

\* All they lock they share; of live wills they lock each will before its owner.
LEMMA EnqueueList ==
  ASSUME NEW c \in Asked, c.op = "enqueue"
  PROVE  /\ Locks(c) \in Seq(LockRow)
         /\ \A i \in 1 .. Len(Locks(c)) : /\ Locks(c)[i].exclusive = FALSE
                                         /\ Locks(c)[i].row # "notice"
         /\ c.old = {} =>
              /\ Len(Locks(c)) = 4
              /\ Locks(c)[1] = S("will", c.owner) /\ Locks(c)[2] = S("user", c.owner)
              /\ Locks(c)[3] = S("will", c.actor) /\ Locks(c)[4] = S("user", c.actor)
<1>1. c.owner \in Owners /\ c.actor \in Owners
  BY AskedFields
<1>2. PICK one \in Seq(LockRow) : one = NotificationRows(c.owner, c.owner \in c.old)
  BY <1>1, NotificationList
<1>3. PICK two \in Seq(LockRow) : two = NotificationRows(c.actor, c.actor \in c.old)
  BY <1>1, NotificationList
<1>4. Locks(c) = one \o two
  BY <1>2, <1>3 DEF Locks
<1>5. /\ Len(one) \in {2, 3} /\ Len(two) \in {2, 3}
      /\ \A i \in 1 .. Len(one) :
           one[i] \in {S("old_will", c.owner), S("user", c.owner), S("will", c.owner)}
      /\ \A i \in 1 .. Len(two) :
           two[i] \in {S("old_will", c.actor), S("user", c.actor), S("will", c.actor)}
      /\ c.old = {} => /\ Len(one) = 2 /\ Len(two) = 2
                       /\ one[1] = S("will", c.owner) /\ one[2] = S("user", c.owner)
                       /\ two[1] = S("will", c.actor) /\ two[2] = S("user", c.actor)
  BY <1>1, <1>2, <1>3, NotificationList
<1>6. \A o : \A a \in {S("old_will", o), S("user", o), S("will", o)} :
        a.exclusive = FALSE /\ a.row # "notice"
  BY DEF S
<1>. HIDE DEF LockRow
<1>7. one \o two \in Seq(LockRow) /\ Len(one \o two) = Len(one) + Len(two)
  OBVIOUS
<1>8. \A i \in 1 .. Len(one \o two) :
        (one \o two)[i] = IF i <= Len(one) THEN one[i] ELSE two[i - Len(one)]
  OBVIOUS
<1>9. \A i \in 1 .. Len(one \o two) :
        (one \o two)[i].exclusive = FALSE /\ (one \o two)[i].row # "notice"
  <2> SUFFICES ASSUME NEW i \in 1 .. Len(one \o two)
               PROVE  (one \o two)[i].exclusive = FALSE /\ (one \o two)[i].row # "notice"
    OBVIOUS
  <2>1. CASE i <= Len(one)
    <3>1. (one \o two)[i] = one[i] /\ i \in 1 .. Len(one)
      BY <1>8, <2>1
    <3> QED BY <1>5, <1>6, <3>1
  <2>2. CASE ~(i <= Len(one))
    <3>1. (one \o two)[i] = two[i - Len(one)] /\ i - Len(one) \in 1 .. Len(two)
      BY <1>5, <1>7, <1>8, <2>2
    <3> QED BY <1>5, <1>6, <3>1
  <2> QED BY <2>1, <2>2
<1>10. ASSUME c.old = {}
       PROVE  /\ Len(one \o two) = 4
              /\ (one \o two)[1] = S("will", c.owner) /\ (one \o two)[2] = S("user", c.owner)
              /\ (one \o two)[3] = S("will", c.actor) /\ (one \o two)[4] = S("user", c.actor)
  <2>a. /\ Len(one) = 2 /\ Len(two) = 2
        /\ one[1] = S("will", c.owner) /\ one[2] = S("user", c.owner)
        /\ two[1] = S("will", c.actor) /\ two[2] = S("user", c.actor)
    BY <1>5, <1>10
  <2>1. /\ Len(one) = 2 /\ Len(one \o two) = 4
        /\ 1 \in 1 .. 4 /\ 2 \in 1 .. 4 /\ 3 \in 1 .. 4 /\ 4 \in 1 .. 4
    BY <1>7, <2>a
  <2>2. /\ (one \o two)[1] = one[1] /\ (one \o two)[2] = one[2]
        /\ (one \o two)[3] = two[3 - 2] /\ (one \o two)[4] = two[4 - 2]
    BY <1>8, <2>1
  <2> QED BY <2>a, <2>1, <2>2
<1> QED BY <1>4, <1>7, <1>9, <1>10

\* A mark shares all it locks after its notification.
LEMMA MarkList ==
  ASSUME NEW c \in Asked, c.op = "mark"
  PROVE  /\ Locks(c) \in Seq(LockRow) /\ Len(Locks(c)) = 3
         /\ Locks(c)[1] = X("notice", c.owner) /\ Locks(c)[2] = S("user", c.owner)
         /\ Locks(c)[3] = S("will", c.owner)
<1>1. X("notice", c.owner) \in LockRow /\ S("user", c.owner) \in LockRow
      /\ S("will", c.owner) \in LockRow
  BY AskedFields, RowsTyped
<1>2. Locks(c) = <<X("notice", c.owner), S("user", c.owner), S("will", c.owner)>>
  BY DEF Locks, MarkRows
<1>. HIDE DEF LockRow
<1> QED BY <1>1, <1>2

LEMMA DecisionList ==
  ASSUME NEW c \in Asked, c.op = "decide"
  PROVE  Locks(c) \in Seq(LockRow)
<1>1. c.owner \in Owners /\ c.actor \in Owners
  BY AskedFields
<1>2. /\ X("old_round", c.owner) \in LockRow /\ X("old_will", c.owner) \in LockRow
      /\ X("round", c.owner) \in LockRow /\ X("will", c.owner) \in LockRow
      /\ X("user", c.owner) \in LockRow /\ S("user", c.actor) \in LockRow
  BY <1>1, RowsTyped
<1>. HIDE DEF LockRow
<1>3. /\ <<X("old_round", c.owner), X("old_will", c.owner)>> \in Seq(LockRow)
      /\ <<X("round", c.owner), X("will", c.owner)>> \in Seq(LockRow)
      /\ <<X("user", c.owner), S("user", c.actor)>> \in Seq(LockRow)
  BY <1>2
<1>4. \A one, two \in Seq(LockRow) : one \o two \in Seq(LockRow)
  OBVIOUS
<1>5. CASE c.owner \in c.old
  <2>1. Locks(c) = <<X("old_round", c.owner), X("old_will", c.owner)>>
                     \o <<X("user", c.owner), S("user", c.actor)>>
    BY <1>5 DEF Locks, DecisionRows
  <2> QED BY <1>3, <1>4, <2>1, Zenon
<1>6. CASE c.owner \notin c.old
  <2>1. Locks(c) = <<X("round", c.owner), X("will", c.owner)>>
                     \o <<X("user", c.owner), S("user", c.actor)>>
    BY <1>6 DEF Locks, DecisionRows
  <2> QED BY <1>3, <1>4, <2>1, Zenon
<1> QED BY <1>5, <1>6

LEMMA LockLists ==
  ASSUME NEW c \in Asked
  PROVE  /\ Locks(c) \in Seq(LockRow) /\ Len(Locks(c)) \in Nat
         /\ c.op = "create_will" => Len(Locks(c)) = 1
         /\ c.op = "history" => Len(Locks(c)) = 0
<1>1. c.owner \in Owners /\ c.op \in Operations
  BY AskedFields
<1>2. CASE c.op = "create_will"
  <2>1. Locks(c) = <<S("user", c.owner)>> /\ S("user", c.owner) \in LockRow
    BY <1>1, <1>2, RowsTyped DEF Locks
  <2>. HIDE DEF LockRow
  <2> QED BY <1>2, <2>1
<1>3. CASE c.op = "history"
  <2>1. Locks(c) = <<>>
    BY <1>3 DEF Locks
  <2> QED BY <1>3, <2>1
<1>4. CASE c.op = "delete_account"
  <2>1. Locks(c) = <<X("user", c.owner), X("old_will", c.owner), X("will", c.owner),
                     X("old_round", c.owner), X("round", c.owner), X("notice", c.owner)>>
    BY <1>4 DEF Locks, AccountRows
  <2>2. /\ X("user", c.owner) \in LockRow /\ X("will", c.owner) \in LockRow
        /\ X("round", c.owner) \in LockRow /\ X("notice", c.owner) \in LockRow
        /\ X("old_will", c.owner) \in LockRow /\ X("old_round", c.owner) \in LockRow
    BY <1>1, RowsTyped
  <2>. HIDE DEF LockRow
  <2> QED BY <1>4, <2>1, <2>2
<1>5. CASE c.op \in OwnerCalls \union {"decide", "enqueue", "mark"}
  <2>1. Locks(c) \in Seq(LockRow)
    BY <1>5, OwnerCallList, DecisionList, EnqueueList, MarkList
  <2>. HIDE DEF LockRow
  <2> QED BY <1>5, <2>1 DEF OwnerCalls
<1> QED BY <1>1, <1>2, <1>3, <1>4, <1>5 DEF Operations, OwnerCalls

-----------------------------------------------------------------------------
\* Waiting, directly and through others

LEMMA ReachesDirect ==
  ASSUME NEW waits, NEW p, NEW q, <<p, q>> \in waits
  PROVE  Reaches(waits, p, q)
<1> SUFFICES ASSUME NEW set \in SUBSET (Callers \ {q})
             PROVE  \E edge \in waits : edge[1] \in set \union {p} /\ edge[2] \notin set
  BY DEF Reaches
<1>1. <<p, q>>[1] = p /\ <<p, q>>[2] = q
  OBVIOUS
<1> QED BY <1>1

LEMMA ReachesOn ==
  ASSUME NEW waits, NEW p, NEW q, NEW r, Reaches(waits, p, q), <<q, r>> \in waits
  PROVE  Reaches(waits, p, r)
<1> SUFFICES ASSUME NEW set \in SUBSET (Callers \ {r})
             PROVE  \E edge \in waits : edge[1] \in set \union {p} /\ edge[2] \notin set
  BY DEF Reaches
<1>1. <<q, r>>[1] = q /\ <<q, r>>[2] = r
  OBVIOUS
<1>2. CASE q \in set
  BY <1>1, <1>2
<1>3. CASE q \notin set
  <2>1. set \in SUBSET (Callers \ {q})
    BY <1>3
  <2> QED BY <2>1 DEF Reaches
<1> QED BY <1>2, <1>3

LEMMA ReachesFrom ==
  ASSUME NEW waits, NEW p, NEW q, NEW r, <<p, q>> \in waits, Reaches(waits, q, r)
  PROVE  Reaches(waits, p, r)
<1> SUFFICES ASSUME NEW set \in SUBSET (Callers \ {r})
             PROVE  \E edge \in waits : edge[1] \in set \union {p} /\ edge[2] \notin set
  BY DEF Reaches
<1>1. <<p, q>>[1] = p /\ <<p, q>>[2] = q
  OBVIOUS
<1>2. CASE q \notin set
  BY <1>1, <1>2
<1>3. CASE q \in set
  <2>1. PICK edge \in waits : edge[1] \in set \union {q} /\ edge[2] \notin set
    BY DEF Reaches
  <2> QED BY <1>3, <2>1
<1> QED BY <1>2, <1>3

\* A way from p to q begins with someone p waits for.
LEMMA ReachesNext ==
  ASSUME NEW waits, waits \subseteq Callers \X Callers, NEW p, NEW q, Reaches(waits, p, q)
  PROVE  \E r \in Callers : <<p, r>> \in waits /\ (r = q \/ Reaches(waits, r, q))
<1>. DEFINE set == {x \in Callers \ {q} : ~Reaches(waits, x, q)}
<1>1. PICK edge \in waits : edge[1] \in set \union {p} /\ edge[2] \notin set
  <2>1. set \in SUBSET (Callers \ {q})
    OBVIOUS
  <2>. HIDE DEF set
  <2> QED BY <2>1 DEF Reaches
<1>2. PICK x \in Callers, r \in Callers : edge = <<x, r>>
  BY <1>1
<1>3. <<x, r>> \in waits /\ x \in set \union {p} /\ r \notin set
  BY <1>1, <1>2
<1>4. r = q \/ Reaches(waits, r, q)
  BY <1>3
<1>5. Reaches(waits, x, q)
  BY <1>3, <1>4, ReachesDirect, ReachesFrom
<1>6. x = p
  BY <1>3, <1>5
<1> QED BY <1>3, <1>4, <1>6

LEMMA WaitsAre ==
  ASSUME NEW p \in Callers, NEW q \in Callers
  PROVE  <<p, q>> \in Waits <=> WaitsFor(p, q)
BY DEF Waits

LEMMA WaitsOfCallers == Waits \subseteq Callers \X Callers
BY DEF Waits

\* Whoever is in a circle waits for another member of it.
LEMMA CircleGoesOn ==
  ASSUME NEW p \in Callers, NEW q \in Circle(p)
  PROVE  q \in Callers /\ \E r \in Circle(p) : WaitsFor(q, r)
<1>1. q \in Callers /\ Reaches(Waits, p, q) /\ Reaches(Waits, q, p)
  BY DEF Circle
<1>2. PICK r \in Callers : <<q, r>> \in Waits /\ (r = p \/ Reaches(Waits, r, p))
  BY <1>1, ReachesNext, WaitsOfCallers
<1>3. Reaches(Waits, p, r) /\ WaitsFor(q, r)
  BY <1>1, <1>2, ReachesOn, WaitsAre
<1>4. Reaches(Waits, r, p)
  BY <1>2, <1>3
<1> QED BY <1>1, <1>3, <1>4 DEF Circle

LEMMA DeadlockedIsInCircle ==
  ASSUME NEW p \in Deadlocked
  PROVE  p \in Callers /\ p \in Circle(p)
BY DEF Deadlocked, Circle

\* A set of natural numbers has a least element.
LEMMA LeastNatural ==
  ASSUME NEW I, I \subseteq Nat, I # {}
  PROVE  \E k \in I : \A m \in I : k <= m
<1>1. PICK k \in I : \A m \in I : <<m, k>> \notin OpToRel(<, Nat)
  BY WFMin, NatLessThanWellFounded
<1>2. \A m \in I : ~(m < k)
  BY <1>1 DEF OpToRel
<1> QED BY <1>2

\* Where everyone waits for someone, some wait for themselves: the one that
\* reaches the fewest callers cannot lose any along its waits.
LEMMA EndlessWaitsCircle ==
  ASSUME NEW W \in SUBSET Callers, W # {},
         \A p \in W : \E q \in W : WaitsFor(p, q)
  PROVE  \E p \in W : p \in Deadlocked
<1>. DEFINE R(p) == {q \in Callers : Reaches(Waits, p, q)}
            sizes == {Cardinality(R(p)) : p \in W}
<1>1. \A p \in W : R(p) \in SUBSET Callers /\ IsFiniteSet(R(p)) /\ Cardinality(R(p)) \in Nat
  <2> SUFFICES ASSUME NEW p \in W
               PROVE  R(p) \in SUBSET Callers /\ IsFiniteSet(R(p)) /\ Cardinality(R(p)) \in Nat
    OBVIOUS
  <2>1. R(p) \in SUBSET Callers
    OBVIOUS
  <2>. HIDE DEF R
  <2> QED BY <2>1, FS_Subset, FS_CardinalityType, LockAssumption
<1>2. PICK p \in W : \A q \in W : Cardinality(R(p)) <= Cardinality(R(q))
  <2>1. sizes \subseteq Nat /\ sizes # {}
    BY <1>1
  <2>2. PICK k \in sizes : \A m \in sizes : k <= m
    <3>. HIDE DEF sizes
    <3> QED BY <2>1, LeastNatural
  <2> QED BY <2>2
<1>3. PICK q \in W : WaitsFor(p, q)
  OBVIOUS
<1>4. q \in R(p) /\ R(q) \subseteq R(p)
  BY <1>3, WaitsAre, ReachesDirect, ReachesFrom
<1>5. q \in R(q)
  <2> SUFFICES ASSUME q \notin R(q) PROVE FALSE
    OBVIOUS
  <2>1. R(q) \in SUBSET (R(p) \ {q})
    BY <1>4
  <2>. HIDE DEF R
  <2>2. /\ IsFiniteSet(R(p) \ {q})
        /\ Cardinality(R(p) \ {q}) = Cardinality(R(p)) - 1
    BY <1>1, <1>4, FS_RemoveElement
  <2>3. Cardinality(R(q)) <= Cardinality(R(p)) - 1
    BY <2>1, <2>2, FS_Subset
  <2> QED BY <1>1, <1>2, <2>3
<1> QED BY <1>5 DEF Deadlocked

-----------------------------------------------------------------------------
\* Types, and locks that exclude each other

LocksExclude ==
  \A p, q \in Callers : p # q =>
    \A a \in Held(p), b \in Held(q) : ~Conflict(a, b)

\* A transaction takes its locks over a connection.
LocksNeedConnection == \A p \in Running : taken[p] > 0 => Connected(p)

LockInv ==
  /\ LockTypeOK
  /\ conns \in [Callers -> 0 .. 2] /\ taken \in [Callers -> Nat]
  /\ LocksExclude /\ LocksNeedConnection

\* What is known of a running call.
LEMMA RunningCall ==
  ASSUME LockInv, NEW p \in Running
  PROVE  /\ p \in Callers /\ call[p] \in Asked
         /\ taken[p] \in 0 .. Len(Locks(call[p])) /\ conns[p] \in 0 .. Needed(call[p])
         /\ Len(Locks(call[p])) \in Nat /\ Needed(call[p]) \in 0 .. 2
         /\ ~Finished(p) => taken[p] + 1 \in 1 .. Len(Locks(call[p]))
<1>1. p \in Callers /\ call[p] \in Asked
  BY DEF LockInv, LockTypeOK, Running
<1>2. taken[p] \in 0 .. Len(Locks(call[p])) /\ conns[p] \in 0 .. Needed(call[p])
  BY DEF LockInv, LockTypeOK
<1>3. Len(Locks(call[p])) \in Nat /\ Needed(call[p]) \in 0 .. 2
  BY <1>1, LockLists, AskedFields
<1> QED BY <1>1, <1>2, <1>3 DEF Finished

\* An idle caller holds nothing.
LEMMA IdleHolds ==
  ASSUME LockInv, NEW p \in Callers, p \notin Running
  PROVE  Held(p) = {} /\ conns[p] = 0 /\ taken[p] = 0
<1>1. conns[p] = 0 /\ taken[p] = 0
  BY DEF LockInv, LockTypeOK
<1> QED BY <1>1 DEF Held

LEMMA InUseFinite ==
  /\ IsFiniteSet(InUse) /\ Cardinality(InUse) \in Nat
  /\ MaxConns \in Nat
<1>1. IsFiniteSet(1 .. 2)
  <2>1. 1 \in Int /\ 2 \in Int
    OBVIOUS
  <2> QED BY <2>1, FS_Interval
<1>2. IsFiniteSet(Callers \X (1 .. 2))
  BY <1>1, FS_Product, LockAssumption
<1>3. InUse \in SUBSET (Callers \X (1 .. 2))
  BY DEF InUse
<1> QED BY <1>2, <1>3, FS_Subset, FS_CardinalityType, LockAssumption

\* One more connection for p.
LEMMA OneMoreInUse ==
  ASSUME LockInv, NEW p \in Callers, NEW n \in 1 .. 2, conns[p] = n - 1,
         conns' = [conns EXCEPT ![p] = n], FreeConns > 0
  PROVE  FreeConns' >= 0
<1>1. \A q \in Callers : conns'[q] = IF q = p THEN n ELSE conns[q]
  BY DEF LockInv
<1>2. InUse' = InUse \union {<<p, n>>}
  <2>1. ASSUME NEW q \in Callers, NEW i \in 1 .. 2
        PROVE  i <= conns'[q] <=> (i <= conns[q] \/ (q = p /\ i = n))
    BY <1>1 DEF LockInv
  <2> QED BY <2>1 DEF InUse
<1>3. Cardinality(InUse \union {<<p, n>>}) <= Cardinality(InUse) + 1
  <2>1. Cardinality(InUse \union {<<p, n>>}) =
          IF <<p, n>> \in InUse THEN Cardinality(InUse) ELSE Cardinality(InUse) + 1
    BY InUseFinite, FS_AddElement
  <2> QED BY <2>1, InUseFinite
<1>4. Cardinality(InUse \union {<<p, n>>}) \in Nat
  BY InUseFinite, FS_AddElement, FS_CardinalityType
<1> QED BY <1>2, <1>3, <1>4, InUseFinite DEF FreeConns

\* Fewer connections in use leave more free.
LEMMA FewerInUse ==
  ASSUME LockInv, InUse' \subseteq InUse
  PROVE  FreeConns' >= 0
<1>1. PICK some : some = InUse'
  OBVIOUS
<1>2. Cardinality(some) <= Cardinality(InUse) /\ Cardinality(some) \in Nat
  BY <1>1, InUseFinite, FS_Subset, FS_CardinalityType
<1>3. FreeConns >= 0
  BY DEF LockInv, LockTypeOK
<1> QED BY <1>1, <1>2, <1>3, InUseFinite DEF FreeConns

\* The changes of one caller, as the steps make them.
OnlyCaller(p) ==
  \A q \in Callers : q # p => call'[q] = call[q] /\ conns'[q] = conns[q] /\ taken'[q] = taken[q]

\* What one caller does leaves the invariant if it leaves what it says of that
\* caller.
LEMMA InvFrame ==
  ASSUME LockInv, NEW p \in Callers, OnlyCaller(p),
         call' \in [Callers -> Asked \union {Idle}],
         conns' \in [Callers -> 0 .. 2], taken' \in [Callers -> Nat],
         FreeConns' >= 0,
         call'[p] # Idle => /\ conns'[p] \in 0 .. Needed(call'[p])
                            /\ taken'[p] \in 0 .. Len(Locks(call'[p]))
                            /\ taken'[p] > 0 => Connected(p)',
         call'[p] = Idle => conns'[p] = 0 /\ taken'[p] = 0,
         \A q \in Callers : q # p => \A a \in Held(p)', b \in Held(q) : ~Conflict(a, b)
  PROVE  LockInv'
<1>1. \A q \in Callers : q # p => /\ (q \in Running' <=> q \in Running)
                                  /\ Held(q)' = Held(q) /\ Connected(q)' = Connected(q)
  BY DEF OnlyCaller, Running, Held, Connected
<1>2. p \in Running' <=> call'[p] # Idle
  BY DEF Running
<1>3. \A q \in Running' : q \in Callers
  BY DEF Running
<1>4. LockTypeOK'
  <2>1. ASSUME NEW q \in Running'
        PROVE  conns'[q] \in 0 .. Needed(call'[q]) /\ taken'[q] \in 0 .. Len(Locks(call'[q]))
    BY <1>1, <1>2, <1>3 DEF OnlyCaller, LockInv, LockTypeOK
  <2>2. ASSUME NEW q \in Callers \ Running' PROVE conns'[q] = 0 /\ taken'[q] = 0
    BY <1>1, <1>2 DEF OnlyCaller, LockInv, LockTypeOK
  <2> QED BY <2>1, <2>2 DEF LockTypeOK
<1>5. LocksNeedConnection'
  BY <1>1, <1>2, <1>3 DEF LocksNeedConnection, OnlyCaller, LockInv
<1>6. LocksExclude'
  <2>1. \A a, b : Conflict(a, b) => Conflict(b, a)
    BY DEF Conflict
  <2> SUFFICES ASSUME NEW q \in Callers, NEW r \in Callers, q # r,
                      NEW a \in Held(q)', NEW b \in Held(r)'
               PROVE  ~Conflict(a, b)
    BY Zenon DEF LocksExclude, Conflict
  <2>2. CASE q # p /\ r # p
    BY <1>1, <2>2 DEF LockInv, LocksExclude
  <2>3. CASE q = p
    BY <1>1, <2>3
  <2>4. CASE r = p
    BY <1>1, <2>1, <2>4
  <2> QED BY <2>2, <2>3, <2>4
<1> QED BY <1>4, <1>5, <1>6 DEF LockInv

LEMMA BeginStep ==
  ASSUME LockInv, NEW p \in Callers, NEW c \in Asked, Begin(p, c)
  PROVE  LockInv'
<1>1. /\ call[p] = Idle /\ call' = [call EXCEPT ![p] = c] /\ UNCHANGED <<conns, taken>>
      /\ call \in [Callers -> Asked \union {Idle}]
  BY DEF Begin, LockInv, LockTypeOK
<1>2. conns[p] = 0 /\ taken[p] = 0
  BY <1>1, IdleHolds DEF Running
<1>3. /\ call'[p] = c /\ conns'[p] = 0 /\ taken'[p] = 0 /\ OnlyCaller(p)
      /\ call' \in [Callers -> Asked \union {Idle}]
  BY <1>1, <1>2 DEF OnlyCaller
<1>4. Held(p)' = {}
  BY <1>3 DEF Held
<1>5. FreeConns' >= 0
  BY <1>1, FewerInUse DEF InUse
<1>6. c # Idle /\ Needed(c) \in 0 .. 2 /\ Len(Locks(c)) \in Nat
  BY AskedFields, LockLists
<1>7. conns' \in [Callers -> 0 .. 2] /\ taken' \in [Callers -> Nat]
  BY <1>1 DEF LockInv
<1> QED BY <1>3, <1>4, <1>5, <1>6, <1>7, InvFrame

\* Taking another connection.
LEMMA ConnectStep ==
  ASSUME LockInv, NEW p \in Running, NEW n \in 1 .. 2, conns[p] = n - 1, n <= Needed(call[p]),
         FreeConns > 0, conns' = [conns EXCEPT ![p] = n], UNCHANGED <<call, taken>>
  PROVE  LockInv'
<1>1. /\ p \in Callers /\ call[p] \in Asked /\ call[p] # Idle
      /\ taken[p] \in 0 .. Len(Locks(call[p])) /\ Needed(call[p]) \in 0 .. 2
  BY RunningCall DEF Running
<1>2. /\ conns' \in [Callers -> 0 .. 2] /\ conns'[p] = n
      /\ call' \in [Callers -> Asked \union {Idle}] /\ taken' \in [Callers -> Nat]
      /\ OnlyCaller(p)
  BY <1>1 DEF LockInv, LockTypeOK, OnlyCaller
<1>3. FreeConns' >= 0
  BY <1>1, OneMoreInUse
<1>4. Held(p)' = Held(p) /\ \A q \in Callers : Held(q)' = Held(q)
  BY DEF Held
<1>5. Connected(p)'
  BY <1>2 DEF Connected
<1>6. \A q \in Callers : q # p => \A a \in Held(p)', b \in Held(q) : ~Conflict(a, b)
  BY <1>1, <1>4 DEF LockInv, LocksExclude
<1> QED BY <1>1, <1>2, <1>3, <1>5, <1>6, InvFrame

LEMMA TakeLockStep ==
  ASSUME LockInv, NEW p \in Callers, TakeLock(p)
  PROVE  LockInv'
<1>1. /\ p \in Running /\ Connected(p) /\ ~Finished(p)
      /\ \A q \in Callers : ~WaitsFor(p, q)
      /\ taken' = [taken EXCEPT ![p] = taken[p] + 1]
      /\ UNCHANGED <<call, conns>>
  BY DEF TakeLock
<1>2. /\ call[p] \in Asked /\ call[p] # Idle
      /\ taken[p] \in Nat /\ taken[p] + 1 \in 1 .. Len(Locks(call[p]))
      /\ conns[p] \in 0 .. Needed(call[p])
  BY <1>1, RunningCall DEF Running
<1>3. PICK next : next = Locks(call[p])[taken[p] + 1]
  OBVIOUS
<1>4. /\ taken' \in [Callers -> Nat] /\ taken'[p] = taken[p] + 1
      /\ call' \in [Callers -> Asked \union {Idle}] /\ conns' \in [Callers -> 0 .. 2]
      /\ OnlyCaller(p)
  BY <1>1, <1>2 DEF LockInv, LockTypeOK, OnlyCaller
<1>5. Held(p)' \subseteq Held(p) \union {next}
  <2>1. \A i \in 1 .. taken[p] + 1 : i \in 1 .. taken[p] \/ i = taken[p] + 1
    BY <1>2
  <2> QED BY <1>1, <1>3, <1>4, <2>1 DEF Held
<1>6. ASSUME NEW q \in Callers, q # p, NEW b \in Held(q) PROVE ~Conflict(next, b)
  <2>1. q \in Running
    BY <1>6, IdleHolds
  <2> QED BY <1>1, <1>3, <1>6, <2>1 DEF WaitsFor
<1>7. \A q \in Callers : q # p => \A a \in Held(p)', b \in Held(q) : ~Conflict(a, b)
  BY <1>5, <1>6 DEF LockInv, LocksExclude
<1>8. FreeConns' >= 0
  BY <1>1, FewerInUse DEF InUse
<1>9. Connected(p)'
  BY <1>1 DEF Connected
<1> QED BY <1>1, <1>2, <1>4, <1>7, <1>8, <1>9, InvFrame

LEMMA LeaveStep ==
  ASSUME LockInv, NEW p \in Callers, Leave(p)
  PROVE  LockInv'
<1>1. /\ call' = [call EXCEPT ![p] = Idle] /\ conns' = [conns EXCEPT ![p] = 0]
      /\ taken' = [taken EXCEPT ![p] = 0]
  BY DEF Leave
<1>2. /\ call'[p] = Idle /\ conns'[p] = 0 /\ taken'[p] = 0 /\ OnlyCaller(p)
      /\ call' \in [Callers -> Asked \union {Idle}]
      /\ conns' \in [Callers -> 0 .. 2] /\ taken' \in [Callers -> Nat]
  BY <1>1 DEF LockInv, LockTypeOK, OnlyCaller
<1>3. Held(p)' = {}
  BY <1>2 DEF Held
<1>4. InUse' \subseteq InUse
  <2>1. \A q \in Callers, i \in 1 .. 2 : i <= conns'[q] => i <= conns[q]
    BY <1>1 DEF LockInv
  <2> QED BY <2>1 DEF InUse
<1> QED BY <1>2, <1>3, <1>4, FewerInUse, InvFrame

LEMMA LockInvStep ==
  ASSUME LockInv, [LockNext]_lockVars
  PROVE  LockInv'
<1>1. CASE UNCHANGED lockVars
  <2>1. \A q \in Callers : Held(q)' = Held(q) /\ Connected(q)' = Connected(q)
    BY <1>1 DEF lockVars, Held, Connected
  <2>2. Running' = Running /\ FreeConns' = FreeConns
    BY <1>1 DEF lockVars, Running, FreeConns, InUse
  <2>3. LockTypeOK'
    BY <1>1, <2>2 DEF lockVars, LockInv, LockTypeOK
  <2>4. LocksExclude'
    BY <2>1 DEF LockInv, LocksExclude
  <2>5. LocksNeedConnection'
    BY <1>1, <2>1, <2>2 DEF lockVars, LockInv, LocksNeedConnection, Running
  <2> QED BY <1>1, <2>3, <2>4, <2>5 DEF lockVars, LockInv
<1>2. ASSUME NEW p \in Callers, Connect(p) PROVE LockInv'
  <2>1. /\ p \in Running /\ conns[p] = 1 - 1 /\ 1 <= Needed(call[p]) /\ FreeConns > 0
        /\ conns' = [conns EXCEPT ![p] = 1] /\ UNCHANGED <<call, taken>>
    BY <1>2, RunningCall DEF Connect
  <2>2. 1 \in 1 .. 2
    OBVIOUS
  <2> QED BY <2>1, <2>2, ConnectStep
<1>3. ASSUME NEW p \in Callers, ConnectAgain(p) PROVE LockInv'
  <2>1. /\ p \in Running /\ conns[p] = 2 - 1 /\ 2 <= Needed(call[p]) /\ FreeConns > 0
        /\ conns' = [conns EXCEPT ![p] = 2] /\ UNCHANGED <<call, taken>>
    BY <1>3 DEF ConnectAgain
  <2>2. 2 \in 1 .. 2
    OBVIOUS
  <2> QED BY <2>1, <2>2, ConnectStep
<1>4. ASSUME NEW p \in Callers, Commit(p) \/ Cancel(p) PROVE LockInv'
  BY <1>4, LeaveStep DEF Commit, Cancel
<1>5. CASE Abort
  BY <1>5, LeaveStep DEF Abort, Deadlocked
<1> QED BY <1>1, <1>2, <1>3, <1>4, <1>5, BeginStep, TakeLockStep DEF LockNext

LEMMA LockInvInit == LockInit => LockInv
<1> SUFFICES ASSUME LockInit PROVE LockInv
  OBVIOUS
<1>1. Running = {} /\ \A p \in Callers : Held(p) = {}
  BY DEF LockInit, Running, Held
<1>2. InUse = {}
  BY DEF LockInit, InUse
<1>3. FreeConns >= 0
  BY <1>2, FS_EmptySet, LockAssumption DEF FreeConns
<1>4. /\ call \in [Callers -> Asked \union {Idle}]
      /\ conns \in [Callers -> 0 .. 2] /\ taken \in [Callers -> Nat]
      /\ \A p \in Callers : conns[p] = 0 /\ taken[p] = 0
  BY DEF LockInit
<1> QED BY <1>1, <1>3, <1>4 DEF LockInv, LockTypeOK, LocksExclude, LocksNeedConnection

LEMMA LockInvariant == LockSpec => []LockInv
<1>1. LockInv /\ [LockNext]_lockVars => LockInv'
  BY LockInvStep
<1> QED BY <1>1, LockInvInit, PTL DEF LockSpec

\* Whatever is begun, aborted or cancelled, calls hold the connections and locks
\* their operations may have, and the pool hands out no more than it has.
THEOREM LockTypes == LockSpec => []LockTypeOK
<1>1. LockInv => LockTypeOK
  BY DEF LockInv
<1> QED BY <1>1, LockInvariant, PTL

-----------------------------------------------------------------------------
\* Circles

\* The calls that may wait while they hold something, and are not inverted: they
\* lock a will before its owner's account.
WillFirst(c) == c.op \in OwnerCalls \/ (c.op = "enqueue" /\ c.old = {})

\* A caller for whom somebody waits holds a lock that is in its way.
LEMMA InTheWay ==
  ASSUME LockInv, NEW p \in Callers, NEW q \in Callers, WaitsFor(p, q)
  PROVE  /\ p \in Running /\ q \in Running /\ p # q
         /\ taken[p] + 1 \in 1 .. Len(Locks(call[p]))
         /\ \E i \in 1 .. taken[q] :
              Conflict(Locks(call[p])[taken[p] + 1], Locks(call[q])[i])
<1>1. /\ p \in Running /\ q \in Running /\ p # q /\ ~Finished(p)
      /\ \E b \in Held(q) : Conflict(Locks(call[p])[taken[p] + 1], b)
  BY DEF WaitsFor
<1> QED BY <1>1, RunningCall DEF Held

\* Members of a circle hold a lock and want one, so their lists are longer than one.
LEMMA CircleMember ==
  ASSUME LockInv, NEW p \in Callers, NEW q \in Callers, NEW r \in Callers,
         WaitsFor(p, q), WaitsFor(q, r)
  PROVE  /\ call[q] \in Asked /\ taken[q] \in Nat /\ taken[q] >= 1
         /\ call[q].op \in OwnerCalls \union {"decide", "enqueue", "mark", "delete_account"}
<1>1. /\ q \in Running /\ taken[q] + 1 \in 1 .. Len(Locks(call[q]))
      /\ \E i \in 1 .. taken[q] : TRUE
  BY InTheWay
<1>2. call[q] \in Asked /\ taken[q] \in Nat
  BY <1>1, RunningCall DEF LockInv
<1>3. PICK n \in Nat : n = Len(Locks(call[q]))
  BY <1>2, LockLists
<1>4. taken[q] >= 1 /\ n # 0 /\ n # 1
  <2>1. PICK t \in Nat : t = taken[q]
    BY <1>2
  <2>2. t + 1 \in 1 .. n /\ \E i \in 1 .. t : TRUE
    BY <1>1, <1>3, <2>1
  <2> QED BY <2>1, <2>2
<1>5. call[q].op # "create_will" /\ call[q].op # "history"
  BY <1>2, <1>3, <1>4, LockLists
<1> QED BY <1>2, <1>4, <1>5, AskedFields DEF Operations, OwnerCalls

\* Whoever of them holds another row of an owner holds the owner's will.
LEMMA HoldsTheWill ==
  ASSUME LockInv, NEW q \in Callers, call[q] \in Asked, WillFirst(call[q]),
         NEW i \in 1 .. taken[q], taken[q] <= Len(Locks(call[q])),
         Locks(call[q])[i].row # "will"
  PROVE  \E a \in Held(q) : a.row = "will" /\ a.owner = Locks(call[q])[i].owner
<1>1. PICK c \in Asked : c = call[q]
  OBVIOUS
<1>2. taken[q] \in Nat
  BY DEF LockInv
<1>3. ASSUME NEW j \in 1 .. taken[q], Locks(c)[j].row = "will",
             Locks(c)[j].owner = Locks(c)[i].owner
      PROVE  \E a \in Held(q) : a.row = "will" /\ a.owner = Locks(c)[i].owner
  BY <1>1, <1>3 DEF Held
<1>4. CASE c.op \in OwnerCalls
  <2>1. /\ Locks(c)[1] = X("will", c.owner) /\ Locks(c)[2] = X("user", c.owner)
        /\ Len(Locks(c)) \in {2, 3}
        /\ Len(Locks(c)) = 3 => Locks(c)[3] \in {X("round", c.owner), X("notice", c.owner)}
    BY <1>4, OwnerCallList
  <2>2. i \in 1 .. 3 /\ (i = 3 => Len(Locks(c)) = 3) /\ 1 \in 1 .. taken[q]
    BY <1>1, <1>2, <2>1
  <2>3. Locks(c)[1].row = "will" /\ Locks(c)[i].owner = c.owner /\ Locks(c)[1].owner = c.owner
    <3>1. /\ X("will", c.owner).row = "will" /\ X("will", c.owner).owner = c.owner
          /\ X("user", c.owner).owner = c.owner /\ X("round", c.owner).owner = c.owner
          /\ X("notice", c.owner).owner = c.owner
      BY DEF X, S
    <3>2. i = 1 \/ i = 2 \/ i = 3
      BY <2>2
    <3> QED BY <2>1, <2>2, <3>1, <3>2
  <2> QED BY <1>1, <1>3, <2>2, <2>3
<1>5. CASE c.op = "enqueue" /\ c.old = {}
  <2>1. /\ Len(Locks(c)) = 4
        /\ Locks(c)[1] = S("will", c.owner) /\ Locks(c)[2] = S("user", c.owner)
        /\ Locks(c)[3] = S("will", c.actor) /\ Locks(c)[4] = S("user", c.actor)
    BY <1>5, EnqueueList
  <2>2. /\ Locks(c)[1].row = "will" /\ Locks(c)[1].owner = c.owner
        /\ Locks(c)[2].owner = c.owner
        /\ Locks(c)[3].row = "will" /\ Locks(c)[3].owner = c.actor
        /\ Locks(c)[4].owner = c.actor
    <3>1. \A o : /\ S("will", o).row = "will" /\ S("will", o).owner = o
                 /\ S("user", o).owner = o
      BY DEF X, S
    <3> QED BY <2>1, <3>1
  <2>3. i = 2 \/ i = 4
    BY <1>1, <1>2, <2>1, <2>2
  <2>4. CASE i = 2
    <3>1. 1 \in 1 .. taken[q]
      BY <1>2, <2>4
    <3> QED BY <1>1, <1>3, <2>2, <2>4, <3>1
  <2>5. CASE i = 4
    <3>1. 3 \in 1 .. taken[q]
      BY <1>2, <2>5
    <3> QED BY <1>1, <1>3, <2>2, <2>5, <3>1
  <2> QED BY <2>3, <2>4, <2>5
<1> QED BY <1>1, <1>4, <1>5 DEF WillFirst

\* A call that has locked its will exclusively waits for none of them: what it
\* wants next only holders of that will have.
LEMMA OwnersDoNotCircle ==
  ASSUME LockInv, NEW q \in Callers, NEW r \in Callers, WaitsFor(q, r),
         call[q].op \in OwnerCalls, taken[q] >= 1, WillFirst(call[r])
  PROVE  FALSE
<1>1. /\ q \in Running /\ r \in Running /\ q # r
      /\ taken[q] + 1 \in 1 .. Len(Locks(call[q]))
  BY InTheWay
<1>2. PICK i \in 1 .. taken[r] : Conflict(Locks(call[q])[taken[q] + 1], Locks(call[r])[i])
  BY InTheWay
<1>3. PICK c \in Asked : c = call[q]
  BY <1>1, RunningCall
<1>4. /\ call[r] \in Asked /\ taken[r] <= Len(Locks(call[r])) /\ taken[q] \in Nat
  BY <1>1, RunningCall DEF LockInv
<1>5. /\ Locks(c)[1] = X("will", c.owner) /\ Locks(c)[2] = X("user", c.owner)
      /\ Len(Locks(c)) \in {2, 3}
      /\ Len(Locks(c)) = 3 => Locks(c)[3] \in {X("round", c.owner), X("notice", c.owner)}
  BY <1>3, OwnerCallList
<1>6. taken[q] + 1 \in {2, 3} /\ (taken[q] + 1 = 3 => Len(Locks(c)) = 3)
  <2>1. PICK n : n = Len(Locks(c))
    OBVIOUS
  <2>2. taken[q] + 1 \in 1 .. n /\ n \in {2, 3}
    BY <1>1, <1>3, <1>5, <2>1
  <2> QED BY <1>4, <2>1, <2>2
<1>7. /\ Locks(c)[taken[q] + 1].row # "will"
      /\ Locks(c)[taken[q] + 1].owner = c.owner
  <2>1. \A a \in {X("user", c.owner), X("round", c.owner), X("notice", c.owner)} :
          a.row # "will" /\ a.owner = c.owner
    BY DEF X, S
  <2>2. Locks(c)[taken[q] + 1] \in {X("user", c.owner), X("round", c.owner), X("notice", c.owner)}
    BY <1>5, <1>6
  <2> QED BY <2>1, <2>2
<1>8. Locks(call[r])[i].row # "will" /\ Locks(call[r])[i].owner = c.owner
  BY <1>2, <1>3, <1>7 DEF Conflict
<1>9. PICK a \in Held(r) : a.row = "will" /\ a.owner = c.owner
  BY <1>4, <1>8, HoldsTheWill
<1>10. X("will", c.owner) \in Held(q)
  <2>1. 1 \in 1 .. taken[q]
    BY <1>4
  <2> QED BY <1>3, <1>5, <2>1 DEF Held
<1>11. Conflict(X("will", c.owner), a)
  <2>1. /\ X("will", c.owner).row = "will" /\ X("will", c.owner).owner = c.owner
        /\ X("will", c.owner).exclusive
    BY DEF X, S
  <2> QED BY <1>9, <2>1 DEF Conflict
<1> QED BY <1>1, <1>9, <1>10, <1>11 DEF LockInv, LocksExclude

\* Whoever queues or marks notifications waits for no other who does: after a
\* mark's notification they share what they lock.
LEMMA DeliveriesDoNotWait ==
  ASSUME LockInv, NEW q \in Callers, NEW r \in Callers, WaitsFor(q, r), taken[q] >= 1,
         call[q].op \in {"enqueue", "mark"}, call[r].op \in {"enqueue", "mark"}
  PROVE  FALSE
<1>1. ASSUME NEW p \in Running, call[p].op \in {"enqueue", "mark"},
             NEW i \in 1 .. Len(Locks(call[p]))
      PROVE  /\ Locks(call[p])[i].row = "notice" => i = 1
             /\ Locks(call[p])[i].row # "notice" => Locks(call[p])[i].exclusive = FALSE
  <2>1. PICK c \in Asked : c = call[p]
    BY RunningCall
  <2>2. CASE c.op = "enqueue"
    BY <1>1, <2>1, <2>2, EnqueueList
  <2>3. CASE c.op = "mark"
    <3>1. /\ Len(Locks(c)) = 3 /\ Locks(c)[1] = X("notice", c.owner)
          /\ Locks(c)[2] = S("user", c.owner) /\ Locks(c)[3] = S("will", c.owner)
      BY <2>3, MarkList
    <3>2. /\ S("user", c.owner).exclusive = FALSE /\ S("will", c.owner).exclusive = FALSE
          /\ S("user", c.owner).row = "user" /\ S("will", c.owner).row = "will"
          /\ X("notice", c.owner).row = "notice"
      BY DEF S, X
    <3>3. i = 1 \/ i = 2 \/ i = 3
      BY <1>1, <2>1, <3>1
    <3> QED BY <2>1, <3>1, <3>2, <3>3
  <2> QED BY <1>1, <2>1, <2>2, <2>3
<1>2. /\ q \in Running /\ r \in Running /\ taken[q] + 1 \in 1 .. Len(Locks(call[q]))
      /\ taken[q] \in Nat
  BY InTheWay DEF LockInv
<1>3. PICK i \in 1 .. taken[r] : Conflict(Locks(call[q])[taken[q] + 1], Locks(call[r])[i])
  BY InTheWay
<1>4. i \in 1 .. Len(Locks(call[r]))
  BY <1>2, RunningCall DEF LockInv
<1>5. taken[q] + 1 # 1
  BY <1>2
<1>6. /\ Locks(call[q])[taken[q] + 1].row # "notice"
      /\ Locks(call[q])[taken[q] + 1].exclusive = FALSE
  BY <1>1, <1>2, <1>5
<1>7. Locks(call[r])[i].row # "notice" => Locks(call[r])[i].exclusive = FALSE
  BY <1>1, <1>2, <1>4
<1> QED BY <1>3, <1>6, <1>7 DEF Conflict

\* In every circle of waiting calls, of any number of callers and owners, there is
\* a trustee's decision, the deletion of an account, the mark of a notification or
\* notifications of a deleted will: without those nothing deadlocks.
THEOREM CirclesNeedAnInversion == LockSpec => []CirclesHaveAnInversion
<1>1. LockInv => CirclesHaveAnInversion
  <2> SUFFICES ASSUME LockInv, NEW p \in Deadlocked, \A q \in Circle(p) : ~Inverted(call[q])
               PROVE  FALSE
    BY DEF CirclesHaveAnInversion
  <2>1. p \in Callers /\ p \in Circle(p)
    BY DeadlockedIsInCircle
  <2>2. PICK q \in Circle(p) : WaitsFor(p, q) /\ q \in Callers
    BY <2>1, CircleGoesOn
  <2>3. PICK r \in Circle(p) : WaitsFor(q, r) /\ r \in Callers
    BY <2>1, <2>2, CircleGoesOn
  <2>4. PICK s \in Circle(p) : WaitsFor(r, s) /\ s \in Callers
    BY <2>1, <2>3, CircleGoesOn
  <2>5. PICK t \in Circle(p) : WaitsFor(s, t) /\ t \in Callers
    BY <2>1, <2>4, CircleGoesOn
  <2>6. ASSUME NEW x \in Circle(p), call[x].op \in OwnerCalls \union
                 {"decide", "enqueue", "mark", "delete_account"}
        PROVE  WillFirst(call[x])
    BY <2>6 DEF Inverted, WillFirst
  <2>7. /\ WillFirst(call[q]) /\ taken[q] >= 1
        /\ WillFirst(call[r]) /\ taken[r] >= 1
        /\ WillFirst(call[s])
    BY <2>1, <2>2, <2>3, <2>4, <2>5, <2>6, CircleMember
  <2>8. call[q].op = "enqueue" /\ call[r].op = "enqueue"
    BY <2>2, <2>3, <2>4, <2>7, OwnersDoNotCircle DEF WillFirst
  <2> QED BY <2>2, <2>3, <2>7, <2>8, DeliveriesDoNotWait
<1> QED BY <1>1, LockInvariant, PTL

\* However many goroutines queue and mark notifications, of live or of deleted
\* wills and in whatever order, they never deadlock with each other.
THEOREM DeliveriesRunFreely == LockSpec => []DeliveriesDoNotDeadlock
<1>1. LockInv => DeliveriesDoNotDeadlock
  <2> SUFFICES ASSUME LockInv, NEW p \in Deadlocked,
                      \A q \in Circle(p) : call[q].op \in {"enqueue", "mark", "create_will"}
               PROVE  FALSE
    BY DEF DeliveriesDoNotDeadlock
  <2>1. p \in Callers /\ p \in Circle(p)
    BY DeadlockedIsInCircle
  <2>2. PICK q \in Circle(p) : WaitsFor(p, q) /\ q \in Callers
    BY <2>1, CircleGoesOn
  <2>3. PICK r \in Circle(p) : WaitsFor(q, r) /\ r \in Callers
    BY <2>1, <2>2, CircleGoesOn
  <2>4. PICK s \in Circle(p) : WaitsFor(r, s) /\ s \in Callers
    BY <2>1, <2>3, CircleGoesOn
  <2>5. /\ call[q].op \in {"enqueue", "mark"} /\ taken[q] >= 1
        /\ call[r].op \in {"enqueue", "mark"}
    BY <2>1, <2>2, <2>3, <2>4, CircleMember DEF OwnerCalls
  <2> QED BY <2>2, <2>3, <2>5, DeliveriesDoNotWait
<1> QED BY <1>1, LockInvariant, PTL

-----------------------------------------------------------------------------
\* What can stop every call

\* When no call may proceed, those that have a connection and locks to take are
\* none: they would wait for each other in a circle, which Postgres breaks.
\* The rest wait for a connection, and only histories hold one meanwhile.
THEOREM OnlyHistoriesStick == LockSpec => []StuckOnlyOnHistories
<1>1. LockInv => StuckOnlyOnHistories
  <2> SUFFICES ASSUME LockInv, Running # {}, \A p \in Running : ~MayProceed(p)
               PROVE  Exhausted
    BY DEF StuckOnlyOnHistories
  <2>. DEFINE W == {p \in Running : Connected(p) /\ ~Finished(p)}
  <2>1. ASSUME NEW p \in Running, Connected(p), Finished(p)
        PROVE  call[p].op = "history" /\ conns[p] = 1 /\ FreeConns = 0
    <3>1. conns[p] # Needed(call[p]) /\ ~(conns[p] < Needed(call[p]) /\ FreeConns > 0)
      BY <2>1 DEF MayProceed
    <3>2. conns[p] \in 0 .. Needed(call[p]) /\ Needed(call[p]) \in 0 .. 2
      BY RunningCall
    <3>3. call[p].op = "history" /\ conns[p] = 1
      BY <2>1, <3>1, <3>2 DEF Needed, Connected
    <3>4. FreeConns >= 0 /\ FreeConns \in Int
      BY InUseFinite DEF LockInv, LockTypeOK, FreeConns
    <3> QED BY <3>1, <3>2, <3>3, <3>4
  <2>2. ASSUME NEW p \in Running, ~Connected(p) PROVE conns[p] = 0 /\ FreeConns = 0
    <3>1. conns[p] \in 0 .. Needed(call[p]) /\ Needed(call[p]) \in 0 .. 2
      BY RunningCall
    <3>2. conns[p] = 0 /\ call[p].op # "delete_account"
      BY <2>2, <3>1 DEF Connected
    <3>3. Needed(call[p]) > 0
      BY <3>2 DEF Needed
    <3>4. FreeConns >= 0 /\ FreeConns \in Int
      BY InUseFinite DEF LockInv, LockTypeOK, FreeConns
    <3> QED BY <3>2, <3>3, <3>4 DEF MayProceed
  <2>3. W = {}
    <3> SUFFICES ASSUME W # {} PROVE FALSE
      OBVIOUS
    <3>1. ASSUME NEW p \in W PROVE \E q \in W : WaitsFor(p, q)
      <4>1. PICK q \in Callers : WaitsFor(p, q)
        BY <3>1 DEF MayProceed
      <4>2. q \in Running /\ \E i \in 1 .. taken[q] : TRUE
        BY <3>1, <4>1, InTheWay DEF Running
      <4>3. taken[q] > 0 /\ taken[q] <= Len(Locks(call[q])) /\ call[q] \in Asked
        BY <4>2, RunningCall DEF LockInv
      <4>4. Connected(q)
        BY <4>2, <4>3 DEF LockInv, LocksNeedConnection
      <4>5. call[q].op # "history"
        BY <4>2, <4>3, RunningCall, LockLists
      <4> QED BY <2>1, <4>1, <4>2, <4>4, <4>5
    <3>2. W \in SUBSET Callers
      BY DEF Running
    <3>. HIDE DEF W
    <3>3. PICK p \in W : p \in Deadlocked
      BY <3>1, <3>2, EndlessWaitsCircle
    <3>4. p \in Running
      BY DEF W
    <3> QED BY <3>3, <3>4 DEF MayProceed
  <2>4. FreeConns = 0
    BY <2>1, <2>2, <2>3
  <2>5. ASSUME NEW p \in Callers, conns[p] > 0 PROVE call[p].op = "history" /\ conns[p] = 1
    <3>1. p \in Running
      BY <2>5, IdleHolds
    <3> QED BY <2>1, <2>2, <2>3, <2>5, <3>1
  <2> QED BY <2>4, <2>5 DEF Exhausted
<1> QED BY <1>1, LockInvariant, PTL
=============================================================================
