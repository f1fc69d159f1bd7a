-------------------------- MODULE LearnerDays_proofs -------------------------
(***************************************************************************)
(* Proofs about LearnerDays, for every set of items and every bound.       *)
(***************************************************************************)
EXTENDS LearnerDays, BoundedNaturals, SequenceTheorems

-----------------------------------------------------------------------------
(* Orders.                                                                 *)

LEMMA InOrderProperties ==
    ASSUME NEW S \in SUBSET Nat, IsFiniteSet(S)
    PROVE  /\ InOrder(S) \in Seq(S) /\ Len(InOrder(S)) = Cardinality(S)
           /\ IsInjective(InOrder(S))
<1> DEFINE c == Cardinality(S)
           At(k) == CHOOSE i \in S : Cardinality({j \in S : j <= i}) = k
<1>1. c \in Nat
  BY FS_CardinalityType
<1>2. ASSUME NEW k \in 1..c
      PROVE  At(k) \in S /\ Cardinality({j \in S : j <= At(k)}) = k
  <2>1. \E i \in S : Cardinality({j \in S : j <= i}) = k
    BY <1>2, RankExists
  <2>2. QED
    BY <2>1
<1>3. InOrder(S) = [k \in 1..c |-> At(k)]
  BY DEF InOrder
<1> HIDE DEF At, c
<1>4. InOrder(S) \in [1..c -> S]
  BY <1>2, <1>3
<1>5. InOrder(S) \in Seq(S) /\ Len(InOrder(S)) = c
  BY <1>1, <1>4
<1>6. ASSUME NEW a \in 1..c, NEW b \in 1..c, At(a) = At(b) PROVE a = b
  BY <1>2, <1>6
<1>7. IsInjective(InOrder(S))
  BY <1>3, <1>4, <1>6 DEF IsInjective
<1>8. QED
  BY <1>5, <1>7 DEF c

LEMMA DrawnProperties ==
    ASSUME NEW T, NEW q \in Seq(T)
    PROVE  /\ Drawn(q) \in Seq(T \cap HasProblem)
           /\ IsInjective(q) => IsInjective(Drawn(q))
           /\ \A n \in DOMAIN Drawn(q) : Drawn(q)[n] \in Range(q)
<1> DEFINE kept == {n \in DOMAIN q : q[n] \in HasProblem}
           places == InOrder(kept)
<1>1. DOMAIN q = 1..Len(q) /\ Len(q) \in Nat /\ \A n \in DOMAIN q : q[n] \in T
  OBVIOUS
<1>2. kept \in SUBSET Nat /\ IsFiniteSet(kept)
  <2>1. kept \in SUBSET (1..Len(q))
    BY <1>1
  <2>2. IsFiniteSet(1..Len(q))
    BY <1>1, FS_Interval
  <2>3. QED
    BY <2>1, <2>2, FS_Subset
<1>3. Drawn(q) = [k \in DOMAIN places |-> q[places[k]]]
  BY DEF Drawn
<1>4. \A n \in kept : n \in DOMAIN q /\ q[n] \in T \cap HasProblem
  BY <1>1
<1> HIDE DEF kept
<1>5. places \in Seq(kept) /\ IsInjective(places)
  BY <1>2, InOrderProperties
<1> HIDE DEF places
<1>6. /\ DOMAIN places = 1..Len(places) /\ Len(places) \in Nat
      /\ \A k \in DOMAIN places : places[k] \in kept
  BY <1>5
<1>7. Drawn(q) \in [1..Len(places) -> T \cap HasProblem]
  BY <1>3, <1>4, <1>6
<1>8. Drawn(q) \in Seq(T \cap HasProblem)
  BY <1>6, <1>7
<1>9. IsInjective(q) => IsInjective(Drawn(q))
  <2> SUFFICES ASSUME IsInjective(q), NEW a \in DOMAIN places, NEW b \in DOMAIN places,
                      q[places[a]] = q[places[b]]
               PROVE  a = b
    BY <1>3 DEF IsInjective
  <2>1. places[a] = places[b]
    BY <1>4, <1>6 DEF IsInjective
  <2>2. QED
    BY <1>5, <2>1 DEF IsInjective
<1>10. \A n \in DOMAIN Drawn(q) : Drawn(q)[n] \in Range(q)
  BY <1>3, <1>4, <1>6 DEF Range
<1>11. QED
  BY <1>8, <1>9, <1>10

LEMMA SeqWider ==
    ASSUME NEW S, NEW T, S \subseteq T, NEW s \in Seq(S)
    PROVE  s \in Seq(T)
OBVIOUS

LEMMA ConcatInjective ==
    ASSUME NEW S, NEW T, NEW s \in Seq(S), NEW t \in Seq(T),
           IsInjective(s), IsInjective(t), S \cap T = {}
    PROVE  s \o t \in Seq(S \cup T) /\ IsInjective(s \o t)
<1>1. s \in Seq(S \cup T) /\ t \in Seq(S \cup T)
  OBVIOUS
<1>2. /\ s \o t \in Seq(S \cup T) /\ Len(s \o t) = Len(s) + Len(t)
      /\ \A i \in 1..(Len(s) + Len(t)) : (s \o t)[i] =
            IF i <= Len(s) THEN s[i] ELSE t[i - Len(s)]
  BY <1>1, ConcatProperties
<1>3. /\ Len(s) \in Nat /\ Len(t) \in Nat
      /\ DOMAIN (s \o t) = 1..(Len(s) + Len(t))
      /\ DOMAIN s = 1..Len(s) /\ DOMAIN t = 1..Len(t)
      /\ \A i \in 1..Len(s) : s[i] \in S
      /\ \A i \in 1..Len(t) : t[i] \in T
  BY <1>1, <1>2, LenProperties
<1>4. ASSUME NEW a \in 1..(Len(s) + Len(t)), NEW b \in 1..(Len(s) + Len(t)),
             (s \o t)[a] = (s \o t)[b]
      PROVE  a = b
  <2>1. CASE a <= Len(s) /\ b <= Len(s)
    <3>1. a \in 1..Len(s) /\ b \in 1..Len(s) /\ s[a] = s[b]
      BY <1>2, <1>3, <1>4, <2>1
    <3>2. QED
      BY <1>3, <3>1 DEF IsInjective
  <2>2. CASE ~(a <= Len(s)) /\ ~(b <= Len(s))
    <3>1. /\ a - Len(s) \in 1..Len(t) /\ b - Len(s) \in 1..Len(t)
          /\ t[a - Len(s)] = t[b - Len(s)]
      BY <1>2, <1>3, <1>4, <2>2
    <3>2. a - Len(s) = b - Len(s)
      BY <1>3, <3>1 DEF IsInjective
    <3>3. QED
      BY <1>3, <3>2
  <2>3. CASE a <= Len(s) /\ ~(b <= Len(s))
    <3>1. a \in 1..Len(s) /\ b - Len(s) \in 1..Len(t) /\ s[a] = t[b - Len(s)]
      BY <1>2, <1>3, <1>4, <2>3
    <3>2. QED
      BY <1>3, <3>1
  <2>4. CASE ~(a <= Len(s)) /\ b <= Len(s)
    <3>1. b \in 1..Len(s) /\ a - Len(s) \in 1..Len(t) /\ s[b] = t[a - Len(s)]
      BY <1>2, <1>3, <1>4, <2>4
    <3>2. QED
      BY <1>3, <3>1
  <2>5. QED
    BY <2>1, <2>2, <2>3, <2>4
<1>5. QED
  BY <1>2, <1>3, <1>4 DEF IsInjective

LEMMA QueueProperties ==
    ASSUME NEW q \in Queues, IsFiniteSet(Due)
    PROVE  /\ q \in Seq(Due) /\ IsInjective(q)
           /\ Len(q) = IF Cap <= Cardinality(Due) THEN Cap ELSE Cardinality(Due)
<1>1. PICK p \in SetToSeqs(Due) : q = SubSeq(p, 1, Min({Cap, Len(p)}))
  BY DEF Queues
<1> DEFINE c == Cardinality(Due)
           n == IF Cap <= c THEN Cap ELSE c
<1>2. c \in Nat /\ Cap \in Nat
  BY FS_CardinalityType, SizesAssumption
<1>3. p \in [1..c -> Due] /\ \A i, j \in 1..c : i # j => p[i] # p[j]
  BY <1>1 DEF SetToSeqs
<1> HIDE DEF c
<1>4. p \in Seq(Due) /\ Len(p) = c
  BY <1>2, <1>3
<1>5. n \in 0..c /\ Min({Cap, Len(p)}) = n
  BY <1>2, <1>4, MinOfTwo
<1> HIDE DEF n
<1>6. \A i \in 1..n : p[i] \in Due
  BY <1>2, <1>3, <1>5
<1>7. /\ q \in Seq(Due) /\ Len(q) = n /\ \A i \in 1..n : q[i] = p[i]
  <2>1. q = SubSeq(p, 1, n)
    BY <1>1, <1>5
  <2>2. /\ SubSeq(p, 1, n) \in Seq(Due)
        /\ Len(SubSeq(p, 1, n)) = IF 1 <= n THEN n - 1 + 1 ELSE 0
        /\ \A i \in 1..(n - 1 + 1) : SubSeq(p, 1, n)[i] = p[1 + i - 1]
    BY <1>2, <1>5, <1>6, SubSeqProperties
  <2>3. n - 1 + 1 = n /\ \A i \in 1..n : 1 + i - 1 = i
    BY <1>2, <1>5
  <2>4. QED
    BY <1>2, <1>5, <2>1, <2>2, <2>3
<1>8. IsInjective(q)
  <2>1. DOMAIN q = 1..n
    BY <1>7
  <2>2. \A i \in 1..n : i \in 1..c
    BY <1>2, <1>5
  <2>3. QED
    BY <1>3, <1>7, <2>1, <2>2 DEF IsInjective
<1>9. QED
  BY <1>7, <1>8 DEF n, c

Existing == {i \in Items : Exists(i)}
Fresh == {i \in pool : ~Exists(i)}

LEMMA NewItemsProperties ==
    ASSUME NEW n \in Int, pool \subseteq Items
    PROVE  /\ NewItems(n) \in Seq(Fresh) /\ IsInjective(NewItems(n))
           /\ n <= 0 => NewItems(n) = <<>>
<1> DEFINE S == {i \in Fresh : Cardinality({j \in Fresh : j < i}) < n}
<1>1. NewItems(n) = InOrder(S)
  BY DEF NewItems, Fresh
<1>2. S \in SUBSET Nat /\ S \subseteq Fresh /\ IsFiniteSet(S) /\ IsFiniteSet(Fresh)
  <2>1. S \in SUBSET Items /\ Fresh \in SUBSET Items
    BY DEF Fresh
  <2>2. QED
    BY <2>1, ItemsAssumption, FS_Subset
<1>3. ASSUME n <= 0 PROVE S = {}
  <2>1. \A i \in Fresh : Cardinality({j \in Fresh : j < i}) \in Nat
    <3>1. \A i \in Fresh : {j \in Fresh : j < i} \in SUBSET Fresh
      OBVIOUS
    <3>2. QED
      BY <1>2, <3>1, FS_Subset, FS_CardinalityType
  <2>2. \A i \in Fresh : ~(Cardinality({j \in Fresh : j < i}) < n)
    BY <1>3, <2>1
  <2>3. QED
    BY <2>2
<1> HIDE DEF S
<1>4. InOrder(S) \in Seq(S) /\ IsInjective(InOrder(S)) /\ Len(InOrder(S)) = Cardinality(S)
  BY <1>2, InOrderProperties
<1>5. InOrder(S) \in Seq(Fresh)
  BY <1>2, <1>4, SeqWider
<1>6. n <= 0 => InOrder(S) = <<>>
  BY <1>3, <1>4, FS_EmptySet
<1>7. QED
  BY <1>1, <1>4, <1>5, <1>6

-----------------------------------------------------------------------------
(* Types.  What the server plans, the client holds and answers are on their *)
(* way for has a problem and a review row.                                 *)

Rows == {NoRow} \cup {r \in [state: States, reps: Nat, lapses: Nat, due: Nat] :
                         r.lapses <= r.reps /\ (r.state = "NEW" <=> r.reps = 0)}
Studiable == {i \in HasProblem \cap pool : i \in Items /\ Exists(i)}
Sessions(T) == [day: 0..MaxDay, planned: Seq(T), completed: Seq(T)]
Caches(T) == [planned: Seq(T), done: Nat \cup {-1}]
Attempts(T) == [n: Nat, item: T, right: BOOLEAN, seconds: Seconds]
Motivation == [streak: Nat, last: 0..MaxDay, week: Int, seconds: Nat]

ServerType ==
    /\ row \in [Items -> Rows] /\ Existing \subseteq pool /\ pool \subseteq Items
    /\ log \in Nat
    /\ days \in [Days -> Nat] /\ mot \in Motivation
    /\ sess \in Sessions(Studiable) /\ IsInjective(sess.planned)

ClientType ==
    /\ \A c \in {cache, fetched, more} :
          c \in Caches(Studiable) /\ (c # NoCache => c.done \in Nat)
    /\ index \in Nat \cup {Closed} /\ sent \in Nat /\ smooth \in BOOLEAN
    /\ IsFiniteSet(flight) /\ Cardinality(flight) <= sent
    /\ \A a \in flight : a \in Attempts(Studiable) /\ a.n < sent

TypeInv == today \in Days /\ ServerType /\ ClientType

LEMMA NewRowType ==
    ASSUME today \in Days
    PROVE  /\ NewRow = [state |-> "NEW", reps |-> 0, lapses |-> 0, due |-> today]
           /\ NewRow \in Rows /\ NewRow # NoRow
<1>1. NewRow = [state |-> "NEW", reps |-> 0, lapses |-> 0, due |-> today]
  BY DEF NewRow
<1>2. today \in Nat
  BY SizesAssumption DEF Days
<1>3. NewRow.state # NoRow.state
  BY <1>1 DEF NoRow
<1>4. NewRow \in Rows
  BY <1>1, <1>2 DEF Rows, States
<1>5. QED
  BY <1>1, <1>3, <1>4

LEMMA TypeInvImplies == TypeInv => TypeOK /\ PlannedOnce
<1> SUFFICES ASSUME TypeInv PROVE TypeOK /\ PlannedOnce
  OBVIOUS
<1>1. Studiable \subseteq HasProblem \cap pool
  BY DEF Studiable
<1>2. ASSUME NEW i \in Items
      PROVE  row[i] = NoRow \/ /\ row[i].state \in States
                               /\ row[i].lapses \in 0..row[i].reps
                               /\ (row[i].state = "NEW" <=> row[i].reps = 0)
  BY <1>2 DEF TypeInv, ServerType, Rows
<1>3. /\ sess.planned \in Seq(HasProblem \cap pool)
      /\ sess.completed \in Seq(HasProblem \cap pool)
  <2>1. sess.planned \in Seq(Studiable) /\ sess.completed \in Seq(Studiable)
    BY DEF TypeInv, ServerType, Sessions
  <2>2. QED
    BY <1>1, <2>1
<1>4. QED
  BY <1>2, <1>3 DEF TypeInv, ServerType, ClientType, TypeOK, PlannedOnce

LEMMA InitTypeInv == Init => TypeInv
<1> SUFFICES ASSUME Init PROVE TypeInv
  OBVIOUS
<1>1. today \in Days
  BY SizesAssumption DEF Init, Days
<1>2. NoRow \in Rows /\ NoSession \in Sessions(Studiable) /\ NoMotivation \in Motivation
  BY SizesAssumption DEF Rows, NoSession, Sessions, NoMotivation, Motivation
<1>3. Existing = {}
  BY DEF Init, Existing, Exists
<1>4. IsInjective(NoSession.planned)
  BY DEF NoSession, IsInjective
<1>5. ServerType
  BY <1>2, <1>3, <1>4, ItemsAssumption DEF Init, ServerType, Days
<1>6. ClientType
  BY FS_EmptySet DEF Init, ClientType, Caches, NoCache, Closed
<1>7. QED
  BY <1>1, <1>5, <1>6 DEF TypeInv

(* Rows are only added, for items that had none.                           *)
LEMMA RowsAdded ==
    ASSUME TypeInv, pool \subseteq pool', pool' \subseteq Items,
           NEW new, new \in Seq({i \in pool' : ~Exists(i)}), row' = WithRows(new)
    PROVE  /\ row' \in [Items -> Rows]
           /\ \A i \in Items : row'[i] = row[i] \/ (~Exists(i) /\ row'[i] = NewRow)
           /\ Existing \subseteq Existing' /\ Existing' \subseteq pool'
           /\ Range(new) \cap Existing = {} /\ Range(new) \subseteq Existing'
           /\ Studiable \subseteq Studiable'
           /\ HasProblem \cap Range(new) \subseteq Studiable'
<1>1. Range(new) \subseteq {i \in pool' : ~Exists(i)}
  BY RangeOfSeq
<1>2. row \in [Items -> Rows] /\ Existing \subseteq pool /\ NewRow \in Rows /\ NewRow # NoRow
  BY NewRowType DEF TypeInv, ServerType
<1>3. \A i \in Items : row'[i] = IF i \in Range(new) THEN NewRow ELSE row[i]
  BY <1>1 DEF WithRows
<1>4. row' \in [Items -> Rows]
  BY <1>2 DEF WithRows
<1>5. \A i \in Items : row'[i] = row[i] \/ (~Exists(i) /\ row'[i] = NewRow)
  BY <1>1, <1>3
<1>6. /\ Existing' = Existing \cup Range(new) /\ Range(new) \cap Existing = {}
      /\ Range(new) \subseteq pool'
  BY <1>1, <1>2, <1>3 DEF Existing, Exists
<1>7. Studiable = HasProblem \cap Existing /\ Studiable' = HasProblem \cap Existing'
  BY <1>2, <1>6 DEF Studiable, Existing
<1>8. QED
  BY <1>2, <1>4, <1>5, <1>6, <1>7

LEMMA DueFinite == ASSUME TypeInv PROVE IsFiniteSet(Due) /\ Due \subseteq Existing
<1>1. Due \in SUBSET Items
  BY DEF Due
<1>2. QED
  BY <1>1, ItemsAssumption, FS_Subset DEF Due, Existing

(* build_today_session plans rows that were due and rows that it adds.     *)
LEMMA BuildStep ==
    ASSUME TypeInv, Build, pool' = pool
    PROVE  /\ row' \in [Items -> Rows] /\ Existing' \subseteq pool
           /\ \A i \in Items : row'[i] = row[i] \/ (~Exists(i) /\ row'[i] = NewRow)
           /\ Studiable \subseteq Studiable'
           /\ sess' \in Sessions(Studiable') /\ IsInjective(sess'.planned)
           /\ sess'.day = today
           /\ sess' = sess \/ (sess.day # today /\ sess'.completed = <<>>)
<1>1. CASE sess.day = today
  <2>1. row' = row /\ sess' = sess
    BY <1>1 DEF Build
  <2>2. Existing' = Existing /\ Studiable' = Studiable
    BY <2>1 DEF Existing, Studiable, Exists
  <2>3. QED
    BY <1>1, <2>1, <2>2 DEF TypeInv, ServerType
<1>2. CASE sess.day # today
  <2>1. PICK queue \in Queues :
           LET new == NewItems(Slots(queue))
           IN  /\ row' = WithRows(new)
               /\ sess' = [day |-> today, planned |-> Drawn(queue \o new),
                           completed |-> <<>>]
    BY <1>2 DEF Build
  <2> DEFINE new == NewItems(Slots(queue))
  <2>2. queue \in Seq(Due) /\ IsInjective(queue) /\ Due \subseteq Existing
    BY DueFinite, QueueProperties
  <2>3. pool \subseteq Items /\ today \in 0..MaxDay
    BY SizesAssumption DEF TypeInv, ServerType, Days
  <2>4. Slots(queue) \in Int
    <3>1. Len(queue) \in Nat /\ NewSlots \in Nat
      BY <2>2, SizesAssumption
    <3>2. QED
      BY <3>1, MaxOfTwo DEF Slots
  <2>5. new \in Seq(Fresh) /\ IsInjective(new)
    BY <2>3, <2>4, NewItemsProperties
  <2>6. row' = WithRows(new)
    BY <2>1
  <2>7. sess' = [day |-> today, planned |-> Drawn(queue \o new), completed |-> <<>>]
    BY <2>1
  <2> HIDE DEF new
  <2>8. new \in Seq({i \in pool' : ~Exists(i)})
    BY <2>5 DEF Fresh
  <2>9. /\ row' \in [Items -> Rows]
        /\ \A i \in Items : row'[i] = row[i] \/ (~Exists(i) /\ row'[i] = NewRow)
        /\ Existing \subseteq Existing' /\ Existing' \subseteq pool'
        /\ Range(new) \cap Existing = {} /\ Range(new) \subseteq Existing'
        /\ Studiable \subseteq Studiable'
        /\ HasProblem \cap Range(new) \subseteq Studiable'
    BY <2>3, <2>6, <2>8, RowsAdded
  <2>10. new \in Seq(Range(new))
    BY <2>5, SeqOfRange
  <2>11. queue \o new \in Seq(Due \cup Range(new)) /\ IsInjective(queue \o new)
    BY <2>2, <2>5, <2>9, <2>10, ConcatInjective
  <2>12. /\ Drawn(queue \o new) \in Seq((Due \cup Range(new)) \cap HasProblem)
         /\ IsInjective(Drawn(queue \o new))
    BY <2>11, DrawnProperties
  <2>13. (Due \cup Range(new)) \cap HasProblem \subseteq Studiable'
    BY <2>2, <2>9 DEF Existing, Studiable, TypeInv, ServerType
  <2>14. Drawn(queue \o new) \in Seq(Studiable')
    BY <2>12, <2>13, SeqWider
  <2>15. sess' \in Sessions(Studiable')
    BY <2>3, <2>7, <2>14 DEF Sessions
  <2>16. QED
    BY <1>2, <2>7, <2>9, <2>12, <2>15
<1>3. QED
  BY <1>1, <1>2

(* extend_today_session adds to the plan items that had no row.            *)
LEMMA AttachStep ==
    ASSUME TypeInv, pool \subseteq pool', pool' \subseteq Items,
           NEW new, new \in Seq({i \in pool' : ~Exists(i)}), IsInjective(new), Attach(new)
    PROVE  /\ row' \in [Items -> Rows] /\ Existing' \subseteq pool'
           /\ \A i \in Items : row'[i] = row[i] \/ (~Exists(i) /\ row'[i] = NewRow)
           /\ Studiable \subseteq Studiable'
           /\ sess' \in Sessions(Studiable') /\ IsInjective(sess'.planned)
           /\ sess'.day = sess.day /\ sess'.completed = sess.completed
           /\ sess'.planned = sess.planned \o Drawn(new) /\ Drawn(new) \in Seq(Studiable')
<1>1. row' = WithRows(new) /\ sess' = [sess EXCEPT !.planned = @ \o Drawn(new)]
  BY DEF Attach
<1>2. /\ row' \in [Items -> Rows]
      /\ \A i \in Items : row'[i] = row[i] \/ (~Exists(i) /\ row'[i] = NewRow)
      /\ Existing \subseteq Existing' /\ Existing' \subseteq pool'
      /\ Range(new) \cap Existing = {} /\ Range(new) \subseteq Existing'
      /\ Studiable \subseteq Studiable'
      /\ HasProblem \cap Range(new) \subseteq Studiable'
  BY <1>1, RowsAdded
<1>3. new \in Seq(Range(new))
  BY SeqOfRange
<1>4. /\ Drawn(new) \in Seq(Range(new) \cap HasProblem) /\ IsInjective(Drawn(new))
      /\ Drawn(new) \in Seq(Studiable')
  <2>1. Drawn(new) \in Seq(Range(new) \cap HasProblem) /\ IsInjective(Drawn(new))
    BY <1>3, DrawnProperties
  <2>2. Range(new) \cap HasProblem \subseteq Studiable'
    BY <1>2
  <2>3. Drawn(new) \in Seq(Studiable')
    BY <2>1, <2>2, SeqWider
  <2>4. QED
    BY <2>1, <2>3
<1>5. sess \in Sessions(Studiable) /\ IsInjective(sess.planned)
  BY DEF TypeInv, ServerType
<1>6. /\ sess.planned \in Seq(Studiable) /\ sess.completed \in Seq(Studiable')
      /\ sess.planned \in Seq(Studiable') /\ sess.day \in 0..MaxDay
  BY <1>2, <1>5, SeqWider DEF Sessions
<1>7. Studiable \cap (Range(new) \cap HasProblem) = {}
  BY <1>2 DEF Studiable, Existing
<1>8. IsInjective(sess.planned \o Drawn(new))
  BY <1>4, <1>5, <1>6, <1>7, ConcatInjective
<1>9. sess.planned \o Drawn(new) \in Seq(Studiable')
  BY <1>4, <1>6, ConcatProperties
<1>10. /\ sess'.planned = sess.planned \o Drawn(new) /\ sess'.day = sess.day
       /\ sess'.completed = sess.completed
       /\ sess' = [day |-> sess.day, planned |-> sess.planned \o Drawn(new),
                   completed |-> sess.completed]
  BY <1>1, <1>5 DEF Sessions
<1>11. sess' \in Sessions(Studiable')
  BY <1>6, <1>9, <1>10 DEF Sessions
<1>12. QED
  BY <1>2, <1>4, <1>8, <1>10, <1>11

LEMMA CardStates ==
    ASSUME NEW r \in Rows, r # NoRow, NEW rating
    PROVE  NextState(Card(r), rating) \in {"LEARNING", "REVIEW", "RELEARNING"}
<1>1. Card(r).state \in {"LEARNING", "REVIEW", "RELEARNING"}
  BY DEF Rows, Card, States
<1>2. QED
  BY <1>1 DEF NextState

LEMMA ScheduleStep ==
    ASSUME TypeInv, NEW i \in Studiable, NEW rating, Schedule(i, rating), pool' = pool
    PROVE  /\ row' \in [Items -> Rows]
           /\ \A j \in Items : j # i => row'[j] = row[j]
           /\ row'[i].state = NextState(Card(row[i]), rating)
           /\ Existing' = Existing /\ Studiable' = Studiable
<1>1. row \in [Items -> Rows] /\ i \in Items /\ row[i] # NoRow /\ row[i] \in Rows
  BY DEF TypeInv, ServerType, Studiable, Exists
<1> DEFINE state == NextState(Card(row[i]), rating)
           lapses == IF rating = "Again" THEN row[i].lapses + 1 ELSE row[i].lapses
<1>2. PICK due \in DueDays(state) :
         row' = [row EXCEPT ![i] = [state |-> state, reps |-> @.reps + 1,
                   lapses |-> IF rating = "Again" THEN @.lapses + 1 ELSE @.lapses,
                   due |-> due]]
  BY DEF Schedule
<1>3. state \in {"LEARNING", "REVIEW", "RELEARNING"}
  BY <1>1, CardStates
<1>4. due \in Nat
  <2>1. today \in Nat /\ Intervals \subseteq Nat
    BY SizesAssumption DEF TypeInv, Days
  <2>2. QED
    BY <1>2, <2>1 DEF DueDays
<1> DEFINE r == [state |-> state, reps |-> row[i].reps + 1, lapses |-> lapses, due |-> due]
<1>5. /\ row[i].reps \in Nat /\ row[i].lapses \in Nat /\ row[i].lapses <= row[i].reps
  BY <1>1 DEF Rows, NoRow
<1>6. row' = [row EXCEPT ![i] = r]
  BY <1>2
<1> HIDE DEF state
<1>7. r \in Rows /\ r # NoRow /\ r.state = state
  <2>1. lapses \in Nat /\ lapses <= row[i].reps + 1
    BY <1>5
  <2> HIDE DEF lapses
  <2>2. /\ r.state = state /\ r.lapses = lapses /\ r.reps = row[i].reps + 1
        /\ r \in [state: States, reps: Nat, lapses: Nat, due: Nat]
    BY <1>3, <1>4, <1>5, <2>1 DEF States
  <2> HIDE DEF r
  <2>3. r.reps # 0 /\ r.state # "NEW" /\ r.lapses <= r.reps
    BY <1>3, <1>5, <2>1, <2>2
  <2>4. r.state # NoRow.state
    BY <1>3, <2>2 DEF NoRow
  <2>5. QED
    BY <2>2, <2>3, <2>4 DEF Rows
<1> HIDE DEF r
<1>8. row' \in [Items -> Rows] /\ row'[i] = r /\ \A j \in Items : j # i => row'[j] = row[j]
  BY <1>1, <1>6, <1>7
<1>9. \A j \in Items : row'[j] # NoRow <=> row[j] # NoRow
  BY <1>1, <1>7, <1>8
<1>10. Existing' = Existing /\ Studiable' = Studiable
  BY <1>9 DEF Existing, Studiable, Exists
<1>11. QED
  BY <1>7, <1>8, <1>10 DEF state

LEMMA MotivateStep ==
    ASSUME TypeInv, NEW n \in Nat, Motivate(n)
    PROVE  mot' \in Motivation /\ mot'.last = today /\ mot'.streak = Streak(today)
<1>1. today \in 1..MaxDay /\ MaxDay \in Nat /\ mot \in Motivation
  BY SizesAssumption DEF TypeInv, ServerType, Days
<1>2. WeekStart(today) \in Int
  BY <1>1, SizesAssumption DEF WeekStart
<1>3. Streak(today) \in Nat
  BY <1>1 DEF Streak, Motivation
<1>4. /\ Week(today, n).week = WeekStart(today)
      /\ Week(today, n).seconds \in Nat
  BY <1>1 DEF Week, Motivation
<1>5. mot' = [streak |-> Streak(today), last |-> today,
              week |-> Week(today, n).week, seconds |-> Week(today, n).seconds]
  BY DEF Motivate
<1>6. QED
  BY <1>1, <1>2, <1>3, <1>4, <1>5 DEF Motivation

(* record_attempt, for an answer that is on its way.                       *)
LEMMA RecordStep ==
    ASSUME TypeInv, NEW a \in flight, RecordAttempt(a)
    PROVE  /\ row' \in [Items -> Rows]
           /\ Existing' = Existing /\ Studiable' = Studiable
           /\ log' \in Nat
           /\ days' \in [Days -> Nat] /\ mot' \in Motivation
           /\ sess' \in Sessions(Studiable) /\ sess'.planned = sess.planned
           /\ sess'.day = sess.day
           /\ sess'.completed = IF sess.day = today THEN Append(sess.completed, a.item)
                                ELSE sess.completed
<1>1. a.item \in Studiable /\ a.seconds \in Nat
  BY SizesAssumption DEF TypeInv, ClientType, Attempts
<1>2. PICK rating \in Ratings(a.right) :
        /\ Schedule(a.item, rating)
        /\ log' = log + 1
        /\ days' = [days EXCEPT ![today] = @ + a.seconds]
        /\ Motivate(a.seconds) /\ sess' = Completed(a) /\ pool' = pool
  BY DEF RecordAttempt
<1>3. row' \in [Items -> Rows] /\ Existing' = Existing /\ Studiable' = Studiable
  BY <1>1, <1>2, ScheduleStep
<1>4. log' \in Nat
  BY <1>2 DEF TypeInv, ServerType
<1>5. days' \in [Days -> Nat]
  BY <1>1, <1>2 DEF TypeInv, ServerType
<1>6. mot' \in Motivation
  BY <1>1, <1>2, MotivateStep
<1>7. sess \in Sessions(Studiable)
  BY DEF TypeInv, ServerType
<1>8. /\ sess' \in Sessions(Studiable) /\ sess'.planned = sess.planned
      /\ sess'.day = sess.day
      /\ sess'.completed = IF sess.day = today THEN Append(sess.completed, a.item)
                           ELSE sess.completed
  <2>1. CASE sess.day = today
    <3> DEFINE done == Append(sess.completed, a.item)
    <3>1. done \in Seq(Studiable)
      BY <1>1, <1>7 DEF Sessions
    <3>2. sess' = [sess EXCEPT !.completed = done]
      BY <1>2, <2>1 DEF Completed
    <3> HIDE DEF done
    <3>3. /\ sess' \in Sessions(Studiable) /\ sess'.planned = sess.planned
          /\ sess'.day = sess.day /\ sess'.completed = done
      BY <1>7, <3>1, <3>2 DEF Sessions
    <3>4. QED
      BY <2>1, <3>3 DEF done
  <2>2. CASE sess.day # today
    BY <1>2, <1>7, <2>2 DEF Completed
  <2>3. QED
    BY <2>1, <2>2
<1>9. QED
  BY <1>3, <1>4, <1>5, <1>6, <1>8

LEMMA ClientWider ==
    ASSUME TypeInv, Studiable \subseteq Studiable'
    PROVE  /\ \A c \in {cache, fetched, more} : c \in Caches(Studiable')
           /\ \A a \in flight : a \in Attempts(Studiable')
<1>1. ASSUME NEW c \in Caches(Studiable) PROVE c \in Caches(Studiable')
  <2>1. c.planned \in Seq(Studiable')
    BY SeqWider DEF Caches
  <2>2. QED
    BY <2>1 DEF Caches
<1>2. \A c \in {cache, fetched, more} : c \in Caches(Studiable)
  BY DEF TypeInv, ClientType
<1>3. \A a \in flight : a \in Attempts(Studiable)
  BY DEF TypeInv, ClientType
<1>4. \A a \in flight : a \in Attempts(Studiable')
  BY <1>3 DEF Attempts
<1>5. QED
  BY <1>1, <1>2, <1>4

LEMMA ResponseType ==
    ASSUME NEW T, sess' \in Sessions(T)
    PROVE  /\ Response \in Caches(T) /\ Response # NoCache
           /\ Response.planned = sess'.planned
           /\ Response.done = Len(sess'.completed) /\ Response.done \in Nat
<1> DEFINE n == Len(sess'.completed)
           q == sess'.planned
<1>1. n \in Nat /\ q \in Seq(T)
  BY DEF Sessions
<1>2. Response = [planned |-> q, done |-> n]
  BY DEF Response
<1> HIDE DEF n, q
<1>3. /\ Response \in Caches(T) /\ Response.done = n /\ Response.done \in Nat
      /\ Response.planned = q
  BY <1>1, <1>2 DEF Caches
<1>4. NoCache.done = -1
  BY DEF NoCache
<1>5. QED
  BY <1>3, <1>4 DEF n, q

(* The steps that leave the server alone.                                  *)
LEMMA ClientStep ==
    ASSUME TypeInv, UNCHANGED server, today' \in Days, ClientType'
    PROVE  TypeInv'
<1>1. Existing' = Existing /\ Studiable' = Studiable
  BY DEF server, Existing, Studiable, Exists
<1>2. ServerType'
  BY <1>1 DEF TypeInv, ServerType, server
<1>3. QED
  BY <1>2 DEF TypeInv

(* The steps of the screen that send nothing.                              *)
Screens == Refreshed \/ FetchFails \/ Open \/ Leave \/ Forget \/ Extended \/ ExtendFails

LEMMA ScreenMoves ==
    ASSUME TypeInv, Screens
    PROVE  /\ UNCHANGED <<today, server, flight, sent>> /\ smooth' \in BOOLEAN
           /\ {cache', fetched', more'} \subseteq {cache, fetched, more, NoCache}
           /\ \/ index' \in {index, Closed}
              \/ Open /\ index' = cache.done /\ cache # NoCache
BY DEF Screens, Refreshed, FetchFails, Open, Leave, Forget, Extended, ExtendFails, coming,
       TypeInv, ClientType

LEMMA ScreenSteps == TypeInv /\ Screens => TypeInv'
<1> SUFFICES ASSUME TypeInv, Screens PROVE TypeInv'
  OBVIOUS
<1>1. /\ UNCHANGED <<today, server, flight, sent>> /\ smooth' \in BOOLEAN
      /\ {cache', fetched', more'} \subseteq {cache, fetched, more, NoCache}
      /\ index' \in {index, Closed} \/ (index' = cache.done /\ cache # NoCache)
  BY ScreenMoves
<1>2. Studiable' = Studiable
  BY <1>1 DEF server, Studiable, Exists
<1>3. NoCache \in Caches(Studiable)
  BY DEF NoCache, Caches
<1>4. \A c \in {cache', fetched', more'} :
         c \in Caches(Studiable) /\ (c # NoCache => c.done \in Nat)
  BY <1>1, <1>3 DEF TypeInv, ClientType
<1>5. index' \in Nat \cup {Closed}
  BY <1>1 DEF TypeInv, ClientType
<1>6. ClientType'
  BY <1>1, <1>2, <1>4, <1>5 DEF TypeInv, ClientType
<1>7. QED
  BY <1>1, <1>6, ClientStep DEF TypeInv

LEMMA FetchSteps == TypeInv /\ Fetch => TypeInv'
<1> SUFFICES ASSUME TypeInv, Fetch PROVE TypeInv'
  OBVIOUS
<1>1. /\ Build /\ fetched' = Response
      /\ UNCHANGED <<today, log, days, mot, pool, cache, more, index, flight, sent>>
  BY DEF Fetch
<1>2. smooth' \in BOOLEAN
  BY DEF Fetch, TypeInv, ClientType
<1>3. /\ row' \in [Items -> Rows] /\ Existing' \subseteq pool
      /\ Studiable \subseteq Studiable'
      /\ sess' \in Sessions(Studiable') /\ IsInjective(sess'.planned)
  BY <1>1, BuildStep
<1>4. ServerType'
  BY <1>1, <1>3 DEF TypeInv, ServerType
<1>5. fetched' \in Caches(Studiable') /\ fetched'.done \in Nat
  BY <1>1, <1>3, ResponseType
<1>6. cache \in Caches(Studiable') /\ more \in Caches(Studiable')
  BY <1>3, ClientWider
<1>7. \A a \in flight : a \in Attempts(Studiable')
  BY <1>3, ClientWider
<1>8. ClientType'
  BY <1>1, <1>2, <1>5, <1>6, <1>7 DEF TypeInv, ClientType
<1>9. QED
  BY <1>1, <1>4, <1>8 DEF TypeInv

LEMMA FlightSteps == TypeInv /\ (Answer \/ Deliver \/ Lose) => TypeInv'
<1>1. ASSUME TypeInv, NEW a \in flight, flight' = flight \ {a}
      PROVE  /\ IsFiniteSet(flight') /\ Cardinality(flight') <= sent
  <2>1. IsFiniteSet(flight) /\ Cardinality(flight) <= sent /\ sent \in Nat
    BY <1>1 DEF TypeInv, ClientType
  <2>2. IsFiniteSet(flight') /\ Cardinality(flight') = Cardinality(flight) - 1
    BY <1>1, <2>1, FS_RemoveElement
  <2>3. Cardinality(flight) \in Nat
    BY <2>1, FS_CardinalityType
  <2>4. QED
    BY <2>1, <2>2, <2>3
<1>2. ASSUME TypeInv, Answer PROVE TypeInv'
  <2>1. PICK right \in BOOLEAN, n \in Seconds :
          flight' = flight \cup
             {[n |-> sent, item |-> cache.planned[index + 1], right |-> right, seconds |-> n]}
    BY <1>2 DEF Answer
  <2> DEFINE a == [n |-> sent, item |-> cache.planned[index + 1], right |-> right, seconds |-> n]
  <2>2. index \in Nat /\ index + 1 \in 1..Len(cache.planned) /\ cache.planned \in Seq(Studiable)
    BY <1>2 DEF Answer, TypeInv, ClientType, Caches
  <2>3. cache.planned[index + 1] \in Studiable
    BY <2>2
  <2>4. a \in Attempts(Studiable) /\ a.n = sent /\ sent \in Nat
    BY <1>2, <2>3 DEF TypeInv, ClientType, Attempts
  <2>5. flight' = flight \cup {a}
    BY <2>1
  <2> HIDE DEF a
  <2>6. a \notin flight /\ IsFiniteSet(flight)
    BY <1>2, <2>4 DEF TypeInv, ClientType
  <2>7. IsFiniteSet(flight') /\ Cardinality(flight') <= sent + 1
    <3>1. IsFiniteSet(flight') /\ Cardinality(flight') = Cardinality(flight) + 1
      BY <2>5, <2>6, FS_AddElement
    <3>2. Cardinality(flight) \in Nat /\ Cardinality(flight) <= sent
      BY <1>2, <2>6, FS_CardinalityType DEF TypeInv, ClientType
    <3>3. QED
      BY <2>4, <3>1, <3>2
  <2>8. /\ UNCHANGED <<today, server, cache, fetched, more, smooth>>
        /\ index' = index + 1 /\ sent' = sent + 1
    BY <1>2 DEF Answer, coming
  <2>9. Studiable' = Studiable
    BY <2>8 DEF server, Studiable, Exists
  <2>10. \A b \in flight' : b \in Attempts(Studiable) /\ b.n < sent + 1
    <3>1. \A b \in flight : b \in Attempts(Studiable) /\ b.n < sent /\ b.n \in Nat
      BY <1>2 DEF TypeInv, ClientType, Attempts
    <3>2. QED
      BY <2>4, <2>5, <3>1
  <2>11. ClientType'
    BY <1>2, <2>2, <2>4, <2>7, <2>8, <2>9, <2>10 DEF TypeInv, ClientType
  <2>12. QED
    BY <1>2, <2>8, <2>11, ClientStep DEF TypeInv
<1>3. ASSUME TypeInv, Deliver PROVE TypeInv'
  <2>1. PICK a \in flight : RecordAttempt(a) /\ flight' = flight \ {a}
    BY <1>3 DEF Deliver
  <2>2. UNCHANGED <<today, cache, fetched, more, index, sent, smooth, pool>>
    BY <1>3, <2>1 DEF Deliver, RecordAttempt, coming
  <2>3. /\ row' \in [Items -> Rows]
        /\ Existing' = Existing /\ Studiable' = Studiable
        /\ log' \in Nat
        /\ days' \in [Days -> Nat] /\ mot' \in Motivation
        /\ sess' \in Sessions(Studiable) /\ sess'.planned = sess.planned
    BY <1>3, <2>1, RecordStep
  <2>4. ServerType'
    BY <1>3, <2>2, <2>3 DEF TypeInv, ServerType
  <2>5. ClientType'
    <3>1. IsFiniteSet(flight') /\ Cardinality(flight') <= sent
      BY <1>1, <1>3, <2>1
    <3>2. \A b \in flight' : b \in flight
      BY <2>1
    <3>3. QED
      BY <1>3, <2>2, <2>3, <3>1, <3>2 DEF TypeInv, ClientType
  <2>6. QED
    BY <1>3, <2>2, <2>4, <2>5 DEF TypeInv
<1>4. ASSUME TypeInv, Lose PROVE TypeInv'
  <2>1. PICK a \in flight : flight' = flight \ {a}
    BY <1>4 DEF Lose
  <2>2. UNCHANGED <<today, server, cache, fetched, more, index, sent>> /\ smooth' = FALSE
    BY <1>4 DEF Lose, coming
  <2>3. Studiable' = Studiable
    BY <2>2 DEF server, Studiable, Exists
  <2>4. IsFiniteSet(flight') /\ Cardinality(flight') <= sent /\ \A b \in flight' : b \in flight
    BY <1>1, <1>4, <2>1
  <2>5. ClientType'
    BY <1>4, <2>2, <2>3, <2>4 DEF TypeInv, ClientType
  <2>6. QED
    BY <1>4, <2>2, <2>5, ClientStep DEF TypeInv
<1>5. QED
  BY <1>2, <1>3, <1>4

LEMMA ExtendSteps == TypeInv /\ (Extend \/ ExtendGenerated) => TypeInv'
<1>1. ASSUME TypeInv, pool \subseteq pool', pool' \subseteq Items,
             NEW new, new \in Seq({i \in pool' : ~Exists(i)}), IsInjective(new), Attach(new),
             more' = Response,
             UNCHANGED <<today, log, days, mot, cache, fetched, index, flight, sent, smooth>>
      PROVE  TypeInv'
  <2>1. /\ row' \in [Items -> Rows] /\ Existing' \subseteq pool'
        /\ Studiable \subseteq Studiable'
        /\ sess' \in Sessions(Studiable') /\ IsInjective(sess'.planned)
    BY <1>1, AttachStep
  <2>2. ServerType'
    BY <1>1, <2>1 DEF TypeInv, ServerType
  <2>3. more' \in Caches(Studiable') /\ more'.done \in Nat
    BY <1>1, <2>1, ResponseType
  <2>4. cache \in Caches(Studiable') /\ fetched \in Caches(Studiable')
    BY <1>1, <2>1, ClientWider
  <2>5. \A a \in flight : a \in Attempts(Studiable')
    BY <1>1, <2>1, ClientWider
  <2>6. ClientType'
    BY <1>1, <2>3, <2>4, <2>5 DEF TypeInv, ClientType
  <2>7. QED
    BY <1>1, <2>2, <2>6 DEF TypeInv
<1>2. ASSUME TypeInv, Extend PROVE TypeInv'
  <2>1. pool' = pool /\ pool \subseteq Items
    BY <1>2 DEF Extend, TypeInv, ServerType
  <2>2. NewItems(Extra) \in Seq(Fresh) /\ IsInjective(NewItems(Extra))
    BY <2>1, NewItemsProperties, SizesAssumption
  <2>3. NewItems(Extra) \in Seq({i \in pool' : ~Exists(i)})
    BY <2>1, <2>2 DEF Fresh
  <2>4. /\ Attach(NewItems(Extra)) /\ more' = Response
        /\ UNCHANGED <<today, log, days, mot, cache, fetched, index, flight, sent, smooth>>
    BY <1>2 DEF Extend
  <2>5. QED
    BY <1>1, <1>2, <2>1, <2>2, <2>3, <2>4
<1>3. ASSUME TypeInv, ExtendGenerated PROVE TypeInv'
  <2>1. PICK S \in SUBSET ((Items \ pool) \cap HasProblem) :
           pool' = pool \cup S /\ Attach(InOrder(S))
    BY <1>3 DEF ExtendGenerated
  <2>2. pool \subseteq Items /\ Existing \subseteq pool
    BY <1>3 DEF TypeInv, ServerType
  <2>3. S \in SUBSET Nat /\ IsFiniteSet(S)
    BY ItemsAssumption, FS_Subset
  <2>4. InOrder(S) \in Seq(S) /\ IsInjective(InOrder(S))
    BY <2>3, InOrderProperties
  <2>5. S \subseteq {i \in pool' : ~Exists(i)}
    BY <2>1, <2>2 DEF Existing
  <2>6. InOrder(S) \in Seq({i \in pool' : ~Exists(i)})
    BY <2>4, <2>5, SeqWider
  <2>7. pool \subseteq pool' /\ pool' \subseteq Items
    BY <2>1, <2>2
  <2>8. /\ more' = Response
        /\ UNCHANGED <<today, log, days, mot, cache, fetched, index, flight, sent, smooth>>
    BY <1>3 DEF ExtendGenerated
  <2>9. QED
    BY <1>1, <1>3, <2>1, <2>4, <2>6, <2>7, <2>8
<1>4. QED
  BY <1>2, <1>3

LEMMA OtherSteps == TypeInv /\ (Pregenerate \/ Midnight) => TypeInv'
<1>1. ASSUME TypeInv, Pregenerate PROVE TypeInv'
  <2>1. PICK i \in Items \ pool : pool' = pool \cup {i}
    BY <1>1 DEF Pregenerate
  <2>2. UNCHANGED <<today, row, log, days, mot, sess, client>>
    BY <1>1 DEF Pregenerate
  <2>3. Existing' = Existing /\ Studiable' = Studiable
    BY <1>1, <2>1, <2>2 DEF Existing, Studiable, Exists, TypeInv, ServerType
  <2>4. ServerType'
    BY <1>1, <2>1, <2>2, <2>3 DEF TypeInv, ServerType
  <2>5. ClientType'
    BY <1>1, <2>2, <2>3 DEF TypeInv, ClientType, client, coming
  <2>6. QED
    BY <1>1, <2>2, <2>4, <2>5 DEF TypeInv
<1>2. ASSUME TypeInv, Midnight PROVE TypeInv'
  <2>1. UNCHANGED <<server, cache, fetched, more, index, flight, sent>> /\ smooth' \in BOOLEAN
    BY <1>2 DEF Midnight, coming
  <2>2. today' \in Days
    BY <1>2, SizesAssumption DEF Midnight, TypeInv, Days
  <2>3. Studiable' = Studiable
    BY <2>1 DEF server, Studiable, Exists
  <2>4. ClientType'
    BY <1>2, <2>1, <2>3 DEF TypeInv, ClientType
  <2>5. QED
    BY <1>2, <2>1, <2>2, <2>4, ClientStep
<1>3. QED
  BY <1>1, <1>2

LEMMA StepTypeInv == TypeInv /\ [Next]_vars => TypeInv'
<1>1. ASSUME TypeInv, UNCHANGED vars PROVE TypeInv'
  <2>1. UNCHANGED <<today, server, client>>
    BY <1>1 DEF vars
  <2>2. Studiable' = Studiable
    BY <2>1 DEF server, Studiable, Exists
  <2>3. ClientType'
    BY <1>1, <2>1, <2>2 DEF TypeInv, ClientType, client, coming
  <2>4. QED
    BY <1>1, <2>1, <2>3, ClientStep DEF TypeInv
<1>2. QED
  BY <1>1, FetchSteps, ScreenSteps, FlightSteps, ExtendSteps, OtherSteps DEF Next, Screens

(* Types, and no item twice in a session: the review queue, the new items   *)
(* and the extensions exclude each other because only the latter lack a row *)
(* and each step gives them one (build_today_session, extend_today_session).*)
THEOREM TypeCorrect == Spec => [](TypeInv /\ TypeOK)
<1>1. TypeInv => TypeOK
  BY TypeInvImplies
<1>2. QED
  BY <1>1, InitTypeInv, StepTypeInv, PTL DEF Spec

(* No problem is planned twice in a session (build_today_session,           *)
(* extend_today_session).                                                  *)
THEOREM NothingPlannedTwice == Spec => []PlannedOnce
<1>1. TypeInv => PlannedOnce
  BY TypeInvImplies
<1>2. QED
  BY <1>1, TypeCorrect, PTL

-----------------------------------------------------------------------------
(* What a step does to the rows.                                           *)

LEMMA RowSteps ==
    ASSUME TypeInv, [Next]_vars
    PROVE  \/ \A i \in Items : row'[i] = row[i] \/ (~Exists(i) /\ row'[i] = NewRow)
           \/ \E a \in flight : RecordAttempt(a) /\ today' = today
<1>1. CASE row' = row
  BY <1>1
<1>2. CASE Fetch
  <2>1. Build /\ pool' = pool
    BY <1>2 DEF Fetch
  <2>2. QED
    BY <2>1, BuildStep
<1>3. CASE Extend
  <2>1. pool' = pool /\ pool \subseteq Items
    BY <1>3 DEF Extend, TypeInv, ServerType
  <2>2. NewItems(Extra) \in Seq(Fresh) /\ IsInjective(NewItems(Extra))
    BY <2>1, NewItemsProperties, SizesAssumption
  <2>3. NewItems(Extra) \in Seq({i \in pool' : ~Exists(i)}) /\ Attach(NewItems(Extra))
    BY <1>3, <2>1, <2>2 DEF Fresh, Extend
  <2>4. QED
    BY <2>1, <2>2, <2>3, AttachStep
<1>4. CASE ExtendGenerated
  <2>1. PICK S \in SUBSET ((Items \ pool) \cap HasProblem) :
           pool' = pool \cup S /\ Attach(InOrder(S))
    BY <1>4 DEF ExtendGenerated
  <2>2. pool \subseteq Items /\ Existing \subseteq pool
    BY DEF TypeInv, ServerType
  <2>3. S \in SUBSET Nat /\ IsFiniteSet(S)
    BY ItemsAssumption, FS_Subset
  <2>4. InOrder(S) \in Seq(S) /\ IsInjective(InOrder(S))
    BY <2>3, InOrderProperties
  <2>5. S \subseteq {i \in pool' : ~Exists(i)}
    BY <2>1, <2>2 DEF Existing
  <2>6. InOrder(S) \in Seq({i \in pool' : ~Exists(i)})
    BY <2>4, <2>5, SeqWider
  <2>7. pool \subseteq pool' /\ pool' \subseteq Items
    BY <2>1, <2>2
  <2>8. QED
    BY <2>1, <2>4, <2>6, <2>7, AttachStep
<1>5. CASE Deliver
  BY <1>5 DEF Deliver
<1>6. CASE Screens \/ Answer \/ Lose \/ Pregenerate \/ Midnight \/ UNCHANGED vars
  <2>1. row' = row
    BY <1>6, ScreenMoves DEF Answer, Lose, Pregenerate, Midnight, vars, server
  <2>2. QED
    BY <1>1, <2>1
<1>7. QED
  BY <1>2, <1>3, <1>4, <1>5, <1>6 DEF Next, Screens

(* An item without a problem is never answered: its row stays due.         *)
StuckInv == \A i \in Items \ HasProblem : Exists(i) => row[i].due <= today

LEMMA StepStuckInv == TypeInv /\ StuckInv /\ [Next]_vars => StuckInv'
<1> SUFFICES ASSUME TypeInv, StuckInv, [Next]_vars, NEW i \in Items \ HasProblem,
                    row'[i] # NoRow
             PROVE  row'[i].due <= today'
  BY DEF StuckInv, Exists
<1>1. row \in [Items -> Rows] /\ today \in Nat
  BY SizesAssumption DEF TypeInv, ServerType, Days
<1>2. today' \in {today, today + 1}
  BY ScreenMoves DEF Next, Screens, Fetch, Answer, Deliver, Lose, Extend,
         ExtendGenerated, Pregenerate, Midnight, vars
<1>3. ASSUME row'[i] = row[i] PROVE row'[i].due <= today'
  <2>1. row[i].due <= today /\ row[i].due \in Nat
    BY <1>1, <1>3 DEF StuckInv, Exists, Rows
  <2>2. QED
    BY <1>1, <1>2, <1>3, <2>1
<1>4. CASE \A j \in Items : row'[j] = row[j] \/ (~Exists(j) /\ row'[j] = NewRow)
  <2>1. NewRow.due = today
    BY NewRowType DEF TypeInv
  <2>2. row'[i] = row[i] \/ row'[i] = NewRow
    BY <1>4
  <2>3. QED
    BY <1>1, <1>2, <1>3, <2>1, <2>2
<1>5. ASSUME NEW a \in flight, RecordAttempt(a) PROVE row'[i].due <= today'
  <2>1. a.item \in Studiable /\ a.item # i
    BY <1>5 DEF TypeInv, ClientType, Attempts, Studiable
  <2>2. PICK rating \in Ratings(a.right) : Schedule(a.item, rating) /\ pool' = pool
    BY <1>5 DEF RecordAttempt
  <2>3. row'[i] = row[i]
    BY <2>1, <2>2, ScheduleStep
  <2>4. QED
    BY <1>3, <2>3
<1>6. QED
  BY <1>4, <1>5, RowSteps

(* Items without a problem stay due for good: as many of them as slots, and *)
(* a new session brings no new item (build_today_session).                 *)
THEOREM StuckItemsBlock == Spec => StuckTakeSlots
<1>1. ASSUME TypeInv, StuckInv, [Next]_vars,
             Cardinality(Stuck) >= NewSlots, sess'.day # sess.day,
             NEW i \in Items, row'[i] # NoRow
      PROVE  Exists(i)
  <2>1. Build /\ sess.day # today
    <3>1. CASE Fetch
      <4>1. Build /\ sess' # sess
        BY <1>1, <3>1 DEF Fetch
      <4>2. QED
        BY <4>1 DEF Build
    <3>2. CASE Extend \/ ExtendGenerated
      <4>1. PICK new : sess' = [sess EXCEPT !.planned = @ \o Drawn(new)]
        BY <3>2 DEF Extend, ExtendGenerated, Attach
      <4>2. QED
        BY <1>1, <4>1 DEF TypeInv, ServerType, Sessions
    <3>3. CASE Deliver
      BY <1>1, <3>3, RecordStep DEF Deliver
    <3>4. CASE Screens \/ Answer \/ Lose \/ Pregenerate \/ Midnight \/ UNCHANGED vars
      BY <1>1, <3>4, ScreenMoves DEF Answer, Lose, Pregenerate, Midnight, vars, server
    <3>5. QED
      BY <1>1, <3>1, <3>2, <3>3, <3>4 DEF Next, Screens
  <2>2. PICK queue \in Queues : row' = WithRows(NewItems(Slots(queue)))
    BY <2>1 DEF Build
  <2>3. Cardinality(Due) >= NewSlots /\ Cardinality(Due) \in Nat /\ IsFiniteSet(Due)
    <3>1. IsFiniteSet(Due)
      BY <1>1, DueFinite
    <3>2. Stuck \subseteq Due
      BY <1>1 DEF Stuck, Due, StuckInv
    <3>3. Cardinality(Stuck) <= Cardinality(Due)
      BY <3>1, <3>2, FS_Subset
    <3>4. Cardinality(Due) \in Nat /\ Cardinality(Stuck) \in Nat
      BY <3>1, <3>2, FS_Subset, FS_CardinalityType
    <3>5. QED
      BY <1>1, <3>1, <3>3, <3>4, SizesAssumption
  <2>4. Len(queue) \in Nat /\ Len(queue) >= NewSlots
    BY <2>3, QueueProperties, SizesAssumption
  <2>5. Slots(queue) = 0
    <3>1. NewSlots - Len(queue) \in Int /\ NewSlots - Len(queue) <= 0
      BY <2>4, SizesAssumption
    <3>2. QED
      BY <3>1, MaxOfTwo DEF Slots
  <2>6. NewItems(0) = <<>>
    BY <1>1, NewItemsProperties DEF TypeInv, ServerType
  <2>7. row'[i] = row[i]
    <3>1. Range(<<>>) = {}
      BY DEF Range
    <3>2. QED
      BY <2>2, <2>5, <2>6, <3>1 DEF WithRows
  <2>8. QED
    BY <1>1, <2>7 DEF Exists
<1>2. TypeInv /\ StuckInv /\ [Next]_vars
        => [Cardinality(Stuck) >= NewSlots /\ sess'.day # sess.day
              => \A i \in Items : row'[i] # NoRow => Exists(i)]_vars
  BY <1>1
<1>3. Init => StuckInv
  BY DEF Init, StuckInv, Exists
<1>4. QED
  BY <1>2, <1>3, TypeCorrect, StepStuckInv, PTL DEF Spec, StuckTakeSlots

-----------------------------------------------------------------------------
(* The streak.                                                             *)

LastDay ==
    /\ mot.last <= today /\ mot.last >= 0
    /\ \A d \in Days : d > mot.last => days[d] = 0
    /\ mot.last # 0 => days[mot.last] > 0
Run == \A d \in 1..mot.last :
          (\A e \in d..mot.last : days[e] > 0) <=> mot.last - d < mot.streak
StreakInv == LastDay /\ Run

LEMMA StreakInvImplies == TypeInv /\ StreakInv => StreakIsRun
<1> SUFFICES ASSUME TypeInv, StreakInv PROVE StreakIsRun
  OBVIOUS
<1>1. mot.last \in 0..MaxDay /\ days \in [Days -> Nat] /\ MaxDay \in Nat
  BY SizesAssumption DEF TypeInv, ServerType, Motivation
<1> DEFINE A == {0} \cup {d \in Days : days[d] > 0}
<1>2. mot.last \in A /\ \A d \in A : d <= mot.last
  <2>1. mot.last \in A
    BY <1>1 DEF StreakInv, LastDay, Days
  <2>2. ASSUME NEW d \in A PROVE d <= mot.last
    <3>1. CASE d = 0
      BY <1>1, <3>1
    <3>2. CASE d \in Days /\ days[d] > 0
      BY <1>1, <3>2 DEF StreakInv, LastDay, Days
    <3>3. QED
      BY <3>1, <3>2
  <2>3. QED
    BY <2>1, <2>2
<1>3. A \in SUBSET (0..MaxDay)
  BY <1>1 DEF Days
<1> HIDE DEF A
<1>4. Max(A) \in A /\ \A d \in A : Max(A) >= d
  BY <1>1, <1>2, <1>3, MaxOfNaturals
<1>5. mot.last = Max(A)
  <2> DEFINE m == Max(A)
  <2>1. m \in 0..MaxDay /\ m <= mot.last /\ m >= mot.last
    BY <1>2, <1>3, <1>4
  <2> HIDE DEF m
  <2>2. m = mot.last
    BY <1>1, <2>1
  <2>3. QED
    BY <2>2 DEF m
<1>6. QED
  BY <1>5 DEF StreakIsRun, StreakInv, Run, A

LEMMA StepStreakInv == TypeInv /\ StreakInv /\ [Next]_vars => StreakInv'
<1> SUFFICES ASSUME TypeInv, StreakInv, [Next]_vars PROVE StreakInv'
  OBVIOUS
<1>1. /\ today \in 1..MaxDay /\ MaxDay \in Nat /\ Days = 1..MaxDay
      /\ mot.last \in Nat /\ mot.streak \in Nat /\ days \in [Days -> Nat]
  BY SizesAssumption DEF TypeInv, ServerType, Motivation, Days
<1>2. ASSUME mot' = mot, days' = days, today' \in {today, today + 1} PROVE StreakInv'
  <2>1. LastDay'
    BY <1>1, <1>2 DEF StreakInv, LastDay
  <2>2. Run'
    BY <1>2 DEF StreakInv, Run
  <2>3. QED
    BY <2>1, <2>2 DEF StreakInv
<1>3. ASSUME NEW a \in flight, RecordAttempt(a), today' = today PROVE StreakInv'
  <2>1. a.seconds \in Nat \ {0}
    BY <1>3, SizesAssumption DEF TypeInv, ClientType, Attempts
  <2>2. days' = [days EXCEPT ![today] = @ + a.seconds] /\ Motivate(a.seconds)
    BY <1>3 DEF RecordAttempt
  <2>3. /\ days'[today] > 0 /\ \A d \in Days : d # today => days'[d] = days[d]
    BY <1>1, <2>1, <2>2
  <2>4. mot'.last = today /\ mot'.streak = Streak(today)
    BY <2>1, <2>2, MotivateStep
  <2>5. \A d \in Days : d > today => days[d] = 0
    BY <1>1 DEF StreakInv, LastDay
  <2>6. LastDay'
    BY <1>1, <1>3, <2>3, <2>4, <2>5 DEF LastDay
  <2>7. ASSUME NEW d \in 1..today
        PROVE  (\A e \in d..today : days'[e] > 0) <=> today - d < Streak(today)
    <3>1. \A e \in d..today : e \in Days
      BY <1>1
    <3>2. CASE mot.last = today
      <4>1. \A e \in d..today : days'[e] > 0 <=> days[e] > 0
        BY <1>1, <2>3, <3>1, <3>2 DEF StreakInv, LastDay
      <4>2. (\A e \in d..today : days[e] > 0) <=> today - d < mot.streak
        BY <3>2 DEF StreakInv, Run
      <4>3. Streak(today) = mot.streak
        <5>1. today # today - 1
          BY <1>1
        <5>2. QED
          BY <3>2, <5>1 DEF Streak
      <4>4. QED
        BY <4>1, <4>2, <4>3
    <3>3. CASE mot.last # 0 /\ mot.last = today - 1
      <4>1. Streak(today) = mot.streak + 1
        BY <1>1, <3>3 DEF Streak
      <4>2. CASE d = today
        <5>1. \A e \in d..today : days'[e] > 0
          BY <1>1, <2>3, <4>2
        <5>2. today - d < Streak(today)
          BY <1>1, <4>1, <4>2
        <5>3. QED
          BY <5>1, <5>2
      <4>3. CASE d # today
        <5>1. d \in 1..mot.last
          BY <1>1, <3>3, <4>3
        <5>2. (\A e \in d..mot.last : days[e] > 0) <=> mot.last - d < mot.streak
          BY <5>1 DEF StreakInv, Run
        <5>3. (\A e \in d..today : days'[e] > 0) <=> (\A e \in d..mot.last : days[e] > 0)
          <6>1. \A e \in d..today : e = today \/ (e \in d..mot.last)
            BY <1>1, <3>3
          <6>2. \A e \in d..mot.last : e \in d..today /\ days'[e] = days[e]
            BY <1>1, <2>3, <3>3
          <6>3. QED
            BY <2>3, <6>1, <6>2
        <5>4. mot.last - d < mot.streak <=> today - d < Streak(today)
          BY <1>1, <3>3, <4>1
        <5>5. QED
          BY <5>2, <5>3, <5>4
      <4>4. QED
        BY <4>2, <4>3
    <3>4. CASE ~(mot.last = today) /\ ~(mot.last # 0 /\ mot.last = today - 1)
      <4>1. Streak(today) = 1
        BY <3>4 DEF Streak
      <4>2. CASE d = today
        <5>1. \A e \in d..today : days'[e] > 0
          BY <1>1, <2>3, <4>2
        <5>2. QED
          BY <1>1, <4>1, <4>2, <5>1
      <4>3. CASE d # today
        <5>1. today - 1 \in d..today /\ today - 1 \in Days /\ today - 1 > mot.last
          BY <1>1, <3>4, <4>3 DEF StreakInv, LastDay
        <5>2. ~(days'[today - 1] > 0)
          BY <1>1, <2>3, <5>1 DEF StreakInv, LastDay
        <5>3. ~(today - d < 1)
          BY <1>1, <4>3
        <5>4. QED
          BY <4>1, <5>1, <5>2, <5>3
      <4>4. QED
        BY <4>2, <4>3
    <3>5. QED
      BY <3>2, <3>3, <3>4
  <2>8. Run'
    BY <2>4, <2>7 DEF Run
  <2>9. QED
    BY <2>6, <2>8 DEF StreakInv
<1>4. CASE Deliver
  <2>1. PICK a \in flight : RecordAttempt(a) /\ today' = today
    BY <1>4 DEF Deliver
  <2>2. QED
    BY <1>3, <2>1
<1>5. CASE ~Deliver
  <2>1. mot' = mot /\ days' = days /\ today' \in {today, today + 1}
    BY <1>5, ScreenMoves DEF Next, Screens, Fetch, Answer, Lose, Extend,
       ExtendGenerated, Pregenerate, Midnight, vars, server
  <2>2. QED
    BY <1>2, <2>1
<1>6. QED
  BY <1>4, <1>5

(* The streak is the run of days with an answer that ends on the last such  *)
(* day: two answers on one day count once, a gap starts it anew            *)
(* (_update_streak).                                                       *)
THEOREM StreakCounts == Spec => []StreakIsRun
<1>1. Init => StreakInv
  BY SizesAssumption DEF Init, StreakInv, LastDay, Run, NoMotivation, Days
<1>2. QED
  BY <1>1, TypeCorrect, StepStreakInv, StreakInvImplies, PTL DEF Spec

-----------------------------------------------------------------------------
(* The week.                                                               *)

LEMMA Quotients ==
    ASSUME NEW w \in Nat \ {0}, NEW q \in Int, NEW p \in Int,
           NEW r \in 0..(w - 1), NEW s \in 0..(w - 1), w * q + r <= w * p + s
    PROVE  w * q <= w * p
<1>1. CASE q <= p
  <2>1. w * (p - q) >= 0
    BY <1>1
  <2>2. QED
    BY <2>1
<1>2. CASE q >= p + 1
  <2>1. w * (q - p - 1) >= 0
    BY <1>2
  <2>2. QED
    BY <2>1
<1>3. QED
  BY <1>1, <1>2

(* A later day is in the same week or in a later one.                      *)
LEMMA WeeksInOrder ==
    ASSUME NEW d \in Nat, NEW e \in Nat, d <= e
    PROVE  WeekStart(d) \in Int /\ WeekStart(d) <= WeekStart(e)
<1>1. WeekDays \in Nat \ {0}
  BY SizesAssumption
<1> DEFINE Q(x) == (x - 1) \div WeekDays
           R(x) == (x - 1) % WeekDays
<1>2. ASSUME NEW x \in Nat
      PROVE  /\ Q(x) \in Int /\ R(x) \in 0..(WeekDays - 1)
             /\ x - 1 = WeekDays * Q(x) + R(x)
  BY <1>1
<1>3. /\ Q(d) \in Int /\ R(d) \in 0..(WeekDays - 1) /\ d - 1 = WeekDays * Q(d) + R(d)
      /\ Q(e) \in Int /\ R(e) \in 0..(WeekDays - 1) /\ e - 1 = WeekDays * Q(e) + R(e)
  BY <1>2
<1>4. WeekStart(d) = d - R(d) /\ WeekStart(e) = e - R(e)
  BY DEF WeekStart
<1> HIDE DEF Q, R
<1>5. WeekDays * Q(d) <= WeekDays * Q(e)
  <2>1. WeekDays * Q(d) + R(d) <= WeekDays * Q(e) + R(e)
    BY <1>3
  <2>2. QED
    BY <1>1, <1>3, <2>1, Quotients
<1>6. QED
  BY <1>1, <1>3, <1>4, <1>5

WeekOf(d) == {e \in Days : WeekStart(e) = WeekStart(d)}

(* The strengthening: before the first answer nothing is counted, and the   *)
(* day a week is kept for is the last one.                                 *)
WeekInv ==
    /\ mot.last = 0 => mot.week = 0 /\ mot.seconds = 0
    /\ mot.last # 0 => /\ mot.week = WeekStart(mot.last)
                       /\ mot.seconds = Total(days, WeekOf(mot.last))

LEMMA WeekInvImplies == TypeInv /\ StreakInv /\ WeekInv => WeekIsSum
<1> SUFFICES ASSUME TypeInv, StreakInv, WeekInv, mot.week # 0 PROVE WeekIsSum
  BY DEF WeekIsSum
<1>1. QED
  BY DEF WeekInv, WeekIsSum, WeekOf, Total, MapThenSumSet, MapThenFoldSet

LEMMA StepWeekInv ==
    TypeInv /\ StreakInv /\ WeekInv /\ [Next]_vars => WeekInv'
<1> SUFFICES ASSUME TypeInv, StreakInv, WeekInv, [Next]_vars PROVE WeekInv'
  OBVIOUS
<1>1. /\ today \in 1..MaxDay /\ MaxDay \in Nat /\ Days = 1..MaxDay
      /\ mot.last \in 0..today /\ mot.seconds \in Nat /\ days \in [Days -> Nat]
  BY SizesAssumption DEF TypeInv, ServerType, Motivation, Days, StreakInv, LastDay
<1>2. ASSUME mot' = mot, days' = days PROVE WeekInv'
  BY <1>2 DEF WeekInv, WeekOf
<1>3. ASSUME NEW a \in flight, RecordAttempt(a), today' = today PROVE WeekInv'
  <2> DEFINE n == a.seconds
             W == WeekOf(today)
  <2>1. n \in Nat \ {0}
    BY <1>3, SizesAssumption DEF TypeInv, ClientType, Attempts
  <2>2. days' = [days EXCEPT ![today] = @ + n] /\ Motivate(n)
    BY <1>3 DEF RecordAttempt
  <2> HIDE DEF n
  <2>3. W \in SUBSET Days /\ today \in W /\ IsFiniteSet(W)
    <3>1. IsFiniteSet(Days)
      BY <1>1, FS_Interval
    <3>2. W \in SUBSET Days /\ today \in W
      BY <1>1 DEF WeekOf
    <3>3. QED
      BY <3>1, <3>2, FS_Subset
  <2> HIDE DEF W
  <2>4. Total(days', W) = Total(days, W) + n
    <3>1. \A d \in W : days[d] \in Nat
      BY <1>1, <2>3
    <3>2. \A d \in W : days'[d] = IF d = today THEN days[d] + n ELSE days[d]
      BY <1>1, <2>2, <2>3
    <3> DEFINE after == days'
    <3> HIDE DEF after
    <3>3. Total(after, W) = Total(days, W) + n
      BY <2>1, <2>3, <3>1, <3>2, TotalChanges DEF after
    <3>4. QED
      BY <3>3 DEF after
  <2>5. mot'.last = today /\ mot'.week = WeekStart(today)
        /\ mot'.seconds = (IF mot.week = WeekStart(today) THEN mot.seconds ELSE 0) + n
    BY <2>2 DEF Motivate, Week
  <2>6. Total(days, W) = IF mot.week = WeekStart(today) THEN mot.seconds ELSE 0
    <3>1. CASE mot.last # 0 /\ mot.week = WeekStart(today)
      <4>1. W = WeekOf(mot.last)
        BY <3>1 DEF WeekInv, WeekOf, W
      <4>2. QED
        BY <3>1, <4>1 DEF WeekInv
    <3>2. CASE mot.last = 0 \/ mot.week # WeekStart(today)
      <4>1. ASSUME NEW d \in W PROVE days[d] = 0
        <5>1. d \in 1..MaxDay /\ WeekStart(d) = WeekStart(today)
          BY <1>1, <2>3 DEF W, WeekOf
        <5>2. d > mot.last
          <6>1. SUFFICES ASSUME d <= mot.last PROVE FALSE
            BY <1>1, <5>1
          <6>2. mot.last # 0 /\ mot.last \in Nat /\ today \in Nat /\ d \in Nat
            BY <1>1, <5>1, <6>1
          <6>3. WeekStart(d) <= WeekStart(mot.last) /\ WeekStart(mot.last) <= WeekStart(today)
                /\ WeekStart(mot.last) \in Int /\ WeekStart(today) \in Int
            BY <1>1, <6>1, <6>2, WeeksInOrder
          <6>4. WeekStart(mot.last) = WeekStart(today)
            BY <5>1, <6>3
          <6>5. QED
            BY <3>2, <6>2, <6>4 DEF WeekInv
        <5>3. QED
          BY <1>1, <2>3, <5>2 DEF StreakInv, LastDay
      <4>2. Total(days, W) = 0
        BY <2>3, <4>1, TotalOfZeros
      <4>3. mot.last = 0 => mot.seconds = 0
        BY DEF WeekInv
      <4>4. QED
        BY <3>2, <4>2, <4>3
    <3>3. QED
      BY <3>1, <3>2
  <2>7. mot'.seconds = Total(days', W)
    BY <2>4, <2>5, <2>6
  <2>8. mot'.last # 0 /\ WeekOf(mot'.last) = W
    BY <1>1, <2>5 DEF W
  <2>9. QED
    BY <2>5, <2>7, <2>8 DEF WeekInv, WeekOf
<1>4. CASE Deliver
  <2>1. PICK a \in flight : RecordAttempt(a) /\ today' = today
    BY <1>4 DEF Deliver
  <2>2. QED
    BY <1>3, <2>1
<1>5. CASE ~Deliver
  <2>1. mot' = mot /\ days' = days
    BY <1>5, ScreenMoves DEF Next, Screens, Fetch, Answer, Lose, Extend,
       ExtendGenerated, Pregenerate, Midnight, vars, server
  <2>2. QED
    BY <1>2, <2>1
<1>6. QED
  BY <1>4, <1>5

(* The weekly progress is what was answered in the calendar week of the     *)
(* last answer, however many days, gaps and weeks came before it            *)
(* (_update_weekly).                                                       *)
THEOREM WeekCounts == Spec => []WeekIsSum
<1>1. Init => StreakInv /\ WeekInv
  BY SizesAssumption DEF Init, StreakInv, LastDay, Run, WeekInv, NoMotivation, Days
<1>2. QED
  BY <1>1, TypeCorrect, StepStreakInv, StepWeekInv, WeekInvImplies, PTL DEF Spec

-----------------------------------------------------------------------------
(* The screen.  While nothing of the session was lost or late, the answers  *)
(* recorded and under way are the first problems of its plan, and what the  *)
(* client holds or is yet to receive is today's plan or a beginning of it.  *)

Count == Len(sess.completed) + Cardinality(flight)
Seen == Range(sess.completed) \cup {a.item : a \in flight}
Leading(q, k) == {q[n] : n \in 1..k}
Begins(p, q) == Len(p) <= Len(q) /\ \A n \in 1..Len(p) : p[n] = q[n]
InStep ==
    /\ Count <= Len(sess.planned) /\ Leading(sess.planned, Count) = Seen
    /\ index # Closed => index = Count
    /\ \A c \in {cache, fetched, more} :
          c # NoCache => Begins(c.planned, sess.planned) /\ sess.day = today
    /\ flight # {} \/ index # Closed => sess.day = today
ScreenInv == smooth => InStep

LEMMA ScreenInvImplies == TypeInv /\ ScreenInv => ScreenInStep
BY DEF ScreenInv, InStep, ScreenInStep, Count, Seen, Leading

LEMMA Counts ==
    ASSUME TypeInv
    PROVE  /\ Count \in Nat /\ Len(sess.completed) \in Nat /\ Cardinality(flight) \in Nat
           /\ Len(sess.planned) \in Nat /\ sess.planned \in Seq(Studiable)
           /\ sess.completed \in Seq(Studiable)
           /\ flight = {} => Cardinality(flight) = 0
<1>1. sess.planned \in Seq(Studiable) /\ sess.completed \in Seq(Studiable)
  BY DEF TypeInv, ServerType, Sessions
<1>2. Cardinality(flight) \in Nat
  BY FS_CardinalityType DEF TypeInv, ClientType
<1>3. Len(sess.planned) \in Nat /\ Len(sess.completed) \in Nat
  BY <1>1
<1>4. Count \in Nat
  BY <1>2, <1>3 DEF Count
<1>5. flight = {} => Cardinality(flight) = 0
  BY FS_EmptySet
<1>6. QED
  BY <1>1, <1>2, <1>3, <1>4, <1>5

LEMMA ScreenFetches == TypeInv /\ ScreenInv /\ Fetch => ScreenInv'
<1> SUFFICES ASSUME TypeInv, ScreenInv, Fetch, smooth' PROVE InStep'
  BY DEF ScreenInv
<1>1. /\ Build /\ fetched' = Response /\ pool' = pool
      /\ UNCHANGED <<today, cache, more, index, flight>>
  BY DEF Fetch
<1>2. /\ sess' \in Sessions(Studiable') /\ sess'.day = today
      /\ sess' = sess \/ (sess.day # today /\ sess'.completed = <<>>)
  BY <1>1, BuildStep
<1>3. Begins(fetched'.planned, sess'.planned)
  <2>1. fetched'.planned = sess'.planned /\ Len(sess'.planned) \in Nat
    BY <1>1, <1>2, ResponseType DEF Sessions
  <2>2. QED
    BY <2>1 DEF Begins
<1>4. CASE sess' = sess
  <2>1. smooth /\ InStep
    BY <1>4 DEF Fetch, ScreenInv
  <2>2. Count' = Count /\ Seen' = Seen
    BY <1>1, <1>4 DEF Count, Seen
  <2>3. QED
    BY <1>1, <1>2, <1>3, <1>4, <2>1, <2>2 DEF InStep
<1>5. CASE sess' # sess
  <2>1. sess'.day # sess.day /\ sess'.completed = <<>>
    BY <1>2, <1>5
  <2>2. index = Closed /\ flight = {} /\ {cache, fetched, more} = {NoCache}
    BY <2>1 DEF Fetch
  <2>3. Count' = 0 /\ Seen' = {} /\ Len(sess'.planned) \in Nat
    BY <1>1, <1>2, <2>1, <2>2, FS_EmptySet DEF Count, Seen, Range, Sessions
  <2>4. Count' <= Len(sess'.planned) /\ Leading(sess'.planned, Count') = Seen'
    BY <2>3 DEF Leading
  <2>5. cache' = NoCache /\ more' = NoCache
    BY <1>1, <2>2
  <2>6. QED
    BY <1>1, <1>2, <1>3, <2>2, <2>4, <2>5 DEF InStep
<1>6. QED
  BY <1>4, <1>5

LEMMA ScreenShows == TypeInv /\ ScreenInv /\ Screens => ScreenInv'
<1> SUFFICES ASSUME TypeInv, ScreenInv, Screens, smooth' PROVE InStep'
  BY DEF ScreenInv
<1>1. /\ UNCHANGED <<today, server, flight, sent>>
      /\ {cache', fetched', more'} \subseteq {cache, fetched, more, NoCache}
      /\ index' \in {index, Closed} \/ (Open /\ index' = cache.done /\ cache # NoCache)
  BY ScreenMoves
<1>2. smooth /\ InStep
  BY DEF Screens, Refreshed, FetchFails, Open, Leave, Forget, Extended, ExtendFails, ScreenInv
<1>3. Count' = Count /\ Seen' = Seen /\ sess' = sess
  BY <1>1 DEF Count, Seen, server
<1>4. index' # Closed => index' = Count /\ sess.day = today
  <2>1. CASE index' \in {index, Closed}
    BY <1>2, <2>1 DEF InStep
  <2>2. CASE Open /\ index' = cache.done /\ cache # NoCache
    <3>1. flight = {} /\ cache.done = Len(sess.completed)
      BY <2>2 DEF Open
    <3>2. Count = Len(sess.completed)
      BY <3>1, Counts DEF Count
    <3>3. QED
      BY <1>2, <2>2, <3>1, <3>2 DEF InStep
  <2>3. QED
    BY <1>1, <2>1, <2>2
<1>5. \A c \in {cache', fetched', more'} :
         c # NoCache => Begins(c.planned, sess.planned) /\ sess.day = today
  BY <1>1, <1>2 DEF InStep
<1>6. QED
  BY <1>1, <1>2, <1>3, <1>4, <1>5 DEF InStep

LEMMA ScreenAnswers == TypeInv /\ ScreenInv /\ (Answer \/ Deliver) => ScreenInv'
<1> SUFFICES ASSUME TypeInv, ScreenInv, Answer \/ Deliver, smooth'
             PROVE  InStep'
  BY DEF ScreenInv
<1>1. smooth /\ InStep
  BY DEF Answer, Deliver, ScreenInv
<1>2. IsFiniteSet(flight)
  BY DEF TypeInv, ClientType
<1>3. ASSUME Answer PROVE InStep'
  <2>1. PICK right \in BOOLEAN, n \in Seconds :
          flight' = flight \cup
             {[n |-> sent, item |-> cache.planned[index + 1], right |-> right, seconds |-> n]}
    BY <1>3 DEF Answer
  <2> DEFINE a == [n |-> sent, item |-> cache.planned[index + 1], right |-> right, seconds |-> n]
  <2>2. /\ index # Closed /\ index < Len(cache.planned) /\ index' = index + 1
        /\ UNCHANGED <<today, server, cache, fetched, more>>
    BY <1>3 DEF Answer, coming
  <2>p. /\ index \in Nat /\ Len(cache.planned) \in Nat /\ Len(sess.planned) \in Nat
        /\ cache # NoCache
    BY <2>2, Counts DEF TypeInv, ClientType, Caches, NoCache
  <2>3. /\ index = Count /\ sess.day = today
        /\ Count + 1 \in 1..Len(cache.planned)
        /\ Len(cache.planned) <= Len(sess.planned)
        /\ cache.planned[Count + 1] = sess.planned[Count + 1]
    BY <1>1, <2>2, <2>p DEF InStep, Begins
  <2>4. a.n = sent /\ a.item = sess.planned[Count + 1]
    BY <2>3
  <2>5. flight' = flight \cup {a}
    BY <2>1
  <2> HIDE DEF a
  <2>6. a \notin flight
    <3>1. \A b \in flight : b.n < sent /\ b.n \in Nat
      BY DEF TypeInv, ClientType, Attempts
    <3>2. QED
      BY <2>4, <3>1
  <2>7. Cardinality(flight') = Cardinality(flight) + 1
    BY <1>2, <2>5, <2>6, FS_AddElement
  <2>8. sess' = sess
    BY <2>2 DEF server
  <2>9. Count' = Count + 1 /\ Count + 1 <= Len(sess.planned) /\ Count \in Nat
    <3>1. Count \in Nat /\ Len(sess.completed) \in Nat /\ Cardinality(flight) \in Nat
      BY Counts
    <3>2. Count' = Count + 1
      BY <2>7, <2>8, <3>1 DEF Count
    <3>3. Count + 1 <= Len(sess.planned)
      BY <2>p, <2>3, <3>1
    <3>4. QED
      BY <3>1, <3>2, <3>3
  <2>10. Seen' = Seen \cup {sess.planned[Count + 1]}
    BY <2>4, <2>5, <2>8 DEF Seen
  <2>11. Leading(sess.planned, Count + 1) = Leading(sess.planned, Count) \cup {sess.planned[Count + 1]}
    <3>1. 1..(Count + 1) = (1..Count) \cup {Count + 1}
      BY <2>9
    <3>2. QED
      BY <3>1 DEF Leading
  <2>12. /\ Count' <= Len(sess'.planned)
         /\ Leading(sess'.planned, Count') = Seen'
    BY <1>1, <2>8, <2>9, <2>10, <2>11 DEF InStep
  <2>13. QED
    BY <1>1, <2>2, <2>3, <2>8, <2>9, <2>12 DEF InStep
<1>4. ASSUME Deliver PROVE InStep'
  <2>1. PICK a \in flight : RecordAttempt(a) /\ flight' = flight \ {a}
    BY <1>4 DEF Deliver
  <2>2. sess.day = today
    BY <1>1, <2>1 DEF InStep
  <2>3. /\ UNCHANGED <<today, cache, fetched, more, index>>
        /\ sess'.planned = sess.planned /\ sess'.day = sess.day
        /\ sess'.completed = Append(sess.completed, a.item)
    BY <1>4, <2>1, <2>2, RecordStep DEF Deliver, coming
  <2>4. Cardinality(flight') = Cardinality(flight) - 1
    BY <1>2, <2>1, FS_RemoveElement
  <2>5. a.item \in Studiable
    BY DEF TypeInv, ClientType, Attempts
  <2>6. /\ Len(sess'.completed) = Len(sess.completed) + 1
        /\ Range(sess'.completed) = Range(sess.completed) \cup {a.item}
    <3>1. sess.completed \in Seq(Studiable)
      BY Counts
    <3>2. Range(Append(sess.completed, a.item)) = Range(sess.completed) \cup {a.item}
      BY <2>5, <3>1, AppendProperties DEF Range
    <3>3. Len(Append(sess.completed, a.item)) = Len(sess.completed) + 1
      BY <2>5, <3>1, AppendProperties
    <3>4. QED
      BY <2>3, <3>2, <3>3
  <2>7. Count' = Count
    BY <2>4, <2>6, Counts DEF Count
  <2>8. Seen' = Seen
    BY <2>1, <2>6 DEF Seen
  <2>9. QED
    BY <1>1, <2>2, <2>3, <2>7, <2>8 DEF InStep
<1>5. QED
  BY <1>3, <1>4

LEMMA ScreenExtends == TypeInv /\ ScreenInv /\ (Extend \/ ExtendGenerated) => ScreenInv'
<1> SUFFICES ASSUME TypeInv, ScreenInv, Extend \/ ExtendGenerated, smooth'
             PROVE  InStep'
  BY DEF ScreenInv
<1>1. /\ smooth /\ InStep /\ index # Closed /\ sess.day = today /\ more' = Response
      /\ UNCHANGED <<today, cache, fetched, index, flight>>
  BY DEF Extend, ExtendGenerated, AtEnd, ScreenInv
<1>2. \E T : \E new \in Seq(T) : sess' = [sess EXCEPT !.planned = @ \o Drawn(new)]
  <2>1. CASE Extend
    <3>1. NewItems(Extra) \in Seq(Fresh)
      BY NewItemsProperties, SizesAssumption DEF TypeInv, ServerType
    <3>2. QED
      BY <2>1, <3>1 DEF Extend, Attach
  <2>2. CASE ExtendGenerated
    <3>1. PICK S \in SUBSET ((Items \ pool) \cap HasProblem) : Attach(InOrder(S))
      BY <2>2 DEF ExtendGenerated
    <3>2. InOrder(S) \in Seq(S)
      BY ItemsAssumption, FS_Subset, InOrderProperties
    <3>3. QED
      BY <3>1, <3>2 DEF Attach
  <2>3. QED
    BY <2>1, <2>2
<1>3. PICK T : \E new \in Seq(T) : sess' = [sess EXCEPT !.planned = @ \o Drawn(new)]
  BY <1>2
<1>4. PICK new \in Seq(T) : sess' = [sess EXCEPT !.planned = @ \o Drawn(new)]
  BY <1>3
<1> DEFINE extra == Drawn(new)
<1>5. extra \in Seq(T \cap HasProblem)
  BY DrawnProperties
<1>6. sess' = [sess EXCEPT !.planned = @ \o extra]
  BY <1>4
<1> HIDE DEF extra
<1>7. /\ sess'.planned = sess.planned \o extra /\ sess'.day = sess.day
      /\ sess'.completed = sess.completed
  BY <1>6 DEF TypeInv, ServerType, Sessions
<1>8. Count' = Count /\ Seen' = Seen
  BY <1>1, <1>7 DEF Count, Seen
<1>9. /\ Len(sess'.planned) = Len(sess.planned) + Len(extra) /\ Len(extra) \in Nat
      /\ \A n \in 1..Len(sess.planned) : sess'.planned[n] = sess.planned[n]
  <2> DEFINE U == Studiable \cup (T \cap HasProblem)
             p == sess.planned
  <2>1. p \in Seq(U) /\ extra \in Seq(U)
    <3>1. p \in Seq(Studiable)
      BY Counts
    <3>2. QED
      BY <1>5, <3>1, SeqWider
  <2>2. sess'.planned = p \o extra
    BY <1>7
  <2> HIDE DEF p, U
  <2>3. /\ Len(p \o extra) = Len(p) + Len(extra) /\ Len(p) \in Nat /\ Len(extra) \in Nat
        /\ \A n \in 1..(Len(p) + Len(extra)) : (p \o extra)[n] =
              IF n <= Len(p) THEN p[n] ELSE extra[n - Len(p)]
    BY <2>1, ConcatProperties
  <2>4. \A n \in 1..Len(p) : (p \o extra)[n] = p[n]
    BY <2>3
  <2>5. QED
    BY <2>2, <2>3, <2>4 DEF p
<1>10. Count' <= Len(sess'.planned) /\ Leading(sess'.planned, Count') = Seen'
  <2>1. Count <= Len(sess.planned) /\ Count \in Nat /\ Len(sess.planned) \in Nat
    BY <1>1, Counts DEF InStep
  <2>2. \A n \in 1..Count : sess'.planned[n] = sess.planned[n]
    BY <1>9, <2>1
  <2>3. Leading(sess'.planned, Count) = Leading(sess.planned, Count)
    BY <2>2 DEF Leading
  <2>4. QED
    BY <1>1, <1>8, <1>9, <2>1, <2>3 DEF InStep
<1>11. \A c \in {cache', fetched', more'} :
          c # NoCache => Begins(c.planned, sess'.planned) /\ sess'.day = today'
  <2>d. sess'.day = today'
    BY <1>1, <1>7
  <2>1. Begins(more'.planned, sess'.planned)
    <3>1. more'.planned = sess'.planned
      <4>1. Response.planned = sess'.planned
        BY DEF Response
      <4>2. QED
        BY <1>1, <4>1
    <3>2. Len(sess'.planned) \in Nat
      BY <1>9, Counts
    <3>3. QED
      BY <3>1, <3>2 DEF Begins
  <2>2. ASSUME NEW c \in {cache, fetched}, c # NoCache PROVE Begins(c.planned, sess'.planned)
    <3>1. Begins(c.planned, sess.planned) /\ c.planned \in Seq(Studiable)
      BY <1>1, <2>2 DEF InStep, TypeInv, ClientType, Caches
    <3>2. Len(c.planned) \in Nat /\ Len(sess.planned) \in Nat
      BY <3>1, Counts
    <3>3. QED
      BY <1>9, <3>1, <3>2 DEF Begins
  <2>3. QED
    BY <1>1, <2>1, <2>2, <2>d
<1>12. index' # Closed => index' = Count' /\ sess'.day = today'
  BY <1>1, <1>7, <1>8 DEF InStep
<1>13. QED
  BY <1>1, <1>10, <1>11, <1>12 DEF InStep

LEMMA ScreenOthers ==
    TypeInv /\ ScreenInv /\ (Lose \/ Pregenerate \/ Midnight \/ UNCHANGED vars) => ScreenInv'
<1> SUFFICES ASSUME TypeInv, ScreenInv, smooth',
                    Lose \/ Pregenerate \/ Midnight \/ UNCHANGED vars
             PROVE  InStep'
  BY DEF ScreenInv
<1>1. /\ smooth /\ InStep
      /\ UNCHANGED <<sess, flight, index, cache, fetched, more>>
      /\ today' = today \/ (index = Closed /\ flight = {} /\ {cache, fetched, more} = {NoCache})
  BY DEF Lose, Pregenerate, Midnight, vars, server, client, coming, ScreenInv
<1>2. Count' = Count /\ Seen' = Seen
  BY <1>1 DEF Count, Seen
<1>3. \A c \in {cache', fetched', more'} :
         c # NoCache => Begins(c.planned, sess'.planned) /\ sess'.day = today'
  BY <1>1 DEF InStep
<1>4. QED
  BY <1>1, <1>2, <1>3 DEF InStep

LEMMA StepScreenInv == TypeInv /\ ScreenInv /\ [Next]_vars => ScreenInv'
BY ScreenFetches, ScreenShows, ScreenAnswers, ScreenExtends, ScreenOthers DEF Next, Screens

(* A screen that no loss, delay or second tab disturbed passes each problem *)
(* once: what it has passed is what the server has recorded and what is on  *)
(* its way, in whatever order the answers arrive (SessionInner,            *)
(* add_completed).                                                         *)
THEOREM ScreenMatches == Spec => []ScreenInStep
<1>1. Init => ScreenInv
  <2> SUFFICES ASSUME Init PROVE InStep
    BY DEF ScreenInv
  <2>1. sess.planned = <<>> /\ sess.completed = <<>> /\ flight = {} /\ index = Closed
        /\ cache = NoCache /\ fetched = NoCache /\ more = NoCache
    BY DEF Init, NoSession
  <2>2. Count = 0 /\ Seen = {}
    BY <2>1, FS_EmptySet DEF Count, Seen, Range
  <2>3. QED
    BY <2>1, <2>2 DEF InStep, Leading
<1>2. QED
  BY <1>1, TypeCorrect, StepScreenInv, ScreenInvImplies, PTL DEF Spec

=============================================================================
