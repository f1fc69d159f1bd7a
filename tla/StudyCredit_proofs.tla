-------------------------- MODULE StudyCredit_proofs -------------------------
(***************************************************************************)
(* Proofs about what StudyDay counts: reviews, tag counters and XP against *)
(* attempt_log, and planned problems against review rows.                  *)
(***************************************************************************)
EXTENDS StudyDay_proofs, BoundedNaturals

LEMMA StudyInvariant == Spec => []StudyInv
BY InitStudyInv, StepStudyInv, PTL DEF Spec

-----------------------------------------------------------------------------
(* Reviews.  An attempt writes one more than the reviews of the row that it *)
(* read, which were backed by the log when it read them; the log only       *)
(* grows.  An attempt that lost its writes holds no row.                    *)

Allowed ==
    [i \in Items |-> Cardinality(AttemptsOn(i)) + (IF i \in Studied THEN 1 ELSE 0)]

RowRead == Scheduled \cup {"schedule"}
Finding == {"select", "insert"}
Late == {"motivation", "save", "session", "commit"}

ReadBacked ==
    \A r \in Req :
        /\ tx[r].kind = "attempt" /\ tx[r].pc \in Finding => tx[r].todo \subseteq {tx[r].item}
        /\ tx[r].pc \in RowRead => tx[r].row.reps <= Allowed[tx[r].item]
        /\ tx[r].lost => tx[r].held = {} /\ tx[r].pc \in Late \cup Ended

CountInv == IsFiniteSet(log) /\ ReadBacked /\ RepsBackedByLog

LEMMA AllowedType ==
    ASSUME IsFiniteSet(log) PROVE \A i \in Items : Allowed[i] \in Nat
<1>1. ASSUME NEW i \in Items PROVE Cardinality(AttemptsOn(i)) \in Nat
  <2>1. AttemptsOn(i) \in SUBSET log
    BY DEF AttemptsOn
  <2>2. QED
    BY <2>1, FS_Subset, FS_CardinalityType
<1>2. QED
  BY <1>1 DEF Allowed

(* A step of a request that is not in the log yet: the allowance of an item *)
(* grows by one when an attempt on it is logged, and changes in no other way. *)
LEMMA AllowedGrows ==
    ASSUME StudyInv, IsFiniteSet(log), NEW r \in Req, tx[r].pc \notin Ended,
           \A q \in Req \ {r} : tx'[q] = tx[q],
           log' = log \/ log' = log \cup {r}
    PROVE  /\ IsFiniteSet(log')
           /\ \A i \in Items :
                 Allowed'[i] = IF log' # log /\ tx'[r].item = i THEN Allowed[i] + 1
                                                               ELSE Allowed[i]
<1>1. log \subseteq Req /\ r \notin log
  BY DEF StudyInv, TypeOK, LogInv
<1>2. IsFiniteSet(log')
  BY FS_AddElement
<1>3. ASSUME NEW i \in Items
      PROVE  Cardinality(AttemptsOn(i)') =
                IF log' # log /\ tx'[r].item = i THEN Cardinality(AttemptsOn(i)) + 1
                                                 ELSE Cardinality(AttemptsOn(i))
  <2>1. AttemptsOn(i) \in SUBSET log /\ IsFiniteSet(AttemptsOn(i)) /\ r \notin AttemptsOn(i)
    <3>1. AttemptsOn(i) \in SUBSET log
      BY DEF AttemptsOn
    <3>2. QED
      BY <1>1, <3>1, FS_Subset
  <2>2. AttemptsOn(i)' = IF log' # log /\ tx'[r].item = i THEN AttemptsOn(i) \cup {r}
                                                          ELSE AttemptsOn(i)
    BY <1>1 DEF AttemptsOn
  <2>3. QED
    BY <2>1, <2>2, FS_AddElement
<1>4. \A i \in Items : Cardinality(AttemptsOn(i)) \in Nat
  BY AllowedType, FS_Subset, FS_CardinalityType DEF AttemptsOn
<1>5. QED
  BY <1>2, <1>3, <1>4 DEF Allowed

Alone(r) == \A q \in Req \ {r} : tx'[q] = tx[q]

LEMMA CountMove ==
    ASSUME StudyInv, CountInv, NEW r \in Req, tx[r].pc \notin Ended, Alone(r),
           log' = log, rec' = rec,
           tx'[r].kind = "attempt" /\ tx'[r].pc \in Finding =>
               tx'[r].todo \subseteq {tx'[r].item},
           tx'[r].pc \in RowRead =>
               tx'[r].item \in Items /\ tx'[r].row.reps <= Allowed[tx'[r].item],
           tx'[r].lost => tx'[r].held = {} /\ tx'[r].pc \in Late \cup Ended
    PROVE  CountInv'
<1>1. \A q \in Req \ {r} : tx'[q] = tx[q]
  BY DEF Alone
<1>2. IsFiniteSet(log') /\ \A i \in Items : Allowed'[i] = Allowed[i]
  BY <1>1, AllowedGrows DEF CountInv
<1>3. \A q \in Req : tx[q].item \in Items
  BY DEF StudyInv, TypeOK, Tx
<1>4. ReadBacked'
  BY <1>1, <1>2, <1>3 DEF CountInv, ReadBacked
<1>5. RepsBackedByLog'
  BY <1>2 DEF CountInv, RepsBackedByLog, Allowed
<1>6. QED
  BY <1>2, <1>4, <1>5 DEF CountInv

LEMMA CountStep ==
    ASSUME StudyInv, CountInv, NEW r \in Req, tx[r].pc \notin Ended, NEW new,
           Step(r, new), log' = log, rec' = rec,
           new.kind = "attempt" /\ new.pc \in Finding => new.todo \subseteq {new.item},
           new.pc \in RowRead => new.item \in Items /\ new.row.reps <= Allowed[new.item],
           new.lost => new.held = {} /\ new.pc \in Late \cup Ended
    PROVE  CountInv'
<1>1. tx'[r] = new /\ Alone(r)
  BY DEF Step, StudyInv, TypeOK, Alone
<1>2. QED
  BY <1>1, CountMove

LEMMA CountClose ==
    ASSUME StudyInv, CountInv, NEW r \in Req, tx[r].pc \notin Ended,
           NEW outcome \in Ended, Close(r, outcome), log' = log, rec' = rec
    PROVE  CountInv'
<1> DEFINE new == [tx[r] EXCEPT !.pc = outcome, !.todo = {}, !.plan = {}, !.held = {},
                          !.row = NoRow, !.locked = FALSE, !.tags = 0, !.xp = 0,
                          !.open = NoSession]
<1>1. new.pc = outcome /\ new.held = {}
  BY DEF StudyInv, TypeOK, Tx
<1>2. Step(r, new)
  BY DEF Close
<1> HIDE DEF new
<1>3. outcome \notin Finding \cup RowRead
  BY DEF Ended, Finding, RowRead, Scheduled
<1>4. QED
  BY <1>1, <1>2, <1>3, CountStep

(* The commit of a request: an attempt that is logged may raise its item's  *)
(* reviews by one over what it read, the others write rows without reviews. *)
LEMMA CountCommit ==
    ASSUME StudyInv, CountInv, NEW r \in Req, tx[r].pc \notin Ended,
           NEW outcome \in Ended, Close(r, outcome), rec' = Committed(r),
           \/ log' = log /\ (tx[r].kind = "attempt" => tx[r].held = {})
           \/ /\ log' = log \cup {r} /\ tx[r].kind = "attempt"
              /\ tx[r].pc \in RowRead /\ tx[r].held = {tx[r].item}
    PROVE  CountInv'
<1>1. /\ tx'[r].pc = outcome /\ tx'[r].held = {} /\ tx'[r].item = tx[r].item
      /\ \A q \in Req \ {r} : tx'[q] = tx[q]
  BY DEF Close, Step, StudyInv, TypeOK, Tx
<1>2. r \notin log /\ \A q \in Req : tx[q].item \in Items
  BY DEF StudyInv, TypeOK, Tx, LogInv
<1>3. /\ IsFiniteSet(log')
      /\ \A i \in Items :
            Allowed'[i] = IF log' # log /\ tx[r].item = i THEN Allowed[i] + 1
                                                         ELSE Allowed[i]
  BY <1>1, AllowedGrows DEF CountInv
<1>4. \A i \in Items : Allowed[i] \in Nat /\ rec[i].reps \in Nat /\ rec[i].reps <= Allowed[i]
  BY AllowedType DEF CountInv, RepsBackedByLog, Allowed, StudyInv, TypeOK, Row
<1>5. outcome \notin Finding \cup RowRead
  BY DEF Ended, Finding, RowRead, Scheduled
<1>6. ReadBacked'
  <2>1. \A q \in Req \ {r} : tx[q].pc \in RowRead => tx[q].row.reps \in Nat
    BY DEF StudyInv, TypeOK, Tx, Row
  <2>2. QED
    BY <1>1, <1>2, <1>3, <1>4, <1>5, <2>1 DEF CountInv, ReadBacked
<1>7. ASSUME NEW i \in Items PROVE rec'[i].reps <= Allowed'[i]
  <2>1. CASE i \notin tx[r].held
    <3>1. rec'[i] = rec[i]
      BY <2>1 DEF Committed
    <3>2. QED
      BY <1>3, <1>4, <3>1
  <2>2. CASE i \in tx[r].held /\ tx[r].kind = "attempt"
    <3>1. /\ log' # log /\ i = tx[r].item
          /\ tx[r].row.reps <= Allowed[i] /\ tx[r].row \in Row
      BY <1>2, <2>2 DEF CountInv, ReadBacked, StudyInv, TypeOK, Tx
    <3>2. rec'[i].reps = tx[r].row.reps + 1
      BY <2>2, <3>1 DEF Committed, Written, Row
    <3>3. QED
      BY <1>3, <1>4, <3>1, <3>2 DEF Row
  <2>3. CASE i \in tx[r].held /\ tx[r].kind # "attempt"
    <3>1. rec'[i].reps = 0
      BY <2>3 DEF Committed, Written, NoRow, NewRow
    <3>2. QED
      BY <1>3, <1>4, <3>1
  <2>4. QED
    BY <2>1, <2>2, <2>3
<1>8. RepsBackedByLog'
  BY <1>7 DEF RepsBackedByLog, Allowed
<1>9. QED
  BY <1>3, <1>6, <1>8 DEF CountInv

LEMMA InitCountInv == Init => CountInv
<1> SUFFICES ASSUME Init PROVE CountInv
  OBVIOUS
<1>1. IsFiniteSet(log) /\ \A i \in Items : Cardinality(AttemptsOn(i)) = 0
  BY FS_EmptySet DEF Init, AttemptsOn
<1>2. ReadBacked
  <2>1. /\ Blank.kind # "attempt" /\ Blank.pc \notin RowRead
        /\ ~Blank.lost
    BY DEF Blank, RowRead, Scheduled, None
  <2>2. QED
    BY <2>1 DEF Init, ReadBacked
<1>3. RepsBackedByLog
  BY <1>1 DEF Init, RepsBackedByLog, NoRow
<1>4. QED
  BY <1>1, <1>2, <1>3 DEF CountInv

LEMMA StepCountInv == StudyInv /\ CountInv /\ [Next]_vars => CountInv'
<1>0. ASSUME CountInv, UNCHANGED vars PROVE CountInv'
  BY <1>0 DEF CountInv, ReadBacked, RepsBackedByLog, Allowed, AttemptsOn, vars
<1> SUFFICES ASSUME StudyInv, CountInv, Next PROVE CountInv'
  BY <1>0
<1> PICK r \in Req : Arrive(r) \/ Advance(r) \/ Fail(r)
  BY DEF Next
<1>t. tx[r] \in Tx
  BY DEF StudyInv, TypeOK
<1>o. {"ok", "error", "rejected"} \subseteq Ended
  BY DEF Ended
<1>u. Unwritten => rec' = rec /\ log' = log
  BY DEF Unwritten
<1>p. /\ tx[r].pc \in RowRead => tx[r].kind = "attempt" /\ tx[r].pc \notin Ended
      /\ tx[r].pc \in Elsewhere => tx[r].kind # "attempt" /\ tx[r].pc \notin Ended
      /\ tx[r].pc \in Finding \cup Elsewhere \cup {"idle", "schedule", "profile",
                                                 "profile insert"} => ~tx[r].lost
      /\ tx[r].lost => tx[r].held = {}
      /\ tx[r].pc \in RowRead => tx[r].row.reps <= Allowed[tx[r].item]
      /\ tx[r].item \in Items
  BY <1>t DEF StudyInv, AttemptInv, CountInv, ReadBacked, Tx, RowRead, Scheduled,
     Elsewhere, Finding, Late, Ended
(* A step that goes on outside schedule..commit.                           *)
<1>f. ASSUME tx[r].pc \in Elsewhere, Alone(r), log' = log, rec' = rec,
             tx'[r].kind = tx[r].kind, tx'[r].lost = tx[r].lost, tx'[r].pc \notin RowRead
      PROVE  CountInv'
  BY <1>f, <1>p, CountMove
(* One within schedule..commit that keeps the row read.                     *)
<1>s. ASSUME tx[r].pc \in RowRead, Alone(r), log' = log, rec' = rec,
             tx'[r].item = tx[r].item, tx'[r].row = tx[r].row, tx'[r].pc \in Scheduled,
             tx'[r].lost => tx'[r].held = {} /\ tx'[r].pc \in Late
      PROVE  CountInv'
  <2>1. tx'[r].pc \notin Finding
    BY <1>s DEF Scheduled, Finding
  <2>2. QED
    BY <1>s, <1>p, <2>1, CountMove
<1>a. tx \in [Req -> Tx] /\ \A new : Step(r, new) => Alone(r) /\ tx'[r] = new
  BY DEF Step, StudyInv, TypeOK, Alone
<1>1. CASE Arrive(r)
  <2>1. /\ tx[r].pc = "idle" /\ tx[r].pc \notin Ended /\ Unwritten
    BY <1>1 DEF Arrive, BeginBuild, BeginExtend, BeginPlace, BeginAttempt, Begin, At, Ended
  <2>2. ASSUME NEW kind, NEW pc \in {"reuse", "extend", "place"},
               Step(r, [Blank EXCEPT !.pc = pc, !.kind = kind])
        PROVE  CountInv'
    <3> DEFINE new == [Blank EXCEPT !.pc = pc, !.kind = kind]
    <3>1. new.pc \notin Finding \cup RowRead /\ ~new.lost
      BY DEF Blank, Finding, RowRead, Scheduled
    <3> HIDE DEF new
    <3>2. QED
      BY <1>u, <2>1, <2>2, <3>1, CountStep DEF new
  <2>3. CASE BeginAttempt(r)
    <3>1. PICK i \in shown, correct \in BOOLEAN :
             Step(r, [Blank EXCEPT !.pc = "select", !.kind = "attempt", !.item = i,
                                   !.ok = correct, !.todo = {i}])
      BY <2>3 DEF BeginAttempt
    <3> DEFINE new == [Blank EXCEPT !.pc = "select", !.kind = "attempt", !.item = i,
                                    !.ok = correct, !.todo = {i}]
    <3>2. new.pc \notin RowRead /\ ~new.lost /\ new.todo = {new.item} /\ Step(r, new)
      BY <3>1 DEF Blank, RowRead, Scheduled
    <3> HIDE DEF new
    <3>3. QED
      BY <1>u, <2>1, <3>2, CountStep
  <2>4. QED
    BY <1>1, <2>2, <2>3 DEF Arrive, BeginBuild, BeginExtend, BeginPlace, Begin
<1>2. CASE Fail(r)
  BY <1>2, <1>o, <1>u, CountClose DEF Fail, Active, Rollback
<1>g. ASSUME tx[r].pc \in Finding, NEW i \in Items, NEW row, NEW held,
             GotRow(r, i, row, held), Unwritten, row.reps <= Allowed[i],
             tx[r].kind = "attempt" => i = tx[r].item
      PROVE  CountInv'
  <2> DEFINE todo == tx[r].todo \ {i}
             new == [tx[r] EXCEPT !.todo = todo, !.held = held,
                         !.row = IF tx[r].kind = "attempt" THEN row ELSE @,
                         !.pc = NextRow(tx[r].kind, todo)]
  <2>1. Step(r, new) /\ tx[r].pc \notin Ended
    BY <1>g DEF GotRow, Finding, Ended
  <2>2. /\ new.kind = tx[r].kind /\ new.item = tx[r].item /\ new.lost = tx[r].lost
        /\ new.pc = NextRow(tx[r].kind, todo) /\ new.todo \subseteq tx[r].todo
        /\ tx[r].kind = "attempt" => new.row = row
    BY <1>t DEF Tx
  <2>3. new.pc \in RowRead => tx[r].kind = "attempt"
    BY <2>2 DEF NextRow, AfterRows, RowRead, Scheduled
  <2>4. tx[r].kind = "attempt" => tx[r].todo \subseteq {tx[r].item}
    BY <1>g DEF CountInv, ReadBacked
  <2> HIDE DEF new, todo
  <2>5. QED
    BY <1>g, <1>u, <1>p, <2>1, <2>2, <2>3, <2>4, CountStep
<1>i. \A i \in Items : rec[i].reps <= Allowed[i] /\ 0 <= Allowed[i]
  BY AllowedType DEF CountInv, RepsBackedByLog, Allowed
<1>3. CASE SelectRow(r)
  <2>1. tx[r].pc = "select" /\ tx[r].pc \in Finding /\ tx[r].pc \notin Ended /\ Unwritten
    BY <1>3 DEF SelectRow, Select, At, Finding, Ended
  <2>2. PICK i \in tx[r].todo : \/ GotRow(r, i, rec[i], tx[r].held)
                               \/ Step(r, [tx[r] EXCEPT !.pc = "insert", !.item = i])
    BY <1>3, OldestSubset DEF SelectRow, Select
  <2>3. i \in Items
    BY <1>t DEF Tx
  <2>4. CASE GotRow(r, i, rec[i], tx[r].held)
    <3>1. tx[r].kind = "attempt" => i = tx[r].item
      BY <2>1 DEF CountInv, ReadBacked
    <3>2. QED
      BY <1>g, <1>i, <2>1, <2>3, <2>4, <3>1
  <2>5. CASE Step(r, [tx[r] EXCEPT !.pc = "insert", !.item = i])
    <3> DEFINE new == [tx[r] EXCEPT !.pc = "insert", !.item = i]
    <3>1. /\ new.kind = tx[r].kind /\ new.item = i /\ new.todo = tx[r].todo
          /\ new.lost = tx[r].lost /\ new.pc \notin RowRead /\ Step(r, new)
      BY <1>t, <2>5 DEF Tx, RowRead, Scheduled
    <3>2. tx[r].kind = "attempt" => tx[r].todo \subseteq {tx[r].item}
      BY <2>1 DEF CountInv, ReadBacked
    <3> HIDE DEF new
    <3>3. QED
      BY <1>p, <1>u, <2>1, <3>1, <3>2, CountStep
  <2>6. QED
    BY <2>2, <2>4, <2>5
<1>4. CASE InsertRow(r)
  <2>1. tx[r].pc \in Finding /\ tx[r].pc \notin Ended /\ Unwritten
    BY <1>4 DEF InsertRow, At, Finding, Ended
  <2> DEFINE i == tx[r].item
  <2>2. \/ Close(r, "error")
        \/ GotRow(r, i, NewRow(r), tx[r].held \cup {i})
    BY <1>4 DEF InsertRow
  <2>3. i \in Items /\ NewRow(r).reps = 0
    BY <1>t DEF Tx, NewRow
  <2>4. CASE GotRow(r, i, NewRow(r), tx[r].held \cup {i})
    BY <1>g, <1>i, <2>1, <2>3, <2>4
  <2>5. CASE Close(r, "error")
    BY <1>o, <1>u, <2>1, <2>5, CountClose
  <2>6. QED
    BY <2>2, <2>4, <2>5
<1>5. ASSUME tx[r].pc \in Elsewhere, log' = log, rec' = rec,
             \/ \E outcome \in Ended : Close(r, outcome)
             \/ /\ Alone(r) /\ tx'[r].kind = tx[r].kind
                /\ tx'[r].lost = tx[r].lost /\ tx'[r].pc \notin RowRead
      PROVE  CountInv'
  BY <1>5, <1>f, <1>p, CountClose
<1>6. CASE Reuse(r) \/ ReadDue(r) \/ ReadNew(r)
  <2>1. tx[r].pc \in Elsewhere /\ log' = log /\ rec' = rec
    BY <1>6, <1>u DEF Reuse, ReadDue, ReadNew, At, Elsewhere
  <2>2. \/ Close(r, "ok")
        \/ Step(r, [tx[r] EXCEPT !.pc = "due"])
        \/ \E due : Step(r, [tx[r] EXCEPT !.pc = "new", !.plan = due])
        \/ \E new : Step(r, [tx[r] EXCEPT !.todo = new, !.plan = @ \cup new,
                                          !.pc = NextRow("build", new)])
    BY <1>6 DEF Reuse, ReadDue, ReadNew
  <2>3. \A new : NextRow("build", new) \notin RowRead
    BY DEF NextRow, AfterRows, RowRead, Scheduled
  <2>4. \/ Close(r, "ok")
        \/ /\ Alone(r) /\ tx'[r].kind = tx[r].kind
           /\ tx'[r].lost = tx[r].lost /\ tx'[r].pc \notin RowRead
    <3> DEFINE Goes == /\ Alone(r) /\ tx'[r].kind = tx[r].kind
                       /\ tx'[r].lost = tx[r].lost /\ tx'[r].pc \notin RowRead
    <3>1. Step(r, [tx[r] EXCEPT !.pc = "due"]) => Goes
      BY <1>a, <1>t DEF Step, Alone, Tx, RowRead, Scheduled
    <3>2. ASSUME NEW due, Step(r, [tx[r] EXCEPT !.pc = "new", !.plan = due]) PROVE Goes
      BY <1>a, <1>t, <3>2 DEF Step, Alone, Tx, RowRead, Scheduled
    <3>3. ASSUME NEW new, Step(r, [tx[r] EXCEPT !.todo = new, !.plan = @ \cup new,
                                                !.pc = NextRow("build", new)])
          PROVE  Goes
      BY <1>a, <1>t, <2>3, <3>3 DEF Step, Alone, Tx
    <3>4. QED
      BY <2>2, <3>1, <3>2, <3>3
  <2>5. QED
    BY <1>o, <1>5, <2>1, <2>4
<1>8. CASE OpenSession(r)
  <2>1. tx[r].pc \in Elsewhere /\ log' = log
    BY <1>8 DEF OpenSession, At, Elsewhere
  <2>2. \/ Close(r, "error") /\ rec' = rec
        \/ Close(r, "ok") /\ rec' = Committed(r)
    BY <1>8 DEF OpenSession
  <2>3. QED
    BY <1>o, <1>p, <2>1, <2>2, CountClose, CountCommit
<1>9. CASE Schedule(r)
  <2>1. tx[r].pc = "schedule" /\ tx[r].pc \in RowRead /\ Unwritten
    BY <1>9 DEF Schedule, At, RowRead
  <2>2. CASE Close(r, "error")
    BY <1>o, <1>p, <1>u, <2>1, <2>2, CountClose
  <2>3. CASE Step(r, [tx[r] EXCEPT !.pc = "profile", !.held = {tx[r].item}])
    <3>1. /\ Alone(r) /\ tx'[r].item = tx[r].item /\ tx'[r].row = tx[r].row
          /\ tx'[r].pc \in Scheduled /\ tx'[r].lost = tx[r].lost
      BY <1>a, <1>t, <2>3 DEF Step, Alone, Tx, Scheduled
    <3>2. QED
      BY <1>s, <1>p, <1>u, <2>1, <3>1
  <2>4. QED
    BY <1>9, <2>2, <2>3 DEF Schedule
<1>10. CASE ReadProfile(r) \/ ReadMotivation(r) \/ Save(r) \/ ReadSession(r)
  <2>1. tx[r].pc \in Scheduled /\ tx[r].pc \in RowRead /\ Unwritten
    BY <1>10 DEF ReadProfile, ReadMotivation, Save, ReadSession, At, RowRead, Scheduled
  <2>2. tx[r].lost => tx[r].pc \in Late
    BY <1>p, <2>1 DEF CountInv, ReadBacked
  <2>3. /\ Alone(r) /\ tx'[r].item = tx[r].item /\ tx'[r].row = tx[r].row
        /\ tx'[r].lost = tx[r].lost /\ tx'[r].held = tx[r].held
        /\ tx'[r].pc \in Scheduled /\ (tx[r].pc \in Late => tx'[r].pc \in Late)
    <3>1. CASE ReadProfile(r)
      BY <1>a, <1>t, <3>1 DEF ReadProfile, Step, Alone, At, Tx, Scheduled, Late
    <3>2. CASE ReadMotivation(r)
      BY <1>a, <1>t, <3>2 DEF ReadMotivation, Step, Alone, At, Tx, Scheduled, Late
    <3>3. CASE Save(r)
      BY <1>a, <1>t, <3>3 DEF Save, Step, Alone, At, Tx, Scheduled, Late
    <3>4. CASE ReadSession(r)
      BY <1>a, <1>t, <3>4 DEF ReadSession, Step, Alone, At, Tx, Scheduled, Late
    <3>5. QED
      BY <1>10, <3>1, <3>2, <3>3, <3>4
  <2>4. QED
    BY <1>s, <1>p, <1>u, <2>1, <2>2, <2>3
<1>11. CASE InsertProfile(r)
  <2>1. tx[r].pc = "profile insert" /\ tx[r].pc \in RowRead /\ Unwritten
    BY <1>11 DEF InsertProfile, At, RowRead, Scheduled
  <2>2. CASE Step(r, [tx[r] EXCEPT !.pc = "motivation", !.locked = TRUE])
    <3>1. /\ Alone(r) /\ tx'[r].item = tx[r].item /\ tx'[r].row = tx[r].row
          /\ tx'[r].pc \in Scheduled /\ tx'[r].lost = tx[r].lost
      BY <1>a, <1>t, <2>2 DEF Step, Alone, Tx, Scheduled
    <3>2. QED
      BY <1>s, <1>p, <1>u, <2>1, <3>1
  <2>3. CASE Step(r, [tx[r] EXCEPT !.pc = "motivation", !.tags = totals.tags,
                                   !.held = {}, !.lost = TRUE])
    <3>1. /\ Alone(r) /\ tx'[r].item = tx[r].item /\ tx'[r].row = tx[r].row
          /\ tx'[r].pc = "motivation" /\ tx'[r].held = {}
      BY <1>a, <1>t, <2>3 DEF Step, Alone, Tx
    <3>2. QED
      BY <1>s, <1>u, <2>1, <3>1 DEF Scheduled, Late
  <2>4. QED
    BY <1>11, <2>2, <2>3 DEF InsertProfile
<1>12. CASE CommitAttempt(r)
  <2>1. tx[r].pc \in Scheduled /\ tx[r].pc \in RowRead
    BY <1>12 DEF CommitAttempt, At, RowRead, Scheduled
  <2>2. CASE Rollback(r, "error")
    BY <1>o, <1>p, <1>u, <2>1, <2>2, CountClose DEF Rollback
  <2>3. CASE ~Rollback(r, "error")
    <3>1. /\ log' = IF tx[r].lost THEN log ELSE log \cup {r}
          /\ rec' = Committed(r)
          /\ Close(r, IF tx[r].lost THEN "error" ELSE "ok")
      BY <1>12, <2>3 DEF CommitAttempt
    <3>2. ~tx[r].lost => tx[r].held = {tx[r].item}
      BY <2>1 DEF StudyInv, AttemptInv
    <3>3. QED
      BY <1>o, <1>p, <2>1, <3>1, <3>2, CountCommit
  <2>4. QED
    BY <2>2, <2>3
<1>13. CASE ReadExtend(r) \/ ReadExtra(r) \/ Generate(r) \/ ReadPlace(r) \/ Discard(r)
  <2>1. tx[r].pc \in Elsewhere /\ log' = log /\ rec' = rec
    BY <1>13, <1>u DEF ReadExtend, ReadExtra, Generate, ReadPlace, Discard, At, Elsewhere
  <2>2. \/ Close(r, "rejected") \/ Close(r, "ok")
        \/ Step(r, [tx[r] EXCEPT !.pc = "extend new", !.open = sess])
        \/ Step(r, [tx[r] EXCEPT !.pc = "generate"])
        \/ \E new : Adopt(r, new)
        \/ Step(r, [tx[r] EXCEPT !.pc = "discard", !.open = sess])
        \/ \E held : Step(r, [tx[r] EXCEPT !.pc = "discarded", !.held = held])
    BY <1>13 DEF ReadExtend, ReadExtra, Generate, ReadPlace, Discard
  <2>3. \A new : NextRow("extend", new) \notin RowRead
    BY DEF NextRow, AfterRows, RowRead, Scheduled
  <2>4. \/ Close(r, "rejected") \/ Close(r, "ok")
        \/ /\ Alone(r) /\ tx'[r].kind = tx[r].kind
           /\ tx'[r].lost = tx[r].lost /\ tx'[r].pc \notin RowRead
    <3> DEFINE Goes == /\ Alone(r) /\ tx'[r].kind = tx[r].kind
                       /\ tx'[r].lost = tx[r].lost /\ tx'[r].pc \notin RowRead
    <3>1. ASSUME NEW pc \in {"extend new", "discard"},
                 Step(r, [tx[r] EXCEPT !.pc = pc, !.open = sess])
          PROVE  Goes
      BY <1>a, <1>t, <3>1 DEF Step, Alone, Tx, RowRead, Scheduled
    <3>2. Step(r, [tx[r] EXCEPT !.pc = "generate"]) => Goes
      BY <1>a, <1>t DEF Step, Alone, Tx, RowRead, Scheduled
    <3>3. ASSUME NEW new, Adopt(r, new) PROVE Goes
      BY <1>a, <1>t, <2>3, <3>3 DEF Adopt, Step, Alone, Tx
    <3>4. ASSUME NEW held, Step(r, [tx[r] EXCEPT !.pc = "discarded", !.held = held])
          PROVE  Goes
      BY <1>a, <1>t, <3>4 DEF Step, Alone, Tx, RowRead, Scheduled
    <3>5. QED
      BY <2>2, <3>1, <3>2, <3>3, <3>4
  <2>5. QED
    BY <1>o, <1>5, <2>1, <2>4
<1>14. CASE CommitExtend(r) \/ CommitPlace(r)
  <2>1. tx[r].pc \in Elsewhere /\ log' = log
    BY <1>14 DEF CommitExtend, CommitPlace, Rollback, Unwritten, At, Elsewhere
  <2>2. \/ Close(r, "error") /\ rec' = rec
        \/ Close(r, "ok") /\ rec' = Committed(r)
    BY <1>14, <1>u DEF CommitExtend, CommitPlace, Rollback
  <2>3. QED
    BY <1>o, <1>p, <2>1, <2>2, CountClose, CountCommit
<1>15. QED
  BY <1>1, <1>2, <1>3, <1>4, <1>6, <1>8, <1>9, <1>10, <1>11, <1>12, <1>13, <1>14
  DEF Advance, AbortDeadlock

(* The reviews of an item never exceed the attempts on it that are logged,  *)
(* plus the one of an item studied before: attempts that race on an item    *)
(* may lose a review, none is invented, and an attempt that was rolled back *)
(* leaves none behind (schedule_next).                                     *)
THEOREM RepsBacked == Spec => []RepsBackedByLog
<1>1. CountInv => RepsBackedByLog
  BY DEF CountInv
<1>2. QED
  BY <1>1, InitCountInv, StepCountInv, StudyInvariant, PTL DEF Spec

-----------------------------------------------------------------------------
(* Credit.  Once the learner's user rows exist no request loses its writes  *)
(* and goes on; what a request read of the totals and of the session was    *)
(* backed by the log then, and the log only grows.                         *)

CreditRead ==
    \A r \in Req :
        /\ ~tx[r].lost /\ tx[r].pc # "profile insert"
        /\ tx[r].pc \in Late => tx[r].tags <= Cardinality(log)
        /\ tx[r].pc \in Late \ {"motivation"} => tx[r].xp <= Earned
        /\ tx[r].pc = "commit" => tx[r].open.done \subseteq log

CreditInv == totals.made /\ CreditRead /\ CreditBackedByLog

Right == {q \in log : tx[q].ok}
Wrong == {q \in log : ~tx[q].ok}

LEMMA LogCounts ==
    ASSUME IsFiniteSet(log)
    PROVE  /\ IsFiniteSet(Right) /\ IsFiniteSet(Wrong)
           /\ Cardinality(log) \in Nat /\ Cardinality(Right) \in Nat
           /\ Cardinality(Wrong) \in Nat
           /\ Earned = 10 * Cardinality(Right) + 2 * Cardinality(Wrong)
<1>1. Right \in SUBSET log /\ Wrong \in SUBSET log
  BY DEF Right, Wrong
<1>2. QED
  BY <1>1, FS_Subset, FS_CardinalityType DEF Earned, Right, Wrong

LEMMA EarnedGrows ==
    ASSUME StudyInv, IsFiniteSet(log), NEW r \in Req, tx[r].pc \notin Ended, Alone(r),
           tx'[r].ok = tx[r].ok, log' = log \/ log' = log \cup {r}
    PROVE  /\ Cardinality(log') = IF log' = log THEN Cardinality(log)
                                               ELSE Cardinality(log) + 1
           /\ Earned' = IF log' = log THEN Earned ELSE Earned + XP(tx[r].ok)
           /\ Earned \in Nat /\ Cardinality(log) \in Nat
<1>1. log \subseteq Req /\ r \notin log /\ tx[r].ok \in BOOLEAN
  BY DEF StudyInv, TypeOK, LogInv, Tx
<1>2. IsFiniteSet(log')
  BY FS_AddElement
<1>3. /\ Right' = IF log' # log /\ tx[r].ok THEN Right \cup {r} ELSE Right
      /\ Wrong' = IF log' # log /\ ~tx[r].ok THEN Wrong \cup {r} ELSE Wrong
      /\ r \notin Right /\ r \notin Wrong
  BY <1>1 DEF Right, Wrong, Alone
<1>4. Earned' = 10 * Cardinality(Right') + 2 * Cardinality(Wrong')
  BY DEF Earned, Right, Wrong
<1>5. /\ Cardinality(log') = IF log' = log THEN Cardinality(log)
                                          ELSE Cardinality(log) + 1
      /\ Cardinality(Right \cup {r}) = Cardinality(Right) + 1
      /\ Cardinality(Wrong \cup {r}) = Cardinality(Wrong) + 1
  BY <1>1, <1>3, LogCounts, FS_AddElement
<1>6. QED
  BY <1>1, <1>3, <1>4, <1>5, LogCounts DEF XP

(* A step that writes neither log nor totals.                              *)
LEMMA CreditMove ==
    ASSUME StudyInv, CountInv, CreditInv, NEW r \in Req, Alone(r),
           log' = log, totals' = totals, sess'.done \in {{}, sess.done},
           \A q \in log : tx'[q].ok = tx[q].ok,
           ~tx'[r].lost, tx'[r].pc # "profile insert",
           tx'[r].pc \in Late => tx'[r].tags <= Cardinality(log),
           tx'[r].pc \in Late \ {"motivation"} => tx'[r].xp <= Earned,
           tx'[r].pc = "commit" => tx'[r].open.done \subseteq log
    PROVE  CreditInv'
<1>1. Earned' = Earned
  BY DEF Earned
<1>2. CreditRead'
  BY <1>1 DEF CreditInv, CreditRead, Alone
<1>3. CreditBackedByLog'
  BY <1>1 DEF CreditInv, CreditBackedByLog, DoneIsLogged
<1>4. QED
  BY <1>2, <1>3 DEF CreditInv

LEMMA CreditCommit ==
    ASSUME StudyInv, CountInv, CreditInv, NEW r \in Req, CommitAttempt(r),
           ~Rollback(r, "error")
    PROVE  CreditInv'
<1>1. tx[r].pc = "commit" /\ tx[r].pc \in Late /\ tx[r].pc \notin Ended /\ ~tx[r].lost
  BY DEF CommitAttempt, At, Late, Ended, CreditInv, CreditRead
<1>2. /\ log' = log \cup {r} /\ Close(r, "ok")
      /\ totals' = [made |-> TRUE, tags |-> tx[r].tags + 1,
                    xp |-> tx[r].xp + XP(tx[r].ok)]
      /\ sess' = IF Exists(tx[r].open)
                 THEN [sess EXCEPT !.done = tx[r].open.done \cup {r}]
                 ELSE sess
  BY <1>1 DEF CommitAttempt
<1>3. /\ Alone(r) /\ tx'[r].ok = tx[r].ok /\ tx'[r].lost = tx[r].lost
      /\ tx'[r].pc = "ok"
  BY <1>2 DEF Close, Step, Alone, StudyInv, TypeOK, Tx
<1>4. /\ tx[r].tags \in Nat /\ tx[r].xp \in Nat /\ XP(tx[r].ok) \in Nat
      /\ r \notin log /\ sess \in Session
      /\ \A q \in Req : tx[q].tags \in Nat /\ tx[q].xp \in Nat
  BY DEF StudyInv, TypeOK, Tx, XP, LogInv, Ended, CommitAttempt, At
<1>5. /\ Cardinality(log') = Cardinality(log) + 1 /\ Cardinality(log) \in Nat
      /\ Earned' = Earned + XP(tx[r].ok) /\ Earned \in Nat
  BY <1>1, <1>2, <1>3, <1>4, EarnedGrows DEF CountInv
<1>6. /\ tx[r].tags <= Cardinality(log) /\ tx[r].xp <= Earned
      /\ tx[r].open.done \subseteq log /\ sess.done \subseteq log
  BY <1>1 DEF CreditInv, CreditRead, Late, CreditBackedByLog, DoneIsLogged
<1>7. sess'.done \subseteq log'
  BY <1>2, <1>4, <1>6 DEF Session
<1>8. CreditBackedByLog'
  BY <1>2, <1>4, <1>5, <1>6, <1>7 DEF CreditBackedByLog, DoneIsLogged
<1>9. CreditRead'
  <2> SUFFICES ASSUME NEW q \in Req
               PROVE  /\ ~tx'[q].lost /\ tx'[q].pc # "profile insert"
                      /\ tx'[q].pc \in Late => tx'[q].tags <= Cardinality(log')
                      /\ tx'[q].pc \in Late \ {"motivation"} => tx'[q].xp <= Earned'
                      /\ tx'[q].pc = "commit" => tx'[q].open.done \subseteq log'
    BY DEF CreditRead
  <2>1. CASE q = r
    BY <1>1, <1>3, <2>1 DEF Late
  <2>2. CASE q # r
    <3>1. tx'[q] = tx[q]
      BY <1>3, <2>2 DEF Alone
    <3>2. /\ ~tx[q].lost /\ tx[q].pc # "profile insert"
          /\ tx[q].pc \in Late => tx[q].tags <= Cardinality(log)
          /\ tx[q].pc \in Late \ {"motivation"} => tx[q].xp <= Earned
          /\ tx[q].pc = "commit" => tx[q].open.done \subseteq log
      BY DEF CreditInv, CreditRead
    <3>3. tx[q].tags \in Nat /\ tx[q].xp \in Nat /\ XP(tx[r].ok) \in Nat
      BY <1>4
    <3>4. tx[q].tags <= Cardinality(log) => tx[q].tags <= Cardinality(log')
      BY <1>5, <3>3
    <3>5. tx[q].xp <= Earned => tx[q].xp <= Earned'
      BY <1>5, <3>3
    <3>6. tx'[q].pc \in Late => tx'[q].tags <= Cardinality(log')
      BY <3>1, <3>2, <3>4
    <3>7. tx'[q].pc \in Late \ {"motivation"} => tx'[q].xp <= Earned'
      BY <3>1, <3>2, <3>5
    <3>8. tx'[q].pc = "commit" => tx'[q].open.done \subseteq log'
      BY <1>2, <3>1, <3>2
    <3>9. ~tx'[q].lost /\ tx'[q].pc # "profile insert"
      BY <3>1, <3>2
    <3>10. QED
      BY <3>6, <3>7, <3>8, <3>9
  <2>3. QED
    BY <2>1, <2>2
<1>10. QED
  BY <1>2, <1>8, <1>9 DEF CreditInv

LEMMA StepCreditInv == StudyInv /\ CountInv /\ CreditInv /\ [Next]_vars => CreditInv'
<1>0. ASSUME CreditInv, UNCHANGED vars PROVE CreditInv'
  BY <1>0 DEF CreditInv, CreditRead, CreditBackedByLog, DoneIsLogged, Earned, vars
<1> SUFFICES ASSUME StudyInv, CountInv, CreditInv, Next PROVE CreditInv'
  BY <1>0
<1> PICK r \in Req : Arrive(r) \/ Advance(r) \/ Fail(r)
  BY DEF Next
<1>t. tx[r] \in Tx /\ sess \in Session /\ tx \in [Req -> Tx]
  BY DEF StudyInv, TypeOK
<1>u. Unwritten => log' = log /\ totals' = totals /\ sess'.done = sess.done
  BY DEF Unwritten
<1>p. ~tx[r].lost /\ tx[r].pc # "profile insert"
  BY DEF CreditInv, CreditRead
<1>l. \A q \in log : q \in Req /\ tx[q].pc \in Ended
  BY DEF StudyInv, TypeOK, LogInv
(* A step that ends elsewhere than in the part that carries totals.         *)
<1>q. ASSUME tx[r].pc \notin Ended, Alone(r), log' = log, totals' = totals,
             sess'.done \in {{}, sess.done}, ~tx'[r].lost,
             tx'[r].pc \notin Late \cup {"profile insert"}
      PROVE  CreditInv'
  BY <1>q, <1>l, CreditMove DEF Late, Alone
<1>c. ASSUME NEW outcome \in Ended, Close(r, outcome)
      PROVE  /\ Alone(r) /\ ~tx'[r].lost
             /\ tx'[r].pc \notin Late \cup {"profile insert"}
  BY <1>c, <1>t, <1>p DEF Close, Step, Alone, Tx, Ended, Late
<1>o. {"ok", "error", "rejected"} \subseteq Ended
  BY DEF Ended
<1>1. CASE Arrive(r)
  <2>1. tx[r].pc \notin Ended /\ Unwritten
    BY <1>1 DEF Arrive, BeginBuild, BeginExtend, BeginPlace, BeginAttempt, Begin, At, Ended
  <2>2. Alone(r) /\ ~tx'[r].lost /\ tx'[r].pc \in {"reuse", "extend", "place", "select"}
    <3>1. ASSUME NEW kind, NEW pc, Begin(r, kind, pc)
          PROVE  Alone(r) /\ ~tx'[r].lost /\ tx'[r].pc = pc
      BY <1>t, <3>1 DEF Begin, Step, Alone, Blank
    <3>2. CASE BeginAttempt(r)
      BY <1>t, <3>2 DEF BeginAttempt, Step, Alone, Blank
    <3>3. QED
      BY <1>1, <3>1, <3>2 DEF Arrive, BeginBuild, BeginExtend, BeginPlace
  <2>3. QED
    BY <1>q, <1>u, <2>1, <2>2 DEF Late
<1>2. CASE Fail(r)
  BY <1>2, <1>o, <1>c, <1>q, <1>u DEF Fail, Active, Rollback
<1>n. \A kind, todo : NextRow(kind, todo) \notin Late \cup {"profile insert"}
  BY DEF NextRow, AfterRows, Late
<1>g. ASSUME NEW i, NEW row, NEW held, GotRow(r, i, row, held)
      PROVE  Alone(r) /\ ~tx'[r].lost /\ tx'[r].pc \notin Late \cup {"profile insert"}
  <2>1. PICK todo, now :
           Step(r, [tx[r] EXCEPT !.todo = todo, !.held = held, !.row = now,
                                 !.pc = NextRow(tx[r].kind, todo)])
    BY <1>g DEF GotRow
  <2>2. QED
    BY <1>t, <1>p, <1>n, <2>1 DEF Step, Alone, Tx
<1>3. CASE SelectRow(r) \/ InsertRow(r)
  <2>1. tx[r].pc \notin Ended /\ Unwritten
    BY <1>3 DEF SelectRow, Select, InsertRow, At, Ended
  <2>2. ASSUME NEW i, Step(r, [tx[r] EXCEPT !.pc = "insert", !.item = i])
        PROVE  Alone(r) /\ ~tx'[r].lost /\ tx'[r].pc \notin Late \cup {"profile insert"}
    BY <1>t, <1>p, <2>2 DEF Step, Alone, Tx, Late
  <2>3. Alone(r) /\ ~tx'[r].lost /\ tx'[r].pc \notin Late \cup {"profile insert"}
    BY <1>3, <1>g, <1>c, <1>o, <2>2 DEF SelectRow, Select, InsertRow
  <2>4. QED
    BY <1>q, <1>u, <2>1, <2>3
<1>4. CASE Reuse(r) \/ ReadDue(r) \/ ReadNew(r)
  <2>1. /\ tx[r].pc \notin Ended /\ log' = log /\ totals' = totals
        /\ sess'.done = sess.done
    BY <1>4, <1>u DEF Reuse, ReadDue, ReadNew, At, Ended
  <2>2. Alone(r) /\ ~tx'[r].lost /\ tx'[r].pc \notin Late \cup {"profile insert"}
    <3>1. CASE Reuse(r)
      BY <1>t, <1>p, <1>c, <1>o, <3>1 DEF Reuse, Step, Alone, Tx, Late
    <3>2. CASE ReadDue(r)
      <4>1. PICK due : Step(r, [tx[r] EXCEPT !.pc = "new", !.plan = due])
        BY <3>2 DEF ReadDue
      <4>2. QED
        BY <1>t, <1>p, <4>1 DEF Step, Alone, Tx, Late
    <3>3. CASE ReadNew(r)
      <4>1. PICK new : Step(r, [tx[r] EXCEPT !.todo = new, !.plan = @ \cup new,
                                             !.pc = NextRow("build", new)])
        BY <3>3 DEF ReadNew
      <4>2. QED
        BY <1>t, <1>p, <1>n, <4>1 DEF Step, Alone, Tx
    <3>4. QED
      BY <1>4, <3>1, <3>2, <3>3
  <2>3. QED
    BY <1>q, <2>1, <2>2
<1>5. CASE OpenSession(r) \/ CommitExtend(r) \/ CommitPlace(r)
  <2>1. tx[r].pc \notin Ended /\ log' = log /\ totals' = totals
    BY <1>5 DEF OpenSession, CommitExtend, CommitPlace, At, Ended, Rollback, Unwritten
  <2>2. sess'.done \in {{}, sess.done}
    <3>1. CASE OpenSession(r)
      <4>1. \/ sess' = sess
            \/ sess' = [by |-> r, planned |-> tx[r].plan \cap HasProblem, done |-> {}]
        BY <3>1 DEF OpenSession
      <4>2. QED
        BY <4>1
    <3>2. CASE CommitExtend(r)
      <4>1. \/ sess' = sess
            \/ \E planned : sess' = [sess EXCEPT !.planned = planned]
        BY <3>2 DEF CommitExtend, Rollback, Unwritten
      <4>2. ASSUME NEW planned PROVE [sess EXCEPT !.planned = planned].done = sess.done
        BY <1>t DEF Session
      <4>3. QED
        BY <4>1, <4>2
    <3>3. CASE CommitPlace(r)
      BY <3>3 DEF CommitPlace, NoSession
    <3>4. QED
      BY <1>5, <3>1, <3>2, <3>3
  <2>3. \E outcome \in Ended : Close(r, outcome)
    BY <1>5, <1>o DEF OpenSession, CommitExtend, CommitPlace, Rollback
  <2>4. QED
    BY <1>q, <1>c, <2>1, <2>2, <2>3
<1>6. CASE Schedule(r)
  <2>1. tx[r].pc \notin Ended /\ Unwritten
    BY <1>6 DEF Schedule, At, Ended
  <2>2. Alone(r) /\ ~tx'[r].lost /\ tx'[r].pc \notin Late \cup {"profile insert"}
    <3>1. ASSUME NEW held, Step(r, [tx[r] EXCEPT !.pc = "profile", !.held = held])
          PROVE  Alone(r) /\ ~tx'[r].lost /\ tx'[r].pc \notin Late \cup {"profile insert"}
      BY <1>t, <1>p, <3>1 DEF Step, Alone, Tx, Late
    <3>2. ASSUME Close(r, "error")
          PROVE  Alone(r) /\ ~tx'[r].lost /\ tx'[r].pc \notin Late \cup {"profile insert"}
      BY <1>c, <1>o, <3>2
    <3>3. QED
      BY <1>6, <3>1, <3>2 DEF Schedule
  <2>3. QED
    BY <1>q, <1>u, <2>1, <2>2
<1>7. CASE ReadProfile(r)
  <2>1. totals.made /\ totals.tags <= Cardinality(log)
    BY DEF CreditInv, CreditBackedByLog
  <2>2. /\ Alone(r) /\ ~tx'[r].lost /\ tx'[r].pc = "motivation"
        /\ tx'[r].tags = totals.tags
    BY <1>7, <1>t, <1>p, <2>1 DEF ReadProfile, Step, Alone, Tx
  <2>3. tx[r].pc \notin Ended /\ Unwritten
    BY <1>7 DEF ReadProfile, At, Ended
  <2>4. QED
    BY <1>l, <1>u, <2>1, <2>2, <2>3, CreditMove DEF Alone
<1>8. CASE InsertProfile(r)
  BY <1>8, <1>p DEF InsertProfile, At
<1>9. CASE ReadMotivation(r)
  <2>1. /\ Alone(r) /\ ~tx'[r].lost /\ tx'[r].pc = "save"
        /\ tx'[r].tags = tx[r].tags /\ tx'[r].xp = totals.xp
    BY <1>9, <1>t, <1>p DEF ReadMotivation, Step, Alone, Tx
  <2>2. tx[r].pc \notin Ended /\ tx[r].pc \in Late /\ Unwritten
    BY <1>9 DEF ReadMotivation, At, Ended, Late
  <2>3. totals.xp <= Earned /\ tx[r].tags <= Cardinality(log)
    BY <2>2 DEF CreditInv, CreditRead, CreditBackedByLog
  <2>4. QED
    BY <1>l, <1>u, <2>1, <2>2, <2>3, CreditMove DEF Alone
<1>10. CASE Save(r) \/ ReadSession(r)
  <2>1. /\ Alone(r) /\ ~tx'[r].lost /\ tx'[r].pc \in {"session", "commit"}
        /\ tx'[r].tags = tx[r].tags /\ tx'[r].xp = tx[r].xp
        /\ tx'[r].pc = "commit" => tx'[r].open = sess
    <3>1. CASE Save(r)
      BY <1>t, <1>p, <3>1 DEF Save, Step, Alone, Tx
    <3>2. CASE ReadSession(r)
      BY <1>t, <1>p, <3>2 DEF ReadSession, Step, Alone, Tx
    <3>3. QED
      BY <1>10, <3>1, <3>2
  <2>2. tx[r].pc \notin Ended /\ tx[r].pc \in Late \ {"motivation"} /\ Unwritten
    BY <1>10 DEF Save, ReadSession, At, Ended, Late
  <2>3. /\ tx[r].xp <= Earned /\ tx[r].tags <= Cardinality(log)
        /\ sess.done \subseteq log
    BY <2>2 DEF CreditInv, CreditRead, CreditBackedByLog, DoneIsLogged
  <2>4. QED
    BY <1>l, <1>u, <2>1, <2>2, <2>3, CreditMove DEF Alone
<1>11. CASE CommitAttempt(r)
  <2>1. CASE Rollback(r, "error")
    <3>1. tx[r].pc \notin Ended
      BY <1>11 DEF CommitAttempt, At, Ended
    <3>2. QED
      BY <1>q, <1>c, <1>o, <1>u, <2>1, <3>1 DEF Rollback
  <2>2. QED
    BY <1>11, <2>1, CreditCommit
<1>12. CASE ReadExtend(r) \/ ReadExtra(r) \/ Generate(r) \/ ReadPlace(r) \/ Discard(r)
  <2>1. /\ tx[r].pc \notin Ended /\ log' = log /\ totals' = totals
        /\ sess'.done = sess.done
    BY <1>12, <1>u DEF ReadExtend, ReadExtra, Generate, ReadPlace, Discard, At, Ended
  <2>2. Alone(r) /\ ~tx'[r].lost /\ tx'[r].pc \notin Late \cup {"profile insert"}
    <3>1. ASSUME NEW new, Adopt(r, new)
          PROVE  Alone(r) /\ ~tx'[r].lost /\ tx'[r].pc \notin Late \cup {"profile insert"}
      BY <1>t, <1>p, <1>n, <3>1 DEF Adopt, Step, Alone, Tx
    <3>2. CASE ReadExtend(r)
      <4>1. ASSUME Step(r, [tx[r] EXCEPT !.pc = "extend new", !.open = sess])
            PROVE  Alone(r) /\ ~tx'[r].lost /\ tx'[r].pc \notin Late \cup {"profile insert"}
        BY <1>t, <1>p, <4>1 DEF Step, Alone, Tx, Late
      <4>2. ASSUME Close(r, "rejected")
            PROVE  Alone(r) /\ ~tx'[r].lost /\ tx'[r].pc \notin Late \cup {"profile insert"}
        BY <1>c, <1>o, <4>2
      <4>3. QED
        BY <3>2, <4>1, <4>2 DEF ReadExtend
    <3>3. CASE ReadExtra(r)
      BY <1>t, <1>p, <3>1, <3>3 DEF ReadExtra, Step, Alone, Tx, Late
    <3>4. CASE Generate(r)
      BY <1>c, <1>o, <3>1, <3>4 DEF Generate
    <3>5. CASE ReadPlace(r)
      <4>1. ASSUME Step(r, [tx[r] EXCEPT !.pc = "discard", !.open = sess])
            PROVE  Alone(r) /\ ~tx'[r].lost /\ tx'[r].pc \notin Late \cup {"profile insert"}
        BY <1>t, <1>p, <4>1 DEF Step, Alone, Tx, Late
      <4>2. ASSUME Close(r, "ok")
            PROVE  Alone(r) /\ ~tx'[r].lost /\ tx'[r].pc \notin Late \cup {"profile insert"}
        BY <1>c, <1>o, <4>2
      <4>3. QED
        BY <3>5, <4>1, <4>2 DEF ReadPlace
    <3>6. CASE Discard(r)
      BY <1>t, <1>p, <3>6 DEF Discard, Step, Alone, Tx, Late
    <3>7. QED
      BY <1>12, <3>2, <3>3, <3>4, <3>5, <3>6
  <2>3. QED
    BY <1>q, <2>1, <2>2
<1>13. QED
  BY <1>1, <1>2, <1>3, <1>4, <1>5, <1>6, <1>7, <1>8, <1>9, <1>10, <1>11, <1>12
  DEF Advance, AbortDeadlock

(* Of a learner whose user rows exist when the day begins: what the session *)
(* counts as done is in attempt_log, and tag counters and XP never exceed   *)
(* what the logged attempts earn, whatever ran concurrently (on the very    *)
(* first day the code breaks this).                                        *)
THEOREM CreditBacked == ~FirstDay => (Spec => []CreditBackedByLog)
<1> SUFFICES ASSUME ~FirstDay PROVE Spec => []CreditBackedByLog
  OBVIOUS
<1>1. Init => CreditInv
  <2> SUFFICES ASSUME Init PROVE CreditInv
    OBVIOUS
  <2>1. log = {} /\ Cardinality(log) = 0 /\ Earned = 0
    <3>1. log = {} /\ {q \in log : tx[q].ok} = {} /\ {q \in log : ~tx[q].ok} = {}
      BY DEF Init
    <3>2. QED
      BY <3>1, FS_EmptySet DEF Earned
  <2>2. /\ ~Blank.lost /\ Blank.pc \notin Late \cup {"profile insert"}
    BY DEF Blank, Late
  <2>3. totals.made /\ totals.tags = 0 /\ totals.xp = 0
    BY DEF Init
  <2>4. CreditRead
    <3>1. \A r \in Req : tx[r] = Blank
      BY DEF Init
    <3>2. QED
      BY <2>2, <3>1 DEF CreditRead, Late
  <2>5. CreditBackedByLog
    BY <2>1, <2>3 DEF Init, CreditBackedByLog, DoneIsLogged, NoSession
  <2>6. QED
    BY <2>3, <2>4, <2>5 DEF CreditInv
<1>2. CreditInv => CreditBackedByLog
  BY DEF CreditInv
<1>3. QED
  BY <1>1, <1>2, InitCountInv, StepCountInv, StepCreditInv, StudyInvariant, PTL DEF Spec
-----------------------------------------------------------------------------
(* Plans.  The kind of a request fits where it is.  What a build or an      *)
(* extension plans has a row, or one that it holds, or is still to get one; *)
(* only a placement test that has committed takes rows away.               *)

HasRow == {i \in Items : Exists(rec[i])}

KindFits(t) ==
    /\ t.pc \in {"reuse", "due", "new", "open"} => t.kind = "build"
    /\ t.pc \in {"extend", "extend new", "generate", "extend commit"} => t.kind = "extend"
    /\ t.pc \in {"place", "discard", "discarded"} => t.kind = "place"
    /\ t.pc \in Finding => t.kind \in {"attempt", "build", "extend"}
    /\ t.pc \notin Finding => t.todo = {}

RowsFit(t, rows) ==
    /\ t.kind \in {"build", "extend"} => t.plan \subseteq rows \cup t.held \cup t.todo
    /\ t.kind = "extend" => t.open.planned \subseteq rows

PlanInv ==
    /\ \A r \in Req : KindFits(tx[r])
    /\ \/ PlacementTaken
       \/ sess.planned \subseteq HasRow /\ \A r \in Req : RowsFit(tx[r], HasRow)

LEMMA Moves ==
    ASSUME StudyInv, NEW r \in Req, Arrive(r) \/ Advance(r) \/ Fail(r)
    PROVE  tx[r].pc \notin Ended /\ Alone(r)
<1>1. tx \in [Req -> Tx]
  BY DEF StudyInv, TypeOK
<1>2. \A new : Step(r, new) => Alone(r)
  BY <1>1 DEF Step, Alone
<1>3. \A outcome : Close(r, outcome) => Alone(r)
  BY <1>1 DEF Close, Step, Alone
<1>4. \A i, row, held : GotRow(r, i, row, held) => Alone(r)
  BY <1>1 DEF GotRow, Step, Alone
<1>5. \A new : Adopt(r, new) => Alone(r)
  BY <1>1 DEF Adopt, Step, Alone
<1>6. CASE Arrive(r)
  BY <1>2, <1>6 DEF Arrive, BeginBuild, BeginExtend, BeginPlace, BeginAttempt, Begin,
     At, Ended
<1>7. CASE Fail(r)
  BY <1>3, <1>7 DEF Fail, Active, Rollback
<1>8. CASE Advance(r)
  <2>1. CASE SelectRow(r) \/ InsertRow(r)
    BY <1>2, <1>3, <1>4, <2>1 DEF SelectRow, Select, InsertRow, At, Ended
  <2>2. CASE Reuse(r) \/ ReadDue(r) \/ ReadNew(r) \/ OpenSession(r)
    BY <1>2, <1>3, <2>2 DEF Reuse, ReadDue, ReadNew, OpenSession, At, Ended
  <2>3. CASE Schedule(r) \/ ReadProfile(r) \/ InsertProfile(r) \/ ReadMotivation(r)
    BY <1>2, <1>3, <2>3 DEF Schedule, ReadProfile, InsertProfile, ReadMotivation, At, Ended
  <2>4. CASE Save(r) \/ ReadSession(r) \/ CommitAttempt(r)
    BY <1>2, <1>3, <2>4 DEF Save, ReadSession, CommitAttempt, Rollback, At, Ended
  <2>5. CASE ReadExtend(r) \/ ReadExtra(r) \/ Generate(r) \/ CommitExtend(r)
    BY <1>2, <1>3, <1>5, <2>5
    DEF ReadExtend, ReadExtra, Generate, CommitExtend, Rollback, At, Ended
  <2>6. CASE ReadPlace(r) \/ Discard(r) \/ CommitPlace(r)
    BY <1>2, <1>3, <2>6 DEF ReadPlace, Discard, CommitPlace, At, Ended
  <2>7. QED
    BY <1>7, <1>8, <2>1, <2>2, <2>3, <2>4, <2>5, <2>6 DEF Advance, AbortDeadlock
<1>9. QED
  BY <1>6, <1>7, <1>8

(* A committed placement test stays one: requests are used once.           *)
LEMMA PlacementStays ==
    ASSUME NEW r \in Req, tx[r].pc \notin Ended, Alone(r), PlacementTaken
    PROVE  PlacementTaken'
<1>1. PICK q \in Req : tx[q].kind = "place" /\ tx[q].pc = "ok"
  BY DEF PlacementTaken, At
<1>2. q # r
  BY <1>1 DEF Ended
<1>3. tx'[q].kind = "place" /\ tx'[q].pc = "ok"
  BY <1>1, <1>2 DEF Alone
<1>4. QED
  BY <1>3 DEF PlacementTaken, At

LEMMA PlanMove ==
    ASSUME StudyInv, PlanInv, NEW r \in Req, tx[r].pc \notin Ended, Alone(r),
           KindFits(tx'[r]),
           ~PlacementTaken => \/ PlacementTaken'
                              \/ /\ HasRow \subseteq HasRow'
                                 /\ sess'.planned \subseteq HasRow'
                                 /\ RowsFit(tx'[r], HasRow')
    PROVE  PlanInv'
<1>1. \A q \in Req : KindFits(tx'[q])
  <2>1. \A q \in Req \ {r} : tx'[q] = tx[q] /\ KindFits(tx[q])
    BY DEF Alone, PlanInv
  <2>2. QED
    BY <2>1
<1>2. CASE PlacementTaken \/ PlacementTaken'
  BY <1>1, <1>2, PlacementStays DEF PlanInv
<1>3. CASE ~PlacementTaken /\ ~PlacementTaken'
  <2>1. ASSUME NEW q \in Req \ {r} PROVE RowsFit(tx'[q], HasRow')
    <3>1. tx'[q] = tx[q] /\ RowsFit(tx[q], HasRow)
      BY <1>3, <2>1 DEF Alone, PlanInv
    <3>2. HasRow \subseteq HasRow'
      BY <1>3
    <3>3. QED
      BY <3>1, <3>2 DEF RowsFit
  <2>2. \A q \in Req : RowsFit(tx'[q], HasRow')
    BY <1>3, <2>1
  <2>3. QED
    BY <1>1, <1>3, <2>2 DEF PlanInv
<1>4. QED
  BY <1>2, <1>3

LEMMA InitPlanInv == Init => PlanInv
<1> SUFFICES ASSUME Init PROVE PlanInv
  OBVIOUS
<1>1. KindFits(Blank)
  BY DEF Blank, KindFits, Finding
<1>2. RowsFit(Blank, HasRow)
  BY DEF Blank, RowsFit, None
<1>3. QED
  BY <1>1, <1>2 DEF Init, PlanInv, NoSession

(* Only a placement test takes review rows away when it commits.           *)
LEMMA RowsKept ==
    ASSUME StudyInv, NEW r \in Req, tx[r].kind # "place",
           tx[r].kind = "attempt" => Exists(tx[r].row), rec' = Committed(r)
    PROVE  HasRow' = HasRow \cup tx[r].held
<1>1. tx[r].held \subseteq Items
  BY DEF StudyInv, TypeOK, Tx
<1>2. Exists(Written(r))
  <2>1. tx[r].row \in Row
    BY DEF StudyInv, TypeOK, Tx
  <2>2. QED
    BY <2>1, ReqAssumption DEF Written, Exists, NewRow, Row
<1>3. \A i \in Items : rec'[i] = IF i \in tx[r].held THEN Written(r) ELSE rec[i]
  BY DEF Committed
<1>4. QED
  BY <1>1, <1>2, <1>3 DEF HasRow, Exists

LEMMA StepPlanInv == StudyInv /\ PlanInv /\ [Next]_vars => PlanInv'
<1>0. ASSUME PlanInv, UNCHANGED vars PROVE PlanInv'
  BY <1>0 DEF PlanInv, HasRow, PlacementTaken, At, vars
<1> SUFFICES ASSUME StudyInv, PlanInv, Next PROVE PlanInv'
  BY <1>0
<1> PICK r \in Req : Arrive(r) \/ Advance(r) \/ Fail(r)
  BY DEF Next
<1>m. tx[r].pc \notin Ended /\ Alone(r)
  BY Moves
<1>t. tx[r] \in Tx /\ sess \in Session /\ tx \in [Req -> Tx]
  BY DEF StudyInv, TypeOK
<1>k. KindFits(tx[r]) /\ \/ PlacementTaken
                         \/ sess.planned \subseteq HasRow /\ RowsFit(tx[r], HasRow)
  BY DEF PlanInv
<1>u. Unwritten => HasRow' = HasRow /\ sess' = sess
  BY DEF Unwritten, HasRow
<1>o. {"ok", "error", "rejected"} \subseteq Ended
  BY DEF Ended
(* A request that ends plans nothing any more.                              *)
<1>e. ASSUME NEW outcome \in Ended, Close(r, outcome)
      PROVE  /\ KindFits(tx'[r]) /\ (\A rows : RowsFit(tx'[r], rows))
             /\ tx'[r].pc = outcome /\ tx'[r].kind = tx[r].kind
  <2>1. /\ tx'[r].pc = outcome /\ tx'[r].todo = {} /\ tx'[r].plan = {}
        /\ tx'[r].open = NoSession /\ tx'[r].kind = tx[r].kind
    BY <1>e, <1>t DEF Close, Step, Tx
  <2>2. KindFits(tx'[r])
    BY <2>1 DEF KindFits, Ended, Finding
  <2>3. \A rows : RowsFit(tx'[r], rows)
    BY <2>1 DEF RowsFit, NoSession
  <2>4. QED
    BY <2>1, <2>2, <2>3
<1>c. ASSUME NEW outcome \in Ended, Close(r, outcome), HasRow' = HasRow, sess' = sess
      PROVE  PlanInv'
  BY <1>c, <1>e, <1>k, <1>m, PlanMove
(* A step that leaves the rows and the session alone.                       *)
<1>q. ASSUME HasRow' = HasRow, sess' = sess, KindFits(tx'[r]),
             RowsFit(tx[r], HasRow) /\ sess.planned \subseteq HasRow =>
                 RowsFit(tx'[r], HasRow)
      PROVE  PlanInv'
  BY <1>q, <1>k, <1>m, PlanMove
(* One that keeps the plan and what backs it.                               *)
<1>s. ASSUME HasRow' = HasRow, sess' = sess, KindFits(tx'[r]),
             tx'[r].kind = tx[r].kind, tx'[r].plan = tx[r].plan,
             tx'[r].todo = tx[r].todo, tx'[r].open = tx[r].open,
             tx'[r].kind \in {"build", "extend"} => tx'[r].held = tx[r].held
      PROVE  PlanInv'
  BY <1>s, <1>q DEF RowsFit
<1>1. CASE Arrive(r)
  <2>1. Unwritten
    BY <1>1 DEF Arrive, BeginBuild, BeginExtend, BeginPlace, BeginAttempt, Begin
  <2>2. /\ tx'[r].plan = {} /\ tx'[r].open = NoSession
        /\ \/ tx'[r].kind = "build" /\ tx'[r].pc = "reuse" /\ tx'[r].todo = {}
           \/ tx'[r].kind = "extend" /\ tx'[r].pc = "extend" /\ tx'[r].todo = {}
           \/ tx'[r].kind = "place" /\ tx'[r].pc = "place" /\ tx'[r].todo = {}
           \/ tx'[r].kind = "attempt" /\ tx'[r].pc = "select"
    <3>1. ASSUME NEW kind, NEW pc, Begin(r, kind, pc)
          PROVE  /\ tx'[r].pc = pc /\ tx'[r].kind = kind /\ tx'[r].todo = {}
                 /\ tx'[r].plan = {} /\ tx'[r].open = NoSession
      BY <1>t, <3>1 DEF Begin, Step, Blank
    <3>2. CASE BeginAttempt(r)
      BY <1>t, <3>2 DEF BeginAttempt, Step, Blank
    <3>3. QED
      BY <1>1, <3>1, <3>2 DEF Arrive, BeginBuild, BeginExtend, BeginPlace
  <2>3. KindFits(tx'[r])
    BY <2>2 DEF KindFits, Finding
  <2>4. RowsFit(tx'[r], HasRow)
    BY <2>2 DEF RowsFit, NoSession
  <2>5. QED
    BY <1>q, <1>u, <2>1, <2>3, <2>4
<1>2. CASE Fail(r)
  BY <1>2, <1>c, <1>o, <1>u DEF Fail, Rollback
<1>g. ASSUME NEW i, NEW row, NEW held, GotRow(r, i, row, held), Unwritten,
             tx[r].pc \in Finding, tx[r].held \subseteq held,
             i \in HasRow \cup held
      PROVE  PlanInv'
  <2>1. /\ tx'[r].todo = tx[r].todo \ {i} /\ tx'[r].held = held
        /\ tx'[r].kind = tx[r].kind /\ tx'[r].plan = tx[r].plan
        /\ tx'[r].open = tx[r].open
        /\ tx'[r].pc = NextRow(tx[r].kind, tx[r].todo \ {i})
    BY <1>g, <1>t DEF GotRow, Step, Tx
  <2>2. tx[r].kind \in {"attempt", "build", "extend"}
    BY <1>g, <1>k DEF KindFits
  <2>3. KindFits(tx'[r])
    BY <2>1, <2>2 DEF KindFits, Finding, NextRow, AfterRows
  <2>4. RowsFit(tx[r], HasRow) => RowsFit(tx'[r], HasRow)
    BY <1>g, <2>1 DEF RowsFit
  <2>5. QED
    BY <1>g, <1>q, <1>u, <2>3, <2>4
<1>3. CASE SelectRow(r) \/ InsertRow(r)
  <2>1. Unwritten /\ tx[r].pc \in Finding
    BY <1>3 DEF SelectRow, Select, InsertRow, At, Finding
  <2>2. ASSUME NEW i, Step(r, [tx[r] EXCEPT !.pc = "insert", !.item = i]) PROVE PlanInv'
    <3>1. /\ tx'[r].pc = "insert" /\ tx'[r].kind = tx[r].kind
          /\ tx'[r].plan = tx[r].plan /\ tx'[r].todo = tx[r].todo
          /\ tx'[r].open = tx[r].open /\ tx'[r].held = tx[r].held
      BY <1>t, <2>2 DEF Step, Tx
    <3>2. KindFits(tx'[r])
      BY <1>k, <2>1, <3>1 DEF KindFits, Finding
    <3>3. QED
      BY <1>s, <1>u, <2>1, <3>1, <3>2
  <2>3. CASE Close(r, "error")
    BY <1>c, <1>o, <1>u, <2>1, <2>3
  <2>4. ASSUME NEW i \in tx[r].todo, Exists(rec[i]), GotRow(r, i, rec[i], tx[r].held)
        PROVE  PlanInv'
    <3>1. i \in HasRow
      BY <1>t, <2>4 DEF HasRow, Tx
    <3>2. QED
      BY <1>g, <2>1, <2>4, <3>1
  <2>5. ASSUME NEW i, GotRow(r, i, NewRow(r), tx[r].held \cup {i})
        PROVE  PlanInv'
    BY <1>g, <2>1, <2>5
  <2>6. QED
    BY <1>3, <2>2, <2>3, <2>4, <2>5, OldestSubset DEF SelectRow, Select, InsertRow
<1>4. CASE Reuse(r)
  <2>1. HasRow' = HasRow /\ sess' = sess /\ tx[r].pc = "reuse"
    BY <1>4 DEF Reuse, HasRow, At
  <2>2. CASE Step(r, [tx[r] EXCEPT !.pc = "due"])
    <3>1. /\ tx'[r].pc = "due" /\ tx'[r].kind = tx[r].kind
          /\ tx'[r].plan = tx[r].plan /\ tx'[r].todo = tx[r].todo
          /\ tx'[r].open = tx[r].open /\ tx'[r].held = tx[r].held
      BY <1>t, <2>2 DEF Step, Tx
    <3>2. KindFits(tx'[r])
      BY <1>k, <2>1, <3>1 DEF KindFits, Finding
    <3>3. QED
      BY <1>s, <2>1, <3>1, <3>2
  <2>3. QED
    BY <1>4, <1>c, <1>o, <2>1, <2>2 DEF Reuse
<1>5. CASE ReadDue(r)
  <2>1. Unwritten /\ tx[r].pc = "due"
    BY <1>5 DEF ReadDue, At
  <2>2. PICK due \in SUBSET HasRow : Step(r, [tx[r] EXCEPT !.pc = "new", !.plan = due])
    BY <1>5 DEF ReadDue, HasRow
  <2>3. /\ tx'[r].pc = "new" /\ tx'[r].kind = tx[r].kind /\ tx'[r].plan = due
        /\ tx'[r].todo = tx[r].todo /\ tx'[r].open = tx[r].open
    BY <1>t, <2>2 DEF Step, Tx
  <2>4. KindFits(tx'[r])
    BY <1>k, <2>1, <2>3 DEF KindFits, Finding
  <2>5. RowsFit(tx[r], HasRow) => RowsFit(tx'[r], HasRow)
    BY <2>2, <2>3 DEF RowsFit
  <2>6. QED
    BY <1>q, <1>u, <2>1, <2>4, <2>5
<1>6. CASE ReadNew(r)
  <2>1. Unwritten /\ tx[r].pc = "new"
    BY <1>6 DEF ReadNew, At
  <2>2. PICK new : Step(r, [tx[r] EXCEPT !.todo = new, !.plan = @ \cup new,
                                         !.pc = NextRow("build", new)])
    BY <1>6 DEF ReadNew
  <2>3. /\ tx'[r].pc = NextRow("build", new) /\ tx'[r].kind = tx[r].kind
        /\ tx'[r].plan = tx[r].plan \cup new /\ tx'[r].todo = new
        /\ tx'[r].open = tx[r].open /\ tx'[r].held = tx[r].held
    BY <1>t, <2>2 DEF Step, Tx
  <2>4. tx[r].kind = "build" /\ tx[r].todo = {}
    BY <1>k, <2>1 DEF KindFits, Finding
  <2>5. KindFits(tx'[r])
    BY <2>3, <2>4 DEF KindFits, Finding, NextRow, AfterRows
  <2>6. RowsFit(tx[r], HasRow) => RowsFit(tx'[r], HasRow)
    BY <2>3, <2>4 DEF RowsFit
  <2>7. QED
    BY <1>q, <1>u, <2>1, <2>5, <2>6
<1>7. CASE OpenSession(r)
  <2>1. tx[r].pc = "open" /\ tx[r].kind = "build" /\ tx[r].todo = {}
    BY <1>7, <1>k DEF OpenSession, At, KindFits, Finding
  <2>2. CASE Close(r, "error") /\ UNCHANGED <<rec, sess>>
    BY <1>c, <1>o, <2>2 DEF HasRow
  <2>3. CASE ~(Close(r, "error") /\ UNCHANGED <<rec, sess>>)
    <3>1. /\ sess' = [by |-> r, planned |-> tx[r].plan \cap HasProblem, done |-> {}]
          /\ rec' = Committed(r) /\ Close(r, "ok")
      BY <1>7, <2>3 DEF OpenSession
    <3>2. HasRow' = HasRow \cup tx[r].held
      BY <2>1, <3>1, RowsKept
    <3>3. sess'.planned = tx[r].plan \cap HasProblem
      BY <3>1
    <3>4. RowsFit(tx[r], HasRow) => sess'.planned \subseteq HasRow'
      BY <2>1, <3>2, <3>3 DEF RowsFit
    <3>5. QED
      BY <1>e, <1>k, <1>m, <1>o, <3>1, <3>2, <3>4, PlanMove
  <2>4. QED
    BY <2>2, <2>3
(* record_attempt between its row and its commit plans nothing.             *)
<1>a. ASSUME Unwritten, tx[r].pc \in Scheduled \cup {"schedule"},
             tx'[r].pc \in Scheduled,
             tx'[r].kind = tx[r].kind, tx'[r].todo = tx[r].todo
      PROVE  PlanInv'
  <2>1. tx[r].kind = "attempt" /\ tx[r].todo = {}
    BY <1>a, <1>k DEF StudyInv, AttemptInv, KindFits, Finding, Scheduled
  <2>2. KindFits(tx'[r])
    BY <1>a, <2>1 DEF KindFits, Finding, Scheduled
  <2>3. RowsFit(tx'[r], HasRow)
    BY <1>a, <2>1 DEF RowsFit
  <2>4. QED
    BY <1>a, <1>q, <1>u, <2>2, <2>3
<1>8. CASE Schedule(r)
  <2>1. Unwritten /\ tx[r].pc = "schedule"
    BY <1>8 DEF Schedule, At
  <2>2. CASE Step(r, [tx[r] EXCEPT !.pc = "profile", !.held = {tx[r].item}])
    BY <1>a, <1>t, <2>1, <2>2 DEF Step, Tx, Scheduled
  <2>3. QED
    BY <1>8, <1>c, <1>o, <1>u, <2>1, <2>2 DEF Schedule
<1>9. CASE ReadProfile(r) \/ InsertProfile(r)
  <2>1. Unwritten /\ tx[r].pc \in Scheduled
    BY <1>9 DEF ReadProfile, InsertProfile, At, Scheduled
  <2>2. tx'[r].pc \in Scheduled /\ tx'[r].kind = tx[r].kind /\ tx'[r].todo = tx[r].todo
    <3>1. CASE ReadProfile(r)
      BY <1>t, <3>1 DEF ReadProfile, Step, Tx, Scheduled
    <3>2. CASE InsertProfile(r)
      BY <1>t, <3>2 DEF InsertProfile, Step, Tx, Scheduled
    <3>3. QED
      BY <1>9, <3>1, <3>2
  <2>3. QED
    BY <1>a, <2>1, <2>2
<1>10. CASE ReadMotivation(r) \/ Save(r) \/ ReadSession(r)
  <2>1. Unwritten /\ tx[r].pc \in Scheduled
    BY <1>10 DEF ReadMotivation, Save, ReadSession, At, Scheduled
  <2>2. tx'[r].pc \in Scheduled /\ tx'[r].kind = tx[r].kind /\ tx'[r].todo = tx[r].todo
    <3>1. CASE ReadMotivation(r)
      BY <1>t, <3>1 DEF ReadMotivation, Step, Tx, Scheduled
    <3>2. CASE Save(r)
      BY <1>t, <3>2 DEF Save, Step, Tx, Scheduled
    <3>3. CASE ReadSession(r)
      BY <1>t, <3>3 DEF ReadSession, Step, Tx, Scheduled
    <3>4. QED
      BY <1>10, <3>1, <3>2, <3>3
  <2>3. QED
    BY <1>a, <2>1, <2>2
<1>11. CASE CommitAttempt(r)
  <2>1. tx[r].kind = "attempt" /\ Exists(tx[r].row)
    BY <1>11 DEF CommitAttempt, At, StudyInv, AttemptInv, Scheduled
  <2>2. CASE Rollback(r, "error")
    BY <1>c, <1>o, <1>u, <2>2 DEF Rollback
  <2>3. CASE ~Rollback(r, "error")
    <3>1. /\ rec' = Committed(r) /\ Close(r, IF tx[r].lost THEN "error" ELSE "ok")
          /\ sess' = IF Exists(tx[r].open)
                     THEN [sess EXCEPT !.done = tx[r].open.done \cup {r}]
                     ELSE sess
      BY <1>11, <2>3 DEF CommitAttempt
    <3>2. HasRow' = HasRow \cup tx[r].held
      BY <2>1, <3>1, RowsKept
    <3>3. sess'.planned = sess.planned
      BY <1>t, <3>1 DEF Session
    <3>4. KindFits(tx'[r]) /\ \A rows : RowsFit(tx'[r], rows)
      BY <1>e, <1>o, <3>1
    <3>5. QED
      BY <1>k, <1>m, <3>2, <3>3, <3>4, PlanMove
  <2>4. QED
    BY <2>2, <2>3
<1>12. CASE ReadExtend(r)
  <2>1. Unwritten /\ tx[r].pc = "extend"
    BY <1>12 DEF ReadExtend, At
  <2>2. CASE Step(r, [tx[r] EXCEPT !.pc = "extend new", !.open = sess])
    <3>1. /\ tx'[r].pc = "extend new" /\ tx'[r].kind = tx[r].kind
          /\ tx'[r].plan = tx[r].plan /\ tx'[r].todo = tx[r].todo
          /\ tx'[r].open = sess /\ tx'[r].held = tx[r].held
      BY <1>t, <2>2 DEF Step, Tx
    <3>2. KindFits(tx'[r])
      BY <1>k, <2>1, <3>1 DEF KindFits, Finding
    <3>3. RowsFit(tx[r], HasRow) /\ sess.planned \subseteq HasRow => RowsFit(tx'[r], HasRow)
      BY <3>1 DEF RowsFit
    <3>4. QED
      BY <1>q, <1>u, <2>1, <3>2, <3>3
  <2>3. QED
    BY <1>12, <1>c, <1>o, <1>u, <2>1, <2>2 DEF ReadExtend
<1>d. ASSUME NEW new, Adopt(r, new), tx[r].kind = "extend", HasRow' = HasRow, sess' = sess
      PROVE  PlanInv'
  <2>1. /\ tx'[r].pc = NextRow("extend", new) /\ tx'[r].kind = tx[r].kind
        /\ tx'[r].plan = new /\ tx'[r].todo = new /\ tx'[r].open = tx[r].open
    BY <1>d, <1>t DEF Adopt, Step, Tx
  <2>2. KindFits(tx'[r])
    BY <1>d, <2>1 DEF KindFits, Finding, NextRow, AfterRows
  <2>3. RowsFit(tx[r], HasRow) => RowsFit(tx'[r], HasRow)
    BY <2>1 DEF RowsFit
  <2>4. QED
    BY <1>d, <1>q, <2>2, <2>3
<1>13. CASE ReadExtra(r) \/ Generate(r)
  <2>1. /\ tx[r].kind = "extend" /\ HasRow' = HasRow /\ sess' = sess
        /\ tx[r].pc \in {"extend new", "generate"}
    BY <1>13, <1>k, <1>u DEF ReadExtra, Generate, At, KindFits, HasRow
  <2>2. CASE Step(r, [tx[r] EXCEPT !.pc = "generate"])
    <3>1. /\ tx'[r].pc = "generate" /\ tx'[r].kind = tx[r].kind
          /\ tx'[r].plan = tx[r].plan /\ tx'[r].todo = tx[r].todo
          /\ tx'[r].open = tx[r].open /\ tx'[r].held = tx[r].held
      BY <1>t, <2>2 DEF Step, Tx
    <3>2. KindFits(tx'[r])
      BY <1>k, <2>1, <3>1 DEF KindFits, Finding
    <3>3. QED
      BY <1>s, <2>1, <3>1, <3>2
  <2>3. QED
    BY <1>13, <1>c, <1>d, <1>o, <2>1, <2>2 DEF ReadExtra, Generate
<1>14. CASE CommitExtend(r)
  <2>1. tx[r].kind = "extend" /\ tx[r].todo = {}
    BY <1>14, <1>k DEF CommitExtend, At, KindFits, Finding
  <2>2. CASE Rollback(r, "error")
    BY <1>c, <1>o, <1>u, <2>2 DEF Rollback
  <2>3. CASE ~Rollback(r, "error")
    <3> DEFINE added == tx[r].plan \cap HasProblem
    <3>1. /\ rec' = Committed(r) /\ Close(r, "ok")
          /\ sess' = IF added = {} THEN sess
                     ELSE [sess EXCEPT !.planned = tx[r].open.planned \cup added]
      BY <1>14, <2>3 DEF CommitExtend
    <3>2. HasRow' = HasRow \cup tx[r].held
      BY <2>1, <3>1, RowsKept
    <3>3. sess'.planned = sess.planned \/ sess'.planned = tx[r].open.planned \cup added
      BY <1>t, <3>1 DEF Session
    <3>4. sess.planned \subseteq HasRow /\ RowsFit(tx[r], HasRow) =>
             sess'.planned \subseteq HasRow'
      BY <2>1, <3>2, <3>3 DEF RowsFit
    <3>5. QED
      BY <1>e, <1>k, <1>m, <1>o, <3>1, <3>2, <3>4, PlanMove
  <2>4. QED
    BY <2>2, <2>3
<1>15. CASE ReadPlace(r) \/ Discard(r)
  <2>1. Unwritten /\ tx[r].kind = "place" /\ tx[r].todo = {}
    BY <1>15, <1>k DEF ReadPlace, Discard, At, KindFits, Finding
  <2>2. ASSUME tx'[r].pc \in {"discard", "discarded"}, tx'[r].kind = tx[r].kind,
               tx'[r].todo = tx[r].todo
        PROVE  PlanInv'
    <3>1. KindFits(tx'[r]) /\ RowsFit(tx'[r], HasRow)
      BY <2>1, <2>2 DEF KindFits, Finding, RowsFit
    <3>2. QED
      BY <1>q, <1>u, <2>1, <3>1
  <2>3. CASE Step(r, [tx[r] EXCEPT !.pc = "discard", !.open = sess])
    BY <1>t, <2>2, <2>3 DEF Step, Tx
  <2>4. ASSUME NEW held, Step(r, [tx[r] EXCEPT !.pc = "discarded", !.held = held])
        PROVE  PlanInv'
    BY <1>t, <2>2, <2>4 DEF Step, Tx
  <2>5. QED
    BY <1>15, <1>c, <1>o, <1>u, <2>1, <2>3, <2>4 DEF ReadPlace, Discard
<1>16. CASE CommitPlace(r)
  <2>1. tx[r].kind = "place" /\ Close(r, "ok")
    BY <1>16, <1>k DEF CommitPlace, At, KindFits
  <2>2. PlacementTaken'
    BY <1>e, <1>o, <2>1 DEF PlacementTaken, At
  <2>3. QED
    BY <1>e, <1>m, <1>o, <2>1, <2>2, PlanMove
<1>17. QED
  BY <1>1, <1>2, <1>3, <1>4, <1>5, <1>6, <1>7, <1>8, <1>9, <1>10, <1>11, <1>12,
     <1>13, <1>14, <1>15, <1>16
  DEF Advance, AbortDeadlock

(* Until a placement test commits, every item that the session plans has a  *)
(* review row: the rows that a build or an extension inserts are committed  *)
(* with the plan, and a row that it found is not taken away before.         *)
THEOREM PlannedRows == Spec => []PlannedHasRow
<1>1. PlanInv => PlannedHasRow
  BY DEF PlanInv, PlannedHasRow, HasRow
<1>2. QED
  BY <1>1, InitPlanInv, StepPlanInv, StudyInvariant, PTL DEF Spec

-----------------------------------------------------------------------------
(* The day's session is opened once: a build that finds one at its commit   *)
(* fails on the unique (user_id, date), and the writers of an open session  *)
(* keep whose it is and leave one of its lists alone.                      *)
THEOREM OneSession == Spec => SessionKept
<1> DEFINE Kept == Exists(sess) /\ Exists(sess') =>
                     /\ sess'.by = sess.by
                     /\ sess'.planned = sess.planned \/ sess'.done = sess.done
<1>1. ASSUME StudyInv, [Next]_vars
      PROVE  [Kept]_sess
  <2> SUFFICES ASSUME Next, sess' # sess, Exists(sess), Exists(sess') PROVE Kept
    BY <1>1 DEF vars
  <2>1. PICK r \in Req : Arrive(r) \/ Advance(r) \/ Fail(r)
    BY DEF Next
  <2>2. sess \in Session
    BY <1>1 DEF StudyInv, TypeOK
  <2>3. \/ OpenSession(r) \/ CommitAttempt(r) \/ CommitExtend(r) \/ CommitPlace(r)
    BY <2>1 DEF Arrive, Advance, AbortDeadlock, Fail, BeginBuild, BeginExtend, BeginPlace,
       BeginAttempt, Begin, Rollback, Unwritten, SelectRow, Select, InsertRow, Reuse,
       ReadDue, ReadNew, Schedule, ReadProfile, InsertProfile, ReadMotivation, Save,
       ReadSession, ReadExtend, ReadExtra, Generate, ReadPlace, Discard
  <2>4. CASE OpenSession(r)
    BY <2>4 DEF OpenSession
  <2>5. CASE CommitAttempt(r)
    <3>1. sess' = [sess EXCEPT !.done = tx[r].open.done \cup {r}]
      BY <2>5 DEF CommitAttempt, Rollback, Unwritten
    <3>2. QED
      BY <2>2, <3>1 DEF Session
  <2>6. CASE CommitExtend(r)
    <3>1. PICK planned : sess' = [sess EXCEPT !.planned = planned]
      BY <2>6 DEF CommitExtend, Rollback, Unwritten
    <3>2. QED
      BY <2>2, <3>1 DEF Session
  <2>7. CASE CommitPlace(r)
    BY <2>7 DEF CommitPlace, NoSession, Exists
  <2>8. QED
    BY <2>3, <2>4, <2>5, <2>6, <2>7
<1>2. QED
  BY <1>1, StudyInvariant, PTL DEF Spec, SessionKept
-----------------------------------------------------------------------------
(* Lock order.  A request holds nothing before it gets to its rows; a build *)
(* or an extension that waits for a row holds none of a later created_at, an *)
(* attempt none; the user rows are locked once, by a request past its review *)
(* row.                                                                    *)

Empty == {"idle", "reuse", "due", "new", "extend", "extend new", "generate", "place",
          "discard"}
Orderly(t) ==
    /\ t.pc \in Empty => t.held = {}
    /\ t.pc \in Finding => \A h \in t.held, i \in t.todo : Created[h] <= Created[i]
    /\ t.pc = "insert" => t.item \in First(t.todo)
    /\ t.pc \in Finding /\ t.kind = "attempt" => t.held = {} /\ t.todo \subseteq {t.item}
    /\ t.pc = "schedule" => t.held \subseteq {t.item}
    /\ t.pc \notin Finding => t.todo = {}
    /\ t.locked => t.pc \in Late

OrderInv ==
    /\ \A r \in Req : Orderly(tx[r])
    /\ \A p, q \in Req : tx[p].locked /\ tx[q].locked => p = q
    /\ IsFiniteSet({r \in Req : Active(r)})

(* A step of a request leaves the others as they are: it keeps the order if *)
(* the request is orderly after it and locks the user rows only when they   *)
(* are free.                                                               *)
LEMMA OrderMove ==
    ASSUME StudyInv, OrderInv, NEW r \in Req, Alone(r), tx' \in [Req -> Tx], Orderly(tx'[r]),
           tx'[r].locked => tx[r].locked \/ ~TotalsLocked(r)
    PROVE  OrderInv'
<1>1. \A q \in Req \ {r} : tx'[q] = tx[q]
  BY DEF Alone
<1>2. \A q \in Req : Orderly(tx[q])'
  <2> SUFFICES ASSUME NEW q \in Req PROVE Orderly(tx'[q])
    OBVIOUS
  <2>1. CASE q = r
    BY <2>1
  <2>2. CASE q # r
    BY <1>1, <2>2 DEF OrderInv
  <2>3. QED
    BY <2>1, <2>2
<1>3. ASSUME NEW p \in Req, NEW q \in Req, tx'[p].locked, tx'[q].locked PROVE p = q
  BY <1>1, <1>3 DEF OrderInv, TotalsLocked
<1>4. IsFiniteSet({q \in Req : Active(q)}')
  <2> DEFINE A == {q \in Req : Active(q)}
  <2>1. IsFiniteSet(A \cup {r})
    BY FS_AddElement DEF OrderInv
  <2>2. \A q \in Req : Active(q)' => q \in A \cup {r}
    BY <1>1 DEF Active
  <2>3. {q \in Req : Active(q)}' \subseteq A \cup {r}
    BY <2>2
  <2>4. QED
    BY <2>1, <2>3, FS_Subset
<1>5. QED
  BY <1>2, <1>3, <1>4 DEF OrderInv

LEMMA StepOrderInv ==
    ASSUME StudyInv, StudyInv', OrderInv, NEW r \in Req, Arrive(r) \/ Advance(r) \/ Fail(r)
    PROVE  OrderInv'
<1>t. /\ tx[r] \in Tx /\ tx \in [Req -> Tx] /\ tx' \in [Req -> Tx] /\ pool \subseteq Items
      /\ shown \subseteq Items /\ Created \in [Items -> Nat]
  BY ItemsAssumption DEF StudyInv, TypeOK
<1>o. /\ Orderly(tx[r])
      /\ tx[r].pc \in Elsewhere => tx[r].kind # "attempt"
  BY DEF OrderInv, StudyInv, AttemptInv
<1>m. ASSUME NEW new, Step(r, new), Orderly(new),
             new.locked => tx[r].locked \/ ~TotalsLocked(r)
      PROVE  OrderInv'
  <2>1. tx'[r] = new /\ Alone(r)
    BY <1>m, <1>t DEF Step, Alone
  <2>2. QED
    BY <1>m, <1>t, <2>1, OrderMove
<1>h. ASSUME NEW new, Step(r, new), new.held = {}, new.todo = {}, ~new.locked,
             new.pc \notin Finding
      PROVE  OrderInv'
  BY <1>h, <1>m DEF Orderly, Finding
<1>c. ASSUME NEW outcome, outcome \in Ended, Close(r, outcome) PROVE OrderInv'
  <2> DEFINE new == [tx[r] EXCEPT !.pc = outcome, !.todo = {}, !.plan = {}, !.held = {},
                                  !.row = NoRow, !.locked = FALSE, !.tags = 0, !.xp = 0,
                                  !.open = NoSession]
  <2>1. Step(r, new)
    BY <1>c DEF Close
  <2>2. /\ new.held = {} /\ new.todo = {} /\ ~new.locked /\ new.pc = outcome
    BY <1>t DEF Tx
  <2>3. outcome \notin Finding
    BY <1>c DEF Ended, Finding
  <2> HIDE DEF new
  <2>4. QED
    BY <1>h, <2>1, <2>2, <2>3
<1>e. {"ok", "error", "rejected"} \subseteq Ended
  BY DEF Ended
<1>w. /\ tx[r].pc \in Empty => tx[r].held = {} /\ tx[r].todo = {} /\ ~tx[r].locked
      /\ tx[r].pc \notin Finding => tx[r].todo = {}
      /\ tx[r].pc \notin Late => ~tx[r].locked
  BY <1>o DEF Orderly, Empty, Finding, Late
<1>n. ASSUME NEW kind, NEW todo
      PROVE  NextRow(kind, todo) = IF todo = {} THEN AfterRows(kind) ELSE "select"
  BY DEF NextRow
<1>a. ASSUME NEW kind
      PROVE  /\ AfterRows(kind) \notin Finding \cup Empty \cup Late
             /\ AfterRows(kind) = "schedule" => kind = "attempt"
  BY DEF AfterRows, Finding, Empty, Late
(* The first of the rows to get.                                           *)
<1>r. ASSUME NEW new, NEW todo, Step(r, new), new.todo = todo, new.held = {}, ~new.locked,
             new.kind # "attempt", NEW kind, kind # "attempt", new.pc = NextRow(kind, todo)
      PROVE  OrderInv'
  BY <1>r, <1>m, <1>n, <1>a DEF Orderly, Finding, Empty
<1>g. ASSUME tx[r].pc \in Finding, NEW i \in First(tx[r].todo), NEW row,
             NEW held, held = tx[r].held \/ held = tx[r].held \cup {i}, GotRow(r, i, row, held)
      PROVE  OrderInv'
  <2> DEFINE todo == tx[r].todo \ {i}
  <2>1. PICK now : Step(r, [tx[r] EXCEPT !.todo = todo, !.held = held, !.row = now,
                                         !.pc = NextRow(tx[r].kind, todo)])
    BY <1>g DEF GotRow
  <2> DEFINE new == [tx[r] EXCEPT !.todo = todo, !.held = held, !.row = now,
                                  !.pc = NextRow(tx[r].kind, todo)]
  <2>2. /\ new.todo = todo /\ new.held = held /\ new.pc = NextRow(tx[r].kind, todo)
        /\ new.kind = tx[r].kind /\ new.item = tx[r].item /\ new.locked = tx[r].locked
    BY <1>t DEF Tx
  <2> HIDE DEF new
  <2>3. i \in tx[r].todo /\ \A j \in tx[r].todo : Created[i] <= Created[j]
    BY DEF First
  <2>4. \A h \in held, j \in todo : Created[h] <= Created[j]
    <3>1. \A h \in tx[r].held, j \in tx[r].todo : Created[h] <= Created[j]
      BY <1>g, <1>o DEF Orderly
    <3>2. \A j \in todo : Created[i] <= Created[j]
      BY <2>3
    <3>3. QED
      BY <1>g, <3>1, <3>2
  <2>5. tx[r].kind = "attempt" => todo = {} /\ held \subseteq {tx[r].item}
    BY <1>g, <1>o, <2>3 DEF Orderly
  <2>6. ~tx[r].locked
    BY <1>g, <1>w DEF Finding, Late
  <2> HIDE DEF todo
  <2>7. Orderly(new)
    <3>1. CASE todo = {}
      BY <1>n, <1>a, <2>2, <2>5, <2>6, <3>1 DEF Orderly, Finding, AfterRows
    <3>2. CASE todo # {}
      BY <1>n, <2>2, <2>4, <2>5, <2>6, <3>2 DEF Orderly, Finding, Empty
    <3>3. QED
      BY <3>1, <3>2
  <2>8. QED
    BY <1>m, <2>1, <2>2, <2>6, <2>7 DEF new
<1>1. CASE Arrive(r)
  <2>1. ASSUME NEW kind, NEW pc, Begin(r, kind, pc), pc \notin Finding PROVE OrderInv'
    <3> DEFINE new == [Blank EXCEPT !.pc = pc, !.kind = kind]
    <3>1. Step(r, new) /\ new.held = {} /\ new.todo = {} /\ ~new.locked /\ new.pc = pc
      BY <2>1 DEF Begin, Blank
    <3> HIDE DEF new
    <3>2. QED
      BY <1>h, <2>1, <3>1
  <2>2. ASSUME BeginAttempt(r) PROVE OrderInv'
    <3>1. PICK i, correct :
             Step(r, [Blank EXCEPT !.pc = "select", !.kind = "attempt", !.item = i,
                                   !.ok = correct, !.todo = {i}])
      BY <2>2 DEF BeginAttempt
    <3> DEFINE new == [Blank EXCEPT !.pc = "select", !.kind = "attempt", !.item = i,
                                    !.ok = correct, !.todo = {i}]
    <3>2. /\ new.pc = "select" /\ new.item = i /\ new.todo = {i} /\ new.held = {}
          /\ ~new.locked
      BY DEF Blank
    <3> HIDE DEF new
    <3>3. Orderly(new)
      BY <3>2 DEF Orderly, Finding, Empty
    <3>4. QED
      BY <1>m, <3>1, <3>2, <3>3 DEF new
  <2>3. QED
    BY <1>1, <2>1, <2>2 DEF Arrive, BeginBuild, BeginExtend, BeginPlace, Finding
<1>2. CASE Fail(r)
  BY <1>2, <1>c, <1>e DEF Fail, Rollback
<1>3. CASE SelectRow(r)
  <2>1. PICK i \in First(tx[r].todo) :
           IF Exists(rec[i]) THEN GotRow(r, i, rec[i], tx[r].held)
           ELSE Step(r, [tx[r] EXCEPT !.pc = "insert", !.item = i])
    BY <1>3 DEF SelectRow, Select
  <2>2. tx[r].pc = "select" /\ tx[r].pc \in Finding
    BY <1>3 DEF SelectRow, Select, At, Finding
  <2>3. CASE Exists(rec[i])
    BY <1>g, <2>1, <2>2, <2>3
  <2>4. CASE ~Exists(rec[i])
    <3> DEFINE new == [tx[r] EXCEPT !.pc = "insert", !.item = i]
    <3>1. /\ new.pc = "insert" /\ new.todo = tx[r].todo /\ new.held = tx[r].held
          /\ new.kind = tx[r].kind /\ new.item = i /\ new.locked = tx[r].locked
      BY <1>t DEF Tx
    <3> HIDE DEF new
    <3>2. ~tx[r].locked
      BY <1>w, <2>2 DEF Late
    <3>3. tx[r].kind = "attempt" => tx[r].held = {} /\ tx[r].todo \subseteq {i}
      BY <1>o, <2>1, <2>2 DEF Orderly, First
    <3>4. Orderly(new)
      BY <1>o, <2>1, <2>2, <3>1, <3>2, <3>3 DEF Orderly, Finding, Empty
    <3>5. QED
      BY <1>m, <2>1, <2>4, <3>1, <3>2, <3>4 DEF new
  <2>5. QED
    BY <2>3, <2>4
<1>4. CASE InsertRow(r)
  <2>1. tx[r].pc = "insert" /\ tx[r].pc \in Finding
    BY <1>4 DEF InsertRow, At, Finding
  <2> DEFINE i == tx[r].item
  <2>2. IF Exists(rec[i]) THEN Close(r, "error")
        ELSE GotRow(r, i, NewRow(r), tx[r].held \cup {i})
    BY <1>4 DEF InsertRow
  <2>3. i \in First(tx[r].todo)
    BY <1>o, <2>1 DEF Orderly
  <2>4. QED
    BY <1>g, <1>c, <1>e, <2>1, <2>2, <2>3
<1>5. CASE Reuse(r) \/ ReadExtend(r) \/ ReadPlace(r)
  <2>1. tx[r].pc \in Empty
    BY <1>5 DEF Reuse, ReadExtend, ReadPlace, At, Empty
  <2>2. ASSUME NEW pc, Step(r, [tx[r] EXCEPT !.pc = pc]), pc \notin Finding PROVE OrderInv'
    <3> DEFINE new == [tx[r] EXCEPT !.pc = pc]
    <3>1. new.held = {} /\ new.todo = {} /\ ~new.locked /\ new.pc = pc
      BY <1>t, <1>w, <2>1 DEF Tx
    <3> HIDE DEF new
    <3>2. QED
      BY <1>h, <2>2, <3>1 DEF new
  <2>3. ASSUME NEW pc, Step(r, [tx[r] EXCEPT !.pc = pc, !.open = sess]), pc \notin Finding
        PROVE  OrderInv'
    <3> DEFINE new == [tx[r] EXCEPT !.pc = pc, !.open = sess]
    <3>1. new.held = {} /\ new.todo = {} /\ ~new.locked /\ new.pc = pc
      BY <1>t, <1>w, <2>1 DEF Tx
    <3> HIDE DEF new
    <3>2. QED
      BY <1>h, <2>3, <3>1 DEF new
  <2>4. CASE Reuse(r)
    <3>1. "due" \notin Finding
      BY DEF Finding
    <3>2. Close(r, "ok") \/ Step(r, [tx[r] EXCEPT !.pc = "due"])
      BY <2>4 DEF Reuse
    <3>3. QED
      BY <1>c, <1>e, <2>2, <3>1, <3>2
  <2>5. CASE ReadExtend(r)
    <3>1. "extend new" \notin Finding
      BY DEF Finding
    <3>2. Close(r, "rejected") \/ Step(r, [tx[r] EXCEPT !.pc = "extend new", !.open = sess])
      BY <2>5 DEF ReadExtend
    <3>3. QED
      BY <1>c, <1>e, <2>3, <3>1, <3>2
  <2>6. CASE ReadPlace(r)
    <3>1. "discard" \notin Finding
      BY DEF Finding
    <3>2. Close(r, "ok") \/ Step(r, [tx[r] EXCEPT !.pc = "discard", !.open = sess])
      BY <2>6 DEF ReadPlace
    <3>3. QED
      BY <1>c, <1>e, <2>3, <3>1, <3>2
  <2>7. QED
    BY <1>5, <2>4, <2>5, <2>6
<1>6. CASE ReadDue(r)
  <2>1. tx[r].pc \in Empty
    BY <1>6 DEF ReadDue, At, Empty
  <2>2. PICK due : Step(r, [tx[r] EXCEPT !.pc = "new", !.plan = due])
    BY <1>6 DEF ReadDue
  <2> DEFINE new == [tx[r] EXCEPT !.pc = "new", !.plan = due]
  <2>3. new.held = {} /\ new.todo = {} /\ ~new.locked /\ new.pc = "new"
    BY <1>t, <1>w, <2>1 DEF Tx
  <2> HIDE DEF new
  <2>4. "new" \notin Finding
    BY DEF Finding
  <2>5. QED
    BY <1>h, <2>2, <2>3, <2>4 DEF new
<1>7. CASE ReadNew(r)
  <2>1. tx[r].pc \in Empty /\ tx[r].pc \in Elsewhere
    BY <1>7 DEF ReadNew, At, Empty, Elsewhere
  <2>2. PICK new : Step(r, [tx[r] EXCEPT !.todo = new, !.plan = @ \cup new,
                                         !.pc = NextRow("build", new)])
    BY <1>7 DEF ReadNew
  <2> DEFINE tn == [tx[r] EXCEPT !.todo = new, !.plan = @ \cup new,
                                 !.pc = NextRow("build", new)]
  <2>3. /\ tn.todo = new /\ tn.held = tx[r].held /\ tn.pc = NextRow("build", new)
        /\ tn.kind = tx[r].kind /\ tn.locked = tx[r].locked
    BY <1>t DEF Tx
  <2> HIDE DEF tn
  <2>4. QED
    BY <1>r, <1>o, <1>w, <2>1, <2>2, <2>3 DEF tn
<1>8. CASE OpenSession(r) \/ CommitAttempt(r) \/ CommitExtend(r) \/ CommitPlace(r)
  <2>1. \E outcome \in Ended : Close(r, outcome)
    BY <1>8, <1>e DEF OpenSession, CommitAttempt, CommitExtend, CommitPlace, Rollback
  <2>2. QED
    BY <1>c, <2>1
<1>9. CASE Schedule(r)
  <2>1. tx[r].pc = "schedule" /\ ~tx[r].locked /\ tx[r].todo = {}
    BY <1>9, <1>w DEF Schedule, At, Finding, Late
  <2>2. ASSUME Step(r, [tx[r] EXCEPT !.pc = "profile", !.held = {tx[r].item}]) PROVE OrderInv'
    <3> DEFINE new == [tx[r] EXCEPT !.pc = "profile", !.held = {tx[r].item}]
    <3>1. new.pc = "profile" /\ new.todo = {} /\ ~new.locked
      BY <1>t, <2>1 DEF Tx
    <3> HIDE DEF new
    <3>2. Orderly(new)
      BY <3>1 DEF Orderly, Empty, Finding
    <3>3. QED
      BY <1>m, <2>2, <3>1, <3>2 DEF new
  <2>3. QED
    BY <1>9, <1>c, <1>e, <2>2 DEF Schedule
(* In the part after the review row.                                       *)
<1>p. ASSUME NEW new, Step(r, new), new.todo = {}, new.pc \in Scheduled,
             new.locked => new.pc \in Late /\ (tx[r].locked \/ ~TotalsLocked(r))
      PROVE  OrderInv'
  BY <1>p, <1>m DEF Orderly, Scheduled, Empty, Finding
<1>10. CASE ReadProfile(r) \/ InsertProfile(r)
  <2>1. tx[r].pc \in {"profile", "profile insert"} /\ ~tx[r].locked /\ tx[r].todo = {}
    BY <1>10, <1>w DEF ReadProfile, InsertProfile, At, Finding, Late
  <2>2. PICK new : /\ Step(r, new)
                   /\ \/ new = [tx[r] EXCEPT !.pc = "motivation", !.tags = totals.tags]
                      \/ new = [tx[r] EXCEPT !.pc = "profile insert"]
                      \/ new = [tx[r] EXCEPT !.pc = "motivation", !.tags = totals.tags,
                                             !.held = {}, !.lost = TRUE]
                      \/ /\ new = [tx[r] EXCEPT !.pc = "motivation", !.locked = TRUE]
                         /\ ~TotalsLocked(r)
    BY <1>10 DEF ReadProfile, InsertProfile
  <2>3. /\ new.todo = {} /\ new.pc \in {"motivation", "profile insert"}
        /\ new.locked => new.pc = "motivation" /\ ~TotalsLocked(r)
    BY <1>t, <2>1, <2>2 DEF Tx
  <2>4. QED
    BY <1>p, <2>2, <2>3 DEF Scheduled, Late
<1>11. CASE ReadMotivation(r) \/ Save(r) \/ ReadSession(r)
  <2>1. tx[r].todo = {}
    BY <1>11, <1>w DEF ReadMotivation, Save, ReadSession, At, Finding
  <2>2. PICK new : /\ Step(r, new)
                   /\ \/ new = [tx[r] EXCEPT !.pc = "save", !.xp = totals.xp]
                      \/ new = [tx[r] EXCEPT !.pc = "commit", !.open = sess]
                      \/ /\ new = [tx[r] EXCEPT !.pc = "session", !.locked = TRUE]
                         /\ ~TotalsLocked(r)
    BY <1>11 DEF ReadMotivation, Save, ReadSession
  <2>3. /\ new.todo = {} /\ new.pc \in {"save", "commit", "session"}
        /\ new.locked => tx[r].locked \/ ~TotalsLocked(r)
    BY <1>t, <2>1, <2>2 DEF Tx
  <2>4. QED
    BY <1>p, <2>2, <2>3 DEF Scheduled, Late
<1>12. CASE ReadExtra(r) \/ Generate(r)
  <2>1. tx[r].pc \in Empty /\ tx[r].pc \in Elsewhere
    BY <1>12 DEF ReadExtra, Generate, At, Empty, Elsewhere
  <2>2. ASSUME NEW todo, Adopt(r, todo) PROVE OrderInv'
    <3> DEFINE new == [tx[r] EXCEPT !.todo = todo, !.plan = todo,
                                    !.pc = NextRow("extend", todo)]
    <3>1. Step(r, new)
      BY <2>2 DEF Adopt
    <3>2. /\ new.todo = todo /\ new.held = tx[r].held /\ new.pc = NextRow("extend", todo)
          /\ new.kind = tx[r].kind /\ new.locked = tx[r].locked
      BY <1>t DEF Tx
    <3> HIDE DEF new
    <3>3. QED
      BY <1>r, <1>o, <1>w, <2>1, <3>1, <3>2
  <2>3. ASSUME Step(r, [tx[r] EXCEPT !.pc = "generate"]) PROVE OrderInv'
    BY <1>h, <1>t, <1>w, <2>1, <2>3 DEF Tx, Finding
  <2>4. QED
    BY <1>12, <1>c, <1>e, <2>2, <2>3 DEF ReadExtra, Generate
<1>13. CASE Discard(r)
  <2>1. tx[r].pc \in Empty
    BY <1>13 DEF Discard, At, Empty
  <2>2. PICK rows : Step(r, [tx[r] EXCEPT !.pc = "discarded", !.held = rows])
    BY <1>13 DEF Discard
  <2> DEFINE new == [tx[r] EXCEPT !.pc = "discarded", !.held = rows]
  <2>3. new.pc = "discarded" /\ new.todo = {} /\ ~new.locked
    BY <1>t, <1>w, <2>1 DEF Tx
  <2> HIDE DEF new
  <2>4. Orderly(new)
    BY <2>3 DEF Orderly, Empty, Finding
  <2>5. QED
    BY <1>m, <2>2, <2>3, <2>4 DEF new
<1>14. QED
  BY <1>1, <1>2, <1>3, <1>4, <1>5, <1>6, <1>7, <1>8, <1>9, <1>10, <1>11, <1>12, <1>13
     DEF Advance, AbortDeadlock

LEMMA InitOrderInv == Init => OrderInv
<1> SUFFICES ASSUME Init PROVE OrderInv
  OBVIOUS
<1>1. \A r \in Req : tx[r] = Blank
  BY DEF Init
<1>2. Orderly(Blank) /\ ~Blank.locked /\ Blank.pc = "idle"
  BY DEF Orderly, Blank, Finding
<1>3. {r \in Req : Active(r)} = {}
  BY <1>1, <1>2 DEF Active
<1>4. QED
  BY <1>1, <1>2, <1>3, FS_EmptySet DEF OrderInv

(* Among requests that all wait for one of them, nobody waits for the user  *)
(* rows, as who locks them waits for nobody; and a request that is waited   *)
(* for holds rows, so that it is at an insert.  Were the item of each later  *)
(* than those whose rows it holds, the one of the latest item would wait for *)
(* one of a later item.                                                    *)
LEMMA CircleTies == StudyInv /\ OrderInv => CirclesAreTies
<1> SUFFICES ASSUME StudyInv, OrderInv, NEW S \in SUBSET {r \in Req : Active(r)},
                    Circle(S),
                    \A r \in S : At(r, "insert") =>
                        \A h \in tx[r].held : Created[h] # Created[tx[r].item]
             PROVE  FALSE
  BY DEF CirclesAreTies
<1>0. S # {} /\ \A r \in S : \E q \in S : WaitsFor(r, q)
  BY DEF Circle
<1>1. \A r \in S : r \in Req /\ tx[r] \in Tx /\ Orderly(tx[r])
  BY DEF OrderInv, StudyInv, TypeOK
<1>2. \A r \in S : tx[r].pc \in {"insert", "schedule", "profile insert", "save", "discard"}
  BY <1>0 DEF WaitsFor, At
<1>3. \A r \in S : tx[r].locked => tx[r].pc = "save"
  BY <1>1, <1>2 DEF Orderly, Late
<1>4. ASSUME NEW r \in S PROVE ~tx[r].locked
  <2> SUFFICES ASSUME tx[r].locked PROVE FALSE
    OBVIOUS
  <2>1. PICK q \in S : WaitsFor(r, q)
    BY <1>0
  <2>2. q # r /\ tx[q].locked
    BY <1>3, <2>1 DEF WaitsFor, At
  <2>3. QED
    BY <1>1, <2>2 DEF OrderInv
<1>5. \A r \in S : tx[r].pc \in {"insert", "schedule", "discard"}
  BY <1>0, <1>2, <1>4 DEF WaitsFor, At
<1>6. ASSUME NEW r \in S, NEW q \in S, WaitsFor(r, q)
      PROVE  tx[q].held # {} /\ q # r
  BY <1>5, <1>6 DEF WaitsFor, At
<1>7. ASSUME NEW q \in S, tx[q].held # {} PROVE tx[q].pc = "insert"
  <2>1. tx[q].pc # "discard"
    BY <1>1, <1>7 DEF Orderly, Empty
  <2>2. ASSUME tx[q].pc = "schedule" PROVE FALSE
    <3>1. tx[q].held = {tx[q].item}
      BY <1>1, <1>7, <2>2 DEF Orderly
    <3>2. PICK p \in S : WaitsFor(q, p)
      BY <1>0
    <3>3. p # q /\ tx[q].item \in tx[p].held
      BY <2>2, <3>2 DEF WaitsFor, At
    <3>4. QED
      BY <1>1, <3>1, <3>3 DEF StudyInv, LockInv
  <2>3. QED
    BY <1>5, <2>1, <2>2
<1> DEFINE T == {q \in S : tx[q].held # {}}
<1>8. ASSUME NEW r \in T
      PROVE  \E q \in T : tx[r].item \in tx[q].held
  <2>1. PICK q \in S : WaitsFor(r, q)
    BY <1>0
  <2>2. q \in T /\ tx[r].pc = "insert"
    BY <1>6, <1>7, <2>1
  <2>3. QED
    BY <2>1, <2>2 DEF WaitsFor, At
<1>9. T # {}
  <2>1. PICK r \in S, q \in S : WaitsFor(r, q)
    BY <1>0
  <2>2. QED
    BY <1>6, <2>1
<1>10. ASSUME NEW q \in T, NEW h \in tx[q].held
       PROVE  Created[h] < Created[tx[q].item]
  <2>1. tx[q].pc = "insert" /\ tx[q].pc \in Finding
    BY <1>7 DEF Finding
  <2>2. tx[q].item \in tx[q].todo
    BY <1>1, <2>1 DEF Orderly, First
  <2>3. Created[h] \in Nat /\ Created[tx[q].item] \in Nat
    BY <1>1, ItemsAssumption DEF Tx
  <2>4. Created[h] <= Created[tx[q].item] /\ Created[h] # Created[tx[q].item]
    BY <1>1, <2>1, <2>2 DEF Orderly, At
  <2>5. QED
    BY <2>3, <2>4
<1>12. IsFiniteSet(T)
  BY FS_Subset DEF OrderInv
<1> DEFINE age == [q \in T |-> Created[tx[q].item]]
           L == {age[q] : q \in T}
<1>13. \A q \in T : age[q] \in Nat
  BY <1>1, ItemsAssumption DEF Tx
<1>16. ASSUME NEW q \in T, NEW r \in T, tx[r].item \in tx[q].held PROVE age[r] < age[q]
  BY <1>10, <1>16
<1>y. age \in Surjection(T, L)
  BY DEF Surjection
<1> HIDE DEF T, age
<1>14. IsFiniteSet(L) /\ L \in SUBSET Nat /\ L # {}
  <2>1. IsFiniteSet(L)
    BY <1>12, <1>y, FS_Surjection
  <2>2. QED
    BY <1>9, <1>13, <2>1
<1>15. PICK m \in Nat : L \subseteq 0..m
  BY <1>14, FiniteIsBounded
<1>17. Max(L) \in L /\ \A i \in L : Max(L) >= i
  BY <1>14, <1>15, MaxOfNaturals
<1>18. PICK r \in T : \A q \in T : age[q] <= age[r]
  BY <1>14, <1>17
<1>19. PICK q \in T : tx[r].item \in tx[q].held
  BY <1>8
<1>20. QED
  BY <1>13, <1>16, <1>18, <1>19

(* However many requests there are, they wait for each other in a circle    *)
(* only where created_at ties the items of one of them                     *)
(* (review_repo.get_or_create in created_at order, record_attempt,          *)
(* delete_new_records_for_items).                                          *)
THEOREM CirclesNeedTies == Spec => []CirclesAreTies
<1>1. StudyInv /\ StudyInv' /\ OrderInv /\ [Next]_vars => OrderInv'
  <2> SUFFICES ASSUME StudyInv, StudyInv', OrderInv, [Next]_vars PROVE OrderInv'
    OBVIOUS
  <2>1. CASE UNCHANGED vars
    BY <2>1 DEF vars, OrderInv, Active
  <2>2. CASE Next
    BY <2>2, StepOrderInv DEF Next
  <2>3. QED
    BY <2>1, <2>2
<1>2. QED
  BY <1>1, InitOrderInv, CircleTies, StudyInvariant, PTL DEF Spec
-----------------------------------------------------------------------------
(* One request at a time.  What the running request has read is what the    *)
(* tables hold, and it waits for nobody.                                   *)

NewRows == {i \in Items : IsNew(rec[i])}

BuildFits(r) ==
    /\ tx[r].pc \in {"due", "new", "select", "insert", "open"} => ~Exists(sess)
    /\ tx[r].pc \in {"reuse", "due", "new"} => tx[r].held = {}
    /\ tx[r].pc = "new" => tx[r].plan \subseteq HasRow
    /\ tx[r].pc \in {"new", "select", "insert", "open"} => NewRows \subseteq tx[r].plan
    /\ tx[r].pc \in {"select", "insert", "open"} =>
          LET new == tx[r].plan \ HasRow
          IN  /\ new \in Oldest(Fresh, Slots(tx[r].plan \cap HasRow))
              /\ new = tx[r].held \cup tx[r].todo

ExtendFits(r) ==
    /\ tx[r].pc # "extend" => Exists(sess) /\ tx[r].open = sess
    /\ tx[r].pc \in {"extend", "extend new", "generate"} => tx[r].held = {}
    /\ tx[r].pc = "generate" => Fresh = {}
    /\ tx[r].pc \in {"select", "insert", "extend commit"} =>
          /\ tx[r].plan \in Oldest(Fresh, Extra)
          /\ tx[r].plan = tx[r].held \cup tx[r].todo

PlaceFits(r) ==
    /\ tx[r].pc # "place" => Exists(sess) /\ tx[r].open = sess
    /\ tx[r].pc # "discarded" => tx[r].held = {}
    /\ tx[r].pc = "discarded" => tx[r].held = {i \in sess.planned : IsNew(rec[i])}

AttemptFits(r) ==
    /\ ~tx[r].lost
    /\ tx[r].pc \in Finding => tx[r].todo = {tx[r].item} /\ tx[r].held = {}
    /\ tx[r].pc = "insert" => ~Exists(rec[tx[r].item])
    /\ tx[r].pc \in RowRead =>
          IF Exists(rec[tx[r].item]) THEN tx[r].row = rec[tx[r].item]
          ELSE tx[r].row = NewRow(r) /\ tx[r].held = {tx[r].item}
    /\ tx[r].pc = "profile insert" => ~totals.made
    /\ tx[r].pc \notin Late => tx[r].tags = 0
    /\ tx[r].pc \in Late => tx[r].tags = totals.tags
    /\ tx[r].pc \in Late \ {"motivation"} => tx[r].xp = totals.xp
    /\ tx[r].pc = "commit" => tx[r].open = sess

Fits(r) ==
    /\ tx[r].pc = "insert" => tx[r].item \in tx[r].todo
    /\ tx[r].kind = "build" => BuildFits(r)
    /\ tx[r].kind = "extend" => ExtendFits(r)
    /\ tx[r].kind = "place" => PlaceFits(r)
    /\ tx[r].kind = "attempt" => AttemptFits(r)

AloneInv == \A p, q \in Req : Active(p) /\ Active(q) => p = q
FreeInv == \A r \in Req : ~Active(r) => tx[r].held = {} /\ ~tx[r].locked
MadeInv == ~totals.made => totals.tags = 0 /\ totals.xp = 0
PoolInv ==
    /\ HasRow \cup shown \cup sess.planned \subseteq pool
    /\ \A r \in Req : Active(r) =>
          /\ tx[r].kind = "attempt" => tx[r].item \in pool
          /\ tx[r].plan \cup tx[r].held \cup tx[r].todo \cup tx[r].open.planned \subseteq pool
SerialInv ==
    /\ StudyInv /\ (\A r \in Req : KindFits(tx[r]))
    /\ AloneInv /\ FreeInv /\ MadeInv /\ PoolInv
    /\ \A r \in Req : Active(r) => Fits(r)

LEMMA ArrivesAlone ==
    ASSUME MaxActive = 1, AloneInv, NEW r \in Req, Arrive(r)
    PROVE  \A q \in Req : ~Active(q)
<1> SUFFICES ASSUME NEW q \in Req, Active(q) PROVE FALSE
  OBVIOUS
<1>1. {p \in Req : Active(p)} = {q}
  BY DEF AloneInv
<1>2. Cardinality({q}) = 1
  BY FS_Singleton
<1>3. Cardinality({p \in Req : Active(p)}) < MaxActive
  BY ZenonT(30) DEF Arrive, BeginBuild, BeginExtend, BeginPlace, BeginAttempt, Begin
<1>4. QED
  BY <1>1, <1>2, <1>3

LEMMA StepsAlone ==
    ASSUME MaxActive = 1, SerialInv, NEW r \in Req, Arrive(r) \/ Advance(r) \/ Fail(r)
    PROVE  /\ \A q \in Req \ {r} : ~Active(q) /\ tx[q].held = {} /\ ~tx[q].locked
           /\ ~TotalsLocked(r) /\ \A i : ~RowLocked(r, i)
           /\ ~Arrive(r) => Active(r)
<1>1. Advance(r) \/ Fail(r) => Active(r)
  BY DEF Advance, Fail, AbortDeadlock, SelectRow, Select, InsertRow, Reuse, ReadDue,
     ReadNew, OpenSession, Schedule, ReadProfile, InsertProfile, ReadMotivation, Save,
     ReadSession, CommitAttempt, ReadExtend, ReadExtra, Generate, CommitExtend, ReadPlace, Discard,
     CommitPlace, At, Active, Ended
<1>2. \A q \in Req \ {r} : ~Active(q)
  BY <1>1, ArrivesAlone DEF SerialInv, AloneInv
<1>3. \A q \in Req \ {r} : tx[q].held = {} /\ ~tx[q].locked
  BY <1>2 DEF SerialInv, FreeInv
<1>4. QED
  BY <1>1, <1>2, <1>3 DEF TotalsLocked, RowLocked

(* It is enough to look at the request that moves.                         *)
LEMMA SerialMove ==
    ASSUME MaxActive = 1, SerialInv, NEW r \in Req, Arrive(r) \/ Advance(r) \/ Fail(r),
           StudyInv', KindFits(tx'[r]), MadeInv',
           HasRow' \cup shown' \cup sess'.planned \subseteq pool',
           Active(r)' => /\ Fits(r)'
                         /\ tx'[r].kind = "attempt" => tx'[r].item \in pool'
                         /\ tx'[r].plan \cup tx'[r].held \cup tx'[r].todo
                               \cup tx'[r].open.planned \subseteq pool',
           ~Active(r)' => tx'[r].held = {} /\ ~tx'[r].locked
    PROVE  SerialInv'
<1>1. Alone(r) /\ \A q \in Req \ {r} : ~Active(q)
  BY StepsAlone, Moves DEF SerialInv
<1>2. \A q \in Req \ {r} : tx'[q] = tx[q] /\ ~Active(q)'
  BY <1>1 DEF Alone, Active
<1>3. AloneInv' /\ FreeInv'
  BY <1>2 DEF SerialInv, AloneInv, FreeInv, Active
<1>4. PoolInv'
  BY <1>2 DEF PoolInv
<1>5. \A q \in Req : KindFits(tx'[q])
  <2>1. \A q \in Req \ {r} : tx'[q] = tx[q] /\ KindFits(tx[q])
    BY <1>2 DEF SerialInv
  <2>2. QED
    BY <2>1
<1>6. \A q \in Req : Active(q)' => Fits(q)'
  BY <1>2
<1>7. QED
  BY <1>3, <1>4, <1>5, <1>6 DEF SerialInv
LEMMA InitSerialInv == Init => SerialInv
<1> SUFFICES ASSUME Init PROVE SerialInv
  OBVIOUS
<1>1. /\ \A r \in Req : tx[r] = Blank
      /\ KindFits(Blank) /\ Blank.held = {} /\ ~Blank.locked /\ Blank.pc = "idle"
  BY DEF Init, Blank, KindFits, Finding
<1>2. \A r \in Req : ~Active(r)
  BY <1>1 DEF Active
<1>3. \A i \in Items : Exists(rec[i]) => i \in InitialPool
  BY ItemsAssumption DEF Init, Exists, NoRow
<1>4. HasRow \cup shown \cup sess.planned \subseteq pool
  BY <1>3, ItemsAssumption DEF Init, HasRow, NoSession
<1>5. AloneInv /\ FreeInv /\ MadeInv /\ PoolInv
  BY <1>1, <1>2, <1>4 DEF Init, AloneInv, FreeInv, MadeInv, PoolInv
<1>6. QED
  BY <1>1, <1>2, <1>5, InitStudyInv DEF SerialInv

(* A step that writes nothing.                                             *)
LEMMA SameRows ==
    ASSUME SerialInv, Unwritten
    PROVE  /\ HasRow' = HasRow /\ Fresh' = Fresh /\ NewRows' = NewRows /\ MadeInv'
           /\ rec' = rec /\ sess' = sess /\ totals' = totals /\ pool' = pool
           /\ HasRow' \cup shown' \cup sess'.planned \subseteq pool'
BY DEF Unwritten, HasRow, Fresh, NewRows, SerialInv, MadeInv, PoolInv, IsNew

LEMMA SerialEnds ==
    ASSUME MaxActive = 1, SerialInv, NEW r \in Req, Arrive(r) \/ Advance(r) \/ Fail(r),
           StudyInv', NEW outcome \in Ended, Close(r, outcome), MadeInv',
           HasRow' \cup shown' \cup sess'.planned \subseteq pool'
    PROVE  SerialInv'
<1>1. tx[r] \in Tx /\ tx \in [Req -> Tx]
  BY DEF SerialInv, StudyInv, TypeOK
<1>2. /\ tx'[r].pc = outcome /\ tx'[r].todo = {} /\ tx'[r].held = {}
      /\ tx'[r].locked = FALSE
  BY <1>1 DEF Close, Step, Tx
<1>3. ~Active(r)'
  BY <1>2 DEF Active
<1>4. KindFits(tx'[r])
  BY <1>2 DEF KindFits, Ended, Finding
<1>5. QED
  BY <1>2, <1>3, <1>4, SerialMove

LEMMA SerialQuiet ==
    ASSUME MaxActive = 1, SerialInv, NEW r \in Req, Arrive(r) \/ Advance(r) \/ Fail(r),
           StudyInv', Unwritten, KindFits(tx'[r]), Fits(r)',
           tx'[r].pc \notin Ended \cup {"idle"},
           tx'[r].kind = "attempt" => tx'[r].item \in pool,
           tx'[r].plan \cup tx'[r].held \cup tx'[r].todo \cup tx'[r].open.planned
               \subseteq pool
    PROVE  SerialInv'
<1>1. Active(r)'
  BY DEF Active
<1>2. QED
  BY <1>1, SameRows, SerialMove

(* What a running request may rely on.                                     *)
LEMMA Running ==
    ASSUME SerialInv, NEW r \in Req, tx[r].pc \notin Ended \cup {"idle"}
    PROVE  /\ tx[r] \in Tx /\ tx \in [Req -> Tx] /\ sess \in Session
           /\ KindFits(tx[r]) /\ Fits(r)
           /\ tx[r].kind = "attempt" => tx[r].item \in pool
           /\ tx[r].plan \subseteq pool /\ tx[r].held \subseteq pool
           /\ tx[r].todo \subseteq pool /\ tx[r].open.planned \subseteq pool
           /\ HasRow \subseteq pool /\ shown \subseteq pool /\ sess.planned \subseteq pool
BY DEF SerialInv, StudyInv, TypeOK, PoolInv, Active

LEMMA SerialArrives ==
    ASSUME MaxActive = 1, SerialInv, StudyInv', NEW r \in Req, Arrive(r)
    PROVE  SerialInv'
<1>t. tx \in [Req -> Tx]
  BY DEF SerialInv, StudyInv, TypeOK
<1>1. Unwritten
  BY DEF Arrive, BeginBuild, BeginExtend, BeginPlace, BeginAttempt, Begin
<1>2. /\ tx'[r].plan = {} /\ tx'[r].open = NoSession /\ tx'[r].held = {}
      /\ tx'[r].tags = 0 /\ tx'[r].lost = FALSE
      /\ \/ tx'[r].kind = "build" /\ tx'[r].pc = "reuse" /\ tx'[r].todo = {}
         \/ tx'[r].kind = "extend" /\ tx'[r].pc = "extend" /\ tx'[r].todo = {}
         \/ tx'[r].kind = "place" /\ tx'[r].pc = "place" /\ tx'[r].todo = {}
         \/ /\ tx'[r].kind = "attempt" /\ tx'[r].pc = "select" /\ tx'[r].item \in shown
            /\ tx'[r].todo = {tx'[r].item}
  <2>1. CASE BeginBuild(r)
    BY <1>t, <2>1 DEF BeginBuild, Begin, Step, Blank
  <2>2. CASE BeginExtend(r)
    BY <1>t, <2>2 DEF BeginExtend, Begin, Step, Blank
  <2>3. CASE BeginPlace(r)
    BY <1>t, <2>3 DEF BeginPlace, Begin, Step, Blank
  <2>4. CASE BeginAttempt(r)
    BY <1>t, <2>4 DEF BeginAttempt, Step, Blank
  <2>5. QED
    BY <2>1, <2>2, <2>3, <2>4 DEF Arrive
<1>3. KindFits(tx'[r]) /\ tx'[r].pc \notin Ended \cup {"idle"}
  BY <1>2 DEF KindFits, Finding, Ended
<1>4. Fits(r)'
  <2>1. CASE tx'[r].kind = "attempt"
    <3>1. AttemptFits(r)'
      BY <1>2, <2>1 DEF AttemptFits, Finding, RowRead, Scheduled, Late
    <3>2. QED
      BY <1>2, <2>1, <3>1 DEF Fits
  <2>2. CASE tx'[r].kind = "build"
    BY <1>2, <2>2 DEF Fits, BuildFits
  <2>3. CASE tx'[r].kind = "extend"
    BY <1>2, <2>3 DEF Fits, ExtendFits
  <2>4. CASE tx'[r].kind = "place"
    BY <1>2, <2>4 DEF Fits, PlaceFits
  <2>5. QED
    BY <1>2, <2>1, <2>2, <2>3, <2>4
<1>5. shown \subseteq pool
  BY DEF SerialInv, PoolInv
<1>6. QED
  BY <1>1, <1>2, <1>3, <1>4, <1>5, SerialQuiet DEF NoSession

LEMMA SerialRows ==
    ASSUME MaxActive = 1, SerialInv, StudyInv', NEW r \in Req,
           SelectRow(r) \/ InsertRow(r)
    PROVE  SerialInv'
<1>1. Advance(r) /\ Unwritten /\ tx[r].pc \in Finding
      /\ tx[r].pc \notin Ended \cup {"idle"}
  BY DEF Advance, SelectRow, Select, InsertRow, At, Finding, Ended
<1>2. /\ tx[r] \in Tx /\ tx \in [Req -> Tx] /\ KindFits(tx[r]) /\ Fits(r)
      /\ tx[r].kind \in {"attempt", "build", "extend"}
  BY <1>1, Running DEF KindFits
<1>3. /\ HasRow' = HasRow /\ Fresh' = Fresh /\ NewRows' = NewRows
      /\ rec' = rec /\ sess' = sess /\ totals' = totals
  BY <1>1, SameRows
(* A request that goes on, with an item of todo got or still to get.        *)
<1>4. ASSUME tx'[r].kind = tx[r].kind,
             tx[r].kind = "attempt" => tx'[r].item = tx[r].item,
             tx'[r].pc = "insert" => tx'[r].item \in tx'[r].todo,
             tx'[r].plan = tx[r].plan, tx'[r].open = tx[r].open,
             tx'[r].lost = tx[r].lost, tx'[r].tags = tx[r].tags,
             tx'[r].todo \subseteq tx[r].todo,
             tx'[r].held \cup tx'[r].todo = tx[r].held \cup tx[r].todo,
             tx'[r].pc \in Finding \cup {AfterRows(tx[r].kind)},
             tx'[r].pc \notin Finding => tx'[r].todo = {},
             tx[r].kind = "attempt" =>
                IF tx'[r].pc \in Finding
                THEN tx'[r].pc = "insert" /\ tx'[r].todo = tx[r].todo
                     /\ tx'[r].held = tx[r].held /\ ~Exists(rec[tx[r].item])
                ELSE IF Exists(rec[tx[r].item]) THEN tx'[r].row = rec[tx[r].item]
                     ELSE tx'[r].row = NewRow(r) /\ tx'[r].held = {tx[r].item}
      PROVE  SerialInv'
  <2>1. /\ tx'[r].pc \in Finding \cup {"schedule", "open", "extend commit"}
        /\ tx'[r].pc = "schedule" => tx[r].kind = "attempt"
        /\ tx'[r].pc = "open" => tx[r].kind = "build"
        /\ tx'[r].pc = "extend commit" => tx[r].kind = "extend"
    BY <1>2, <1>4 DEF AfterRows, Finding
  <2>2. KindFits(tx'[r]) /\ tx'[r].pc \notin Ended \cup {"idle"}
    BY <1>2, <1>4, <2>1 DEF KindFits, Finding, Ended
  <2>3. CASE tx[r].kind = "attempt"
    <3>1. AttemptFits(r)
      BY <1>2, <2>3 DEF Fits
    <3>2. ~tx[r].lost /\ tx[r].tags = 0 /\ tx[r].todo = {tx[r].item} /\ tx[r].held = {}
      BY <1>1, <3>1 DEF AttemptFits, Finding, Late
    <3>3. ASSUME tx'[r].pc \in Finding PROVE AttemptFits(r)'
      <4>1. /\ tx'[r].pc = "insert" /\ tx'[r].todo = {tx'[r].item}
            /\ tx'[r].held = {} /\ ~Exists(rec'[tx'[r].item])
        BY <1>3, <1>4, <2>3, <3>2, <3>3
      <4>2. QED
        BY <1>4, <3>2, <4>1 DEF AttemptFits, Finding, RowRead, Scheduled, Late
    <3>4. ASSUME tx'[r].pc = "schedule" PROVE AttemptFits(r)'
      <4>1. IF Exists(rec'[tx'[r].item]) THEN tx'[r].row = rec'[tx'[r].item]
            ELSE tx'[r].row = NewRow(r) /\ tx'[r].held = {tx'[r].item}
        BY <1>3, <1>4, <2>3, <3>4 DEF Finding
      <4>2. QED
        BY <1>4, <3>2, <3>4, <4>1 DEF AttemptFits, Finding, RowRead, Scheduled, Late
    <3>5. Fits(r)'
      <4>1. AttemptFits(r)'
        BY <1>4, <2>1, <2>3, <3>3, <3>4 DEF AfterRows
      <4>2. QED
        BY <1>4, <2>3, <4>1 DEF Fits
    <3>6. QED
      BY <1>1, <1>2, <1>4, <2>2, <3>5, Running, SerialQuiet
  <2>4. CASE tx[r].kind = "build"
    <3>1. /\ tx'[r].pc \in {"select", "insert", "open"}
          /\ tx[r].pc \in {"select", "insert", "open"} /\ BuildFits(r)
      BY <1>1, <1>2, <2>1, <2>4 DEF Fits, Finding
    <3>2. BuildFits(r)'
      BY <1>3, <1>4, <3>1 DEF BuildFits
    <3>3. Fits(r)'
      BY <1>4, <2>4, <3>2 DEF Fits
    <3>4. QED
      BY <1>1, <1>2, <1>4, <2>2, <3>3, Running, SerialQuiet
  <2>5. CASE tx[r].kind = "extend"
    <3>1. /\ tx'[r].pc \in {"select", "insert", "extend commit"}
          /\ tx[r].pc \in {"select", "insert", "extend commit"} /\ ExtendFits(r)
      BY <1>1, <1>2, <2>1, <2>5 DEF Fits, Finding
    <3>2. ExtendFits(r)'
      BY <1>3, <1>4, <3>1 DEF ExtendFits
    <3>3. Fits(r)'
      BY <1>4, <2>5, <3>2 DEF Fits
    <3>4. QED
      BY <1>1, <1>2, <1>4, <2>2, <3>3, Running, SerialQuiet
  <2>6. QED
    BY <1>2, <2>3, <2>4, <2>5
<1>5. ASSUME NEW i \in tx[r].todo, NEW row, NEW held, GotRow(r, i, row, held),
             held \cup tx[r].todo = tx[r].held \cup tx[r].todo, tx[r].held \subseteq held,
             i \in held \/ (tx[r].kind = "attempt" /\ Exists(rec[i])),
             tx[r].kind = "attempt" =>
                IF Exists(rec[i]) THEN row = rec[i] ELSE row = NewRow(r) /\ held = {i}
      PROVE  SerialInv'
  <2> DEFINE todo == tx[r].todo \ {i}
  <2>1. /\ tx'[r].todo = todo /\ tx'[r].held = held /\ tx'[r].kind = tx[r].kind
        /\ tx'[r].item = tx[r].item /\ tx'[r].plan = tx[r].plan
        /\ tx'[r].open = tx[r].open /\ tx'[r].lost = tx[r].lost
        /\ tx'[r].tags = tx[r].tags /\ tx'[r].pc = NextRow(tx[r].kind, todo)
        /\ tx[r].kind = "attempt" => tx'[r].row = row
    BY <1>2, <1>5 DEF GotRow, Step, Tx
  <2> HIDE DEF todo
  <2>2. /\ tx'[r].pc \in Finding \cup {AfterRows(tx[r].kind)}
        /\ tx'[r].pc \notin Finding => todo = {}
        /\ tx'[r].pc # "insert"
    BY <2>1 DEF NextRow, AfterRows, Finding
  <2>3. CASE tx[r].kind = "attempt"
    <3>1. tx[r].todo = {tx[r].item} /\ tx[r].held = {}
      BY <1>1, <1>2, <2>3 DEF Fits, AttemptFits
    <3>2. i = tx[r].item /\ todo = {} /\ tx'[r].pc = "schedule" /\ i \in Items
      BY <1>2, <2>1, <2>3, <3>1 DEF todo, NextRow, AfterRows, Tx
    <3>3. CASE Exists(rec[i])
      <4>1. /\ AttemptFits(r)' /\ KindFits(tx'[r])
        <5>1. ~tx[r].lost /\ tx[r].tags = 0
          BY <1>1, <1>2, <2>3 DEF Fits, AttemptFits, Finding, Late
        <5>2. QED
          BY <1>3, <1>5, <2>1, <2>3, <3>2, <3>3, <5>1
             DEF AttemptFits, KindFits, Finding, RowRead, Scheduled, Late
      <4>2. /\ Fits(r)' /\ tx'[r].pc \notin Ended \cup {"idle"}
            /\ tx'[r].held \subseteq tx[r].todo
        BY <1>5, <2>1, <2>3, <3>1, <3>2, <4>1 DEF Fits, Ended
      <4>3. QED
        BY <1>1, <1>2, <2>1, <3>2, <4>1, <4>2, Running, SerialQuiet
    <3>4. CASE ~Exists(rec[i])
      BY <1>4, <1>5, <2>1, <2>2, <2>3, <3>1, <3>2, <3>4 DEF Finding
    <3>5. QED
      BY <3>3, <3>4
  <2>4. CASE tx[r].kind # "attempt"
    <3>1. /\ tx'[r].todo \subseteq tx[r].todo
          /\ tx'[r].held \cup tx'[r].todo = tx[r].held \cup tx[r].todo
      BY <1>5, <2>1, <2>4 DEF todo
    <3>2. QED
      BY <1>4, <2>1, <2>2, <2>4, <3>1
  <2>5. QED
    BY <2>3, <2>4
<1>6. CASE SelectRow(r)
  <2>1. PICK i \in First(tx[r].todo) :
           IF Exists(rec[i]) THEN GotRow(r, i, rec[i], tx[r].held)
           ELSE Step(r, [tx[r] EXCEPT !.pc = "insert", !.item = i])
    BY <1>6 DEF SelectRow, Select
  <2>2. i \in tx[r].todo /\ i \in Items
    BY <1>2, OldestSubset DEF Tx
  <2>3. tx[r].kind # "attempt" => ~Exists(rec[i])
    <3>1. tx[r].kind = "build" => i \notin HasRow
      BY <1>1, <1>2, <2>2 DEF Fits, BuildFits, Finding
    <3>2. tx[r].kind = "extend" => i \in Fresh
      <4>1. tx[r].kind = "extend" => i \in tx[r].plan /\ tx[r].plan \in Oldest(Fresh, Extra)
        BY <1>1, <1>2, <2>2 DEF Fits, ExtendFits, Finding
      <4>2. QED
        BY <4>1, OldestSubset
    <3>3. QED
      BY <1>2, <2>2, <3>1, <3>2 DEF HasRow, Fresh
  <2>4. CASE Exists(rec[i])
    BY <1>5, <2>1, <2>2, <2>3, <2>4
  <2>5. CASE ~Exists(rec[i])
    <3> DEFINE new == [tx[r] EXCEPT !.pc = "insert", !.item = i]
    <3>a. /\ new.pc = "insert" /\ new.kind = tx[r].kind
          /\ new.item = i /\ new.plan = tx[r].plan
          /\ new.open = tx[r].open /\ new.lost = tx[r].lost
          /\ new.tags = tx[r].tags /\ new.todo = tx[r].todo
          /\ new.held = tx[r].held
      BY <1>2 DEF Tx
    <3>b. Step(r, new)
      BY <2>1, <2>5
    <3> HIDE DEF new
    <3>c. tx'[r] = new
      BY <1>2, <3>b DEF Step
    <3>1. /\ tx'[r].pc = "insert" /\ tx'[r].kind = tx[r].kind
          /\ tx'[r].item = i /\ tx'[r].plan = tx[r].plan
          /\ tx'[r].open = tx[r].open /\ tx'[r].lost = tx[r].lost
          /\ tx'[r].tags = tx[r].tags /\ tx'[r].todo = tx[r].todo
          /\ tx'[r].held = tx[r].held
      BY <3>a, <3>c
    <3>2. tx[r].kind = "attempt" => i = tx[r].item
      BY <1>1, <1>2, <2>2 DEF Fits, AttemptFits
    <3>3. QED
      BY <1>4, <2>2, <2>5, <3>1, <3>2 DEF Finding
  <2>6. QED
    BY <2>4, <2>5
<1>7. CASE InsertRow(r)
  <2> DEFINE i == tx[r].item
  <2>1. IF Exists(rec[i]) THEN Close(r, "error")
        ELSE GotRow(r, i, NewRow(r), tx[r].held \cup {i})
    BY <1>7 DEF InsertRow
  <2>2. i \in tx[r].todo
    BY <1>2, <1>7 DEF InsertRow, At, Fits
  <2>3. CASE Exists(rec[i])
    <3>1. "error" \in Ended /\ Close(r, "error")
      BY <2>1, <2>3 DEF Ended
    <3>2. QED
      BY <1>1, <3>1, SameRows, SerialEnds
  <2>4. CASE ~Exists(rec[i])
    <3>1. tx[r].kind = "attempt" => tx[r].held = {}
      BY <1>1, <1>2 DEF Fits, AttemptFits
    <3>2. QED
      BY <1>5, <2>1, <2>2, <2>4, <3>1
  <2>5. QED
    BY <2>3, <2>4
<1>8. QED
  BY <1>6, <1>7

(* Once it has its row, an attempt moves on with what it has read.          *)
LEMMA SerialAttempt ==
    ASSUME MaxActive = 1, SerialInv, StudyInv', NEW r \in Req,
           \/ Schedule(r) \/ ReadProfile(r) \/ InsertProfile(r)
           \/ ReadMotivation(r) \/ Save(r) \/ ReadSession(r)
    PROVE  SerialInv'
<1>1. Advance(r) /\ Unwritten /\ tx[r].pc \in RowRead
      /\ tx[r].pc \notin Ended \cup {"idle"}
  BY DEF Advance, Schedule, ReadProfile, InsertProfile, ReadMotivation, Save, ReadSession,
     At, RowRead, Scheduled, Ended
<1>2. /\ tx[r] \in Tx /\ tx \in [Req -> Tx] /\ KindFits(tx[r]) /\ AttemptFits(r)
      /\ tx[r].kind = "attempt" /\ tx[r].todo = {} /\ sess.planned \subseteq pool
  <2>1. tx[r].kind = "attempt"
    BY <1>1 DEF SerialInv, StudyInv, AttemptInv, RowRead
  <2>2. KindFits(tx[r]) /\ tx[r].pc \notin Finding
    BY <1>1, Running DEF RowRead, Scheduled, Finding
  <2>3. QED
    BY <1>1, <2>1, <2>2, Running DEF Fits, KindFits
<1>3. /\ rec' = rec /\ sess' = sess /\ totals' = totals
  BY <1>1, SameRows
<1>4. /\ ~tx[r].lost
      /\ IF Exists(rec[tx[r].item]) THEN tx[r].row = rec[tx[r].item]
         ELSE tx[r].row = NewRow(r) /\ tx[r].held = {tx[r].item}
  BY <1>1, <1>2 DEF AttemptFits
<1>5. ASSUME tx'[r].kind = "attempt", tx'[r].item = tx[r].item, tx'[r].row = tx[r].row,
             tx'[r].plan = tx[r].plan, tx'[r].todo = tx[r].todo,
             tx'[r].lost = tx[r].lost, tx'[r].held \in {tx[r].held, {tx[r].item}},
             tx'[r].pc \in Scheduled, tx'[r].open \in {tx[r].open, sess},
             tx'[r].pc = "profile insert" => ~totals.made,
             tx'[r].pc \notin Late => tx'[r].tags = 0,
             tx'[r].pc \in Late => tx'[r].tags = totals.tags,
             tx'[r].pc \in Late \ {"motivation"} => tx'[r].xp = totals.xp,
             tx'[r].pc = "commit" => tx'[r].open = sess
      PROVE  SerialInv'
  <2>1. AttemptFits(r)'
    <3>1. IF Exists(rec'[tx'[r].item]) THEN tx'[r].row = rec'[tx'[r].item]
          ELSE tx'[r].row = NewRow(r) /\ tx'[r].held = {tx'[r].item}
      BY <1>3, <1>4, <1>5
    <3>2. tx'[r].pc \notin Finding /\ tx'[r].pc # "insert"
      BY <1>5 DEF Scheduled, Finding
    <3>3. QED
      BY <1>3, <1>4, <1>5, <3>1, <3>2 DEF AttemptFits
  <2>2. /\ Fits(r)' /\ KindFits(tx'[r]) /\ tx'[r].pc \notin Ended \cup {"idle"}
    BY <1>2, <1>5, <2>1 DEF Fits, KindFits, Finding, Scheduled, Ended
  <2>3. QED
    BY <1>1, <1>2, <1>5, <2>2, Running, SerialQuiet
<1>6. CASE Schedule(r)
  <2>1. CASE Close(r, "error")
    BY <1>1, <2>1, SameRows, SerialEnds DEF Ended
  <2>2. CASE Step(r, [tx[r] EXCEPT !.pc = "profile", !.held = {tx[r].item}])
    <3>1. /\ tx'[r].pc = "profile" /\ tx'[r].held = {tx[r].item}
          /\ tx'[r].kind = tx[r].kind /\ tx'[r].item = tx[r].item /\ tx'[r].row = tx[r].row
          /\ tx'[r].plan = tx[r].plan /\ tx'[r].todo = tx[r].todo
          /\ tx'[r].open = tx[r].open /\ tx'[r].lost = tx[r].lost
          /\ tx'[r].tags = tx[r].tags
      BY <1>2, <2>2 DEF Step, Tx
    <3>2. tx[r].tags = 0
      BY <1>2, <1>6 DEF Schedule, At, AttemptFits, Late
    <3>3. QED
      BY <1>2, <1>5, <3>1, <3>2 DEF Scheduled, Late
  <2>3. QED
    BY <1>6, <2>1, <2>2 DEF Schedule
<1>7. CASE ReadProfile(r)
  <2>1. tx[r].tags = 0
    BY <1>2, <1>7 DEF ReadProfile, At, AttemptFits, Late
  <2>2. /\ tx'[r].kind = tx[r].kind /\ tx'[r].item = tx[r].item /\ tx'[r].row = tx[r].row
        /\ tx'[r].plan = tx[r].plan /\ tx'[r].todo = tx[r].todo
        /\ tx'[r].open = tx[r].open /\ tx'[r].lost = tx[r].lost
        /\ tx'[r].held = tx[r].held
        /\ IF totals.made THEN tx'[r].pc = "motivation" /\ tx'[r].tags = totals.tags
           ELSE tx'[r].pc = "profile insert" /\ tx'[r].tags = tx[r].tags
    BY <1>2, <1>7 DEF ReadProfile, Step, Tx
  <2>3. QED
    BY <1>2, <1>5, <2>1, <2>2 DEF Scheduled, Late
<1>8. CASE InsertProfile(r)
  <2>1. ~totals.made /\ tx[r].tags = 0
    BY <1>2, <1>8 DEF InsertProfile, At, AttemptFits, Late
  <2>2. totals.tags = 0
    BY <2>1 DEF SerialInv, MadeInv
  <2>3. /\ tx'[r].kind = tx[r].kind /\ tx'[r].item = tx[r].item /\ tx'[r].row = tx[r].row
        /\ tx'[r].plan = tx[r].plan /\ tx'[r].todo = tx[r].todo
        /\ tx'[r].open = tx[r].open /\ tx'[r].lost = tx[r].lost
        /\ tx'[r].held = tx[r].held
        /\ tx'[r].pc = "motivation" /\ tx'[r].tags = tx[r].tags
    BY <1>2, <1>8, <2>1 DEF InsertProfile, Step, Tx
  <2>4. QED
    BY <1>2, <1>5, <2>1, <2>2, <2>3 DEF Scheduled, Late
<1>9. CASE ReadMotivation(r)
  <2>1. tx[r].tags = totals.tags
    BY <1>2, <1>9 DEF ReadMotivation, At, AttemptFits, Late
  <2>2. /\ tx'[r].kind = tx[r].kind /\ tx'[r].item = tx[r].item /\ tx'[r].row = tx[r].row
        /\ tx'[r].plan = tx[r].plan /\ tx'[r].todo = tx[r].todo
        /\ tx'[r].open = tx[r].open /\ tx'[r].lost = tx[r].lost
        /\ tx'[r].held = tx[r].held /\ tx'[r].tags = tx[r].tags
        /\ tx'[r].pc = "save" /\ tx'[r].xp = totals.xp
    BY <1>2, <1>9 DEF ReadMotivation, Step, Tx
  <2>3. QED
    BY <1>2, <1>5, <2>1, <2>2 DEF Scheduled, Late
<1>10. CASE Save(r)
  <2>1. tx[r].tags = totals.tags /\ tx[r].xp = totals.xp
    BY <1>2, <1>10 DEF Save, At, AttemptFits, Late
  <2>2. /\ tx'[r].kind = tx[r].kind /\ tx'[r].item = tx[r].item /\ tx'[r].row = tx[r].row
        /\ tx'[r].plan = tx[r].plan /\ tx'[r].todo = tx[r].todo
        /\ tx'[r].open = tx[r].open /\ tx'[r].lost = tx[r].lost
        /\ tx'[r].held = tx[r].held /\ tx'[r].tags = tx[r].tags
        /\ tx'[r].pc = "session" /\ tx'[r].xp = tx[r].xp
    BY <1>2, <1>10 DEF Save, Step, Tx
  <2>3. QED
    BY <1>2, <1>5, <2>1, <2>2 DEF Scheduled, Late
<1>11. CASE ReadSession(r)
  <2>1. tx[r].tags = totals.tags /\ tx[r].xp = totals.xp
    BY <1>2, <1>11 DEF ReadSession, At, AttemptFits, Late
  <2>2. /\ tx'[r].kind = tx[r].kind /\ tx'[r].item = tx[r].item /\ tx'[r].row = tx[r].row
        /\ tx'[r].plan = tx[r].plan /\ tx'[r].todo = tx[r].todo
        /\ tx'[r].open = sess /\ tx'[r].lost = tx[r].lost
        /\ tx'[r].held = tx[r].held /\ tx'[r].tags = tx[r].tags
        /\ tx'[r].pc = "commit" /\ tx'[r].xp = tx[r].xp
    BY <1>2, <1>11 DEF ReadSession, Step, Tx
  <2>3. QED
    BY <1>2, <1>5, <2>1, <2>2 DEF Scheduled, Late
<1>12. QED
  BY <1>6, <1>7, <1>8, <1>9, <1>10, <1>11

(* Commits publish rows of the pool only.                                   *)
LEMMA SerialCommits ==
    ASSUME MaxActive = 1, SerialInv, StudyInv', NEW r \in Req,
           OpenSession(r) \/ CommitAttempt(r) \/ CommitExtend(r) \/ CommitPlace(r)
    PROVE  SerialInv'
<1>1. Advance(r) /\ tx[r].pc \notin Ended \cup {"idle"}
  BY DEF Advance, OpenSession, CommitAttempt, CommitExtend, CommitPlace, At, Ended
<1>2. /\ tx[r] \in Tx /\ tx \in [Req -> Tx] /\ KindFits(tx[r]) /\ sess \in Session
      /\ tx[r].plan \subseteq pool /\ tx[r].held \subseteq pool
      /\ tx[r].open.planned \subseteq pool
      /\ HasRow \subseteq pool /\ shown \subseteq pool /\ sess.planned \subseteq pool
  BY <1>1, Running
<1>o. {"ok", "error", "rejected"} \subseteq Ended
  BY DEF Ended
<1>m. totals' = totals => MadeInv'
  BY DEF SerialInv, MadeInv
<1>s. StudyInv
  BY DEF SerialInv
<1>r. Rollback(r, "error") => SerialInv'
  BY <1>1, <1>o, SameRows, SerialEnds DEF Rollback
<1>3. CASE OpenSession(r)
  <2>1. tx[r].kind = "build"
    BY <1>2, <1>3 DEF OpenSession, At, KindFits
  <2>2. CASE Exists(sess)
    <3>1. Close(r, "error") /\ Unwritten
      BY <1>3, <2>2 DEF OpenSession, Unwritten
    <3>2. QED
      BY <1>r, <3>1 DEF Rollback
  <2>3. CASE ~Exists(sess)
    <3>1. /\ sess' = [by |-> r, planned |-> tx[r].plan \cap HasProblem, done |-> {}]
          /\ rec' = Committed(r) /\ shown' = shown \cup sess'.planned /\ Close(r, "ok")
          /\ totals' = totals /\ pool' = pool
      BY <1>3, <2>3 DEF OpenSession
    <3>2. HasRow' = HasRow \cup tx[r].held
      BY <1>s, <2>1, <3>1, RowsKept
    <3>3. sess'.planned \subseteq pool
      BY <1>2, <3>1
    <3>4. HasRow' \cup shown' \cup sess'.planned \subseteq pool'
      BY <1>2, <3>1, <3>2, <3>3
    <3>5. QED
      BY <1>1, <1>m, <1>o, <3>1, <3>4, SerialEnds
  <2>4. QED
    BY <2>2, <2>3
<1>4. CASE CommitAttempt(r)
  <2>1. tx[r].kind = "attempt" /\ Exists(tx[r].row)
    BY <1>4 DEF CommitAttempt, At, SerialInv, StudyInv, AttemptInv, Scheduled
  <2>2. CASE ~Rollback(r, "error")
    <3>1. /\ rec' = Committed(r) /\ Close(r, IF tx[r].lost THEN "error" ELSE "ok")
          /\ sess' = IF Exists(tx[r].open)
                     THEN [sess EXCEPT !.done = tx[r].open.done \cup {r}]
                     ELSE sess
          /\ totals' = [made |-> TRUE, tags |-> tx[r].tags + 1,
                        xp |-> tx[r].xp + XP(tx[r].ok)]
          /\ pool' = pool /\ shown' = shown
      BY <1>4, <2>2 DEF CommitAttempt
    <3>2. HasRow' = HasRow \cup tx[r].held
      BY <1>s, <2>1, <3>1, RowsKept
    <3>3. sess'.planned = sess.planned
      BY <1>2, <3>1 DEF Session
    <3>4. MadeInv'
      BY <3>1 DEF MadeInv
    <3>5. HasRow' \cup shown' \cup sess'.planned \subseteq pool'
      BY <1>2, <3>1, <3>2, <3>3
    <3>6. QED
      BY <1>1, <1>o, <3>1, <3>4, <3>5, SerialEnds
  <2>3. QED
    BY <1>r, <2>2
<1>5. CASE CommitExtend(r)
  <2>1. tx[r].kind = "extend"
    BY <1>2, <1>5 DEF CommitExtend, At, KindFits
  <2>2. CASE ~Rollback(r, "error")
    <3> DEFINE added == tx[r].plan \cap HasProblem
    <3>1. /\ rec' = Committed(r) /\ Close(r, "ok")
          /\ sess' = IF added = {} THEN sess
                     ELSE [sess EXCEPT !.planned = tx[r].open.planned \cup added]
          /\ shown' = shown \cup tx[r].open.planned \cup added
          /\ totals' = totals /\ pool' = pool
      BY <1>5, <2>2 DEF CommitExtend
    <3>2. HasRow' = HasRow \cup tx[r].held
      BY <1>s, <2>1, <3>1, RowsKept
    <3>3. added \subseteq pool
      BY <1>2
    <3>4. sess'.planned = sess.planned \/ sess'.planned = tx[r].open.planned \cup added
      BY <1>2, <3>1 DEF Session
    <3> HIDE DEF added
    <3>5. HasRow' \cup shown' \cup sess'.planned \subseteq pool'
      BY <1>2, <3>1, <3>2, <3>3, <3>4
    <3>6. QED
      BY <1>1, <1>m, <1>o, <3>1, <3>5, SerialEnds
  <2>3. QED
    BY <1>r, <2>2
<1>6. CASE CommitPlace(r)
  <2>1. tx[r].kind = "place"
    BY <1>2, <1>6 DEF CommitPlace, At, KindFits
  <2>2. /\ rec' = Committed(r) /\ Close(r, "ok") /\ totals' = totals /\ pool' = pool
        /\ shown' = shown /\ sess' \in {NoSession, sess}
    BY <1>6 DEF CommitPlace
  <2>3. HasRow' \subseteq HasRow
    BY <2>1, <2>2 DEF HasRow, Committed, Written, Exists, NoRow
  <2>4. sess'.planned \subseteq pool
    BY <1>2, <2>2 DEF NoSession
  <2>5. HasRow' \cup shown' \cup sess'.planned \subseteq pool'
    BY <1>2, <2>2, <2>3, <2>4
  <2>6. QED
    BY <1>1, <1>m, <1>o, <2>2, <2>5, SerialEnds
<1>7. QED
  BY <1>3, <1>4, <1>5, <1>6

(* LIMIT n, n > 0: nothing of nothing, and all of one.                     *)
LEMMA OldestOfFew ==
    ASSUME NEW S, NEW i, NEW n \in Nat \ {0}
    PROVE  /\ {} \in Oldest(S, n) => S = {}
           /\ {i} \in Oldest({i}, n)
<1>1. Cardinality({}) = 0 /\ Cardinality({i}) = 1
  BY FS_EmptySet, FS_Singleton
<1>2. {} \in Oldest(S, n) => S = {}
  BY <1>1 DEF Oldest
<1>3. {i} \in Oldest({i}, n)
  BY <1>1 DEF Oldest
<1>4. QED
  BY <1>2, <1>3

LEMMA SerialBuild ==
    ASSUME MaxActive = 1, SerialInv, StudyInv', NEW r \in Req,
           Reuse(r) \/ ReadDue(r) \/ ReadNew(r)
    PROVE  SerialInv'
<1>1. Advance(r) /\ tx[r].pc \notin Ended \cup {"idle"}
  BY DEF Advance, Reuse, ReadDue, ReadNew, At, Ended
<1>2. /\ tx[r] \in Tx /\ tx \in [Req -> Tx] /\ KindFits(tx[r]) /\ BuildFits(r)
      /\ tx[r].kind = "build" /\ tx[r].todo = {} /\ tx[r].held = {}
      /\ tx[r].plan \subseteq pool /\ tx[r].open.planned \subseteq pool
      /\ HasRow \subseteq pool /\ shown \subseteq pool /\ sess.planned \subseteq pool
  <2>1. tx[r].kind = "build" /\ tx[r].pc \in {"reuse", "due", "new"}
    BY <1>1, Running DEF Reuse, ReadDue, ReadNew, At, KindFits
  <2>2. QED
    BY <1>1, <2>1, Running DEF Fits, BuildFits, KindFits, Finding
<1>u. Unwritten => /\ HasRow' = HasRow /\ Fresh' = Fresh /\ NewRows' = NewRows
                   /\ sess' = sess
  BY SameRows
<1>3. CASE Reuse(r)
  <2>1. CASE Exists(sess)
    <3>1. /\ Close(r, "ok") /\ shown' = shown \cup sess.planned
          /\ UNCHANGED <<log, rec, totals, sess, pool>>
      BY <1>3, <2>1 DEF Reuse
    <3>2. MadeInv' /\ HasRow' = HasRow
      BY <3>1 DEF SerialInv, MadeInv, HasRow
    <3>3. HasRow' \cup shown' \cup sess'.planned \subseteq pool'
      BY <1>2, <3>1, <3>2
    <3>4. QED
      BY <1>1, <3>1, <3>2, <3>3, SerialEnds DEF Ended
  <2>2. CASE ~Exists(sess)
    <3>1. /\ tx'[r].pc = "due" /\ tx'[r].kind = tx[r].kind /\ tx'[r].plan = tx[r].plan
          /\ tx'[r].todo = tx[r].todo /\ tx'[r].held = tx[r].held
          /\ tx'[r].open = tx[r].open
      BY <1>2, <1>3, <2>2 DEF Reuse, Step, Tx
    <3>2. Unwritten
      BY <1>3, <2>2 DEF Reuse, Unwritten
    <3>3. Fits(r)' /\ KindFits(tx'[r]) /\ tx'[r].pc \notin Ended \cup {"idle"}
      BY <1>2, <1>u, <2>2, <3>1, <3>2 DEF Fits, BuildFits, KindFits, Finding, Ended
    <3>4. QED
      BY <1>1, <1>2, <3>1, <3>2, <3>3, SerialQuiet
  <2>3. QED
    BY <2>1, <2>2
<1>4. CASE ReadDue(r)
  <2>1. PICK due \in SUBSET HasRow :
           NewRows \subseteq due /\ Step(r, [tx[r] EXCEPT !.pc = "new", !.plan = due])
    BY <1>4 DEF ReadDue, HasRow, NewRows
  <2>2. /\ tx'[r].pc = "new" /\ tx'[r].kind = tx[r].kind /\ tx'[r].plan = due
        /\ tx'[r].todo = tx[r].todo /\ tx'[r].held = tx[r].held
        /\ tx'[r].open = tx[r].open
    BY <1>2, <2>1 DEF Step, Tx
  <2>3. Unwritten /\ ~Exists(sess)
    BY <1>2, <1>4 DEF ReadDue, At, BuildFits
  <2>4. Fits(r)' /\ KindFits(tx'[r]) /\ tx'[r].pc \notin Ended \cup {"idle"}
    BY <1>2, <1>u, <2>1, <2>2, <2>3 DEF Fits, BuildFits, KindFits, Finding, Ended
  <2>5. QED
    BY <1>1, <1>2, <2>1, <2>2, <2>3, <2>4, SerialQuiet
<1>5. CASE ReadNew(r)
  <2>p. PICK new \in Oldest(Fresh, Slots(tx[r].plan)) :
           Step(r, [tx[r] EXCEPT !.todo = new, !.plan = @ \cup new,
                                 !.pc = NextRow("build", new)])
    BY <1>5 DEF ReadNew
  <2>1. /\ tx'[r].pc = NextRow("build", new) /\ tx'[r].kind = tx[r].kind
        /\ tx'[r].plan = tx[r].plan \cup new /\ tx'[r].todo = new
        /\ tx'[r].held = tx[r].held /\ tx'[r].open = tx[r].open
    BY <1>2, <2>p DEF Step, Tx
  <2>2. new \subseteq Fresh
    BY OldestSubset
  <2>3. Fresh \cap HasRow = {} /\ Fresh \subseteq pool
    BY DEF Fresh, HasRow
  <2>4. /\ Unwritten /\ ~Exists(sess) /\ tx[r].plan \subseteq HasRow
        /\ NewRows \subseteq tx[r].plan
    BY <1>2, <1>5 DEF ReadNew, At, BuildFits
  <2>5. (tx[r].plan \cup new) \ HasRow = new /\ (tx[r].plan \cup new) \cap HasRow = tx[r].plan
    BY <2>2, <2>3, <2>4
  <2>6. new \in Oldest(Fresh, Slots((tx[r].plan \cup new) \cap HasRow))
    BY <2>5
  <2>7. /\ tx'[r].pc \in {"select", "open"} /\ (tx'[r].pc = "open" => new = {})
    BY <2>1 DEF NextRow, AfterRows
  <2>8. /\ ~Exists(sess') /\ NewRows' \subseteq tx'[r].plan
        /\ tx'[r].plan \ HasRow' = new
        /\ new \in Oldest(Fresh', Slots(tx'[r].plan \cap HasRow'))
        /\ new = tx'[r].held \cup tx'[r].todo
    BY <1>2, <1>u, <2>1, <2>4, <2>5, <2>6
  <2>9. BuildFits(r)'
    BY <2>7, <2>8 DEF BuildFits
  <2>10. KindFits(tx'[r]) /\ tx'[r].pc \notin Ended \cup {"idle"} /\ Fits(r)'
    BY <1>2, <2>1, <2>7, <2>9 DEF Fits, KindFits, Finding, Ended
  <2>11. QED
    BY <1>1, <1>2, <2>1, <2>2, <2>3, <2>4, <2>10, SerialQuiet
<1>6. QED
  BY <1>3, <1>4, <1>5

LEMMA SerialExtend ==
    ASSUME MaxActive = 1, SerialInv, StudyInv', NEW r \in Req,
           ReadExtend(r) \/ ReadExtra(r) \/ Generate(r)
    PROVE  SerialInv'
<1>1. Advance(r) /\ tx[r].pc \notin Ended \cup {"idle"}
  BY DEF Advance, ReadExtend, ReadExtra, Generate, At, Ended
<1>2. /\ tx[r] \in Tx /\ tx \in [Req -> Tx] /\ KindFits(tx[r]) /\ ExtendFits(r)
      /\ tx[r].kind = "extend" /\ tx[r].todo = {} /\ tx[r].held = {}
      /\ tx[r].plan \subseteq pool /\ tx[r].open.planned \subseteq pool
      /\ HasRow \subseteq pool /\ shown \subseteq pool /\ sess.planned \subseteq pool
  <2>1. tx[r].kind = "extend" /\ tx[r].pc \in {"extend", "extend new", "generate"}
    BY <1>1, Running DEF ReadExtend, ReadExtra, Generate, At, KindFits
  <2>2. QED
    BY <1>1, <2>1, Running DEF Fits, ExtendFits, KindFits, Finding
<1>u. Unwritten => HasRow' = HasRow /\ Fresh' = Fresh /\ sess' = sess
  BY SameRows
<1>e. Fresh \subseteq pool /\ Extra \in Nat \ {0}
  BY BoundsAssumption DEF Fresh
<1>a. ASSUME NEW new, Adopt(r, new)
      PROVE  /\ tx'[r].pc \in {"select", "extend commit"}
             /\ tx'[r].pc = "extend commit" => new = {}
             /\ tx'[r].kind = tx[r].kind /\ tx'[r].plan = new /\ tx'[r].todo = new
             /\ tx'[r].held = {} /\ tx'[r].open = tx[r].open
             /\ KindFits(tx'[r]) /\ tx'[r].pc \notin Ended \cup {"idle"}
  <2>1. /\ tx'[r].pc = NextRow("extend", new)
        /\ tx'[r].kind = tx[r].kind /\ tx'[r].plan = new /\ tx'[r].todo = new
        /\ tx'[r].held = {} /\ tx'[r].open = tx[r].open
    BY <1>2, <1>a DEF Adopt, Step, Tx
  <2>2. /\ tx'[r].pc \in {"select", "extend commit"}
        /\ tx'[r].pc = "extend commit" => new = {}
    BY <2>1 DEF NextRow, AfterRows
  <2>3. KindFits(tx'[r]) /\ tx'[r].pc \notin Ended \cup {"idle"}
    BY <1>2, <2>1, <2>2 DEF KindFits, Finding, Ended
  <2>4. QED
    BY <2>1, <2>2, <2>3
<1>3. CASE ReadExtend(r)
  <2>1. CASE ~Exists(sess)
    BY <1>1, <1>3, <2>1, SameRows, SerialEnds DEF ReadExtend, Ended
  <2>2. CASE Exists(sess)
    <3>1. /\ tx'[r].pc = "extend new" /\ tx'[r].kind = tx[r].kind
          /\ tx'[r].plan = tx[r].plan /\ tx'[r].todo = tx[r].todo
          /\ tx'[r].held = tx[r].held /\ tx'[r].open = sess
      <4>1. Step(r, [tx[r] EXCEPT !.pc = "extend new", !.open = sess])
        BY <1>3, <2>2 DEF ReadExtend
      <4>2. QED
        BY <1>2, <4>1 DEF Step, Tx
    <3>2. Unwritten
      BY <1>3 DEF ReadExtend
    <3>3. Fits(r)' /\ KindFits(tx'[r]) /\ tx'[r].pc \notin Ended \cup {"idle"}
      BY <1>2, <1>u, <2>2, <3>1, <3>2 DEF Fits, ExtendFits, KindFits, Finding, Ended
    <3>4. QED
      BY <1>1, <1>2, <3>1, <3>2, <3>3, SerialQuiet
  <2>3. QED
    BY <2>1, <2>2
<1>4. CASE ReadExtra(r)
  <2>1. Unwritten /\ Exists(sess) /\ tx[r].open = sess
    BY <1>2, <1>4 DEF ReadExtra, At, ExtendFits
  <2>p. PICK new \in Oldest(Fresh, Extra) :
           IF new = {} THEN Step(r, [tx[r] EXCEPT !.pc = "generate"]) ELSE Adopt(r, new)
    BY <1>4 DEF ReadExtra
  <2>2. CASE new = {}
    <3>1. Fresh = {}
      BY <1>e, <2>p, <2>2, OldestOfFew
    <3>2. /\ tx'[r].pc = "generate" /\ tx'[r].kind = tx[r].kind
          /\ tx'[r].plan = tx[r].plan /\ tx'[r].todo = tx[r].todo
          /\ tx'[r].held = tx[r].held /\ tx'[r].open = tx[r].open
      <4>1. Step(r, [tx[r] EXCEPT !.pc = "generate"])
        BY <2>p, <2>2
      <4>2. QED
        BY <1>2, <4>1 DEF Step, Tx
    <3>3. Fits(r)' /\ KindFits(tx'[r]) /\ tx'[r].pc \notin Ended \cup {"idle"}
      BY <1>2, <1>u, <2>1, <3>1, <3>2 DEF Fits, ExtendFits, KindFits, Finding, Ended
    <3>4. QED
      BY <1>1, <1>2, <2>1, <3>2, <3>3, SerialQuiet
  <2>3. CASE new # {}
    <3>1. Adopt(r, new)
      BY <2>p, <2>3
    <3>2. new \subseteq pool /\ new \in Oldest(Fresh', Extra)
      BY <1>e, <1>u, <2>p, <2>1, OldestSubset
    <3>3. ExtendFits(r)'
      BY <1>a, <1>u, <2>1, <3>1, <3>2 DEF ExtendFits
    <3>4. Fits(r)'
      BY <1>2, <1>a, <3>1, <3>3 DEF Fits
    <3>5. QED
      BY <1>1, <1>2, <1>a, <2>1, <3>1, <3>2, <3>4, SerialQuiet
  <2>4. QED
    BY <2>2, <2>3
<1>5. CASE Generate(r)
  <2>1. /\ UNCHANGED <<log, rec, totals, sess, shown>> /\ Exists(sess)
        /\ tx[r].open = sess /\ Fresh = {}
    BY <1>2, <1>5 DEF Generate, At, ExtendFits
  <2>2. MadeInv' /\ HasRow' = HasRow
    BY <2>1 DEF SerialInv, MadeInv, HasRow
  <2>3. CASE Close(r, "rejected") /\ UNCHANGED pool
    BY <1>1, <1>2, <2>1, <2>2, <2>3, SerialEnds DEF Ended
  <2>4. CASE \E i \in Items \ pool : Adopt(r, {i}) /\ pool' = pool \cup {i}
    <3>1. PICK i \in Items \ pool : Adopt(r, {i}) /\ pool' = pool \cup {i}
      BY <2>4
    <3>2. i \notin HasRow
      BY <1>2
    <3>3. Fresh' = {i}
      <4>1. Fresh' = {j \in pool' : ~Exists(rec[j])}
        BY <2>1 DEF Fresh
      <4>2. \A j \in pool' : ~Exists(rec[j]) <=> j = i
        BY <2>1, <3>1, <3>2 DEF Fresh, HasRow
      <4>3. QED
        BY <3>1, <4>1, <4>2
    <3>4. {i} \in Oldest(Fresh', Extra)
      BY <1>e, <3>3, OldestOfFew
    <3>5. ExtendFits(r)'
      BY <1>a, <2>1, <3>1, <3>4 DEF ExtendFits
    <3>6. Fits(r)'
      BY <1>2, <1>a, <3>1, <3>5 DEF Fits
    <3>7. HasRow' \cup shown' \cup sess'.planned \subseteq pool'
      BY <1>2, <2>1, <2>2, <3>1
    <3>8. tx'[r].plan \cup tx'[r].held \cup tx'[r].todo \cup tx'[r].open.planned
             \subseteq pool'
      BY <1>2, <1>a, <3>1
    <3>9. Active(r)' /\ KindFits(tx'[r]) /\ tx'[r].kind # "attempt"
      BY <1>2, <1>a, <3>1 DEF Active
    <3>10. QED
      BY <1>1, <2>2, <3>6, <3>7, <3>8, <3>9, SerialMove
  <2>5. QED
    BY <1>5, <2>3, <2>4 DEF Generate
<1>6. QED
  BY <1>3, <1>4, <1>5

LEMMA SerialPlace ==
    ASSUME MaxActive = 1, SerialInv, StudyInv', NEW r \in Req, ReadPlace(r) \/ Discard(r)
    PROVE  SerialInv'
<1>1. Advance(r) /\ tx[r].pc \notin Ended \cup {"idle"} /\ Unwritten
  BY DEF Advance, ReadPlace, Discard, At, Ended
<1>2. /\ tx[r] \in Tx /\ tx \in [Req -> Tx] /\ PlaceFits(r)
      /\ tx[r].kind = "place" /\ tx[r].todo = {} /\ tx[r].held = {}
      /\ tx[r].plan \subseteq pool /\ sess.planned \subseteq pool
  <2>1. tx[r].kind = "place" /\ tx[r].pc \in {"place", "discard"}
    BY <1>1, Running DEF ReadPlace, Discard, At, KindFits
  <2>2. QED
    BY <1>1, <2>1, Running DEF Fits, PlaceFits, KindFits, Finding
<1>u. sess' = sess /\ rec' = rec
  BY <1>1, SameRows
<1>3. CASE ReadPlace(r)
  <2>1. CASE ~Exists(sess)
    BY <1>1, <1>3, <2>1, SameRows, SerialEnds DEF ReadPlace, Ended
  <2>2. CASE Exists(sess)
    <3>1. /\ tx'[r].pc = "discard" /\ tx'[r].kind = tx[r].kind
          /\ tx'[r].plan = tx[r].plan /\ tx'[r].todo = tx[r].todo
          /\ tx'[r].held = tx[r].held /\ tx'[r].open = sess
      <4>1. Step(r, [tx[r] EXCEPT !.pc = "discard", !.open = sess])
        BY <1>3, <2>2 DEF ReadPlace
      <4>2. QED
        BY <1>2, <4>1 DEF Step, Tx
    <3>2. Fits(r)' /\ KindFits(tx'[r]) /\ tx'[r].pc \notin Ended \cup {"idle"}
      BY <1>2, <1>u, <2>2, <3>1 DEF Fits, PlaceFits, KindFits, Finding, Ended
    <3>3. QED
      BY <1>1, <1>2, <3>1, <3>2, SerialQuiet
  <2>3. QED
    BY <2>1, <2>2
<1>4. CASE Discard(r)
  <2> DEFINE unstudied == {i \in tx[r].open.planned : IsNew(rec[i])}
  <2>1. tx[r].open = sess /\ Exists(sess)
    BY <1>2, <1>4 DEF Discard, At, PlaceFits
  <2>2. /\ tx'[r].pc = "discarded" /\ tx'[r].kind = tx[r].kind
        /\ tx'[r].plan = tx[r].plan /\ tx'[r].todo = tx[r].todo
        /\ tx'[r].held = unstudied /\ tx'[r].open = tx[r].open
    BY <1>2, <1>4 DEF Discard, Step, Tx
  <2>3. unstudied = {i \in sess.planned : IsNew(rec[i])}
    BY <2>1
  <2>4. {i \in sess'.planned : IsNew(rec'[i])} = unstudied
    BY <1>u, <2>3
  <2>5. unstudied \subseteq pool
    BY <1>2, <2>1
  <2> HIDE DEF unstudied
  <2>6. PlaceFits(r)'
    BY <1>u, <2>1, <2>2, <2>4 DEF PlaceFits
  <2>7. Fits(r)' /\ KindFits(tx'[r]) /\ tx'[r].pc \notin Ended \cup {"idle"}
    BY <1>2, <2>2, <2>6 DEF Fits, KindFits, Finding, Ended
  <2>8. QED
    BY <1>1, <1>2, <2>1, <2>2, <2>5, <2>7, SerialQuiet
<1>5. QED
  BY <1>3, <1>4

LEMMA StepSerialInv == MaxActive = 1 => (SerialInv /\ [Next]_vars => SerialInv')
<1> SUFFICES ASSUME MaxActive = 1, SerialInv, [Next]_vars PROVE SerialInv'
  OBVIOUS
<1>i. StudyInv'
  BY StepStudyInv DEF SerialInv
<1>1. CASE UNCHANGED vars
  <2>1. Unwritten /\ tx' = tx
    BY <1>1 DEF vars, Unwritten
  <2>2. \A r \in Req : Active(r)' <=> Active(r)
    BY <2>1 DEF Active
  <2>3. AloneInv' /\ FreeInv' /\ MadeInv' /\ PoolInv'
    BY <2>1, <2>2, SameRows DEF SerialInv, AloneInv, FreeInv, PoolInv
  <2>4. ASSUME NEW r \in Req, Fits(r) PROVE Fits(r)'
    <3>1. /\ tx'[r] = tx[r] /\ HasRow' = HasRow /\ Fresh' = Fresh /\ NewRows' = NewRows
          /\ rec' = rec /\ sess' = sess /\ totals' = totals
      BY <2>1, SameRows
    <3>2. BuildFits(r) => BuildFits(r)'
      BY <3>1 DEF BuildFits
    <3>3. ExtendFits(r) => ExtendFits(r)'
      BY <3>1 DEF ExtendFits
    <3>4. PlaceFits(r) => PlaceFits(r)'
      BY <3>1 DEF PlaceFits
    <3>5. AttemptFits(r) => AttemptFits(r)'
      BY <3>1 DEF AttemptFits
    <3>6. QED
      BY <2>4, <3>1, <3>2, <3>3, <3>4, <3>5 DEF Fits
  <2>5. QED
    BY <1>i, <2>1, <2>2, <2>3, <2>4 DEF SerialInv
<1>2. CASE Next
  <2>1. PICK r \in Req : Arrive(r) \/ Advance(r) \/ Fail(r)
    BY <1>2 DEF Next
  <2>2. CASE Fail(r)
    <3>1. Close(r, "error") /\ Unwritten
      BY <2>2 DEF Fail, Rollback
    <3>2. QED
      BY <1>i, <2>2, <3>1, SameRows, SerialEnds DEF Ended
  <2>3. AbortDeadlock(r) => Fail(r)
    BY DEF AbortDeadlock
  <2>4. QED
    BY <1>i, <2>1, <2>2, <2>3, SerialArrives, SerialRows, SerialAttempt, SerialCommits,
       SerialBuild, SerialExtend, SerialPlace DEF Advance
<1>3. QED
  BY <1>1, <1>2

-----------------------------------------------------------------------------
(* The ledger.  Reads and statements that only lock are stutters; what a    *)
(* request has read and locked makes its commit one of the ledger's steps.  *)

Entries == {[req |-> q, item |-> tx[q].item, ok |-> tx[q].ok] : q \in log}

LEMMA EntriesKept ==
    ASSUME StudyInv, NEW r \in Req, tx[r].pc \notin Ended, Alone(r), log' = log
    PROVE  Entries' = Entries
<1>1. \A q \in log : q \in Req \ {r}
  BY DEF StudyInv, TypeOK, LogInv
<1>2. \A q \in log : tx'[q] = tx[q]
  BY <1>1 DEF Alone
<1>3. QED
  BY <1>2 DEF Entries

(* The ledger's rows are the day's.                                         *)
LEMMA LedgerRows ==
    /\ \A S : Ledger!Cardinality(S) = Cardinality(S)
    /\ \A S, n : Ledger!Oldest(S, n) = Oldest(S, n)
    /\ \A S : Ledger!Slots(S) = Slots(S)
    /\ \A row : Ledger!Exists(row) <=> Exists(row)
    /\ Ledger!Fresh = Fresh
    /\ \A r, new : Ledger!WithRows(r, new) =
                       [i \in Items |-> IF i \in new THEN NewRow(r) ELSE rec[i]]
<1>0. \A S : Ledger!Cardinality(S) = Cardinality(S)
  BY DEF Ledger!Cardinality, Cardinality
<1>1. ASSUME NEW S, NEW n PROVE Ledger!Oldest(S, n) = Oldest(S, n)
  BY <1>0 DEF Ledger!Oldest, Oldest
<1>2. \A row : Ledger!Exists(row) <=> Exists(row)
  BY DEF Ledger!Exists, Exists, Ledger!None, None
<1>3. Ledger!Fresh = Fresh
  BY <1>2 DEF Ledger!Fresh, Fresh
<1>4. \A r, new : Ledger!WithRows(r, new) =
                     [i \in Items |-> IF i \in new THEN NewRow(r) ELSE rec[i]]
  BY DEF Ledger!WithRows, Ledger!NewRow, NewRow
<1>5. \A S : Ledger!Slots(S) = Slots(S)
  BY <1>0 DEF Ledger!Slots, Slots
<1>6. QED
  BY <1>0, <1>1, <1>2, <1>3, <1>4, <1>5

LEMMA LedgerStutters ==
    ASSUME StudyInv, NEW r \in Req, Arrive(r) \/ Advance(r) \/ Fail(r),
           UNCHANGED <<log, rec, totals, sess, pool>>
    PROVE  UNCHANGED Ledger!vars
<1>1. Entries' = Entries
  BY Moves, EntriesKept
<1>2. QED
  BY <1>1 DEF Ledger!vars, Entries

LEMMA LedgerOpens ==
    ASSUME SerialInv, NEW r \in Req, OpenSession(r), ~Exists(sess)
    PROVE  Ledger!Open(r)
<1>1. /\ tx[r].pc = "open" /\ rec' = Committed(r)
      /\ sess' = [by |-> r, planned |-> tx[r].plan \cap HasProblem, done |-> {}]
      /\ UNCHANGED <<log, totals, pool>>
  BY DEF OpenSession, At
<1>2. tx[r].kind = "build" /\ tx[r].todo = {} /\ BuildFits(r) /\ tx[r] \in Tx
  BY <1>1, Running DEF KindFits, Finding, Fits, Ended
<1> DEFINE due == tx[r].plan \cap HasRow
           new == tx[r].plan \ HasRow
<1>3. NewRows \subseteq due /\ new = tx[r].held /\ new \in Oldest(Fresh, Slots(due))
  BY <1>1, <1>2 DEF BuildFits, NewRows, HasRow, IsNew
<1>4. due \in SUBSET {i \in Items : Exists(rec[i])} /\ due \cup new = tx[r].plan
  BY DEF HasRow
<1>5. rec' = [i \in Items |-> IF i \in new THEN NewRow(r) ELSE rec[i]]
  BY <1>1, <1>2, <1>3 DEF Committed, Written
<1>6. Entries' = Entries
  <2>1. Advance(r)
    BY DEF Advance
  <2>2. QED
    BY <1>1, <2>1, Moves, EntriesKept DEF SerialInv
<1> HIDE DEF due, new
<1>7. /\ due \in SUBSET {i \in Items : Ledger!Exists(rec[i])}
      /\ {i \in Items : Ledger!IsNew(rec[i])} \subseteq due
  <2>1. {i \in Items : Ledger!Exists(rec[i])} = {i \in Items : Exists(rec[i])}
    BY LedgerRows
  <2>2. {i \in Items : Ledger!IsNew(rec[i])} = NewRows
    BY LedgerRows DEF Ledger!IsNew, IsNew, NewRows
  <2>3. QED
    BY <1>3, <1>4, <2>1, <2>2
<1>8. /\ new \in Ledger!Oldest(Ledger!Fresh, Ledger!Slots(due))
      /\ rec' = Ledger!WithRows(r, new) /\ ~Ledger!Exists(sess)
  BY <1>3, <1>5, LedgerRows
<1>9. /\ sess' = [by |-> r, planned |-> (due \cup new) \cap HasProblem, done |-> {}]
      /\ UNCHANGED <<Entries, totals, pool>>
  BY <1>1, <1>4, <1>6
<1>10. QED
  BY <1>7, <1>8, <1>9 DEF Ledger!Open, Entries

LEMMA LedgerAttempts ==
    ASSUME SerialInv, NEW r \in Req, CommitAttempt(r), ~Rollback(r, "error")
    PROVE  /\ log' = log \cup {r} /\ totals'.xp = totals.xp + XP(tx[r].ok)
           /\ totals'.tags = totals.tags + 1 /\ tx'[r].ok = tx[r].ok
           /\ sess'.done \subseteq sess.done \cup {r}
           /\ \E i \in Items, correct \in BOOLEAN : Ledger!Attempt(r, i, correct)
<1>1. tx[r].pc = "commit" /\ tx[r].pc \in Scheduled /\ tx[r].pc \in Late /\ tx[r].pc \in RowRead
  BY DEF CommitAttempt, At, Scheduled, Late, RowRead
<1>2. /\ tx[r] \in Tx /\ tx \in [Req -> Tx] /\ sess \in Session
      /\ tx[r].kind = "attempt" /\ AttemptFits(r)
  <2>1. tx[r].kind = "attempt"
    BY <1>1 DEF SerialInv, StudyInv, AttemptInv
  <2>2. QED
    BY <1>1, <2>1, Running DEF Fits, Ended
<1>3. /\ ~tx[r].lost /\ tx[r].tags = totals.tags /\ tx[r].xp = totals.xp
      /\ tx[r].open = sess
      /\ IF Exists(rec[tx[r].item]) THEN tx[r].row = rec[tx[r].item]
         ELSE tx[r].row = NewRow(r)
  BY <1>1, <1>2 DEF AttemptFits, Late
<1>4. /\ log' = log \cup {r} /\ rec' = Committed(r) /\ Close(r, "ok") /\ pool' = pool
      /\ totals' = [made |-> TRUE, tags |-> totals.tags + 1,
                    xp |-> totals.xp + XP(tx[r].ok)]
      /\ sess' = IF Exists(sess) THEN [sess EXCEPT !.done = sess.done \cup {r}] ELSE sess
  BY <1>3 DEF CommitAttempt
<1>5. /\ tx'[r].ok = tx[r].ok /\ tx'[r].item = tx[r].item
      /\ \A q \in Req \ {r} : tx'[q] = tx[q]
  BY <1>2, <1>4 DEF Close, Step, Tx
<1>6. log \subseteq Req /\ r \notin log
  BY <1>1 DEF SerialInv, StudyInv, TypeOK, LogInv, Ended
<1>7. Entries' = Entries \cup {[req |-> r, item |-> tx[r].item, ok |-> tx[r].ok]}
  <2>1. \A q \in log : tx'[q] = tx[q]
    BY <1>5, <1>6
  <2>2. QED
    BY <1>4, <1>5, <2>1 DEF Entries
<1>8. r \notin {a.req : a \in Entries}
  BY <1>6 DEF Entries
<1>9. tx[r].held = {tx[r].item} /\ tx[r].item \in Items /\ rec \in [Items -> Row]
  BY <1>1, <1>2, <1>3 DEF SerialInv, StudyInv, TypeOK, AttemptInv, Tx
<1> DEFINE after == [by |-> IF Exists(rec[tx[r].item]) THEN rec[tx[r].item].by ELSE r,
                     reps |-> rec[tx[r].item].reps + 1]
<1>10. Written(r) = after
  <2>1. Written(r) = [tx[r].row EXCEPT !.reps = @ + 1] /\ tx[r].row \in Row
    BY <1>2 DEF Written, Tx
  <2>2. Written(r) = [by |-> tx[r].row.by, reps |-> tx[r].row.reps + 1]
    BY <2>1 DEF Row
  <2>3. ~Exists(rec[tx[r].item]) => rec[tx[r].item].reps = 0
    BY <1>9 DEF SerialInv, StudyInv, RowInv
  <2>4. QED
    BY <1>3, <2>2, <2>3 DEF NewRow
<1>11. rec' = [rec EXCEPT ![tx[r].item] = after]
  BY <1>4, <1>9, <1>10 DEF Committed
<1>12. rec' = [rec EXCEPT ![tx[r].item] = [by |-> IF Exists(@) THEN @.by ELSE r,
                                           reps |-> @.reps + 1]]
  BY <1>9, <1>11
<1>13. \E i \in Items, correct \in BOOLEAN : Ledger!Attempt(r, i, correct)
  <2>1. PICK i \in Items, correct \in BOOLEAN : i = tx[r].item /\ correct = tx[r].ok
    BY <1>2, <1>9 DEF Tx
  <2>2. Ledger!Attempt(r, i, correct)
    BY <1>4, <1>7, <1>8, <1>12, <2>1
       DEF Ledger!Attempt, Ledger!Exists, Exists, Ledger!None, None, Ledger!XP, XP, Entries
  <2>3. QED
    BY <2>2
<1>14. sess'.done \subseteq sess.done \cup {r}
  BY <1>2, <1>4 DEF Session
<1>15. QED
  BY <1>4, <1>5, <1>13, <1>14

LEMMA LedgerExtends ==
    ASSUME SerialInv, NEW r \in Req, CommitExtend(r), ~Rollback(r, "error")
    PROVE  Ledger!Extend(r)
<1>1. tx[r].pc = "extend commit"
  BY DEF CommitExtend, At
<1>2. /\ tx[r].kind = "extend" /\ tx[r].todo = {} /\ ExtendFits(r) /\ tx[r] \in Tx
      /\ sess \in Session
  BY <1>1, Running DEF KindFits, Finding, Fits, Ended
<1>3. /\ tx[r].open = sess /\ Exists(sess) /\ tx[r].plan \in Oldest(Fresh, Extra)
      /\ tx[r].plan = tx[r].held
  BY <1>1, <1>2 DEF ExtendFits
<1> DEFINE new == tx[r].plan
           added == new \cap HasProblem
<1>4. /\ sess' = IF added = {} THEN sess
                 ELSE [sess EXCEPT !.planned = sess.planned \cup added]
      /\ rec' = Committed(r) /\ UNCHANGED <<log, totals, pool>>
  BY <1>3 DEF CommitExtend
<1>5. rec' = [i \in Items |-> IF i \in new THEN NewRow(r) ELSE rec[i]]
  BY <1>2, <1>3, <1>4 DEF Committed, Written
<1>6. sess' = [sess EXCEPT !.planned = @ \cup added]
  <2> HIDE DEF added
  <2>1. added = {} => [sess EXCEPT !.planned = sess.planned \cup added] = sess
    BY <1>2 DEF Session
  <2>2. QED
    BY <1>4, <2>1
<1>7. Entries' = Entries
  <2>1. Advance(r)
    BY DEF Advance
  <2>2. QED
    BY <1>4, <2>1, Moves, EntriesKept DEF SerialInv
<1>8. /\ new \in Ledger!Oldest(Ledger!Fresh, Extra)
      /\ rec' = Ledger!WithRows(r, new) /\ Ledger!Exists(sess)
  BY <1>3, <1>5, LedgerRows
<1> HIDE DEF new
<1>9. QED
  BY <1>4, <1>6, <1>7, <1>8 DEF Ledger!Extend, Entries

LEMMA LedgerGenerates ==
    ASSUME SerialInv, NEW r \in Req, Generate(r), pool' # pool
    PROVE  Ledger!Generate
<1>1. /\ tx[r].pc = "generate" /\ UNCHANGED <<log, rec, totals, sess>>
      /\ \E i \in Items \ pool : pool' = pool \cup {i}
  BY DEF Generate, At
<1>2. Exists(sess) /\ Fresh = {}
  <2>1. tx[r].kind = "extend" /\ ExtendFits(r)
    BY <1>1, Running DEF KindFits, Fits, Ended
  <2>2. QED
    BY <1>1, <2>1 DEF ExtendFits
<1>3. Entries' = Entries
  <2>1. Advance(r)
    BY DEF Advance
  <2>2. QED
    BY <1>1, <2>1, Moves, EntriesKept DEF SerialInv
<1>4. QED
  BY <1>1, <1>2, <1>3
     DEF Ledger!Generate, Ledger!Fresh, Fresh, Ledger!Exists, Exists, Ledger!None, None,
         Entries

LEMMA LedgerDiscards ==
    ASSUME SerialInv, NEW r \in Req, CommitPlace(r)
    PROVE  Ledger!Discard
<1>1. /\ tx[r].pc = "discarded" /\ rec' = Committed(r) /\ UNCHANGED <<log, totals, pool>>
      /\ sess' = IF sess.by = tx[r].open.by THEN NoSession ELSE sess
  BY DEF CommitPlace, At
<1>2. /\ tx[r].kind = "place" /\ PlaceFits(r) /\ sess \in Session
  BY <1>1, Running DEF KindFits, Fits, Ended
<1>3. /\ tx[r].open = sess /\ Exists(sess)
      /\ tx[r].held = {i \in sess.planned : IsNew(rec[i])}
  BY <1>1, <1>2 DEF PlaceFits
<1>4. rec' = [i \in Items |-> IF i \in sess.planned /\ IsNew(rec[i]) THEN NoRow ELSE rec[i]]
  BY <1>1, <1>2, <1>3 DEF Committed, Written
<1>5. Entries' = Entries
  <2>1. Advance(r)
    BY DEF Advance
  <2>2. QED
    BY <1>1, <2>1, Moves, EntriesKept DEF SerialInv
<1>6. QED
  BY <1>1, <1>3, <1>4, <1>5
     DEF Ledger!Discard, Ledger!Exists, Exists, Ledger!None, None, Ledger!IsNew, IsNew,
         Ledger!NoSession, NoSession, Ledger!NoRow, NoRow, Entries

LEMMA LedgerMoves == SerialInv /\ [Next]_vars => [Ledger!Next]_(Ledger!vars)
<1> SUFFICES ASSUME SerialInv, [Next]_vars PROVE [Ledger!Next]_(Ledger!vars)
  OBVIOUS
<1>s. StudyInv
  BY DEF SerialInv
<1>1. CASE UNCHANGED vars
  BY <1>1 DEF vars, Ledger!vars
<1>2. CASE Next
  <2>1. PICK r \in Req : Arrive(r) \/ Advance(r) \/ Fail(r)
    BY <1>2 DEF Next
  <2>2. ASSUME UNCHANGED <<log, rec, totals, sess, pool>>
        PROVE  UNCHANGED Ledger!vars
    BY <1>s, <2>1, <2>2, LedgerStutters
  <2>3. CASE ~Advance(r)
    <3>1. Unwritten
      BY <2>1, <2>3 DEF Arrive, BeginBuild, BeginExtend, BeginPlace, BeginAttempt, Begin,
         Fail, Rollback
    <3>2. QED
      BY <2>2, <3>1 DEF Unwritten
  <2>4. CASE OpenSession(r)
    <3>1. CASE Exists(sess)
      BY <2>2, <2>4, <3>1 DEF OpenSession
    <3>2. CASE ~Exists(sess)
      BY <2>4, <3>2, LedgerOpens DEF Ledger!Next
    <3>3. QED
      BY <3>1, <3>2
  <2>5. CASE CommitAttempt(r)
    <3>1. CASE Rollback(r, "error")
      BY <2>2, <3>1 DEF Rollback, Unwritten
    <3>2. CASE ~Rollback(r, "error")
      <4>1. \E i \in Items, correct \in BOOLEAN : Ledger!Attempt(r, i, correct)
        BY <2>5, <3>2, LedgerAttempts
      <4>2. QED
        BY <4>1 DEF Ledger!Next
    <3>3. QED
      BY <3>1, <3>2
  <2>6. CASE CommitExtend(r)
    <3>1. CASE Rollback(r, "error")
      BY <2>2, <3>1 DEF Rollback, Unwritten
    <3>2. CASE ~Rollback(r, "error")
      BY <2>6, <3>2, LedgerExtends DEF Ledger!Next
    <3>3. QED
      BY <3>1, <3>2
  <2>7. CASE CommitPlace(r)
    BY <2>7, LedgerDiscards DEF Ledger!Next
  <2>8. CASE Generate(r)
    <3>1. CASE pool' = pool
      BY <2>2, <2>8, <3>1 DEF Generate
    <3>2. CASE pool' # pool
      BY <2>8, <3>2, LedgerGenerates DEF Ledger!Next
    <3>3. QED
      BY <3>1, <3>2
  <2>9. CASE Reuse(r)
    BY <2>2, <2>9 DEF Reuse
  <2>10. CASE \/ SelectRow(r) \/ InsertRow(r) \/ ReadDue(r) \/ ReadNew(r) \/ Schedule(r)
              \/ ReadProfile(r) \/ InsertProfile(r) \/ ReadMotivation(r) \/ Save(r)
              \/ ReadSession(r) \/ ReadExtend(r) \/ ReadExtra(r) \/ ReadPlace(r)
              \/ Discard(r)
    <3>1. Unwritten
      BY <2>10 DEF SelectRow, Select, InsertRow, ReadDue, ReadNew, Schedule, ReadProfile,
         InsertProfile, ReadMotivation, Save, ReadSession, ReadExtend, ReadExtra,
         ReadPlace, Discard
    <3>2. QED
      BY <2>2, <3>1 DEF Unwritten
  <2>11. CASE AbortDeadlock(r)
    BY <2>2, <2>11 DEF AbortDeadlock, Fail, Rollback, Unwritten
  <2>12. QED
    BY <2>1, <2>3, <2>4, <2>5, <2>6, <2>7, <2>8, <2>9, <2>10, <2>11 DEF Advance
<1>3. QED
  BY <1>1, <1>2

(* Served one at a time, the requests of a day keep the promise of the study *)
(* API (StudyLedger): each one's statements add up to one operation of the  *)
(* ledger or to none, whichever of them fails or is killed on its way.      *)
THEOREM SerialLedger == MaxActive = 1 => (Spec => ImplementsLedger)
<1> SUFFICES ASSUME MaxActive = 1 PROVE Spec => ImplementsLedger
  OBVIOUS
<1>1. SerialInv /\ [Next]_vars => SerialInv'
  BY StepSerialInv
<1>2. Init => Ledger!Init
  BY DEF Init, Ledger!Init, Ledger!NoRow, NoRow, Ledger!None, None, Ledger!Before, Before,
     Ledger!NoSession, NoSession
<1>3. QED
  BY <1>1, <1>2, InitSerialInv, LedgerMoves, PTL DEF Spec, ImplementsLedger, Ledger!Spec

(* Served one at a time, requests credit what they log, the first ever      *)
(* included.                                                               *)
LogCredited == totals.tags = Cardinality(log) /\ EveryAttemptEarns /\ DoneIsLogged

LEMMA StepCredited ==
    ASSUME SerialInv, CountInv, LogCredited, [Next]_vars
    PROVE  LogCredited'
<1>1. StudyInv /\ IsFiniteSet(log) /\ Cardinality(log) \in Nat
  BY FS_CardinalityType DEF SerialInv, CountInv
<1>2. CASE UNCHANGED vars
  BY <1>2 DEF vars, LogCredited, EveryAttemptEarns, Earned, DoneIsLogged
<1>3. CASE Next
  <2>1. PICK r \in Req : Arrive(r) \/ Advance(r) \/ Fail(r)
    BY <1>3 DEF Next
  <2>2. tx[r].pc \notin Ended /\ Alone(r) /\ r \notin log
    BY <1>1, <2>1, Moves DEF StudyInv, LogInv
  <2>3. ASSUME log' = log, totals' = totals, sess'.done \in {{}, sess.done} PROVE LogCredited'
    <3>1. \A q \in log : tx'[q] = tx[q]
      BY <1>1, <2>2 DEF Alone, StudyInv, TypeOK, LogInv
    <3>2. QED
      BY <2>3, <3>1 DEF LogCredited, EveryAttemptEarns, Earned, DoneIsLogged
  <2>4. CASE CommitAttempt(r) /\ ~Rollback(r, "error")
    <3>1. /\ log' = log \cup {r} /\ totals'.xp = totals.xp + XP(tx[r].ok)
          /\ totals'.tags = totals.tags + 1 /\ tx'[r].ok = tx[r].ok
          /\ sess'.done \subseteq sess.done \cup {r}
      BY <2>4, LedgerAttempts
    <3>2. Earned' = Earned + XP(tx[r].ok) /\ Cardinality(log') = Cardinality(log) + 1
      BY <1>1, <2>2, <3>1, EarnedGrows, FS_AddElement
    <3>3. QED
      BY <3>1, <3>2 DEF LogCredited, EveryAttemptEarns, DoneIsLogged
  <2>5. CASE CommitExtend(r) /\ ~Rollback(r, "error")
    <3>1. tx[r].pc = "extend commit"
      BY <2>5 DEF CommitExtend, At
    <3>2. tx[r].open = sess /\ sess \in Session
      BY <1>1, <3>1, Running DEF SerialInv, KindFits, Fits, ExtendFits, StudyInv, TypeOK, Ended
    <3>3. QED
      BY <2>3, <2>5, <3>2 DEF CommitExtend, Session
  <2>6. CASE /\ ~(CommitAttempt(r) /\ ~Rollback(r, "error"))
             /\ ~(CommitExtend(r) /\ ~Rollback(r, "error"))
    <3>1. CASE OpenSession(r)
      <4>1. log' = log /\ totals' = totals /\ sess'.done \in {{}, sess.done}
        BY <3>1 DEF OpenSession, Unwritten, Rollback
      <4>2. QED
        BY <2>3, <4>1
    <3>2. CASE CommitPlace(r)
      <4>1. log' = log /\ totals' = totals /\ sess'.done \in {{}, sess.done}
        BY <3>2 DEF CommitPlace, NoSession
      <4>2. QED
        BY <2>3, <4>1
    <3>3. CASE ~OpenSession(r) /\ ~CommitPlace(r)
      <4>1. log' = log /\ totals' = totals /\ sess' = sess
        BY <2>1, <2>6, <3>3 DEF Arrive, Advance, Fail, BeginBuild, BeginExtend, BeginPlace,
           BeginAttempt, Begin, Rollback, Unwritten, AbortDeadlock, SelectRow, Select,
           InsertRow, Reuse, ReadDue, ReadNew, Schedule, ReadProfile, InsertProfile,
           ReadMotivation, Save, ReadSession, ReadExtend, ReadExtra, Generate, ReadPlace, Discard
      <4>2. QED
        BY <2>3, <4>1
    <3>4. QED
      BY <3>1, <3>2, <3>3
  <2>7. QED
    BY <2>4, <2>5, <2>6
<1>4. QED
  BY <1>2, <1>3

LEMMA SerialCredited == MaxActive = 1 => (Spec => []LogCredited)
<1> SUFFICES ASSUME MaxActive = 1 PROVE Spec => []LogCredited
  OBVIOUS
<1>1. SerialInv /\ [Next]_vars => SerialInv'
  BY StepSerialInv
<1>2. Init => LogCredited
  <2> SUFFICES ASSUME Init PROVE LogCredited
    OBVIOUS
  <2>1. log = {} /\ {q \in log : tx[q].ok} = {} /\ {q \in log : ~tx[q].ok} = {}
    BY DEF Init
  <2>2. QED
    BY <2>1, FS_EmptySet DEF Init, LogCredited, EveryAttemptEarns, Earned, DoneIsLogged, NoSession
<1>3. SerialInv /\ CountInv /\ LogCredited /\ [Next]_vars => LogCredited'
  BY StepCredited
<1>4. QED
  BY <1>1, <1>2, <1>3, InitSerialInv, InitCountInv, StepCountInv, StudyInvariant, PTL
  DEF Spec

(* Served one at a time, every logged attempt earns its XP, also the first  *)
(* ever: only requests that overlap lose any (the finding).                 *)
THEOREM SerialAttemptsEarn == MaxActive = 1 => (Spec => []EveryAttemptEarns)
<1>1. LogCredited => EveryAttemptEarns
  BY DEF LogCredited
<1>2. QED
  BY <1>1, SerialCredited, PTL

(* Served one at a time, a learner's first day is credited as any other:    *)
(* only a collision of two first attempts breaks the credit (the finding of *)
(* user_profile_repo.get_or_create).                                       *)
THEOREM SerialCreditBacked == MaxActive = 1 => (Spec => []CreditBackedByLog)
<1>1. CountInv => Cardinality(log) \in Nat /\ Earned \in Nat
  BY LogCounts DEF CountInv
<1>2. CountInv /\ LogCredited => CreditBackedByLog
  BY <1>1 DEF LogCredited, CreditBackedByLog, EveryAttemptEarns
<1>3. QED
  BY <1>2, SerialCredited, InitCountInv, StepCountInv, StudyInvariant, PTL DEF Spec
=============================================================================
