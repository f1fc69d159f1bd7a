--------------------------- MODULE StudyDay_proofs --------------------------
(***************************************************************************)
(* Proofs about StudyDay, for every set of requests and items.             *)
(***************************************************************************)
EXTENDS StudyDay, TLAPS

-----------------------------------------------------------------------------
(* Types.                                                                  *)

LEMMA BlankType == Blank \in Tx
<1>1. AnyItem \in Items
  BY ItemsAssumption DEF AnyItem
<1>2. NoRow \in Row /\ NoSession \in Session
  BY DEF NoRow, Row, NoSession, Session
<1>3. QED
  BY <1>1, <1>2 DEF Blank, Tx, Pc

LEMMA InitType == Init => TypeOK
<1>1. /\ \A i \in Items : [by |-> Before, reps |-> 1] \in Row
      /\ NoRow \in Row /\ NoSession \in Session
  BY DEF Row, NoRow, Session, NoSession
<1>2. [made |-> ~FirstDay, tags |-> 0, xp |-> 0] \in Totals
  BY BoundsAssumption DEF Totals
<1>3. QED
  BY <1>1, <1>2, BlankType, ItemsAssumption DEF Init, TypeOK

LEMMA OldestSubset ==
    ASSUME NEW S, NEW n
    PROVE  First(S) \subseteq S /\ \A new \in Oldest(S, n) : new \subseteq S
BY DEF First, Oldest

LEMMA GotRowType ==
    ASSUME TypeOK, NEW r \in Req, NEW i \in Items, NEW row \in Row,
           NEW held \in SUBSET Items, GotRow(r, i, row, held)
    PROVE  tx' \in [Req -> Tx]
<1>1. tx[r] \in Tx
  BY DEF TypeOK
<1>2. NextRow(tx[r].kind, tx[r].todo \ {i}) \in Pc
  BY DEF NextRow, AfterRows, Pc
<1>3. QED
  BY <1>1, <1>2 DEF GotRow, Step, TypeOK, Tx

LEMMA CloseType ==
    ASSUME TypeOK, NEW r \in Req, NEW outcome \in Ended, Close(r, outcome)
    PROVE  tx' \in [Req -> Tx]
<1>1. tx[r] \in Tx
  BY DEF TypeOK
<1>2. outcome \in Pc /\ NoRow \in Row /\ NoSession \in Session
  BY DEF Pc, NoRow, Row, NoSession, Session
<1>3. QED
  BY <1>1, <1>2 DEF Close, Step, TypeOK, Tx

LEMMA CommittedType ==
    ASSUME TypeOK, NEW r \in Req
    PROVE  Committed(r) \in [Items -> Row]
<1>1. Written(r) \in Row
  BY DEF Written, TypeOK, Tx, Row, NoRow, NewRow
<1>2. QED
  BY <1>1 DEF Committed, TypeOK

LEMMA StepType == TypeOK /\ [Next]_vars => TypeOK'
<1> SUFFICES ASSUME TypeOK, Next PROVE TypeOK'
  BY DEF TypeOK, vars
<1> PICK r \in Req : Arrive(r) \/ Advance(r) \/ Fail(r)
  BY DEF Next
<1>t. tx[r] \in Tx
  BY DEF TypeOK
<1>o. {"ok", "error", "rejected"} \subseteq Ended
  BY DEF Ended
<1>s. ASSUME NEW new \in Tx, Step(r, new) PROVE tx' \in [Req -> Tx]
  BY <1>s DEF Step, TypeOK
<1>u. ASSUME Unwritten, tx' \in [Req -> Tx] PROVE TypeOK'
  BY <1>u DEF Unwritten, TypeOK
<1>r. ASSUME NEW outcome \in Ended, Rollback(r, outcome) PROVE TypeOK'
  BY <1>r, <1>u, CloseType DEF Rollback
<1>1. CASE Arrive(r)
  <2>1. ASSUME NEW kind, NEW pc \in Pc, Begin(r, kind, pc) PROVE TypeOK'
    <3>1. [Blank EXCEPT !.pc = pc, !.kind = kind] \in Tx
      BY <2>1, BlankType DEF Begin, Tx
    <3>2. QED
      BY <2>1, <3>1, <1>s, <1>u DEF Begin
  <2>2. CASE BeginAttempt(r)
    <3>1. PICK i \in shown, correct \in BOOLEAN :
             Step(r, [Blank EXCEPT !.pc = "select", !.kind = "attempt", !.item = i,
                                   !.ok = correct, !.todo = {i}])
      BY <2>2 DEF BeginAttempt
    <3>2. [Blank EXCEPT !.pc = "select", !.kind = "attempt", !.item = i,
                        !.ok = correct, !.todo = {i}] \in Tx
      BY <2>2, BlankType DEF BeginAttempt, Tx, Pc, TypeOK
    <3>3. QED
      BY <2>2, <3>1, <3>2, <1>s, <1>u DEF BeginAttempt
  <2>3. QED
    BY <1>1, <2>1, <2>2 DEF Arrive, BeginBuild, BeginExtend, BeginPlace, Pc
<1>2. CASE Fail(r)
  BY <1>2, <1>o, <1>r DEF Fail
<1>3. CASE SelectRow(r)
  <2>1. PICK i \in Items :
           /\ Unwritten
           /\ \/ GotRow(r, i, rec[i], tx[r].held)
              \/ Step(r, [tx[r] EXCEPT !.pc = "insert", !.item = i])
    BY <1>3, <1>t, OldestSubset DEF SelectRow, Select, Tx
  <2>2. [tx[r] EXCEPT !.pc = "insert", !.item = i] \in Tx
    BY <1>t DEF Tx, Pc
  <2>3. rec[i] \in Row /\ tx[r].held \in SUBSET Items
    BY <1>t DEF TypeOK, Tx
  <2>4. tx' \in [Req -> Tx]
    BY <2>1, <2>2, <2>3, <1>s, GotRowType
  <2>5. QED
    BY <2>1, <2>4, <1>u
<1>4. CASE InsertRow(r)
  <2>1. PICK i \in Items :
           \/ Close(r, "error")
           \/ GotRow(r, i, NewRow(r), tx[r].held \cup {i})
    BY <1>4, <1>t DEF InsertRow, Tx
  <2>2. NewRow(r) \in Row /\ tx[r].held \cup {i} \in SUBSET Items
    BY <1>t DEF NewRow, Row, Tx
  <2>3. tx' \in [Req -> Tx]
    BY <2>1, <2>2, <1>o, GotRowType, CloseType
  <2>4. QED
    BY <1>4, <2>3, <1>u DEF InsertRow
<1>5. CASE Reuse(r)
  <2>1. [tx[r] EXCEPT !.pc = "due"] \in Tx
    BY <1>t DEF Tx, Pc
  <2>2. tx' \in [Req -> Tx]
    BY <1>5, <2>1, <1>s, <1>o, CloseType DEF Reuse
  <2>3. QED
    BY <1>5, <2>2 DEF Reuse, TypeOK, Session
<1>6. CASE ReadDue(r)
  <2>1. PICK due \in SUBSET Items : Step(r, [tx[r] EXCEPT !.pc = "new", !.plan = due])
    BY <1>6 DEF ReadDue
  <2>2. [tx[r] EXCEPT !.pc = "new", !.plan = due] \in Tx
    BY <1>t DEF Tx, Pc
  <2>3. QED
    BY <1>6, <2>1, <2>2, <1>s, <1>u DEF ReadDue
<1>7. CASE ReadNew(r)
  <2>0. PICK new \in Oldest(Fresh, Slots(tx[r].plan)) :
           Step(r, [tx[r] EXCEPT !.todo = new, !.plan = @ \cup new,
                                 !.pc = NextRow("build", new)])
    BY <1>7 DEF ReadNew
  <2>1. new \subseteq Items /\ NextRow("build", new) \in Pc
    BY OldestSubset DEF Fresh, TypeOK, NextRow, AfterRows, Pc
  <2>2. [tx[r] EXCEPT !.todo = new, !.plan = @ \cup new,
                      !.pc = NextRow("build", new)] \in Tx
    BY <1>t, <2>1 DEF Tx
  <2>3. QED
    BY <1>7, <2>0, <2>2, <1>s, <1>u DEF ReadNew
<1>8. CASE OpenSession(r)
  <2>1. tx' \in [Req -> Tx]
    BY <1>8, <1>o, CloseType DEF OpenSession
  <2>2. QED
    BY <1>8, <2>1, <1>t, CommittedType DEF OpenSession, TypeOK, Session, Tx
<1>9. CASE Schedule(r)
  <2>1. [tx[r] EXCEPT !.pc = "profile", !.held = {tx[r].item}] \in Tx
    BY <1>t DEF Tx, Pc
  <2>2. tx' \in [Req -> Tx]
    BY <1>9, <2>1, <1>s, <1>o, CloseType DEF Schedule
  <2>3. QED
    BY <1>9, <2>2, <1>u DEF Schedule
<1>10. CASE ReadProfile(r)
  <2>1. /\ [tx[r] EXCEPT !.pc = "motivation", !.tags = totals.tags] \in Tx
        /\ [tx[r] EXCEPT !.pc = "profile insert"] \in Tx
    BY <1>t DEF TypeOK, Totals, Tx, Pc
  <2>2. QED
    BY <1>10, <2>1, <1>s, <1>u DEF ReadProfile
<1>11. CASE InsertProfile(r)
  <2>1. /\ [tx[r] EXCEPT !.pc = "motivation", !.tags = totals.tags,
                         !.held = {}, !.lost = TRUE] \in Tx
        /\ [tx[r] EXCEPT !.pc = "motivation", !.locked = TRUE] \in Tx
    BY <1>t DEF TypeOK, Totals, Tx, Pc
  <2>2. QED
    BY <1>11, <2>1, <1>s, <1>u DEF InsertProfile
<1>12. CASE ReadMotivation(r)
  <2>1. [tx[r] EXCEPT !.pc = "save", !.xp = totals.xp] \in Tx
    BY <1>t DEF TypeOK, Totals, Tx, Pc
  <2>2. QED
    BY <1>12, <2>1, <1>s, <1>u DEF ReadMotivation
<1>13. CASE Save(r)
  <2>1. [tx[r] EXCEPT !.pc = "session", !.locked = TRUE] \in Tx
    BY <1>t DEF Tx, Pc
  <2>2. QED
    BY <1>13, <2>1, <1>s, <1>u DEF Save
<1>14. CASE ReadSession(r)
  <2>1. [tx[r] EXCEPT !.pc = "commit", !.open = sess] \in Tx
    BY <1>t DEF TypeOK, Tx, Pc
  <2>2. QED
    BY <1>14, <2>1, <1>s, <1>u DEF ReadSession
<1>15. CASE CommitAttempt(r)
  <2>1. CASE Rollback(r, "error")
    BY <2>1, <1>o, <1>r
  <2>2. CASE ~Rollback(r, "error")
    <3>1. tx' \in [Req -> Tx]
      BY <1>15, <2>2, <1>o, CloseType DEF CommitAttempt
    <3>2. totals' \in Totals
      <4>1. tx[r].tags + 1 \in Nat /\ tx[r].xp + XP(tx[r].ok) \in Nat
        BY <1>t DEF Tx, XP
      <4>2. totals' = [made |-> TRUE, tags |-> tx[r].tags + 1,
                       xp |-> tx[r].xp + XP(tx[r].ok)]
        BY <1>15, <2>2 DEF CommitAttempt
      <4>3. QED
        BY <4>1, <4>2 DEF Totals
    <3>3. sess' \in Session
      <4>1. tx[r].open \in Session /\ sess \in Session
        BY <1>t DEF TypeOK, Tx
      <4>2. [sess EXCEPT !.done = tx[r].open.done \cup {r}] \in Session
        BY <4>1 DEF Session
      <4>3. QED
        BY <1>15, <2>2, <4>1, <4>2 DEF CommitAttempt
    <3>4. QED
      BY <1>15, <2>2, <3>1, <3>2, <3>3, CommittedType DEF CommitAttempt, TypeOK
  <2>3. QED
    BY <2>1, <2>2
<1>16. CASE ReadExtend(r)
  <2>1. [tx[r] EXCEPT !.pc = "extend new", !.open = sess] \in Tx
    BY <1>t DEF TypeOK, Tx, Pc
  <2>2. tx' \in [Req -> Tx]
    BY <1>16, <2>1, <1>s, <1>o, CloseType DEF ReadExtend
  <2>3. QED
    BY <1>16, <2>2, <1>u DEF ReadExtend
<1>a. ASSUME NEW new \in SUBSET Items, Adopt(r, new) PROVE tx' \in [Req -> Tx]
  <2>1. NextRow("extend", new) \in Pc
    BY DEF NextRow, AfterRows, Pc
  <2>2. [tx[r] EXCEPT !.todo = new, !.plan = new,
                      !.pc = NextRow("extend", new)] \in Tx
    BY <1>t, <2>1 DEF Tx
  <2>3. QED
    BY <1>a, <2>2, <1>s DEF Adopt
<1>17. CASE ReadExtra(r)
  <2>1. \A new \in Oldest(Fresh, Extra) : new \in SUBSET Items
    BY OldestSubset DEF Fresh, TypeOK
  <2>2. [tx[r] EXCEPT !.pc = "generate"] \in Tx
    BY <1>t DEF Tx, Pc
  <2>3. tx' \in [Req -> Tx]
    BY <1>17, <2>1, <2>2, <1>a, <1>s DEF ReadExtra
  <2>4. QED
    BY <1>17, <2>3, <1>u DEF ReadExtra
<1>18. CASE Generate(r)
  <2>1. tx' \in [Req -> Tx] /\ pool' \subseteq Items
    BY <1>18, <1>a, <1>o, CloseType DEF Generate, TypeOK
  <2>2. QED
    BY <1>18, <2>1 DEF Generate, TypeOK
<1>19. CASE CommitExtend(r)
  <2>1. CASE Rollback(r, "error")
    BY <2>1, <1>o, <1>r
  <2>2. CASE ~Rollback(r, "error")
    <3>1. tx' \in [Req -> Tx]
      BY <1>19, <2>2, <1>o, CloseType DEF CommitExtend
    <3>2. sess' \in Session /\ shown' \subseteq Items
      <4> DEFINE added == tx[r].plan \cap HasProblem
      <4>1. tx[r].open \in Session /\ sess \in Session /\ added \subseteq Items
        BY <1>t DEF TypeOK, Tx
      <4>2. /\ [sess EXCEPT !.planned = tx[r].open.planned \cup added] \in Session
            /\ tx[r].open.planned \subseteq Items
        BY <4>1 DEF Session
      <4> HIDE DEF added
      <4>3. QED
        BY <1>19, <2>2, <4>1, <4>2 DEF CommitExtend, TypeOK, added
    <3>3. QED
      BY <1>19, <2>2, <3>1, <3>2, CommittedType DEF CommitExtend, TypeOK
  <2>3. QED
    BY <2>1, <2>2
<1>20. CASE ReadPlace(r)
  <2>1. [tx[r] EXCEPT !.pc = "discard", !.open = sess] \in Tx
    BY <1>t DEF TypeOK, Tx, Pc
  <2>2. tx' \in [Req -> Tx]
    BY <1>20, <2>1, <1>s, <1>o, CloseType DEF ReadPlace
  <2>3. QED
    BY <1>20, <2>2, <1>u DEF ReadPlace
<1>21. CASE Discard(r)
  <2> DEFINE unstudied == {i \in tx[r].open.planned : IsNew(rec[i])}
  <2>1. [tx[r] EXCEPT !.pc = "discarded", !.held = unstudied] \in Tx
    BY <1>t DEF Tx, Pc, Session
  <2>2. QED
    BY <1>21, <2>1, <1>s, <1>u DEF Discard
<1>22. CASE CommitPlace(r)
  <2>1. tx' \in [Req -> Tx]
    BY <1>22, <1>o, CloseType DEF CommitPlace
  <2>2. sess' \in Session
    BY <1>22 DEF CommitPlace, TypeOK, Session, NoSession
  <2>3. QED
    BY <1>22, <2>1, <2>2, CommittedType DEF CommitPlace, TypeOK
<1>23. QED
  BY <1>1, <1>2, <1>3, <1>4, <1>5, <1>6, <1>7, <1>8, <1>9, <1>10, <1>11, <1>12,
     <1>13, <1>14, <1>15, <1>16, <1>17, <1>18, <1>19, <1>20, <1>21, <1>22
  DEF Advance, AbortDeadlock

(* Every row and every request keeps its type (the models under            *)
(* backend/app/models, the locals of study_service).                       *)
THEOREM TypeCorrect == Spec => []TypeOK
BY InitType, StepType, PTL DEF Spec

-----------------------------------------------------------------------------
(* The inductive invariant behind LoggedIsStudied.  Row locks exclude each *)
(* other; a row locked to be inserted or deleted is not a studied one; an  *)
(* attempt that was not rolled back commits the row of its item.           *)

Scheduled == {"profile", "profile insert", "motivation", "save", "session", "commit"}
Elsewhere == {"reuse", "due", "new", "open", "extend", "extend new", "generate",
              "extend commit", "place", "discard", "discarded"}

AttemptInv ==
    \A r \in Req :
        /\ tx[r].pc \in Scheduled \cup {"schedule"} =>
              tx[r].kind = "attempt" /\ Exists(tx[r].row)
        /\ tx[r].pc \in Elsewhere => tx[r].kind # "attempt"
        /\ tx[r].pc \in Scheduled /\ ~tx[r].lost => tx[r].held = {tx[r].item}

LockInv ==
    /\ \A q, r \in Req : q # r => tx[q].held \cap tx[r].held = {}
    /\ \A r \in Req : tx[r].kind # "attempt" =>
          \A i \in tx[r].held : rec[i].reps = 0

LogInv == \A q \in log : tx[q].pc \in Ended /\ rec[tx[q].item].reps > 0

RowInv == \A i \in Items : Exists(rec[i]) \/ rec[i].reps = 0

StudyInv == TypeOK /\ AttemptInv /\ LockInv /\ LogInv /\ RowInv

LEMMA InitStudyInv == Init => StudyInv
<1> SUFFICES ASSUME Init PROVE StudyInv
  OBVIOUS
<1>1. \A r \in Req : tx[r].pc = "idle" /\ tx[r].held = {}
  BY DEF Init, Blank
<1>2. AttemptInv /\ LockInv
  BY <1>1 DEF AttemptInv, LockInv, Scheduled, Elsewhere
<1>3. LogInv
  BY DEF Init, LogInv
<1>4. RowInv
  BY DEF Init, RowInv, Exists, NoRow, Before, None
<1>5. QED
  BY <1>2, <1>3, <1>4, InitType DEF StudyInv

(* A step of a running request that changes no committed row.              *)
LEMMA QuietStep ==
    ASSUME StudyInv, TypeOK', NEW r \in Req, NEW new \in Tx,
           tx[r].pc \notin Ended, Step(r, new), Unwritten,
           new.pc \in Scheduled \cup {"schedule"} =>
               new.kind = "attempt" /\ Exists(new.row),
           new.pc \in Elsewhere => new.kind # "attempt",
           new.pc \in Scheduled /\ ~new.lost => new.held = {new.item},
           \A i \in new.held : i \in tx[r].held \/ ~RowLocked(r, i),
           new.kind # "attempt" => \A i \in new.held : rec[i].reps = 0
    PROVE  StudyInv'
<1>1. tx' = [tx EXCEPT ![r] = new] /\ rec' = rec /\ log' = log
  BY DEF Step, Unwritten
<1>2. tx \in [Req -> Tx] /\ log \subseteq Req /\ r \notin log
  BY DEF StudyInv, TypeOK, LogInv
<1>3. AttemptInv'
  BY <1>1, <1>2 DEF AttemptInv, StudyInv
<1>4. LockInv'
  <2>1. \A q \in Req \ {r} : tx[q].held \cap new.held = {}
    BY DEF StudyInv, LockInv, RowLocked
  <2>2. QED
    BY <1>1, <1>2, <2>1 DEF LockInv, StudyInv
<1>5. LogInv'
  BY <1>1, <1>2 DEF LogInv, StudyInv
<1>6. RowInv'
  BY <1>1 DEF RowInv, StudyInv, Exists
<1>7. QED
  BY <1>3, <1>4, <1>5, <1>6 DEF StudyInv

(* A request ends, and its row writes take effect or are rolled back.      *)
LEMMA EndStep ==
    ASSUME StudyInv, TypeOK', NEW r \in Req, NEW outcome \in Ended,
           tx[r].pc \notin Ended, Close(r, outcome),
           rec' = rec \/ rec' = Committed(r),
           tx[r].kind = "attempt" /\ rec' # rec => Exists(tx[r].row),
           \/ log' = log
           \/ /\ log' = log \cup {r} /\ rec' = Committed(r)
              /\ tx[r].kind = "attempt" /\ tx[r].held = {tx[r].item}
    PROVE  StudyInv'
<1> DEFINE new == [tx[r] EXCEPT !.pc = outcome, !.todo = {}, !.plan = {}, !.held = {},
                          !.row = NoRow, !.locked = FALSE, !.tags = 0, !.xp = 0,
                          !.open = NoSession]
<1>1. tx \in [Req -> Tx] /\ log \subseteq Req /\ r \notin log /\ tx[r] \in Tx
  BY DEF StudyInv, TypeOK, LogInv
<1>2. tx' = [tx EXCEPT ![r] = new]
  BY DEF Close, Step
<1>3. new.pc = outcome /\ new.held = {} /\ new.item = tx[r].item
  BY <1>1 DEF Tx
<1> HIDE DEF new
<1>4. outcome \notin Scheduled \cup {"schedule"} \cup Elsewhere
  BY DEF Ended, Scheduled, Elsewhere
<1>5. AttemptInv'
  BY <1>1, <1>2, <1>3, <1>4 DEF AttemptInv, StudyInv
<1>6. \A i \in Items : i \notin tx[r].held => rec'[i] = rec[i]
  BY DEF Committed, StudyInv, TypeOK
<1>7. \A q \in Req : tx[q].held \subseteq Items /\ tx[q].item \in Items
  BY <1>1 DEF Tx
<1>8. LockInv'
  <2>1. \A q \in Req \ {r} : \A i \in tx[q].held : rec'[i] = rec[i]
    BY <1>6, <1>7 DEF LockInv, StudyInv
  <2>2. QED
    BY <1>1, <1>2, <1>3, <2>1 DEF LockInv, StudyInv
<1>9. ASSUME NEW i \in tx[r].held, rec' = Committed(r), tx[r].kind = "attempt"
      PROVE  rec'[i].reps > 0
  <2>1. i \in Items /\ tx[r].row.reps \in Nat /\ tx[r].row \in Row
    BY <1>7, <1>1 DEF Tx, Row
  <2>2. rec'[i] = [tx[r].row EXCEPT !.reps = @ + 1]
    BY <1>9, <2>1 DEF Committed, Written
  <2>3. QED
    BY <2>1, <2>2 DEF Row
<1>10. LogInv'
  <2>1. ASSUME NEW q \in log PROVE tx'[q].pc \in Ended /\ rec'[tx'[q].item].reps > 0
    <3>1. q \in Req /\ q # r /\ tx'[q] = tx[q] /\ tx[q].item \in Items
      BY <1>1, <1>2, <1>7
    <3>2. tx[q].pc \in Ended /\ rec[tx[q].item].reps > 0
      BY DEF LogInv, StudyInv
    <3>3. CASE tx[q].item \notin tx[r].held
      BY <1>6, <3>1, <3>2, <3>3
    <3>4. CASE tx[q].item \in tx[r].held /\ tx[r].kind = "attempt"
      BY <1>9, <3>1, <3>2, <3>4
    <3>5. CASE tx[q].item \in tx[r].held /\ tx[r].kind # "attempt"
      BY <3>2, <3>5 DEF LockInv, StudyInv
    <3>6. QED
      BY <3>3, <3>4, <3>5
  <2>2. log' # log => tx'[r].pc \in Ended /\ rec'[tx'[r].item].reps > 0
    BY <1>1, <1>2, <1>3, <1>9
  <2>3. QED
    BY <2>1, <2>2 DEF LogInv
<1>11. RowInv'
  <2>1. Exists(Written(r)) \/ Written(r).reps = 0 \/ rec' = rec
    <3>1. NewRow(r).by = r /\ r # None /\ NoRow.reps = 0
      BY ReqAssumption DEF NewRow, NoRow
    <3>2. CASE tx[r].kind = "attempt"
      BY <3>2, <1>1 DEF Written, Exists, Tx, Row
    <3>3. CASE tx[r].kind # "attempt"
      BY <3>1, <3>3 DEF Written, Exists
    <3>4. QED
      BY <3>2, <3>3
  <2>2. ASSUME NEW i \in Items PROVE Exists(rec'[i]) \/ rec'[i].reps = 0
    <3>1. CASE i \notin tx[r].held \/ rec' = rec
      BY <3>1, <1>6 DEF RowInv, StudyInv
    <3>2. CASE i \in tx[r].held /\ rec' # rec
      BY <2>1, <3>2 DEF Committed
    <3>3. QED
      BY <3>1, <3>2
  <2>3. QED
    BY <2>2 DEF RowInv, Exists
<1>12. QED
  BY <1>5, <1>8, <1>10, <1>11 DEF StudyInv

(* One case per action: each is a quiet step or the end of its request.    *)
LEMMA StepStudyInv == StudyInv /\ [Next]_vars => StudyInv'
<1>0. ASSUME StudyInv, UNCHANGED vars PROVE StudyInv'
  BY <1>0 DEF StudyInv, TypeOK, AttemptInv, LockInv, LogInv, RowInv, RowLocked,
     Exists, vars
<1> SUFFICES ASSUME StudyInv, Next PROVE StudyInv'
  BY <1>0
<1> PICK r \in Req : Arrive(r) \/ Advance(r) \/ Fail(r)
  BY DEF Next
<1>y. TypeOK /\ TypeOK'
  BY StepType DEF StudyInv
<1>t. tx \in [Req -> Tx] /\ tx[r] \in Tx
  BY <1>y DEF TypeOK
<1>o. {"ok", "error", "rejected"} \subseteq Ended
  BY DEF Ended
<1>p. /\ tx[r].pc \in Scheduled \cup {"schedule"} =>
             tx[r].kind = "attempt" /\ Exists(tx[r].row)
      /\ tx[r].pc \in Elsewhere => tx[r].kind # "attempt"
      /\ tx[r].pc \in Scheduled /\ ~tx[r].lost => tx[r].held = {tx[r].item}
      /\ tx[r].kind # "attempt" => \A i \in tx[r].held : rec[i].reps = 0
  BY DEF StudyInv, AttemptInv, LockInv
<1>r. ASSUME NEW outcome \in Ended, tx[r].pc \notin Ended, Close(r, outcome),
             rec' = rec, log' = log
      PROVE  StudyInv'
  BY <1>r, <1>y, EndStep
<1>u. Unwritten => rec' = rec /\ log' = log
  BY DEF Unwritten
<1>1. CASE Arrive(r)
  <2>1. Blank \in Tx /\ Blank.held = {}
    BY BlankType DEF Blank
  <2>2. ASSUME NEW kind, NEW pc \in Elsewhere, kind # "attempt", Begin(r, kind, pc)
        PROVE  StudyInv'
    <3> DEFINE new == [Blank EXCEPT !.pc = pc, !.kind = kind]
    <3>1. new \in Tx /\ new.pc = pc /\ new.kind = kind /\ new.held = {}
      BY <2>1, <2>2 DEF Begin, Tx, Elsewhere, Pc
    <3>2. tx[r].pc \notin Ended /\ Step(r, new) /\ Unwritten
      BY <2>2 DEF Begin, At, Ended
    <3> HIDE DEF new
    <3>3. new.pc \notin Scheduled \cup {"schedule"}
      BY <3>1 DEF Scheduled, Elsewhere
    <3>4. QED
      BY <1>y, <2>2, <3>1, <3>2, <3>3, QuietStep
  <2>3. CASE BeginAttempt(r)
    <3>1. PICK i \in shown, correct \in BOOLEAN :
             Step(r, [Blank EXCEPT !.pc = "select", !.kind = "attempt", !.item = i,
                                   !.ok = correct, !.todo = {i}])
      BY <2>3 DEF BeginAttempt
    <3> DEFINE new == [Blank EXCEPT !.pc = "select", !.kind = "attempt", !.item = i,
                                    !.ok = correct, !.todo = {i}]
    <3>2. new \in Tx /\ new.pc = "select" /\ new.held = {}
      BY <1>y, <2>1, <2>3 DEF BeginAttempt, Tx, Pc, TypeOK
    <3>3. tx[r].pc \notin Ended /\ Step(r, new) /\ Unwritten
      BY <2>3, <3>1 DEF BeginAttempt, At, Ended
    <3> HIDE DEF new
    <3>4. new.pc \notin Scheduled \cup {"schedule"} \cup Elsewhere
      BY <3>2 DEF Scheduled, Elsewhere
    <3>5. QED
      BY <1>y, <3>2, <3>3, <3>4, QuietStep
  <2>4. QED
    BY <1>1, <2>2, <2>3
    DEF Arrive, BeginBuild, BeginExtend, BeginPlace, Elsewhere
<1>2. CASE Fail(r)
  BY <1>2, <1>o, <1>r, <1>u DEF Fail, Active, Rollback
(* A quiet step whose request is outside schedule..commit before and after, *)
(* or keeps the fields that the invariant speaks of.                        *)
<1>q. ASSUME NEW new \in Tx, tx[r].pc \notin Ended, Step(r, new), Unwritten,
             new.held = tx[r].held, new.kind = tx[r].kind,
             new.pc \notin Scheduled \cup {"schedule"},
             new.pc \in Elsewhere => tx[r].kind # "attempt"
      PROVE  StudyInv'
  BY <1>q, <1>y, <1>p, QuietStep
<1>s. ASSUME NEW new \in Tx, tx[r].pc \in Scheduled, Step(r, new), Unwritten,
             new.held = tx[r].held, new.kind = tx[r].kind,
             new.item = tx[r].item, new.row = tx[r].row, new.lost = tx[r].lost,
             new.pc \in Scheduled
      PROVE  StudyInv'
  <2>1. tx[r].pc \notin Ended /\ new.pc \notin Elsewhere
    BY <1>s DEF Scheduled, Ended, Elsewhere
  <2>2. QED
    BY <1>s, <1>y, <1>p, <2>1, QuietStep
<1>g. ASSUME NEW i \in Items, NEW row \in Row, NEW held \in SUBSET Items,
             tx[r].pc \in {"select", "insert"}, GotRow(r, i, row, held),
             Unwritten, Exists(row),
             \A j \in held : j \in tx[r].held \/ ~RowLocked(r, j),
             tx[r].kind # "attempt" => \A j \in held : rec[j].reps = 0
      PROVE  StudyInv'
  <2> DEFINE todo == tx[r].todo \ {i}
             new == [tx[r] EXCEPT !.todo = todo, !.held = held,
                         !.row = IF tx[r].kind = "attempt" THEN row ELSE @,
                         !.pc = NextRow(tx[r].kind, todo)]
  <2>1. Step(r, new) /\ tx[r].pc \notin Ended
    BY <1>g DEF GotRow, Ended
  <2>2. NextRow(tx[r].kind, todo) \in Pc
    BY DEF NextRow, AfterRows, Pc
  <2>3. /\ new \in Tx /\ new.held = held /\ new.kind = tx[r].kind
        /\ new.pc = NextRow(tx[r].kind, todo)
        /\ tx[r].kind = "attempt" => new.row = row
    BY <1>t, <1>g, <2>2 DEF Tx
  <2>4. /\ new.pc \notin Scheduled
        /\ new.pc = "schedule" => tx[r].kind = "attempt"
        /\ new.pc \in Elsewhere => tx[r].kind # "attempt"
    BY <2>3 DEF NextRow, AfterRows, Scheduled, Elsewhere
  <2> HIDE DEF new
  <2>5. QED
    BY <1>g, <1>y, <2>1, <2>3, <2>4, QuietStep
<1>3. CASE SelectRow(r)
  <2>0. tx[r].pc = "select" /\ Unwritten
    BY <1>3 DEF SelectRow, Select, At
  <2>1. PICK i \in Items :
           \/ Exists(rec[i]) /\ GotRow(r, i, rec[i], tx[r].held)
           \/ Step(r, [tx[r] EXCEPT !.pc = "insert", !.item = i])
    BY <1>3, <1>t, OldestSubset DEF SelectRow, Select, Tx
  <2>2. CASE Exists(rec[i]) /\ GotRow(r, i, rec[i], tx[r].held)
    <3>1. rec[i] \in Row /\ tx[r].held \in SUBSET Items
      BY <1>y, <1>t DEF TypeOK, Tx
    <3>2. QED
      BY <2>0, <2>2, <3>1, <1>p, <1>g
  <2>3. CASE Step(r, [tx[r] EXCEPT !.pc = "insert", !.item = i])
    BY <1>q, <1>t, <2>0, <2>3 DEF Tx, Pc, Scheduled, Elsewhere, Ended
  <2>4. QED
    BY <2>1, <2>2, <2>3
<1>4. CASE InsertRow(r)
  <2>0. tx[r].pc = "insert" /\ tx[r].pc \notin Ended /\ Unwritten
    BY <1>4 DEF InsertRow, At, Ended
  <2>1. PICK i \in Items :
           /\ ~RowLocked(r, i)
           /\ \/ Close(r, "error")
              \/ ~Exists(rec[i]) /\ GotRow(r, i, NewRow(r), tx[r].held \cup {i})
    BY <1>4, <1>t DEF InsertRow, Tx
  <2>2. CASE Close(r, "error")
    BY <1>o, <1>r, <1>u, <2>0, <2>2
  <2>3. CASE ~Exists(rec[i]) /\ GotRow(r, i, NewRow(r), tx[r].held \cup {i})
    <3>1. /\ NewRow(r) \in Row /\ tx[r].held \cup {i} \in SUBSET Items
          /\ Exists(NewRow(r)) /\ rec[i].reps = 0
      BY <1>t, <2>3, ReqAssumption
      DEF NewRow, Row, Tx, Exists, StudyInv, RowInv
    <3>2. tx[r].kind # "attempt" =>
             \A j \in tx[r].held \cup {i} : rec[j].reps = 0
      BY <3>1, <1>p
    <3>3. QED
      BY <2>0, <2>1, <2>3, <3>1, <3>2, <1>g
  <2>4. QED
    BY <2>1, <2>2, <2>3
<1>e. tx[r].pc \in Elsewhere => tx[r].pc \notin Ended
  BY DEF Ended, Elsewhere
<1>c. ASSUME NEW outcome \in Ended, tx[r].pc \in Elsewhere, Close(r, outcome),
             rec' = rec \/ rec' = Committed(r), log' = log
      PROVE  StudyInv'
  BY <1>c, <1>e, <1>p, <1>y, EndStep
<1>f. ASSUME NEW new \in Tx, tx[r].pc \in Elsewhere, Step(r, new), Unwritten,
             new.held = tx[r].held, new.kind = tx[r].kind,
             new.pc \in Elsewhere \cup {"select"}
      PROVE  StudyInv'
  <2>1. new.pc \notin Scheduled \cup {"schedule"}
    BY <1>f DEF Scheduled, Elsewhere
  <2>2. QED
    BY <1>f, <1>e, <1>p, <1>q, <2>1
<1>5. CASE Reuse(r)
  <2>1. tx[r].pc \in Elsewhere /\ rec' = rec /\ log' = log
    BY <1>5 DEF Reuse, At, Elsewhere
  <2>2. CASE Close(r, "ok")
    BY <1>o, <1>c, <2>1, <2>2
  <2>3. CASE Step(r, [tx[r] EXCEPT !.pc = "due"]) /\ UNCHANGED shown
    <3>1. Unwritten
      BY <1>5, <2>3 DEF Reuse, Unwritten
    <3>2. QED
      BY <1>f, <1>t, <2>1, <2>3, <3>1 DEF Tx, Pc, Elsewhere
  <2>4. QED
    BY <1>5, <2>2, <2>3 DEF Reuse
<1>6. CASE ReadDue(r)
  <2>1. PICK due \in SUBSET Items : Step(r, [tx[r] EXCEPT !.pc = "new", !.plan = due])
    BY <1>6 DEF ReadDue
  <2>2. tx[r].pc \in Elsewhere /\ Unwritten
    BY <1>6 DEF ReadDue, At, Elsewhere
  <2>3. QED
    BY <1>f, <1>t, <2>1, <2>2 DEF Tx, Pc, Elsewhere
<1>7. CASE ReadNew(r)
  <2>3. PICK new \in Oldest(Fresh, Slots(tx[r].plan)) :
           Step(r, [tx[r] EXCEPT !.todo = new, !.plan = @ \cup new,
                                 !.pc = NextRow("build", new)])
    BY <1>7 DEF ReadNew
  <2>1. new \subseteq Items /\ NextRow("build", new) \in Elsewhere \cup {"select"}
    BY <1>y, OldestSubset DEF Fresh, TypeOK, NextRow, AfterRows, Elsewhere
  <2>2. tx[r].pc \in Elsewhere /\ Unwritten
    BY <1>7 DEF ReadNew, At, Elsewhere
  <2>4. QED
    BY <1>f, <1>t, <2>1, <2>2, <2>3 DEF Tx, Pc, Elsewhere
<1>8. CASE OpenSession(r)
  <2>1. tx[r].pc \in Elsewhere /\ log' = log
    BY <1>8 DEF OpenSession, At, Elsewhere
  <2>2. \/ Close(r, "error") /\ rec' = rec
        \/ Close(r, "ok") /\ rec' = Committed(r)
    BY <1>8 DEF OpenSession
  <2>3. QED
    BY <1>o, <1>c, <2>1, <2>2
<1>9. CASE Schedule(r)
  <2>0. tx[r].pc = "schedule" /\ tx[r].pc \notin Ended /\ Unwritten
    BY <1>9 DEF Schedule, At, Ended
  <2> DEFINE new == [tx[r] EXCEPT !.pc = "profile", !.held = {tx[r].item}]
  <2>1. CASE Close(r, "error")
    BY <1>o, <1>r, <1>u, <2>0, <2>1
  <2>2. CASE Step(r, new)
    <3>1. /\ new \in Tx /\ new.pc = "profile" /\ new.held = {new.item}
          /\ new.kind = tx[r].kind /\ new.row = tx[r].row /\ new.item = tx[r].item
      BY <1>t DEF Tx, Pc
    <3>2. ~RowLocked(r, tx[r].item)
      BY <1>9 DEF Schedule
    <3> HIDE DEF new
    <3>3. new.kind = "attempt" /\ Exists(new.row) /\ new.pc \notin Elsewhere
      BY <1>p, <2>0, <3>1 DEF Elsewhere
    <3>4. QED
      BY <1>y, <2>0, <2>2, <3>1, <3>2, <3>3, QuietStep
  <2>3. QED
    BY <1>9, <2>1, <2>2 DEF Schedule
<1>10. CASE ReadProfile(r)
  <2>1. /\ [tx[r] EXCEPT !.pc = "motivation", !.tags = totals.tags] \in Tx
        /\ [tx[r] EXCEPT !.pc = "profile insert"] \in Tx
    BY <1>t, <1>y DEF TypeOK, Totals, Tx, Pc
  <2>2. tx[r].pc \in Scheduled /\ Unwritten
    BY <1>10 DEF ReadProfile, At, Scheduled
  <2>3. QED
    BY <1>10, <1>s, <1>t, <2>1, <2>2 DEF ReadProfile, Tx, Scheduled
<1>11. CASE InsertProfile(r)
  <2> DEFINE new == [tx[r] EXCEPT !.pc = "motivation", !.tags = totals.tags,
                                  !.held = {}, !.lost = TRUE]
  <2>1. tx[r].pc \in Scheduled /\ tx[r].pc \notin Ended /\ Unwritten
    BY <1>11 DEF InsertProfile, At, Scheduled, Ended
  <2>2. CASE Step(r, [tx[r] EXCEPT !.pc = "motivation", !.locked = TRUE])
    BY <1>s, <1>t, <2>1, <2>2 DEF Tx, Pc, Scheduled
  <2>3. CASE Step(r, new)
    <3>1. /\ new \in Tx /\ new.pc = "motivation" /\ new.held = {} /\ new.lost
          /\ new.kind = tx[r].kind /\ new.row = tx[r].row
      BY <1>t, <1>y DEF TypeOK, Totals, Tx, Pc
    <3> HIDE DEF new
    <3>2. new.kind = "attempt" /\ Exists(new.row) /\ new.pc \notin Elsewhere
      BY <1>p, <2>1, <3>1 DEF Elsewhere
    <3>3. QED
      BY <1>y, <2>1, <2>3, <3>1, <3>2, QuietStep
  <2>4. QED
    BY <1>11, <2>2, <2>3 DEF InsertProfile
<1>12. CASE ReadMotivation(r)
  <2>1. [tx[r] EXCEPT !.pc = "save", !.xp = totals.xp] \in Tx
    BY <1>t, <1>y DEF TypeOK, Totals, Tx, Pc
  <2>2. tx[r].pc \in Scheduled /\ Unwritten
    BY <1>12 DEF ReadMotivation, At, Scheduled
  <2>3. QED
    BY <1>12, <1>s, <1>t, <2>1, <2>2 DEF ReadMotivation, Tx, Scheduled
<1>13. CASE Save(r)
  <2>1. tx[r].pc \in Scheduled /\ Unwritten
    BY <1>13 DEF Save, At, Scheduled
  <2>2. QED
    BY <1>13, <1>s, <1>t, <2>1 DEF Save, Tx, Pc, Scheduled
<1>14. CASE ReadSession(r)
  <2>1. [tx[r] EXCEPT !.pc = "commit", !.open = sess] \in Tx
    BY <1>t, <1>y DEF TypeOK, Tx, Pc
  <2>2. tx[r].pc \in Scheduled /\ Unwritten
    BY <1>14 DEF ReadSession, At, Scheduled
  <2>3. QED
    BY <1>14, <1>s, <1>t, <2>1, <2>2 DEF ReadSession, Tx, Scheduled
<1>15. CASE CommitAttempt(r)
  <2>1. tx[r].pc = "commit" /\ tx[r].pc \in Scheduled /\ tx[r].pc \notin Ended
    BY <1>15 DEF CommitAttempt, At, Scheduled, Ended
  <2>2. CASE Rollback(r, "error")
    BY <1>o, <1>r, <1>u, <2>1, <2>2 DEF Rollback
  <2>3. CASE ~Rollback(r, "error")
    <3>1. /\ log' = IF tx[r].lost THEN log ELSE log \cup {r}
          /\ rec' = Committed(r)
          /\ Close(r, IF tx[r].lost THEN "error" ELSE "ok")
      BY <1>15, <2>3 DEF CommitAttempt
    <3>2. QED
      BY <1>o, <1>p, <1>y, <2>1, <3>1, EndStep
  <2>4. QED
    BY <2>2, <2>3
<1>16. CASE ReadExtend(r)
  <2>1. tx[r].pc \in Elsewhere /\ Unwritten
    BY <1>16 DEF ReadExtend, At, Elsewhere
  <2>2. [tx[r] EXCEPT !.pc = "extend new", !.open = sess] \in Tx
    BY <1>t, <1>y DEF TypeOK, Tx, Pc
  <2>3. CASE Close(r, "rejected")
    BY <1>o, <1>c, <1>u, <2>1, <2>3
  <2>4. CASE Step(r, [tx[r] EXCEPT !.pc = "extend new", !.open = sess])
    BY <1>f, <1>t, <2>1, <2>2, <2>4 DEF Tx, Elsewhere
  <2>5. QED
    BY <1>16, <2>3, <2>4 DEF ReadExtend
(* Adopt leaves the committed review rows and the log alone; Generate may  *)
(* also have grown the pool.                                               *)
<1>a. ASSUME NEW new \in SUBSET Items, tx[r].pc \in Elsewhere, Adopt(r, new),
             rec' = rec, log' = log
      PROVE  StudyInv'
  <2> DEFINE n == [tx[r] EXCEPT !.todo = new, !.plan = new,
                                !.pc = NextRow("extend", new)]
  <2>1. NextRow("extend", new) \in Elsewhere \cup {"select"}
    BY DEF NextRow, AfterRows, Elsewhere
  <2>2. tx' = [tx EXCEPT ![r] = n] /\ n.held = tx[r].held /\ n.kind = tx[r].kind
        /\ n.pc \in Elsewhere \cup {"select"} /\ n.item = tx[r].item
    BY <1>a, <1>t, <2>1 DEF Adopt, Step, Tx
  <2>3. n.pc \notin Scheduled \cup {"schedule"} /\ r \notin log
    BY <1>a, <1>e, <2>2 DEF StudyInv, LogInv, Scheduled, Elsewhere
  <2> HIDE DEF n
  <2>4. AttemptInv' /\ LockInv'
    BY <1>a, <1>t, <1>p, <2>2, <2>3 DEF AttemptInv, LockInv, StudyInv
  <2>5. LogInv' /\ RowInv'
    BY <1>a, <1>t, <1>y, <2>2, <2>3
    DEF LogInv, RowInv, StudyInv, Exists, TypeOK
  <2>6. QED
    BY <1>y, <2>4, <2>5 DEF StudyInv
<1>17. CASE ReadExtra(r)
  <2>1. tx[r].pc \in Elsewhere /\ Unwritten
    BY <1>17 DEF ReadExtra, At, Elsewhere
  <2>2. \A new \in Oldest(Fresh, Extra) : new \in SUBSET Items
    BY <1>y, OldestSubset DEF Fresh, TypeOK
  <2>3. ASSUME NEW new \in Oldest(Fresh, Extra), Adopt(r, new) PROVE StudyInv'
    BY <1>a, <1>u, <2>1, <2>2, <2>3
  <2>4. CASE Step(r, [tx[r] EXCEPT !.pc = "generate"])
    BY <1>f, <1>t, <2>1, <2>4 DEF Tx, Pc, Elsewhere
  <2>5. QED
    BY <1>17, <2>3, <2>4 DEF ReadExtra
<1>18. CASE Generate(r)
  <2>1. tx[r].pc \in Elsewhere /\ rec' = rec /\ log' = log
    BY <1>18 DEF Generate, At, Elsewhere
  <2>2. CASE Close(r, "rejected")
    BY <1>o, <1>c, <2>1, <2>2
  <2>3. ASSUME NEW i \in Items, Adopt(r, {i}) PROVE StudyInv'
    BY <1>a, <2>1, <2>3
  <2>4. QED
    BY <1>18, <2>2, <2>3 DEF Generate
<1>19. CASE CommitExtend(r)
  <2>1. tx[r].pc \in Elsewhere
    BY <1>19 DEF CommitExtend, At, Elsewhere
  <2>2. CASE Rollback(r, "error")
    BY <1>o, <1>c, <1>u, <2>1, <2>2 DEF Rollback
  <2>3. CASE ~Rollback(r, "error")
    <3>1. Close(r, "ok") /\ rec' = Committed(r) /\ log' = log
      BY <1>19, <2>3 DEF CommitExtend
    <3>2. QED
      BY <1>o, <1>c, <2>1, <3>1
  <2>4. QED
    BY <2>2, <2>3
<1>20. CASE ReadPlace(r)
  <2>1. tx[r].pc \in Elsewhere /\ Unwritten
    BY <1>20 DEF ReadPlace, At, Elsewhere
  <2>2. [tx[r] EXCEPT !.pc = "discard", !.open = sess] \in Tx
    BY <1>t, <1>y DEF TypeOK, Tx, Pc
  <2>3. CASE Close(r, "ok")
    BY <1>o, <1>c, <1>u, <2>1, <2>3
  <2>4. CASE Step(r, [tx[r] EXCEPT !.pc = "discard", !.open = sess])
    BY <1>f, <1>t, <2>1, <2>2, <2>4 DEF Tx, Elsewhere
  <2>5. QED
    BY <1>20, <2>3, <2>4 DEF ReadPlace
<1>21. CASE Discard(r)
  <2> DEFINE unstudied == {i \in tx[r].open.planned : IsNew(rec[i])}
             new == [tx[r] EXCEPT !.pc = "discarded", !.held = unstudied]
  <2>1. tx[r].pc \in Elsewhere /\ Unwritten /\ Step(r, new)
    BY <1>21 DEF Discard, At, Elsewhere
  <2>2. \A i \in unstudied : ~RowLocked(r, i) /\ rec[i].reps = 0
    BY <1>21 DEF Discard, IsNew
  <2>3. new \in Tx /\ new.pc = "discarded" /\ new.held = unstudied
        /\ new.kind = tx[r].kind
    BY <1>t DEF Tx, Pc, Session
  <2> HIDE DEF new, unstudied
  <2>4. new.pc \notin Scheduled \cup {"schedule"}
    BY <2>3 DEF Scheduled
  <2>5. QED
    BY <1>e, <1>p, <1>y, <2>1, <2>2, <2>3, <2>4, QuietStep
<1>22. CASE CommitPlace(r)
  <2>1. /\ tx[r].pc \in Elsewhere /\ log' = log
        /\ Close(r, "ok") /\ rec' = Committed(r)
    BY <1>22 DEF CommitPlace, At, Elsewhere
  <2>2. QED
    BY <1>o, <1>c, <2>1
<1>23. QED
  BY <1>1, <1>2, <1>3, <1>4, <1>5, <1>6, <1>7, <1>8, <1>9, <1>10, <1>11, <1>12,
     <1>13, <1>14, <1>15, <1>16, <1>17, <1>18, <1>19, <1>20, <1>21, <1>22
  DEF Advance, AbortDeadlock

(* Whatever runs beside it, an attempt that is in attempt_log has moved its *)
(* item's review row out of NEW, and no placement test deletes that row     *)
(* (record_attempt, delete_new_records_for_items).                          *)
THEOREM StudiedKept == Spec => []LoggedIsStudied
<1>1. StudyInv => LoggedIsStudied
  BY DEF StudyInv, LogInv, LoggedIsStudied
<1>2. QED
  BY <1>1, InitStudyInv, StepStudyInv, PTL DEF Spec
=============================================================================
