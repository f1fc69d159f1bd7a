----------------------- MODULE LevelProgression_proofs -----------------------
(***************************************************************************)
(* Proofs about LevelProgression, for every stock of problems, every       *)
(* number of levels and every set of requests.                             *)
(***************************************************************************)
EXTENDS LevelProgression, BoundedNaturals

-----------------------------------------------------------------------------
(* Drawing problems.                                                       *)

LEMMA DrawsStock ==
    ASSUME NEW l \in Levels, NEW type \in Types, NEW n
    PROVE  Draws(l, type, n) \subseteq SUBSET Problems
BY StockAssumption DEF Draws, kSubset

LEMMA FirstStockedStock ==
    ASSUME NEW l \in Levels, NEW m \in Nat, NEW types \in [1..m -> Types], NEW n
    PROVE  FirstStocked(l, types, n) \subseteq SUBSET Problems
<1> DEFINE has == {k \in DOMAIN types : Stock[l][types[k]] # {}}
<1>1. has \in SUBSET Nat
  OBVIOUS
<1>2. CASE has = {}
  BY <1>2 DEF FirstStocked
<1>3. CASE has # {}
  <2>1. Min(has) \in has
    BY <1>1, <1>3, MinOfNaturals
  <2>2. types[Min(has)] \in Types
    BY <1>1, <2>1
  <2>3. FirstStocked(l, types, n) = Draws(l, types[Min(has)], n)
    BY <1>3 DEF FirstStocked
  <2> HIDE DEF has
  <2>4. QED
    BY <2>2, <2>3, DrawsStock
<1>4. QED
  BY <1>2, <1>3

LEMMA GrammarOrType ==
    ASSUME NEW l
    PROVE  GrammarOr(l) \in [1..1 -> Types] \/ GrammarOr(l) \in [1..2 -> Types]
<1>1. <<"MEANING">> \in [1..1 -> Types] /\ <<"GRAMMAR", "MEANING">> \in [1..2 -> Types]
  BY DEF Types
<1>2. QED
  BY <1>1 DEF GrammarOr

LEMMA LevelPapersStock ==
    ASSUME NEW l \in Levels PROVE LevelPapers(l) \subseteq SUBSET Problems
<1>1. /\ GrammarOr(l) \in [1..1 -> Types] \/ GrammarOr(l) \in [1..2 -> Types]
      /\ <<"CONTEXT", "SYNONYM", "MEANING">> \in [1..3 -> Types]
  BY GrammarOrType DEF Types
<1>2. /\ Draws(l, "MEANING", 2) \subseteq SUBSET Problems
      /\ Draws(l, "READING", 1) \subseteq SUBSET Problems
  BY DrawsStock DEF Types
<1>3. FirstStocked(l, GrammarOr(l), 1) \subseteq SUBSET Problems
  BY <1>1, FirstStockedStock
<1>4. FirstStocked(l, <<"CONTEXT", "SYNONYM", "MEANING">>, 1) \subseteq SUBSET Problems
  <2> DEFINE types == <<"CONTEXT", "SYNONYM", "MEANING">>
  <2>1. types \in [1..3 -> Types]
    BY <1>1
  <2> HIDE DEF types
  <2>2. FirstStocked(l, types, 1) \subseteq SUBSET Problems
    BY <2>1, FirstStockedStock
  <2>3. QED
    BY <2>2 DEF types
<1>5. QED
  BY <1>2, <1>3, <1>4 DEF LevelPapers

(* Placement and exam papers are made of problems of the stock.            *)
LEMMA PlacementPapersStock == PlacementPapers \subseteq SUBSET Problems
BY LevelPapersStock DEF PlacementPapers

LEMMA ExamPapersStock ==
    ASSUME NEW l \in Levels PROVE ExamPapers[l] \subseteq SUBSET Problems
<1>1. GrammarOr(l) \in [1..1 -> Types] \/ GrammarOr(l) \in [1..2 -> Types]
  BY GrammarOrType
<1>2. /\ \A type \in Types : Draws(l, type, ExamPlan[type]) \subseteq SUBSET Problems
      /\ FirstStocked(l, GrammarOr(l), ExamPlan["GRAMMAR"]) \subseteq SUBSET Problems
  BY <1>1, DrawsStock, FirstStockedStock
<1>3. QED
  BY <1>2 DEF ExamPapers, Types

-----------------------------------------------------------------------------
(* Marking.                                                                *)

Passed(paper, right) ==
    {k \in Levels : paper \cap OfLevel[k] # {} /\ PassesLevel(k, paper, right)}

(* The level that compute_level assigns is the highest one that was asked  *)
(* and passed, or the first: the loop, step by step, takes the maximum of   *)
(* the levels below.                                                       *)
LEMMA HighestPassed ==
    ASSUME NEW paper, NEW right
    PROVE  compute_level(paper, right) = Max({1} \cup Passed(paper, right))
<1> DEFINE P == Passed(paper, right)
           best == [l \in 0..TopLevel |-> HighestUpTo(P, l)]
           down[l \in 0..TopLevel] ==
               IF l = 0 THEN 1
               ELSE IF paper \cap OfLevel[l] # {} /\ PassesLevel(l, paper, right)
                    THEN l
                    ELSE down[l - 1]
           Loop(f) ==
               f = [l \in 0..TopLevel |->
                       IF l = 0 THEN 1
                       ELSE IF paper \cap OfLevel[l] # {} /\ PassesLevel(l, paper, right)
                            THEN l
                            ELSE f[l - 1]]
<1>1. compute_level(paper, right) = down[TopLevel]
  BY DEF compute_level
<1>2. TopLevel \in Nat \ {0} /\ P \in SUBSET (1..TopLevel)
  BY LevelsAssumption DEF Passed, Levels
<1>3. \A l \in 1..TopLevel :
         l \in P <=> paper \cap OfLevel[l] # {} /\ PassesLevel(l, paper, right)
  BY DEF Passed, Levels
<1> HIDE DEF P
<1>4. /\ HighestUpTo(P, 0) = 1
      /\ HighestUpTo(P, TopLevel) = Max({1} \cup P)
      /\ \A l \in 1..TopLevel : HighestUpTo(P, l) = IF l \in P THEN l
                                                     ELSE HighestUpTo(P, l - 1)
  BY <1>2, HighestStep
<1>5. Loop(best)
  <2>1. \A l \in 0..TopLevel :
           best[l] = IF l = 0 THEN 1
                     ELSE IF paper \cap OfLevel[l] # {} /\ PassesLevel(l, paper, right)
                          THEN l
                          ELSE best[l - 1]
    <3>1. best[0] = 1
      BY <1>2, <1>4
    <3>2. ASSUME NEW l \in 1..TopLevel
          PROVE  best[l] = IF l \in P THEN l ELSE best[l - 1]
      BY <1>2, <1>4
    <3> HIDE DEF best
    <3>3. \A l \in 0..TopLevel : l # 0 => l \in 1..TopLevel
      BY <1>2
    <3>4. QED
      BY <1>3, <3>1, <3>2, <3>3
  <2>2. best = [l \in 0..TopLevel |-> best[l]]
    OBVIOUS
  <2> HIDE DEF best
  <2>3. QED
    BY <2>1, <2>2
<1>6. Loop(down)
  <2>1. \E f : Loop(f)
    <3> HIDE DEF best
    <3>1. QED
      BY <1>5
  <2>2. QED
    BY <2>1
(* The equation of the loop has one solution.                              *)
<1> HIDE DEF down, best
<1>7. 0..TopLevel \subseteq {l \in 0..TopLevel : down[l] = best[l]}
  <2>1. down[0] = best[0]
    BY <1>2, <1>5, <1>6
  <2>2. ASSUME NEW l \in 1..TopLevel, down[l - 1] = best[l - 1]
        PROVE  down[l] = best[l]
    <3>1. l \in 0..TopLevel /\ l # 0
      BY <1>2
    <3>2. QED
      BY <1>5, <1>6, <2>2, <3>1
  <2> DEFINE S == {l \in 0..TopLevel : down[l] = best[l]}
  <2>3. 0 \in S /\ \A l \in 1..TopLevel : l - 1 \in S => l \in S
    <3> HIDE DEF Loop
    <3>1. QED
      BY <1>2, <2>1, <2>2
  <2> HIDE DEF S
  <2>4. QED
    BY <1>2, <2>3, InductionUpTo DEF S
<1>8. TopLevel \in 0..TopLevel
  BY <1>2
<1>9. down[TopLevel] = best[TopLevel] /\ best[TopLevel] = HighestUpTo(P, TopLevel)
  BY <1>7, <1>8 DEF best
<1>10. QED
  BY <1>1, <1>4, <1>9 DEF P

LEMMA AssignedIsLevel ==
    ASSUME NEW paper, NEW right PROVE compute_level(paper, right) \in Levels
<1> DEFINE A == {1} \cup Passed(paper, right)
<1>1. TopLevel \in Nat \ {0}
  BY LevelsAssumption
<1>2. A \subseteq 1..TopLevel /\ A \subseteq 0..TopLevel /\ A # {}
  BY <1>1 DEF Passed, Levels
<1> HIDE DEF A
<1>3. Max(A) \in A
  BY <1>1, <1>2, MaxOfNaturals
<1>4. QED
  BY <1>2, <1>3, HighestPassed DEF A, Levels

-----------------------------------------------------------------------------
(* Type correctness.                                                       *)

(* A token of an exam holds an exam paper of its level, one of the          *)
(* placement test a placement paper: the marks that submits look up exist.  *)
Drawn ==
    \A t \in tokens : t.paper \in IF t.kind = Exam THEN ExamPapers[t.level]
                                                  ELSE PlacementPapers

TypeInv == TypeOK /\ Drawn

LEMMA Marks ==
    ASSUME TypeInv, NEW t \in tokens
    PROVE  /\ ExamMarks[t.paper] \subseteq BOOLEAN
           /\ AssignableLevels[t.paper] \subseteq Levels
<1>1. t \in Token /\ t.paper \in Papers
  BY DEF TypeInv, TypeOK, Drawn, Token, Papers
<1>2. ExamMarks[t.paper] \subseteq BOOLEAN
  <2>1. ExamMarks[t.paper] = {ExamPassed(t.paper, right) : right \in SUBSET t.paper}
    BY <1>1 DEF ExamMarks
  <2>2. \A right : ExamPassed(t.paper, right) \in BOOLEAN
    BY DEF ExamPassed
  <2>3. QED
    BY <2>1, <2>2, Zenon
<1>3. AssignableLevels[t.paper] \subseteq Levels
  BY <1>1, AssignedIsLevel DEF AssignableLevels
<1>4. QED
  BY <1>2, <1>3

LEMMA IdleTyped ==
    /\ 1 \in Levels /\ NewUser \in User /\ Idle \in Tx
    /\ \A outcome \in Ended : [Idle EXCEPT !.pc = outcome] \in Tx
<1>1. 1 \in Levels /\ NewUser \in User
  BY LevelsAssumption DEF Levels, NewUser, User
<1>2. QED
  BY <1>1 DEF Idle, Tx, Pc, Ended

LEMMA StepTyped ==
    ASSUME TypeInv, NEW r \in Req, NEW new \in Tx, Step(r, new)
    PROVE  tx' \in [Req -> Tx]
BY DEF TypeInv, TypeOK, Step

LEMMA CloseTyped ==
    ASSUME TypeInv, NEW r \in Req, NEW outcome \in Ended, Close(r, outcome)
    PROVE  tx' \in [Req -> Tx]
BY IdleTyped, StepTyped DEF Close

LEMMA SignTyped ==
    ASSUME TypeInv, NEW r \in Req, NEW kind \in {Exam, Placement},
           NEW level \in Levels, NEW paper, Sign(r, kind, level, paper),
           paper \in IF kind = Exam THEN ExamPapers[level] ELSE PlacementPapers
    PROVE  tokens' \subseteq Token /\ Drawn'
<1> DEFINE t == [by |-> r, kind |-> kind, level |-> level, paper |-> paper, age |-> 0]
<1>1. paper \in SUBSET Problems
  BY ExamPapersStock, PlacementPapersStock
<1>2. t \in Token
  BY <1>1, BoundsAssumption DEF Token
<1>3. tokens' \subseteq tokens \cup {t}
  BY DEF Sign
<1>4. \A u \in tokens' : u.paper \in IF u.kind = Exam THEN ExamPapers[u.level]
                                                    ELSE PlacementPapers
  BY <1>3 DEF TypeInv, Drawn
<1>5. QED
  BY <1>2, <1>3, <1>4 DEF TypeInv, TypeOK, Drawn

(* What a request that submits or skips will write: the level that follows  *)
(* from the row it read.                                                   *)
Decision(new) ==
    /\ new.pc = "write" /\ new.seen = user
    /\ \/ /\ new.kind = "exam submit"
          /\ new.level = LevelAfter(new.passed, user.level)
          /\ \E t \in tokens : Valid(t) /\ new.token = t.by
       \/ /\ new.kind = "placement submit"
          /\ \E t \in tokens : Valid(t) /\ new.token = t.by
       \/ /\ new.kind = "skip"
          /\ new.level = user.level

LEMMA Submitting ==
    ASSUME TypeInv, NEW r \in Req, SubmitExam(r) \/ SubmitPlacement(r) \/ Skip(r)
    PROVE  /\ tx[r].pc = "idle" /\ Unwritten
           /\ \E new \in Tx : Step(r, new) /\ Decision(new)
<1> USE DEF TypeInv, TypeOK
<1>1. tx[r].pc = "idle" /\ Unwritten
  BY DEF SubmitExam, SubmitPlacement, Skip, Admitted
<1>2. ASSUME SubmitExam(r) PROVE \E new \in Tx : Step(r, new) /\ Decision(new)
  <2>1. PICK t \in {u \in tokens : Valid(u)} :
           \E passed \in ExamMarks[t.paper] :
              Submit(r, t, "exam submit", passed, LevelAfter(passed, user.level))
    BY <1>2 DEF SubmitExam
  <2>2. PICK passed \in ExamMarks[t.paper] :
           Submit(r, t, "exam submit", passed, LevelAfter(passed, user.level))
    BY <2>1
  <2>3. t \in Token /\ passed \in BOOLEAN
    BY <2>1, Marks DEF Valid
  <2>4. LevelAfter(passed, user.level) \in Levels
    BY LevelsAssumption DEF LevelAfter, HasNext, User, Levels
  <2> DEFINE new == [Idle EXCEPT !.pc = "write", !.kind = "exam submit", !.seen = user,
                                 !.token = t.by, !.passed = passed,
                                 !.level = LevelAfter(passed, user.level)]
  <2>5. new \in Tx
    BY <2>3, <2>4 DEF Idle, Tx, Pc, Token
  <2>6. Decision(new)
    BY <2>1 DEF Decision, Idle
  <2>7. QED
    BY <2>2, <2>5, <2>6 DEF Submit
<1>3. ASSUME SubmitPlacement(r) PROVE \E new \in Tx : Step(r, new) /\ Decision(new)
  <2>1. PICK t \in {u \in tokens : Valid(u)} :
           \E level \in AssignableLevels[t.paper] :
              Submit(r, t, "placement submit", FALSE, level)
    BY <1>3 DEF SubmitPlacement
  <2>2. PICK level \in AssignableLevels[t.paper] :
           Submit(r, t, "placement submit", FALSE, level)
    BY <2>1
  <2>3. t \in Token /\ level \in Levels
    BY <2>1, Marks DEF Valid
  <2> DEFINE new == [Idle EXCEPT !.pc = "write", !.kind = "placement submit",
                                 !.seen = user, !.token = t.by, !.passed = FALSE,
                                 !.level = level]
  <2>4. new \in Tx
    BY <2>3 DEF Idle, Tx, Pc, Token
  <2>5. Decision(new)
    BY <2>1 DEF Decision, Idle
  <2>6. QED
    BY <2>2, <2>4, <2>5 DEF Submit
<1>4. ASSUME Skip(r) PROVE \E new \in Tx : Step(r, new) /\ Decision(new)
  <2> DEFINE new == [Idle EXCEPT !.pc = "write", !.kind = "skip", !.seen = user,
                                 !.level = user.level]
  <2>1. new \in Tx
    BY DEF Idle, Tx, Pc, User
  <2>2. Decision(new)
    BY DEF Decision, Idle
  <2>3. QED
    BY <1>4, <2>1, <2>2 DEF Skip
<1>5. QED
  BY <1>1, <1>2, <1>3, <1>4

LEMMA Writing ==
    ASSUME TypeInv, NEW r \in Req, Write(r)
    PROVE  /\ tx[r].pc = "write" /\ Unwritten
           /\ \E new \in Tx : /\ Step(r, new)
                              /\ \E locked \in BOOLEAN :
                                    new = [tx[r] EXCEPT !.pc = "commit", !.locked = locked]
<1> DEFINE writes == WritesLevel(r) \/ WritesPlaced(r)
<1>1. writes \in BOOLEAN /\ Step(r, [tx[r] EXCEPT !.pc = "commit", !.locked = writes])
  BY DEF Write, WritesLevel, WritesPlaced
<1> HIDE DEF writes
<1>2. [tx[r] EXCEPT !.pc = "commit", !.locked = writes] \in Tx
  BY <1>1 DEF TypeInv, TypeOK, Tx, Pc
<1>3. QED
  BY <1>1, <1>2 DEF Write

(* What Tick makes of a token and of a record: only the age changes.       *)
TickedToken(u, t) ==
    /\ t \in Token /\ t.by = u.by /\ t.kind = u.kind /\ t.level = u.level
    /\ t.paper = u.paper
    /\ t.age = IF u.age <= TokenLife THEN u.age + 1 ELSE TokenLife + 1
TickedRecord(y, x) ==
    /\ x \in Record /\ x.by = y.by /\ x.from = y.from /\ x.to = y.to
    /\ x.passed = y.passed
    /\ x.age = IF y.age < Cooldown THEN y.age + 1 ELSE Cooldown

LEMMA TickAges ==
    ASSUME TypeInv, Tick
    PROVE  /\ tokens' \subseteq Token /\ records' \subseteq Record
           /\ \A t \in tokens' : \E u \in tokens : TickedToken(u, t)
           /\ \A u \in tokens : \E t \in tokens' : TickedToken(u, t)
           /\ \A x \in records' : \E y \in records : TickedRecord(y, x)
           /\ \A y \in records : \E x \in records' : TickedRecord(y, x)
<1> DEFINE Older(u) == [u EXCEPT !.age = Min({@ + 1, TokenLife + 1})]
           Later(y) == [y EXCEPT !.age = Min({@ + 1, Cooldown})]
<1>1. tokens' = {Older(u) : u \in tokens} /\ records' = {Later(y) : y \in records}
  BY DEF Tick
<1>2. ASSUME NEW u \in tokens PROVE TickedToken(u, Older(u))
  <2>1. u \in Token
    BY DEF TypeInv, TypeOK
  <2>2. u.age \in Nat /\ u.age <= TokenLife + 1 /\ TokenLife \in Nat
    BY <2>1, BoundsAssumption DEF Token
  <2>3. /\ Min({u.age + 1, TokenLife + 1})
              = IF u.age <= TokenLife THEN u.age + 1 ELSE TokenLife + 1
        /\ Min({u.age + 1, TokenLife + 1}) \in 0..TokenLife + 1
    BY <2>2, MinOfTwo
  <2>4. QED
    BY <2>1, <2>3 DEF TickedToken, Token
<1>3. ASSUME NEW y \in records PROVE TickedRecord(y, Later(y))
  <2>1. y \in Record
    BY DEF TypeInv, TypeOK
  <2>2. y.age \in Nat /\ y.age <= Cooldown /\ Cooldown \in Nat
    BY <2>1, BoundsAssumption DEF Record
  <2>3. /\ Min({y.age + 1, Cooldown}) = IF y.age < Cooldown THEN y.age + 1 ELSE Cooldown
        /\ Min({y.age + 1, Cooldown}) \in 0..Cooldown
    BY <2>2, MinOfTwo
  <2>4. QED
    BY <2>1, <2>3 DEF TickedRecord, Record
<1> HIDE DEF Older, Later
<1>4. \A u, t : TickedToken(u, t) => t \in Token
  BY DEF TickedToken
<1>5. \A y, x : TickedRecord(y, x) => x \in Record
  BY DEF TickedRecord
<1>6. QED
  BY <1>1, <1>2, <1>3, <1>4, <1>5

(* TypeInv is inductive.                                                   *)
LEMMA TypeInvariant == Spec => []TypeInv
<1>1. Init => TypeInv
  BY IdleTyped, BoundsAssumption DEF Init, TypeInv, TypeOK, Drawn
<1>2. ASSUME TypeInv, [Next]_vars PROVE TypeInv'
  <2> USE <1>2
  <2> USE DEF TypeInv, TypeOK
  <2>1. CASE UNCHANGED vars
    BY <2>1 DEF vars, Drawn
  <2>2. ASSUME NEW r \in Req, BeginExam(r) PROVE TypeInv'
    <3>1. [Idle EXCEPT !.pc = "studied", !.kind = Exam, !.seen = user] \in Tx
      BY IdleTyped DEF Idle, Tx, Pc, Exam
    <3>2. tx' \in [Req -> Tx]
      BY <2>2, <3>1, StepTyped, CloseTyped DEF BeginExam, Begin, Ended
    <3>3. QED
      BY <2>2, <3>2 DEF BeginExam, Unwritten, Drawn
  <2>3. ASSUME NEW r \in Req, ReadStudied(r) \/ ReadCooldown(r) PROVE TypeInv'
    <3>1. /\ [tx[r] EXCEPT !.pc = "cooldown"] \in Tx
          /\ [tx[r] EXCEPT !.pc = "draw"] \in Tx
      BY DEF Tx, Pc
    <3>2. tx' \in [Req -> Tx]
      BY <2>3, <3>1, StepTyped, CloseTyped DEF ReadStudied, ReadCooldown, Ended
    <3>3. QED
      BY <2>3, <3>2 DEF ReadStudied, ReadCooldown, Unwritten, Drawn
  <2>4. ASSUME NEW r \in Req, IssueExam(r) PROVE TypeInv'
    <3>1. PICK paper \in ExamPapers[tx[r].seen.level] :
             /\ Sign(r, Exam, tx[r].seen.level, paper)
             /\ Close(r, IF paper = {} THEN "rejected" ELSE "ok")
      BY <2>4 DEF IssueExam
    <3>2. tx[r].seen.level \in Levels
      BY DEF Tx, User
    <3>3. tokens' \subseteq Token /\ Drawn'
      BY <3>1, <3>2, SignTyped
    <3>4. tx' \in [Req -> Tx]
      BY <3>1, CloseTyped DEF Ended
    <3>5. QED
      BY <2>4, <3>3, <3>4 DEF IssueExam
  <2>5. ASSUME NEW r \in Req, IssuePlacement(r) PROVE TypeInv'
    <3>1. PICK paper \in PlacementPapers :
             /\ Sign(r, Placement, 1, paper)
             /\ Close(r, IF paper = {} THEN "rejected" ELSE "ok")
      BY <2>5 DEF IssuePlacement
    <3>2. tokens' \subseteq Token /\ Drawn'
      BY <3>1, IdleTyped, SignTyped DEF Exam, Placement
    <3>3. tx' \in [Req -> Tx]
      BY <3>1, CloseTyped DEF Ended
    <3>4. QED
      BY <2>5, <3>2, <3>3 DEF IssuePlacement
  <2>6. ASSUME NEW r \in Req, RejectSubmit(r) \/ Fail(r) PROVE TypeInv'
    <3>1. tx' \in [Req -> Tx]
      BY <2>6, CloseTyped DEF RejectSubmit, Fail, Ended
    <3>2. QED
      BY <2>6, <3>1 DEF RejectSubmit, Fail, Unwritten, Drawn
  <2>7. ASSUME NEW r \in Req, SubmitExam(r) \/ SubmitPlacement(r) \/ Skip(r)
        PROVE  TypeInv'
    <3>1. Unwritten /\ \E new \in Tx : Step(r, new)
      BY <2>7, Submitting
    <3>2. tx' \in [Req -> Tx]
      BY <3>1, StepTyped
    <3>3. QED
      BY <3>1, <3>2 DEF Unwritten, Drawn
  <2>8. ASSUME NEW r \in Req, Write(r) PROVE TypeInv'
    <3>1. Unwritten /\ \E new \in Tx : Step(r, new)
      BY <2>8, Writing
    <3>2. tx' \in [Req -> Tx]
      BY <3>1, StepTyped
    <3>3. QED
      BY <3>1, <3>2 DEF Unwritten, Drawn
  <2>11. ASSUME NEW r \in Req, Commit(r) PROVE TypeInv'
    <3>1. [tx[r] EXCEPT !.pc = "ok", !.locked = FALSE] \in Tx
      BY DEF Tx, Pc, Ended
    <3>2. tx' \in [Req -> Tx]
      BY <2>11, <3>1, StepTyped DEF Commit
    <3>3. user' \in User
      <4>1. user.placed \/ WritesPlaced(r) \in BOOLEAN
        BY DEF User, WritesPlaced
      <4>2. QED
        BY <2>11, <4>1 DEF Commit, User, Tx
    <3>4. records' \subseteq Record
      <4>1. tx[r].seen.level \in Levels /\ tx[r].passed \in BOOLEAN
        BY DEF Tx, User
      <4>2. Min({tx[r].seen.level + 1, TopLevel}) \in Levels
        BY <4>1, MinOfTwo, LevelsAssumption DEF Levels
      <4>3. [by |-> r, from |-> tx[r].seen.level,
             to |-> Min({tx[r].seen.level + 1, TopLevel}),
             passed |-> tx[r].passed, age |-> 0] \in Record
        BY <4>1, <4>2, BoundsAssumption DEF Record
      <4>4. QED
        BY <2>11, <4>3 DEF Commit
    <3>5. QED
      BY <2>11, <3>2, <3>3, <3>4 DEF Commit, Drawn
  <2>12. ASSUME NEW l \in Levels, Study(l) PROVE TypeInv'
    BY <2>12, BoundsAssumption DEF Study, Drawn
  <2>13. CASE Tick
    <3>1. tokens' \subseteq Token /\ records' \subseteq Record
      BY <2>13, TickAges
    <3>2. Drawn'
      BY <2>13, TickAges DEF Drawn, TickedToken
    <3>3. QED
      BY <2>13, <3>1, <3>2 DEF Tick
  <2>14. QED
    BY <2>1, <2>2, <2>3, <2>4, <2>5, <2>6, <2>7, <2>8, <2>11, <2>12, <2>13 DEF Next
<1>3. QED
  BY <1>1, <1>2, PTL DEF Spec

(* Every variable keeps its type; in particular no step assigns a level     *)
(* that does not exist.                                                    *)
THEOREM TypeCorrect == Spec => []TypeOK
<1>1. TypeInv => TypeOK
  BY DEF TypeInv
<1>2. QED
  BY <1>1, TypeInvariant, PTL

-----------------------------------------------------------------------------
(* How the learner came to his level.                                      *)

Earned ==
    {n \in Levels :
        \A l \in 2..n :
            \/ \E q \in Req : Done(q, "placement submit") /\ l <= tx[q].level
            \/ \E x \in records : x.passed /\ x.to = l}

(* Every copy of the row that a request holds was earned, and a request     *)
(* writes what follows from its copy.                                      *)
Deciding == {"write", "commit"}
LadderInv ==
    /\ user.level \in Earned
    /\ \A r \in Req : tx[r].seen.level \in Earned
    /\ \A r \in Req : tx[r].pc \in Deciding =>
          \/ /\ tx[r].kind = "exam submit"
             /\ tx[r].level = LevelAfter(tx[r].passed, tx[r].seen.level)
          \/ tx[r].kind = "placement submit"
          \/ tx[r].kind = "skip" /\ tx[r].level = tx[r].seen.level

(* What is earned stays earned: nothing takes back a committed test or a    *)
(* record.                                                                 *)
LEMMA EarnedStays ==
    ASSUME \A q \in Req : tx[q].pc = "ok" => tx'[q] = tx[q],
           \A x \in records : \E y \in records' : y.passed = x.passed /\ y.to = x.to
    PROVE  Earned \subseteq Earned'
BY DEF Earned, Done

LEMMA FirstEarned == 1 \in Earned
<1>1. 1 \in Levels /\ \A l \in 2..1 : FALSE
  BY LevelsAssumption DEF Levels
<1>2. QED
  BY <1>1 DEF Earned

LEMMA LadderStep ==
    ASSUME TypeInv, LadderInv, NEW r \in Req, tx[r].pc # "ok", NEW new,
           Step(r, new), UNCHANGED <<user, records>>, new.pc # "commit",
           new.pc = "write" => Decision(new),
           new.seen \in {NewUser, user, tx[r].seen}
    PROVE  LadderInv'
<1>1. /\ tx'[r] = new
      /\ \A q \in Req \ {r} : tx'[q] = tx[q]
  BY DEF Step, TypeInv, TypeOK
<1>2. Earned \subseteq Earned'
  BY <1>1, EarnedStays
<1>3. 1 \in Earned
  BY FirstEarned
<1>4. new.seen.level \in Earned
  <2>1. NewUser.level = 1
    BY DEF NewUser
  <2>2. QED
    BY <1>3, <2>1 DEF LadderInv
<1>5. \A q \in Req : tx'[q].seen.level \in Earned'
  BY <1>1, <1>2, <1>4 DEF LadderInv
<1>6. new.pc \in Deciding =>
          \/ /\ new.kind = "exam submit"
             /\ new.level = LevelAfter(new.passed, new.seen.level)
          \/ new.kind = "placement submit"
          \/ new.kind = "skip" /\ new.level = new.seen.level
  BY DEF Decision, Deciding
<1>7. QED
  BY <1>1, <1>2, <1>5, <1>6 DEF LadderInv

(* The commit of a request earns the level that it writes.                 *)
LEMMA LadderCommit ==
    ASSUME TypeInv, LadderInv, NEW r \in Req, Commit(r)
    PROVE  LadderInv'
<1>1. /\ tx[r].pc = "commit"
      /\ tx'[r].pc = "ok" /\ tx'[r].kind = tx[r].kind
      /\ tx'[r].level = tx[r].level /\ tx'[r].seen = tx[r].seen
      /\ \A q \in Req \ {r} : tx'[q] = tx[q]
      /\ user'.level = IF WritesLevel(r) THEN tx[r].level ELSE user.level
      /\ records \subseteq records'
      /\ tx[r].level \in Levels /\ tx[r].seen.level \in Levels
  BY DEF Commit, Step, TypeInv, TypeOK, Tx, User
<1>2. Earned \subseteq Earned'
  BY <1>1, EarnedStays
<1>3. tx'[r].level \in Earned'
  <2> USE DEF Deciding
  <2>1. CASE tx[r].kind = "placement submit"
    <3>1. Done(r, "placement submit")'
      BY <1>1, <2>1 DEF Done
    <3>2. \A l \in 2..tx'[r].level : l <= tx'[r].level
      BY <1>1 DEF Levels
    <3>3. QED
      BY <1>1, <3>1, <3>2 DEF Earned
  <2>2. CASE tx[r].kind = "skip" /\ tx[r].level = tx[r].seen.level
    BY <1>1, <1>2, <2>2 DEF LadderInv
  <2>3. CASE /\ tx[r].kind = "exam submit"
             /\ tx[r].level = LevelAfter(tx[r].passed, tx[r].seen.level)
    <3> DEFINE from == tx[r].seen.level
    <3>1. from \in Earned'
      BY <1>2 DEF LadderInv
    <3>2. CASE ~(tx[r].passed /\ HasNext(from))
      BY <1>1, <2>3, <3>1, <3>2 DEF LevelAfter
    <3>3. CASE tx[r].passed /\ HasNext(from)
      <4>1. from \in Nat /\ TopLevel \in Nat /\ from < TopLevel
        BY <1>1, <3>3, LevelsAssumption DEF HasNext, Levels
      <4>2. Min({from + 1, TopLevel}) = from + 1
        BY <4>1, MinOfTwo
      <4>3. \E x \in records' : x.passed /\ x.to = from + 1
        <5> DEFINE x == [by |-> r, from |-> from, to |-> Min({from + 1, TopLevel}),
                         passed |-> tx[r].passed, age |-> 0]
        <5>1. x \in records'
          BY <2>3 DEF Commit
        <5>2. x.passed = tx[r].passed /\ x.to = from + 1
          BY <4>2
        <5> HIDE DEF x
        <5>3. QED
          BY <3>3, <5>1, <5>2
      <4>4. tx[r].level = from + 1
        BY <2>3, <3>3 DEF LevelAfter
      <4>5. \A l \in 2..from + 1 : l \in 2..from \/ l = from + 1
        BY <4>1
      <4> HIDE DEF from
      <4>6. QED
        BY <1>1, <3>1, <4>3, <4>4, <4>5 DEF Earned
    <3>4. QED
      BY <3>2, <3>3
  <2>4. QED
    BY <1>1, <2>1, <2>2, <2>3 DEF LadderInv
<1>4. user'.level \in Earned'
  BY <1>1, <1>2, <1>3 DEF LadderInv
<1>5. \A q \in Req : tx'[q].seen.level \in Earned'
  BY <1>1, <1>2 DEF LadderInv
<1>6. QED
  BY <1>1, <1>4, <1>5 DEF LadderInv, Deciding

LEMMA LadderInvariant == Spec => []LadderInv
<1>1. Init => LadderInv
  <2>1. NewUser.level = 1 /\ Idle.seen = NewUser /\ Idle.pc \notin Deciding
    BY DEF NewUser, Idle, Deciding
  <2>2. QED
    BY <2>1, FirstEarned DEF Init, LadderInv
<1>2. ASSUME TypeInv, LadderInv, [Next]_vars PROVE LadderInv'
  <2> USE <1>2
  <2>1. CASE UNCHANGED vars
    BY <2>1 DEF vars, LadderInv, Earned, Done
  <2>2. ASSUME NEW r \in Req, tx[r].pc # "ok", UNCHANGED <<user, records>>,
               NEW outcome \in Ended, Close(r, outcome)
        PROVE  LadderInv'
    <3>1. /\ [Idle EXCEPT !.pc = outcome].pc \notin {"write", "commit"}
          /\ [Idle EXCEPT !.pc = outcome].seen = NewUser
      BY DEF Idle, Ended
    <3>2. QED
      BY <2>2, <3>1, LadderStep DEF Close
  <2>3. ASSUME NEW r \in Req, BeginExam(r) PROVE LadderInv'
    <3>1. tx[r].pc # "ok" /\ UNCHANGED <<user, records>>
      BY <2>3 DEF BeginExam, Admitted, Unwritten
    <3>2. CASE Begin(r, Exam, "studied")
      BY <3>1, <3>2, LadderStep DEF Begin, Idle
    <3>3. QED
      BY <2>2, <2>3, <3>1, <3>2 DEF BeginExam, Ended
  <2>4. ASSUME NEW r \in Req, ReadStudied(r) \/ ReadCooldown(r) PROVE LadderInv'
    <3>1. tx[r].pc # "ok" /\ UNCHANGED <<user, records>>
      BY <2>4 DEF ReadStudied, ReadCooldown, Unwritten
    <3>2. ASSUME NEW pc \in {"cooldown", "draw"}, Step(r, [tx[r] EXCEPT !.pc = pc])
          PROVE  LadderInv'
      <4>1. /\ [tx[r] EXCEPT !.pc = pc].pc \notin {"write", "commit"}
            /\ [tx[r] EXCEPT !.pc = pc].seen = tx[r].seen
        BY DEF TypeInv, TypeOK, Tx
      <4>2. QED
        BY <3>1, <3>2, <4>1, LadderStep
    <3>3. QED
      BY <2>2, <2>4, <3>1, <3>2 DEF ReadStudied, ReadCooldown, Ended
  <2>5. ASSUME NEW r \in Req, IssueExam(r) \/ IssuePlacement(r) PROVE LadderInv'
    <3>1. tx[r].pc # "ok" /\ UNCHANGED <<user, records>>
      BY <2>5 DEF IssueExam, IssuePlacement, Admitted
    <3>2. \E outcome \in Ended : Close(r, outcome)
      BY <2>5 DEF IssueExam, IssuePlacement, Ended
    <3>3. QED
      BY <2>2, <3>1, <3>2
  <2>6. ASSUME NEW r \in Req, RejectSubmit(r) \/ Fail(r) PROVE LadderInv'
    <3>1. tx[r].pc # "ok" /\ UNCHANGED <<user, records>>
      BY <2>6 DEF RejectSubmit, Fail, Admitted, Running, Ended, Unwritten
    <3>2. \E outcome \in Ended : Close(r, outcome)
      BY <2>6 DEF RejectSubmit, Fail, Ended
    <3>3. QED
      BY <2>2, <3>1, <3>2
  <2>7. ASSUME NEW r \in Req, SubmitExam(r) \/ SubmitPlacement(r) \/ Skip(r)
        PROVE  LadderInv'
    <3>1. PICK new \in Tx : Step(r, new) /\ Decision(new)
      BY <2>7, Submitting
    <3>2. tx[r].pc # "ok" /\ UNCHANGED <<user, records>>
      BY <2>7, Submitting DEF Unwritten
    <3>3. new.pc = "write" /\ new.seen = user
      BY <3>1 DEF Decision
    <3>4. QED
      BY <3>1, <3>2, <3>3, LadderStep
  <2>8. ASSUME NEW r \in Req, Write(r) PROVE LadderInv'
    <3>1. PICK locked \in BOOLEAN :
             Step(r, [tx[r] EXCEPT !.pc = "commit", !.locked = locked])
      BY <2>8, Writing
    <3>2. tx[r].pc = "write" /\ UNCHANGED <<user, records>>
      BY <2>8, Writing DEF Unwritten
    <3>3. /\ tx'[r].kind = tx[r].kind /\ tx'[r].level = tx[r].level
          /\ tx'[r].seen = tx[r].seen /\ tx'[r].passed = tx[r].passed
          /\ \A q \in Req \ {r} : tx'[q] = tx[q]
      BY <3>1 DEF Step, TypeInv, TypeOK, Tx
    <3>4. Earned \subseteq Earned'
      BY <3>2, <3>3, EarnedStays
    <3>5. QED
      BY <3>2, <3>3, <3>4 DEF LadderInv, Deciding
  <2>9. ASSUME NEW r \in Req, Commit(r) PROVE LadderInv'
    BY <2>9, LadderCommit
  <2>10. ASSUME NEW l \in Levels, Study(l) PROVE LadderInv'
    BY <2>10 DEF Study, LadderInv, Earned, Done
  <2>11. CASE Tick
    <3>1. \A y \in records : \E x \in records' : x.passed = y.passed /\ x.to = y.to
      BY <2>11, TickAges DEF TickedRecord
    <3>2. UNCHANGED <<user, tx>>
      BY <2>11 DEF Tick
    <3>3. Earned \subseteq Earned'
      BY <3>1, <3>2, EarnedStays
    <3>4. QED
      BY <3>2, <3>3 DEF LadderInv
  <2>12. QED
    BY <2>1, <2>3, <2>4, <2>5, <2>6, <2>7, <2>8, <2>9, <2>10, <2>11 DEF Next
<1>3. QED
  BY <1>1, <1>2, TypeInvariant, PTL DEF Spec

(* Every level up to the learner's was given by a placement test or passed  *)
(* in an exam, whatever requests run at the same time and however often a   *)
(* token is submitted.                                                     *)
THEOREM LevelsAreEarned == Spec => []LadderClimbed
<1>1. LadderInv => LadderClimbed
  BY DEF LadderInv, Earned, LadderClimbed
<1>2. QED
  BY <1>1, LadderInvariant, PTL

(* The level changes only as a placement test or an exam that was passed    *)
(* means it to: skips, failed exams and confirming tests change nothing by  *)
(* the copy of the row they hold, however stale.  A test that means to      *)
(* change the level may still overwrite what has been written since.       *)
THEOREM ChangesAreMeant == Spec => LevelMeant
<1> DEFINE Meant ==
       user'.level # user.level =>
          \E q \in Req :
             /\ tx[q].pc = "commit" /\ tx'[q].pc = "ok"
             /\ user'.level = tx[q].level /\ tx[q].level # tx[q].seen.level
             /\ \/ tx[q].kind = "placement submit"
                \/ /\ tx[q].kind = "exam submit" /\ tx[q].passed
                   /\ tx[q].level = tx[q].seen.level + 1
<1>1. ASSUME TypeInv, LadderInv, [Next]_vars PROVE [Meant]_user
  <2> SUFFICES ASSUME user'.level # user.level PROVE Meant
    OBVIOUS
  <2>1. PICK r \in Req : Commit(r)
    BY <1>1, Writing, Submitting
       DEF Next, vars, BeginExam, ReadStudied, ReadCooldown, IssueExam, IssuePlacement,
           RejectSubmit, Fail, Study, Tick, Unwritten
  <2>2. /\ tx[r].pc = "commit" /\ tx'[r].pc = "ok"
        /\ user'.level = IF WritesLevel(r) THEN tx[r].level ELSE user.level
    BY <1>1, <2>1 DEF Commit, Step, TypeInv, TypeOK, Tx
  <2>3. tx[r].level # tx[r].seen.level /\ user'.level = tx[r].level
    BY <2>2 DEF WritesLevel
  <2>4. \/ tx[r].kind = "placement submit"
        \/ /\ tx[r].kind = "exam submit"
           /\ tx[r].level = LevelAfter(tx[r].passed, tx[r].seen.level)
    BY <1>1, <2>2, <2>3 DEF LadderInv, Deciding
  <2>5. QED
    BY <2>2, <2>3, <2>4 DEF LevelAfter
<1>2. QED
  BY <1>1, TypeInvariant, LadderInvariant, PTL DEF Spec, LevelMeant

-----------------------------------------------------------------------------
(* Tokens and the exams they were presented for.                           *)

(* A GET that answered holds no other token, and it has ended.             *)
TokensNamed ==
    /\ \A t \in tokens, u \in tokens : t.by = u.by => t = u
    /\ \A t \in tokens : tx[t.by].pc \in Ended

Names == {t.by : t \in tokens}

(* Every exam was taken with a token that a GET signed; one that an exam    *)
(* was drawn with is that of a learner who had studied enough of its level. *)
Studying == {"cooldown", "draw"}
ExamsSigned == \A t \in tokens : t.kind = Exam => studied[t.level] = MinStudied
RequestsEntitled ==
    \A r \in Req :
        /\ tx[r].pc \in Studying => studied[tx[r].seen.level] = MinStudied
        /\ tx[r].pc \in Deciding /\ tx[r].kind = "exam submit" =>
              tx[r].token \in Names
RecordsEntitled ==
    \A x \in records : tx[x.by].pc = "ok" /\ tx[x.by].token \in Names
StudiedInv == TokensNamed /\ ExamsSigned /\ RequestsEntitled /\ RecordsEntitled

(* With names that differ, the token of a request is the one it presented.  *)
LEMMA TheToken ==
    ASSUME TokensNamed, NEW r, NEW t \in tokens, t.by = tx[r].token
    PROVE  TokenOf(r) = t
BY DEF TokensNamed, TokenOf

(* A step of a request that had not ended, which signs no token.           *)
LEMMA StudiedStep ==
    ASSUME TypeInv, StudiedInv, NEW r \in Req, tx[r].pc \notin Ended, NEW new \in Tx,
           Step(r, new), UNCHANGED <<records, tokens, studied>>,
           new.pc # "commit",
           new.pc = "write" => Decision(new),
           new.pc \in Studying => studied[new.seen.level] = MinStudied
    PROVE  StudiedInv'
<1>1. /\ tx'[r] = new
      /\ \A q \in Req \ {r} : tx'[q] = tx[q]
  BY DEF Step, TypeInv, TypeOK
<1>2. /\ \A t \in tokens : t.by \in Req /\ t.by # r
      /\ \A x \in records : x.by \in Req /\ x.by # r
  BY DEF StudiedInv, ExamsSigned, RequestsEntitled, RecordsEntitled, TokensNamed, TypeInv, TypeOK, Token, Record, Ended
<1>3. TokensNamed'
  BY <1>1, <1>2 DEF StudiedInv, ExamsSigned, RequestsEntitled, RecordsEntitled, TokensNamed
<1>4. new.pc \in Deciding /\ new.kind = "exam submit" => new.token \in Names
  BY DEF Decision, Deciding, Valid, Names
<1>5. Names' = Names
  BY DEF Names
<1>6. ExamsSigned'
  BY DEF StudiedInv, ExamsSigned
<1>7. RequestsEntitled'
  BY <1>1, <1>4, <1>5 DEF StudiedInv, RequestsEntitled
<1>8. RecordsEntitled'
  BY <1>1, <1>2, <1>5 DEF StudiedInv, RecordsEntitled
<1>9. QED
  BY <1>3, <1>6, <1>7, <1>8 DEF StudiedInv

LEMMA StudiedClose ==
    ASSUME TypeInv, StudiedInv, NEW r \in Req, tx[r].pc \notin Ended,
           NEW outcome \in Ended, Close(r, outcome),
           UNCHANGED <<records, tokens, studied>>
    PROVE  StudiedInv'
<1>1. /\ [Idle EXCEPT !.pc = outcome].pc = outcome
      /\ [Idle EXCEPT !.pc = outcome] \in Tx
  BY IdleTyped DEF Idle
<1>2. QED
  BY <1>1, StudiedStep DEF Close, Ended, Studying

LEMMA StudiedSign ==
    ASSUME TypeInv, StudiedInv, NEW r \in Req, tx[r].pc \notin Ended,
           NEW outcome \in Ended, Close(r, outcome), UNCHANGED <<records, studied>>,
           NEW kind \in {Exam, Placement}, NEW level \in Levels, NEW paper,
           Sign(r, kind, level, paper),
           kind = Exam => studied[level] = MinStudied
    PROVE  StudiedInv'
<1>1. /\ tx'[r].pc = outcome
      /\ \A q \in Req \ {r} : tx'[q] = tx[q]
  BY DEF Close, Step, Idle, TypeInv, TypeOK
<1>2. CASE UNCHANGED tokens
  BY <1>2, StudiedClose
<1>3. CASE tokens' = tokens \cup {[by |-> r, kind |-> kind, level |-> level,
                                  paper |-> paper, age |-> 0]}
  <2>1. /\ \A t \in tokens : t.by \in Req /\ t.by # r
        /\ \A x \in records : x.by \in Req /\ x.by # r
    BY DEF StudiedInv, ExamsSigned, RequestsEntitled, RecordsEntitled, TokensNamed, TypeInv, TypeOK, Token, Record, Ended
  <2>2. PICK s : /\ tokens' = tokens \cup {s} /\ s.by = r
                 /\ s.kind = kind /\ s.level = level
    <3> DEFINE s == [by |-> r, kind |-> kind, level |-> level, paper |-> paper, age |-> 0]
    <3>1. s.by = r /\ s.kind = kind /\ s.level = level
      OBVIOUS
    <3>2. tokens' = tokens \cup {s}
      BY <1>3
    <3> HIDE DEF s
    <3>3. QED
      BY <3>1, <3>2
  <2>3. TokensNamed'
    BY <1>1, <2>1, <2>2 DEF StudiedInv, ExamsSigned, RequestsEntitled, RecordsEntitled, TokensNamed
  <2>4. outcome \notin Deciding \cup Studying
    BY DEF Ended, Deciding, Studying
  <2>5. Names \subseteq Names'
    BY <2>2 DEF Names
  <2>6. ExamsSigned'
    BY <2>2 DEF StudiedInv, ExamsSigned
  <2>7. RequestsEntitled'
    BY <1>1, <2>4, <2>5 DEF StudiedInv, RequestsEntitled
  <2>8. RecordsEntitled'
    BY <1>1, <2>1, <2>5 DEF StudiedInv, RecordsEntitled
  <2>9. QED
    BY <2>3, <2>6, <2>7, <2>8 DEF StudiedInv
<1>4. QED
  BY <1>2, <1>3 DEF Sign

LEMMA StudiedInvariant == Spec => []StudiedInv
<1>1. Init => StudiedInv
  <2>1. Idle.pc \notin Studying \cup Deciding
    BY DEF Idle, Studying, Deciding
  <2>2. QED
    BY <2>1 DEF Init, StudiedInv, ExamsSigned, RequestsEntitled, RecordsEntitled, TokensNamed
<1>2. ASSUME TypeInv, StudiedInv, [Next]_vars PROVE StudiedInv'
  <2> USE <1>2
  <2>1. CASE UNCHANGED vars
    BY <2>1 DEF vars, StudiedInv, ExamsSigned, RequestsEntitled, RecordsEntitled, TokensNamed, Names
  <2>2. ASSUME NEW r \in Req, BeginExam(r) PROVE StudiedInv'
    <3>1. tx[r].pc \notin Ended /\ UNCHANGED <<records, tokens, studied>>
      BY <2>2 DEF BeginExam, Admitted, Unwritten, Ended
    <3>2. CASE Begin(r, Exam, "studied")
      <4>1. /\ [Idle EXCEPT !.pc = "studied", !.kind = Exam, !.seen = user] \in Tx
            /\ [Idle EXCEPT !.pc = "studied", !.kind = Exam, !.seen = user].pc = "studied"
        BY IdleTyped DEF Idle, Tx, Pc, Exam, TypeInv, TypeOK
      <4>2. QED
        BY <3>1, <3>2, <4>1, StudiedStep DEF Begin, Studying
    <3>3. QED
      BY <2>2, <3>1, <3>2, StudiedClose DEF BeginExam, Ended
  <2>3. ASSUME NEW r \in Req, ReadStudied(r) PROVE StudiedInv'
    <3>1. tx[r].pc \notin Ended /\ UNCHANGED <<records, tokens, studied>>
      BY <2>3 DEF ReadStudied, Unwritten, Ended
    <3>2. CASE Close(r, "rejected")
      BY <3>1, <3>2, StudiedClose DEF Ended
    <3>3. CASE /\ ~(studied[tx[r].seen.level] < MinStudied)
               /\ Step(r, [tx[r] EXCEPT !.pc = "cooldown"])
      <4>1. studied[tx[r].seen.level] = MinStudied
        <5>1. tx[r].seen.level \in Levels
          BY DEF TypeInv, TypeOK, Tx, User
        <5>2. studied[tx[r].seen.level] \in 0..MinStudied
          BY <5>1 DEF TypeInv, TypeOK
        <5>3. QED
          BY <3>3, <5>2, BoundsAssumption
      <4>2. /\ [tx[r] EXCEPT !.pc = "cooldown"] \in Tx
            /\ [tx[r] EXCEPT !.pc = "cooldown"].pc = "cooldown"
            /\ [tx[r] EXCEPT !.pc = "cooldown"].seen = tx[r].seen
        BY DEF TypeInv, TypeOK, Tx, Pc
      <4>3. QED
        BY <3>1, <3>3, <4>1, <4>2, StudiedStep
    <3>4. QED
      BY <2>3, <3>2, <3>3 DEF ReadStudied
  <2>4. ASSUME NEW r \in Req, ReadCooldown(r) PROVE StudiedInv'
    <3>1. /\ tx[r].pc = "cooldown" /\ tx[r].pc \notin Ended
          /\ UNCHANGED <<records, tokens, studied>>
      BY <2>4 DEF ReadCooldown, Unwritten, Ended
    <3>2. CASE Close(r, "rejected")
      BY <3>1, <3>2, StudiedClose DEF Ended
    <3>3. CASE Step(r, [tx[r] EXCEPT !.pc = "draw"])
      <4>1. studied[tx[r].seen.level] = MinStudied
        BY <3>1 DEF StudiedInv, ExamsSigned, RequestsEntitled, RecordsEntitled, Studying
      <4>2. /\ [tx[r] EXCEPT !.pc = "draw"] \in Tx
            /\ [tx[r] EXCEPT !.pc = "draw"].pc = "draw"
            /\ [tx[r] EXCEPT !.pc = "draw"].seen = tx[r].seen
        BY DEF TypeInv, TypeOK, Tx, Pc
      <4>3. QED
        BY <3>1, <3>3, <4>1, <4>2, StudiedStep
    <3>4. QED
      BY <2>4, <3>2, <3>3 DEF ReadCooldown
  <2>5. ASSUME NEW r \in Req, IssueExam(r) PROVE StudiedInv'
    <3>1. PICK paper \in ExamPapers[tx[r].seen.level] :
             /\ Sign(r, Exam, tx[r].seen.level, paper)
             /\ Close(r, IF paper = {} THEN "rejected" ELSE "ok")
      BY <2>5 DEF IssueExam
    <3>2. /\ tx[r].pc = "draw" /\ tx[r].pc \notin Ended
          /\ tx[r].seen.level \in Levels /\ UNCHANGED <<records, studied>>
      BY <2>5 DEF IssueExam, Ended, TypeInv, TypeOK, Tx, User
    <3>3. studied[tx[r].seen.level] = MinStudied
      BY <3>2 DEF StudiedInv, ExamsSigned, RequestsEntitled, RecordsEntitled, Studying
    <3>4. (IF paper = {} THEN "rejected" ELSE "ok") \in Ended
      BY DEF Ended
    <3>5. QED
      BY <3>1, <3>2, <3>3, <3>4, StudiedSign
  <2>6. ASSUME NEW r \in Req, IssuePlacement(r) PROVE StudiedInv'
    <3>1. PICK paper \in PlacementPapers :
             /\ Sign(r, Placement, 1, paper)
             /\ Close(r, IF paper = {} THEN "rejected" ELSE "ok")
      BY <2>6 DEF IssuePlacement
    <3>2. tx[r].pc \notin Ended /\ UNCHANGED <<records, studied>> /\ 1 \in Levels
      BY <2>6, IdleTyped DEF IssuePlacement, Admitted, Ended
    <3>3. (IF paper = {} THEN "rejected" ELSE "ok") \in Ended
      BY DEF Ended
    <3>4. QED
      BY <3>1, <3>2, <3>3, StudiedSign DEF Exam, Placement
  <2>7. ASSUME NEW r \in Req, RejectSubmit(r) \/ Fail(r) PROVE StudiedInv'
    <3>1. tx[r].pc \notin Ended /\ UNCHANGED <<records, tokens, studied>>
      BY <2>7 DEF RejectSubmit, Fail, Admitted, Running, Ended, Unwritten
    <3>2. QED
      BY <2>7, <3>1, StudiedClose DEF RejectSubmit, Fail, Ended
  <2>8. ASSUME NEW r \in Req, SubmitExam(r) \/ SubmitPlacement(r) \/ Skip(r)
        PROVE  StudiedInv'
    <3>1. PICK new \in Tx : Step(r, new) /\ Decision(new)
      BY <2>8, Submitting
    <3>2. tx[r].pc \notin Ended /\ UNCHANGED <<records, tokens, studied>>
      BY <2>8, Submitting DEF Unwritten, Ended
    <3>3. new.pc = "write"
      BY <3>1 DEF Decision
    <3>4. QED
      BY <3>1, <3>2, <3>3, StudiedStep DEF Studying
  <2>9. ASSUME NEW r \in Req, Write(r) \/ Commit(r) PROVE StudiedInv'
    <3>1. /\ tx[r].pc \in Deciding /\ tx'[r].pc \in {"commit", "ok"}
          /\ tx'[r].kind = tx[r].kind /\ tx'[r].token = tx[r].token
          /\ tx'[r].pc = "commit" => UNCHANGED records
          /\ \A q \in Req \ {r} : tx'[q] = tx[q]
          /\ UNCHANGED <<tokens, studied>>
      <4>1. CASE Commit(r)
        BY <4>1 DEF Commit, Step, TypeInv, TypeOK, Tx, Deciding
      <4>2. CASE Write(r)
        <5>1. PICK locked \in BOOLEAN :
                 Step(r, [tx[r] EXCEPT !.pc = "commit", !.locked = locked])
          BY <4>2, Writing
        <5>2. tx[r].pc = "write" /\ UNCHANGED <<records, tokens, studied>>
          BY <4>2, Writing DEF Unwritten
        <5>3. QED
          BY <5>1, <5>2 DEF Step, TypeInv, TypeOK, Tx, Deciding
      <4>3. QED
        BY <2>9, <4>1, <4>2
    <3>2. /\ \A t \in tokens : t.by \in Req /\ t.by # r
          /\ \A x \in records : x.by \in Req /\ x.by # r
      BY <3>1 DEF StudiedInv, ExamsSigned, RequestsEntitled, RecordsEntitled, TokensNamed, TypeInv, TypeOK, Token, Record, Ended, Deciding
    <3>3. TokensNamed'
      BY <3>1, <3>2 DEF StudiedInv, ExamsSigned, RequestsEntitled, RecordsEntitled, TokensNamed
    <3>4. Names' = Names
      BY <3>1 DEF Names
    <3>5. \A x \in records' :
             \/ x \in records
             \/ x.by = r /\ tx'[r].pc = "ok" /\ tx[r].kind = "exam submit"
      <4>1. CASE Commit(r)
        <5>1. tx'[r].pc = "ok"
          BY <4>1 DEF Commit, Step, TypeInv, TypeOK, Tx
        <5>2. CASE tx[r].kind = "exam submit"
          <6>1. \E y : y.by = r /\ records' = records \cup {y}
            <7> DEFINE y == [by |-> r, from |-> tx[r].seen.level,
                             to |-> Min({tx[r].seen.level + 1, TopLevel}),
                             passed |-> tx[r].passed, age |-> 0]
            <7>1. y.by = r
              OBVIOUS
            <7>2. records' = records \cup {y}
              BY <4>1, <5>2 DEF Commit
            <7> HIDE DEF y
            <7>3. QED
              BY <7>1, <7>2
          <6>2. QED
            BY <5>1, <5>2, <6>1
        <5>3. CASE tx[r].kind # "exam submit"
          BY <4>1, <5>3 DEF Commit
        <5>4. QED
          BY <5>2, <5>3
      <4>2. CASE Write(r)
        BY <4>2, Writing DEF Unwritten
      <4>3. QED
        BY <2>9, <4>1, <4>2
    <3>6. ExamsSigned'
      BY <3>1 DEF StudiedInv, ExamsSigned
    <3>7. RequestsEntitled'
      BY <3>1, <3>4 DEF StudiedInv, RequestsEntitled, Studying
    <3>8. RecordsEntitled'
      BY <3>1, <3>2, <3>4, <3>5 DEF StudiedInv, RequestsEntitled, RecordsEntitled
    <3>9. QED
      BY <3>3, <3>6, <3>7, <3>8 DEF StudiedInv
  <2>10. ASSUME NEW l \in Levels, Study(l) PROVE StudiedInv'
    <3>1. /\ \A k \in Levels : studied[k] = MinStudied => studied'[k] = MinStudied
          /\ UNCHANGED <<records, tokens, tx>>
      BY <2>10, BoundsAssumption DEF Study, TypeInv, TypeOK
    <3>2. /\ \A t \in tokens : t.level \in Levels
          /\ \A r \in Req : tx[r].seen.level \in Levels
      BY DEF TypeInv, TypeOK, Token, Tx, User
    <3>3. QED
      BY <3>1, <3>2 DEF StudiedInv, ExamsSigned, RequestsEntitled, RecordsEntitled, TokensNamed, Names
  <2>11. CASE Tick
    <3>1. UNCHANGED <<studied, tx>>
      BY <2>11 DEF Tick
    <3>2. TokensNamed'
      <4>1. ASSUME NEW t \in tokens', NEW u \in tokens', t.by = u.by PROVE t = u
        <5> DEFINE Older(v) == [v EXCEPT !.age = Min({@ + 1, TokenLife + 1})]
        <5>1. PICK v \in tokens, w \in tokens : t = Older(v) /\ u = Older(w)
          BY <2>11 DEF Tick
        <5>2. v \in Token /\ w \in Token
          BY DEF TypeInv, TypeOK
        <5>3. v.by = w.by
          BY <4>1, <5>1, <5>2 DEF Token
        <5>4. v = w
          BY <5>3 DEF StudiedInv, ExamsSigned, RequestsEntitled, RecordsEntitled, TokensNamed
        <5>5. QED
          BY <5>1, <5>4
      <4>2. QED
        BY <2>11, <3>1, <4>1, TickAges DEF StudiedInv, ExamsSigned, RequestsEntitled, RecordsEntitled, TokensNamed, TickedToken
    <3>3. \A t \in tokens' : t.kind = Exam => studied[t.level] = MinStudied
      <4>1. ASSUME NEW t \in tokens', t.kind = Exam PROVE studied[t.level] = MinStudied
        <5>1. PICK u \in tokens : TickedToken(u, t)
          BY <2>11, TickAges
        <5>2. QED
          BY <4>1, <5>1 DEF StudiedInv, ExamsSigned, RequestsEntitled, RecordsEntitled, TickedToken
      <4>2. QED
        BY <4>1
    <3>4. Names \subseteq Names'
      <4>1. ASSUME NEW u \in tokens PROVE u.by \in Names'
        <5>1. PICK t \in tokens' : TickedToken(u, t)
          BY <2>11, TickAges
        <5>2. QED
          BY <4>1, <5>1 DEF TickedToken, Names
      <4>2. QED
        BY <4>1 DEF Names
    <3>5. \A x \in records' : \E y \in records : x.by = y.by
      BY <2>11, TickAges DEF TickedRecord
    <3>6. QED
      BY <3>1, <3>2, <3>3, <3>4, <3>5 DEF StudiedInv, ExamsSigned, RequestsEntitled, RecordsEntitled
  <2>12. QED
    BY <2>1, <2>2, <2>3, <2>4, <2>5, <2>6, <2>7, <2>8, <2>9, <2>10, <2>11 DEF Next
<1>3. QED
  BY <1>1, <1>2, TypeInvariant, PTL DEF Spec

(* An exam that was taken with a token drawn for an exam of that level was  *)
(* taken by a learner who had studied enough of it.                        *)
THEOREM ExamsAfterStudy == Spec => []PromotionStudied
<1>1. ASSUME StudiedInv, NEW x \in records, TokenOf(x.by).level = x.from,
             TokenOf(x.by).kind = Exam
      PROVE  studied[x.from] = MinStudied
  <2>1. PICK t \in tokens : t.by = tx[x.by].token
    BY <1>1 DEF StudiedInv, ExamsSigned, RequestsEntitled, RecordsEntitled, Names
  <2>2. TokenOf(x.by) = t
    BY <1>1, <2>1, TheToken DEF StudiedInv, ExamsSigned, RequestsEntitled, RecordsEntitled
  <2>3. QED
    BY <1>1, <2>1, <2>2 DEF StudiedInv, ExamsSigned, RequestsEntitled, RecordsEntitled
<1>2. StudiedInv => PromotionStudied
  BY <1>1 DEF PromotionStudied
<1>3. QED
  BY <1>2, StudiedInvariant, PTL

-----------------------------------------------------------------------------
(* The cooldown.                                                           *)

LiveNames == {t.by : t \in {u \in tokens : Valid(u)}}

(* A request that passed the cooldown check saw no exam of its level that   *)
(* still counts: those there are now have been recorded since.  So an exam  *)
(* token that is still valid is as old as every such record.  And an exam   *)
(* that is being written was submitted with a token that is still valid.    *)
DrawsAfterCooldown ==
    \A r \in Req, y \in records :
        tx[r].pc = "draw" /\ y.from = tx[r].seen.level /\ y.age < Cooldown => y.age = 0
TokensOlder ==
    \A t \in tokens, y \in records :
        Valid(t) /\ t.kind = Exam /\ t.level = y.from /\ y.age < Cooldown => t.age >= y.age
SubmitsLive ==
    \A r \in Req :
        tx[r].pc \in Deciding /\ tx[r].kind = "exam submit" => tx[r].token \in LiveNames
AgeInv == DrawsAfterCooldown /\ TokensOlder /\ SubmitsLive

LEMMA AgeStep ==
    ASSUME TypeInv, AgeInv, NEW r \in Req, NEW new \in Tx, Step(r, new),
           UNCHANGED <<records, tokens>>,
           new.pc # "commit",
           new.pc = "write" => Decision(new),
           new.pc = "draw" => ~Cooling(new.seen.level)
    PROVE  AgeInv'
<1>1. /\ tx'[r] = new
      /\ \A q \in Req \ {r} : tx'[q] = tx[q]
  BY DEF Step, TypeInv, TypeOK
<1>2. DrawsAfterCooldown'
  BY <1>1 DEF AgeInv, DrawsAfterCooldown, Cooling
<1>3. TokensOlder'
  BY DEF AgeInv, TokensOlder, Valid
<1>4. LiveNames' = LiveNames
  BY DEF LiveNames, Valid
<1>5. new.pc \in Deciding /\ new.kind = "exam submit" => new.token \in LiveNames
  BY DEF Decision, Deciding, LiveNames
<1>6. SubmitsLive'
  BY <1>1, <1>4, <1>5 DEF AgeInv, SubmitsLive
<1>7. QED
  BY <1>2, <1>3, <1>6 DEF AgeInv

LEMMA AgeClose ==
    ASSUME TypeInv, AgeInv, NEW r \in Req, NEW outcome \in Ended, Close(r, outcome),
           UNCHANGED <<records, tokens>>
    PROVE  AgeInv'
<1>1. /\ [Idle EXCEPT !.pc = outcome].pc = outcome
      /\ [Idle EXCEPT !.pc = outcome] \in Tx
  BY IdleTyped DEF Idle
<1>2. QED
  BY <1>1, AgeStep DEF Close, Ended

LEMMA AgeSign ==
    ASSUME TypeInv, AgeInv, NEW r \in Req, NEW outcome \in Ended, Close(r, outcome),
           UNCHANGED records,
           NEW kind \in {Exam, Placement}, NEW level \in Levels, NEW paper,
           Sign(r, kind, level, paper),
           kind = Exam =>
              \A y \in records : y.from = level /\ y.age < Cooldown => y.age = 0
    PROVE  AgeInv'
<1>1. /\ tx'[r].pc = outcome
      /\ \A q \in Req \ {r} : tx'[q] = tx[q]
  BY DEF Close, Step, Idle, TypeInv, TypeOK
<1>2. CASE UNCHANGED tokens
  BY <1>2, AgeClose
<1>3. CASE tokens' = tokens \cup {[by |-> r, kind |-> kind, level |-> level,
                                  paper |-> paper, age |-> 0]}
  <2>1. PICK s : /\ tokens' = tokens \cup {s} /\ s.age = 0
                 /\ s.kind = kind /\ s.level = level
    <3> DEFINE s == [by |-> r, kind |-> kind, level |-> level, paper |-> paper, age |-> 0]
    <3>1. s.age = 0 /\ s.kind = kind /\ s.level = level
      OBVIOUS
    <3>2. tokens' = tokens \cup {s}
      BY <1>3
    <3> HIDE DEF s
    <3>3. QED
      BY <3>1, <3>2
  <2>2. outcome \notin Deciding \cup {"draw"}
    BY DEF Ended, Deciding
  <2>3. DrawsAfterCooldown'
    BY <1>1, <2>2 DEF AgeInv, DrawsAfterCooldown
  <2>4. TokensOlder'
    BY <2>1 DEF AgeInv, TokensOlder, Valid
  <2>5. LiveNames \subseteq LiveNames'
    BY <2>1 DEF LiveNames, Valid
  <2>6. SubmitsLive'
    BY <1>1, <2>2, <2>5 DEF AgeInv, SubmitsLive
  <2>7. QED
    BY <2>3, <2>4, <2>6 DEF AgeInv
<1>4. QED
  BY <1>2, <1>3 DEF Sign

(* What a commit inserts: at most the record of an exam, of age 0.         *)
LEMMA Inserted ==
    ASSUME TypeInv, NEW r \in Req, Commit(r)
    PROVE  /\ tx[r].pc = "commit"
           /\ \A x \in records' :
                 \/ x \in records
                 \/ /\ tx[r].kind = "exam submit" /\ x.by = r /\ x.age = 0
                    /\ x.from = tx[r].seen.level
<1>1. CASE tx[r].kind = "exam submit"
  <2> DEFINE y == [by |-> r, from |-> tx[r].seen.level,
                   to |-> Min({tx[r].seen.level + 1, TopLevel}),
                   passed |-> tx[r].passed, age |-> 0]
  <2>1. y.by = r /\ y.age = 0 /\ y.from = tx[r].seen.level
    OBVIOUS
  <2>2. records' = records \cup {y}
    BY <1>1 DEF Commit
  <2> HIDE DEF y
  <2>3. QED
    BY <1>1, <2>1, <2>2 DEF Commit
<1>2. CASE tx[r].kind # "exam submit"
  BY <1>2 DEF Commit
<1>3. QED
  BY <1>1, <1>2

LEMMA AgeInvariant == Spec => []AgeInv
<1>1. Init => AgeInv
  <2>1. Idle.pc \notin Deciding
    BY DEF Idle, Deciding
  <2>2. QED
    BY <2>1 DEF Init, AgeInv, DrawsAfterCooldown, TokensOlder, SubmitsLive
<1>2. ASSUME TypeInv, AgeInv, [Next]_vars PROVE AgeInv'
  <2> USE <1>2
  <2>1. CASE UNCHANGED vars
    BY <2>1 DEF vars, AgeInv, DrawsAfterCooldown, TokensOlder, SubmitsLive, LiveNames, Valid
  <2>2. ASSUME NEW r \in Req, BeginExam(r) PROVE AgeInv'
    <3>1. UNCHANGED <<records, tokens>>
      BY <2>2 DEF BeginExam, Unwritten
    <3>2. CASE Begin(r, Exam, "studied")
      <4>1. /\ [Idle EXCEPT !.pc = "studied", !.kind = Exam, !.seen = user] \in Tx
            /\ [Idle EXCEPT !.pc = "studied", !.kind = Exam, !.seen = user].pc = "studied"
        BY IdleTyped DEF Idle, Tx, Pc, Exam, TypeInv, TypeOK
      <4>2. QED
        BY <3>1, <3>2, <4>1, AgeStep DEF Begin
    <3>3. QED
      BY <2>2, <3>1, <3>2, AgeClose DEF BeginExam, Ended
  <2>3. ASSUME NEW r \in Req, ReadStudied(r) \/ ReadCooldown(r) PROVE AgeInv'
    <3>1. UNCHANGED <<records, tokens>>
      BY <2>3 DEF ReadStudied, ReadCooldown, Unwritten
    <3>2. CASE Close(r, "rejected")
      BY <3>1, <3>2, AgeClose DEF Ended
    <3>3. ASSUME NEW pc \in {"cooldown", "draw"}, Step(r, [tx[r] EXCEPT !.pc = pc]),
                 pc = "draw" => ~Cooling(tx[r].seen.level)
          PROVE  AgeInv'
      <4>1. /\ [tx[r] EXCEPT !.pc = pc] \in Tx
            /\ [tx[r] EXCEPT !.pc = pc].pc = pc
            /\ [tx[r] EXCEPT !.pc = pc].seen = tx[r].seen
        BY DEF TypeInv, TypeOK, Tx, Pc
      <4>2. QED
        BY <3>1, <3>3, <4>1, AgeStep
    <3>4. QED
      BY <2>3, <3>2, <3>3 DEF ReadStudied, ReadCooldown
  <2>4. ASSUME NEW r \in Req, IssueExam(r) PROVE AgeInv'
    <3>1. PICK paper \in ExamPapers[tx[r].seen.level] :
             /\ Sign(r, Exam, tx[r].seen.level, paper)
             /\ Close(r, IF paper = {} THEN "rejected" ELSE "ok")
      BY <2>4 DEF IssueExam
    <3>2. /\ tx[r].pc = "draw" /\ tx[r].seen.level \in Levels /\ UNCHANGED records
      BY <2>4 DEF IssueExam, TypeInv, TypeOK, Tx, User
    <3>3. \A y \in records : y.from = tx[r].seen.level /\ y.age < Cooldown => y.age = 0
      BY <3>2 DEF AgeInv, DrawsAfterCooldown
    <3>4. (IF paper = {} THEN "rejected" ELSE "ok") \in Ended
      BY DEF Ended
    <3>5. QED
      BY <3>1, <3>2, <3>3, <3>4, AgeSign
  <2>5. ASSUME NEW r \in Req, IssuePlacement(r) PROVE AgeInv'
    <3>1. PICK paper \in PlacementPapers :
             /\ Sign(r, Placement, 1, paper)
             /\ Close(r, IF paper = {} THEN "rejected" ELSE "ok")
      BY <2>5 DEF IssuePlacement
    <3>2. UNCHANGED records /\ 1 \in Levels
      BY <2>5, IdleTyped DEF IssuePlacement
    <3>3. (IF paper = {} THEN "rejected" ELSE "ok") \in Ended
      BY DEF Ended
    <3>4. QED
      BY <3>1, <3>2, <3>3, AgeSign DEF Exam, Placement
  <2>6. ASSUME NEW r \in Req, RejectSubmit(r) \/ Fail(r) PROVE AgeInv'
    BY <2>6, AgeClose DEF RejectSubmit, Fail, Ended, Unwritten
  <2>7. ASSUME NEW r \in Req, SubmitExam(r) \/ SubmitPlacement(r) \/ Skip(r)
        PROVE  AgeInv'
    <3>1. PICK new \in Tx : Step(r, new) /\ Decision(new)
      BY <2>7, Submitting
    <3>2. UNCHANGED <<records, tokens>>
      BY <2>7, Submitting DEF Unwritten
    <3>3. new.pc = "write"
      BY <3>1 DEF Decision
    <3>4. QED
      BY <3>1, <3>2, <3>3, AgeStep
  <2>8. ASSUME NEW r \in Req, Write(r) PROVE AgeInv'
    <3>1. PICK locked \in BOOLEAN :
             Step(r, [tx[r] EXCEPT !.pc = "commit", !.locked = locked])
      BY <2>8, Writing
    <3>2. tx[r].pc = "write" /\ UNCHANGED <<records, tokens>>
      BY <2>8, Writing DEF Unwritten
    <3>3. /\ tx'[r].pc = "commit" /\ tx'[r].kind = tx[r].kind
          /\ tx'[r].token = tx[r].token
          /\ \A q \in Req \ {r} : tx'[q] = tx[q]
      BY <3>1 DEF Step, TypeInv, TypeOK, Tx
    <3>4. LiveNames' = LiveNames
      BY <3>2 DEF LiveNames, Valid
    <3>5. DrawsAfterCooldown' /\ TokensOlder'
      BY <3>2, <3>3 DEF AgeInv, DrawsAfterCooldown, TokensOlder, Valid
    <3>6. SubmitsLive'
      BY <3>2, <3>3, <3>4 DEF AgeInv, SubmitsLive, Deciding
    <3>7. QED
      BY <3>5, <3>6 DEF AgeInv
  <2>9. ASSUME NEW r \in Req, Commit(r) PROVE AgeInv'
    <3>1. \A x \in records' : x \in records \/ x.age = 0
      BY <2>9, Inserted
    <3>2. /\ tx'[r].pc = "ok" /\ \A q \in Req \ {r} : tx'[q] = tx[q]
          /\ UNCHANGED tokens
      BY <2>9 DEF Commit, Step, TypeInv, TypeOK, Tx
    <3>3. LiveNames' = LiveNames
      BY <3>2 DEF LiveNames, Valid
    <3>4. DrawsAfterCooldown'
      BY <3>1, <3>2 DEF AgeInv, DrawsAfterCooldown
    <3>5. TokensOlder'
      <4>1. \A t \in tokens : t.age >= 0
        BY BoundsAssumption DEF TypeInv, TypeOK, Token
      <4>2. QED
        BY <3>1, <3>2, <4>1 DEF AgeInv, TokensOlder, Valid
    <3>6. SubmitsLive'
      BY <3>2, <3>3 DEF AgeInv, SubmitsLive, Deciding
    <3>7. QED
      BY <3>4, <3>5, <3>6 DEF AgeInv
  <2>10. ASSUME NEW l \in Levels, Study(l) PROVE AgeInv'
    BY <2>10 DEF Study, AgeInv, DrawsAfterCooldown, TokensOlder, SubmitsLive, LiveNames, Valid
  <2>11. CASE Tick
    <3>1. UNCHANGED tx /\ \A r \in Req : tx[r].pc \notin Deciding \cup {"draw"}
      BY <2>11 DEF Tick, Running, Ended, Deciding
    <3>2. DrawsAfterCooldown' /\ SubmitsLive'
      BY <3>1 DEF DrawsAfterCooldown, SubmitsLive
    <3>3. ASSUME NEW t \in tokens', NEW x \in records', Valid(t), t.kind = Exam,
                 t.level = x.from, x.age < Cooldown
          PROVE  t.age >= x.age
      <4>1. PICK u \in tokens : TickedToken(u, t)
        BY <2>11, TickAges
      <4>2. PICK y \in records : TickedRecord(y, x)
        BY <2>11, TickAges
      <4>3. u \in Token /\ y \in Record
        BY DEF TypeInv, TypeOK
      <4>4. u.age \in Int /\ y.age \in Int /\ TokenLife \in Int /\ Cooldown \in Int
        BY <4>3, BoundsAssumption DEF Token, Record
      <4>5. /\ u.age <= TokenLife /\ t.age = u.age + 1
            /\ y.age < Cooldown /\ x.age = y.age + 1
        BY <3>3, <4>1, <4>2, <4>4 DEF TickedToken, TickedRecord, Valid
      <4>6. u.age >= y.age
        BY <3>3, <4>1, <4>2, <4>5 DEF AgeInv, TokensOlder, TickedToken, TickedRecord, Valid
      <4>7. QED
        BY <4>4, <4>5, <4>6
    <3>4. TokensOlder'
      BY <3>3 DEF TokensOlder, Valid
    <3>5. QED
      BY <3>2, <3>4 DEF AgeInv
  <2>12. QED
    BY <2>1, <2>2, <2>3, <2>4, <2>5, <2>6, <2>7, <2>8, <2>9, <2>10, <2>11 DEF Next
<1>3. QED
  BY <1>1, <1>2, TypeInvariant, PTL DEF Spec

(* A second exam within the cooldown of a first was submitted with a token  *)
(* that is as old as the first, or was drawn for another level or for a     *)
(* placement test: no exam of the level is drawn between the first exam and *)
(* the end of the cooldown.                                                *)
THEOREM RetakesTakeOtherTokens == Spec => RetakeOnlyByOtherToken
<1> DEFINE Old == \A x \in records', y \in records :
                     x.by \notin {z.by : z \in records} /\ x.from = y.from /\ y.age < Cooldown
                        => LET t == TokenOf(x.by)
                           IN  t.age >= y.age \/ t.level # x.from \/ t.kind = Placement
<1>1. ASSUME TypeInv, StudiedInv, AgeInv, [Next]_vars PROVE [Old]_records
  <2> USE <1>1
  <2>1. SUFFICES ASSUME NEW x \in records', NEW y \in records, records' # records,
                        x.by \notin {z.by : z \in records},
                        x.from = y.from, y.age < Cooldown,
                        TokenOf(x.by).level = x.from, TokenOf(x.by).kind # Placement
                 PROVE  TokenOf(x.by).age >= y.age
    OBVIOUS
  <2>2. ~Tick
    BY <2>1, TickAges DEF TickedRecord
  <2>3. PICK r \in Req : Commit(r)
    BY <2>1, <2>2, Writing, Submitting
       DEF Next, vars, BeginExam, ReadStudied, ReadCooldown, IssueExam, IssuePlacement,
           RejectSubmit, Fail, Study, Unwritten
  <2>4. /\ tx[r].pc \in Deciding /\ tx[r].kind = "exam submit"
        /\ x.by = r /\ x.from = tx[r].seen.level
    BY <2>1, <2>3, Inserted DEF Deciding
  <2>5. PICK t \in tokens : Valid(t) /\ t.by = tx[r].token
    BY <2>4 DEF AgeInv, SubmitsLive, LiveNames
  <2>6. TokenOf(x.by) = t
    BY <2>4, <2>5, TheToken DEF StudiedInv
  <2>7. t.kind = Exam
    BY <2>1, <2>5, <2>6 DEF TypeInv, TypeOK, Token
  <2>8. QED
    BY <2>1, <2>5, <2>6, <2>7 DEF AgeInv, TokensOlder
<1>2. QED
  BY <1>1, TypeInvariant, StudiedInvariant, AgeInvariant, PTL DEF Spec, RetakeOnlyByOtherToken

-----------------------------------------------------------------------------
(* The scale of the placement test.                                        *)

(* Answering one problem more right passes no level less.                  *)
LEMMA MoreRightMorePassed ==
    ASSUME NEW paper \in SUBSET Problems, NEW right \in SUBSET paper, NEW p \in paper
    PROVE  Passed(paper, right) \subseteq Passed(paper, right \cup {p})
<1>1. SUFFICES ASSUME NEW k \in Levels, PassesLevel(k, paper, right)
               PROVE  PassesLevel(k, paper, right \cup {p})
  BY DEF Passed
<1> DEFINE few == right \cap OfLevel[k]
           many == (right \cup {p}) \cap OfLevel[k]
           asked == paper \cap OfLevel[k]
<1>2. /\ few \subseteq many
      /\ few \in SUBSET Problems /\ many \in SUBSET Problems /\ asked \in SUBSET Problems
  OBVIOUS
<1>3. IsFiniteSet(few) /\ IsFiniteSet(many) /\ IsFiniteSet(asked)
  BY <1>2, StockAssumption, FS_Subset
<1>4. /\ Cardinality(few) \in Nat /\ Cardinality(many) \in Nat
      /\ Cardinality(asked) \in Nat /\ Cardinality(few) <= Cardinality(many)
  BY <1>2, <1>3, FS_Subset, FS_CardinalityType
<1>5. 3 * Cardinality(few) >= 2 * Cardinality(asked)
  BY <1>1 DEF PassesLevel
<1> HIDE DEF few, many, asked
<1>6. 3 * Cardinality(many) >= 2 * Cardinality(asked)
  BY <1>4, <1>5
<1>7. QED
  BY <1>6 DEF PassesLevel, many, asked

LEMMA ScaleOfPaper ==
    ASSUME NEW paper \in SUBSET Problems PROVE RightScale(paper)
<1>1. ASSUME NEW right \in SUBSET paper, NEW p \in paper
      PROVE  compute_level(paper, right \cup {p}) >= compute_level(paper, right)
  <2> DEFINE A == {1} \cup Passed(paper, right)
             B == {1} \cup Passed(paper, right \cup {p})
  <2>1. TopLevel \in Nat \ {0}
    BY LevelsAssumption
  <2>2. /\ A \in SUBSET (0..TopLevel) /\ B \in SUBSET (0..TopLevel)
        /\ A # {} /\ B # {}
    BY <2>1 DEF Passed, Levels
  <2>3. A \subseteq B
    BY MoreRightMorePassed
  <2>4. compute_level(paper, right) = Max(A)
    BY HighestPassed
  <2>5. compute_level(paper, right \cup {p}) = Max(B)
    BY HighestPassed
  <2> HIDE DEF A, B
  <2>6. Max(A) \in A
    BY <2>1, <2>2, MaxOfNaturals
  <2>7. \A j \in B : Max(B) >= j
    BY <2>1, <2>2, MaxOfNaturals
  <2>8. QED
    BY <2>3, <2>4, <2>5, <2>6, <2>7
<1>2. QED
  BY <1>1, HighestPassed DEF RightScale, Passed

(* Of every paper that is signed: the level a placement submit assigns is the *)
(* highest one asked and passed, and who answers more problems right is     *)
(* not assigned a lower one, for every stock of problems.                   *)
THEOREM PlacementScales == Spec => PlacementScale
<1>1. TypeInv /\ TypeInv' =>
         [\A t \in tokens' \ tokens : RightScale(t.paper)]_tokens
  BY ScaleOfPaper DEF TypeInv, TypeOK, Token
<1>2. QED
  BY <1>1, TypeInvariant, PTL DEF Spec, PlacementScale
=============================================================================
