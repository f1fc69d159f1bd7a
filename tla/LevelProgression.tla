-------------------------- MODULE LevelProgression --------------------------
(***************************************************************************)
(* How one learner's user.level moves: placement_service and               *)
(* level_up_service as concurrent requests.  A GET draws problems and      *)
(* signs their ids into a token that only the client keeps; a submit       *)
(* presents a token, as often as it likes, and neither endpoint asks which *)
(* of the two drew it.  A request is one READ COMMITTED transaction over   *)
(* the user row that current_user read when the request began.             *)
(*                                                                         *)
(* Levels are numbered from 1.  Which problems answer which type is the    *)
(* constant Stock; an answer sheet is the set of problems answered right.  *)
(* discard_today_session, which submit_placement calls, is in StudyDay.    *)
(* Time is kept as ages: of a token up to its expiry, of an exam record up *)
(* to the end of the cooldown.  Requests are short against that unit.      *)
(*                                                                         *)
(* An operator marked "mutant" is a bug the code does not have.            *)
(***************************************************************************)
EXTENDS Integers, FiniteSets, FiniteSetsExt

CONSTANTS
    Req,            \* requests, each used once
    MaxActive,      \* requests in flight at once
    TopLevel,       \* Len(_LEVELS)
    GrammarLevels,  \* _GRAMMAR_LEVELS
    Problems,       \* problem ids
    Stock,          \* the problems of each level and type
    ExamPlan,       \* how many of each type an exam asks for
    MinStudied,     \* _MIN_STUDIED
    TokenLife,      \* _TOKEN_TTL_SEC
    Cooldown        \* _COOLDOWN_DAYS

None == "none"
Levels == 1..TopLevel
Types == {"MEANING", "READING", "GRAMMAR", "CONTEXT", "SYNONYM", "FILL"}

ASSUME LevelsAssumption ==
    TopLevel \in Nat \ {0} /\ GrammarLevels \subseteq Levels
ASSUME StockAssumption ==
    /\ IsFiniteSet(Problems)
    /\ Stock \in [Levels -> [Types -> SUBSET Problems]]
    /\ ExamPlan \in [Types -> Nat]
ASSUME BoundsAssumption ==
    /\ None \notin Req /\ MaxActive \in Nat /\ MinStudied \in Nat
    /\ TokenLife \in Nat /\ Cooldown \in Nat

VARIABLES
    user,     \* the user row
    records,  \* level_up_record, named by the request that inserted the row
    tokens,   \* the signed tokens clients hold, named by the GET that answered
    studied,  \* studied items of each level, counted up to MinStudied
    tx        \* the requests

vars == <<user, records, tokens, studied, tx>>

-----------------------------------------------------------------------------
User == [level: Levels, placed: BOOLEAN]
NewUser == [level |-> 1, placed |-> FALSE]

Record == [by: Req, from: Levels, to: Levels, passed: BOOLEAN, age: 0..Cooldown]
Exam == "exam"
Placement == "placement"
Token == [by: Req, kind: {Exam, Placement}, level: Levels,
          paper: SUBSET Problems, age: 0..TokenLife + 1]

(* seen: the user row as the request read it; token: the GET whose token is *)
(* presented; level: the level that will be written; locked: it has         *)
(* updated the user row.                                                    *)
Ended == {"ok", "rejected", "error"}
Pc == Ended \cup {"idle", "studied", "cooldown", "draw", "write", "commit"}
Tx == [pc: Pc, kind: {None, "exam", "exam submit", "placement submit", "skip"},
       seen: User, token: Req \cup {None}, passed: BOOLEAN, level: Levels,
       locked: BOOLEAN]
Idle == [pc |-> "idle", kind |-> None, seen |-> NewUser, token |-> None,
         passed |-> FALSE, level |-> 1, locked |-> FALSE]

TypeOK ==
    /\ user \in User
    /\ records \subseteq Record
    /\ tokens \subseteq Token
    /\ studied \in [Levels -> 0..MinStudied]
    /\ tx \in [Req -> Tx]

Init ==
    /\ user = NewUser
    /\ records = {}
    /\ tokens = {}
    /\ studied = [l \in Levels |-> 0]
    /\ tx = [r \in Req |-> Idle]

-----------------------------------------------------------------------------
(* Drawing problems.                                                       *)

(* get_problems_for_placement: ORDER BY random() LIMIT n.                  *)
Draws(l, type, n) ==
    LET S == Stock[l][type] IN kSubset(Min({n, Cardinality(S)}), S)

(* The draw of the first type that has any problem: the fallbacks of a      *)
(* missing type.                                                            *)
FirstStocked(l, types, n) ==
    LET has == {k \in DOMAIN types : Stock[l][types[k]] # {}}
    IN  IF has = {} THEN {{}} ELSE Draws(l, types[Min(has)], n)

GrammarOr(l) == IF l \in GrammarLevels THEN <<"GRAMMAR", "MEANING">>
                                       ELSE <<"MEANING">>

(* Up to five of a level, in four queries; one drawn twice is asked once.  *)
LevelPapers(l) ==
    {m \cup r \cup g \cup c : m \in Draws(l, "MEANING", 2),
                              r \in Draws(l, "READING", 1),
                              g \in FirstStocked(l, GrammarOr(l), 1),
                              c \in FirstStocked(l, <<"CONTEXT", "SYNONYM", "MEANING">>, 1)}

(* A placement paper asks every level that has any of these problems.      *)
PlacementPapers ==
    {UNION {drawn[l] : l \in Levels} :
        drawn \in {d \in [Levels -> UNION {LevelPapers(l) : l \in Levels}] :
                      \A l \in Levels : d[l] \in LevelPapers(l)}}

ExamPapers ==
    [l \in Levels |->
        {m \cup r \cup c \cup s \cup f \cup g :
            m \in Draws(l, "MEANING", ExamPlan["MEANING"]),
            r \in Draws(l, "READING", ExamPlan["READING"]),
            c \in Draws(l, "CONTEXT", ExamPlan["CONTEXT"]),
            s \in Draws(l, "SYNONYM", ExamPlan["SYNONYM"]),
            f \in Draws(l, "FILL", ExamPlan["FILL"]),
            g \in FirstStocked(l, GrammarOr(l), ExamPlan["GRAMMAR"])}]

-----------------------------------------------------------------------------
(* Marking.                                                                *)

OfLevel == [l \in Levels |-> UNION {Stock[l][type] : type \in Types}]

(* score >= _PASS_THRESHOLD, where right are the problems answered right:  *)
(* what was not submitted is wrong.                                        *)
ExamPassed(paper, right) == 10 * Cardinality(right) >= 7 * Cardinality(paper)

PassesLevel(l, paper, right) ==
    3 * Cardinality(right \cap OfLevel[l]) >= 2 * Cardinality(paper \cap OfLevel[l])

(* Mutant: the loop runs upwards and stops at the first level failed.      *)
StopAtFailure(paper, right) ==
    LET from[l \in 1..TopLevel + 1] ==
            IF l > TopLevel THEN TopLevel
            ELSE IF paper \cap OfLevel[l] # {} /\ ~PassesLevel(l, paper, right)
                 THEN l - 1
                 ELSE from[l + 1]
    IN  Max({from[1], 1})

(* The loop over reversed(_LEVELS): the first level asked and passed.      *)
compute_level(paper, right) ==
    LET down[l \in 0..TopLevel] ==
            IF l = 0 THEN 1
            ELSE IF paper \cap OfLevel[l] # {} /\ PassesLevel(l, paper, right)
                 THEN l
                 ELSE down[l - 1]
    IN  down[TopLevel]

(* What the answers to a paper can come to, at either endpoint.            *)
Papers == PlacementPapers \cup UNION {ExamPapers[l] : l \in Levels}
ExamMarks ==
    [paper \in Papers |-> {ExamPassed(paper, right) : right \in SUBSET paper}]
AssignableLevels ==
    [paper \in Papers |-> {compute_level(paper, right) : right \in SUBSET paper}]

-----------------------------------------------------------------------------
(* Transactions.                                                           *)

Running(r) == tx[r].pc \notin Ended \cup {"idle"}
UserLocked(r) == \E q \in Req \ {r} : tx[q].locked

Step(r, new) == tx' = [tx EXCEPT ![r] = new]
Close(r, outcome) == Step(r, [Idle EXCEPT !.pc = outcome])

Admitted(r) ==
    tx[r].pc = "idle" /\ Cardinality({q \in Req : Running(q)}) < MaxActive

Unwritten == UNCHANGED <<user, records, tokens, studied>>

(* current_user reads the row; the request works on this copy.             *)
Begin(r, kind, pc) ==
    Step(r, [Idle EXCEPT !.pc = pc, !.kind = kind, !.seen = user])

Fail(r) == Running(r) /\ Close(r, "error") /\ Unwritten

-----------------------------------------------------------------------------
(* GET /level-up/problems: check_eligibility, then the draw.               *)

HasNext(l) == l < TopLevel

BeginExam(r) ==
    /\ Admitted(r)
    /\ IF HasNext(user.level)
       THEN Begin(r, Exam, "studied")
       ELSE Close(r, "rejected")
    /\ Unwritten

(* Mutant: the count is not compared.                                      *)
SkipStudied(r) ==
    /\ tx[r].pc = "studied"
    /\ Step(r, [tx[r] EXCEPT !.pc = "cooldown"])
    /\ Unwritten

(* Rows of the current level whose state is not NEW.                       *)
ReadStudied(r) ==
    /\ tx[r].pc = "studied"
    /\ IF studied[tx[r].seen.level] < MinStudied
       THEN Close(r, "rejected")
       ELSE Step(r, [tx[r] EXCEPT !.pc = "cooldown"])
    /\ Unwritten

Cooling(l) == \E x \in records : x.from = l /\ x.age < Cooldown

(* Mutant: only an exam that was passed counts for the cooldown.           *)
PassedOnly(r) ==
    /\ tx[r].pc = "cooldown"
    /\ IF \E x \in records : x.from = tx[r].seen.level /\ x.age < Cooldown /\ x.passed
       THEN Close(r, "rejected")
       ELSE Step(r, [tx[r] EXCEPT !.pc = "draw"])
    /\ Unwritten

(* The latest record of the current level.                                 *)
ReadCooldown(r) ==
    /\ tx[r].pc = "cooldown"
    /\ IF Cooling(tx[r].seen.level)
       THEN Close(r, "rejected")
       ELSE Step(r, [tx[r] EXCEPT !.pc = "draw"])
    /\ Unwritten

Sign(r, kind, level, paper) ==
    IF paper = {} THEN UNCHANGED tokens
    ELSE tokens' = tokens \cup {[by |-> r, kind |-> kind, level |-> level,
                                 paper |-> paper, age |-> 0]}

IssueExam(r) ==
    /\ tx[r].pc = "draw"
    /\ \E paper \in ExamPapers[tx[r].seen.level] :
          /\ Sign(r, Exam, tx[r].seen.level, paper)
          /\ Close(r, IF paper = {} THEN "rejected" ELSE "ok")
    /\ UNCHANGED <<user, records, studied>>

(* GET /placement/problems reads content only, and asks nothing of the user. *)
IssuePlacement(r) ==
    /\ Admitted(r)
    /\ \E paper \in PlacementPapers :
          /\ Sign(r, Placement, 1, paper)
          /\ Close(r, IF paper = {} THEN "rejected" ELSE "ok")
    /\ UNCHANGED <<user, records, studied>>

-----------------------------------------------------------------------------
(* POST /level-up/submit and /placement/submit: a token that is still       *)
(* valid, with answers.  _verify_token looks at signature, user and expiry: *)
(* whether it was submitted before, which test and level it was drawn for   *)
(* and whether the learner is still eligible is not asked.                  *)

Valid(t) == t.age <= TokenLife

(* No answers, or a token that has expired.                                *)
RejectSubmit(r) ==
    /\ Admitted(r)
    /\ tokens # {}
    /\ Close(r, "rejected")
    /\ Unwritten

Submit(r, t, kind, passed, level) ==
    Step(r, [Idle EXCEPT !.pc = "write", !.kind = kind, !.seen = user,
                         !.token = t.by, !.passed = passed, !.level = level])

(* Mutants: a failed exam promotes as well; there is no highest level.     *)
Anyway(passed, level) == Min({level + 1, TopLevel})
Upwards(passed, level) == IF passed THEN level + 1 ELSE level

LevelAfter(passed, level) ==
    IF passed /\ HasNext(level) THEN level + 1 ELSE level

SubmitExam(r) ==
    /\ Admitted(r)
    /\ \E t \in {u \in tokens : Valid(u)} :
          \E passed \in ExamMarks[t.paper] :
              Submit(r, t, "exam submit", passed, LevelAfter(passed, user.level))
    /\ Unwritten

SubmitPlacement(r) ==
    /\ Admitted(r)
    /\ \E t \in {u \in tokens : Valid(u)} :
          \E level \in AssignableLevels[t.paper] :
              Submit(r, t, "placement submit", FALSE, level)
    /\ Unwritten

Skip(r) ==
    /\ Admitted(r)
    /\ Step(r, [Idle EXCEPT !.pc = "write", !.kind = "skip", !.seen = user,
                            !.level = user.level])
    /\ Unwritten

(* Mutant: the whole row is written, not the columns that changed.         *)
WriteRow(r) == TRUE

(* The flush updates only columns that differ from what was read.          *)
WritesLevel(r) == tx[r].level # tx[r].seen.level
WritesPlaced(r) ==
    tx[r].kind \in {"placement submit", "skip"} /\ ~tx[r].seen.placed

(* update_level and mark_placement_done: an UPDATE waits for the row.      *)
Write(r) ==
    /\ tx[r].pc = "write"
    /\ LET writes == WritesLevel(r) \/ WritesPlaced(r)
       IN  /\ writes => ~UserLocked(r)
           /\ Step(r, [tx[r] EXCEPT !.pc = "commit", !.locked = writes])
    /\ Unwritten

Commit(r) ==
    /\ tx[r].pc = "commit"
    /\ user' = [level |-> IF WritesLevel(r) THEN tx[r].level ELSE user.level,
                placed |-> user.placed \/ WritesPlaced(r)]
    /\ LET from == tx[r].seen.level
       IN  records' = IF tx[r].kind = "exam submit"
                      THEN records \cup {[by |-> r, from |-> from,
                                          to |-> Min({from + 1, TopLevel}),
                                          passed |-> tx[r].passed, age |-> 0]}
                      ELSE records
    /\ Step(r, [tx[r] EXCEPT !.pc = "ok", !.locked = FALSE])
    /\ UNCHANGED <<tokens, studied>>

-----------------------------------------------------------------------------
(* Another item of level l leaves the state NEW (schedule_next).           *)
Study(l) ==
    /\ studied[l] < MinStudied
    /\ studied' = [studied EXCEPT ![l] = @ + 1]
    /\ UNCHANGED <<user, records, tokens, tx>>

Tick ==
    /\ \A r \in Req : ~Running(r)
    /\ tokens' = {[t EXCEPT !.age = Min({@ + 1, TokenLife + 1})] : t \in tokens}
    /\ records' = {[x EXCEPT !.age = Min({@ + 1, Cooldown})] : x \in records}
    /\ UNCHANGED <<user, studied, tx>>

Next ==
    \/ \E r \in Req :
          \/ BeginExam(r) \/ ReadStudied(r) \/ ReadCooldown(r) \/ IssueExam(r)
          \/ IssuePlacement(r)
          \/ RejectSubmit(r) \/ SubmitExam(r) \/ SubmitPlacement(r) \/ Skip(r)
          \/ Write(r) \/ Commit(r) \/ Fail(r)
    \/ \E l \in Levels : Study(l)
    \/ Tick

Spec == Init /\ [][Next]_vars

-----------------------------------------------------------------------------
(* Properties.                                                             *)

Done(r, kind) == tx[r].pc = "ok" /\ tx[r].kind = kind
TokenOf(r) == CHOOSE t \in tokens : t.by = tx[r].token

(* The level changes only as a test means it to: a placement test assigns   *)
(* another one than it read, an exam that was passed gives the successor of *)
(* the one it read.  A skip, an exam that was failed and a test that        *)
(* confirms the level it read change nothing, however stale their copy of   *)
(* the row is by then (user_repo, study-flow.md "User.level").              *)
LevelMeant ==
    [][user'.level # user.level =>
          \E q \in Req :
             /\ tx[q].pc = "commit" /\ tx'[q].pc = "ok"
             /\ user'.level = tx[q].level /\ tx[q].level # tx[q].seen.level
             /\ \/ tx[q].kind = "placement submit"
                \/ /\ tx[q].kind = "exam submit" /\ tx[q].passed
                   /\ tx[q].level = tx[q].seen.level + 1]_user

(* Every level up to the learner's was given by a placement test or passed *)
(* in an exam: no exam skips a level, none that failed promotes            *)
(* (submit_level_up).                                                      *)
LadderClimbed ==
    \A l \in 2..user.level :
        \/ \E q \in Req : Done(q, "placement submit") /\ l <= tx[q].level
        \/ \E x \in records : x.passed /\ x.to = l

(* An exam at a level was taken by a learner who had studied enough of that *)
(* level, unless its token was drawn for another level or for a placement   *)
(* test (check_eligibility is not asked again by submit_level_up).          *)
PromotionStudied ==
    \A x \in records :
        LET t == TokenOf(x.by)
        IN  t.kind = Exam /\ t.level = x.from => studied[x.from] = MinStudied

(* A second exam within the cooldown of a first is by a token that is as    *)
(* old as the first exam, or was drawn for another level or for a placement *)
(* test.                                                                   *)
RetakeOnlyByOtherToken ==
    [][\A x \in records', y \in records :
          x.by \notin {z.by : z \in records} /\ x.from = y.from /\ y.age < Cooldown
             => LET t == TokenOf(x.by)
                IN  t.age >= y.age \/ t.level # x.from \/ t.kind = Placement]_records

(* The assigned level is the highest one that was asked and passed, and a   *)
(* learner who answers more problems right is not assigned a lower one,     *)
(* whichever test the paper was drawn for (compute_level).                  *)
RightScale(paper) ==
    \A right \in SUBSET paper :
        LET l == compute_level(paper, right)
            passed == {k \in Levels : /\ paper \cap OfLevel[k] # {}
                                     /\ PassesLevel(k, paper, right)}
        IN  /\ l = Max({1} \cup passed)
            /\ \A p \in paper : compute_level(paper, right \cup {p}) >= l
PlacementScale ==
    [][\A t \in tokens' \ tokens : RightScale(t.paper)]_tokens
=============================================================================
