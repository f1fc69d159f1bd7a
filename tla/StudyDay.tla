------------------------------ MODULE StudyDay ------------------------------
(***************************************************************************)
(* One learner's day as study_service sees it: requests that open today's  *)
(* session, record an attempt, extend the session, or submit a placement   *)
(* test, running concurrently.  A request is one database transaction      *)
(* (READ COMMITTED, one AsyncSession) that ends by commit or rollback.     *)
(* Every await between two statements is a point where another request     *)
(* may run, so each statement that reads or locks a row is an action.      *)
(*                                                                         *)
(* A transaction reads what is committed; what it has written is invisible *)
(* to the others but locks the row (tx[r].held, tx[r].locked): an UPDATE,  *)
(* DELETE or conflicting INSERT of a locked row waits.  The ORM computes a *)
(* new value from the row it read, however old that read is by then.       *)
(*                                                                         *)
(* An expired ORM instance that is touched outside a greenlet raises       *)
(* MissingGreenlet, and the request ends in a 500 ("error").  An operator  *)
(* marked "mutant" is a bug the code does not have: PROJECT.json puts it in *)
(* the place of the definition after it to see which property notices.     *)
(***************************************************************************)
EXTENDS StudyRows

VARIABLES
    log,     \* attempt_log: the requests whose row is committed
    rec,     \* review_record: one row per item
    totals,  \* user_profile.tag_stats and motivation_state.xp
    sess,    \* study_session of today
    pool,    \* content_item
    shown,   \* items whose problem some response, today's or earlier, has shown
    tx       \* the requests

vars == <<log, rec, totals, sess, pool, shown, tx>>

-----------------------------------------------------------------------------
(* A request's transaction: where it is, what it read, which rows it has   *)
(* written.  todo: items still to get_or_create; plan: items to be planned; *)
(* item: the item of the attempt, or the one being inserted; row, tags, xp, *)
(* open: the rows read; lost: a rollback threw away what was written before *)
(* it.                                                                     *)
Ended == {"ok", "error", "rejected"}
Pc == Ended \cup {"idle", "select", "insert", "schedule", "profile",
                  "profile insert", "motivation", "save", "session", "commit",
                  "reuse", "due", "new", "open", "extend", "extend new",
                  "generate", "extend commit", "place", "discard", "discarded"}

Tx == [pc: Pc, kind: Kinds \cup {None}, item: Items, ok: BOOLEAN,
       todo: SUBSET Items, plan: SUBSET Items, held: SUBSET Items, row: Row,
       locked: BOOLEAN, lost: BOOLEAN, tags: Nat, xp: Nat, open: Session]

AnyItem == CHOOSE i \in Items : TRUE
Blank == [pc |-> "idle", kind |-> None, item |-> AnyItem, ok |-> FALSE,
          todo |-> {}, plan |-> {}, held |-> {}, row |-> NoRow,
          locked |-> FALSE, lost |-> FALSE, tags |-> 0, xp |-> 0,
          open |-> NoSession]

TypeOK ==
    /\ log \subseteq Req
    /\ rec \in [Items -> Row]
    /\ totals \in Totals
    /\ sess \in Session
    /\ pool \subseteq Items
    /\ shown \subseteq Items
    /\ tx \in [Req -> Tx]

Init ==
    /\ log = {}
    /\ rec = [i \in Items |-> IF i \in Studied THEN [by |-> Before, reps |-> 1]
                                               ELSE NoRow]
    /\ totals = [made |-> ~FirstDay, tags |-> 0, xp |-> 0]
    /\ sess = NoSession
    /\ pool = InitialPool
    /\ shown = Studied
    /\ tx = [r \in Req |-> Blank]

-----------------------------------------------------------------------------
(* Transactions.                                                           *)

Active(r) == tx[r].pc \notin Ended \cup {"idle"}
At(r, pc) == tx[r].pc = pc

RowLocked(r, i) == \E q \in Req \ {r} : i \in tx[q].held
TotalsLocked(r) == \E q \in Req \ {r} : tx[q].locked

(* r waits for a row that q has locked.                                    *)
WaitsFor(r, q) ==
    /\ q # r
    /\ \/ tx[r].pc \in {"insert", "schedule"} /\ tx[r].item \in tx[q].held
       \/ tx[r].pc \in {"profile insert", "save"} /\ tx[q].locked
       \/ At(r, "discard") /\ \E i \in tx[r].open.planned \cap tx[q].held : IsNew(rec[i])
Circle(S) == S # {} /\ \A r \in S : \E q \in S : WaitsFor(r, q)

Step(r, new) == tx' = [tx EXCEPT ![r] = new]

(* Mutant: the session is not closed, and its locks stay.                  *)
LeakyClose(r, outcome) == Step(r, [tx[r] EXCEPT !.pc = outcome])

(* The transaction ends, releasing its locks; the ORM session is closed.   *)
Close(r, outcome) ==
    Step(r, [tx[r] EXCEPT !.pc = outcome, !.todo = {}, !.plan = {}, !.held = {},
                          !.row = NoRow, !.locked = FALSE, !.tags = 0, !.xp = 0,
                          !.open = NoSession])

Unwritten == UNCHANGED <<log, rec, totals, sess, pool, shown>>

Rollback(r, outcome) == Close(r, outcome) /\ Unwritten

(* review_record after r commits: an attempt writes reps + 1 over what it  *)
(* read, a placement deletes, the others insert NEW rows.                  *)
Written(r) ==
    CASE tx[r].kind = "attempt" -> [tx[r].row EXCEPT !.reps = @ + 1]
      [] tx[r].kind = "place" -> NoRow
      [] OTHER -> NewRow(r)
Committed(r) == [i \in Items |-> IF i \in tx[r].held THEN Written(r) ELSE rec[i]]

(* Any request may die with its transaction: the process restarts or the   *)
(* connection is lost.                                                     *)
Fail(r) == Active(r) /\ Rollback(r, "error")

(* PostgreSQL aborts one of the transactions that wait in a circle.        *)
AbortDeadlock(r) == Fail(r) /\ \E S \in SUBSET Req : r \in S /\ Circle(S)

-----------------------------------------------------------------------------
(* A request arrives.                                                      *)

Begin(r, kind, pc) ==
    /\ At(r, "idle")
    /\ kind \in Kinds
    /\ Cardinality({q \in Req : Active(q)}) < MaxActive
    /\ Step(r, [Blank EXCEPT !.pc = pc, !.kind = kind])
    /\ Unwritten

BeginBuild(r) == Begin(r, "build", "reuse")
BeginExtend(r) == Begin(r, "extend", "extend")
BeginPlace(r) == Begin(r, "place", "place")

(* record_attempt up to the attempt_log INSERT, which nothing contends for. *)
BeginAttempt(r) ==
    /\ At(r, "idle")
    /\ "attempt" \in Kinds
    /\ Cardinality({q \in Req : Active(q)}) < MaxActive
    /\ \E i \in shown, correct \in BOOLEAN :
          Step(r, [Blank EXCEPT !.pc = "select", !.kind = "attempt", !.item = i,
                                !.ok = correct, !.todo = {i}])
    /\ Unwritten

-----------------------------------------------------------------------------
(* review_repo.get_or_create, for each item of todo in the order of the    *)
(* query: that of created_at, any among items that share it.               *)

AfterRows(kind) ==
    CASE kind = "attempt" -> "schedule"
      [] kind = "build" -> "open"
      [] OTHER -> "extend commit"

NextRow(kind, todo) == IF todo = {} THEN AfterRows(kind) ELSE "select"

GotRow(r, i, row, held) ==
    LET todo == tx[r].todo \ {i}
    IN  Step(r, [tx[r] EXCEPT !.todo = todo, !.held = held,
                     !.row = IF tx[r].kind = "attempt" THEN row ELSE @,
                     !.pc = NextRow(tx[r].kind, todo)])

Select(r, i) ==
    /\ At(r, "select")
    /\ IF Exists(rec[i])
       THEN GotRow(r, i, rec[i], tx[r].held)
       ELSE Step(r, [tx[r] EXCEPT !.pc = "insert", !.item = i])
    /\ Unwritten

(* Mutant: the new items have no order.                                    *)
SelectAnyRow(r) == \E i \in tx[r].todo : Select(r, i)

SelectRow(r) == \E i \in First(tx[r].todo) : Select(r, i)

(* A conflict rolls the whole request back and expires every instance it   *)
(* loaded: the caller then touches problem.tags, ci.id or user.id.         *)
InsertRow(r) ==
    /\ At(r, "insert")
    /\ LET i == tx[r].item
       IN  /\ ~RowLocked(r, i)
           /\ IF Exists(rec[i])
              THEN Close(r, "error")
              ELSE GotRow(r, i, NewRow(r), tx[r].held \cup {i})
    /\ Unwritten

-----------------------------------------------------------------------------
(* build_today_session.                                                    *)

Reuse(r) ==
    /\ At(r, "reuse")
    /\ IF Exists(sess)
       THEN Close(r, "ok") /\ shown' = shown \cup sess.planned
       ELSE Step(r, [tx[r] EXCEPT !.pc = "due"]) /\ UNCHANGED shown
    /\ UNCHANGED <<log, rec, totals, sess, pool>>

(* due_today: a NEW row is due at once; which studied rows are due depends *)
(* on the clock and on FSRS.                                               *)
ReadDue(r) ==
    /\ At(r, "due")
    /\ \E due \in SUBSET {i \in Items : Exists(rec[i])} :
          /\ {i \in Items : IsNew(rec[i])} \subseteq due
          /\ Step(r, [tx[r] EXCEPT !.pc = "new", !.plan = due])
    /\ Unwritten

Fresh == {i \in pool : ~Exists(rec[i])}

ReadNew(r) ==
    /\ At(r, "new")
    /\ \E new \in Oldest(Fresh, Slots(tx[r].plan)) :
          Step(r, [tx[r] EXCEPT !.todo = new, !.plan = @ \cup new,
                                !.pc = NextRow("build", new)])
    /\ Unwritten

(* The session INSERT and the commit.  The unique (user_id, date) makes a  *)
(* second session an uncaught IntegrityError.                              *)
OpenSession(r) ==
    /\ At(r, "open")
    /\ IF Exists(sess)
       THEN Close(r, "error") /\ UNCHANGED <<rec, sess, shown>>
       ELSE /\ sess' = [by |-> r, planned |-> tx[r].plan \cap HasProblem,
                        done |-> {}]
            /\ rec' = Committed(r)
            /\ shown' = shown \cup sess'.planned
            /\ Close(r, "ok")
    /\ UNCHANGED <<log, totals, pool>>

-----------------------------------------------------------------------------
(* record_attempt, from the review row on.                                 *)

(* Mutant: schedule_next commits the row itself.                           *)
ScheduleNow(r) ==
    /\ At(r, "schedule")
    /\ LET i == tx[r].item
       IN  /\ ~RowLocked(r, i)
           /\ rec' = [rec EXCEPT ![i] = Written(r)]
           /\ Step(r, [tx[r] EXCEPT !.pc = "profile", !.held = {i}])
    /\ UNCHANGED <<log, totals, sess, pool, shown>>

(* schedule_next: UPDATE review_record and flush.  A row deleted since it  *)
(* was read matches nothing: StaleDataError.                               *)
Schedule(r) ==
    /\ At(r, "schedule")
    /\ LET i == tx[r].item
       IN  /\ ~RowLocked(r, i)
           /\ IF i \in tx[r].held \/ rec[i].by = tx[r].row.by
              THEN Step(r, [tx[r] EXCEPT !.pc = "profile", !.held = {i}])
              ELSE Close(r, "error")
    /\ Unwritten

(* weakness_service.record_attempt: user_profile_repo.get_or_create, then  *)
(* the tag counters in memory.                                             *)
ReadProfile(r) ==
    /\ At(r, "profile")
    /\ Step(r, IF totals.made
               THEN [tx[r] EXCEPT !.pc = "motivation", !.tags = totals.tags]
               ELSE [tx[r] EXCEPT !.pc = "profile insert"])
    /\ Unwritten

(* A conflict rolls back the attempt_log row and the review_record UPDATE  *)
(* of this request; the request goes on in a new transaction.              *)
InsertProfile(r) ==
    /\ At(r, "profile insert")
    /\ ~TotalsLocked(r)
    /\ Step(r, IF totals.made
               THEN [tx[r] EXCEPT !.pc = "motivation", !.tags = totals.tags,
                                  !.held = {}, !.lost = TRUE]
               ELSE [tx[r] EXCEPT !.pc = "motivation", !.locked = TRUE])
    /\ Unwritten

(* motivation_service.record_attempt reads xp (or inserts the row, which   *)
(* only the request that inserted the profile can need to).                *)
ReadMotivation(r) ==
    /\ At(r, "motivation")
    /\ Step(r, [tx[r] EXCEPT !.pc = "save", !.xp = totals.xp])
    /\ Unwritten

(* Mutant: motivation_service commits on its own.                          *)
SaveNow(r) ==
    /\ At(r, "save")
    /\ ~TotalsLocked(r)
    /\ totals' = [made |-> TRUE, tags |-> tx[r].tags + 1,
                  xp |-> tx[r].xp + XP(tx[r].ok)]
    /\ Step(r, [tx[r] EXCEPT !.pc = "session"])
    /\ UNCHANGED <<log, rec, sess, pool, shown>>

(* motivation_repo.save: the flush writes both user rows.                  *)
Save(r) ==
    /\ At(r, "save")
    /\ ~TotalsLocked(r)
    /\ Step(r, [tx[r] EXCEPT !.pc = "session", !.locked = TRUE])
    /\ Unwritten

ReadSession(r) ==
    /\ At(r, "session")
    /\ Step(r, [tx[r] EXCEPT !.pc = "commit", !.open = sess])
    /\ Unwritten

(* Mutants of CommitAttempt: the item, not the attempt, is appended; XP is *)
(* earned only inside a session; the stale session object is merged back.  *)
CommitWith(r, done, totalsAfter, open) ==
    /\ At(r, "commit")
    /\ log' = log \cup {r}
    /\ rec' = Committed(r)
    /\ totals' = totalsAfter
    /\ sess' = IF Exists(open) THEN [open EXCEPT !.done = @ \cup {done}] ELSE sess
    /\ Close(r, "ok")
    /\ UNCHANGED <<pool, shown>>
Credited(r) == [made |-> TRUE, tags |-> tx[r].tags + 1,
                xp |-> tx[r].xp + XP(tx[r].ok)]
AppendItem(r) == CommitWith(r, tx[r].item, Credited(r), sess)
EarnInSession(r) ==
    CommitWith(r, r, IF Exists(sess) THEN Credited(r)
                     ELSE [Credited(r) EXCEPT !.xp = tx[r].xp], sess)
MergeSession(r) == CommitWith(r, r, Credited(r), tx[r].open)

(* add_completed and the commit, which flushes it.  After a rollback the   *)
(* commit succeeds, and the response then fails on the expired record.     *)
CommitAttempt(r) ==
    /\ At(r, "commit")
    /\ IF Exists(tx[r].open) /\ sess.by # tx[r].open.by
       THEN Rollback(r, "error")
       ELSE /\ log' = IF tx[r].lost THEN log ELSE log \cup {r}
            /\ rec' = Committed(r)
            /\ totals' = [made |-> TRUE, tags |-> tx[r].tags + 1,
                          xp |-> tx[r].xp + XP(tx[r].ok)]
            /\ sess' = IF Exists(tx[r].open)
                       THEN [sess EXCEPT !.done = tx[r].open.done \cup {r}]
                       ELSE sess
            /\ Close(r, IF tx[r].lost THEN "error" ELSE "ok")
            /\ UNCHANGED <<pool, shown>>

-----------------------------------------------------------------------------
(* extend_today_session.                                                   *)

ReadExtend(r) ==
    /\ At(r, "extend")
    /\ IF Exists(sess)
       THEN Step(r, [tx[r] EXCEPT !.pc = "extend new", !.open = sess])
       ELSE Close(r, "rejected")
    /\ Unwritten

(* Mutant: the new items get no review row.                                *)
AdoptUnseen(r, new) ==
    Step(r, [tx[r] EXCEPT !.plan = new, !.pc = "extend commit"])

Adopt(r, new) ==
    Step(r, [tx[r] EXCEPT !.todo = new, !.plan = new,
                          !.pc = NextRow("extend", new)])

ReadExtra(r) ==
    /\ At(r, "extend new")
    /\ \E new \in Oldest(Fresh, Extra) :
          IF new = {} THEN Step(r, [tx[r] EXCEPT !.pc = "generate"])
                      ELSE Adopt(r, new)
    /\ Unwritten

(* generate_vocabulary saves its items and commits; nothing it returns     *)
(* ends the request with no_more_content.  One item stands for a batch.    *)
Generate(r) ==
    /\ At(r, "generate")
    /\ \/ Close(r, "rejected") /\ UNCHANGED pool
       \/ \E i \in Items \ pool : Adopt(r, {i}) /\ pool' = pool \cup {i}
    /\ UNCHANGED <<log, rec, totals, sess, shown>>

(* planned_problem_ids is rewritten from the list read at the start; an    *)
(* unchanged list is no UPDATE.                                            *)
CommitExtend(r) ==
    /\ At(r, "extend commit")
    /\ LET added == tx[r].plan \cap HasProblem
       IN  IF added # {} /\ sess.by # tx[r].open.by
           THEN Rollback(r, "error")
           ELSE /\ sess' = IF added = {} THEN sess
                           ELSE [sess EXCEPT !.planned = tx[r].open.planned \cup added]
                /\ rec' = Committed(r)
                /\ shown' = shown \cup tx[r].open.planned \cup added
                /\ Close(r, "ok")
                /\ UNCHANGED <<log, totals, pool>>

-----------------------------------------------------------------------------
(* submit_placement: discard_today_session.                                *)

ReadPlace(r) ==
    /\ At(r, "place")
    /\ IF Exists(sess)
       THEN Step(r, [tx[r] EXCEPT !.pc = "discard", !.open = sess])
       ELSE Close(r, "ok")
    /\ Unwritten

(* Mutants of Discard: studied rows go too; the DELETE does not wait.      *)
DiscardRows(r, rows) == /\ At(r, "discard")
                        /\ Step(r, [tx[r] EXCEPT !.pc = "discarded", !.held = rows])
                        /\ Unwritten
DiscardStudied(r) == DiscardRows(r, tx[r].open.planned)
DiscardAtOnce(r) == DiscardRows(r, {i \in tx[r].open.planned : IsNew(rec[i])})

(* delete_new_records_for_items: the DELETE waits for a locked row and     *)
(* looks at it again once it is free.                                      *)
Discard(r) ==
    /\ At(r, "discard")
    /\ LET unstudied == {i \in tx[r].open.planned : IsNew(rec[i])}
       IN  /\ \A i \in unstudied : ~RowLocked(r, i)
           /\ Step(r, [tx[r] EXCEPT !.pc = "discarded", !.held = unstudied])
    /\ Unwritten

CommitPlace(r) ==
    /\ At(r, "discarded")
    /\ sess' = IF sess.by = tx[r].open.by THEN NoSession ELSE sess
    /\ rec' = Committed(r)
    /\ Close(r, "ok")
    /\ UNCHANGED <<log, totals, pool, shown>>

-----------------------------------------------------------------------------
Advance(r) ==
    \/ SelectRow(r) \/ InsertRow(r)
    \/ Reuse(r) \/ ReadDue(r) \/ ReadNew(r) \/ OpenSession(r)
    \/ Schedule(r) \/ ReadProfile(r) \/ InsertProfile(r) \/ ReadMotivation(r)
    \/ Save(r) \/ ReadSession(r) \/ CommitAttempt(r)
    \/ ReadExtend(r) \/ ReadExtra(r) \/ Generate(r) \/ CommitExtend(r)
    \/ ReadPlace(r) \/ Discard(r) \/ CommitPlace(r)
    \/ AbortDeadlock(r)

Arrive(r) == BeginBuild(r) \/ BeginAttempt(r) \/ BeginExtend(r) \/ BeginPlace(r)

Next == \E r \in Req : Arrive(r) \/ Advance(r) \/ Fail(r)

Spec == Init /\ [][Next]_vars

(* The event loop resumes every handler whose statement the database has   *)
(* answered, if only to refuse it; a learner need not send anything.       *)
FairSpec == Spec /\ \A r \in Req : WF_vars(Advance(r))

-----------------------------------------------------------------------------
(* Properties.                                                             *)

AttemptsOn(i) == {q \in log : tx[q].item = i}
Earned == 10 * Cardinality({q \in log : tx[q].ok})
           + 2 * Cardinality({q \in log : ~tx[q].ok})

(* An attempt in the log has left its mark on the schedule: its item has a *)
(* review row that is no longer NEW, whatever ran beside it (record_attempt *)
(* against delete_new_records_for_items and get_or_create).                *)
LoggedIsStudied == \A q \in log : rec[tx[q].item].reps > 0

(* reps never counts a review that is not in attempt_log; racing attempts  *)
(* on an item may lose a count, never invent one (schedule_next).          *)
RepsBackedByLog ==
    \A i \in Items :
        rec[i].reps <= Cardinality(AttemptsOn(i)) + (IF i \in Studied THEN 1 ELSE 0)

(* Nothing is credited without a logged attempt: completed problems, tag   *)
(* counters and XP (docs/architecture/study-flow.md, POST /study/attempts). *)
DoneIsLogged == sess.done \subseteq log
CreditBackedByLog ==
    /\ DoneIsLogged
    /\ totals.tags <= Cardinality(log)
    /\ totals.xp <= Earned

(* Every logged attempt earned its XP (motivation_service.record_attempt). *)
EveryAttemptEarns == totals.xp = Earned

(* A planned problem's item has a review row, so that the item is never    *)
(* offered as new again (study-flow.md, invariant 4).  A build that read   *)
(* the queue before a placement test deleted its rows escapes this.        *)
PlacementTaken == \E q \in Req : tx[q].kind = "place" /\ At(q, "ok")
PlannedHasRow == PlacementTaken \/ \A i \in sess.planned : Exists(rec[i])

(* Two requests that both find no session do not replace each other's, and *)
(* none that overlap lose both lists of one: an attempt rewrites the        *)
(* completed problems and leaves the planned ones, an extension the reverse *)
(* (add_completed, extend_today_session).  Of its own list each rewrites    *)
(* what it read, so that two attempts may lose one of the two.             *)
SessionKept ==
    [][Exists(sess) /\ Exists(sess') =>
         /\ sess'.by = sess.by
         /\ sess'.planned = sess.planned \/ sess'.done = sess.done]_sess

(* Requests wait for each other in a circle only where created_at leaves    *)
(* the order open: one of them waits to insert the row of an item that is   *)
(* as old as one whose row it holds.  Rows are inserted in the order of     *)
(* created_at, an attempt takes the user rows after its one review row, and *)
(* a placement test waits before it holds any.                             *)
CirclesAreTies ==
    \A S \in SUBSET {r \in Req : Active(r)} :
        Circle(S) => \E r \in S : /\ At(r, "insert")
                                   /\ \E h \in tx[r].held : Created[h] = Created[tx[r].item]

(* No request waits for ever on the locks of the others: circles are       *)
(* broken, and nothing else holds a lock for good.                         *)
EveryRequestEnds == \A r \in Req : Active(r) ~> ~Active(r)

(* One request at a time, the code keeps the ledger's promise.             *)
Ledger == INSTANCE StudyLedger
              WITH log <- {[req |-> q, item |-> tx[q].item, ok |-> tx[q].ok] : q \in log}
ImplementsLedger == Ledger!Spec
=============================================================================
