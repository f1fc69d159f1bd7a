# LingoLab (study-lang): TLA+ models and proofs

TLA+ specifications of the LingoLab backend (FastAPI, SQLAlchemy async,
PostgreSQL) and of the parts of its Next.js client that keep state.
Paths below are relative to the repository; `app/` is `backend/app/`.

Run a model: `tlc -config study_concurrent.cfg MCStudyDay.tla`. Check the
proofs: `tlapm StudyDay_proofs.tla`. `PROJECT.json` lists runs, theorems,
hazards, findings, and the source lines behind every definition.

## 1. The system

| Component | State it keeps | Operations | What makes it correct |
|---|---|---|---|
| Study service (`app/services/study_service.py`) | `study_session` (one per user and day), `attempt_log`, through the repositories `review_record` | `build_today_session`, `record_attempt`, `extend_today_session`, `discard_today_session` | one session a day that is only ever added to; an attempt's effects stand or fall together; a planned item has a review row |
| SRS (`srs_service.py`) | `review_record`: reps, lapses, state, due date | `determine_rating`, `schedule_next`, `get_due_today` | a row never claims a review that was not logged; a studied row is not NEW |
| Motivation (`motivation_service.py`) | `motivation_state`: xp, level, streak, week | `record_attempt`, `get_state` | every attempt earns; level is a function of xp; streak and week boundaries |
| Weakness (`weakness_service.py`) | `user_profile.tag_stats` | `record_attempt`, `get_weak_tags` | counters backed by the log |
| Auth (`auth_service.py`, `core/security.py`) | `refresh_token`, `user` | register, login, refresh (rotation), logout | a rotated token is revoked; revocation is final; an ended family stays ended |
| Placement (`placement_service.py`) | `user.level`, `placement_done`; a signed token held by the client | problems, submit, skip | the highest level asked and passed, whatever else writes the level; the old session goes |
| Level-up (`level_up_service.py`) | `user.level`, `level_up_record`; a signed token | eligibility, problems, submit | one level at a time, only by passing; cooldown, 30 studied items |
| Content and generation (`content_service.py`, `generation_service.py`) | `content_item`, `problem` | pool lookup, LLM generation, seed fallback | enough items, no seed twice, wrong options that are wrong |
| Worker (`workers/content_pregen.py`) | none of its own | periodic generation below `POOL_MIN` | adds what is missing and stops there |
| Scripts (`backend/scripts`) | none of their own | `seed_content`, `enrich_mcq_meaning` | may run again, and beside the server |
| Planning (`build_today_session`, `due_today`, FSRS) | `review_record` over many days | plan, answer, midnight | each problem once; new items keep coming |
| Client auth (`frontend/src/lib`) | access token, two in-flight promises; the cookie in the browser | request with retry, bootstrap, logout | one refresh at a time; a valid session is not lost |
| Study screen (`frontend/src/features/study`) | index, query cache | next, extend, submit | passes each planned problem once |
| Migration, config, schemas, health | none that changes while requests run | | not modelled |

How they interact. Every HTTP request has one `AsyncSession` and one
transaction (READ COMMITTED, autoflush off, `expire_on_commit=False`); services
call each other inside it, so that the components meet in shared rows:
`record_attempt` writes `attempt_log`, `review_record`, `user_profile`,
`motivation_state` and `study_session`; `submit_placement` writes `user`, deletes
the session and its unstudied `review_record`s; `extend_today_session` may call
the LLM and commits the new `content_item`s before its own rows. Nothing locks
rows explicitly; what protects them is unique constraints, row locks that writes
take, and re-reading. Three repositories have a `get_or_create` that answers an
insert conflict with `db.rollback()`, which throws away everything the request
has flushed.

What is hard: every `await` between two statements lets other requests run;
values are computed from rows read earlier; rollbacks inside helpers; crash
between flush and commit; client retries of answers that were lost. `hazards` in
PROJECT.json lists each at its line. The repository has no tests.

## 2. What is modelled

### The study day: StudyRows, StudyDay, StudyLedger

`StudyDay` is one learner's day. `tx[r]` is request r's transaction: the
statement it is about to run (`pc`), the rows it has read (`row`, `tags`, `xp`,
`open`), the rows it has written and so locked (`held`, `locked`). The other
variables are the committed rows: `log` (attempt_log), `rec` (review_record, with
the request that inserted a row as its identity), `totals` (tag counters and XP),
`sess` (today's study_session), `pool` (content_item), and `shown`, what clients
have seen and may answer. Constants and row types are in `StudyRows`.

| Action | Code |
|---|---|
| `BeginBuild`, `Reuse`, `ReadDue`, `ReadNew`, `OpenSession` | `build_today_session` |
| `BeginAttempt`, `Schedule`, `ReadProfile`, `InsertProfile`, `ReadMotivation`, `Save`, `ReadSession`, `CommitAttempt` | `record_attempt` and the services it calls |
| `BeginExtend`, `ReadExtend`, `ReadExtra`, `Generate`, `CommitExtend` | `extend_today_session` |
| `BeginPlace`, `ReadPlace`, `Discard`, `CommitPlace` | `submit_placement` from `discard_today_session` on |
| `SelectRow`, `InsertRow` | `review_repo.get_or_create`, used by the first three |
| `Fail`, `AbortDeadlock` | restart or lost connection at any statement; PostgreSQL ends a request that waits in a circle |

A statement that reads or locks is an action; statements nothing contends for are
part of the action beside them. A blocked write is a guard (`RowLocked`,
`TotalsLocked`). After a rollback in a helper, the code touches an expired
instance and ends in a 500 (`MissingGreenlet`); only the profile's rollback lets
the request go on to its commit (`InsertProfile`, `lost`).

Abstracted: an item stands for the problem drawn for it; `tag_stats` is one
counter; `user.level`, the lock on the `user` row in a placement test, the 40-row
limit of `due_today` and ratings are left out; which studied rows are due is any
choice, while NEW rows always are, as `next_due_at` defaults to now.
`CommitExtend` and `CommitPlace` treat the ORM's flush and commit as one step.
An attempt names an item that some response, today's or an earlier day's, has
shown; its problem exists.

Items are ordered by `created_at` (`Created`), which is `server_default=now()`: all
rows that one transaction inserts share it (a seed script, a batch of the LLM), and
`get_new_content_items` orders by nothing else. So `Oldest` is the set of results
that the query may return, and requests insert the rows of such items in any order
(`First`, `SelectRow`).

`StudyLedger` says what the day promises, with atomic requests: an attempt is
logged, scheduled, credited and counted together, and so on. `ImplementsLedger`
maps the detailed rows to it.

### Refresh-token rotation: RefreshRotation, AuthSessions

`RefreshRotation` is `auth_service` over `refresh_token`. `token[r]` is the row
that request r inserted; a family is named by the login that started it. `tx[r]`
holds the presented token (`shown`), the rows the family UPDATE saw when it began
(`targets`) and those it has updated (`held`). Any issued token may be presented
by any number of requests, in any order, which covers tabs that share a cookie,
retries and lost responses.

| Action | Code |
|---|---|
| `BeginRegister`, `CreateUser` | `register`: the check, then the insert and the commit |
| `Login` | `login` with the right password |
| `BeginRefresh`, `ReadToken`, `Revoke`, `Commit` | `refresh`, steps 1, 4-5, 7 |
| `BeginLogout`, `ScanFamily`, `LockFamily`, `Commit` | `logout`, and `refresh` when it detects a reuse |
| `Expire` | time passes the token's lifetime |

`ScanFamily` and `LockFamily` are one UPDATE: it sees the rows committed when it
starts, waits for those that are locked, and looks at them again. The rows are
locked together: all such UPDATEs use one index order, so that they cannot hold
parts of a family against each other. Left out, as no request gets there: a
hash mismatch, a token without a row, a deleted user (no endpoint deletes one),
and the reason "manual" of that branch.

`AuthSessions` is the promise of `docs/auth-flow.md`: a session has one current
token, which a refresh replaces, and an end is final.

`AuthClient` puts the browser in front of it: tabs with their `AuthState` (`tab`),
the cookie they share (`jar`), and the calls on their way (`calls`), each holding
the cookie it was sent with and the promise that waits for it.

| Action | Code |
|---|---|
| `Boot`, `Refresh` | `authBootstrap`, `refreshOnce`: one call per tab and promise, later callers join |
| `SignIn`, `Logout` | the forms, which do not wait for the bootstrap; `authLogout` |
| `Arrive`, `Serve` | the route calls `auth_service`: the actions of RefreshRotation |
| `Answer` | the response, its Set-Cookie, and what AuthProvider does with it |
| `Vanish`, `Drop` | the call, or its answer, is lost |
| `Reload` | the page goes; its calls do not |

A refused refresh leaves the cookie: `_clear_refresh_cookie(response)` writes to a
response that the `HTTPException` raised after it replaces, although the comment
there (routes/auth.py:124) counts on it. A logout that fails leaves the tab signed
in. The access token is left out: every API call may find it expired. `doubt` is a
history variable: the families in which an answer was lost, or whose cookie two
callers presented at once that do not wait for the same promise: two tabs, or the
bootstrap and a refresh of one (`Sharing`). Two refreshes of one tab do not count,
as `inflightRefresh` is there to join them.

### The learner's level: LevelProgression

Placement test and level-up exam as concurrent transactions over one `user` row.
`tx[r].seen` is the row `current_user` read; `tokens` are the signed papers clients
hold, with their age; `records` is `level_up_record`.

| Action | Code |
|---|---|
| `BeginExam`, `ReadStudied`, `ReadCooldown`, `IssueExam` | `get_level_up_problems` with `check_eligibility` |
| `IssuePlacement` | `get_placement_problems` |
| `SubmitExam`, `SubmitPlacement`, `RejectSubmit` | `submit_level_up`, `submit_placement` up to the writes |
| `Skip` | `skip_placement` |
| `Write`, `Commit` | `update_level`, `mark_placement_done`, the flush (only columns that changed) and the commit |
| `Study`, `Tick` | a studied item of a level; time |

`compute_level`, the papers that may be drawn (`LevelPapers`, `ExamPapers`) and the
marking are functions. A token says which problems were drawn for whom and until
when, and no more: `_verify_token`, which both endpoints use, accepts a placement
token for an exam and an exam token for a placement test (`Valid`), marked by the
rules of the endpoint it is presented to. Ages stop counting at the expiry and at
the end of the cooldown.

### The pool: ProblemBank, ContentPool

`ProblemBank` has the pure part: which problems an entry gets from the LLM path and
from the seed files, and which wrong options `_select_distractors` (the same
function in three services) may show. `ContentPool` has the processes that add rows:

| Action | Code |
|---|---|
| `BeginGet`, `ReadPool`, `ReadSeeds`, `SaveSeeds` | `get_or_generate`, `_save_seed_items` |
| `AddItem`, `SaveBatch`, `LLMFails` | `generate_vocabulary`, for a request or for the worker |
| `StartWorker` | `_pregen_task`: statistics read once, batches planned from them |
| `StartScript`, `SaveScript` | `seed_content` |
| `StartEnrich`, `EnrichOne`, `FinishEnrich` | `enrich_mcq_meaning --upgrade` |
| `Fail` | a process stops |

Seen while modelling: without `--upgrade` the enrichment script finds nothing, as
`create_problem` stores a missing JSONB value as JSON `null` and the query asks for
`IS NULL`; `_save_seed_items` stores N5 words under any level and without problems,
and `seed_content` passes over those words afterwards, so that they never get any; a
synonym question may have two right answers; `get_or_generate` may return a word
twice; a grammar seed whose `wrong_patterns` repeat its own blank is stored as it is
(none of the present files has one). `beside[p]` is a history variable: who was
seeding when p read the seeds.

### Many days: LearnerDays

One learner, his queue, streak and week over days, and his study screen. Requests
are atomic here; StudyDay has their insides.

| Action | Code |
|---|---|
| `Fetch`, `Refreshed`, `FetchFails` | `useStudySession`: `build_today_session` answers, the response arrives, or an error replaces the screen |
| `Open`, `Leave`, `Forget` | `SessionInner` mounts with the cached session, or goes; the cache entry expires |
| `Answer` | `handleNext`: the index moves on at once |
| `Deliver`, `Lose` | `record_attempt` runs, whenever the answer arrives; the mutation fails |
| `Extend`, `ExtendGenerated` | `extend_today_session`, from the pool or by the LLM |
| `Extended`, `ExtendFails` | its response replaces the cached session, or is lost |
| `Pregenerate`, `Midnight` | the worker, another learner's request or a fallback seed adds an item; the date changes |

A request counts when the server acts on it; what it answered (`Response`) is on its
way in `fetched` or `more` and may arrive in either order, so that a refetch may put
back a session without the extension. One fetch is waited for at a time (a query
replaces the one before it) and one extension (the button is disabled). Items with
one `created_at` come by number here; no property depends on which.

py-fsrs is external: `NextState`, `Graduates`, `DueDays` say which states and days
its `review_card` may answer for a card rebuilt by `_record_to_card`. That card is
always at step 0, so "Good" never graduates a learning card, although
docs/srs-algorithm.md:29 has it graduate and line 24 rates every right answer "Good"
for a learner with fewer than ten: run `study_graduation`.
Seeds of the fallback list have no problem: their rows stay NEW and due, and ten of
them take every new slot (`StuckTakeSlots`). `GET /motivation` shows the old streak
after a gap until the next attempt. `smooth` is a history variable: no answer of
this session was lost or late, and no screen was opened on a stale session.

## 3. What the runs show

| Run | Question | Bounds |
|---|---|---|
| `study_concurrent` | is what a returning learner's day records consistent under concurrency? when do requests wait for each other in a circle? does every request end? | 3 requests of all kinds, all at once; 5 items: 1 studied, 3 new ones, of which 2 share `created_at` and 1 has no problem, and 1 that only generation adds |
| `study_serial` | do the statements add up to the ledger's atomic operations? | 4 requests one at a time, first day, all kinds |
| `study_first_day` (violation) | is credit backed by the log on the first day? | 4 requests, 3 at once, no profile row yet |
| `study_lost_credit` (violation) | does every attempt earn? | 4 requests, 3 at once |
| `refresh_concurrent` | lineage, finality of revocation, refusal of used tokens, unique email, every request ends | 4 requests, 3 at once |
| `refresh_serial` | are families the sessions of `AuthSessions`? does an ended family stay ended? does reuse detection spare well-behaved tabs, and is the cookie the current token? | 2 tabs, 2 calls on their way, 4 requests that the backend serves one at a time |
| `refresh_logout` (violation) | does an ended family stay ended? | 4 requests, 3 at once |
| `progression` | does the level change only as a test means it to, and is every rung earned? which tokens get round eligibility and cooldown? are papers marked as they should be? | 4 requests, 2 at once, 3 levels with 6 problems, expiry 1, cooldown 2 |
| `content_pool` | wrong options, doubled seeds, answers without the LLM, an end to the worker | 2 requests, worker and both scripts, 2 at once, 1 level, 1 LLM entry answered up to twice per call |
| `learner_days` | plan, streak, week, screen against their definitions; stuck items | 3 items (1 without a problem, 1 added later), 4 days, 2 answers, weeks of 2 days |
| `study_resume` (violation) | does a screen skip only completed problems? | 3 items, all with problems |
| `study_graduation` (violation) | does a card that is answered right graduate? | 3 items, all with problems, 2 days, 2 answers, fewer than the 10 that let response times count |

Why the bounds are enough. The conflicts are between pairs of requests on one row,
with a third that commits between the reads of the two or sets the stage. In
`study_concurrent` the learner has studied before, so that attempts need no session
of the day, and three requests of any kinds run at once; three slots for the new
items let a build and an extension meet on the two that share `created_at`, in
either order, and wait for each other. `study_serial` has the longer sequences
(open, attempt, extend, discard). `NewSlots` and `Extra` (3 or 2, and 1) keep the
slot arithmetic (review rows first, the rest new) visible. For tokens, one request
registers and three make every pair of concurrent refresh, logout and reuse
detection on a family. In `progression` level 1 has vocabulary only, level 2 a
grammar problem, level 3 a single synonym problem, so that every fallback of the
draw happens; the cooldown outlasts the token by one tick, which separates a token
older than the last exam from one that expired. In `content_pool` the LLM's one word
has its own meaning among the confusable ones and a seed file shares a word with the
fallback list; `POOL_MIN` 1 and `BATCH_SIZE` 1 (50 and 10 in the code) leave the
worker one call, which may answer two entries (`LLMMax`; the code never looks at how
many come). A script runs once, the worker any number of times. In `learner_days` a
week of two days puts two week boundaries, a gap and midnights into four days; one
slot and one stuck item stand for ten. `CHECK_DEADLOCK FALSE` throughout: each
request is used once and a learner may stop.

Fairness. `FairSpec` asks weak fairness of every request's own steps
(`Advance(r)`), none of arrivals, failures or expiry. The event loop resumes a
handler when the database has answered, and PostgreSQL grants a row lock when its
holder's transaction ends; `EveryRequestEnds` then says that nobody waits for
ever. Circles of lock waits exist, over items that share `created_at`, and only there
(`CirclesAreTies`); PostgreSQL breaks them (`AbortDeadlock`, part of `Advance`), at
the price of a 500. Weak fairness is enough: a lock that is free stays requested, and
there are finitely many competitors.

What they found.

1. `study_first_day`: `user_profile_repo.get_or_create` rolls the request back
   when two first attempts collide; the attempt's log row and schedule are gone,
   its XP, tags and completed problem are committed, and the client gets a 500.
2. `study_lost_credit`: XP, tag counters and `completed_problem_ids` are written
   from values read before the other attempt committed.
3. `refresh_logout`: a logout's UPDATE does not see the token that a concurrent
   refresh is about to commit; the family stays alive.
4. `study_resume`: the study screen starts at `completed_count`, as if the completed
   problems were the first ones; after a lost or late answer it skips a problem that
   was not recorded and asks one again that was.
5. `study_graduation`: a new item answered right on two days is still LEARNING, since
   the learning step that the first answer reached is stored nowhere.

What the code does and the passing properties therefore leave out, each named in the
property's comment and in `hazards`:

- A build that read the review queue before a placement test commits plans items
  whose rows are then deleted: `PlannedHasRow` speaks of days without a placement
  test.
- Two attempts, or two extensions, that overlap rewrite one list of the session from
  what both have read, and the earlier one's entry is lost. `SessionKept` says that
  neither touches the other's list, nor another session.
- docs/architecture/study-flow.md:45-46 promises one placement test, and exams with
  30 studied items and a cooldown of seven days. Nothing limits the placement test;
  of the exam, the GET checks both conditions and the POST neither, so that a token
  may be kept, used again, and used for the other test. A placement token promotes
  without a studied item and within the cooldown; so does an exam token drawn at
  another level, and one as old as the first exam gets round the cooldown.
  `PromotionStudied` and `RetakeOnlyByOtherToken` say that nothing else does.
- A second placement test lowers a level that exams raised, and an exam passed at an
  old level overwrites a placement: both are tests that mean what they write
  (`LevelMeant`). `LadderClimbed` holds all the same.
- A session in which answers were lost or callers overlapped may end as a theft
  (`ReuseExplained`); overlapping writers double the seeds (`SeedsOnce`); a screen
  opened after a lost or late answer is out of step (`ScreenInStep`, and
  `study_resume`).
- The number of new cards falls to zero with ten items that have no problem
  (`StuckTakeSlots`), although docs/srs-algorithm.md:43-47 only reduces it.

Each property is also checked against a bug put into the model (operators marked
"mutant"; `mutants` in PROJECT.json), which TLC must notice.

## 4. What is proved

With TLAPS, for every value of the constants that the ASSUMEs allow: every
invariant, action property and refinement that a passing run checks, liveness
excepted. A proof module is checked with `tlapm`; the longest takes two minutes.

| Module | Theorems | Property |
|---|---|---|
| `StudyDay_proofs` | `TypeCorrect`, `StudiedKept` | `TypeOK`, `LoggedIsStudied` |
| `StudyCredit_proofs` | `RepsBacked`, `PlannedRows`, `OneSession`, `CirclesNeedTies` | `RepsBackedByLog`, `PlannedHasRow`, `SessionKept`, `CirclesAreTies` |
| | `CreditBacked`, if `~FirstDay` | `CreditBackedByLog` |
| | `SerialLedger`, `SerialAttemptsEarn`, `SerialCreditBacked`, if `MaxActive = 1` | `ImplementsLedger`, `EveryAttemptEarns`, `CreditBackedByLog` |
| `RefreshRotation_proofs` | `TypeCorrect`, `LineageKept`, `RevocationKept`, `EmailUnique`, `UsedTokensBuyNothing` | `TypeOK`, `LineageRevoked`, `RevokedStays`, `RegisteredOnce`, `UsedTokenRefused` |
| | `SerialSessions`, `SerialFamiliesStayEnded`, if `MaxActive = 1` | `ImplementsSessions`, `FamilyStaysEnded` |
| `AuthClient_proofs` | `ClientTypeCorrect`, `ReuseHasReason`, `JarIsCurrent` | `ClientTypeOK`, `ReuseExplained`, `JarCurrent` |
| | `BackendIsRotation`: `ClientSpec => Spec` | |
| | `BrowserSessions`, if `MaxActive = 1` | `ImplementsSessions` |
| `LevelProgression_proofs` | `TypeCorrect`, `ChangesAreMeant`, `LevelsAreEarned`, `ExamsAfterStudy`, `RetakesTakeOtherTokens`, `PlacementScales` | `TypeOK`, `LevelMeant`, `LadderClimbed`, `PromotionStudied`, `RetakeOnlyByOtherToken`, `PlacementScale` |
| `ContentPool_proofs` | `TypeCorrect`, `WrongOptionsWrong`, `OthersHaveProblems`, `SeedsOnceAlone`, `AnswersFull`, `WorkerStaysBounded` | `TypeOK`, `OptionsWrong`, `ProblemlessAreFallback`, `SeedsOnce`, `AnswerFull`, `WorkerBounded` |
| `LearnerDays_proofs` | `TypeCorrect`, `NothingPlannedTwice`, `StuckItemsBlock`, `StreakCounts`, `WeekCounts`, `ScreenMatches` | `TypeOK`, `PlannedOnce`, `StuckTakeSlots`, `StreakIsRun`, `WeekIsSum`, `ScreenInStep` |

The two conditions are not conveniences. With `FirstDay` and three requests at once
`CreditBackedByLog` fails (`study_first_day`), as do `EveryAttemptEarns` and
`FamilyStaysEnded` when requests overlap (`study_lost_credit`, `refresh_logout`):
the theorems say that overlap is the cause, for any number of requests, items and
tokens. For the first day itself, `SerialCreditBacked` says so.

### The arguments

Hardly one of these properties is inductive. What has to be added is what the code
relies on without saying so.

*StudyDay.* That no placement test deletes, and no insert overwrites, a studied row
depends on what transactions in flight hold. `StudyInv`: held rows are disjoint; a
row held by anything but an attempt has no reviews (`LockInv`); an attempt past
`Schedule` that was not rolled back holds exactly its item's row (`AttemptInv`); a
missing row has no reviews (`RowInv`); a logged request is over (`LogInv`).
`QuietStep` and `EndStep` are the two ways a step can treat it (move on, or end and
publish its rows); each action is shown to be one of them. The counts
follow from one idea: what a request has read was backed by the log when it read
it, and the log only grows (`ReadBacked`, `CreditRead`). `PlanInv`: what a build or
an extension plans has a row, or one that it holds, or is still to get one, unless
a placement test has committed.

*Lock order.* `OrderInv`: a request holds nothing before it gets to its rows; a build
or an extension that waits for a row holds only rows of items not created later, and
an attempt none; the user rows have one holder, past its review row. So in a set of
requests that all wait for one of the set nobody waits for the user rows, those
waited for are at an insert. Were the item of each of them later than those whose
rows it holds, the one of the latest item (there are finitely many) would wait for one
of a later item. The DELETE of a placement test
waits as one step; it sees only committed rows, which attempts lock, one each, before
the user rows.

*One request at a time.* `SerialInv` in `StudyCredit_proofs` says of the running
request, statement by statement, that what it has read is what the tables hold
(`BuildFits`, `ExtendFits`, `PlaceFits`, `AttemptFits`), and that every row is of an
item in the pool (`PoolInv`). With it each commit is shown to be one action of
`StudyLedger` (`LedgerOpens`, `LedgerAttempts`, `LedgerExtends`,
`LedgerGenerates`, `LedgerDiscards`) and every other step, failures included, a
stutter.

*RefreshRotation.* `RotationInv`: held rows are active and held once (`HeldInv`); a
rotation about to commit has revoked its predecessor or found it revoked
(`ShownInv`); a request that inserted a token is over (`IssuedInv`). A refresh shown
a revoked token is `Doomed` until it ends. `ScopedInv` keeps a request within the
family it was shown. In `SerialInv` the rows that a request is about to revoke are
the token it replaces, or all that is active of the family (`Whole`), so that a
family has one active token at most (`OneActiveInv`); then a commit is a `Start`,
`Rotate` or `End` of `AuthSessions`.

*AuthClient.* First the backend behind browsers is shown to be a RefreshRotation
(`BackendIsRotation`), so that the theorems there hold here. `ClientInv` relates the
calls to the requests that serve them (`Stage`), and says of a family without doubt
that it has one call at most, that this call carries the cookie, and that the cookie
is active unless such a call is on its way (`HandleInv`, `AnswerInv`).

*LevelProgression.* `LadderInv`: every copy of the user row that a request holds was
earned too, and a request writes what follows from its copy. `StudiedInv`: an exam
token, and with it a record, comes from a GET that found enough studied items.
`AgeInv`: a request past the cooldown check saw no record that still counts, so
that a valid exam token is as old as every exam of its level within the cooldown.
`PlacementScales` unfolds `compute_level` by an induction over the levels.

*ContentPool.* `TypeInv` has, for every row and every row to be saved, what
`ItemRow` says of its problems: the answer is never stored among the wrong options.
`KeyInv` keeps rows apart that two batches of a process add. `SeedInv`: of two
seeders, one has seen the rows of the other or was reading beside it. `FullInv`
counts what a request saw, has and adds. `PromiseInv`: what the worker has added
to a level and what the batches it still plans may add stay within the bound.

*LearnerDays.* `TypeInv` includes the plan: reviewed, new and added items exclude
each other because only the last two kinds lack a row, and get one. `StuckInv`: an
item without a problem stays due. `LastDay` and `Run` say what the streak counts,
`WeekInv` what the week sums, from the order of week starts (`WeeksInOrder`).
`InStep`: recorded answers and those on their way are the first problems of the
plan, and whatever the client holds or is yet to receive is today's plan or a
beginning of it (`Begins`), so that the order of the responses does not matter.

`BoundedNaturals` has the lemmas these share: least and greatest elements, ranks, and
induction stated for sets instead of predicates (`InductionUpTo`,
`PickedInduction`), since the library's induction theorems take an operator, which
the provers cannot instantiate. With `PickedInduction` the sum of the community
modules is shown to exist and to change with its terms (`TotalIsSum`,
`TotalOfZeros`, `TotalChanges`).

### What the proofs assume

The ASSUMEs of the modules, which TLC evaluates in every run: request and tab names
differ from the values that stand for none; sets of items, problems, seed files and
the fallback list are finite, as the tables and files are, and no file lists a word
twice; bounds are naturals, `MaxActive` and `MaxCalls` any at all; `created_at` is
any function of the items. `Extra`, `POOL_MIN`, batch sizes and the days of a week
are at least 1 (10, 50, 10 and 7 in the code; no caller passes another number). The
external parts are as free as in the runs: what the LLM answers, the ratings and due
days of py-fsrs, the order in which the database serves requests.

Only model-checked: `EveryRequestEnds`, as liveness under fairness is beyond the
prover; and that the five `violation` runs fail, which their traces show.

## 5. Plan

Models and the properties of the runs are proved as far as section 4 says. Next, in
this order:

1. The lock order of `RefreshRotation`, whose UPDATE of a family takes its locks in
   one step in the model.
2. The hazards without a property (`hazards` in PROJECT.json), of which a build that
   spans a placement test needs StudyDay and LevelProgression in one model.

## 6. Not modelled

- `generate_grammar_content`, `get_representative_problems`: nothing calls them.
- Read-only endpoints: study stats, review, recent sessions, pool statistics,
  `/auth/me`; `get_weak_tags` and `get_global_weak_tags`, whose choice is any here.
- The level shown with XP: a function of `xp` that no code reads back.
- Problem texts, prompts, JWT and password hashing, cookie attributes, Alembic,
  configuration, logging, schemas, layout: no state that properties speak of.
- The `--dry-run` of the scripts, which only counts.
- `mark_placement_done` in one model with the day's session: LevelProgression has
  the level, StudyDay the discard; a build that spans a placement test is in StudyDay
  without the level.
