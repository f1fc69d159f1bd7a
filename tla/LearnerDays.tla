----------------------------- MODULE LearnerDays ----------------------------
(***************************************************************************)
(* One learner over several days: the session the backend plans each day,  *)
(* how answers move the review queue, the streak and the week, and the     *)
(* study screen with its cached session.  Requests are atomic here; what    *)
(* happens inside overlapping ones is the subject of StudyDay.             *)
(*                                                                         *)
(* Days are UTC dates, numbered, day 1 a Monday.  An item stands for the   *)
(* problem drawn for it; items are numbered by created_at, and of items    *)
(* that share it the lower number comes first.  A step of minutes that     *)
(* py-fsrs asks for ends today or tomorrow, an interval is a number of     *)
(* days.  The learner's level does not change.                             *)
(*                                                                         *)
(* An operator marked "mutant" is a bug the code does not have.            *)
(***************************************************************************)
EXTENDS Integers, Sequences, FiniteSetsExt, SequencesExt

CONSTANTS
    Items,        \* content items that exist or that the LLM may yet create
    InitialPool,  \* those in content_item at the beginning
    HasProblem,   \* items with a row in problem: the fallback seeds have none
    NewSlots,     \* _NEW_ITEM_SLOTS: 10
    Cap,          \* the limit of due_today: 40
    Extra,        \* extend_today_session's extra: 10
    Samples,      \* attempts before response times count: 10
    Seconds,      \* response times, in seconds
    Intervals,    \* days that py-fsrs may put between reviews
    WeekDays,     \* 7
    MaxDay,       \* bound on the days
    MaxSent       \* bound on the answers

ASSUME ItemsAssumption ==
    /\ Items \subseteq Nat \ {0} /\ IsFiniteSet(Items)
    /\ InitialPool \subseteq Items /\ HasProblem \subseteq Items
ASSUME SizesAssumption ==
    /\ {NewSlots, Cap, Extra, Samples, MaxSent} \subseteq Nat
    /\ NewSlots <= Cap
    /\ {WeekDays, MaxDay} \subseteq Nat \ {0}
    /\ Seconds \subseteq Nat \ {0} /\ Intervals \subseteq Nat \ {0}

VARIABLES
    today,   \* the date
    row,     \* review_record of every item
    log,     \* attempt_log: how many rows
    days,    \* history: the seconds answered on each day
    mot,     \* motivation_state: streak and week
    sess,    \* the latest study_session
    pool,    \* content_item
    cache,   \* the session the client holds
    fetched, \* the response to useStudySession that is on its way
    more,    \* the response to useExtendSession that is on its way
    index,   \* the screen: problems passed, or Closed
    flight,  \* answers sent and not recorded yet
    sent,    \* how many answers were sent
    smooth   \* history: no answer of this session was lost or late

server == <<row, log, days, mot, sess, pool>>
coming == <<fetched, more>>
client == <<cache, coming, index, flight, sent, smooth>>
vars == <<today, server, client>>

-----------------------------------------------------------------------------
Days == 1..MaxDay
States == {"NEW", "LEARNING", "REVIEW", "RELEARNING"}
NoRow == [state |-> "none", reps |-> 0, lapses |-> 0, due |-> 0]
NewRow == [state |-> "NEW", reps |-> 0, lapses |-> 0, due |-> today]
Exists(i) == row[i] # NoRow

(* day 0 stands for NULL.                                                  *)
NoSession == [day |-> 0, planned |-> <<>>, completed |-> <<>>]
NoMotivation == [streak |-> 0, last |-> 0, week |-> 0, seconds |-> 0]
NoCache == [planned |-> <<>>, done |-> -1]
Closed == -1

TypeOK ==
    /\ today \in Days
    /\ \A i \in Items : row[i] = NoRow \/
          /\ row[i].state \in States
          /\ row[i].lapses \in 0..row[i].reps
          /\ row[i].state = "NEW" <=> row[i].reps = 0
    /\ sess.planned \in Seq(HasProblem \cap pool)
    /\ sess.completed \in Seq(HasProblem \cap pool)
    /\ index \in Nat \cup {Closed} /\ Cardinality(flight) <= sent

Init ==
    /\ today = 1
    /\ row = [i \in Items |-> NoRow]
    /\ log = 0
    /\ days = [d \in Days |-> 0]
    /\ mot = NoMotivation
    /\ sess = NoSession /\ pool = InitialPool
    /\ cache = NoCache /\ fetched = NoCache /\ more = NoCache /\ index = Closed
    /\ flight = {} /\ sent = 0 /\ smooth = TRUE

-----------------------------------------------------------------------------
(* The queue.                                                              *)

Due == {i \in Items : Exists(i) /\ row[i].due <= today}

Urgent(i) == row[i].state \in {"LEARNING", "RELEARNING"}

(* ORDER BY priority, lapses DESC, next_due_at: i comes before j.          *)
Precedes(i, j) ==
    \/ Urgent(i) /\ ~Urgent(j)
    \/ /\ Urgent(i) <=> Urgent(j)
       /\ \/ row[i].lapses > row[j].lapses
          \/ row[i].lapses = row[j].lapses /\ row[i].due < row[j].due

(* due_today: rows that compare equal come in any order.                   *)
Queues ==
    {SubSeq(q, 1, Min({Cap, Len(q)})) :
        q \in {p \in SetToSeqs(Due) :
                  \A m, n \in DOMAIN p : m < n => ~Precedes(p[n], p[m])}}

InOrder(S) ==
    [k \in 1..Cardinality(S) |-> CHOOSE i \in S : Cardinality({j \in S : j <= i}) = k]

(* Mutant: NEW rows are offered again.                                     *)
Unstudied(n) ==
    LET S == {i \in pool : ~Exists(i) \/ row[i].reps = 0}
    IN  InOrder({i \in S : Cardinality({j \in S : j < i}) < n})

(* get_new_content_items: items without a review row, the oldest first.    *)
NewItems(n) ==
    LET S == {i \in pool : ~Exists(i)}
    IN  InOrder({i \in S : Cardinality({j \in S : j < i}) < n})

(* Mutant: items without a problem are not passed over.                    *)
Undrawn(q) == q

(* The items of q that have a problem, in their order in q.                *)
Drawn(q) ==
    LET places == InOrder({n \in DOMAIN q : q[n] \in HasProblem})
    IN  [k \in DOMAIN places |-> q[places[k]]]

WithRows(new) == [i \in Items |-> IF i \in Range(new) /\ ~Exists(i) THEN NewRow ELSE row[i]]

(* Mutant: rows without a problem leave their slot to a new item.          *)
SlotsBesideDrawn(queue) == Max({0, NewSlots - Len(Drawn(queue))})

Slots(queue) == Max({0, NewSlots - Len(queue)})

(* build_today_session                                                     *)
Build ==
    IF sess.day = today THEN UNCHANGED <<row, sess>>
    ELSE \E queue \in Queues :
            LET new == NewItems(Slots(queue))
            IN  /\ row' = WithRows(new)
                /\ sess' = [day |-> today, planned |-> Drawn(queue \o new),
                            completed |-> <<>>]

(* extend_today_session                                                    *)
Attach(new) ==
    /\ new # <<>>
    /\ row' = WithRows(new)
    /\ sess' = [sess EXCEPT !.planned = @ \o Drawn(new)]

-----------------------------------------------------------------------------
(* An answer.                                                              *)

(* determine_rating: with enough samples, response times decide.           *)
Ratings(right) ==
    IF ~right THEN {"Again"}
    ELSE IF log < Samples THEN {"Good"} ELSE {"Hard", "Good", "Easy"}

(* _record_to_card: a new Card is at step 0, and no column holds the step. *)
Card(r) ==
    [state |-> IF r.state = "NEW" THEN "LEARNING" ELSE r.state, step |-> 0]

(* Scheduler().review_card of py-fsrs, with its two learning steps and its *)
(* one relearning step.                                                    *)
Steps(state) == IF state = "LEARNING" THEN 2 ELSE 1
Graduates(card, rating) ==
    \/ rating = "Easy"
    \/ rating = "Good" /\ card.step + 1 >= Steps(card.state)
NextState(card, rating) ==
    CASE card.state = "REVIEW" -> IF rating = "Again" THEN "RELEARNING" ELSE "REVIEW"
      [] card.state # "REVIEW" -> IF Graduates(card, rating) THEN "REVIEW" ELSE card.state
DueDays(state) ==
    IF state = "REVIEW" THEN {today + n : n \in Intervals} ELSE {today, today + 1}

(* schedule_next                                                           *)
Schedule(i, rating) ==
    LET state == NextState(Card(row[i]), rating)
    IN  \E due \in DueDays(state) :
            row' = [row EXCEPT ![i] =
                       [state |-> state, reps |-> @.reps + 1,
                        lapses |-> IF rating = "Again" THEN @.lapses + 1 ELSE @.lapses,
                        due |-> due]]

WeekStart(d) == d - ((d - 1) % WeekDays)

(* Mutant: a gap does not end the streak.                                  *)
StreakOfDays(d) == IF mot.last = d THEN mot.streak ELSE mot.streak + 1

(* _update_streak                                                          *)
Streak(d) ==
    CASE mot.last = d -> mot.streak
      [] mot.last # 0 /\ mot.last = d - 1 -> mot.streak + 1
      [] OTHER -> 1

(* Mutant: the week is reset every seven days from the last reset.          *)
WeekFrom(d, n) ==
    IF mot.week # 0 /\ d < mot.week + WeekDays
    THEN [week |-> mot.week, seconds |-> mot.seconds + n]
    ELSE [week |-> d, seconds |-> n]

(* _update_weekly                                                          *)
Week(d, n) ==
    [week |-> WeekStart(d),
     seconds |-> (IF mot.week = WeekStart(d) THEN mot.seconds ELSE 0) + n]

(* motivation_service.record_attempt                                       *)
Motivate(n) ==
    LET w == Week(today, n)
    IN  mot' = [streak |-> Streak(today), last |-> today,
                week |-> w.week, seconds |-> w.seconds]

(* Mutant: only a right answer completes its problem.                      *)
CompletedIfRight(a) ==
    IF sess.day = today /\ a.right
    THEN [sess EXCEPT !.completed = Append(@, a.item)] ELSE sess

(* add_completed, to the session of the day on which the answer arrives.   *)
Completed(a) ==
    IF sess.day = today THEN [sess EXCEPT !.completed = Append(@, a.item)] ELSE sess

(* record_attempt                                                          *)
RecordAttempt(a) ==
    \E rating \in Ratings(a.right) :
        /\ Schedule(a.item, rating)
        /\ log' = log + 1
        /\ days' = [days EXCEPT ![today] = @ + a.seconds]
        /\ Motivate(a.seconds)
        /\ sess' = Completed(a)
        /\ UNCHANGED pool

-----------------------------------------------------------------------------
(* The study screen: StudySessionView, useStudySession, useSubmitAttempt,  *)
(* useExtendSession.                                                       *)

Response == [planned |-> sess'.planned, done |-> Len(sess'.completed)]

(* POST /study/sessions/today, for a screen that opens or whose session was *)
(* invalidated.  The response to an earlier one is no longer waited for.   *)
Fetch ==
    /\ Build /\ fetched' = Response
    /\ smooth' = IF sess'.day = sess.day THEN smooth
                 ELSE index = Closed /\ flight = {} /\ {cache, fetched, more} = {NoCache}
    /\ UNCHANGED <<today, log, days, mot, pool, cache, more, index, flight, sent>>

(* Its response becomes the cached session; the index stays.               *)
Refreshed ==
    /\ fetched # NoCache
    /\ cache' = fetched /\ fetched' = NoCache
    /\ UNCHANGED <<today, server, more, index, flight, sent, smooth>>

(* It fails: an error takes the place of the screen until the next response *)
(* comes, whatever the cache still holds.                                   *)
FetchFails ==
    /\ fetched # NoCache
    /\ fetched' = NoCache /\ cache' = NoCache /\ index' = Closed
    /\ UNCHANGED <<today, server, more, flight, sent, smooth>>

(* SessionInner mounts with the cached session: useState(completed_count). *)
Open ==
    /\ index = Closed /\ cache # NoCache
    /\ index' = cache.done
    /\ smooth' = (smooth /\ flight = {} /\ cache.done = Len(sess.completed))
    /\ UNCHANGED <<today, server, cache, coming, flight, sent>>

(* handleNext: the screen does not wait for the answer to be recorded.     *)
Answer ==
    /\ index # Closed /\ index < Len(cache.planned) /\ sent < MaxSent
    /\ \E right \in BOOLEAN, n \in Seconds :
          flight' = flight \cup
             {[n |-> sent, item |-> cache.planned[index + 1], right |-> right, seconds |-> n]}
    /\ index' = index + 1 /\ sent' = sent + 1
    /\ UNCHANGED <<today, server, cache, coming, smooth>>

(* POST /study/attempts arrives, in any order.                             *)
Deliver ==
    /\ \E a \in flight : RecordAttempt(a) /\ flight' = flight \ {a}
    /\ UNCHANGED <<today, cache, coming, index, sent, smooth>>

(* It fails: a mutation is not retried.                                    *)
Lose ==
    /\ \E a \in flight : flight' = flight \ {a}
    /\ smooth' = FALSE
    /\ UNCHANGED <<today, server, cache, coming, index, sent>>

(* "더 공부하기", on the screen that comes after the last problem; disabled  *)
(* while it waits.                                                         *)
AtEnd ==
    /\ index # Closed /\ cache.planned # <<>> /\ index >= Len(cache.planned)
    /\ sess.day = today /\ more = NoCache

Extend ==
    /\ AtEnd /\ Attach(NewItems(Extra)) /\ more' = Response
    /\ UNCHANGED <<today, log, days, mot, pool, cache, fetched, index, flight, sent, smooth>>

(* The same when the pool is used up and the LLM answers, with any number.  *)
ExtendGenerated ==
    /\ AtEnd /\ NewItems(Extra) = <<>>
    /\ \E S \in SUBSET ((Items \ pool) \cap HasProblem) :
          pool' = pool \cup S /\ Attach(InOrder(S))
    /\ more' = Response
    /\ UNCHANGED <<today, log, days, mot, cache, fetched, index, flight, sent, smooth>>

(* setQueryData, over whatever the cache holds by then; a fetch that was   *)
(* answered before the extension may still overwrite it.                   *)
Extended ==
    /\ more # NoCache
    /\ cache' = more /\ more' = NoCache
    /\ UNCHANGED <<today, server, fetched, index, flight, sent, smooth>>

(* The response is lost; the server has extended the session.              *)
ExtendFails ==
    /\ more # NoCache
    /\ more' = NoCache
    /\ UNCHANGED <<today, server, cache, fetched, index, flight, sent, smooth>>

Leave ==
    /\ index # Closed
    /\ index' = Closed
    /\ UNCHANGED <<today, server, cache, coming, flight, sent, smooth>>

(* A closed screen's cache is dropped after five minutes, or by a reload.   *)
Forget ==
    /\ index = Closed /\ cache # NoCache /\ fetched = NoCache
    /\ cache' = NoCache
    /\ UNCHANGED <<today, server, coming, index, flight, sent, smooth>>

(* The worker, another learner's request or a fallback seed adds an item.   *)
Pregenerate ==
    /\ \E i \in Items \ pool : pool' = pool \cup {i}
    /\ UNCHANGED <<today, row, log, days, mot, sess, client>>

Midnight ==
    /\ today < MaxDay
    /\ today' = today + 1
    /\ smooth' = (smooth /\ index = Closed /\ flight = {}
                   /\ {cache, fetched, more} = {NoCache})
    /\ UNCHANGED <<server, cache, coming, index, flight, sent>>

Next ==
    \/ Fetch \/ Refreshed \/ FetchFails \/ Open \/ Leave \/ Forget
    \/ Answer \/ Deliver \/ Lose
    \/ Extend \/ ExtendGenerated \/ Extended \/ ExtendFails
    \/ Pregenerate \/ Midnight

Spec == Init /\ [][Next]_vars

-----------------------------------------------------------------------------
(* Properties.                                                             *)

(* No problem is planned twice in a session, whether it came from the       *)
(* review queue, as a new item or by an extension: answers are counted      *)
(* against the planned problems (build_today_session, extend_today_session).*)
PlannedOnce == IsInjective(sess.planned)

(* The streak is the length of the run of days with an answer that ends on *)
(* the last such day, whatever was answered before it (_update_streak).     *)
StreakIsRun ==
    /\ mot.last = Max({0} \cup {d \in Days : days[d] > 0})
    /\ \A d \in 1..mot.last : (\A e \in d..mot.last : days[e] > 0) <=> mot.last - d < mot.streak

(* The weekly progress is what was answered in the calendar week of the     *)
(* last answer (_update_weekly).                                           *)
WeekIsSum ==
    mot.week # 0 => mot.seconds = MapThenSumSet(LAMBDA d : days[d],
                                      {d \in Days : WeekStart(d) = WeekStart(mot.last)})

(* As long as no answer of the session was lost or late and no screen was   *)
(* opened on a stale session, the screen passes each planned problem once:  *)
(* what it has passed is what the server has recorded and what is on its    *)
(* way, in whatever order the responses to its fetches and extensions come, *)
(* or whether they come at all (SessionInner, useExtendSession,             *)
(* add_completed).                                                         *)
ScreenInStep ==
    smooth /\ index # Closed =>
        /\ index = Len(sess.completed) + Cardinality(flight)
        /\ {sess.planned[n] : n \in 1..index}
             = Range(sess.completed) \cup {a.item : a \in flight}

(* "NEW - first attempt - LEARNING - graduation - REVIEW"                   *)
(* (docs/srs-algorithm.md:29), and all right answers are "Good" while there *)
(* are few (line 24): a right answer to a card that was only answered right *)
(* graduates it if it is the last of as many as there are learning steps    *)
(* (_record_to_card, schedule_next).  Sessions in which answers were lost   *)
(* or sent twice are left aside.                                           *)
GraduatesAfterSteps ==
    [][smooth /\ log < Samples =>
         \A i \in Items :
            (/\ row'[i].reps = row[i].reps + 1 /\ row'[i].reps >= Steps("LEARNING")
             /\ row'[i].lapses = 0) => row'[i].state = "REVIEW"]_row

(* Items without a problem stay NEW and due.  When there are as many of     *)
(* them as slots, opening a session brings no new item any more            *)
(* (build_today_session).                                                  *)
Stuck == {i \in Items \ HasProblem : Exists(i)}
StuckTakeSlots ==
    [][Cardinality(Stuck) >= NewSlots /\ sess'.day # sess.day
         => \A i \in Items : row'[i] # NoRow => Exists(i)]_vars

(* "이미 완료한 문제는 스킵" (StudySessionView.tsx:71): the problems that a   *)
(* screen passes over when it opens have been completed.                   *)
SkippedWereCompleted ==
    [][index = Closed /\ index' # Closed =>
         \A n \in 1..Min({index', Len(cache'.planned)}) :
             cache'.planned[n] \in Range(sess'.completed)]_vars
=============================================================================
