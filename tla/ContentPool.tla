----------------------------- MODULE ContentPool ----------------------------
(***************************************************************************)
(* The table content_item and everything that adds to it: requests for     *)
(* content (content_service.get_or_generate), the pre-generation worker,   *)
(* and two scripts an operator runs beside them, seed_content and          *)
(* enrich_mcq_meaning.  An item's problems are inserted in its transaction *)
(* and are part of its row here.                                           *)
(*                                                                         *)
(* A process reads committed rows and its own, and publishes its rows with *)
(* its commit; no constraint makes it wait for another.  The LLM answers   *)
(* what it likes of LLMEntries, one entry after the other, or fails.  How  *)
(* many it answers is up to the LLM: the prompt asks for a number, and no   *)
(* code looks at it.                                                       *)
(*                                                                         *)
(* An operator marked "mutant" is a bug the code does not have.            *)
(***************************************************************************)
EXTENDS ProblemBank

CONSTANTS
    Req,           \* requests for content, each used once
    Counts,        \* how many items a request asks for
    PoolMin,       \* POOL_MIN
    BatchSize,     \* BATCH_SIZE
    LLMMax,        \* bound on the entries of one answer of the LLM
    LLMOptions,    \* confusable_meanings the LLM may answer to enrich_mcq_meaning
    EnrichBatch,   \* its --batch-size
    MaxActive      \* processes that run at once

Worker == "worker"
Script == "seed script"
Enrich == "enrich script"
Proc == Req \cup {Worker, Script, Enrich}

ASSUME ProcAssumption == {Worker, Script, Enrich} \cap Req = {}
ASSUME SizesAssumption ==
    /\ Levels = 1..Cardinality(Levels) /\ IsFiniteSet(Levels) /\ Levels # {}
    /\ Counts \subseteq Nat /\ PoolMin \in Nat \ {0} /\ MaxActive \in Nat
    /\ LLMMax \in Nat /\ BatchSize \in Nat \ {0} /\ EnrichBatch \in Nat \ {0}

VARIABLES
    items,  \* content_item, with the problems of each
    tx,     \* the processes
    beside  \* history: the processes that were seeding when p read the seeds

vars == <<items, tx, beside>>

-----------------------------------------------------------------------------
Entries == LLMEntries \cup FallbackEntries \cup UNION {FileEntries[l] : l \in Levels}

(* A row is named by the process that inserted it and a number of its own. *)
IsItem(i) ==
    /\ i.by \in Proc /\ i.n \in Nat \ {0}
    /\ i.level \in Levels /\ i.entry \in Entries
    /\ i.source \in {"llm", "seed"}

NewItem(p, n, level, e, source, problems) ==
    [by |-> p, n |-> n, level |-> level, entry |-> e, source |-> source,
     problems |-> problems]

(* got: how many items the response holds so far; saw, have: the words of  *)
(* the seed rows read, and how many rows; plan: the batches the worker has  *)
(* still to ask for; fresh: rows written and not committed; todo, turn: the *)
(* rows still to enrich and the index of the next.                          *)
Ended == {"ok", "error"}
Pc == Ended \cup {"idle", "pool", "generate", "seeds", "save", "enrich"}
Idle == [pc |-> "idle", level |-> 1, kind |-> "vocabulary", count |-> 0, got |-> 0,
         saw |-> {}, have |-> 0, plan |-> [l \in Levels |-> 0], fresh |-> {},
         todo |-> {}, turn |-> 0]

TypeOK ==
    /\ \A i \in items : IsItem(i)
    /\ DOMAIN tx = Proc
    /\ \A p \in Proc :
          /\ tx[p].pc \in Pc /\ tx[p].level \in Levels
          /\ tx[p].got \in Nat /\ tx[p].plan \in [Levels -> Nat]
          /\ \A i \in tx[p].fresh : IsItem(i)
    /\ \A i, j \in items : i.by = j.by /\ i.n = j.n => i = j

Init ==
    /\ items = {}
    /\ tx = [p \in Proc |-> Idle]
    /\ beside = [p \in Proc |-> {}]

-----------------------------------------------------------------------------
Step(p, new) == tx' = [tx EXCEPT ![p] = new]

(* The database session is closed.  The worker runs again; a request and, as *)
(* a bound, a script run once.                                             *)
Close(p, outcome) ==
    Step(p, IF p = Worker THEN Idle ELSE [Idle EXCEPT !.pc = outcome])

Running(p) == tx[p].pc \notin Ended \cup {"idle"}
Admitted(p) == tx[p].pc = "idle" /\ Cardinality({q \in Proc : Running(q)}) < MaxActive

(* The process is stopped, or loses its connection.                        *)
Fail(p) ==
    /\ Running(p)
    /\ Close(p, "error")
    /\ UNCHANGED <<items, beside>>

OfKind(level, kind) == {i \in items : i.level = level /\ i.entry.kind = kind}
Seeds(level, kind) == {i \in OfKind(level, kind) : i.source = "seed"}

(* Mutant: the rows not committed yet are forgotten.                       *)
NextCommitted(p) == Cardinality({i \in items : i.by = p}) + 1

NextN(p) == Cardinality({i \in items \cup tx[p].fresh : i.by = p}) + 1

-----------------------------------------------------------------------------
(* get_or_generate                                                         *)

BeginGet(r) ==
    /\ Admitted(r)
    /\ \E l \in Levels, n \in Counts :
          Step(r, [Idle EXCEPT !.pc = "pool", !.level = l, !.count = n])
    /\ UNCHANGED <<items, beside>>

(* get_pool.  Which rows have one of the tags is any choice.               *)
ReadPool(r) ==
    /\ tx[r].pc = "pool"
    /\ \E n \in 0..Min({tx[r].count, Cardinality(OfKind(tx[r].level, "vocabulary"))}) :
          Step(r, [tx[r] EXCEPT !.got = n,
                                !.pc = IF n = tx[r].count THEN "ok" ELSE "generate"])
    /\ UNCHANGED <<items, beside>>

(* Mutant: the seeds are not read again.                                   *)
AssumeNoSeeds(r) ==
    /\ tx[r].pc = "seeds"
    /\ Step(r, [tx[r] EXCEPT !.pc = "save"])
    /\ UNCHANGED items
    /\ beside' = [beside EXCEPT ![r] = {p \in Proc : tx[p].pc = "save"}]

(* _save_seed_items: get_seeds.                                            *)
ReadSeeds(r) ==
    /\ tx[r].pc = "seeds"
    /\ LET rows == Seeds(tx[r].level, "vocabulary")
       IN  Step(r, [tx[r] EXCEPT !.pc = "save", !.have = Cardinality(rows),
                                 !.saw = {i.entry.word : i \in rows}])
    /\ beside' = [beside EXCEPT ![r] = {p \in Proc : tx[p].pc = "save"}]
    /\ UNCHANGED items

(* The rows for the entries of S, numbered in some order.                  *)
Numbered(p, S) ==
    CHOOSE f \in [S -> NextN(p)..(NextN(p) + Cardinality(S) - 1)] :
        \A e, d \in S : e # d => f[e] # f[d]

(* The entries whose word is not there yet, without problems; then commit  *)
(* and answer with as many seeds as are needed, wherever they came from.   *)
SaveSeeds(r) ==
    /\ tx[r].pc = "save" /\ r \in Req
    /\ LET new == {e \in FallbackEntries : e.word \notin tx[r].saw}
           needed == tx[r].count - tx[r].got
           rows == {NewItem(r, Numbered(r, new)[e], tx[r].level, e, "seed", {}) : e \in new}
       IN  /\ items' = items \cup rows
           /\ Step(r, [Idle EXCEPT !.pc = "ok", !.count = tx[r].count,
                          !.got = tx[r].got + Min({needed, tx[r].have + Cardinality(new)})])
    /\ UNCHANGED beside

-----------------------------------------------------------------------------
(* generate_vocabulary, for a request or for the worker.                   *)

AddItem(p) ==
    /\ tx[p].pc = "generate"
    /\ Cardinality(tx[p].fresh) < LLMMax
    /\ \E e \in LLMEntries :
         \E problems \in GeneratedProblems(e, items \cup tx[p].fresh, tx[p].level) :
            Step(p, [tx[p] EXCEPT !.fresh = @ \cup
                       {NewItem(p, NextN(p), tx[p].level, e, "llm", problems)}])
    /\ UNCHANGED <<items, beside>>

(* The worker goes on with the next batch it has planned.                  *)
WorkOn(plan) ==
    LET left == {l \in Levels : plan[l] > 0}
    IN  IF left = {} THEN Close(Worker, "ok")
        ELSE Step(Worker, [Idle EXCEPT !.pc = "generate", !.level = Min(left), !.plan = plan])

SaveBatch(p) ==
    /\ tx[p].pc = "generate"
    /\ items' = items \cup tx[p].fresh
    /\ IF p = Worker
       THEN WorkOn([tx[p].plan EXCEPT ![tx[p].level] = @ - 1])
       ELSE LET got == tx[p].got + Cardinality(tx[p].fresh)
            IN  Step(p, [tx[p] EXCEPT !.got = got, !.fresh = {},
                           !.pc = IF got >= tx[p].count THEN "ok" ELSE "seeds"])
    /\ UNCHANGED beside

(* Mutant: a request ends with what it has got.                            *)
LLMFailsAll(p) ==
    /\ tx[p].pc = "generate"
    /\ tx[p].fresh = {}
    /\ IF p = Worker THEN WorkOn([tx[p].plan EXCEPT ![tx[p].level] = 0])
                     ELSE Step(p, [tx[p] EXCEPT !.pc = "ok"])
    /\ UNCHANGED <<items, beside>>

(* LLMError: the worker leaves the level to its next run, a request falls  *)
(* back on the seeds.                                                      *)
LLMFails(p) ==
    /\ tx[p].pc = "generate"
    /\ tx[p].fresh = {}
    /\ IF p = Worker THEN WorkOn([tx[p].plan EXCEPT ![tx[p].level] = 0])
                     ELSE Step(p, [tx[p] EXCEPT !.pc = "seeds"])
    /\ UNCHANGED <<items, beside>>

-----------------------------------------------------------------------------
(* _pregen_task                                                            *)

(* Mutant: one batch more than needed.                                     *)
BatchesAndOne(needed) == needed \div BatchSize + 1

Batches(needed) == (needed + BatchSize - 1) \div BatchSize

(* get_pool_stats counts items of every kind, once for the whole run.      *)
PoolSize(l) == Cardinality({i \in items : i.level = l})

StartWorker ==
    /\ Admitted(Worker)
    /\ \E l \in Levels : PoolSize(l) < PoolMin
    /\ WorkOn([l \in Levels |-> IF PoolSize(l) < PoolMin
                                THEN Batches(PoolMin - PoolSize(l)) ELSE 0])
    /\ UNCHANGED <<items, beside>>

-----------------------------------------------------------------------------
(* scripts/seed_content.py                                                 *)

StartScript ==
    /\ Admitted(Script)
    /\ \E l \in Levels : \E kind \in {e.kind : e \in FileEntries[l]} :
          Step(Script, [Idle EXCEPT !.pc = "save", !.level = l, !.kind = kind,
                           !.saw = {i.entry.word : i \in Seeds(l, kind)}])
    /\ beside' = [beside EXCEPT ![Script] = @ \cup {p \in Proc : tx[p].pc = "save"}]
    /\ UNCHANGED items

SaveScript ==
    /\ tx[Script].pc = "save"
    /\ LET t == tx[Script]
           new == {e \in FileEntries[t.level] : e.kind = t.kind /\ e.word \notin t.saw}
       IN  items' = items \cup {NewItem(Script, Numbered(Script, new)[e], t.level, e,
                                        "seed", SeedProblems(e)) : e \in new}
    /\ Close(Script, "ok")
    /\ UNCHANGED beside

-----------------------------------------------------------------------------
(* scripts/enrich_mcq_meaning.py                                           *)

(* Without --upgrade the script asks for IS NULL.  create_problem sets the  *)
(* column to None, which SQLAlchemy stores in a JSONB column as JSON null:  *)
(* no such row is found, and none of them by --upgrade either, as null has  *)
(* no options to count.                                                     *)
ToEnrich(i) ==
    \E p \in i.problems : p.type = "MEANING" /\ Cardinality(p.options) \in 1..Wanted

StartEnrich ==
    /\ Admitted(Enrich)
    /\ LET todo == {i \in items : ToEnrich(i)}
       IN  todo # {} /\ Step(Enrich, [Idle EXCEPT !.pc = "enrich", !.todo = todo])
    /\ UNCHANGED <<items, beside>>

(* Mutant: the LLM's answer is not filtered.                               *)
Unfiltered(i, options) ==
    [i EXCEPT !.problems = {IF p.type = "MEANING" THEN [p EXCEPT !.options = options]
                                                  ELSE p : p \in @}]
Enriched(i, options) ==
    [i EXCEPT !.problems = {IF p.type = "MEANING"
                            THEN [p EXCEPT !.options = options \ {i.entry.meaning}]
                            ELSE p : p \in @}]

Key(i) == <<i.by, i.n>>
Overwritten(fresh) ==
    {i \in items : Key(i) \notin {Key(j) : j \in fresh}} \cup fresh

(* One problem: an answer that leaves no option counts as a failure and    *)
(* passes over the commit of its index.                                    *)
EnrichOne ==
    /\ tx[Enrich].pc = "enrich"
    /\ \E i \in tx[Enrich].todo, options \in LLMOptions \cup {{}} :
          LET t == [tx[Enrich] EXCEPT !.todo = @ \ {i}, !.turn = @ + 1]
              fresh == t.fresh \cup {Enriched(i, options)}
          IN  IF options \ {i.entry.meaning} = {}
              THEN Step(Enrich, t) /\ UNCHANGED items
              ELSE IF t.turn % EnrichBatch = 0
              THEN Step(Enrich, [t EXCEPT !.fresh = {}]) /\ items' = Overwritten(fresh)
              ELSE Step(Enrich, [t EXCEPT !.fresh = fresh]) /\ UNCHANGED items
    /\ UNCHANGED beside

FinishEnrich ==
    /\ tx[Enrich].pc = "enrich" /\ tx[Enrich].todo = {}
    /\ items' = Overwritten(tx[Enrich].fresh)
    /\ Close(Enrich, "ok")
    /\ UNCHANGED beside

-----------------------------------------------------------------------------
Generating(p) == AddItem(p) \/ SaveBatch(p) \/ LLMFails(p)

Next ==
    \/ \E r \in Req : BeginGet(r) \/ ReadPool(r) \/ ReadSeeds(r) \/ SaveSeeds(r)
    \/ StartWorker
    \/ \E p \in Req \cup {Worker} : Generating(p)
    \/ StartScript \/ SaveScript
    \/ StartEnrich \/ EnrichOne \/ FinishEnrich
    \/ \E p \in Proc : Fail(p)

Spec == Init /\ [][Next]_vars

-----------------------------------------------------------------------------
(* Properties.                                                             *)

(* No learner is offered the right answer among the wrong ones, whatever    *)
(* the LLM, the seed files or the other rows of the pool say, and whichever *)
(* script has rewritten the options (_select_distractors, safe_cm); except  *)
(* with a grammar point whose own wrong_patterns repeat its blank.          *)
RepeatsBlank(e) == e.kind = "grammar" /\ e.word \in e.near
OptionsWrong ==
    \A i \in items : \A p \in i.problems :
        \/ \A options \in Offers(i, p, items) : p.answer \notin options
        \/ p.type = "GRAMMAR" /\ RepeatsBlank(i.entry)

(* Only rows of the code's own fallback list come without a problem, and   *)
(* grammar points of a file that gives no blank or no wrong pattern: what  *)
(* else the LLM and the seed files add can be studied.                     *)
Unaskable(e) == e.kind = "grammar" /\ (~e.standalone \/ e.near = {})
ProblemlessAreFallback ==
    \A i \in items :
        i.problems = {} =>
            \/ i.entry \in FallbackEntries /\ i.by \in Req
            \/ Unaskable(i.entry) /\ i.by = Script

(* Two seed rows of one word need two writers of which one read the seeds  *)
(* while the other was between its read and its commit (_save_seed_items,  *)
(* seed_content).                                                          *)
SeedsOnce ==
    \A i, j \in items :
        /\ i # j /\ i.source = "seed" /\ j.source = "seed"
        /\ i.level = j.level /\ i.entry.kind = j.entry.kind /\ i.entry.word = j.entry.word
        => i.by \in beside[j.by] \/ j.by \in beside[i.by]

(* Also without the LLM a request gets as many items as it asked for, as    *)
(* long as the fallback list is that long (get_or_generate).                *)
AnswerFull ==
    \A r \in Req : tx[r].pc = "ok" =>
        tx[r].got >= Min({tx[r].count, Cardinality(FallbackEntries)})

(* However stale its statistics are and however many entries the LLM        *)
(* answers, the worker's runs add no more to a level than one run that      *)
(* begins below the minimum can add to it (_pregen_task).                  *)
WorkerBounded ==
    LET calls(n) == Min({k \in 1..PoolMin : k * BatchSize >= PoolMin - n})
    IN  \A l \in Levels :
            Cardinality({i \in items : i.by = Worker /\ i.level = l})
                <= Max({n + calls(n) * LLMMax : n \in 0..PoolMin - 1})
=============================================================================
