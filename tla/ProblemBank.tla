----------------------------- MODULE ProblemBank ----------------------------
(***************************************************************************)
(* How a content_item gets its problems, and which wrong options a learner *)
(* is shown with one: generation_service, scripts/seed_content.py, and the *)
(* _select_distractors of study_service, placement_service and             *)
(* level_up_service, which are the same function three times.              *)
(*                                                                         *)
(* An entry is what the LLM or a seed file says of one word or grammar     *)
(* point.  Texts are values that are only compared; the prompt around a    *)
(* word is left out, but for what decides whether there is one: standalone *)
(* says that the word stands by itself in its example.                     *)
(***************************************************************************)
EXTENDS Integers, FiniteSets, FiniteSetsExt

CONSTANTS
    LLMEntries,       \* what the LLM may answer and passes validation
    FileEntries,      \* backend/seeds: the entries of each level's files
    FallbackEntries,  \* _SEED_VOCABULARY
    Levels,           \* MANAGED_LEVELS, in order: 1..n
    Wanted,           \* wrong options per problem: 3
    RowLimit          \* LIMIT of the distractor query: 20

None == "none"

ASSUME EntriesAssumption ==
    \A e \in LLMEntries \cup FallbackEntries \cup UNION {FileEntries[l] : l \in Levels} :
        /\ e.kind \in {"vocabulary", "grammar"}
        /\ e.standalone \in BOOLEAN /\ e.kanji \in BOOLEAN
        /\ e.word # "" /\ e.reading # "" /\ e.meaning # ""
(* As the files of backend/seeds are: a word or a grammar point appears     *)
(* once.                                                                   *)
ASSUME FilesAssumption ==
    \A l \in Levels :
        /\ IsFiniteSet(FileEntries[l])
        /\ \A e, d \in FileEntries[l] : e.kind = d.kind /\ e.word = d.word => e = d
(* As the fallback list of content_service is.                             *)
ASSUME FallbackAssumption ==
    /\ IsFiniteSet(FallbackEntries)
    /\ \A e \in FallbackEntries : e.kind = "vocabulary"
    /\ \A e, d \in FallbackEntries : e.word = d.word => e = d
ASSUME LimitsAssumption == Wanted \in Nat /\ RowLimit \in Nat

-----------------------------------------------------------------------------
Problem(type, answer, options) ==
    [type |-> type, answer |-> answer, options |-> options]

(* get_items_by_level_excluding: any RowLimit rows of the level and kind.  *)
Rows(pool, level, kind) ==
    LET S == {i \in pool : i.level = level /\ i.entry.kind = kind}
    IN  kSubset(Min({RowLimit, Cardinality(S)}), S)

(* Mutant: seen does not begin with the right answer.                      *)
AnyDistinct(values, correct) ==
    kSubset(Min({Wanted, Cardinality(values)}), values)

(* The loop over the rows: distinct values that are not the answer, up to  *)
(* Wanted of them.  Rows come in any order, so that these are any.         *)
Distinct(values, correct) ==
    LET S == values \ {correct} IN kSubset(Min({Wanted, Cardinality(S)}), S)

Collected(pool, level, kind, correct, field) ==
    UNION {Distinct({i.entry[field] : i \in rows}, correct) :
               rows \in Rows(pool, level, kind)}

-----------------------------------------------------------------------------
(* Mutant: the LLM's wrong options are taken as they are.                  *)
TrustLLM(e) == e.near

(* safe_cm: confusable_meanings without the answer.                        *)
Confusable(e) == e.near \ {e.meaning}

(* Mutant: a problem only where there are wrong options for it.            *)
BasicIfConfusable(e, reading) ==
    (IF Confusable(e) = {} THEN {} ELSE {Problem("MEANING", e.meaning, Confusable(e))})
      \cup (IF reading THEN {Problem("READING", e.reading, {})} ELSE {})
      \cup (IF e.standalone THEN {Problem("FILL", e.word, {})} ELSE {})

(* Problems every vocabulary entry gets: meaning always, the reading where *)
(* the caller says so, a blank where the word stands by itself.            *)
Basic(e, reading) ==
    {Problem("MEANING", e.meaning, Confusable(e))}
      \cup (IF reading THEN {Problem("READING", e.reading, {})} ELSE {})
      \cup (IF e.standalone THEN {Problem("FILL", e.word, {})} ELSE {})

(* Stored only if there are enough wrong options to store.                 *)
WithOptions(type, answer, options) ==
    IF Cardinality(options) < Wanted THEN {} ELSE {Problem(type, answer, options)}

(* _collect_meaning_distractors                                            *)
CollectMeanings(pool, level, correct) ==
    Collected(pool, level, "vocabulary", correct, "meaning")

ContextProblem(e, pool, level) ==
    IF ~e.standalone THEN {{}}
    ELSE {WithOptions("CONTEXT", e.meaning, o) : o \in CollectMeanings(pool, level, e.meaning)}

SynonymProblem(e, pool, level) ==
    IF e.synonym = None THEN {{}}
    ELSE {WithOptions("SYNONYM", e.synonym, o) : o \in CollectMeanings(pool, level, e.synonym)}

(* generate_vocabulary: the sets of problems it may create for e, beside   *)
(* the rows of pool.                                                       *)
GeneratedProblems(e, pool, level) ==
    {Basic(e, TRUE) \cup c \cup s : c \in ContextProblem(e, pool, level),
                                    s \in SynonymProblem(e, pool, level)}

(* seed_vocabulary asks for the reading of words with a kanji.  Of a grammar *)
(* entry, word stands for the grammar point and for its blank, near for the  *)
(* first Wanted wrong_patterns, and standalone says that the blank can be    *)
(* made.  The patterns are stored as they are.                              *)
GrammarProblems(e) ==
    IF e.standalone /\ e.near # {} THEN {Problem("GRAMMAR", e.word, e.near)} ELSE {}

SeedProblems(e) ==
    IF e.kind = "grammar" THEN GrammarProblems(e) ELSE Basic(e, e.kanji)

-----------------------------------------------------------------------------
(* _select_fill_blank_distractors: other words of the level and kind.       *)
FillBlanks(i, p, others) ==
    Collected(others, i.level, i.entry.kind, p.answer, "word")

(* The same by field_key.                                                  *)
FieldOptions(i, p, others) ==
    Collected(others, i.level, i.entry.kind, p.answer,
              IF p.type = "MEANING" THEN "meaning" ELSE "reading")

(* _select_distractors: the options that may be shown with problem p of     *)
(* item i.                                                                 *)
Stored == {"GRAMMAR", "CONTEXT", "SYNONYM"}

Offers(i, p, pool) ==
    LET others == pool \ {i}
    IN  CASE p.type \in Stored -> {p.options}
          [] p.type = "MEANING" /\ p.options # {} ->
                kSubset(Min({Wanted, Cardinality(p.options)}), p.options)
          [] p.type = "FILL" -> FillBlanks(i, p, others)
          [] OTHER -> FieldOptions(i, p, others)
=============================================================================
