-------------------------- MODULE ContentPool_proofs -------------------------
(***************************************************************************)
(* Proofs about ContentPool, for any number of requests, entries and       *)
(* levels.                                                                 *)
(***************************************************************************)
EXTENDS ContentPool, BoundedNaturals

-----------------------------------------------------------------------------
(* Problems.  Where wrong options are stored, the right one is not stored   *)
(* among them, unless they are wrong patterns that repeat the blank.        *)

Sound(e, p) ==
    /\ p = Problem(p.type, p.answer, p.options)
    /\ p.answer \notin p.options \/ (p.type = "GRAMMAR" /\ RepeatsBlank(e))
    /\ p.type = "MEANING" => p.answer = e.meaning

LEMMA ProblemFields ==
    ASSUME NEW type, NEW answer, NEW options
    PROVE  /\ Problem(type, answer, options).type = type
           /\ Problem(type, answer, options).answer = answer
           /\ Problem(type, answer, options).options = options
BY DEF Problem

LEMMA CollectedWrong ==
    ASSUME NEW pool, NEW level, NEW kind, NEW correct, NEW field,
           NEW o \in Collected(pool, level, kind, correct, field)
    PROVE  correct \notin o
<1>1. PICK rows \in Rows(pool, level, kind) :
         o \in Distinct({i.entry[field] : i \in rows}, correct)
  BY DEF Collected
<1>2. o \in SUBSET ({i.entry[field] : i \in rows} \ {correct})
  BY <1>1 DEF Distinct, kSubset
<1>3. QED
  BY <1>2

LEMMA BasicSound ==
    ASSUME NEW e, NEW reading \in BOOLEAN
    PROVE  Basic(e, reading) # {} /\ \A p \in Basic(e, reading) : Sound(e, p)
<1>1. Sound(e, Problem("MEANING", e.meaning, Confusable(e)))
  BY ProblemFields DEF Sound, Confusable
<1>2. Sound(e, Problem("READING", e.reading, {})) /\ Sound(e, Problem("FILL", e.word, {}))
  BY ProblemFields DEF Sound
<1>3. QED
  BY <1>1, <1>2 DEF Basic

LEMMA StoredSound ==
    ASSUME NEW e, NEW type, type # "MEANING", NEW answer, NEW options, answer \notin options
    PROVE  \A p \in WithOptions(type, answer, options) : Sound(e, p)
<1>1. Sound(e, Problem(type, answer, options))
  BY ProblemFields DEF Sound
<1>2. QED
  BY <1>1 DEF WithOptions

LEMMA GeneratedSound ==
    ASSUME NEW e, NEW pool, NEW level, NEW problems \in GeneratedProblems(e, pool, level)
    PROVE  problems # {} /\ \A p \in problems : Sound(e, p)
<1> DEFINE basic == Basic(e, TRUE)
           C == ContextProblem(e, pool, level)
           S == SynonymProblem(e, pool, level)
<1>a. problems \in {basic \cup c \cup s : c \in C, s \in S}
  BY DEF GeneratedProblems, Basic
<1>b. basic # {} /\ \A p \in basic : Sound(e, p)
  BY BasicSound
<1> HIDE DEF basic
<1>1. PICK c \in C, s \in S : problems = basic \cup c \cup s
  BY <1>a
<1>2. \A p \in c : Sound(e, p)
  <2>1. CASE c = {}
    BY <2>1
  <2>2. CASE c # {}
    <3>1. PICK o \in CollectMeanings(pool, level, e.meaning) :
             c = WithOptions("CONTEXT", e.meaning, o)
      BY <2>2 DEF ContextProblem
    <3>2. e.meaning \notin o
      BY CollectedWrong DEF CollectMeanings
    <3>3. QED
      BY <3>1, <3>2, StoredSound
  <2>3. QED
    BY <2>1, <2>2
<1>3. \A p \in s : Sound(e, p)
  <2>1. CASE s = {}
    BY <2>1
  <2>2. CASE s # {}
    <3>1. PICK o \in CollectMeanings(pool, level, e.synonym) :
             s = WithOptions("SYNONYM", e.synonym, o)
      BY <2>2 DEF SynonymProblem
    <3>2. e.synonym \notin o
      BY CollectedWrong DEF CollectMeanings
    <3>3. QED
      BY <3>1, <3>2, StoredSound
  <2>3. QED
    BY <2>1, <2>2
<1>4. QED
  BY <1>b, <1>1, <1>2, <1>3

LEMMA SeedSound ==
    ASSUME NEW l \in Levels, NEW e \in FileEntries[l]
    PROVE  /\ SeedProblems(e) = {} => Unaskable(e)
           /\ \A p \in SeedProblems(e) : Sound(e, p)
<1>1. CASE e.kind = "grammar"
  <2>1. CASE ~e.standalone \/ e.near = {}
    BY <1>1, <2>1 DEF SeedProblems, GrammarProblems, Unaskable
  <2>2. CASE e.standalone /\ e.near # {}
    <3>1. SeedProblems(e) = {Problem("GRAMMAR", e.word, e.near)}
      BY <1>1, <2>2 DEF SeedProblems, GrammarProblems
    <3>2. Sound(e, Problem("GRAMMAR", e.word, e.near))
      BY <1>1, ProblemFields DEF Sound, RepeatsBlank
    <3>3. QED
      BY <3>1, <3>2
  <2>3. QED
    BY <2>1, <2>2
<1>2. CASE e.kind # "grammar"
  <2>1. e.kanji \in BOOLEAN
    BY EntriesAssumption
  <2>2. QED
    BY <1>2, <2>1, BasicSound DEF SeedProblems
<1>3. QED
  BY <1>1, <1>2

LEMMA OffersWrong ==
    ASSUME NEW i, NEW p, NEW pool, Sound(i.entry, p), NEW o \in Offers(i, p, pool)
    PROVE  p.answer \notin o \/ (p.type = "GRAMMAR" /\ RepeatsBlank(i.entry))
<1>1. CASE p.type \in Stored
  <2>1. p.type # "MEANING" /\ p.type # "FILL"
    BY <1>1 DEF Stored
  <2>2. Offers(i, p, pool) = {p.options}
    BY <1>1, <2>1 DEF Offers
  <2>3. QED
    BY <2>2 DEF Sound
<1>2. CASE p.type \notin Stored /\ p.type = "MEANING" /\ p.options # {}
  <2>1. o \in SUBSET p.options
    BY <1>2 DEF Offers, kSubset
  <2>2. QED
    BY <2>1 DEF Sound
<1>3. CASE p.type \notin Stored /\ ~(p.type = "MEANING" /\ p.options # {})
  <2>1. o \in FillBlanks(i, p, pool \ {i}) \/ o \in FieldOptions(i, p, pool \ {i})
    BY <1>3 DEF Offers
  <2>2. QED
    BY <2>1, CollectedWrong DEF FillBlanks, FieldOptions
<1>4. QED
  BY <1>1, <1>2, <1>3

-----------------------------------------------------------------------------
(* Types.                                                                  *)

ItemRow(i) ==
    /\ i = NewItem(i.by, i.n, i.level, i.entry, i.source, i.problems)
    /\ IsItem(i)
    /\ \A p \in i.problems : Sound(i.entry, p)
    /\ i.problems = {} =>
          \/ i.entry \in FallbackEntries /\ i.by \in Req
          \/ Unaskable(i.entry) /\ i.by = Script

TxType(t) ==
    t \in [pc: Pc, level: Levels, kind: {t.kind}, count: Nat, got: Nat, saw: {t.saw},
           have: Nat, plan: [Levels -> Nat], fresh: {t.fresh}, todo: {t.todo}, turn: Nat]

(* Where a process can be.                                                 *)
Stages(p) ==
    IF p \in Req THEN {"idle", "pool", "generate", "seeds", "save", "ok", "error"}
    ELSE IF p = Worker THEN {"idle", "generate"}
    ELSE IF p = Script THEN {"idle", "save", "ok", "error"}
    ELSE {"idle", "enrich", "ok", "error"}

TxOK(p, t) ==
    /\ TxType(t) /\ t.pc \in Stages(p)
    /\ IsFiniteSet(t.fresh) /\ \A i \in t.fresh \cup t.todo : ItemRow(i)
    /\ t.pc \notin {"generate", "enrich"} => t.fresh = {}
    /\ p # Enrich => t.todo = {} /\ \A i \in t.fresh : i.by = p
    /\ p = Worker /\ t.pc = "generate" => t.plan[t.level] > 0

TxInv == tx = [p \in Proc |-> tx[p]] /\ \A p \in Proc : TxOK(p, tx[p])
ItemsInv == IsFiniteSet(items) /\ \A i \in items : ItemRow(i)
TypeInv == TxInv /\ ItemsInv /\ beside \in [Proc -> SUBSET Proc]

LEMMA Processes ==
    /\ Worker \in Proc /\ Script \in Proc /\ Enrich \in Proc /\ Req \subseteq Proc
    /\ Worker \notin Req /\ Script \notin Req /\ Enrich \notin Req
    /\ Worker # Script /\ Worker # Enrich /\ Script # Enrich
BY ProcAssumption DEF Proc, Worker, Script, Enrich

LEMMA NewItemFields ==
    ASSUME NEW p, NEW n, NEW level, NEW e, NEW source, NEW problems
    PROVE  LET i == NewItem(p, n, level, e, source, problems)
           IN  /\ i.by = p /\ i.n = n /\ i.level = level /\ i.entry = e
               /\ i.source = source /\ i.problems = problems
               /\ i = NewItem(i.by, i.n, i.level, i.entry, i.source, i.problems)
BY DEF NewItem

LEMMA StepTx ==
    ASSUME TxInv, NEW p \in Proc, NEW new, Step(p, new)
    PROVE  /\ tx' = [q \in Proc |-> tx'[q]] /\ tx'[p] = new
           /\ \A q \in Proc : q # p => tx'[q] = tx[q]
BY DEF Step, TxInv

LEMMA StepTxInv ==
    ASSUME TxInv, NEW p \in Proc, NEW new, Step(p, new), TxOK(p, new)
    PROVE  TxInv'
<1>1. /\ tx' = [q \in Proc |-> tx'[q]] /\ tx'[p] = new
      /\ \A q \in Proc : q # p => tx'[q] = tx[q]
  BY StepTx
<1>2. \A q \in Proc : TxOK(q, tx'[q])
  BY <1>1 DEF TxInv
<1>3. QED
  BY <1>1, <1>2 DEF TxInv

LEMMA LevelsFacts ==
    /\ Levels \in SUBSET Nat /\ IsFiniteSet(Levels) /\ Levels = 1..Cardinality(Levels)
    /\ Cardinality(Levels) \in Nat /\ 1 \in Levels
<1>1. Levels = 1..Cardinality(Levels) /\ IsFiniteSet(Levels) /\ Levels # {}
  BY SizesAssumption
<1>2. Cardinality(Levels) \in Nat
  BY <1>1, FS_CardinalityType
<1>3. QED
  BY <1>1, <1>2

LEMMA IdleType ==
    /\ TxType(Idle) /\ Idle.pc = "idle" /\ Idle.fresh = {} /\ Idle.todo = {}
    /\ Idle.plan = [l \in Levels |-> 0] /\ Idle.saw = {} /\ Idle.have = 0
    /\ \A p \in Proc : TxOK(p, Idle)
<1>1. TxType(Idle)
  BY LevelsFacts DEF TxType, Idle, Pc, Ended
<1>2. /\ Idle.pc = "idle" /\ Idle.fresh = {} /\ Idle.todo = {}
      /\ Idle.plan = [l \in Levels |-> 0] /\ Idle.saw = {} /\ Idle.have = 0
  BY DEF Idle
<1>3. \A p \in Proc : "idle" \in Stages(p)
  BY DEF Stages
<1>4. QED
  BY <1>1, <1>2, <1>3, FS_EmptySet DEF TxOK

LEMMA CloseType ==
    ASSUME TxInv, NEW p \in Proc, NEW outcome \in {"ok", "error"}, Close(p, outcome)
    PROVE  /\ TxInv' /\ tx' = [q \in Proc |-> tx'[q]]
           /\ tx'[p].pc = IF p = Worker THEN "idle" ELSE outcome
           /\ tx'[p].fresh = {} /\ tx'[p].todo = {}
           /\ \A q \in Proc : q # p => tx'[q] = tx[q]
<1> DEFINE closed == [Idle EXCEPT !.pc = outcome]
           new == IF p = Worker THEN Idle ELSE closed
<1>1. Step(p, new)
  BY DEF Close
<1>2. TxType(closed) /\ closed.pc = outcome /\ closed.fresh = {} /\ closed.todo = {}
  BY IdleType DEF TxType, Pc, Ended
<1> HIDE DEF closed
<1>3. p # Worker => outcome \in Stages(p)
  BY DEF Stages
<1>4. p # Worker => TxOK(p, closed)
  BY <1>2, <1>3, FS_EmptySet DEF TxOK
<1>5. TxOK(p, new) /\ new.fresh = {} /\ new.todo = {}
      /\ new.pc = IF p = Worker THEN "idle" ELSE outcome
  BY <1>2, <1>4, IdleType
<1> HIDE DEF new
<1>6. QED
  BY <1>1, <1>5, StepTx, StepTxInv

LEMMA WorkOnType ==
    ASSUME TxInv, NEW plan \in [Levels -> Nat], WorkOn(plan)
    PROVE  /\ TxInv' /\ \A q \in Proc : q # Worker => tx'[q] = tx[q]
           /\ tx'[Worker].fresh = {} /\ tx'[Worker].todo = {}
           /\ \/ tx'[Worker].pc = "idle"
              \/ tx'[Worker].pc = "generate" /\ tx'[Worker].plan = plan
<1> DEFINE left == {l \in Levels : plan[l] > 0}
<1>1. CASE left = {}
  <2>1. Close(Worker, "ok")
    BY <1>1 DEF WorkOn
  <2>2. QED
    BY <2>1, CloseType, Processes
<1>2. CASE left # {}
  <2> DEFINE l == Min(left)
             new == [Idle EXCEPT !.pc = "generate", !.level = l, !.plan = plan]
  <2>1. Step(Worker, new)
    BY <1>2 DEF WorkOn
  <2>2. l \in Levels /\ plan[l] > 0
    <3>1. left \in SUBSET Nat
      BY LevelsFacts
    <3>2. l \in left
      BY <1>2, <3>1, MinOfNaturals
    <3>3. QED
      BY <3>2
  <2> HIDE DEF l
  <2>3. /\ TxType(new) /\ new.pc = "generate" /\ new.fresh = {} /\ new.todo = {}
        /\ new.plan = plan /\ new.level = l
    BY <2>2, IdleType DEF TxType, Pc, Ended
  <2> HIDE DEF new
  <2>4. TxOK(Worker, new)
    <3>1. "generate" \in Stages(Worker)
      BY Processes DEF Stages
    <3>2. QED
      BY <2>2, <2>3, <3>1, FS_EmptySet DEF TxOK
  <2>5. QED
    BY <2>1, <2>3, <2>4, StepTx, StepTxInv, Processes
<1>3. QED
  BY <1>1, <1>2

-----------------------------------------------------------------------------
(* What a step does to its process and to the items.                       *)

LEMMA Images ==
    ASSUME NEW S, IsFiniteSet(S), NEW T, NEW f \in [S -> T],
           \A t \in T : \E e \in S : t = f[e]
    PROVE  /\ IsFiniteSet(T) /\ Cardinality(T) <= Cardinality(S)
           /\ (\A a, b \in S : f[a] = f[b] => a = b) => Cardinality(T) = Cardinality(S)
<1>1. f \in Surjection(S, T)
  BY DEF Surjection
<1>2. (\A a, b \in S : f[a] = f[b] => a = b) => f \in Injection(S, T)
  BY DEF Injection, IsInjective
<1>3. QED
  BY <1>1, <1>2, FS_Surjection

LEMMA OwnNumbers ==
    ASSUME TypeInv, NEW p \in Proc
    PROVE  /\ NextN(p) \in Nat \ {0} /\ IsFiniteSet(items \cup tx[p].fresh)
           /\ IsFiniteSet(tx[p].fresh) /\ Cardinality(tx[p].fresh) \in Nat
<1> DEFINE own == {i \in items \cup tx[p].fresh : i.by = p}
<1>1. IsFiniteSet(items) /\ IsFiniteSet(tx[p].fresh)
  BY DEF TypeInv, TxInv, TxOK, ItemsInv
<1>2. IsFiniteSet(items \cup tx[p].fresh)
  BY <1>1, FS_Union
<1>3. IsFiniteSet(own)
  BY <1>2, FS_Subset
<1>4. Cardinality(own) \in Nat
  BY <1>3, FS_CardinalityType
<1>5. NextN(p) = Cardinality(own) + 1
  BY DEF NextN
<1> HIDE DEF own
<1>6. QED
  BY <1>1, <1>2, <1>4, <1>5, FS_CardinalityType

LEMMA NumberedProperties ==
    ASSUME TypeInv, NEW p \in Proc, NEW S, IsFiniteSet(S)
    PROVE  /\ Numbered(p, S) \in [S -> NextN(p)..(NextN(p) + Cardinality(S) - 1)]
           /\ \A e, d \in S : e # d => Numbered(p, S)[e] # Numbered(p, S)[d]
<1> DEFINE c == Cardinality(S)
           n == NextN(p)
<1>1. c \in Nat /\ n \in Nat \ {0} /\ ExistsBijection(1..c, S)
  BY FS_CardinalityType, OwnNumbers
<1>2. Numbered(p, S) = CHOOSE f \in [S -> n..(n + c - 1)] : \A e, d \in S : e # d => f[e] # f[d]
  BY DEF Numbered
<1> HIDE DEF c, n
<1>3. \E f \in [S -> n..(n + c - 1)] : \A e, d \in S : e # d => f[e] # f[d]
  <2>1. PICK g : g \in Bijection(1..c, S)
    BY <1>1 DEF ExistsBijection
  <2>2. /\ g \in [1..c -> S]
        /\ \A a, b \in 1..c : g[a] = g[b] => a = b
        /\ \A e \in S : \E a \in 1..c : g[a] = e
    BY <2>1 DEF Bijection, Injection, Surjection, IsInjective
  <2> DEFINE at(e) == CHOOSE a \in 1..c : g[a] = e
             f == [e \in S |-> n + at(e) - 1]
  <2>3. \A e \in S : at(e) \in 1..c /\ g[at(e)] = e
    BY <2>2
  <2> HIDE DEF at
  <2>4. f \in [S -> n..(n + c - 1)]
    BY <1>1, <2>3
  <2>5. \A e, d \in S : e # d => f[e] # f[d]
    <3> SUFFICES ASSUME NEW e \in S, NEW d \in S, f[e] = f[d] PROVE e = d
      OBVIOUS
    <3>1. at(e) = at(d)
      BY <1>1, <2>3
    <3>2. QED
      BY <2>3, <3>1
  <2>6. QED
    BY <2>4, <2>5
<1>4. /\ Numbered(p, S) \in [S -> n..(n + c - 1)]
      /\ \A e, d \in S : e # d => Numbered(p, S)[e] # Numbered(p, S)[d]
  BY <1>2, <1>3
<1>5. QED
  BY <1>4 DEF c, n

LEMMA BeginGetStep ==
    ASSUME TypeInv, NEW r \in Req, BeginGet(r)
    PROVE  /\ TxInv' /\ items' = items /\ beside' = beside
           /\ tx'[r].pc = "pool" /\ \A q \in Proc : q # r => tx'[q] = tx[q]
<1>1. PICK l \in Levels, n \in Counts :
         Step(r, [Idle EXCEPT !.pc = "pool", !.level = l, !.count = n])
  BY DEF BeginGet
<1> DEFINE new == [Idle EXCEPT !.pc = "pool", !.level = l, !.count = n]
<1>2. n \in Nat
  BY SizesAssumption
<1>3. TxType(new) /\ new.pc = "pool" /\ new.fresh = {} /\ new.todo = {}
  BY <1>2, IdleType DEF TxType, Pc, Ended
<1>4. Step(r, new)
  BY <1>1
<1> HIDE DEF new
<1>5. TxOK(r, new)
  BY <1>3, Processes, FS_EmptySet DEF TxOK, Stages
<1>6. QED
  BY <1>3, <1>4, <1>5, StepTx, StepTxInv, Processes DEF BeginGet, TypeInv

LEMMA ReadPoolStep ==
    ASSUME TypeInv, NEW r \in Req, ReadPool(r)
    PROVE  /\ TxInv' /\ items' = items /\ beside' = beside
           /\ \A q \in Proc : q # r => tx'[q] = tx[q]
           /\ tx'[r].count = tx[r].count
           /\ \/ tx'[r].pc = "ok" /\ tx'[r].got = tx[r].count
              \/ tx'[r].pc = "generate" /\ tx'[r].fresh = {}
<1> DEFINE t == tx[r]
           rows == OfKind(t.level, "vocabulary")
<1>0. TxOK(r, t) /\ r \in Proc /\ t.pc = "pool" /\ t.fresh = {}
  BY Processes DEF TypeInv, TxInv, TxOK, ReadPool
<1>1. PICK n \in 0..Min({t.count, Cardinality(rows)}) :
         Step(r, [t EXCEPT !.got = n, !.pc = IF n = t.count THEN "ok" ELSE "generate"])
  BY DEF ReadPool
<1>2. n \in Nat
  <2>1. rows \in SUBSET items /\ IsFiniteSet(items)
    BY DEF OfKind, TypeInv, ItemsInv
  <2>2. Cardinality(rows) \in Nat /\ t.count \in Nat
    BY <1>0, <2>1, FS_Subset, FS_CardinalityType DEF TxOK, TxType
  <2> HIDE DEF rows, t
  <2>3. Min({t.count, Cardinality(rows)}) \in Int
    BY <2>2, MinOfTwo
  <2>4. QED
    BY <2>3
<1> DEFINE new == [t EXCEPT !.got = n, !.pc = IF n = t.count THEN "ok" ELSE "generate"]
<1>3. Step(r, new)
  BY <1>1
<1> HIDE DEF t
<1>4. /\ TxType(new) /\ new.pc = (IF n = t.count THEN "ok" ELSE "generate") /\ new.got = n
      /\ new.fresh = t.fresh /\ new.todo = t.todo /\ new.count = t.count
  BY <1>0, <1>2 DEF TxOK, TxType, Pc, Ended
<1> HIDE DEF new
<1>5. TxOK(r, new)
  BY <1>0, <1>4, Processes DEF TxOK, Stages
<1>6. /\ TxInv' /\ tx'[r] = new /\ \A q \in Proc : q # r => tx'[q] = tx[q]
  BY <1>0, <1>3, <1>5, StepTx, StepTxInv DEF TypeInv
<1>7. items' = items /\ beside' = beside
  BY DEF ReadPool
<1>8. QED
  BY <1>0, <1>4, <1>6, <1>7 DEF t

LEMMA ReadSeedsStep ==
    ASSUME TypeInv, NEW r \in Req, ReadSeeds(r)
    PROVE  /\ TxInv' /\ items' = items
           /\ beside' = [beside EXCEPT ![r] = {p \in Proc : tx[p].pc = "save"}]
           /\ \A q \in Proc : q # r => tx'[q] = tx[q]
           /\ tx[r].pc = "seeds" /\ tx'[r].pc = "save" /\ tx'[r].count = tx[r].count
           /\ tx'[r].level = tx[r].level
           /\ tx'[r].have = Cardinality(Seeds(tx[r].level, "vocabulary"))
           /\ tx'[r].saw = {i.entry.word : i \in Seeds(tx[r].level, "vocabulary")}
<1> DEFINE t == tx[r]
           rows == Seeds(t.level, "vocabulary")
           saw == {i.entry.word : i \in rows}
           have == Cardinality(rows)
<1>0. TxOK(r, t) /\ r \in Proc /\ t.pc = "seeds" /\ t.fresh = {}
  BY Processes DEF TypeInv, TxInv, TxOK, ReadSeeds
<1>1. have \in Nat
  <2>1. rows \in SUBSET items /\ IsFiniteSet(items)
    BY DEF Seeds, OfKind, TypeInv, ItemsInv
  <2>2. QED
    BY <2>1, FS_Subset, FS_CardinalityType
<1> DEFINE new == [t EXCEPT !.pc = "save", !.have = have, !.saw = saw]
<1>2. Step(r, new)
  BY DEF ReadSeeds
<1> HIDE DEF t, saw, have
<1>3. /\ TxType(new) /\ new.pc = "save" /\ new.have = have /\ new.saw = saw
      /\ new.fresh = t.fresh /\ new.todo = t.todo /\ new.count = t.count /\ new.level = t.level
  BY <1>0, <1>1 DEF TxOK, TxType, Pc, Ended
<1> HIDE DEF new
<1>4. TxOK(r, new)
  BY <1>0, <1>3, Processes DEF TxOK, Stages
<1>5. /\ TxInv' /\ tx'[r] = new /\ \A q \in Proc : q # r => tx'[q] = tx[q]
  BY <1>0, <1>2, <1>4, StepTx, StepTxInv DEF TypeInv
<1>6. items' = items /\ beside' = [beside EXCEPT ![r] = {p \in Proc : tx[p].pc = "save"}]
  BY DEF ReadSeeds
<1>7. QED
  BY <1>0, <1>3, <1>5, <1>6 DEF t, saw, have

(* The rows of a seeding process: one for each new entry, numbered on.     *)
SeedRows(p, S, level, problems) ==
    {NewItem(p, Numbered(p, S)[e], level, e, "seed", problems[e]) : e \in S}

LEMMA SeedRowsType ==
    ASSUME TypeInv, NEW p \in Proc, NEW S \in SUBSET Entries, IsFiniteSet(S),
           NEW level \in Levels, NEW problems,
           \A e \in S : \A q \in problems[e] : Sound(e, q),
           \A e \in S : problems[e] = {} =>
               \/ e \in FallbackEntries /\ p \in Req
               \/ Unaskable(e) /\ p = Script
    PROVE  /\ IsFiniteSet(SeedRows(p, S, level, problems))
           /\ \A i \in SeedRows(p, S, level, problems) : ItemRow(i)
<1> DEFINE f == Numbered(p, S)
           row(e) == NewItem(p, f[e], level, e, "seed", problems[e])
<1>1. f \in [S -> NextN(p)..(NextN(p) + Cardinality(S) - 1)]
      /\ NextN(p) \in Nat \ {0} /\ Cardinality(S) \in Nat
  BY NumberedProperties, OwnNumbers, FS_CardinalityType
<1>2. SeedRows(p, S, level, problems) = {row(e) : e \in S}
  BY DEF SeedRows
<1>3. IsFiniteSet({row(e) : e \in S})
  <2> DEFINE g == [e \in S |-> row(e)]
             T == {row(e) : e \in S}
  <2>1. g \in [S -> T] /\ \A i \in T : \E e \in S : i = g[e]
    OBVIOUS
  <2> HIDE DEF g, T
  <2>2. IsFiniteSet(T)
    BY <2>1, Images
  <2>3. QED
    BY <2>2 DEF T
<1>4. ASSUME NEW e \in S PROVE ItemRow(row(e))
  <2>1. f[e] \in Nat \ {0}
    BY <1>1
  <2> DEFINE i == row(e)
             n == f[e]
  <2>2. /\ i.by = p /\ i.n = n /\ i.level = level /\ i.entry = e
        /\ i.source = "seed" /\ i.problems = problems[e]
        /\ i = NewItem(i.by, i.n, i.level, i.entry, i.source, i.problems)
    BY NewItemFields
  <2> HIDE DEF i, n
  <2>3. IsItem(i)
    BY <2>1, <2>2 DEF IsItem, n
  <2>4. ItemRow(i)
    BY <2>2, <2>3 DEF ItemRow
  <2>5. QED
    BY <2>4 DEF i
<1>5. QED
  BY <1>2, <1>3, <1>4

NewSeeds(r) == {e \in FallbackEntries : e.word \notin tx[r].saw}

LEMMA SaveSeedsStep ==
    ASSUME TypeInv, NEW r \in Req, SaveSeeds(r)
    PROVE  /\ TxInv' /\ ItemsInv' /\ beside' = beside
           /\ \A q \in Proc : q # r => tx'[q] = tx[q]
           /\ tx[r].pc = "save" /\ tx'[r].pc = "ok" /\ tx'[r].count = tx[r].count
           /\ tx'[r].fresh = {} /\ tx[r].fresh = {}
           /\ tx'[r].got = tx[r].got + Min({tx[r].count - tx[r].got,
                                            tx[r].have + Cardinality(NewSeeds(r))})
           /\ IsFiniteSet(NewSeeds(r)) /\ NewSeeds(r) \subseteq FallbackEntries
           /\ items' = items \cup SeedRows(r, NewSeeds(r), tx[r].level, [e \in NewSeeds(r) |-> {}])
<1> DEFINE t == tx[r]
           S == NewSeeds(r)
           problems == [e \in S |-> {}]
           got == t.got + Min({t.count - t.got, t.have + Cardinality(S)})
           new == [Idle EXCEPT !.pc = "ok", !.count = t.count, !.got = got]
<1>0. TxOK(r, t) /\ r \in Proc /\ t.pc = "save" /\ t.fresh = {}
  BY Processes DEF TypeInv, TxInv, TxOK, SaveSeeds
<1>1. S \subseteq FallbackEntries /\ S \in SUBSET Entries /\ IsFiniteSet(S)
  <2>1. IsFiniteSet(FallbackEntries) /\ S \in SUBSET FallbackEntries
    BY FallbackAssumption DEF NewSeeds
  <2>2. QED
    BY <2>1, FS_Subset DEF Entries
<1>2. Step(r, new)
  BY DEF SaveSeeds, NewSeeds
<1>3. items' = items \cup SeedRows(r, S, t.level, problems)
  <2>1. items' = items \cup {NewItem(r, Numbered(r, S)[e], t.level, e, "seed", {}) : e \in S}
    BY DEF SaveSeeds, NewSeeds
  <2>2. SeedRows(r, S, t.level, problems)
          = {NewItem(r, Numbered(r, S)[e], t.level, e, "seed", {}) : e \in S}
    BY DEF SeedRows
  <2>3. QED
    BY <2>1, <2>2
<1>4. t.level \in Levels /\ t.got \in Nat /\ t.count \in Nat /\ t.have \in Nat
      /\ Cardinality(S) \in Nat
  BY <1>0, <1>1, FS_CardinalityType DEF TxOK, TxType
<1>5. /\ IsFiniteSet(SeedRows(r, S, t.level, problems))
      /\ \A i \in SeedRows(r, S, t.level, problems) : ItemRow(i)
  <2>1. \A e \in S : problems[e] = {} /\ e \in FallbackEntries
    BY <1>1
  <2> HIDE DEF problems, S, t
  <2>2. QED
    BY <1>0, <1>1, <1>4, <2>1, SeedRowsType
<1> HIDE DEF t, S, problems
<1>6. ItemsInv'
  <2>1. IsFiniteSet(items') /\ \A i \in items' : ItemRow(i)
    BY <1>3, <1>5, FS_Union DEF TypeInv, ItemsInv
  <2>2. QED
    BY <2>1 DEF ItemsInv
<1>7. got \in Nat
  <2>1. got = IF t.count - t.got <= t.have + Cardinality(S)
              THEN t.got + (t.count - t.got) ELSE t.got + (t.have + Cardinality(S))
    BY <1>4, MinOfTwo
  <2> HIDE DEF got
  <2>2. QED
    BY <1>4, <2>1
<1> HIDE DEF got
<1>8. /\ TxType(new) /\ new.pc = "ok" /\ new.got = got /\ new.count = t.count
      /\ new.fresh = {} /\ new.todo = {}
  BY <1>4, <1>7, IdleType DEF TxType, Pc, Ended
<1> HIDE DEF new
<1>9. TxOK(r, new)
  BY <1>8, Processes, FS_EmptySet DEF TxOK, Stages
<1>10. /\ TxInv' /\ tx'[r] = new /\ \A q \in Proc : q # r => tx'[q] = tx[q]
  BY <1>0, <1>2, <1>9, StepTx, StepTxInv DEF TypeInv
<1>11. beside' = beside
  BY DEF SaveSeeds
<1>12. QED
  BY <1>0, <1>1, <1>3, <1>6, <1>8, <1>10, <1>11 DEF t, S, got, problems

LEMMA AddItemStep ==
    ASSUME TypeInv, NEW p \in Req \cup {Worker}, AddItem(p)
    PROVE  /\ TxInv' /\ items' = items /\ beside' = beside
           /\ \A q \in Proc : q # p => tx'[q] = tx[q]
           /\ tx[p].pc = "generate" /\ tx'[p].pc = "generate"
           /\ tx'[p].level = tx[p].level /\ tx'[p].plan = tx[p].plan
           /\ tx'[p].count = tx[p].count /\ tx'[p].got = tx[p].got
           /\ Cardinality(tx[p].fresh) < LLMMax
           /\ \E e \in LLMEntries : \E problems :
                 tx'[p].fresh = tx[p].fresh \cup
                    {NewItem(p, NextN(p), tx[p].level, e, "llm", problems)}
<1> DEFINE t == tx[p]
           n == NextN(p)
<1>0. /\ TxOK(p, t) /\ p \in Proc /\ p # Enrich /\ t.pc = "generate" /\ Cardinality(t.fresh) < LLMMax
  BY Processes DEF TypeInv, TxInv, AddItem
<1>a. PICK e \in LLMEntries : \E problems \in GeneratedProblems(e, items \cup t.fresh, t.level) :
         Step(p, [t EXCEPT !.fresh = @ \cup {NewItem(p, n, t.level, e, "llm", problems)}])
  BY DEF AddItem
<1>1. PICK problems \in GeneratedProblems(e, items \cup t.fresh, t.level) :
         Step(p, [t EXCEPT !.fresh = @ \cup {NewItem(p, n, t.level, e, "llm", problems)}])
  BY <1>a
<1> DEFINE i == NewItem(p, n, t.level, e, "llm", problems)
           fresh == t.fresh \cup {i}
           new == [t EXCEPT !.fresh = fresh]
<1>2. problems # {} /\ \A q \in problems : Sound(e, q)
  BY <1>1, GeneratedSound
<1>3. n \in Nat \ {0} /\ t.level \in Levels
  BY <1>0, OwnNumbers DEF TxOK, TxType
<1>4. Step(p, new)
  BY <1>1
<1> HIDE DEF n, t
<1>5. /\ i.by = p /\ i.n = n /\ i.level = t.level /\ i.entry = e
      /\ i.source = "llm" /\ i.problems = problems
      /\ i = NewItem(i.by, i.n, i.level, i.entry, i.source, i.problems)
  BY NewItemFields
<1> HIDE DEF i
<1>6. ItemRow(i)
  BY <1>0, <1>1, <1>2, <1>3, <1>5 DEF ItemRow, IsItem, Entries
<1>7. IsFiniteSet(fresh) /\ \A j \in fresh : ItemRow(j) /\ j.by = p
  <2>1. IsFiniteSet(t.fresh) /\ \A j \in t.fresh : ItemRow(j) /\ j.by = p
    BY <1>0 DEF TxOK
  <2>2. QED
    BY <1>5, <1>6, <2>1, FS_AddElement
<1> HIDE DEF fresh
<1>8. /\ TxType(new) /\ new.pc = "generate" /\ new.fresh = fresh /\ new.todo = t.todo
      /\ new.level = t.level /\ new.plan = t.plan /\ new.count = t.count /\ new.got = t.got
  BY <1>0 DEF TxOK, TxType
<1> HIDE DEF new
<1>9. TxOK(p, new)
  BY <1>0, <1>7, <1>8 DEF TxOK
<1>10. /\ TxInv' /\ tx'[p] = new /\ \A q \in Proc : q # p => tx'[q] = tx[q]
  BY <1>0, <1>4, <1>9, StepTx, StepTxInv DEF TypeInv
<1>11. items' = items /\ beside' = beside
  BY DEF AddItem
<1>12. tx'[p].fresh = t.fresh \cup {NewItem(p, n, t.level, e, "llm", problems)}
  BY <1>8, <1>10 DEF fresh, i
<1>13. QED
  BY <1>0, <1>8, <1>10, <1>11, <1>12 DEF t, n

LEMMA SaveBatchStep ==
    ASSUME TypeInv, NEW p \in Req \cup {Worker}, SaveBatch(p)
    PROVE  /\ TxInv' /\ ItemsInv' /\ beside' = beside
           /\ items' = items \cup tx[p].fresh /\ tx[p].pc = "generate"
           /\ \A q \in Proc : q # p => tx'[q] = tx[q]
           /\ tx'[p].fresh = {}
           /\ p = Worker =>
                 /\ tx[p].plan[tx[p].level] > 0
                 /\ \/ tx'[p].pc = "idle"
                    \/ /\ tx'[p].pc = "generate"
                       /\ tx'[p].plan = [tx[p].plan EXCEPT ![tx[p].level] = @ - 1]
           /\ p \in Req =>
                 /\ tx'[p].got = tx[p].got + Cardinality(tx[p].fresh)
                 /\ tx'[p].count = tx[p].count
                 /\ tx'[p].pc = IF tx'[p].got >= tx[p].count THEN "ok" ELSE "seeds"
<1> DEFINE t == tx[p]
<1>0. /\ TxOK(p, t) /\ p \in Proc /\ p # Enrich /\ t.pc = "generate"
      /\ IsFiniteSet(t.fresh) /\ Cardinality(t.fresh) \in Nat
  BY Processes, OwnNumbers DEF TypeInv, TxInv, SaveBatch
<1>1. items' = items \cup t.fresh /\ beside' = beside
  BY DEF SaveBatch
<1>2. ItemsInv'
  <2>1. IsFiniteSet(items') /\ \A i \in items' : ItemRow(i)
    BY <1>0, <1>1, FS_Union DEF TypeInv, ItemsInv, TxOK
  <2>2. QED
    BY <2>1 DEF ItemsInv
<1>3. CASE p = Worker
  <2> DEFINE plan == [t.plan EXCEPT ![t.level] = @ - 1]
  <2>1. WorkOn(plan)
    BY <1>3 DEF SaveBatch
  <2>2. t.plan[t.level] > 0 /\ t.plan \in [Levels -> Nat] /\ t.level \in Levels
    BY <1>0, <1>3 DEF TxOK, TxType
  <2>3. plan \in [Levels -> Nat]
    BY <2>2
  <2> HIDE DEF plan, t
  <2>4. /\ TxInv' /\ \A q \in Proc : q # Worker => tx'[q] = tx[q]
        /\ tx'[Worker].fresh = {}
        /\ tx'[Worker].pc = "idle" \/ (tx'[Worker].pc = "generate" /\ tx'[Worker].plan = plan)
    BY <2>1, <2>3, WorkOnType DEF TypeInv
  <2>5. QED
    BY <1>0, <1>1, <1>2, <1>3, <2>2, <2>4, Processes DEF t, plan
<1>4. CASE p # Worker
  <2> DEFINE got == t.got + Cardinality(t.fresh)
             pc == IF got >= t.count THEN "ok" ELSE "seeds"
             new == [t EXCEPT !.got = got, !.fresh = {}, !.pc = pc]
  <2>1. Step(p, new) /\ p \in Req
    BY <1>4 DEF SaveBatch
  <2>2. got \in Nat
    BY <1>0 DEF TxOK, TxType
  <2>3. pc \in {"ok", "seeds"}
    OBVIOUS
  <2> HIDE DEF got, pc, t
  <2>4. /\ TxType(new) /\ new.pc = pc /\ new.got = got /\ new.fresh = {}
        /\ new.count = t.count /\ new.todo = t.todo
    BY <1>0, <2>2, <2>3 DEF TxOK, TxType, Pc, Ended
  <2> HIDE DEF new
  <2>5. TxOK(p, new)
    BY <1>0, <1>4, <2>1, <2>3, <2>4, FS_EmptySet DEF TxOK, Stages
  <2>6. /\ TxInv' /\ tx'[p] = new /\ \A q \in Proc : q # p => tx'[q] = tx[q]
    BY <1>0, <2>1, <2>5, StepTx, StepTxInv DEF TypeInv
  <2>7. QED
    BY <1>0, <1>1, <1>2, <1>4, <2>4, <2>6 DEF t, got, pc
<1>5. QED
  BY <1>3, <1>4

LEMMA LLMFailsStep ==
    ASSUME TypeInv, NEW p \in Req \cup {Worker}, LLMFails(p)
    PROVE  /\ TxInv' /\ items' = items /\ beside' = beside
           /\ \A q \in Proc : q # p => tx'[q] = tx[q]
           /\ tx[p].pc = "generate" /\ tx[p].fresh = {} /\ tx'[p].fresh = {}
           /\ p = Worker =>
                 \/ tx'[p].pc = "idle"
                 \/ /\ tx'[p].pc = "generate"
                    /\ tx'[p].plan = [tx[p].plan EXCEPT ![tx[p].level] = 0]
           /\ p \in Req => /\ tx'[p].pc = "seeds" /\ tx'[p].got = tx[p].got
                           /\ tx'[p].count = tx[p].count
<1> DEFINE t == tx[p]
<1>0. /\ TxOK(p, t) /\ p \in Proc /\ p # Enrich /\ t.pc = "generate" /\ t.fresh = {}
  BY Processes DEF TypeInv, TxInv, LLMFails
<1>1. items' = items /\ beside' = beside
  BY DEF LLMFails
<1>2. CASE p = Worker
  <2> DEFINE plan == [t.plan EXCEPT ![t.level] = 0]
  <2>1. WorkOn(plan)
    BY <1>2 DEF LLMFails
  <2>2. plan \in [Levels -> Nat]
    BY <1>0 DEF TxOK, TxType
  <2> HIDE DEF plan, t
  <2>3. /\ TxInv' /\ \A q \in Proc : q # Worker => tx'[q] = tx[q]
        /\ tx'[Worker].fresh = {}
        /\ tx'[Worker].pc = "idle" \/ (tx'[Worker].pc = "generate" /\ tx'[Worker].plan = plan)
    BY <2>1, <2>2, WorkOnType DEF TypeInv
  <2>4. QED
    BY <1>0, <1>1, <1>2, <2>3, Processes DEF t, plan
<1>3. CASE p # Worker
  <2> DEFINE new == [t EXCEPT !.pc = "seeds"]
  <2>1. Step(p, new) /\ p \in Req
    BY <1>3 DEF LLMFails
  <2> HIDE DEF t
  <2>2. /\ TxType(new) /\ new.pc = "seeds" /\ new.got = t.got /\ new.fresh = t.fresh
        /\ new.count = t.count /\ new.todo = t.todo
    BY <1>0 DEF TxOK, TxType, Pc, Ended
  <2> HIDE DEF new
  <2>3. TxOK(p, new)
    BY <1>0, <1>3, <2>1, <2>2 DEF TxOK, Stages
  <2>4. /\ TxInv' /\ tx'[p] = new /\ \A q \in Proc : q # p => tx'[q] = tx[q]
    BY <1>0, <2>1, <2>3, StepTx, StepTxInv DEF TypeInv
  <2>5. QED
    BY <1>0, <1>1, <1>3, <2>2, <2>4 DEF t
<1>4. QED
  BY <1>2, <1>3

Plan == [l \in Levels |-> IF PoolSize(l) < PoolMin
                          THEN Batches(PoolMin - PoolSize(l)) ELSE 0]

LEMMA BatchesOf ==
    ASSUME NEW needed \in Nat \ {0}
    PROVE  /\ Batches(needed) \in Nat \ {0}
           /\ Batches(needed) * BatchSize >= needed
           /\ (Batches(needed) - 1) * BatchSize < needed
<1>1. BatchSize \in Nat \ {0}
  BY SizesAssumption
<1> DEFINE a == needed + BatchSize - 1
           k == a \div BatchSize
<1>2. a \in Nat
  BY <1>1
<1>3. k \in Int /\ a = BatchSize * k + (a % BatchSize) /\ a % BatchSize \in 0..(BatchSize - 1)
  BY <1>1, <1>2
<1>4. Batches(needed) = k
  BY DEF Batches
<1> HIDE DEF k
<1>5. BatchSize * k >= needed /\ BatchSize * (k - 1) < needed
  BY <1>1, <1>2, <1>3
<1>6. k >= 1
  BY <1>1, <1>3, <1>5
<1>7. k * BatchSize >= needed /\ (k - 1) * BatchSize < needed
  BY <1>1, <1>3, <1>5
<1>8. QED
  BY <1>3, <1>4, <1>6, <1>7

LEMMA PoolSizes ==
    ASSUME ItemsInv, NEW l \in Levels
    PROVE  PoolSize(l) \in Nat /\ IsFiniteSet({i \in items : i.level = l})
<1> DEFINE rows == {i \in items : i.level = l}
<1>1. IsFiniteSet(rows)
  BY FS_Subset DEF ItemsInv
<1>2. PoolSize(l) = Cardinality(rows)
  BY DEF PoolSize
<1>3. QED
  BY <1>1, <1>2, FS_CardinalityType

LEMMA StartWorkerStep ==
    ASSUME TypeInv, StartWorker
    PROVE  /\ TxInv' /\ items' = items /\ beside' = beside
           /\ \A q \in Proc : q # Worker => tx'[q] = tx[q]
           /\ tx[Worker].pc = "idle" /\ tx'[Worker].fresh = {} /\ tx[Worker].fresh = {}
           /\ \/ tx'[Worker].pc = "idle"
              \/ tx'[Worker].pc = "generate" /\ tx'[Worker].plan = Plan
<1>1. Plan \in [Levels -> Nat]
  <2>1. ASSUME NEW l \in Levels, PoolSize(l) < PoolMin
        PROVE  Batches(PoolMin - PoolSize(l)) \in Nat
    <3>1. PoolMin - PoolSize(l) \in Nat \ {0}
      <4>1. PoolSize(l) \in Nat
        BY PoolSizes DEF TypeInv
      <4>2. PoolMin \in Nat
        BY SizesAssumption
      <4>3. QED
        BY <2>1, <4>1, <4>2
    <3>2. QED
      BY <3>1, BatchesOf
  <2>2. QED
    BY <2>1 DEF Plan
<1>2. WorkOn(Plan) /\ tx[Worker].pc = "idle" /\ items' = items /\ beside' = beside
  BY DEF StartWorker, Admitted, Plan
<1>3. tx[Worker].fresh = {}
  BY <1>2, Processes DEF TypeInv, TxInv, TxOK
<1>4. QED
  BY <1>1, <1>2, <1>3, WorkOnType DEF TypeInv

LEMMA StartScriptStep ==
    ASSUME TypeInv, StartScript
    PROVE  /\ TxInv' /\ items' = items
           /\ beside' = [beside EXCEPT ![Script] = @ \cup {p \in Proc : tx[p].pc = "save"}]
           /\ \A q \in Proc : q # Script => tx'[q] = tx[q]
           /\ tx[Script].pc = "idle" /\ tx'[Script].pc = "save" /\ tx'[Script].fresh = {}
           /\ tx'[Script].saw = {i.entry.word : i \in Seeds(tx'[Script].level, tx'[Script].kind)}
<1>1. PICK l \in Levels : \E kind \in {e.kind : e \in FileEntries[l]} :
         Step(Script, [Idle EXCEPT !.pc = "save", !.level = l, !.kind = kind,
                          !.saw = {i.entry.word : i \in Seeds(l, kind)}])
  BY DEF StartScript
<1>2. PICK kind \in {e.kind : e \in FileEntries[l]} :
         Step(Script, [Idle EXCEPT !.pc = "save", !.level = l, !.kind = kind,
                          !.saw = {i.entry.word : i \in Seeds(l, kind)}])
  BY <1>1
<1> DEFINE saw == {i.entry.word : i \in Seeds(l, kind)}
           new == [Idle EXCEPT !.pc = "save", !.level = l, !.kind = kind, !.saw = saw]
<1>3. Step(Script, new)
  BY <1>2
<1> HIDE DEF saw
<1>4. /\ TxType(new) /\ new.pc = "save" /\ new.level = l /\ new.kind = kind /\ new.saw = saw
      /\ new.fresh = {} /\ new.todo = {}
  BY IdleType DEF TxType, Pc, Ended
<1> HIDE DEF new
<1>5. TxOK(Script, new)
  BY <1>4, Processes, FS_EmptySet DEF TxOK, Stages
<1>6. /\ TxInv' /\ tx'[Script] = new /\ \A q \in Proc : q # Script => tx'[q] = tx[q]
  BY <1>3, <1>5, Processes, StepTx, StepTxInv DEF TypeInv
<1>7. /\ tx[Script].pc = "idle" /\ items' = items
      /\ beside' = [beside EXCEPT ![Script] = @ \cup {p \in Proc : tx[p].pc = "save"}]
  BY DEF StartScript, Admitted
<1>8. tx'[Script].saw = {i.entry.word : i \in Seeds(tx'[Script].level, tx'[Script].kind)}
  BY <1>4, <1>6 DEF saw
<1>9. QED
  BY <1>4, <1>6, <1>7, <1>8

NewFile ==
    {e \in FileEntries[tx[Script].level] : e.kind = tx[Script].kind /\ e.word \notin tx[Script].saw}

LEMMA SaveScriptStep ==
    ASSUME TypeInv, SaveScript
    PROVE  /\ TxInv' /\ ItemsInv' /\ beside' = beside
           /\ \A q \in Proc : q # Script => tx'[q] = tx[q]
           /\ tx[Script].pc = "save" /\ tx'[Script].pc = "ok"
           /\ tx[Script].level \in Levels
           /\ tx'[Script].fresh = {} /\ tx[Script].fresh = {}
           /\ IsFiniteSet(NewFile) /\ NewFile \subseteq FileEntries[tx[Script].level]
           /\ items' = items \cup SeedRows(Script, NewFile, tx[Script].level,
                                           [e \in NewFile |-> SeedProblems(e)])
<1> DEFINE t == tx[Script]
           S == NewFile
           problems == [e \in S |-> SeedProblems(e)]
<1>0. TxOK(Script, t) /\ t.pc = "save" /\ t.fresh = {} /\ t.level \in Levels
  BY Processes DEF TypeInv, TxInv, TxOK, TxType, SaveScript
<1>1. S \in SUBSET FileEntries[t.level] /\ S \in SUBSET Entries /\ IsFiniteSet(S)
  <2>1. IsFiniteSet(FileEntries[t.level]) /\ S \in SUBSET FileEntries[t.level]
    BY <1>0, FilesAssumption DEF NewFile
  <2>2. S \in SUBSET Entries
    BY <1>0, <2>1 DEF Entries
  <2>3. QED
    BY <2>1, <2>2, FS_Subset
<1>2. items' = items \cup SeedRows(Script, S, t.level, problems)
  <2>1. items' = items \cup {NewItem(Script, Numbered(Script, S)[e], t.level, e, "seed",
                                     SeedProblems(e)) : e \in S}
    BY DEF SaveScript, NewFile
  <2>2. SeedRows(Script, S, t.level, problems)
          = {NewItem(Script, Numbered(Script, S)[e], t.level, e, "seed",
                     SeedProblems(e)) : e \in S}
    BY DEF SeedRows
  <2>3. QED
    BY <2>1, <2>2
<1>3. \A e \in S : /\ problems[e] = {} => Unaskable(e)
                  /\ \A q \in problems[e] : Sound(e, q)
  BY <1>0, <1>1, SeedSound
<1>4. Close(Script, "ok") /\ beside' = beside
  BY DEF SaveScript
<1> HIDE DEF t, S, problems
<1>5. /\ IsFiniteSet(SeedRows(Script, S, t.level, problems))
      /\ \A i \in SeedRows(Script, S, t.level, problems) : ItemRow(i)
  BY <1>0, <1>1, <1>3, Processes, SeedRowsType
<1>6. ItemsInv'
  <2>1. IsFiniteSet(items') /\ \A i \in items' : ItemRow(i)
    BY <1>2, <1>5, FS_Union DEF TypeInv, ItemsInv
  <2>2. QED
    BY <2>1 DEF ItemsInv
<1>7. QED
  BY <1>0, <1>1, <1>2, <1>4, <1>6, CloseType, Processes DEF TypeInv, t, S, problems

(* The rows that the enriching script rewrites stay the same row.          *)
SameRow(i, j) ==
    /\ i.by = j.by /\ i.n = j.n /\ i.level = j.level
    /\ i.entry = j.entry /\ i.source = j.source

LEMMA EnrichedRow ==
    ASSUME NEW i, ItemRow(i), NEW options
    PROVE  ItemRow(Enriched(i, options)) /\ SameRow(i, Enriched(i, options))
<1> DEFINE rewritten(p) == IF p.type = "MEANING" THEN [p EXCEPT !.options = options \ {i.entry.meaning}]
                           ELSE p
           problems == {rewritten(p) : p \in i.problems}
           j == NewItem(i.by, i.n, i.level, i.entry, i.source, problems)
<1>1. Enriched(i, options) = j
  <2>1. Enriched(i, options) = [i EXCEPT !.problems = problems]
    BY DEF Enriched
  <2> HIDE DEF problems
  <2>2. i = NewItem(i.by, i.n, i.level, i.entry, i.source, i.problems)
    BY DEF ItemRow
  <2>3. [i EXCEPT !.problems = problems] = j
    BY <2>2 DEF NewItem
  <2>4. QED
    BY <2>1, <2>3
<1>2. ASSUME NEW p \in i.problems PROVE Sound(i.entry, rewritten(p))
  <2>1. Sound(i.entry, p)
    BY DEF ItemRow
  <2>2. CASE p.type # "MEANING"
    BY <2>1, <2>2
  <2>3. CASE p.type = "MEANING"
    <3> DEFINE o == options \ {i.entry.meaning}
               q == Problem(p.type, p.answer, o)
    <3>1. p = Problem(p.type, p.answer, p.options) /\ p.answer = i.entry.meaning
      BY <2>1, <2>3 DEF Sound
    <3>2. [p EXCEPT !.options = o] = q
      BY <3>1 DEF Problem
    <3>3. p.answer \notin o
      BY <3>1
    <3> HIDE DEF o
    <3>4. q.type = p.type /\ q.answer = p.answer /\ q.options = o
      BY ProblemFields
    <3> HIDE DEF q
    <3>5. Sound(i.entry, q)
      <4>1. q = Problem(q.type, q.answer, q.options)
        BY <3>4 DEF q
      <4>2. QED
        BY <3>1, <3>3, <3>4, <4>1 DEF Sound
    <3>6. rewritten(p) = q
      BY <2>3, <3>2 DEF o
    <3>7. QED
      BY <3>5, <3>6
  <2>4. QED
    BY <2>2, <2>3
<1>3. problems = {} => i.problems = {}
  OBVIOUS
<1>4. \A q \in problems : Sound(i.entry, q)
  BY <1>2
<1> HIDE DEF problems
<1>5. /\ j.by = i.by /\ j.n = i.n /\ j.level = i.level /\ j.entry = i.entry
      /\ j.source = i.source /\ j.problems = problems
      /\ j = NewItem(j.by, j.n, j.level, j.entry, j.source, j.problems)
  BY NewItemFields
<1> HIDE DEF j
<1>6. ItemRow(j) /\ SameRow(i, j)
  BY <1>3, <1>4, <1>5 DEF ItemRow, IsItem, SameRow
<1>7. QED
  BY <1>1, <1>6

LEMMA OverwrittenType ==
    ASSUME ItemsInv, NEW F, IsFiniteSet(F), \A i \in F : ItemRow(i)
    PROVE  IsFiniteSet(Overwritten(F)) /\ \A i \in Overwritten(F) : ItemRow(i)
<1> DEFINE kept == {i \in items : Key(i) \notin {Key(j) : j \in F}}
<1>1. kept \in SUBSET items /\ Overwritten(F) = kept \cup F
  BY DEF Overwritten
<1>2. IsFiniteSet(kept)
  BY <1>1, FS_Subset DEF ItemsInv
<1>3. QED
  BY <1>1, <1>2, FS_Union DEF ItemsInv

LEMMA StartEnrichStep ==
    ASSUME TypeInv, StartEnrich
    PROVE  /\ TxInv' /\ items' = items /\ beside' = beside
           /\ \A q \in Proc : q # Enrich => tx'[q] = tx[q]
           /\ tx'[Enrich].pc = "enrich" /\ tx'[Enrich].fresh = {}
           /\ tx'[Enrich].todo \subseteq items
<1> DEFINE todo == {i \in items : ToEnrich(i)}
           new == [Idle EXCEPT !.pc = "enrich", !.todo = todo]
<1>1. Step(Enrich, new)
  BY DEF StartEnrich
<1>2. todo \subseteq items /\ \A i \in todo : ItemRow(i)
  BY DEF TypeInv, ItemsInv
<1> HIDE DEF todo
<1>3. TxType(new) /\ new.pc = "enrich" /\ new.todo = todo /\ new.fresh = {}
  BY IdleType DEF TxType, Pc, Ended
<1> HIDE DEF new
<1>4. TxOK(Enrich, new)
  BY <1>2, <1>3, Processes, FS_EmptySet DEF TxOK, Stages
<1>5. /\ TxInv' /\ tx'[Enrich] = new /\ \A q \in Proc : q # Enrich => tx'[q] = tx[q]
  BY <1>1, <1>4, Processes, StepTx, StepTxInv DEF TypeInv
<1>6. QED
  BY <1>2, <1>3, <1>5 DEF StartEnrich

LEMMA EnrichOneStep ==
    ASSUME TypeInv, EnrichOne
    PROVE  /\ TxInv' /\ ItemsInv' /\ beside' = beside
           /\ \A q \in Proc : q # Enrich => tx'[q] = tx[q]
           /\ tx[Enrich].pc = "enrich" /\ tx'[Enrich].pc = "enrich"
           /\ \E i \in tx[Enrich].todo : \E j :
                /\ SameRow(i, j) /\ ItemRow(j) /\ tx'[Enrich].todo = tx[Enrich].todo \ {i}
                /\ \/ tx'[Enrich].fresh = tx[Enrich].fresh /\ items' = items
                   \/ tx'[Enrich].fresh = tx[Enrich].fresh \cup {j} /\ items' = items
                   \/ tx'[Enrich].fresh = {} /\ items' = Overwritten(tx[Enrich].fresh \cup {j})
<1> DEFINE t == tx[Enrich]
<1>0. /\ TxOK(Enrich, t) /\ t.pc = "enrich" /\ ItemsInv /\ beside' = beside
      /\ IsFiniteSet(t.fresh) /\ \A i \in t.fresh : ItemRow(i)
  BY Processes DEF TypeInv, TxInv, TxOK, EnrichOne
<1>1. PICK i \in t.todo, options \in LLMOptions \cup {{}} :
         LET u == [t EXCEPT !.todo = @ \ {i}, !.turn = @ + 1]
             fresh == u.fresh \cup {Enriched(i, options)}
         IN  IF options \ {i.entry.meaning} = {}
             THEN Step(Enrich, u) /\ UNCHANGED items
             ELSE IF u.turn % EnrichBatch = 0
             THEN Step(Enrich, [u EXCEPT !.fresh = {}]) /\ items' = Overwritten(fresh)
             ELSE Step(Enrich, [u EXCEPT !.fresh = fresh]) /\ UNCHANGED items
  BY DEF EnrichOne
<1> DEFINE u == [t EXCEPT !.todo = @ \ {i}, !.turn = @ + 1]
           j == Enriched(i, options)
           fresh == t.fresh \cup {j}
<1>2. ItemRow(i) /\ ItemRow(j) /\ SameRow(i, j)
  BY <1>0, EnrichedRow DEF TxOK
<1> HIDE DEF j
<1>3. IsFiniteSet(fresh) /\ \A k \in fresh : ItemRow(k)
  BY <1>0, <1>2, FS_AddElement
<1>4. u.fresh = t.fresh
  BY <1>0 DEF TxOK, TxType
<1>5. \/ Step(Enrich, u) /\ items' = items
      \/ Step(Enrich, [u EXCEPT !.fresh = {}]) /\ items' = Overwritten(fresh)
      \/ Step(Enrich, [u EXCEPT !.fresh = fresh]) /\ items' = items
  BY <1>1, <1>4 DEF j
<1> HIDE DEF t, fresh
<1>6. TxType(u) /\ u.pc = "enrich" /\ u.todo = t.todo \ {i} /\ u.fresh = t.fresh
  <2>1. t.turn + 1 \in Nat
    BY <1>0 DEF TxOK, TxType
  <2> DEFINE turn == t.turn + 1
             todo == t.todo \ {i}
  <2>2. turn \in Nat /\ u = [t EXCEPT !.todo = todo, !.turn = turn]
    BY <2>1
  <2> HIDE DEF turn, todo
  <2>3. TxType(u) /\ u.pc = "enrich" /\ u.todo = todo /\ u.fresh = t.fresh
    BY <1>0, <2>2 DEF TxOK, TxType
  <2>4. QED
    BY <2>3 DEF todo
<1> HIDE DEF u
<1>7. ASSUME NEW F, IsFiniteSet(F), \A k \in F : ItemRow(k),
             NEW w, w = [u EXCEPT !.fresh = F] \/ (w = u /\ F = t.fresh), Step(Enrich, w)
      PROVE  /\ TxInv' /\ \A q \in Proc : q # Enrich => tx'[q] = tx[q]
             /\ tx'[Enrich].pc = "enrich" /\ tx'[Enrich].todo = t.todo \ {i}
             /\ tx'[Enrich].fresh = F
  <2>1. TxType(w) /\ w.pc = "enrich" /\ w.todo = t.todo \ {i} /\ w.fresh = F
    <3>1. CASE w = u /\ F = t.fresh
      BY <1>6, <3>1
    <3>2. CASE w = [u EXCEPT !.fresh = F]
      BY <1>6, <3>2 DEF TxType
    <3>3. QED
      BY <1>7, <3>1, <3>2
  <2>2. TxOK(Enrich, w)
    BY <1>0, <1>7, <2>1, Processes DEF TxOK, Stages
  <2>3. QED
    BY <1>7, <2>1, <2>2, Processes, StepTx, StepTxInv DEF TypeInv
<1>8. CASE Step(Enrich, u) /\ items' = items
  <2>1. ItemsInv'
    BY <1>0, <1>8 DEF ItemsInv
  <2>2. QED
    BY <1>0, <1>2, <1>7, <1>8, <2>1 DEF t
<1>9. CASE Step(Enrich, [u EXCEPT !.fresh = {}]) /\ items' = Overwritten(fresh)
  <2>1. ItemsInv'
    BY <1>0, <1>3, <1>9, OverwrittenType DEF ItemsInv
  <2>2. /\ TxInv' /\ \A q \in Proc : q # Enrich => tx'[q] = tx[q]
        /\ tx'[Enrich].pc = "enrich" /\ tx'[Enrich].todo = t.todo \ {i}
        /\ tx'[Enrich].fresh = {}
    BY <1>7, <1>9, FS_EmptySet
  <2>3. QED
    BY <1>0, <1>2, <1>9, <2>1, <2>2 DEF t, fresh
<1>10. CASE Step(Enrich, [u EXCEPT !.fresh = fresh]) /\ items' = items
  <2>1. ItemsInv'
    BY <1>0, <1>10 DEF ItemsInv
  <2>2. /\ TxInv' /\ \A q \in Proc : q # Enrich => tx'[q] = tx[q]
        /\ tx'[Enrich].pc = "enrich" /\ tx'[Enrich].todo = t.todo \ {i}
        /\ tx'[Enrich].fresh = fresh
    BY <1>3, <1>7, <1>10
  <2>3. QED
    BY <1>0, <1>2, <1>10, <2>1, <2>2 DEF t, fresh
<1>11. QED
  BY <1>5, <1>8, <1>9, <1>10

LEMMA FinishEnrichStep ==
    ASSUME TypeInv, FinishEnrich
    PROVE  /\ TxInv' /\ ItemsInv' /\ beside' = beside
           /\ \A q \in Proc : q # Enrich => tx'[q] = tx[q]
           /\ tx[Enrich].pc = "enrich" /\ tx'[Enrich].pc = "ok"
           /\ tx'[Enrich].fresh = {} /\ tx'[Enrich].todo = {}
           /\ items' = Overwritten(tx[Enrich].fresh)
<1>1. /\ Close(Enrich, "ok") /\ items' = Overwritten(tx[Enrich].fresh)
      /\ beside' = beside /\ tx[Enrich].pc = "enrich"
  BY DEF FinishEnrich
<1>2. /\ ItemsInv /\ IsFiniteSet(tx[Enrich].fresh) /\ \A i \in tx[Enrich].fresh : ItemRow(i)
  BY Processes DEF TypeInv, TxInv, TxOK
<1>3. ItemsInv'
  BY <1>1, <1>2, OverwrittenType DEF ItemsInv
<1>4. QED
  BY <1>1, <1>3, CloseType, Processes DEF TypeInv

LEMMA FailStep ==
    ASSUME TypeInv, NEW p \in Proc, Fail(p)
    PROVE  /\ TxInv' /\ items' = items /\ beside' = beside
           /\ \A q \in Proc : q # p => tx'[q] = tx[q]
           /\ tx'[p].pc \in {"idle", "error"} /\ tx'[p].fresh = {} /\ tx'[p].todo = {}
           /\ p = Worker => tx'[p].pc = "idle"
           /\ tx[p].pc \notin {"idle", "ok", "error"}
BY CloseType DEF Fail, Running, Ended, TypeInv

LEMMA StepTypeInv == TypeInv /\ [Next]_vars => TypeInv'
<1> SUFFICES ASSUME TypeInv, [Next]_vars PROVE TypeInv'
  OBVIOUS
<1>1. ASSUME TxInv', ItemsInv' \/ items' = items, beside' = beside PROVE TypeInv'
  BY <1>1 DEF TypeInv, ItemsInv
<1>2. ASSUME TxInv', items' = items, NEW p \in Proc, NEW S \in SUBSET Proc,
             beside' = [beside EXCEPT ![p] = S]
      PROVE  TypeInv'
  BY <1>2 DEF TypeInv, ItemsInv
<1>3. ASSUME NEW r \in Req, BeginGet(r) \/ ReadPool(r) \/ ReadSeeds(r) \/ SaveSeeds(r)
      PROVE  TypeInv'
  <2>1. CASE ReadSeeds(r)
    <3> DEFINE S == {p \in Proc : tx[p].pc = "save"}
    <3>1. TxInv' /\ items' = items /\ beside' = [beside EXCEPT ![r] = S] /\ S \in SUBSET Proc
      BY <2>1, ReadSeedsStep
    <3> HIDE DEF S
    <3>2. QED
      BY <1>2, <3>1, Processes
  <2>2. CASE ~ReadSeeds(r)
    BY <1>1, <1>3, <2>2, BeginGetStep, ReadPoolStep, SaveSeedsStep
  <2>3. QED
    BY <2>1, <2>2
<1>4. ASSUME NEW p \in Req \cup {Worker}, Generating(p) PROVE TypeInv'
  BY <1>1, <1>4, AddItemStep, SaveBatchStep, LLMFailsStep DEF Generating
<1>5. CASE StartScript
  <2> DEFINE S == beside[Script] \cup {p \in Proc : tx[p].pc = "save"}
  <2>1. TxInv' /\ items' = items /\ beside' = [beside EXCEPT ![Script] = S] /\ S \in SUBSET Proc
    BY <1>5, StartScriptStep, Processes DEF TypeInv
  <2> HIDE DEF S
  <2>2. QED
    BY <1>2, <2>1, Processes
<1>6. CASE StartWorker \/ SaveScript \/ StartEnrich \/ EnrichOne \/ FinishEnrich
  BY <1>1, <1>6, StartWorkerStep, SaveScriptStep, StartEnrichStep, EnrichOneStep,
     FinishEnrichStep
<1>7. ASSUME NEW p \in Proc, Fail(p) PROVE TypeInv'
  BY <1>1, <1>7, FailStep
<1>8. CASE UNCHANGED vars
  BY <1>8 DEF vars, TypeInv, TxInv, ItemsInv
<1>9. QED
  BY <1>3, <1>4, <1>5, <1>6, <1>7, <1>8 DEF Next

LEMMA InitTypeInv == Init => TypeInv
<1> SUFFICES ASSUME Init PROVE TypeInv
  OBVIOUS
<1>1. tx = [p \in Proc |-> Idle] /\ items = {} /\ beside = [p \in Proc |-> {}]
  BY DEF Init
<1>2. TxInv
  BY <1>1, IdleType DEF TxInv
<1>3. ItemsInv
  BY <1>1, FS_EmptySet DEF ItemsInv
<1>4. QED
  BY <1>1, <1>2, <1>3 DEF TypeInv

LEMMA TypeInvariant == Spec => []TypeInv
BY InitTypeInv, StepTypeInv, PTL DEF Spec

(* Stored or collected, no option is the right answer: every way to create  *)
(* a vocabulary problem, rewrite it or collect options for it takes the     *)
(* answer out (generate_vocabulary, seed_vocabulary, enrich_mcq_meaning,    *)
(* _select_distractors).  seed_grammar stores the patterns of its file as   *)
(* they are, so that a grammar point whose patterns repeat its blank is     *)
(* excepted; nothing is assumed of the files.                              *)
THEOREM WrongOptionsWrong == Spec => []OptionsWrong
<1>1. TypeInv => OptionsWrong
  <2> SUFFICES ASSUME TypeInv, NEW i \in items, NEW p \in i.problems,
                      NEW options \in Offers(i, p, items)
               PROVE  p.answer \notin options \/ (p.type = "GRAMMAR" /\ RepeatsBlank(i.entry))
    BY DEF OptionsWrong
  <2>1. Sound(i.entry, p)
    BY DEF TypeInv, ItemsInv, ItemRow
  <2>2. QED
    BY <2>1, OffersWrong
<1>2. QED
  BY <1>1, TypeInvariant, PTL

(* An item without a problem comes from the fallback list, or from a        *)
(* grammar file that gives it no blank or no wrong pattern                 *)
(* (_save_seed_items, generate_vocabulary, seed_content).                  *)
THEOREM OthersHaveProblems == Spec => []ProblemlessAreFallback
<1>1. TypeInv => ProblemlessAreFallback
  BY DEF TypeInv, ItemsInv, ItemRow, ProblemlessAreFallback
<1>2. QED
  BY <1>1, TypeInvariant, PTL

-----------------------------------------------------------------------------
(* Keys.  The rows of a process are numbered 1, 2, ... with those it has not *)
(* committed last; the enriching script only rewrites rows that are there.  *)

Mine(I, p) == {i \in I : i.by = p}
KeysOnce(I) == \A i, j \in I : i.by = j.by /\ i.n = j.n => i = j
Dense(I, p) == \A i \in I : i.by = p => i.n <= Cardinality(Mine(I, p))

(* Of p with the committed rows I and the fresh rows F.                    *)
KeysOK(p, I, F) ==
    /\ KeysOnce(I \cup F) /\ I \cap F = {}
    /\ Dense(I, p) /\ Dense(I \cup F, p)

(* Of the enriching script with rows rewritten F and rows left T.          *)
EnrichOK(I, F, T) ==
    /\ KeysOnce(F) /\ KeysOnce(T)
    /\ \A i \in F, j \in T : ~(i.by = j.by /\ i.n = j.n)
    /\ \A i \in F \cup T : \E j \in I : SameRow(i, j)

KeyInv ==
    /\ \A p \in Proc \ {Enrich} : KeysOK(p, items, tx[p].fresh)
    /\ EnrichOK(items, tx[Enrich].fresh, tx[Enrich].todo)

Numbers(I, p) == {i.n : i \in Mine(I, p)}

LEMMA MineNumbers ==
    ASSUME NEW I, IsFiniteSet(I), KeysOnce(I), NEW p
    PROVE  /\ IsFiniteSet(Mine(I, p)) /\ Cardinality(Mine(I, p)) \in Nat
           /\ Cardinality(Numbers(I, p)) = Cardinality(Mine(I, p))
<1> DEFINE M == Mine(I, p)
           T == Numbers(I, p)
           f == [i \in M |-> i.n]
<1>1. M \in SUBSET I
  BY DEF Mine
<1>2. IsFiniteSet(M) /\ Cardinality(M) \in Nat
  BY <1>1, FS_Subset, FS_CardinalityType
<1>3. f \in [M -> T] /\ \A t \in T : \E i \in M : t = f[i]
  BY DEF Numbers
<1>4. \A i, j \in M : f[i] = f[j] => i = j
  BY DEF Mine, KeysOnce
<1> HIDE DEF M, T, f
<1>5. Cardinality(T) = Cardinality(M)
  BY <1>2, <1>3, <1>4, Images
<1>6. QED
  BY <1>2, <1>5 DEF M, T

LEMMA DenseNumbers ==
    ASSUME NEW I, NEW J, IsFiniteSet(I), IsFiniteSet(J), KeysOnce(I), KeysOnce(J), NEW p,
           Numbers(I, p) = Numbers(J, p), Dense(I, p)
    PROVE  Dense(J, p)
<1>1. Cardinality(Mine(I, p)) = Cardinality(Mine(J, p))
  BY MineNumbers
<1>2. ASSUME NEW j \in J, j.by = p PROVE j.n <= Cardinality(Mine(J, p))
  <2>1. j.n \in Numbers(I, p)
    BY <1>2 DEF Numbers, Mine
  <2>2. PICK i \in I : i.by = p /\ i.n = j.n
    BY <2>1 DEF Numbers, Mine
  <2>3. QED
    BY <1>1, <2>2 DEF Dense
<1>3. QED
  BY <1>2 DEF Dense

(* A row numbered next, or several of them.                                *)
LEMMA KeysGrow ==
    ASSUME NEW p, NEW I, IsFiniteSet(I), KeysOnce(I), Dense(I, p),
           NEW R, IsFiniteSet(R), KeysOnce(R), \A i \in R : i.by = p,
           \A i \in I : i.n \in Nat,
           \A i \in R : i.n \in (Cardinality(Mine(I, p)) + 1)..(Cardinality(Mine(I, p)) + Cardinality(R))
    PROVE  KeysOnce(I \cup R) /\ Dense(I \cup R, p) /\ I \cap R = {}
<1> DEFINE c == Cardinality(Mine(I, p))
           r == Cardinality(R)
<1>1. c \in Nat /\ r \in Nat /\ IsFiniteSet(Mine(I, p))
  BY MineNumbers, FS_CardinalityType
<1>2. Mine(I \cup R, p) = Mine(I, p) \cup R
  BY DEF Mine
<1>3. \A i \in I : i.by = p => i.n <= c
  BY DEF Dense
<1>4. \A i \in R : i.n \in (c + 1)..(c + r)
  OBVIOUS
<1> HIDE DEF c, r
<1>5. \A i \in I, j \in R : ~(i.by = p /\ i.n = j.n)
  BY <1>1, <1>3, <1>4
<1>6. I \cap R = {}
  BY <1>5
<1>7. KeysOnce(I \cup R)
  BY <1>5 DEF KeysOnce
<1>8. Cardinality(Mine(I \cup R, p)) = c + r
  <2>1. Mine(I, p) \cap R = {}
    BY <1>6 DEF Mine
  <2>2. Cardinality(Mine(I, p) \cap R) = 0
    BY <2>1, FS_EmptySet
  <2>3. Cardinality(Mine(I, p) \cup R)
          = Cardinality(Mine(I, p)) + Cardinality(R) - Cardinality(Mine(I, p) \cap R)
    BY <1>1, FS_Union
  <2>4. Cardinality(Mine(I, p) \cup R) = c + r - 0
    BY <2>2, <2>3 DEF c, r
  <2>5. c + r - 0 = c + r
    BY <1>1
  <2>6. QED
    BY <1>2, <2>4, <2>5
<1>9. Dense(I \cup R, p)
  <2> SUFFICES ASSUME NEW i \in I \cup R, i.by = p PROVE i.n <= c + r
    BY <1>8 DEF Dense
  <2>1. CASE i \in I
    BY <1>1, <1>3, <2>1
  <2>2. CASE i \in R
    BY <1>1, <1>4, <2>2
  <2>3. QED
    BY <2>1, <2>2
<1>10. QED
  BY <1>6, <1>7, <1>9

LEMMA RowsFinite ==
    ASSUME TypeInv, NEW p \in Proc
    PROVE  /\ IsFiniteSet(items) /\ IsFiniteSet(tx[p].fresh) /\ IsFiniteSet(items \cup tx[p].fresh)
           /\ \A i \in items \cup tx[p].fresh : ItemRow(i) /\ i.n \in Nat \ {0} /\ i.by \in Proc
           /\ p # Enrich => \A i \in tx[p].fresh : i.by = p
<1>1. IsFiniteSet(items) /\ IsFiniteSet(tx[p].fresh) /\ IsFiniteSet(items \cup tx[p].fresh)
  BY OwnNumbers DEF TypeInv, ItemsInv
<1>2. \A i \in items \cup tx[p].fresh : ItemRow(i)
  BY DEF TypeInv, ItemsInv, TxInv, TxOK
<1>3. p # Enrich => \A i \in tx[p].fresh : i.by = p
  BY DEF TypeInv, TxInv, TxOK
<1>4. QED
  BY <1>1, <1>2, <1>3 DEF ItemRow, IsItem

(* Nothing is published and no row begun: fresh rows stay or are dropped.   *)
LEMMA KeysKept ==
    ASSUME TypeInv, KeyInv, items' = items,
           \A p \in Proc : tx'[p].fresh = tx[p].fresh \/ tx'[p].fresh = {},
           tx'[Enrich].todo \subseteq tx[Enrich].todo
    PROVE  KeyInv'
<1>1. ASSUME NEW p \in Proc \ {Enrich} PROVE KeysOK(p, items, tx'[p].fresh)
  <2>1. KeysOK(p, items, tx[p].fresh)
    BY DEF KeyInv
  <2>2. CASE tx'[p].fresh = tx[p].fresh
    BY <2>1, <2>2
  <2>3. CASE tx'[p].fresh = {}
    <3>1. items \cup {} = items /\ items \cap {} = {}
      OBVIOUS
    <3>2. KeysOnce(items) /\ Dense(items, p)
      BY <2>1 DEF KeysOK, KeysOnce
    <3>3. KeysOK(p, items, {})
      BY <3>1, <3>2 DEF KeysOK
    <3>4. QED
      BY <2>3, <3>3
  <2>4. QED
    BY <2>2, <2>3
<1>2. EnrichOK(items, tx'[Enrich].fresh, tx'[Enrich].todo)
  <2>1. EnrichOK(items, tx[Enrich].fresh, tx[Enrich].todo)
    BY DEF KeyInv
  <2>2. tx'[Enrich].fresh \subseteq tx[Enrich].fresh
    BY Processes
  <2>3. QED
    BY <2>1, <2>2 DEF EnrichOK, KeysOnce
<1>3. QED
  BY <1>1, <1>2 DEF KeyInv

(* p publishes the rows R.                                                 *)
LEMMA KeysPublished ==
    ASSUME TypeInv, KeyInv, NEW p \in Proc \ {Enrich}, NEW R, items' = items \cup R,
           \A i \in R : i.by = p,
           KeysOnce(items \cup R), Dense(items \cup R, p),
           tx'[p].fresh = {}, \A q \in Proc : q # p => tx'[q] = tx[q]
    PROVE  KeyInv'
<1>1. KeysOK(p, items', tx'[p].fresh)
  <2>1. (items \cup R) \cup {} = items \cup R /\ (items \cup R) \cap {} = {}
    OBVIOUS
  <2>2. QED
    BY <2>1 DEF KeysOK
<1>2. ASSUME NEW q \in Proc \ {Enrich}, q # p PROVE KeysOK(q, items', tx'[q].fresh)
  <2> DEFINE F == tx[q].fresh
  <2>1. KeysOK(q, items, F) /\ tx'[q].fresh = F /\ \A i \in F : i.by = q
    BY <1>2, RowsFinite DEF KeyInv
  <2> HIDE DEF F
  <2>2. KeysOnce((items \cup R) \cup F)
    BY <1>2, <2>1 DEF KeysOK, KeysOnce
  <2>3. (items \cup R) \cap F = {}
    BY <1>2, <2>1 DEF KeysOK
  <2>4. Mine(items \cup R, q) = Mine(items, q) /\ Mine((items \cup R) \cup F, q) = Mine(items \cup F, q)
    BY <1>2 DEF Mine
  <2>5. Dense(items \cup R, q) /\ Dense((items \cup R) \cup F, q)
    BY <1>2, <2>1, <2>4 DEF KeysOK, Dense
  <2>6. QED
    BY <2>1, <2>2, <2>3, <2>5 DEF KeysOK
<1>3. EnrichOK(items', tx'[Enrich].fresh, tx'[Enrich].todo)
  BY Processes DEF KeyInv, EnrichOK
<1>4. QED
  BY <1>1, <1>2, <1>3 DEF KeyInv

LEMMA SeedRowsKeys ==
    ASSUME TypeInv, KeyInv, NEW p \in Proc \ {Enrich}, tx[p].fresh = {},
           NEW S \in SUBSET Entries, IsFiniteSet(S), NEW level, NEW problems
    PROVE  LET R == SeedRows(p, S, level, problems)
           IN  /\ \A i \in R : i.by = p
               /\ KeysOnce(items \cup R) /\ Dense(items \cup R, p)
<1> DEFINE f == Numbered(p, S)
           R == SeedRows(p, S, level, problems)
           row == [e \in S |-> NewItem(p, f[e], level, e, "seed", problems[e])]
           c == Cardinality(Mine(items, p))
           s == Cardinality(S)
<1>1. NextN(p) = c + 1
  <2>1. {i \in items \cup tx[p].fresh : i.by = p} = Mine(items, p)
    BY DEF Mine
  <2>2. QED
    BY <2>1 DEF NextN
<1>2. KeysOnce(items) /\ Dense(items, p)
  BY DEF KeyInv, KeysOK, KeysOnce
<1>3. c \in Nat /\ s \in Nat
  BY <1>2, RowsFinite, MineNumbers, FS_CardinalityType
<1>4. f \in [S -> NextN(p)..(NextN(p) + s - 1)] /\ \A e, d \in S : e # d => f[e] # f[d]
  BY NumberedProperties
<1>5. \A e \in S : f[e] \in (c + 1)..(c + s)
  <2>1. NextN(p) + s - 1 = c + s
    BY <1>1, <1>3
  <2>2. QED
    BY <1>1, <1>4, <2>1
<1>6. \A e \in S : row[e].by = p /\ row[e].n = f[e] /\ row[e].entry = e
  BY NewItemFields
<1>7. row \in [S -> R] /\ \A i \in R : \E e \in S : i = row[e]
  BY DEF SeedRows
<1> HIDE DEF row, R, f, s, c
<1>8. IsFiniteSet(R) /\ Cardinality(R) = s
  <2>1. \A e, d \in S : row[e] = row[d] => e = d
    BY <1>6
  <2>2. QED
    BY <1>7, <2>1, Images DEF s
<1>9. \A i \in R : i.by = p /\ i.n \in (c + 1)..(c + s)
  BY <1>5, <1>6, <1>7
<1>10. KeysOnce(R)
  <2> SUFFICES ASSUME NEW i \in R, NEW j \in R, i.n = j.n PROVE i = j
    BY DEF KeysOnce
  <2>1. PICK e \in S : i = row[e]
    BY <1>7
  <2>2. PICK d \in S : j = row[d]
    BY <1>7
  <2>3. QED
    BY <1>4, <1>6, <2>1, <2>2
<1>11. KeysOnce(items \cup R) /\ Dense(items \cup R, p)
  <2>1. IsFiniteSet(items) /\ \A i \in items : i.n \in Nat
    BY RowsFinite
  <2>2. \A i \in R : i.n \in (Cardinality(Mine(items, p)) + 1)..(Cardinality(Mine(items, p)) + Cardinality(R))
    BY <1>8, <1>9 DEF c
  <2>3. QED
    BY <1>2, <1>8, <1>9, <1>10, <2>1, <2>2, KeysGrow
<1>12. QED
  BY <1>9, <1>11 DEF R

(* p begins one row.                                                       *)
LEMMA KeysBegun ==
    ASSUME TypeInv, KeyInv, NEW p \in Proc \ {Enrich}, NEW i, i.by = p, i.n = NextN(p),
           items' = items, tx'[p].fresh = tx[p].fresh \cup {i},
           \A q \in Proc : q # p => tx'[q] = tx[q]
    PROVE  KeyInv'
<1> DEFINE F == tx[p].fresh
           c == Cardinality(Mine(items \cup F, p))
<1>1. NextN(p) = c + 1
  BY DEF NextN, Mine
<1>2. KeysOK(p, items, F)
  BY DEF KeyInv
<1>3. IsFiniteSet(items \cup F) /\ \A j \in items \cup F : j.n \in Nat
  BY RowsFinite
<1>4. IsFiniteSet({i}) /\ Cardinality({i}) = 1 /\ KeysOnce({i})
  BY FS_Singleton DEF KeysOnce
<1>5. KeysOnce(items \cup F) /\ Dense(items \cup F, p)
  BY <1>2 DEF KeysOK
<1>6. c \in Nat
  BY <1>3, <1>5, MineNumbers
<1>7. \A j \in {i} : j.by = p /\ j.n \in (c + 1)..(c + Cardinality({i}))
  BY <1>1, <1>4, <1>6
<1> HIDE DEF F
<1>8. /\ KeysOnce((items \cup F) \cup {i}) /\ Dense((items \cup F) \cup {i}, p)
      /\ (items \cup F) \cap {i} = {}
  BY <1>3, <1>4, <1>5, <1>7, KeysGrow
<1>9. (items \cup F) \cup {i} = items \cup (F \cup {i})
  OBVIOUS
<1>10. KeysOK(p, items, F \cup {i})
  <2>1. items \cap (F \cup {i}) = {}
    BY <1>2, <1>8 DEF KeysOK
  <2>2. QED
    BY <1>2, <1>8, <1>9, <2>1 DEF KeysOK
<1>11. \A q \in Proc \ {Enrich} : KeysOK(q, items', tx'[q].fresh)
  BY <1>10 DEF KeyInv, F
<1>12. QED
  BY <1>11, Processes DEF KeyInv

(* The enriching script commits.                                           *)
LEMMA KeysOverwritten ==
    ASSUME TypeInv, KeyInv, NEW F, IsFiniteSet(F), \A i \in F : ItemRow(i), KeysOnce(F),
           \A i \in F : \E j \in items : SameRow(i, j),
           items' = Overwritten(F), NEW T, T \subseteq tx[Enrich].todo,
           tx'[Enrich].todo = T, tx'[Enrich].fresh = {},
           \A q \in Proc : q # Enrich => tx'[q] = tx[q]
    PROVE  KeyInv'
<1> DEFINE J == Overwritten(F)
<1>1. IsFiniteSet(J) /\ \A i \in J : ItemRow(i)
  BY OverwrittenType DEF TypeInv
<1>2. \A i \in J : i \in F \/ (i \in items /\ \A k \in F : ~(i.by = k.by /\ i.n = k.n))
  BY DEF Overwritten, Key
<1>3. \A i \in items : \E j \in J : SameRow(i, j)
  <2> SUFFICES ASSUME NEW i \in items PROVE \E j \in J : SameRow(i, j)
    OBVIOUS
  <2>1. CASE Key(i) \notin {Key(j) : j \in F}
    <3>1. i \in J
      BY <2>1 DEF Overwritten
    <3>2. QED
      BY <3>1 DEF SameRow
  <2>2. CASE Key(i) \in {Key(j) : j \in F}
    <3>1. PICK j \in F : i.by = j.by /\ i.n = j.n
      BY <2>2 DEF Key
    <3>2. PICK k \in items : SameRow(j, k)
      OBVIOUS
    <3>3. k = i
      <4>1. KeysOnce(items)
        BY Processes DEF KeyInv, KeysOK, KeysOnce
      <4>2. QED
        BY <3>1, <3>2, <4>1 DEF SameRow, KeysOnce
    <3>4. j \in J
      BY DEF Overwritten
    <3>5. QED
      BY <3>2, <3>3, <3>4 DEF SameRow
  <2>3. QED
    BY <2>1, <2>2
<1>4. \A j \in J : \E i \in items : SameRow(i, j)
  BY <1>2 DEF SameRow
<1> HIDE DEF J
<1>5. ASSUME NEW p \in Proc \ {Enrich} PROVE KeysOK(p, J, tx[p].fresh)
  <2> DEFINE G == tx[p].fresh
  <2>1. KeysOK(p, items, G)
    BY DEF KeyInv
  <2>2. IsFiniteSet(items) /\ IsFiniteSet(G)
    BY RowsFinite
  <2> HIDE DEF G
  <2>3. J \cap G = {}
    <3> SUFFICES ASSUME NEW j \in J, j \in G PROVE FALSE
      OBVIOUS
    <3>1. PICK i \in items : SameRow(i, j)
      BY <1>4
    <3>2. i = j
      BY <2>1, <3>1 DEF KeysOK, KeysOnce, SameRow
    <3>3. QED
      BY <2>1, <3>2 DEF KeysOK
  <2>4. KeysOnce(J)
    <3> SUFFICES ASSUME NEW i \in J, NEW j \in J, i.by = j.by, i.n = j.n PROVE i = j
      BY DEF KeysOnce
    <3>1. CASE i \in F /\ j \in F
      BY <3>1 DEF KeysOnce
    <3>2. CASE i \notin F \/ j \notin F
      <4>1. i \in items /\ j \in items
        BY <1>2, <3>2
      <4>2. QED
        BY <2>1, <4>1 DEF KeysOK, KeysOnce
    <3>3. QED
      BY <3>1, <3>2
  <2>5. KeysOnce(J \cup G)
    <3> SUFFICES ASSUME NEW i \in J, NEW j \in G, i.by = j.by, i.n = j.n PROVE FALSE
      BY <2>1, <2>4 DEF KeysOnce, KeysOK
    <3>1. PICK k \in items : SameRow(k, i)
      BY <1>4
    <3>2. k = j
      BY <2>1, <3>1 DEF KeysOK, KeysOnce, SameRow
    <3>3. QED
      BY <2>1, <3>2 DEF KeysOK
  <2>6. Numbers(items, p) = Numbers(J, p) /\ Numbers(items \cup G, p) = Numbers(J \cup G, p)
    <3>1. \A i \in items : \E j \in J : i.by = j.by /\ i.n = j.n
      BY <1>3 DEF SameRow
    <3>2. \A j \in J : \E i \in items : i.by = j.by /\ i.n = j.n
      BY <1>4 DEF SameRow
    <3>3. QED
      BY <3>1, <3>2 DEF Numbers, Mine
  <2>7. Dense(J, p)
    <3>1. KeysOnce(items) /\ Dense(items, p)
      BY <2>1 DEF KeysOK, KeysOnce
    <3>2. QED
      BY <1>1, <2>2, <2>4, <2>6, <3>1, DenseNumbers
  <2>8. Dense(J \cup G, p)
    <3>1. IsFiniteSet(items \cup G) /\ IsFiniteSet(J \cup G)
      BY <1>1, <2>2, FS_Union
    <3>2. KeysOnce(items \cup G) /\ Dense(items \cup G, p)
      BY <2>1 DEF KeysOK
    <3>3. QED
      BY <2>5, <2>6, <3>1, <3>2, DenseNumbers
  <2>9. QED
    BY <2>3, <2>5, <2>7, <2>8 DEF KeysOK, G
<1>6. EnrichOK(J, {}, T)
  <2>1. EnrichOK(items, tx[Enrich].fresh, tx[Enrich].todo)
    BY DEF KeyInv
  <2>2. \A i \in T : \E j \in J : SameRow(i, j)
    <3> SUFFICES ASSUME NEW i \in T PROVE \E j \in J : SameRow(i, j)
      OBVIOUS
    <3>1. PICK k \in items : SameRow(i, k)
      BY <2>1 DEF EnrichOK
    <3>2. PICK j \in J : SameRow(k, j)
      BY <1>3
    <3>3. QED
      BY <3>1, <3>2 DEF SameRow
  <2>3. QED
    BY <2>1, <2>2 DEF EnrichOK, KeysOnce
<1>7. QED
  BY <1>5, <1>6 DEF KeyInv, J

LEMMA StepKeyInv == TypeInv /\ KeyInv /\ [Next]_vars => KeyInv'
<1> SUFFICES ASSUME TypeInv, KeyInv, [Next]_vars PROVE KeyInv'
  OBVIOUS
<1>1. ASSUME NEW p \in Proc, items' = items, tx'[p].fresh \in {{}, tx[p].fresh},
             p = Enrich => tx'[p].todo \subseteq tx[p].todo,
             \A q \in Proc : q # p => tx'[q] = tx[q]
      PROVE  KeyInv'
  <2>1. \A q \in Proc : tx'[q].fresh = tx[q].fresh \/ tx'[q].fresh = {}
    BY <1>1
  <2>2. tx'[Enrich].todo \subseteq tx[Enrich].todo
    BY <1>1, Processes
  <2>3. QED
    BY <1>1, <2>1, <2>2, KeysKept
<1>2. ASSUME NEW r \in Req, BeginGet(r) \/ ReadPool(r) \/ ReadSeeds(r) \/ SaveSeeds(r)
      PROVE  KeyInv'
  <2>1. CASE BeginGet(r) \/ ReadPool(r) \/ ReadSeeds(r)
    <3>1. /\ items' = items /\ \A q \in Proc : q # r => tx'[q] = tx[q]
          /\ tx'[r].pc \in {"pool", "ok", "generate", "save"} /\ TxInv'
          /\ tx'[r].pc = "generate" => tx'[r].fresh = {}
      BY <2>1, BeginGetStep, ReadPoolStep, ReadSeedsStep
    <3>2. tx'[r].fresh = {}
      BY <3>1, Processes DEF TxInv, TxOK
    <3>3. QED
      BY <1>1, <3>1, <3>2, Processes
  <2>2. CASE SaveSeeds(r)
    <3> DEFINE S == NewSeeds(r)
               problems == [e \in S |-> {}]
               R == SeedRows(r, S, tx[r].level, problems)
    <3>1. /\ \A q \in Proc : q # r => tx'[q] = tx[q]
          /\ tx'[r].fresh = {} /\ tx[r].fresh = {} /\ items' = items \cup R
          /\ IsFiniteSet(S) /\ S \subseteq FallbackEntries
      BY <2>2, SaveSeedsStep
    <3>2. S \in SUBSET Entries /\ r \in Proc \ {Enrich}
      BY <3>1, Processes DEF Entries
    <3> HIDE DEF S, problems
    <3>3. (\A i \in R : i.by = r) /\ KeysOnce(items \cup R) /\ Dense(items \cup R, r)
      BY <3>1, <3>2, SeedRowsKeys
    <3> HIDE DEF R
    <3>4. QED
      BY <3>1, <3>2, <3>3, KeysPublished
  <2>3. QED
    BY <1>2, <2>1, <2>2
<1>3. ASSUME NEW p \in Req \cup {Worker}, Generating(p) PROVE KeyInv'
  <2>0. p \in Proc \ {Enrich}
    BY Processes
  <2>1. CASE AddItem(p)
    <3>1. /\ items' = items /\ \A q \in Proc : q # p => tx'[q] = tx[q]
          /\ \E e \in LLMEntries : \E problems :
                tx'[p].fresh = tx[p].fresh \cup
                   {NewItem(p, NextN(p), tx[p].level, e, "llm", problems)}
      BY <2>1, AddItemStep
    <3>2. PICK e \in LLMEntries : \E problems :
             tx'[p].fresh = tx[p].fresh \cup
                {NewItem(p, NextN(p), tx[p].level, e, "llm", problems)}
      BY <3>1
    <3>3. PICK problems : tx'[p].fresh = tx[p].fresh \cup
             {NewItem(p, NextN(p), tx[p].level, e, "llm", problems)}
      BY <3>2
    <3> DEFINE i == NewItem(p, NextN(p), tx[p].level, e, "llm", problems)
    <3>4. i.by = p /\ i.n = NextN(p)
      BY NewItemFields
    <3>5. tx'[p].fresh = tx[p].fresh \cup {i}
      BY <3>3
    <3> HIDE DEF i
    <3>6. QED
      BY <2>0, <3>1, <3>4, <3>5, KeysBegun
  <2>2. CASE SaveBatch(p)
    <3> DEFINE R == tx[p].fresh
    <3>1. /\ items' = items \cup R /\ tx'[p].fresh = {}
          /\ \A q \in Proc : q # p => tx'[q] = tx[q]
      BY <2>2, SaveBatchStep
    <3>2. KeysOnce(items \cup R) /\ Dense(items \cup R, p)
      BY <2>0 DEF KeyInv, KeysOK
    <3>3. \A i \in R : i.by = p
      BY <2>0, RowsFinite
    <3> HIDE DEF R
    <3>4. QED
      BY <2>0, <3>1, <3>2, <3>3, KeysPublished
  <2>3. CASE LLMFails(p)
    BY <1>1, <2>0, <2>3, LLMFailsStep
  <2>4. QED
    BY <1>3, <2>1, <2>2, <2>3 DEF Generating
<1>4. CASE StartWorker
  BY <1>1, <1>4, StartWorkerStep, Processes
<1>5. CASE StartScript
  BY <1>1, <1>5, StartScriptStep, Processes
<1>6. CASE SaveScript
  <2> DEFINE S == NewFile
             problems == [e \in S |-> SeedProblems(e)]
             R == SeedRows(Script, S, tx[Script].level, problems)
  <2>1. /\ \A q \in Proc : q # Script => tx'[q] = tx[q]
        /\ tx'[Script].fresh = {} /\ tx[Script].fresh = {} /\ items' = items \cup R
        /\ IsFiniteSet(S) /\ S \subseteq FileEntries[tx[Script].level] /\ tx[Script].level \in Levels
    BY <1>6, SaveScriptStep
  <2>2. S \in SUBSET Entries /\ Script \in Proc \ {Enrich}
    BY <2>1, Processes DEF Entries
  <2> HIDE DEF S, problems
  <2>3. (\A i \in R : i.by = Script) /\ KeysOnce(items \cup R) /\ Dense(items \cup R, Script)
    BY <2>1, <2>2, SeedRowsKeys
  <2> HIDE DEF R
  <2>4. QED
    BY <2>1, <2>2, <2>3, KeysPublished
<1>7. CASE StartEnrich
  <2>1. /\ items' = items /\ \A q \in Proc : q # Enrich => tx'[q] = tx[q]
        /\ tx'[Enrich].fresh = {} /\ tx'[Enrich].todo \subseteq items
    BY <1>7, StartEnrichStep
  <2>2. KeysOnce(items)
    BY Processes DEF KeyInv, KeysOK, KeysOnce
  <2>3. EnrichOK(items, {}, tx'[Enrich].todo)
    BY <2>1, <2>2 DEF EnrichOK, KeysOnce, SameRow
  <2>4. QED
    BY <2>1, <2>3 DEF KeyInv
<1>8. CASE EnrichOne
  <2> DEFINE F == tx[Enrich].fresh
             T == tx[Enrich].todo
  <2>1. /\ TxInv' /\ \A q \in Proc : q # Enrich => tx'[q] = tx[q]
        /\ \E i \in T : \E j :
             /\ SameRow(i, j) /\ ItemRow(j) /\ tx'[Enrich].todo = T \ {i}
             /\ \/ tx'[Enrich].fresh = F /\ items' = items
                \/ tx'[Enrich].fresh = F \cup {j} /\ items' = items
                \/ tx'[Enrich].fresh = {} /\ items' = Overwritten(F \cup {j})
    BY <1>8, EnrichOneStep
  <2>2. PICK i \in T : \E j :
             /\ SameRow(i, j) /\ ItemRow(j) /\ tx'[Enrich].todo = T \ {i}
             /\ \/ tx'[Enrich].fresh = F /\ items' = items
                \/ tx'[Enrich].fresh = F \cup {j} /\ items' = items
                \/ tx'[Enrich].fresh = {} /\ items' = Overwritten(F \cup {j})
    BY <2>1
  <2>3. PICK j :
             /\ SameRow(i, j) /\ ItemRow(j) /\ tx'[Enrich].todo = T \ {i}
             /\ \/ tx'[Enrich].fresh = F /\ items' = items
                \/ tx'[Enrich].fresh = F \cup {j} /\ items' = items
                \/ tx'[Enrich].fresh = {} /\ items' = Overwritten(F \cup {j})
    BY <2>2
  <2>4. EnrichOK(items, F, T)
    BY DEF KeyInv
  <2> HIDE DEF F, T
  <2>5. /\ KeysOnce(F \cup {j}) /\ KeysOnce(T \ {i})
        /\ \A k \in F \cup {j}, l \in T \ {i} : ~(k.by = l.by /\ k.n = l.n)
        /\ \A k \in (F \cup {j}) \cup (T \ {i}) : \E l \in items : SameRow(k, l)
    <3>1. KeysOnce(F \cup {j}) /\ KeysOnce(T \ {i})
      BY <2>3, <2>4 DEF EnrichOK, KeysOnce, SameRow
    <3>2. \A k \in F \cup {j}, l \in T \ {i} : ~(k.by = l.by /\ k.n = l.n)
      BY <2>3, <2>4 DEF EnrichOK, KeysOnce, SameRow
    <3>3. \A k \in F \cup (T \ {i}) : \E l \in items : SameRow(k, l)
      BY <2>4 DEF EnrichOK
    <3>4. \E l \in items : SameRow(j, l)
      <4>1. PICK l \in items : SameRow(i, l)
        BY <2>4 DEF EnrichOK
      <4>2. SameRow(j, l)
        BY <2>3, <4>1 DEF SameRow
      <4>3. QED
        BY <4>2
    <3>5. QED
      BY <3>1, <3>2, <3>3, <3>4
  <2>6. CASE tx'[Enrich].fresh = F /\ items' = items
    <3>1. tx'[Enrich].fresh \in {{}, tx[Enrich].fresh} /\ tx'[Enrich].todo \subseteq tx[Enrich].todo
      BY <2>3, <2>6 DEF F, T
    <3>2. QED
      BY <1>1, <2>1, <2>6, <3>1, Processes
  <2>7. CASE tx'[Enrich].fresh = F \cup {j} /\ items' = items
    <3>1. EnrichOK(items, F \cup {j}, T \ {i})
      BY <2>5 DEF EnrichOK
    <3>2. \A p \in Proc \ {Enrich} : KeysOK(p, items', tx'[p].fresh)
      BY <2>1, <2>7 DEF KeyInv
    <3>3. QED
      BY <2>3, <2>7, <3>1, <3>2 DEF KeyInv
  <2>8. CASE tx'[Enrich].fresh = {} /\ items' = Overwritten(F \cup {j})
    <3>1. IsFiniteSet(F \cup {j}) /\ \A k \in F \cup {j} : ItemRow(k)
      <4>1. IsFiniteSet(F) /\ \A k \in F \cup T : ItemRow(k)
        BY Processes DEF TypeInv, TxInv, TxOK, F, T
      <4>2. ItemRow(j)
        BY <2>3
      <4>3. QED
        BY <4>1, <4>2, FS_AddElement
    <3>2. T \ {i} \subseteq tx[Enrich].todo
      BY DEF T
    <3>3. QED
      BY <2>1, <2>3, <2>5, <2>8, <3>1, <3>2, KeysOverwritten
  <2>9. QED
    BY <2>3, <2>6, <2>7, <2>8
<1>9. CASE FinishEnrich
  <2> DEFINE F == tx[Enrich].fresh
  <2>1. /\ items' = Overwritten(F) /\ tx'[Enrich].fresh = {} /\ tx'[Enrich].todo = {}
        /\ \A q \in Proc : q # Enrich => tx'[q] = tx[q]
    BY <1>9, FinishEnrichStep
  <2>2. IsFiniteSet(F) /\ \A k \in F : ItemRow(k)
    BY Processes DEF TypeInv, TxInv, TxOK
  <2>3. KeysOnce(F) /\ \A i \in F : \E j \in items : SameRow(i, j)
    BY DEF KeyInv, EnrichOK
  <2> HIDE DEF F
  <2>4. {} \subseteq tx[Enrich].todo
    OBVIOUS
  <2>5. QED
    BY <2>1, <2>2, <2>3, <2>4, KeysOverwritten
<1>10. ASSUME NEW p \in Proc, Fail(p) PROVE KeyInv'
  BY <1>1, <1>10, FailStep
<1>11. CASE UNCHANGED vars
  BY <1>11 DEF vars, KeyInv
<1>12. QED
  BY <1>2, <1>3, <1>4, <1>5, <1>6, <1>7, <1>8, <1>9, <1>10, <1>11 DEF Next

LEMMA InitKeyInv == Init => KeyInv
<1> SUFFICES ASSUME Init PROVE KeyInv
  OBVIOUS
<1>1. tx = [p \in Proc |-> Idle] /\ items = {}
  BY DEF Init
<1>2. \A p \in Proc : tx[p].fresh = {} /\ tx[p].todo = {}
  BY <1>1, IdleType
<1>3. \A p \in Proc : KeysOK(p, {}, {})
  BY DEF KeysOK, KeysOnce, Dense
<1>4. EnrichOK({}, {}, {})
  BY DEF EnrichOK, KeysOnce
<1>5. QED
  BY <1>1, <1>2, <1>3, <1>4, Processes DEF KeyInv

LEMMA KeyInvariant == Spec => [](TypeInv /\ KeyInv)
BY InitTypeInv, StepTypeInv, InitKeyInv, StepKeyInv, PTL DEF Spec

(* Types, and no row inserted twice: what a process inserts is numbered     *)
(* apart from what it has flushed, and the script's commit puts a row in    *)
(* the place of the same row (create, run).                                *)
THEOREM TypeCorrect == Spec => []TypeOK
<1>1. TypeInv /\ KeyInv => TypeOK
  <2> SUFFICES ASSUME TypeInv, KeyInv PROVE TypeOK
    OBVIOUS
  <2>1. \A i \in items : IsItem(i)
    BY DEF TypeInv, ItemsInv, ItemRow
  <2>2. DOMAIN tx = Proc
    BY DEF TypeInv, TxInv
  <2>3. ASSUME NEW p \in Proc
        PROVE  /\ tx[p].pc \in Pc /\ tx[p].level \in Levels
               /\ tx[p].got \in Nat /\ tx[p].plan \in [Levels -> Nat]
               /\ \A i \in tx[p].fresh : IsItem(i)
    BY DEF TypeInv, TxInv, TxOK, TxType, ItemRow
  <2>4. KeysOnce(items)
    BY Processes DEF KeyInv, KeysOK, KeysOnce
  <2>5. QED
    BY <2>1, <2>2, <2>3, <2>4 DEF TypeOK, KeysOnce
<1>2. QED
  BY <1>1, KeyInvariant, PTL

-----------------------------------------------------------------------------
(* Seeds.  A process that seeds has read every seed row of its level and    *)
(* kind, but for rows of processes that were seeding beside it; and of two  *)
(* that are between their read and their commit, the later has seen the     *)
(* earlier there.                                                          *)

Seeders == Req \cup {Script}
KindOf(p, t) == IF p = Script THEN t.kind ELSE "vocabulary"
Unseen(i, p, t) ==
    /\ i.source = "seed" /\ i.level = t.level
    /\ i.entry.kind = KindOf(p, t) /\ i.entry.word \notin t.saw
Met(p, q, b) == p \in b[q] \/ q \in b[p]
SameWord(i, j) ==
    /\ i.source = "seed" /\ j.source = "seed" /\ i.level = j.level
    /\ i.entry.kind = j.entry.kind /\ i.entry.word = j.entry.word

FreshInv == \A p \in Proc \ {Enrich} : \A i \in tx[p].fresh : i.source = "llm"
SeedersInv == \A i \in items : i.source = "seed" => i.by \in Seeders /\ tx[i.by].pc = "ok"
UnseenInv ==
    \A p \in Seeders : tx[p].pc = "save" =>
        \A i \in items : Unseen(i, p, tx[p]) => Met(i.by, p, beside)
MetInv ==
    \A p, q \in Seeders : p # q /\ tx[p].pc = "save" /\ tx[q].pc = "save" => Met(p, q, beside)
OnceInv == \A i, j \in items : i # j /\ SameWord(i, j) => Met(i.by, j.by, beside)
SeedInv == FreshInv /\ SeedersInv /\ UnseenInv /\ MetInv /\ OnceInv

(* No seed row is new, and nobody goes on to seed.                         *)
LEMMA SeedsKept ==
    ASSUME SeedInv, FreshInv', KeysOnce(items'), beside' = beside,
           \A i \in items' : i.source = "seed" => \E j \in items : SameRow(j, i),
           \A p \in Seeders : tx'[p] = tx[p] \/ (tx'[p].pc # "save" /\ tx[p].pc # "ok")
    PROVE  SeedInv'
<1>1. SeedersInv'
  <2> SUFFICES ASSUME NEW i \in items', i.source = "seed"
               PROVE  i.by \in Seeders /\ tx'[i.by].pc = "ok"
    BY DEF SeedersInv
  <2>1. PICK j \in items : SameRow(j, i)
    OBVIOUS
  <2>2. i.by \in Seeders /\ tx[i.by].pc = "ok"
    BY <2>1 DEF SeedInv, SeedersInv, SameRow
  <2>3. QED
    BY <2>2
<1>2. UnseenInv'
  <2> SUFFICES ASSUME NEW p \in Seeders, tx'[p].pc = "save", NEW i \in items', Unseen(i, p, tx'[p])
               PROVE  Met(i.by, p, beside)
    BY DEF UnseenInv
  <2>1. PICK j \in items : SameRow(j, i)
    BY DEF Unseen
  <2>2. tx'[p] = tx[p]
    OBVIOUS
  <2>3. Unseen(j, p, tx[p]) /\ j.by = i.by
    BY <2>1, <2>2 DEF Unseen, SameRow
  <2>4. QED
    BY <2>2, <2>3 DEF SeedInv, UnseenInv
<1>3. MetInv'
  BY DEF SeedInv, MetInv
<1>4. OnceInv'
  <2> SUFFICES ASSUME NEW i \in items', NEW j \in items', i # j, SameWord(i, j)
               PROVE  Met(i.by, j.by, beside)
    BY DEF OnceInv
  <2>1. PICK k \in items : SameRow(k, i)
    BY DEF SameWord
  <2>2. PICK l \in items : SameRow(l, j)
    BY DEF SameWord
  <2>3. k # l
    BY <2>1, <2>2 DEF KeysOnce, SameRow
  <2>4. SameWord(k, l) /\ k.by = i.by /\ l.by = j.by
    BY <2>1, <2>2 DEF SameWord, SameRow
  <2>5. QED
    BY <2>3, <2>4 DEF SeedInv, OnceInv
<1>5. QED
  BY <1>1, <1>2, <1>3, <1>4 DEF SeedInv

(* p reads the seeds.                                                      *)
LEMMA SeedsRead ==
    ASSUME SeedInv, FreshInv', NEW p \in Seeders, items' = items,
           \A q \in Seeders : q # p => tx'[q] = tx[q] /\ beside'[q] = beside[q],
           tx[p].pc # "ok", tx'[p].pc = "save",
           \A q \in Seeders : tx[q].pc = "save" => q \in beside'[p],
           tx'[p].saw = {i.entry.word : i \in Seeds(tx'[p].level, KindOf(p, tx'[p]))}
    PROVE  SeedInv'
<1>1. \A i \in items : i.source = "seed" => i.by \in Seeders /\ i.by # p
  BY DEF SeedInv, SeedersInv
<1>2. \A q, s \in Seeders : q # p /\ s # p /\ Met(q, s, beside) => Met(q, s, beside')
  BY DEF Met
<1>3. SeedersInv'
  BY <1>1 DEF SeedInv, SeedersInv
<1>4. UnseenInv'
  <2> SUFFICES ASSUME NEW q \in Seeders, tx'[q].pc = "save", NEW i \in items, Unseen(i, q, tx'[q])
               PROVE  Met(i.by, q, beside')
    BY DEF UnseenInv
  <2>1. CASE q = p
    <3>1. i \in Seeds(tx'[p].level, KindOf(p, tx'[p])) /\ i.entry.word \notin tx'[p].saw
      BY <2>1 DEF Unseen, Seeds, OfKind
    <3>2. QED
      BY <3>1
  <2>2. CASE q # p
    <3>1. Met(i.by, q, beside)
      BY <2>2 DEF SeedInv, UnseenInv
    <3>2. i.by \in Seeders /\ i.by # p
      BY <1>1 DEF Unseen
    <3>3. QED
      BY <1>2, <2>2, <3>1, <3>2
  <2>3. QED
    BY <2>1, <2>2
<1>5. MetInv'
  <2> SUFFICES ASSUME NEW q \in Seeders, NEW s \in Seeders, q # s, tx'[q].pc = "save", tx'[s].pc = "save"
               PROVE  Met(q, s, beside')
    BY DEF MetInv
  <2>1. CASE q = p
    BY <2>1 DEF Met
  <2>2. CASE s = p
    BY <2>2 DEF Met
  <2>3. CASE q # p /\ s # p
    BY <1>2, <2>3 DEF SeedInv, MetInv
  <2>4. QED
    BY <2>1, <2>2, <2>3
<1>6. OnceInv'
  <2> SUFFICES ASSUME NEW i \in items, NEW j \in items, i # j, SameWord(i, j)
               PROVE  Met(i.by, j.by, beside')
    BY DEF OnceInv
  <2>1. Met(i.by, j.by, beside)
    BY DEF SeedInv, OnceInv
  <2>2. QED
    BY <1>1, <1>2, <2>1 DEF SameWord
<1>7. QED
  BY <1>3, <1>4, <1>5, <1>6 DEF SeedInv

(* p publishes the seeds R, of words it has not read.                      *)
LEMMA SeedsSaved ==
    ASSUME SeedInv, FreshInv', NEW p \in Seeders, NEW R, items' = items \cup R, beside' = beside,
           \A q \in Seeders : q # p => tx'[q] = tx[q],
           tx[p].pc = "save", tx'[p].pc = "ok",
           \A i \in R : i.by = p /\ Unseen(i, p, tx[p]),
           \A i, j \in R : i.entry.word = j.entry.word => i = j
    PROVE  SeedInv'
<1>1. SeedersInv'
  BY DEF SeedInv, SeedersInv
<1>2. UnseenInv'
  <2> SUFFICES ASSUME NEW q \in Seeders, tx'[q].pc = "save", NEW i \in items \cup R,
                      Unseen(i, q, tx'[q])
               PROVE  Met(i.by, q, beside)
    BY DEF UnseenInv
  <2>1. q # p /\ tx[q].pc = "save" /\ Unseen(i, q, tx[q])
    OBVIOUS
  <2>2. CASE i \in items
    BY <2>1, <2>2 DEF SeedInv, UnseenInv
  <2>3. CASE i \in R
    BY <2>1, <2>3 DEF SeedInv, MetInv
  <2>4. QED
    BY <2>2, <2>3
<1>3. MetInv'
  <2> SUFFICES ASSUME NEW q \in Seeders, NEW s \in Seeders, q # s, tx'[q].pc = "save", tx'[s].pc = "save"
               PROVE  Met(q, s, beside)
    BY DEF MetInv
  <2>1. tx[q].pc = "save" /\ tx[s].pc = "save"
    OBVIOUS
  <2>2. QED
    BY <2>1 DEF SeedInv, MetInv
<1>4. OnceInv'
  <2>1. ASSUME NEW i \in items, NEW j \in R, SameWord(i, j) PROVE Met(i.by, p, beside)
    <3>1. Unseen(i, p, tx[p])
      BY <2>1 DEF SameWord, Unseen
    <3>2. QED
      BY <3>1 DEF SeedInv, UnseenInv
  <2> SUFFICES ASSUME NEW i \in items \cup R, NEW j \in items \cup R, i # j, SameWord(i, j)
               PROVE  Met(i.by, j.by, beside)
    BY DEF OnceInv
  <2>2. CASE i \in items /\ j \in items
    BY <2>2 DEF SeedInv, OnceInv
  <2>3. CASE i \in items /\ j \in R
    BY <2>1, <2>3
  <2>4. CASE i \in R /\ j \in items
    <3>1. SameWord(j, i)
      BY DEF SameWord
    <3>2. QED
      BY <2>1, <2>4, <3>1 DEF Met
  <2>5. CASE i \in R /\ j \in R
    BY <2>5 DEF SameWord
  <2>6. QED
    BY <2>2, <2>3, <2>4, <2>5
<1>5. QED
  BY <1>1, <1>2, <1>3, <1>4 DEF SeedInv

LEMMA SeedRowsUnseen ==
    ASSUME NEW p \in Seeders, NEW S, NEW problems, NEW t,
           \A e \in S : e.kind = KindOf(p, t) /\ e.word \notin t.saw,
           \A e, d \in S : e.word = d.word => e = d
    PROVE  LET R == SeedRows(p, S, t.level, problems)
           IN  /\ \A i \in R : i.by = p /\ Unseen(i, p, t)
               /\ \A i, j \in R : i.entry.word = j.entry.word => i = j
<1> DEFINE R == SeedRows(p, S, t.level, problems)
           row == [e \in S |-> NewItem(p, Numbered(p, S)[e], t.level, e, "seed", problems[e])]
<1>1. \A e \in S : row[e].by = p /\ row[e].entry = e /\ row[e].source = "seed" /\ row[e].level = t.level
  BY NewItemFields
<1>2. \A i \in R : \E e \in S : i = row[e]
  BY DEF SeedRows
<1> HIDE DEF row, R
<1>3. \A i \in R : i.by = p /\ Unseen(i, p, t)
  BY <1>1, <1>2 DEF Unseen
<1>4. \A i, j \in R : i.entry.word = j.entry.word => i = j
  <2> SUFFICES ASSUME NEW i \in R, NEW j \in R, i.entry.word = j.entry.word PROVE i = j
    OBVIOUS
  <2>1. PICK e \in S : i = row[e]
    BY <1>2
  <2>2. PICK d \in S : j = row[d]
    BY <1>2
  <2>3. QED
    BY <1>1, <2>1, <2>2
<1>5. QED
  BY <1>3, <1>4 DEF R

(* The enriching script adds no row.                                       *)
LEMMA RewrittenRows ==
    ASSUME TypeInv, KeyInv, StartEnrich \/ EnrichOne \/ FinishEnrich
    PROVE  \A i \in items' : \E j \in items : SameRow(j, i)
<1>1. ASSUME NEW F, items' = Overwritten(F), \A i \in F : \E j \in items : SameRow(j, i)
      PROVE  \A i \in items' : \E j \in items : SameRow(j, i)
  BY <1>1 DEF Overwritten, SameRow
<1>2. \A i \in tx[Enrich].fresh \cup tx[Enrich].todo : \E j \in items : SameRow(j, i)
  BY DEF KeyInv, EnrichOK, SameRow
<1>3. CASE StartEnrich
  BY <1>3, StartEnrichStep DEF SameRow
<1>4. CASE FinishEnrich
  BY <1>1, <1>2, <1>4, FinishEnrichStep
<1>5. CASE EnrichOne
  <2>1. \E i \in tx[Enrich].todo : \E j :
           /\ SameRow(i, j)
           /\ items' = items \/ items' = Overwritten(tx[Enrich].fresh \cup {j})
    BY <1>5, EnrichOneStep
  <2>2. PICK i \in tx[Enrich].todo : \E j :
           /\ SameRow(i, j)
           /\ items' = items \/ items' = Overwritten(tx[Enrich].fresh \cup {j})
    BY <2>1
  <2>3. PICK j : /\ SameRow(i, j)
                 /\ items' = items \/ items' = Overwritten(tx[Enrich].fresh \cup {j})
    BY <2>2
  <2>4. \E k \in items : SameRow(k, j)
    BY <1>2, <2>3 DEF SameRow
  <2>5. \A k \in tx[Enrich].fresh \cup {j} : \E l \in items : SameRow(l, k)
    BY <1>2, <2>4
  <2>6. CASE items' = items
    BY <2>6 DEF SameRow
  <2>7. CASE items' = Overwritten(tx[Enrich].fresh \cup {j})
    BY <1>1, <2>5, <2>7
  <2>8. QED
    BY <2>3, <2>6, <2>7
<1>6. QED
  BY <1>3, <1>4, <1>5

LEMMA StepSeedInv == TypeInv /\ KeyInv /\ SeedInv /\ [Next]_vars => SeedInv'
<1> SUFFICES ASSUME TypeInv, KeyInv, SeedInv, [Next]_vars PROVE SeedInv'
  OBVIOUS
<1>1. KeysOnce(items')
  <2>1. KeyInv'
    BY StepKeyInv
  <2>2. QED
    BY <2>1, Processes DEF KeyInv, KeysOK, KeysOnce
<1>2. ASSUME NEW p \in Proc, p = Enrich \/ tx'[p].fresh \in {{}, tx[p].fresh},
             \A q \in Proc : q # p => tx'[q] = tx[q]
      PROVE  FreshInv'
  BY <1>2 DEF SeedInv, FreshInv
<1>3. ASSUME NEW p \in Proc, beside' = beside, FreshInv',
             \A i \in items' : i.source = "seed" => \E j \in items : SameRow(j, i),
             p \in Seeders => tx'[p].pc # "save" /\ tx[p].pc # "ok",
             \A q \in Proc : q # p => tx'[q] = tx[q]
      PROVE  SeedInv'
  <2>1. \A q \in Seeders : tx'[q] = tx[q] \/ (tx'[q].pc # "save" /\ tx[q].pc # "ok")
    BY <1>3, Processes DEF Seeders
  <2>2. QED
    BY <1>1, <1>3, <2>1, SeedsKept
<1>4. items' = items => \A i \in items' : i.source = "seed" => \E j \in items : SameRow(j, i)
  BY DEF SameRow
<1>5. ASSUME NEW r \in Req, BeginGet(r) \/ ReadPool(r) PROVE SeedInv'
  <2>1. /\ items' = items /\ beside' = beside /\ TxInv' /\ r \in Proc
        /\ \A q \in Proc : q # r => tx'[q] = tx[q]
        /\ tx'[r].pc \in {"pool", "ok", "generate"}
        /\ tx'[r].pc = "generate" => tx'[r].fresh = {}
    BY <1>5, BeginGetStep, ReadPoolStep, Processes
  <2>2. tx[r].pc \in {"idle", "pool"}
    BY <1>5 DEF BeginGet, Admitted, ReadPool
  <2>3. tx'[r].fresh = {}
    BY <2>1 DEF TxInv, TxOK
  <2>4. FreshInv'
    BY <1>2, <2>1, <2>3
  <2>5. QED
    BY <1>3, <1>4, <2>1, <2>2, <2>4
<1>6. ASSUME NEW r \in Req, ReadSeeds(r) PROVE SeedInv'
  <2> DEFINE S == {p \in Proc : tx[p].pc = "save"}
  <2>1. /\ items' = items /\ beside' = [beside EXCEPT ![r] = S] /\ TxInv'
        /\ \A q \in Proc : q # r => tx'[q] = tx[q]
        /\ tx[r].pc = "seeds" /\ tx'[r].pc = "save" /\ tx'[r].level = tx[r].level
        /\ tx'[r].saw = {i.entry.word : i \in Seeds(tx[r].level, "vocabulary")}
        /\ r \in Proc /\ r \in Seeders /\ r # Script
    BY <1>6, ReadSeedsStep, Processes DEF Seeders
  <2>2. FreshInv'
    <3>1. tx'[r].fresh = {}
      BY <2>1 DEF TxInv, TxOK
    <3>2. QED
      BY <1>2, <2>1, <3>1
  <2>3. beside'[r] = S /\ \A q \in Proc : q # r => beside'[q] = beside[q]
    BY <2>1 DEF TypeInv
  <2>4. \A q \in Seeders : q \in Proc
    BY Processes DEF Seeders
  <2>5. tx'[r].saw = {i.entry.word : i \in Seeds(tx'[r].level, KindOf(r, tx'[r]))}
    BY <2>1 DEF KindOf
  <2>6. QED
    BY <2>1, <2>2, <2>3, <2>4, <2>5, SeedsRead
<1>7. ASSUME NEW r \in Req, SaveSeeds(r) PROVE SeedInv'
  <2> DEFINE S == NewSeeds(r)
             problems == [e \in S |-> {}]
             R == SeedRows(r, S, tx[r].level, problems)
  <2>1. /\ \A q \in Proc : q # r => tx'[q] = tx[q]
        /\ tx'[r].fresh = {} /\ items' = items \cup R /\ beside' = beside
        /\ tx[r].pc = "save" /\ tx'[r].pc = "ok"
    BY <1>7, SaveSeedsStep
  <2>2. r \in Seeders /\ r \in Proc /\ r # Script /\ Seeders \subseteq Proc
    BY Processes DEF Seeders
  <2>3. \A e \in S : e.kind = KindOf(r, tx[r]) /\ e.word \notin tx[r].saw
    BY <2>2, FallbackAssumption DEF NewSeeds, KindOf
  <2>4. \A e, d \in S : e.word = d.word => e = d
    BY FallbackAssumption DEF NewSeeds
  <2> HIDE DEF S, problems
  <2>5. /\ \A i \in R : i.by = r /\ Unseen(i, r, tx[r])
        /\ \A i, j \in R : i.entry.word = j.entry.word => i = j
    BY <2>2, <2>3, <2>4, SeedRowsUnseen
  <2> HIDE DEF R
  <2>6. FreshInv'
    BY <1>2, <2>1, <2>2
  <2>7. QED
    BY <2>1, <2>2, <2>5, <2>6, SeedsSaved
<1>8. ASSUME NEW p \in Req \cup {Worker}, AddItem(p) PROVE SeedInv'
  <2>1. /\ items' = items /\ beside' = beside
        /\ \A q \in Proc : q # p => tx'[q] = tx[q]
        /\ tx[p].pc = "generate" /\ tx'[p].pc = "generate" /\ p \in Proc
        /\ \E e \in LLMEntries : \E problems :
              tx'[p].fresh = tx[p].fresh \cup
                 {NewItem(p, NextN(p), tx[p].level, e, "llm", problems)}
    BY <1>8, AddItemStep, Processes
  <2>2. \A i \in tx'[p].fresh : i \in tx[p].fresh \/ i.source = "llm"
    BY <2>1, NewItemFields
  <2>3. FreshInv'
    BY <2>1, <2>2 DEF SeedInv, FreshInv
  <2>4. QED
    BY <1>3, <1>4, <2>1, <2>3
<1>9. ASSUME NEW p \in Req \cup {Worker}, SaveBatch(p) PROVE SeedInv'
  <2>1. /\ items' = items \cup tx[p].fresh /\ beside' = beside /\ tx'[p].fresh = {}
        /\ \A q \in Proc : q # p => tx'[q] = tx[q]
        /\ tx[p].pc = "generate" /\ p \in Proc /\ p # Enrich
        /\ tx'[p].pc # "save"
    BY <1>9, SaveBatchStep, Processes
  <2>2. FreshInv'
    BY <1>2, <2>1
  <2>3. \A i \in items' : i.source = "seed" => \E j \in items : SameRow(j, i)
    BY <2>1 DEF SeedInv, FreshInv, SameRow
  <2>4. QED
    BY <1>3, <2>1, <2>2, <2>3
<1>10. ASSUME NEW p \in Req \cup {Worker}, LLMFails(p) PROVE SeedInv'
  <2>1. /\ items' = items /\ beside' = beside /\ tx'[p].fresh = {}
        /\ \A q \in Proc : q # p => tx'[q] = tx[q]
        /\ tx[p].pc = "generate" /\ p \in Proc /\ tx'[p].pc # "save"
    BY <1>10, LLMFailsStep, Processes
  <2>2. FreshInv'
    BY <1>2, <2>1
  <2>3. QED
    BY <1>3, <1>4, <2>1, <2>2
<1>11. CASE StartWorker
  <2>1. /\ items' = items /\ beside' = beside /\ tx'[Worker].fresh = {}
        /\ \A q \in Proc : q # Worker => tx'[q] = tx[q]
        /\ Worker \in Proc /\ Worker \notin Seeders
    BY <1>11, StartWorkerStep, Processes DEF Seeders
  <2>2. FreshInv'
    BY <1>2, <2>1
  <2>3. QED
    BY <1>3, <1>4, <2>1, <2>2
<1>12. CASE StartScript
  <2> DEFINE S == beside[Script] \cup {p \in Proc : tx[p].pc = "save"}
  <2>1. /\ items' = items /\ beside' = [beside EXCEPT ![Script] = S]
        /\ \A q \in Proc : q # Script => tx'[q] = tx[q]
        /\ tx[Script].pc = "idle" /\ tx'[Script].pc = "save" /\ tx'[Script].fresh = {}
        /\ tx'[Script].saw = {i.entry.word : i \in Seeds(tx'[Script].level, tx'[Script].kind)}
        /\ Script \in Proc /\ Script \in Seeders /\ Seeders \subseteq Proc
    BY <1>12, StartScriptStep, Processes DEF Seeders
  <2>2. FreshInv'
    BY <1>2, <2>1
  <2>3. beside'[Script] = S /\ \A q \in Proc : q # Script => beside'[q] = beside[q]
    BY <2>1 DEF TypeInv
  <2>4. tx'[Script].saw = {i.entry.word : i \in Seeds(tx'[Script].level, KindOf(Script, tx'[Script]))}
    BY <2>1 DEF KindOf
  <2>5. QED
    BY <2>1, <2>2, <2>3, <2>4, SeedsRead
<1>13. CASE SaveScript
  <2> DEFINE S == NewFile
             problems == [e \in S |-> SeedProblems(e)]
             R == SeedRows(Script, S, tx[Script].level, problems)
  <2>1. /\ \A q \in Proc : q # Script => tx'[q] = tx[q]
        /\ tx'[Script].fresh = {} /\ items' = items \cup R /\ beside' = beside
        /\ tx[Script].pc = "save" /\ tx'[Script].pc = "ok" /\ tx[Script].level \in Levels
    BY <1>13, SaveScriptStep
  <2>2. Script \in Seeders /\ Script \in Proc /\ Seeders \subseteq Proc
    BY Processes DEF Seeders
  <2>3. \A e \in S : /\ e \in FileEntries[tx[Script].level] /\ e.kind = tx[Script].kind
                     /\ e.kind = KindOf(Script, tx[Script]) /\ e.word \notin tx[Script].saw
    BY DEF NewFile, KindOf
  <2>4. \A e, d \in S : e.word = d.word => e = d
    BY <2>1, <2>3, FilesAssumption
  <2> HIDE DEF S, problems
  <2>5. /\ \A i \in R : i.by = Script /\ Unseen(i, Script, tx[Script])
        /\ \A i, j \in R : i.entry.word = j.entry.word => i = j
    BY <2>2, <2>3, <2>4, SeedRowsUnseen
  <2> HIDE DEF R
  <2>6. FreshInv'
    BY <1>2, <2>1, <2>2
  <2>7. QED
    BY <2>1, <2>2, <2>5, <2>6, SeedsSaved
<1>14. CASE StartEnrich \/ EnrichOne \/ FinishEnrich
  <2>1. /\ beside' = beside /\ \A q \in Proc : q # Enrich => tx'[q] = tx[q]
        /\ Enrich \in Proc /\ Enrich \notin Seeders
    BY <1>14, StartEnrichStep, EnrichOneStep, FinishEnrichStep, Processes DEF Seeders
  <2>2. FreshInv'
    BY <1>2, <2>1
  <2>3. \A i \in items' : \E j \in items : SameRow(j, i)
    BY <1>14, RewrittenRows
  <2>4. QED
    BY <1>3, <2>1, <2>2, <2>3
<1>15. ASSUME NEW p \in Proc, Fail(p) PROVE SeedInv'
  <2>1. /\ items' = items /\ beside' = beside /\ tx'[p].fresh = {}
        /\ \A q \in Proc : q # p => tx'[q] = tx[q]
        /\ tx'[p].pc # "save" /\ tx[p].pc # "ok"
    BY <1>15, FailStep
  <2>2. FreshInv'
    BY <1>2, <2>1
  <2>3. QED
    BY <1>3, <1>4, <1>15, <2>1, <2>2
<1>16. CASE UNCHANGED vars
  BY <1>16 DEF vars, SeedInv, FreshInv, SeedersInv, UnseenInv, MetInv, OnceInv
<1>17. QED
  BY <1>5, <1>6, <1>7, <1>8, <1>9, <1>10, <1>11, <1>12, <1>13, <1>14, <1>15, <1>16
     DEF Next, Generating

(* Seed rows of one word have writers of which one read the seeds while the *)
(* other was between its read and its commit: nothing else makes them      *)
(* (_save_seed_items, seed_content).                                       *)
THEOREM SeedsOnceAlone == Spec => []SeedsOnce
<1>1. Init => SeedInv
  <2> SUFFICES ASSUME Init PROVE SeedInv
    OBVIOUS
  <2>1. tx = [p \in Proc |-> Idle] /\ items = {}
    BY DEF Init
  <2>2. \A p \in Proc : tx[p].fresh = {} /\ tx[p].pc = "idle"
    BY <2>1, IdleType
  <2>3. Seeders \subseteq Proc
    BY Processes DEF Seeders
  <2>4. QED
    BY <2>1, <2>2, <2>3 DEF SeedInv, FreshInv, SeedersInv, UnseenInv, MetInv, OnceInv
<1>2. SeedInv => SeedsOnce
  BY DEF SeedInv, OnceInv, SeedsOnce, SameWord, Met
<1>3. QED
  BY <1>1, <1>2, InitTypeInv, StepTypeInv, InitKeyInv, StepKeyInv, StepSeedInv, PTL DEF Spec

-----------------------------------------------------------------------------
(* A request's answer.  What it read of the seeds and the fallback entries  *)
(* it adds make up the whole fallback list.                                *)

Full(t) ==
    /\ t.pc = "save" => IsFiniteSet(t.saw) /\ Cardinality(t.saw) <= t.have
    /\ t.pc = "ok" => t.got >= Min({t.count, Cardinality(FallbackEntries)})

FullInv == \A r \in Req : Full(tx[r])

LEMMA FallbackSplit ==
    ASSUME NEW saw, IsFiniteSet(saw)
    PROVE  LET new == {e \in FallbackEntries : e.word \notin saw}
           IN  /\ IsFiniteSet(new) /\ Cardinality(new) \in Nat
               /\ Cardinality(FallbackEntries) \in Nat /\ Cardinality(saw) \in Nat
               /\ Cardinality(FallbackEntries) <= Cardinality(saw) + Cardinality(new)
<1> DEFINE new == {e \in FallbackEntries : e.word \notin saw}
           old == {e \in FallbackEntries : e.word \in saw}
           words == {e.word : e \in old}
           f == [e \in old |-> e.word]
<1>1. IsFiniteSet(FallbackEntries) /\ new \in SUBSET FallbackEntries /\ old \in SUBSET FallbackEntries
  BY FallbackAssumption
<1>2. IsFiniteSet(new) /\ IsFiniteSet(old)
  BY <1>1, FS_Subset
<1>3. /\ Cardinality(new) \in Nat /\ Cardinality(old) \in Nat
      /\ Cardinality(FallbackEntries) \in Nat /\ Cardinality(saw) \in Nat
  BY <1>1, <1>2, FS_CardinalityType
<1>4. Cardinality(words) = Cardinality(old)
  <2>1. f \in [old -> words] /\ \A w \in words : \E e \in old : w = f[e]
    OBVIOUS
  <2>2. \A e, d \in old : f[e] = f[d] => e = d
    BY FallbackAssumption
  <2> HIDE DEF f, old, words
  <2>3. QED
    BY <1>2, <2>1, <2>2, Images
<1>5. Cardinality(words) <= Cardinality(saw)
  <2>1. words \in SUBSET saw
    OBVIOUS
  <2>2. QED
    BY <2>1, FS_Subset
<1>6. Cardinality(FallbackEntries) = Cardinality(old) + Cardinality(new)
  <2>1. FallbackEntries = old \cup new /\ old \cap new = {}
    OBVIOUS
  <2> HIDE DEF old, new
  <2>2. Cardinality(old \cup new)
          = Cardinality(old) + Cardinality(new) - Cardinality(old \cap new)
    BY <1>2, FS_Union
  <2>3. Cardinality(old \cap new) = 0
    BY <2>1, FS_EmptySet
  <2>4. QED
    BY <1>3, <2>1, <2>2, <2>3
<1> HIDE DEF new, old, words
<1>7. Cardinality(FallbackEntries) <= Cardinality(saw) + Cardinality(new)
  BY <1>3, <1>4, <1>5, <1>6
<1>8. QED
  BY <1>2, <1>3, <1>7 DEF new

LEMMA StepFullInv == TypeInv /\ FullInv /\ [Next]_vars => FullInv'
<1> SUFFICES ASSUME TypeInv, FullInv, [Next]_vars, NEW r \in Req PROVE Full(tx'[r])
  BY DEF FullInv
<1> USE DEF Full
<1>0. r \in Proc /\ Full(tx[r]) /\ TxOK(r, tx[r])
      /\ r # Worker /\ r # Script /\ r # Enrich
  BY Processes DEF FullInv, TypeInv, TxInv
<1>a. Cardinality(FallbackEntries) \in Nat
  BY FallbackAssumption, FS_CardinalityType
<1>b. ASSUME tx'[r] = tx[r] \/ tx'[r].pc \notin {"save", "ok"} PROVE Full(tx'[r])
  BY <1>0, <1>b
<1>c. ASSUME NEW p \in Proc, p # r, \A q \in Proc : q # p => tx'[q] = tx[q] PROVE Full(tx'[r])
  BY <1>0, <1>b, <1>c
<1>1. ASSUME NEW p \in Req, BeginGet(p) PROVE Full(tx'[r])
  BY <1>0, <1>b, <1>1, BeginGetStep
<1>2. ASSUME NEW p \in Req, ReadPool(p) PROVE Full(tx'[r])
  <2>1. CASE p = r
    <3>1. \/ tx'[r].pc = "ok" /\ tx'[r].got = tx'[r].count /\ tx'[r].count = tx[r].count
          \/ tx'[r].pc = "generate"
      BY <1>2, <2>1, ReadPoolStep
    <3>2. tx[r].count \in Nat
      BY <1>0 DEF TxOK, TxType
    <3>3. Min({tx[r].count, Cardinality(FallbackEntries)}) <= tx[r].count
      BY <1>a, <3>2, MinOfTwo
    <3>4. QED
      BY <3>1, <3>3
  <2>2. CASE p # r
    BY <1>0, <1>b, <1>2, <2>2, ReadPoolStep
  <2>3. QED
    BY <2>1, <2>2
<1>3. ASSUME NEW p \in Req, ReadSeeds(p) PROVE Full(tx'[r])
  <2>1. CASE p = r
    <3> DEFINE rows == Seeds(tx[r].level, "vocabulary")
               saw == {i.entry.word : i \in rows}
               f == [i \in rows |-> i.entry.word]
    <3>1. tx'[r].pc = "save" /\ tx'[r].have = Cardinality(rows) /\ tx'[r].saw = saw
      BY <1>3, <2>1, ReadSeedsStep
    <3>2. rows \in SUBSET items /\ IsFiniteSet(items)
      BY DEF Seeds, OfKind, TypeInv, ItemsInv
    <3>3. IsFiniteSet(rows)
      BY <3>2, FS_Subset
    <3> HIDE DEF rows
    <3>4. f \in [rows -> saw] /\ \A w \in saw : \E i \in rows : w = f[i]
      OBVIOUS
    <3> HIDE DEF saw, f
    <3>5. IsFiniteSet(saw) /\ Cardinality(saw) <= Cardinality(rows)
      BY <3>3, <3>4, Images
    <3>6. QED
      BY <3>1, <3>5
  <2>2. CASE p # r
    BY <1>0, <1>b, <1>3, <2>2, ReadSeedsStep
  <2>3. QED
    BY <2>1, <2>2
<1>4. ASSUME NEW p \in Req, SaveSeeds(p) PROVE Full(tx'[r])
  <2>1. CASE p = r
    <3> DEFINE count == tx[r].count
               got == tx[r].got
               have == tx[r].have
               saw == Cardinality(tx[r].saw)
               new == Cardinality(NewSeeds(r))
               all == Cardinality(FallbackEntries)
    <3>1. /\ tx[r].pc = "save" /\ tx'[r].pc = "ok" /\ tx'[r].count = count
          /\ tx'[r].got = got + Min({count - got, have + new})
      BY <1>4, <2>1, SaveSeedsStep
    <3>2. count \in Nat /\ got \in Nat /\ have \in Nat
      BY <1>0 DEF TxOK, TxType
    <3>3. IsFiniteSet(tx[r].saw) /\ saw <= have
      BY <1>0, <3>1
    <3>4. new \in Nat /\ all \in Nat /\ saw \in Nat /\ all <= saw + new
      BY <3>3, FallbackSplit DEF NewSeeds
    <3> HIDE DEF count, got, have, saw, new, all
    <3>5. tx'[r].got >= Min({count, all})
      <4>1. Min({count, all}) = IF count <= all THEN count ELSE all
        BY <3>2, <3>4, MinOfTwo
      <4>2. Min({count - got, have + new}) = IF count - got <= have + new
                                             THEN count - got ELSE have + new
        BY <3>2, <3>4, MinOfTwo
      <4>3. QED
        BY <3>1, <3>2, <3>3, <3>4, <4>1, <4>2
    <3>6. QED
      BY <3>1, <3>5 DEF all
  <2>2. CASE p # r
    BY <1>0, <1>b, <1>4, <2>2, SaveSeedsStep
  <2>3. QED
    BY <2>1, <2>2
<1>5. ASSUME NEW p \in Req \cup {Worker}, Generating(p) PROVE Full(tx'[r])
  <2>1. CASE p = r
    <3>1. CASE AddItem(r)
      BY <1>b, <3>1, AddItemStep
    <3>2. CASE LLMFails(r)
      BY <1>b, <3>2, LLMFailsStep
    <3>3. CASE SaveBatch(r)
      <4>1. /\ tx'[r].got = tx[r].got + Cardinality(tx[r].fresh)
            /\ tx'[r].count = tx[r].count
            /\ tx'[r].pc = IF tx'[r].got >= tx[r].count THEN "ok" ELSE "seeds"
        BY <3>3, SaveBatchStep
      <4>2. tx[r].count \in Nat /\ tx'[r].got \in Nat
        <5>1. tx[r].count \in Nat /\ tx[r].got \in Nat
          BY <1>0 DEF TxOK, TxType
        <5>2. Cardinality(tx[r].fresh) \in Nat
          BY <1>0, OwnNumbers
        <5>3. QED
          BY <4>1, <5>1, <5>2
      <4> DEFINE c == tx[r].count
                 f == Cardinality(FallbackEntries)
      <4>3. c \in Int /\ f \in Int
        BY <1>a, <4>2
      <4> HIDE DEF c, f
      <4>4. Min({c, f}) = IF c <= f THEN c ELSE f
        BY <4>3, MinOfTwo
      <4>5. Min({c, f}) <= c /\ Min({c, f}) \in Int
        BY <4>3, <4>4
      <4> USE DEF c, f
      <4>6. QED
        BY <4>1, <4>2, <4>5
    <3>4. QED
      BY <1>5, <2>1, <3>1, <3>2, <3>3 DEF Generating
  <2>2. CASE p # r
    <3>1. \A q \in Proc : q # p => tx'[q] = tx[q]
      BY <1>5, AddItemStep, SaveBatchStep, LLMFailsStep DEF Generating
    <3>2. QED
      BY <1>0, <1>b, <2>2, <3>1
  <2>3. QED
    BY <2>1, <2>2
<1>6. CASE StartWorker \/ StartScript \/ SaveScript
  BY <1>0, <1>b, <1>6, StartWorkerStep, StartScriptStep, SaveScriptStep
<1>7. CASE StartEnrich \/ EnrichOne \/ FinishEnrich
  BY <1>0, <1>b, <1>7, StartEnrichStep, EnrichOneStep, FinishEnrichStep
<1>8. ASSUME NEW p \in Proc, Fail(p) PROVE Full(tx'[r])
  BY <1>0, <1>b, <1>8, FailStep
<1>9. CASE UNCHANGED vars
  BY <1>b, <1>9 DEF vars
<1>10. QED
  BY <1>1, <1>2, <1>3, <1>4, <1>5, <1>6, <1>7, <1>8, <1>9 DEF Next

(* A request that answers has what it was asked for, or the length of the   *)
(* fallback list (get_or_generate, _save_seed_items).                      *)
THEOREM AnswersFull == Spec => []AnswerFull
<1>1. Init => FullInv
  <2> SUFFICES ASSUME Init, NEW r \in Req PROVE Full(tx[r])
    BY DEF FullInv
  <2>1. tx[r].pc = "idle"
    BY IdleType, Processes DEF Init
  <2>2. QED
    BY <2>1 DEF Full
<1>2. FullInv => AnswerFull
  BY DEF FullInv, Full, AnswerFull
<1>3. QED
  BY <1>1, <1>2, InitTypeInv, StepTypeInv, StepFullInv, PTL DEF Spec

-----------------------------------------------------------------------------
(* The worker.  The rows it has added to a level and the batches it has     *)
(* still planned stay within what one run may add.                         *)

WorkerRows(I, l) == {i \in I : i.by = Worker /\ i.level = l}
Calls(n) == Min({k \in 1..PoolMin : k * BatchSize >= PoolMin - n})
Bound == Max({n + Calls(n) * LLMMax : n \in 0..PoolMin - 1})

(* With the process t.                                                     *)
Promised(t) ==
    /\ \A l \in Levels : Cardinality(WorkerRows(items, l)) <= Bound
    /\ t.pc = "generate" =>
          /\ \A l \in Levels :
                Cardinality(WorkerRows(items, l)) + t.plan[l] * LLMMax <= Bound
          /\ Cardinality(t.fresh) <= LLMMax /\ \A i \in t.fresh : i.level = t.level

PromiseInv == Promised(tx[Worker])

LEMMA BatchesAreCalls ==
    ASSUME NEW n \in 0..PoolMin - 1
    PROVE  Calls(n) = Batches(PoolMin - n) /\ Calls(n) \in Nat
<1> DEFINE needed == PoolMin - n
           b == Batches(needed)
           A == {k \in 1..PoolMin : k * BatchSize >= needed}
<1>1. PoolMin \in Nat /\ BatchSize \in Nat \ {0} /\ needed \in Nat \ {0} /\ needed <= PoolMin
  BY SizesAssumption
<1>2. b \in Nat \ {0} /\ b * BatchSize >= needed /\ (b - 1) * BatchSize < needed
  BY <1>1, BatchesOf
<1>3. Calls(n) = Min(A)
  BY DEF Calls
<1> HIDE DEF b, needed
<1>4. ASSUME NEW k \in Nat, k < b PROVE k * BatchSize < needed
  <2>1. k <= b - 1 /\ b - 1 \in Nat
    BY <1>2, <1>4
  <2>2. k * BatchSize <= (b - 1) * BatchSize
    BY <1>1, <2>1
  <2>3. k * BatchSize \in Nat /\ (b - 1) * BatchSize \in Nat
    BY <1>1, <2>1
  <2>4. QED
    BY <1>1, <1>2, <2>2, <2>3
<1>5. b <= PoolMin
  <2> SUFFICES ASSUME PoolMin < b PROVE FALSE
    BY <1>1, <1>2
  <2>1. PoolMin * BatchSize < needed
    BY <1>1, <1>4
  <2>2. PoolMin * BatchSize >= PoolMin
    BY <1>1
  <2>3. PoolMin * BatchSize \in Nat
    BY <1>1
  <2>4. QED
    BY <1>1, <2>1, <2>2, <2>3
<1>6. b \in A
  BY <1>1, <1>2, <1>5
<1>7. Min(A) \in A /\ \A k \in A : Min(A) <= k
  <2>1. A \in SUBSET Nat
    OBVIOUS
  <2>2. QED
    BY <1>6, <2>1, MinOfNaturals
<1>8. Min(A) \in Nat /\ Min(A) <= b /\ Min(A) * BatchSize >= needed
  BY <1>6, <1>7
<1> HIDE DEF A
<1>9. Min(A) = b
  <2>1. ~(Min(A) < b)
    <3> SUFFICES ASSUME Min(A) < b PROVE FALSE
      OBVIOUS
    <3>1. Min(A) * BatchSize < needed /\ Min(A) * BatchSize \in Nat
      BY <1>1, <1>4, <1>8
    <3>2. QED
      BY <1>1, <1>8, <3>1
  <2>2. QED
    BY <1>2, <1>8, <2>1
<1>10. QED
  BY <1>2, <1>3, <1>9 DEF b, needed

LEMMA BoundIsMax ==
    /\ Bound \in Nat
    /\ \A n \in 0..PoolMin - 1 : n + Batches(PoolMin - n) * LLMMax <= Bound
<1> DEFINE N == 0..PoolMin - 1
           f == [n \in N |-> n + Calls(n) * LLMMax]
           T == {n + Calls(n) * LLMMax : n \in N}
<1>1. PoolMin \in Nat \ {0} /\ LLMMax \in Nat
  BY SizesAssumption
<1>2. ASSUME NEW n \in N PROVE n + Calls(n) * LLMMax \in Nat
  <2>1. Calls(n) \in Nat /\ n \in Nat
    BY BatchesAreCalls
  <2>2. Calls(n) * LLMMax \in Nat
    BY <1>1, <2>1
  <2>3. QED
    BY <2>1, <2>2
<1>3. IsFiniteSet(N) /\ 0 \in N
  BY <1>1, FS_Interval
<1>4. T \in SUBSET Nat /\ T # {}
  BY <1>2, <1>3
<1>5. IsFiniteSet(T)
  <2>1. f \in [N -> T] /\ \A t \in T : \E n \in N : t = f[n]
    OBVIOUS
  <2> HIDE DEF N, f, T
  <2>2. QED
    BY <1>3, <2>1, Images
<1>6. \A n \in N : n + Calls(n) * LLMMax \in T
  OBVIOUS
<1>7. Bound = Max(T)
  BY DEF Bound
<1> HIDE DEF T
<1>8. PICK m \in Nat : T \subseteq 0..m
  BY <1>4, <1>5, FiniteIsBounded
<1>9. Max(T) \in T /\ \A t \in T : Max(T) >= t
  BY <1>4, <1>8, MaxOfNaturals
<1>10. Bound \in Nat
  BY <1>4, <1>7, <1>9
<1>11. ASSUME NEW n \in N PROVE n + Batches(PoolMin - n) * LLMMax <= Bound
  <2>1. n + Calls(n) * LLMMax <= Bound
    BY <1>2, <1>6, <1>7, <1>9, <1>10
  <2>2. QED
    BY <2>1, BatchesAreCalls
<1>12. QED
  BY <1>10, <1>11

LEMMA WorkerRowsCount ==
    ASSUME TypeInv, NEW l \in Levels
    PROVE  /\ IsFiniteSet(WorkerRows(items, l)) /\ Cardinality(WorkerRows(items, l)) \in Nat
           /\ Cardinality(WorkerRows(items, l)) <= PoolSize(l)
<1>1. WorkerRows(items, l) \in SUBSET {i \in items : i.level = l}
  BY DEF WorkerRows
<1>2. IsFiniteSet({i \in items : i.level = l})
  BY PoolSizes DEF TypeInv
<1>3. QED
  BY <1>1, <1>2, FS_Subset, FS_CardinalityType DEF PoolSize

(* Rows that are rewritten, or another's new rows, add none of the worker's.*)
LEMMA WorkerRowsKept ==
    ASSUME TypeInv, TypeInv', KeysOnce(items'), NEW l \in Levels,
           \A i \in items' : i.by = Worker => \E j \in items : SameRow(j, i)
    PROVE  Cardinality(WorkerRows(items', l)) <= Cardinality(WorkerRows(items, l))
<1> DEFINE S == WorkerRows(items', l)
           old(i) == CHOOSE j \in items : SameRow(j, i)
           f == [i \in S |-> old(i)]
           T == {old(i) : i \in S}
<1>1. \A i \in S : old(i) \in items /\ SameRow(old(i), i)
  BY DEF WorkerRows
<1> HIDE DEF old
<1>2. T \in SUBSET WorkerRows(items, l)
  BY <1>1 DEF WorkerRows, SameRow
<1>3. IsFiniteSet(S)
  <2>1. IsFiniteSet(items') /\ S \in SUBSET items'
    BY DEF TypeInv, ItemsInv, WorkerRows
  <2>2. QED
    BY <2>1, FS_Subset
<1>4. Cardinality(T) = Cardinality(S)
  <2>1. f \in [S -> T] /\ \A t \in T : \E i \in S : t = f[i]
    OBVIOUS
  <2>2. \A i, j \in S : f[i] = f[j] => i = j
    BY <1>1 DEF SameRow, KeysOnce, WorkerRows
  <2> HIDE DEF S, T, f
  <2>3. QED
    BY <1>3, <2>1, <2>2, Images
<1>5. Cardinality(T) <= Cardinality(WorkerRows(items, l))
  BY <1>2, WorkerRowsCount, FS_Subset
<1>6. QED
  BY <1>4, <1>5

LEMMA PromiseKept ==
    ASSUME TypeInv, TypeInv', KeyInv', PromiseInv,
           \A i \in items' : i.by = Worker => \E j \in items : SameRow(j, i),
           tx'[Worker] = tx[Worker] \/ tx'[Worker].pc = "idle"
    PROVE  PromiseInv'
<1>1. KeysOnce(items')
  BY Processes DEF KeyInv, KeysOK, KeysOnce
<1>2. ASSUME NEW l \in Levels
      PROVE  /\ Cardinality(WorkerRows(items, l)) \in Nat /\ Cardinality(WorkerRows(items', l)) \in Nat
             /\ Cardinality(WorkerRows(items', l)) <= Cardinality(WorkerRows(items, l))
  <2>1. Cardinality(WorkerRows(items', l)) \in Nat
    <3>1. IsFiniteSet(items') /\ WorkerRows(items', l) \in SUBSET items'
      BY DEF TypeInv, ItemsInv, WorkerRows
    <3>2. QED
      BY <3>1, FS_Subset, FS_CardinalityType
  <2>2. QED
    BY <1>1, <2>1, WorkerRowsCount, WorkerRowsKept
<1>3. Bound \in Nat
  BY BoundIsMax
<1>4. \A l \in Levels : Cardinality(WorkerRows(items', l)) <= Bound
  BY <1>2, <1>3 DEF PromiseInv, Promised
<1>5. ASSUME tx'[Worker] = tx[Worker], tx[Worker].pc = "generate", NEW l \in Levels
      PROVE  Cardinality(WorkerRows(items', l)) + tx[Worker].plan[l] * LLMMax <= Bound
  <2> DEFINE more == tx[Worker].plan[l] * LLMMax
  <2>1. more \in Nat
    <3>1. tx[Worker].plan[l] \in Nat /\ LLMMax \in Nat
      BY SizesAssumption, Processes DEF TypeInv, TxInv, TxOK, TxType
    <3>2. QED
      BY <3>1
  <2>2. Cardinality(WorkerRows(items, l)) + more <= Bound
    BY <1>5 DEF PromiseInv, Promised
  <2> HIDE DEF more
  <2>3. Cardinality(WorkerRows(items', l)) + more <= Bound
    BY <1>2, <1>3, <2>1, <2>2
  <2>4. QED
    BY <2>3 DEF more
<1>6. QED
  BY <1>4, <1>5 DEF PromiseInv, Promised

LEMMA PromiseMade ==
    ASSUME TypeInv, PromiseInv, StartWorker
    PROVE  PromiseInv'
<1>1. /\ items' = items /\ tx'[Worker].fresh = {}
      /\ \/ tx'[Worker].pc = "idle"
         \/ tx'[Worker].pc = "generate" /\ tx'[Worker].plan = Plan
  BY StartWorkerStep
<1>2. \A l \in Levels : Cardinality(WorkerRows(items, l)) <= Bound
  BY DEF PromiseInv, Promised
<1>3. ASSUME NEW l \in Levels
      PROVE  Cardinality(WorkerRows(items, l)) + Plan[l] * LLMMax <= Bound
  <2> DEFINE n == PoolSize(l)
             w == Cardinality(WorkerRows(items, l))
  <2>1. n \in Nat /\ w \in Nat /\ w <= n /\ w <= Bound
    BY <1>2, PoolSizes, WorkerRowsCount DEF TypeInv
  <2>2. PoolMin \in Nat /\ LLMMax \in Nat /\ Bound \in Nat
    BY SizesAssumption, BoundIsMax
  <2>3. CASE n < PoolMin
    <3> DEFINE more == Batches(PoolMin - n) * LLMMax
    <3>1. n \in 0..PoolMin - 1 /\ PoolMin - n \in Nat \ {0}
      BY <2>1, <2>2, <2>3
    <3>2. n + more <= Bound /\ Batches(PoolMin - n) \in Nat
      BY <3>1, BoundIsMax, BatchesOf
    <3>3. more \in Nat
      BY <2>2, <3>2
    <3>4. Plan[l] * LLMMax = more
      BY <2>3 DEF Plan
    <3> HIDE DEF more, n, w
    <3>5. w + more <= Bound
      BY <2>1, <2>2, <3>2, <3>3
    <3>6. QED
      BY <3>4, <3>5 DEF w
  <2>4. CASE ~(n < PoolMin)
    <3>1. Plan[l] = 0 /\ 0 * LLMMax = 0
      BY <2>2, <2>4 DEF Plan
    <3> HIDE DEF n, w
    <3>2. w + 0 <= Bound
      BY <2>1, <2>2
    <3>3. QED
      BY <3>1, <3>2 DEF w
  <2>5. QED
    BY <2>3, <2>4
<1>4. LLMMax \in Nat /\ Cardinality({}) = 0
  BY SizesAssumption, FS_EmptySet
<1>5. Cardinality(tx'[Worker].fresh) <= LLMMax /\ \A i \in tx'[Worker].fresh : i.level = tx'[Worker].level
  BY <1>1, <1>4
<1>6. QED
  BY <1>1, <1>2, <1>3, <1>5 DEF PromiseInv, Promised

LEMMA PromiseUsed ==
    ASSUME TypeInv, PromiseInv, AddItem(Worker)
    PROVE  PromiseInv'
<1> DEFINE t == tx[Worker]
<1>0. Worker \in Req \cup {Worker} /\ Worker \in Proc
  BY Processes
<1>1. /\ items' = items /\ t.pc = "generate" /\ tx'[Worker].pc = "generate"
      /\ tx'[Worker].level = t.level /\ tx'[Worker].plan = t.plan
      /\ Cardinality(t.fresh) < LLMMax
      /\ \E e \in LLMEntries : \E problems :
            tx'[Worker].fresh = t.fresh \cup
               {NewItem(Worker, NextN(Worker), t.level, e, "llm", problems)}
  BY <1>0, AddItemStep
<1>2. PICK e \in LLMEntries : \E problems :
         tx'[Worker].fresh = t.fresh \cup
            {NewItem(Worker, NextN(Worker), t.level, e, "llm", problems)}
  BY <1>1
<1>3. PICK problems :
         tx'[Worker].fresh = t.fresh \cup
            {NewItem(Worker, NextN(Worker), t.level, e, "llm", problems)}
  BY <1>2
<1> DEFINE i == NewItem(Worker, NextN(Worker), t.level, e, "llm", problems)
           fresh == t.fresh \cup {i}
<1>4. i.level = t.level
  BY NewItemFields
<1>5. tx'[Worker].fresh = fresh
  BY <1>3
<1> HIDE DEF i
<1>6. \A j \in fresh : j.level = t.level
  BY <1>1, <1>4 DEF PromiseInv, Promised
<1>7. Cardinality(fresh) <= LLMMax
  <2>1. IsFiniteSet(t.fresh) /\ Cardinality(t.fresh) \in Nat /\ LLMMax \in Nat
    BY <1>0, OwnNumbers, SizesAssumption
  <2>2. Cardinality(fresh) = IF i \in t.fresh THEN Cardinality(t.fresh) ELSE Cardinality(t.fresh) + 1
    BY <2>1, FS_AddElement
  <2>3. QED
    BY <1>1, <2>1, <2>2
<1>8. QED
  BY <1>1, <1>5, <1>6, <1>7 DEF PromiseInv, Promised

LEMMA PromiseKeptByBatch ==
    ASSUME TypeInv, PromiseInv, SaveBatch(Worker)
    PROVE  PromiseInv'
<1> DEFINE t == tx[Worker]
           w(l) == Cardinality(WorkerRows(items, l))
           new(l) == Cardinality(WorkerRows(items', l))
           f == Cardinality(t.fresh)
<1>0. Worker \in Req \cup {Worker} /\ Worker \in Proc /\ Worker # Enrich
  BY Processes
<1>1. /\ items' = items \cup t.fresh /\ t.pc = "generate" /\ tx'[Worker].fresh = {}
      /\ t.plan[t.level] > 0
      /\ \/ tx'[Worker].pc = "idle"
         \/ /\ tx'[Worker].pc = "generate"
            /\ tx'[Worker].plan = [t.plan EXCEPT ![t.level] = @ - 1]
  BY <1>0, SaveBatchStep
<1>2. t.level \in Levels /\ t.plan \in [Levels -> Nat] /\ LLMMax \in Nat /\ Bound \in Nat
  BY <1>0, SizesAssumption, BoundIsMax DEF TypeInv, TxInv, TxOK, TxType
<1>3. /\ \A l \in Levels : w(l) <= Bound /\ w(l) + t.plan[l] * LLMMax <= Bound
      /\ f <= LLMMax /\ \A i \in t.fresh : i.level = t.level
  BY <1>1 DEF PromiseInv, Promised
<1>4. ASSUME NEW l \in Levels, l # t.level PROVE new(l) = w(l)
  <2>1. WorkerRows(items', l) = WorkerRows(items, l)
    BY <1>1, <1>3, <1>4 DEF WorkerRows
  <2>2. QED
    BY <2>1
<1>5. new(t.level) \in Nat /\ new(t.level) <= w(t.level) + f /\ f \in Nat
  <2> DEFINE R == WorkerRows(items, t.level)
             F == t.fresh
             C == R \cap F
  <2>1. IsFiniteSet(R) /\ IsFiniteSet(F) /\ Cardinality(R) \in Nat /\ Cardinality(F) \in Nat
    BY <1>0, <1>2, WorkerRowsCount, OwnNumbers
  <2>2. WorkerRows(items', t.level) = R \cup F
    <3>1. \A i \in F : i.by = Worker /\ i.level = t.level
      BY <1>0, <1>3, RowsFinite
    <3>2. QED
      BY <1>1, <3>1 DEF WorkerRows
  <2>a. f = Cardinality(F) /\ w(t.level) = Cardinality(R) /\ new(t.level) = Cardinality(R \cup F)
    BY <2>2
  <2> HIDE DEF R, F
  <2>3. Cardinality(R \cup F) = Cardinality(R) + Cardinality(F) - Cardinality(C)
    BY <2>1, FS_Union
  <2>4. Cardinality(C) \in Nat
    <3>1. C \in SUBSET R
      OBVIOUS
    <3>2. IsFiniteSet(C)
      BY <2>1, <3>1, FS_Subset
    <3>3. QED
      BY <3>2, FS_CardinalityType
  <2>5. Cardinality(R \cup F) \in Nat
    BY <2>1, FS_Union, FS_CardinalityType
  <2> HIDE DEF C
  <2>6. QED
    BY <2>1, <2>a, <2>3, <2>4, <2>5
<1>6. \A l \in Levels : w(l) \in Nat
  BY WorkerRowsCount
<1>7. new(t.level) + (t.plan[t.level] - 1) * LLMMax <= Bound
  <2> DEFINE k == t.plan[t.level]
             c == (k - 1) * LLMMax
  <2>1. k \in Nat /\ k > 0
    BY <1>1, <1>2
  <2> HIDE DEF k
  <2>2. k * LLMMax = c + LLMMax /\ c \in Nat
    BY <1>2, <2>1
  <2>3. w(t.level) + k * LLMMax <= Bound
    BY <1>2, <1>3 DEF k
  <2> HIDE DEF c
  <2>4. new(t.level) + c <= Bound
    <3>1. w(t.level) \in Nat /\ new(t.level) <= w(t.level) + f /\ f <= LLMMax /\ f \in Nat
      BY <1>2, <1>3, <1>5, <1>6
    <3> HIDE DEF w, f, new, t
    <3>2. QED
      BY <1>2, <1>5, <2>2, <2>3, <3>1
  <2>5. QED
    BY <2>4 DEF c, k
<1>8. new(t.level) <= Bound
  <2> DEFINE c == (t.plan[t.level] - 1) * LLMMax
  <2>1. c \in Nat
    <3>1. t.plan[t.level] \in Nat /\ t.plan[t.level] > 0
      BY <1>1, <1>2
    <3> HIDE DEF t
    <3>2. QED
      BY <1>2, <3>1
  <2>2. new(t.level) + c <= Bound
    BY <1>7
  <2> HIDE DEF c, new, t
  <2>3. QED
    BY <1>2, <1>5, <2>1, <2>2
<1>9. \A l \in Levels : new(l) <= Bound
  BY <1>3, <1>4, <1>8
<1>10. ASSUME tx'[Worker].pc = "generate", NEW l \in Levels
       PROVE  new(l) + tx'[Worker].plan[l] * LLMMax <= Bound
  <2>1. tx'[Worker].plan = [t.plan EXCEPT ![t.level] = @ - 1]
    BY <1>1, <1>10
  <2>2. CASE l = t.level
    <3>1. tx'[Worker].plan[l] = t.plan[t.level] - 1
      BY <1>2, <2>1, <2>2
    <3>2. QED
      BY <1>7, <2>2, <3>1
  <2>3. CASE l # t.level
    <3>1. tx'[Worker].plan[l] = t.plan[l] /\ new(l) = w(l)
      BY <1>2, <1>4, <2>1, <2>3
    <3>2. QED
      BY <1>3, <3>1
  <2>4. QED
    BY <2>2, <2>3
<1>11. Cardinality(tx'[Worker].fresh) <= LLMMax /\ tx'[Worker].fresh = {}
  BY <1>1, <1>2, FS_EmptySet
<1>12. QED
  BY <1>9, <1>10, <1>11 DEF PromiseInv, Promised

LEMMA PromiseDropped ==
    ASSUME TypeInv, PromiseInv, LLMFails(Worker)
    PROVE  PromiseInv'
<1> DEFINE t == tx[Worker]
           w(l) == Cardinality(WorkerRows(items, l))
<1>0. Worker \in Req \cup {Worker} /\ Worker \in Proc
  BY Processes
<1>1. /\ items' = items /\ t.pc = "generate" /\ tx'[Worker].fresh = {}
      /\ \/ tx'[Worker].pc = "idle"
         \/ /\ tx'[Worker].pc = "generate"
            /\ tx'[Worker].plan = [t.plan EXCEPT ![t.level] = 0]
  BY <1>0, LLMFailsStep
<1>2. t.plan \in [Levels -> Nat] /\ LLMMax \in Nat
  BY <1>0, SizesAssumption DEF TypeInv, TxInv, TxOK, TxType
<1>3. \A l \in Levels : w(l) \in Nat /\ w(l) <= Bound /\ w(l) + t.plan[l] * LLMMax <= Bound
  BY <1>1, WorkerRowsCount DEF PromiseInv, Promised
<1>4. ASSUME tx'[Worker].pc = "generate", NEW l \in Levels
      PROVE  w(l) + tx'[Worker].plan[l] * LLMMax <= Bound
  <2>1. CASE l = t.level
    <3>1. tx'[Worker].plan[l] = 0 /\ 0 * LLMMax = 0
      BY <1>1, <1>2, <1>4, <2>1
    <3>2. w(l) + 0 <= Bound
      BY <1>3
    <3>3. QED
      BY <3>1, <3>2
  <2>2. CASE l # t.level
    BY <1>1, <1>2, <1>3, <1>4, <2>2
  <2>3. QED
    BY <2>1, <2>2
<1>5. Cardinality(tx'[Worker].fresh) <= LLMMax /\ tx'[Worker].fresh = {}
  BY <1>1, <1>2, FS_EmptySet
<1>6. QED
  BY <1>1, <1>3, <1>4, <1>5 DEF PromiseInv, Promised

LEMMA StepPromiseInv == TypeInv /\ KeyInv /\ PromiseInv /\ [Next]_vars => PromiseInv'
<1> SUFFICES ASSUME TypeInv, KeyInv, PromiseInv, [Next]_vars PROVE PromiseInv'
  OBVIOUS
<1>1. TypeInv' /\ KeyInv'
  BY StepTypeInv, StepKeyInv
<1>2. ASSUME \A i \in items' : i.by = Worker => \E j \in items : SameRow(j, i),
             NEW p \in Proc, \A q \in Proc : q # p => tx'[q] = tx[q],
             p = Worker => tx'[p].pc = "idle"
      PROVE  PromiseInv'
  <2>1. tx'[Worker] = tx[Worker] \/ tx'[Worker].pc = "idle"
    BY <1>2, Processes
  <2>2. QED
    BY <1>1, <1>2, <2>1, PromiseKept
<1>3. items' = items => \A i \in items' : i.by = Worker => \E j \in items : SameRow(j, i)
  BY DEF SameRow
<1>4. ASSUME NEW r \in Req, BeginGet(r) \/ ReadPool(r) \/ ReadSeeds(r) PROVE PromiseInv'
  BY <1>2, <1>3, <1>4, BeginGetStep, ReadPoolStep, ReadSeedsStep, Processes
<1>5. ASSUME NEW p \in Proc, p # Worker, NEW S, NEW level, NEW problems,
             items' = items \cup SeedRows(p, S, level, problems)
      PROVE  \A i \in items' : i.by = Worker => \E j \in items : SameRow(j, i)
  <2>1. \A i \in SeedRows(p, S, level, problems) : i.by = p
    BY NewItemFields DEF SeedRows
  <2>2. QED
    BY <1>5, <2>1 DEF SameRow
<1>6. ASSUME NEW r \in Req, SaveSeeds(r) PROVE PromiseInv'
  <2>1. /\ \A q \in Proc : q # r => tx'[q] = tx[q]
        /\ items' = items \cup SeedRows(r, NewSeeds(r), tx[r].level, [e \in NewSeeds(r) |-> {}])
        /\ r \in Proc /\ r # Worker
    BY <1>6, SaveSeedsStep, Processes
  <2>2. QED
    BY <1>2, <1>5, <2>1
<1>7. ASSUME NEW p \in Req \cup {Worker}, Generating(p) PROVE PromiseInv'
  <2>1. CASE p = Worker
    BY <1>7, <2>1, PromiseUsed, PromiseKeptByBatch, PromiseDropped DEF Generating
  <2>2. CASE p # Worker
    <3>1. /\ \A q \in Proc : q # p => tx'[q] = tx[q]
          /\ items' = items \/ items' = items \cup tx[p].fresh
          /\ p \in Proc /\ p # Enrich
      BY <1>7, AddItemStep, SaveBatchStep, LLMFailsStep, Processes DEF Generating
    <3>2. \A i \in tx[p].fresh : i.by = p
      BY <3>1, RowsFinite
    <3>3. \A i \in items' : i.by = Worker => \E j \in items : SameRow(j, i)
      BY <2>2, <3>1, <3>2 DEF SameRow
    <3>4. QED
      BY <1>2, <2>2, <3>1, <3>3
  <2>3. QED
    BY <2>1, <2>2
<1>8. CASE StartWorker
  BY <1>8, PromiseMade
<1>9. CASE StartScript
  BY <1>2, <1>3, <1>9, StartScriptStep, Processes
<1>10. CASE SaveScript
  <2>1. /\ \A q \in Proc : q # Script => tx'[q] = tx[q]
        /\ items' = items \cup SeedRows(Script, NewFile, tx[Script].level,
                                        [e \in NewFile |-> SeedProblems(e)])
        /\ Script \in Proc /\ Script # Worker
    BY <1>10, SaveScriptStep, Processes
  <2>2. QED
    BY <1>2, <1>5, <2>1
<1>11. CASE StartEnrich \/ EnrichOne \/ FinishEnrich
  <2>1. /\ \A q \in Proc : q # Enrich => tx'[q] = tx[q]
        /\ Enrich \in Proc /\ Enrich # Worker
    BY <1>11, StartEnrichStep, EnrichOneStep, FinishEnrichStep, Processes
  <2>2. \A i \in items' : \E j \in items : SameRow(j, i)
    BY <1>11, RewrittenRows
  <2>3. QED
    BY <1>2, <2>1, <2>2
<1>12. ASSUME NEW p \in Proc, Fail(p) PROVE PromiseInv'
  BY <1>2, <1>3, <1>12, FailStep
<1>13. CASE UNCHANGED vars
  BY <1>13 DEF vars, PromiseInv, Promised
<1>14. QED
  BY <1>4, <1>6, <1>7, <1>8, <1>9, <1>10, <1>11, <1>12, <1>13 DEF Next

(* What the worker adds to a level stays within what one run may add that   *)
(* begins below the minimum, however often it runs and whatever the others  *)
(* add meanwhile (_pregen_task).                                           *)
THEOREM WorkerStaysBounded == Spec => []WorkerBounded
<1>1. Init => PromiseInv
  <2> SUFFICES ASSUME Init PROVE PromiseInv
    OBVIOUS
  <2>1. tx[Worker].pc = "idle" /\ items = {}
    BY IdleType, Processes DEF Init
  <2>2. ASSUME NEW l \in Levels PROVE Cardinality(WorkerRows(items, l)) <= Bound
    <3>1. WorkerRows(items, l) = {}
      BY <2>1 DEF WorkerRows
    <3>2. Cardinality({}) = 0 /\ Bound \in Nat
      BY FS_EmptySet, BoundIsMax
    <3>3. QED
      BY <3>1, <3>2
  <2>3. QED
    BY <2>1, <2>2 DEF PromiseInv, Promised
<1>2. PromiseInv => WorkerBounded
  BY DEF PromiseInv, Promised, WorkerBounded, WorkerRows, Bound, Calls
<1>3. QED
  BY <1>1, <1>2, InitTypeInv, StepTypeInv, InitKeyInv, StepKeyInv, StepPromiseInv, PTL DEF Spec

=============================================================================
