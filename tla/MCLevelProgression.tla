-------------------------- MODULE MCLevelProgression -------------------------
EXTENDS LevelProgression, TLC

CONSTANTS a1, a2, b1, b2, b3, c1

(* Level 1 has only vocabulary, level 2 a grammar problem, level 3 nothing  *)
(* but one synonym problem.                                                *)
Shelf(m, r, g, c, s, f) ==
    [type \in Types |-> CASE type = "MEANING" -> m [] type = "READING" -> r
                          [] type = "GRAMMAR" -> g [] type = "CONTEXT" -> c
                          [] type = "SYNONYM" -> s [] type = "FILL" -> f]
MCStock == <<Shelf({a1, a2}, {}, {}, {}, {}, {}),
             Shelf({b1}, {b3}, {b2}, {}, {}, {}),
             Shelf({}, {}, {}, {}, {c1}, {})>>
MCExamPlan == [type \in Types |-> 1]

ReqSymmetry == Permutations(Req) \cup Permutations({a1, a2})
=============================================================================
