---------------------------- MODULE MCContentPool ---------------------------
EXTENDS ContentPool, TLC

Entry(word, meaning, near, synonym, standalone) ==
    [kind |-> "vocabulary", word |-> word, reading |-> word, meaning |-> meaning,
     near |-> near, synonym |-> synonym, standalone |-> standalone, kanji |-> standalone]

Grammar(word, near) == [Entry(word, "m4", near, None, TRUE) EXCEPT !.kind = "grammar"]

(* The LLM knows one word, with its own meaning among the wrong ones and   *)
(* with a synonym.  The seed file has a word of the fallback list, and     *)
(* three grammar points: one as it should be, one that repeats its blank   *)
(* and one without wrong patterns.                                         *)
MCLLM == {Entry("w1", "m1", {"m1", "m2"}, "m2", TRUE)}
MCFallback == {Entry("f1", "m1", {}, None, TRUE), Entry("f2", "m2", {}, None, TRUE)}
MCFiles ==
    [l \in {1} |-> {Entry("f1", "m1", {"m1"}, None, FALSE),
                    Grammar("g1", {"g2"}), Grammar("g2", {"g2"}), Grammar("g3", {})}]
MCOptions == {{"m1", "m2"}}
ReqSymmetry == Permutations(Req)
=============================================================================
