----------------------------- MODULE MCStudyDay -----------------------------
EXTENDS StudyDay, TLC

(* Items 2 and 3 were seeded together.                                     *)
MCCreated == [i \in Items |-> IF i = 3 THEN 2 ELSE i]

ReqSymmetry == Permutations(Req)
=============================================================================
