----------------------------- MODULE StudyLedger ----------------------------
(***************************************************************************)
(* What the study API promises of a learner's day, each request taking     *)
(* effect at one instant: an attempt is logged, schedules its item, earns  *)
(* its XP and counts towards today's session, all or nothing; a session is *)
(* opened once, from the review queue and new items; extending it only     *)
(* adds to it; a placement test discards it with its unstudied items.      *)
(***************************************************************************)
EXTENDS StudyRows

VARIABLES
    log,     \* the attempts made: [req, item, ok]
    rec,     \* the review row of every item
    totals,  \* tag counter and XP
    sess,    \* today's session
    pool     \* the content items

vars == <<log, rec, totals, sess, pool>>

Init ==
    /\ log = {}
    /\ rec = [i \in Items |-> IF i \in Studied THEN [by |-> Before, reps |-> 1]
                                               ELSE NoRow]
    /\ totals = [made |-> ~FirstDay, tags |-> 0, xp |-> 0]
    /\ sess = NoSession
    /\ pool = InitialPool

Fresh == {i \in pool : ~Exists(rec[i])}

WithRows(r, new) == [i \in Items |-> IF i \in new THEN NewRow(r) ELSE rec[i]]

Attempt(r, i, correct) ==
    /\ r \notin {a.req : a \in log}
    /\ log' = log \cup {[req |-> r, item |-> i, ok |-> correct]}
    /\ rec' = [rec EXCEPT ![i] = [by |-> IF Exists(@) THEN @.by ELSE r,
                                  reps |-> @.reps + 1]]
    /\ totals' = [made |-> TRUE, tags |-> totals.tags + 1,
                  xp |-> totals.xp + XP(correct)]
    /\ sess' = IF Exists(sess) THEN [sess EXCEPT !.done = @ \cup {r}] ELSE sess
    /\ UNCHANGED pool

Open(r) ==
    /\ ~Exists(sess)
    /\ \E due \in SUBSET {i \in Items : Exists(rec[i])} :
          /\ {i \in Items : IsNew(rec[i])} \subseteq due
          /\ \E new \in Oldest(Fresh, Slots(due)) :
                /\ sess' = [by |-> r, planned |-> (due \cup new) \cap HasProblem,
                            done |-> {}]
                /\ rec' = WithRows(r, new)
    /\ UNCHANGED <<log, totals, pool>>

Extend(r) ==
    /\ Exists(sess)
    /\ \E new \in Oldest(Fresh, Extra) :
          /\ sess' = [sess EXCEPT !.planned = @ \cup (new \cap HasProblem)]
          /\ rec' = WithRows(r, new)
    /\ UNCHANGED <<log, totals, pool>>

Generate ==
    /\ Exists(sess) /\ Fresh = {}
    /\ \E i \in Items \ pool : pool' = pool \cup {i}
    /\ UNCHANGED <<log, rec, totals, sess>>

Discard ==
    /\ Exists(sess)
    /\ sess' = NoSession
    /\ rec' = [i \in Items |-> IF i \in sess.planned /\ IsNew(rec[i])
                               THEN NoRow ELSE rec[i]]
    /\ UNCHANGED <<log, totals, pool>>

Next ==
    \/ \E r \in Req : \/ \E i \in Items, correct \in BOOLEAN : Attempt(r, i, correct)
                      \/ Open(r)
                      \/ Extend(r)
    \/ Generate
    \/ Discard

Spec == Init /\ [][Next]_vars
=============================================================================
