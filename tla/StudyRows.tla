------------------------------ MODULE StudyRows -----------------------------
(***************************************************************************)
(* The parameters and the database rows that the study modules share.      *)
(*                                                                         *)
(* An item stands for the one problem drawn for it.                        *)
(***************************************************************************)
EXTENDS Integers, FiniteSets

CONSTANTS
    Req,          \* requests, each used once
    Items,        \* content items that exist or that the LLM may yet create
    Created,      \* created_at of each: one for all rows of a transaction
    InitialPool,  \* the items in content_item when the day begins
    HasProblem,   \* items with at least one row in problem
    Studied,      \* items the learner studied before today
    FirstDay,     \* TRUE: no user_profile or motivation_state row exists yet
    Kinds,        \* the kinds of request that occur
    MaxActive,    \* requests in flight at once
    NewSlots,     \* _NEW_ITEM_SLOTS
    Extra         \* extend_today_session's extra

None == "none"
Before == "before"

ASSUME ItemsAssumption ==
    /\ Items # {} /\ Created \in [Items -> Nat]
    /\ InitialPool \subseteq Items /\ Studied \subseteq InitialPool
    /\ HasProblem \subseteq Items
ASSUME ReqAssumption == {None, Before} \cap Req = {}
ASSUME BoundsAssumption ==
    /\ FirstDay \in BOOLEAN /\ (FirstDay => Studied = {})
    /\ Kinds \subseteq {"build", "attempt", "extend", "place"}
    /\ MaxActive \in Nat /\ NewSlots \in Nat /\ Extra \in Nat \ {0}

-----------------------------------------------------------------------------
(* Rows.  "by" is the request whose INSERT created the row: its identity.  *)

Row == [by: Req \cup {Before, None}, reps: Nat]
NoRow == [by |-> None, reps |-> 0]
NewRow(r) == [by |-> r, reps |-> 0]

Session == [by: Req \cup {None}, planned: SUBSET Items, done: SUBSET Req]
NoSession == [by |-> None, planned |-> {}, done |-> {}]

Totals == [made: BOOLEAN, tags: Nat, xp: Nat]

Exists(row) == row.by # None
IsNew(row) == Exists(row) /\ row.reps = 0   \* state = "NEW"

XP(correct) == IF correct THEN 10 ELSE 2

(* The items that may come first in an ORDER BY created_at, which says     *)
(* nothing of items with one created_at.                                   *)
First(S) == {i \in S : \A j \in S : Created[i] <= Created[j]}

(* get_new_content_items: what ORDER BY created_at LIMIT n may return.     *)
Oldest(S, n) ==
    {T \in SUBSET S : /\ Cardinality(T) <= n
                      /\ T = S \/ Cardinality(T) = n
                      /\ \A i \in T, j \in S \ T : Created[i] <= Created[j]}

(* build_today_session: the slots that the review queue leaves.            *)
Slots(due) ==
    IF Cardinality(due) < NewSlots THEN NewSlots - Cardinality(due) ELSE 0
=============================================================================
