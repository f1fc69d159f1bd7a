---------------------------- MODULE AuthSessions ----------------------------
(***************************************************************************)
(* What docs/auth-flow.md promises of login sessions: a session (a token   *)
(* family) has one current refresh token, which a refresh replaces; once a *)
(* logout or a reuse has ended the session, it stays ended.                *)
(***************************************************************************)
CONSTANT Req

None == "none"

VARIABLES
    current,  \* the current token of each session, None when there is none
    ended     \* the sessions that are over

vars == <<current, ended>>

Init == current = [f \in Req |-> None] /\ ended = {}

Start(f) ==
    /\ current[f] = None /\ f \notin ended
    /\ current' = [current EXCEPT ![f] = f]
    /\ UNCHANGED ended

Rotate(f, t) ==
    /\ current[f] # None /\ f \notin ended
    /\ \A g \in Req : current[g] # t
    /\ current' = [current EXCEPT ![f] = t]
    /\ UNCHANGED ended

End(f) ==
    /\ f \notin ended
    /\ current' = [current EXCEPT ![f] = None]
    /\ ended' = ended \cup {f}

(* A step that changes nothing is left to the stuttering of [Next]_vars.   *)
Next ==
    /\ vars' # vars
    /\ \E f \in Req : Start(f) \/ End(f) \/ \E t \in Req : Rotate(f, t)

Spec == Init /\ [][Next]_vars
=============================================================================
