----------------------------- MODULE AuthClient -----------------------------
(***************************************************************************)
(* The tabs of one browser in front of RefreshRotation: lib/api/backend.ts, *)
(* AuthProvider and tokenStore, with the network between.  Tabs share the   *)
(* refresh cookie; each keeps its AuthState and its promises to itself.  The *)
(* access token is left out: any call to the API may find it expired.       *)
(*                                                                         *)
(* A call carries the cookie the browser held when it was sent.  It may     *)
(* reach the backend late or never, and its answer may be lost: fetch has   *)
(* no timeout, but the connection breaks, or the page is left and nobody    *)
(* waits any more.  A call is named by the request it becomes.  Refresh     *)
(* tokens do not expire here; RefreshRotation has that.                     *)
(*                                                                         *)
(* An operator marked "mutant" is a bug the code does not have.            *)
(***************************************************************************)
EXTENDS RefreshRotation

CONSTANTS
    Tabs,
    MaxCalls   \* bound on the calls on their way

ASSUME TabsAssumption == None \notin Tabs
ASSUME MaxCallsAssumption == MaxCalls \in Nat

VARIABLES
    tab,    \* AuthState.status of each tab
    jar,    \* the refresh_token cookie
    calls,  \* the calls on their way
    doubt   \* history: sessions with a lost answer, or two callers at once

client == <<tab, jar, calls, doubt>>
server == <<token, registered, tx>>

-----------------------------------------------------------------------------
(* slot: the promise that waits; by = None: the tab waits no more.          *)
Slots == {"boot", "refresh", "register", "login", "logout"}
CallRecord == [req: Req, by: Tabs \cup {None}, slot: Slots, cookie: Req \cup {None}]
Status == {"loading", "anonymous", "authenticated"}

ClientTypeOK ==
    /\ tab \in [Tabs -> Status]
    /\ jar \in Issued \cup {None}
    /\ calls \subseteq CallRecord /\ doubt \subseteq Issued
    /\ \A c, d \in calls : c.req = d.req => c = d
    /\ \A c \in calls : c.cookie \in Issued \cup {None}

ClientInit ==
    /\ Init
    /\ tab = [p \in Tabs |-> "loading"]
    /\ jar = None /\ calls = {} /\ doubt = {}

-----------------------------------------------------------------------------
(* Sending.                                                                *)

InFlight(p, slot) == \E c \in calls : c.by = p /\ c.slot = slot
Unused == {r \in Req : tx[r].pc = "idle" /\ \A c \in calls : c.req # r}

(* register and login do not look at the cookie.                            *)
Cookie(slot) == IF slot \in {"register", "login"} THEN None ELSE jar

(* A call that waits for the same promise as a new call would.              *)
SamePromise(c, p, slot) == c.by = p /\ c.slot = slot /\ slot \in {"boot", "refresh"}

(* The other callers that present the cookie of a new call.                 *)
Sharing(p, slot) ==
    {c \in calls : /\ Cookie(slot) # None /\ c.cookie = Cookie(slot)
                   /\ ~SamePromise(c, p, slot)}

Doubtful(cookie) ==
    doubt' = IF cookie = None THEN doubt ELSE doubt \cup {token[cookie].family}

(* A call becomes any unused request; which one makes no difference.        *)
Call(p, slot) ==
    /\ Unused # {} /\ Cardinality(calls) < MaxCalls
    /\ calls' = calls \cup {[req |-> CHOOSE r \in Unused : TRUE, by |-> p,
                             slot |-> slot, cookie |-> Cookie(slot)]}

Send(p, slot) ==
    /\ Call(p, slot)
    /\ IF Sharing(p, slot) # {} THEN Doubtful(jar) ELSE UNCHANGED doubt
    /\ UNCHANGED <<server, tab, jar>>

(* authBootstrap on mount; a second effect joins inflightBootstrap.         *)
Boot(p) == tab[p] = "loading" /\ ~InFlight(p, "boot") /\ Send(p, "boot")

(* Mutant: every 401 refreshes for itself.                                 *)
RefreshEach(p) == tab[p] # "loading" /\ Send(p, "refresh")

(* refreshOnce, when an API call has answered 401; later ones join.         *)
Refresh(p) ==
    tab[p] # "loading" /\ ~InFlight(p, "refresh") /\ Send(p, "refresh")

(* The forms do not wait for the bootstrap; a form is busy until answered.  *)
(* The learner registers once and then logs in.                             *)
SignIn(p) ==
    /\ tab[p] # "authenticated"
    /\ ~InFlight(p, "login") /\ ~InFlight(p, "register")
    /\ Send(p, IF registered = {} THEN "register" ELSE "login")

Logout(p) == tab[p] = "authenticated" /\ Send(p, "logout")

-----------------------------------------------------------------------------
(* The backend.  The route answers a call that needs a cookie and has none  *)
(* without a request to auth_service: a refresh with 401, a logout with 204. *)

Cookieless(c) == c.slot \in {"boot", "refresh", "logout"} /\ c.cookie = None

Arrive(c) ==
    /\ ~Cookieless(c)
    /\ CASE c.slot = "register" -> BeginRegister(c.req)
         [] c.slot = "login" -> Login(c.req)
         [] c.slot = "logout" -> BeginLogout(c.req) /\ tx'[c.req].shown = c.cookie
         [] OTHER -> BeginRefresh(c.req) /\ tx'[c.req].shown = c.cookie
    /\ UNCHANGED client

-----------------------------------------------------------------------------
(* Answers.                                                                *)

Answered(c) == Cookieless(c) \/ tx[c.req].pc \in Ended
Succeeded(c) == IF Cookieless(c) THEN c.slot = "logout" ELSE tx[c.req].pc = "ok"

(* Mutants: a logout leaves the cookie to the browser; every answer sets a  *)
(* cookie.                                                                 *)
KeepOnLogout(c) == IF Succeeded(c) /\ c.slot # "logout" THEN c.req ELSE jar
SetAlways(c) == IF c.slot = "logout" THEN None ELSE c.req

(* Set-Cookie of an answer.  A refused refresh raises HTTPException, whose  *)
(* response is not the one that _clear_refresh_cookie has written to.       *)
SetCookie(c) ==
    IF ~Succeeded(c) THEN jar ELSE IF c.slot = "logout" THEN None ELSE c.req

(* A logout that fails leaves AuthState as it is.                           *)
Failed(p, slot) == IF slot \in {"boot", "refresh"} THEN "anonymous" ELSE tab[p]

Fulfilled(p, slot) ==
    CASE slot = "refresh" -> tab[p]
      [] slot = "logout" -> "anonymous"
      [] OTHER -> "authenticated"

Settle(c, succeeded) ==
    /\ calls' = calls \ {c}
    /\ tab' = [p \in Tabs |-> IF p # c.by THEN tab[p]
                             ELSE IF succeeded THEN Fulfilled(p, c.slot)
                             ELSE Failed(p, c.slot)]

Answer(c) ==
    /\ Answered(c)
    /\ Settle(c, Succeeded(c))
    /\ jar' = SetCookie(c)
    /\ UNCHANGED <<server, doubt>>

(* The call never reaches the backend.                                     *)
Vanish(c) ==
    /\ tx[c.req].pc = "idle"
    /\ Settle(c, FALSE)
    /\ UNCHANGED <<server, jar, doubt>>

(* The answer is lost.                                                     *)
Drop(c) ==
    /\ Answered(c)
    /\ Settle(c, FALSE)
    /\ Doubtful(c.cookie)
    /\ UNCHANGED <<server, jar>>

(* The page is loaded again: its calls go on, but nobody waits for them.    *)
Reload(p) ==
    /\ tab[p] # "loading"
    /\ tab' = [tab EXCEPT ![p] = "loading"]
    /\ calls' = {IF c.by = p THEN [c EXCEPT !.by = None] ELSE c : c \in calls}
    /\ UNCHANGED <<server, jar, doubt>>

Serve(r) == (Advance(r) \/ Fail(r)) /\ UNCHANGED client

ClientNext ==
    \/ \E p \in Tabs :
          Boot(p) \/ Refresh(p) \/ SignIn(p) \/ Logout(p) \/ Reload(p)
    \/ \E c \in calls : Arrive(c) \/ Vanish(c) \/ Answer(c) \/ Drop(c)
    \/ \E r \in Req : Serve(r)

ClientSpec == ClientInit /\ [][ClientNext]_<<server, client>>

-----------------------------------------------------------------------------
(* Properties.                                                             *)

(* The reuse detection ends a session only after one of its answers was     *)
(* lost, or two tabs, or two promises of one, presented its cookie at once: *)
(* the 401s of one tab share one refresh, so that by themselves they never  *)
(* look like a theft (backend.ts inflightRefresh, auth_service step 4).     *)
ReuseExplained ==
    \A r \in Req : tx[r].pc = "reuse" => token[tx[r].shown].family \in doubt

(* When nothing is on its way, the cookie is the current token of its       *)
(* session, unless answers were lost or calls overlapped:                   *)
(* browser and table have not come apart.                                   *)
JarCurrent ==
    calls = {} /\ jar # None =>
        IsActive(jar) \/ token[jar].family \in doubt
=============================================================================
