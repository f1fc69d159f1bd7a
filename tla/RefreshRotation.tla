--------------------------- MODULE RefreshRotation --------------------------
(***************************************************************************)
(* auth_service: register, login, refresh and logout of one account, as    *)
(* concurrent requests over the refresh_token table.  Each request is one  *)
(* READ COMMITTED transaction; each statement is an action.                *)
(*                                                                         *)
(* A request issues at most one refresh token and a login starts at most   *)
(* one family, so both are named by the request.  A presented token is one *)
(* that was issued, so its row exists with the hash of its body, and no    *)
(* endpoint deletes a user: steps 2, 3 and 6 of refresh find nothing wrong *)
(* and are left out, as are a wrong password and a missing cookie, which   *)
(* end a request before it writes.                                         *)
(*                                                                         *)
(* An operator marked "mutant" is a bug the code does not have.            *)
(***************************************************************************)
EXTENDS Integers, FiniteSets

CONSTANTS
    Req,        \* requests, each used once
    MaxActive   \* requests in flight at once

None == "none"

ASSUME ReqAssumption == None \notin Req
ASSUME MaxActiveAssumption == MaxActive \in Nat

VARIABLES
    token,       \* refresh_token: the row that each request inserted
    registered,  \* the requests that inserted the user row of the email
    tx           \* the requests

vars == <<token, registered, tx>>

-----------------------------------------------------------------------------
Reasons == {"rotated", "logout", "reuse_detected"}

(* family = None: no such row.  revoked = None: revoked_at IS NULL.        *)
Token == [family: Req \cup {None}, parent: Req \cup {None},
          revoked: Reasons \cup {None}, expired: BOOLEAN]
NoToken == [family |-> None, parent |-> None, revoked |-> None, expired |-> FALSE]

(* shown: the token of the request's cookie; targets: the rows its UPDATE  *)
(* saw when it started; held: the rows it has updated, and so locked.      *)
Ended == {"ok", "rejected", "reuse", "error"}
Pc == Ended \cup {"idle", "create", "read", "revoke", "family", "lock", "commit"}
Tx == [pc: Pc, shown: Req \cup {None}, reason: Reasons \cup {None},
       targets: SUBSET Req, held: SUBSET Req]
Idle == [pc |-> "idle", shown |-> None, reason |-> None,
         targets |-> {}, held |-> {}]

TypeOK ==
    /\ token \in [Req -> Token]
    /\ registered \subseteq Req
    /\ tx \in [Req -> Tx]

Init ==
    /\ token = [r \in Req |-> NoToken]
    /\ registered = {}
    /\ tx = [r \in Req |-> Idle]

-----------------------------------------------------------------------------
Issued == {t \in Req : token[t].family # None}
IsActive(t) == t \in Issued /\ token[t].revoked = None
ActiveIn(f) == {t \in Issued : token[t].family = f /\ token[t].revoked = None}

Running(r) == tx[r].pc \notin Ended \cup {"idle"}
Locked(r, t) == \E q \in Req \ {r} : t \in tx[q].held

Step(r, new) == tx' = [tx EXCEPT ![r] = new]

(* Mutant: the session is not closed, and its locks stay.                  *)
LeakyClose(r, outcome) == Step(r, [tx[r] EXCEPT !.pc = outcome])
Close(r, outcome) == Step(r, [tx[r] EXCEPT !.pc = outcome, !.held = {}])

Admitted(r) ==
    tx[r].pc = "idle" /\ Cardinality({q \in Req : Running(q)}) < MaxActive

(* _issue_pair, with the INSERT of the new token's row.                    *)
IssuePair(r, rows, family, parent) ==
    [rows EXCEPT ![r] = [NoToken EXCEPT !.family = family, !.parent = parent]]

-----------------------------------------------------------------------------
(* register: a check, then an INSERT that the unique email may refuse.     *)
BeginRegister(r) ==
    /\ Admitted(r)
    /\ IF registered # {} THEN Close(r, "rejected")
                          ELSE Step(r, [Idle EXCEPT !.pc = "create"])
    /\ UNCHANGED <<token, registered>>

(* Mutant: no unique constraint on the email.                              *)
CreateTwice(r) ==
    /\ tx[r].pc = "create"
    /\ registered' = registered \cup {r}
    /\ token' = IssuePair(r, token, r, None)
    /\ Close(r, "ok")

CreateUser(r) ==
    /\ tx[r].pc = "create"
    /\ IF registered # {}
       THEN Close(r, "error") /\ UNCHANGED <<token, registered>>
       ELSE /\ registered' = {r}
            /\ token' = IssuePair(r, token, r, None)
            /\ Close(r, "ok")

(* login, with the right password: every login starts a family.            *)
Login(r) ==
    /\ Admitted(r)
    /\ registered # {}
    /\ token' = IssuePair(r, token, r, None)
    /\ Close(r, "ok")
    /\ UNCHANGED registered

-----------------------------------------------------------------------------
(* A request with the cookie of an issued token.  decode_refresh refuses an *)
(* expired one before anything is read.                                    *)
Present(r, pc, reason) ==
    /\ Admitted(r)
    /\ \E t \in Issued :
          /\ ~token[t].expired
          /\ Step(r, [Idle EXCEPT !.pc = pc, !.shown = t, !.reason = reason])
    /\ UNCHANGED <<token, registered>>

(* Mutant: the reason of an administrator.                                 *)
LogoutManual(r) == Present(r, "family", "manual")

BeginRefresh(r) == Present(r, "read", None)
BeginLogout(r) == Present(r, "family", "logout")

(* Mutant: revoked_at is not looked at.                                    *)
ReadExpiry(r) ==
    /\ tx[r].pc = "read"
    /\ IF token[tx[r].shown].expired
       THEN Close(r, "rejected")
       ELSE Step(r, [tx[r] EXCEPT !.pc = "revoke", !.reason = "rotated"])
    /\ UNCHANGED <<token, registered>>

(* Steps 4 and 5 of refresh, on the row as it is now.                      *)
ReadToken(r) ==
    /\ tx[r].pc = "read"
    /\ LET row == token[tx[r].shown]
       IN  IF row.revoked # None
           THEN Step(r, [tx[r] EXCEPT !.pc = "family", !.reason = "reuse_detected"])
           ELSE IF row.expired
           THEN Close(r, "rejected")
           ELSE Step(r, [tx[r] EXCEPT !.pc = "revoke", !.reason = "rotated"])
    /\ UNCHANGED <<token, registered>>

(* Mutants of Revoke: UPDATE without "revoked_at IS NULL"; no UPDATE.      *)
RevokeAgain(r) ==
    /\ tx[r].pc = "revoke"
    /\ ~Locked(r, tx[r].shown)
    /\ Step(r, [tx[r] EXCEPT !.pc = "commit", !.held = {tx[r].shown}])
    /\ UNCHANGED <<token, registered>>
RevokeNothing(r) ==
    /\ tx[r].pc = "revoke"
    /\ Step(r, [tx[r] EXCEPT !.pc = "commit"])
    /\ UNCHANGED <<token, registered>>

(* Step 7: UPDATE ... WHERE id = jti AND revoked_at IS NULL.  It waits for *)
(* a locked row and looks at it again; that it matched is not checked.     *)
Revoke(r) ==
    /\ tx[r].pc = "revoke"
    /\ ~Locked(r, tx[r].shown)
    /\ Step(r, [tx[r] EXCEPT !.pc = "commit",
                             !.held = {t \in {tx[r].shown} : IsActive(t)}])
    /\ UNCHANGED <<token, registered>>

(* revoke_family: the UPDATE sees the rows committed when it starts ...    *)
ScanFamily(r) ==
    /\ tx[r].pc = "family"
    /\ Step(r, [tx[r] EXCEPT !.pc = "lock",
                             !.targets = ActiveIn(token[tx[r].shown].family)])
    /\ UNCHANGED <<token, registered>>

(* ... and waits for those that are locked.  One index order serves every  *)
(* such UPDATE, so that they do not wait for each other.                   *)
LockFamily(r) ==
    /\ tx[r].pc = "lock"
    /\ \A t \in tx[r].targets : ~Locked(r, t)
    /\ Step(r, [tx[r] EXCEPT !.pc = "commit",
                             !.held = {t \in tx[r].targets : IsActive(t)}])
    /\ UNCHANGED <<token, registered>>

Revoked(r) == [t \in Req |-> IF t \in tx[r].held
                             THEN [token[t] EXCEPT !.revoked = tx[r].reason]
                             ELSE token[t]]

(* Mutant: a reuse leaves by raise before its commit.                      *)
CommitNoReuse(r) ==
    /\ tx[r].pc = "commit"
    /\ token' = CASE tx[r].reason = "rotated" ->
                       IssuePair(r, Revoked(r), token[tx[r].shown].family, tx[r].shown)
                  [] tx[r].reason = "logout" -> Revoked(r)
                  [] OTHER -> token
    /\ Close(r, IF tx[r].reason = "reuse_detected" THEN "reuse" ELSE "ok")
    /\ UNCHANGED registered

Commit(r) ==
    /\ tx[r].pc = "commit"
    /\ token' = IF tx[r].reason = "rotated"
                THEN IssuePair(r, Revoked(r), token[tx[r].shown].family, tx[r].shown)
                ELSE Revoked(r)
    /\ Close(r, IF tx[r].reason = "reuse_detected" THEN "reuse" ELSE "ok")
    /\ UNCHANGED registered

(* The process restarts or the connection is lost: the transaction is gone. *)
Fail(r) ==
    /\ Running(r)
    /\ Close(r, "error")
    /\ UNCHANGED <<token, registered>>

(* jwt_refresh_ttl_seconds after it was issued.                            *)
Expire(t) ==
    /\ t \in Issued /\ ~token[t].expired
    /\ token' = [token EXCEPT ![t].expired = TRUE]
    /\ UNCHANGED <<registered, tx>>

-----------------------------------------------------------------------------
Advance(r) ==
    \/ CreateUser(r) \/ ReadToken(r) \/ Revoke(r)
    \/ ScanFamily(r) \/ LockFamily(r) \/ Commit(r)

Next ==
    \E r \in Req :
        \/ BeginRegister(r) \/ Login(r) \/ BeginRefresh(r) \/ BeginLogout(r)
        \/ Advance(r) \/ Fail(r) \/ Expire(r)

Spec == Init /\ [][Next]_vars
FairSpec == Spec /\ \A r \in Req : WF_vars(Advance(r))

-----------------------------------------------------------------------------
(* Properties.                                                             *)

(* A rotated token's predecessor is revoked and of its family, whoever won *)
(* the race to revoke it: no refresh leaves both old and new token active  *)
(* (auth_service.refresh, step 7).                                         *)
LineageRevoked ==
    \A t \in Issued : token[t].parent # None =>
        LET p == token[token[t].parent]
        IN  p.revoked # None /\ p.family = token[t].family

(* What revoked a token first stays on record, and no step makes a revoked *)
(* token active again (refresh_token_repo, "revoked_at IS NULL").          *)
RevokedStays ==
    [][\A t \in Req : token[t].revoked # None =>
          token'[t].revoked = token[t].revoked]_token

(* A token that is already revoked when a refresh presents it buys nothing: *)
(* the request never succeeds (auth_service.refresh, step 4).              *)
UsedTokenRefused ==
    \A r \in Req :
        [](tx[r].pc = "read" /\ token[tx[r].shown].revoked # None
              => [](tx[r].pc # "ok"))

(* An email is registered once, also when two requests have both found it  *)
(* free (auth_service.register).                                           *)
RegisteredOnce == Cardinality(registered) <= 1

(* A family that a logout or a reuse has ended has no active token         *)
(* (auth_service.py: logout revokes "the whole family at once";            *)
(* docs/auth-flow.md, reuse: every active token of the family).            *)
EndedBy(q) == tx[q].pc \in {"ok", "reuse"} /\ tx[q].reason \in {"logout", "reuse_detected"}
FamilyStaysEnded ==
    \A q \in Req : EndedBy(q) => ActiveIn(token[tx[q].shown].family) = {}

(* No request waits for ever on the row locks of the others.               *)
EveryRequestEnds == \A r \in Req : Running(r) ~> ~Running(r)

(* One request at a time, the families are the sessions of the promise.    *)
Sessions == INSTANCE AuthSessions
    WITH current <- [f \in Req |-> IF ActiveIn(f) = {} THEN None
                                   ELSE CHOOSE t \in ActiveIn(f) : TRUE],
         ended <- {token[tx[q].shown].family : q \in {p \in Req : EndedBy(p)}}
ImplementsSessions == Sessions!Spec
=============================================================================
