----------------------- MODULE RefreshRotation_proofs -----------------------
(***************************************************************************)
(* Proofs about RefreshRotation, for every set of requests.                *)
(***************************************************************************)
EXTENDS RefreshRotation, FiniteSetTheorems, TLAPS

-----------------------------------------------------------------------------
(* The inductive invariant.  A request that has inserted its token is over; *)
(* a row is locked by one request and not yet revoked; a rotation about to *)
(* commit has revoked its predecessor or found it revoked.                 *)

Presenting == {"read", "revoke", "family", "lock", "commit"}

HeldInv ==
    \A r \in Req : /\ \A t \in tx[r].held : IsActive(t)
                   /\ \A q \in Req \ {r} : tx[q].held \cap tx[r].held = {}

ShownInv ==
    \A r \in Req :
        /\ tx[r].pc \in Presenting => tx[r].shown \in Issued
        /\ tx[r].pc = "revoke" => tx[r].reason = "rotated"
        /\ tx[r].pc \in {"family", "lock"} =>
              tx[r].reason \in {"logout", "reuse_detected"}
        /\ tx[r].pc = "commit" /\ tx[r].reason = "rotated" =>
              tx[r].shown \in tx[r].held \/ token[tx[r].shown].revoked # None
        /\ tx[r].pc = "commit" => tx[r].reason # None

IssuedInv == /\ \A t \in Issued : tx[t].pc \in Ended
             /\ \A t \in Req \ Issued : token[t].revoked = None

RotationInv == TypeOK /\ HeldInv /\ ShownInv /\ IssuedInv /\ LineageRevoked

LEMMA IdleType == Idle \in Tx /\ NoToken \in Token
BY DEF Idle, Tx, Pc, NoToken, Token

LEMMA InitRotationInv == Init => RotationInv
<1> SUFFICES ASSUME Init PROVE RotationInv
  OBVIOUS
<1>1. TypeOK
  BY IdleType DEF Init, TypeOK
<1>2. Issued = {} /\ \A t \in Req : token[t].revoked = None
  BY DEF Init, Issued, NoToken
<1>3. \A r \in Req : tx[r].pc = "idle" /\ tx[r].held = {}
  BY DEF Init, Idle
<1>4. QED
  BY <1>1, <1>2, <1>3
  DEF RotationInv, HeldInv, ShownInv, IssuedInv, LineageRevoked, Presenting

(* A request that has not ended moves on; nothing is committed.            *)
LEMMA QuietStep ==
    ASSUME RotationInv, NEW r \in Req, NEW new \in Tx, tx[r].pc \notin Ended,
           Step(r, new), UNCHANGED <<token, registered>>,
           \A t \in new.held : t \in tx[r].held \/ (IsActive(t) /\ ~Locked(r, t)),
           new.pc \in Presenting => new.shown \in Issued,
           new.pc = "revoke" => new.reason = "rotated",
           new.pc \in {"family", "lock"} => new.reason \in {"logout", "reuse_detected"},
           new.pc = "commit" /\ new.reason = "rotated" =>
               new.shown \in new.held \/ token[new.shown].revoked # None,
           new.pc = "commit" => new.reason # None
    PROVE  RotationInv'
<1>1. tx' = [tx EXCEPT ![r] = new] /\ token' = token
  BY DEF Step
<1>2. tx \in [Req -> Tx] /\ r \notin Issued /\ Issued \subseteq Req
  BY DEF RotationInv, TypeOK, IssuedInv, Issued
<1>3. TypeOK'
  BY <1>1, <1>2 DEF RotationInv, TypeOK
<1>4. HeldInv'
  <2>1. /\ \A t \in new.held : IsActive(t)
        /\ \A q \in Req \ {r} : tx[q].held \cap new.held = {}
    BY DEF RotationInv, HeldInv, Locked
  <2>2. QED
    BY <1>1, <1>2, <2>1 DEF RotationInv, HeldInv, IsActive, Issued
<1>5. ShownInv'
  BY <1>1, <1>2 DEF RotationInv, ShownInv, Issued
<1>6. IssuedInv' /\ LineageRevoked'
  BY <1>1, <1>2 DEF RotationInv, IssuedInv, LineageRevoked, Issued
<1>7. QED
  BY <1>3, <1>4, <1>5, <1>6 DEF RotationInv

(* A request ends: what it holds is revoked (or, after a rollback, not),    *)
(* and it may leave a new token whose predecessor is revoked.               *)
LEMMA EndStep ==
    ASSUME RotationInv, NEW r \in Req, NEW outcome \in Ended,
           tx[r].pc \notin Ended, Close(r, outcome),
           registered' \subseteq Req, token' \in [Req -> Token],
           \A t \in Req \ {r} :
               /\ token'[t].family = token[t].family
               /\ token'[t].parent = token[t].parent
               /\ token[t].revoked # None => token'[t].revoked = token[t].revoked
               /\ t \notin tx[r].held => token'[t].revoked = token[t].revoked,
           token'[r].revoked = None,
           token'[r].family # None /\ token'[r].parent # None =>
               /\ token'[r].parent \in Req \ {r}
               /\ token'[token'[r].parent].revoked # None
               /\ token'[token'[r].parent].family = token'[r].family
    PROVE  RotationInv'
<1> DEFINE new == [tx[r] EXCEPT !.pc = outcome, !.held = {}]
<1>1. tx' = [tx EXCEPT ![r] = new]
  BY DEF Close, Step
<1>2. /\ tx \in [Req -> Tx] /\ tx[r] \in Tx /\ r \notin Issued
      /\ token \in [Req -> Token] /\ Issued \subseteq Req
  BY DEF RotationInv, TypeOK, IssuedInv, Issued
<1>3. new.pc = outcome /\ new.held = {} /\ new \in Tx
  BY <1>2 DEF Tx, Pc
<1> HIDE DEF new
<1>4. outcome \notin Presenting
  BY DEF Ended, Presenting
<1>5. TypeOK'
  BY <1>1, <1>2, <1>3 DEF TypeOK
<1>6. \A t \in Req \ {r} : t \in Issued' <=> t \in Issued
  BY <1>2 DEF Issued
<1>7. Issued \subseteq Issued'
  BY <1>2, <1>6
<1>8. HeldInv'
  <2>1. ASSUME NEW q \in Req \ {r}, NEW t \in tx[q].held PROVE IsActive(t)'
    <3>1. IsActive(t) /\ t \notin tx[r].held
      BY DEF RotationInv, HeldInv
    <3>2. t \in Req \ {r}
      BY <1>2, <3>1 DEF IsActive
    <3>3. token'[t].revoked = token[t].revoked /\ t \in Issued'
      BY <1>6, <3>1, <3>2 DEF IsActive
    <3>4. QED
      BY <3>1, <3>3 DEF IsActive
  <2>2. QED
    BY <1>1, <1>2, <1>3, <2>1 DEF RotationInv, HeldInv
<1>9. ShownInv'
  <2>1. ASSUME NEW q \in Req, q # r, tx[q].pc = "commit", tx[q].reason = "rotated"
        PROVE  tx[q].shown \in tx[q].held \/ token'[tx[q].shown].revoked # None
    <3>1. /\ tx[q].shown \in Issued
          /\ tx[q].shown \in tx[q].held \/ token[tx[q].shown].revoked # None
      BY <2>1 DEF RotationInv, ShownInv, Presenting
    <3>2. QED
      BY <1>2, <3>1
  <2>2. QED
    BY <1>1, <1>2, <1>3, <1>4, <1>7, <2>1 DEF RotationInv, ShownInv, Presenting
<1>10. IssuedInv'
  <2>1. \A t \in Req \ {r} : t \notin Issued => token'[t].revoked = None
    BY DEF RotationInv, IssuedInv, HeldInv, IsActive
  <2>2. \A t \in Req \ Issued' : token'[t].revoked = None
    BY <1>6, <2>1
  <2>3. \A t \in Issued' : tx'[t].pc \in Ended
    <3>1. \A t \in Issued' : t = r \/ tx[t].pc \in Ended
      BY <1>6 DEF RotationInv, IssuedInv, Issued
    <3>2. QED
      BY <1>1, <1>2, <1>3, <3>1 DEF Issued
  <2>4. QED
    BY <2>2, <2>3 DEF IssuedInv
<1>11. LineageRevoked'
  <2>1. ASSUME NEW t \in Issued', t # r, token'[t].parent # None
        PROVE  /\ token'[token'[t].parent].revoked # None
               /\ token'[token'[t].parent].family = token'[t].family
    <3> DEFINE p == token[t].parent
    <3>1. t \in Issued /\ t \in Req \ {r} /\ token'[t].parent = p
      BY <1>6, <2>1 DEF Issued
    <3>2. token[p].revoked # None /\ token[p].family = token[t].family
      BY <2>1, <3>1 DEF RotationInv, LineageRevoked
    <3>3. p \in Issued /\ p # r
      BY <1>2, <2>1, <3>1, <3>2 DEF Issued, Token
    <3>4. QED
      BY <1>2, <3>1, <3>2, <3>3
  <2>2. QED
    BY <2>1 DEF LineageRevoked, Issued
<1>12. QED
  BY <1>5, <1>8, <1>9, <1>10, <1>11 DEF RotationInv

(* _issue_pair fills the row of a request that has none.                   *)
LEMMA IssueRow ==
    ASSUME NEW r \in Req, NEW rows \in [Req -> Token], NEW f \in Req \cup {None},
           NEW p \in Req \cup {None}
    PROVE  /\ IssuePair(r, rows, f, p) \in [Req -> Token]
           /\ \A t \in Req \ {r} : IssuePair(r, rows, f, p)[t] = rows[t]
           /\ IssuePair(r, rows, f, p)[r].family = f
           /\ IssuePair(r, rows, f, p)[r].parent = p
           /\ IssuePair(r, rows, f, p)[r].revoked = None
<1> DEFINE row == [NoToken EXCEPT !.family = f, !.parent = p]
<1>1. row \in Token /\ row.family = f /\ row.parent = p /\ row.revoked = None
  BY IdleType DEF NoToken, Token
<1> HIDE DEF row
<1>2. IssuePair(r, rows, f, p) = [rows EXCEPT ![r] = row]
  BY DEF IssuePair, row
<1>3. QED
  BY <1>1, <1>2

(* What revoked a token first stays on record (refresh_token_repo.revoke,   *)
(* revoke_family: "revoked_at IS NULL").                                   *)
LEMMA StepRotationInv ==
    RotationInv /\ [Next]_vars =>
        /\ RotationInv'
        /\ \A t \in Req : token[t].revoked # None =>
               token'[t].revoked = token[t].revoked
<1>0. ASSUME RotationInv, UNCHANGED vars PROVE RotationInv' /\ token' = token
  BY <1>0 DEF RotationInv, TypeOK, HeldInv, ShownInv, IssuedInv, LineageRevoked,
     IsActive, Issued, vars
<1> SUFFICES ASSUME RotationInv, Next
             PROVE  /\ RotationInv'
                    /\ \A t \in Req : token[t].revoked # None =>
                           token'[t].revoked = token[t].revoked
  BY <1>0
<1> PICK r \in Req : \/ BeginRegister(r) \/ Login(r) \/ BeginRefresh(r)
                     \/ BeginLogout(r) \/ Advance(r) \/ Fail(r) \/ Expire(r)
  BY DEF Next
<1>t. /\ token \in [Req -> Token] /\ tx \in [Req -> Tx] /\ tx[r] \in Tx
      /\ registered \subseteq Req /\ r # None /\ Issued \subseteq Req
  BY ReqAssumption DEF RotationInv, TypeOK, Issued
<1>o. {"ok", "rejected", "reuse", "error"} \subseteq Ended
  BY DEF Ended
<1>i. tx[r].pc \notin Ended => r \notin Issued /\ token[r].revoked = None
  <2>1. IssuedInv
    BY DEF RotationInv
  <2>2. QED
    BY <2>1 DEF IssuedInv
<1>p. /\ tx[r].pc \in Presenting => tx[r].shown \in Issued
      /\ tx[r].pc = "revoke" => tx[r].reason = "rotated"
      /\ tx[r].pc \in {"family", "lock"} =>
            tx[r].reason \in {"logout", "reuse_detected"}
      /\ tx[r].pc = "commit" /\ tx[r].reason = "rotated" =>
            tx[r].shown \in tx[r].held \/ token[tx[r].shown].revoked # None
      /\ tx[r].pc = "commit" => tx[r].reason # None
      /\ \A t \in tx[r].held : IsActive(t)
  BY DEF RotationInv, ShownInv, HeldInv
(* The two ways a step leaves the rows alone.                              *)
<1>q. ASSUME NEW new \in Tx, tx[r].pc \notin Ended, Step(r, new),
             UNCHANGED <<token, registered>>, new.held \subseteq tx[r].held,
             new.pc \in Presenting => new.shown \in Issued,
             new.pc = "revoke" => new.reason = "rotated",
             new.pc \in {"family", "lock"} => new.reason \in {"logout", "reuse_detected"},
             new.pc # "commit"
      PROVE  RotationInv' /\ token' = token
  <2>1. token' = token
    BY <1>q
  <2>2. \A t \in new.held : t \in tx[r].held \/ (IsActive(t) /\ ~Locked(r, t))
    BY <1>q
  <2>3. QED
    BY <1>q, <2>1, <2>2, QuietStep
<1>c. ASSUME NEW outcome \in Ended, tx[r].pc \notin Ended, Close(r, outcome),
             UNCHANGED <<token, registered>>
      PROVE  RotationInv' /\ token' = token
  BY <1>c, <1>t, <1>i, EndStep DEF Issued
<1>1. CASE BeginRegister(r)
  <2>1. tx[r].pc \notin Ended /\ UNCHANGED <<token, registered>>
    BY <1>1 DEF BeginRegister, Admitted, Ended
  <2>2. CASE Close(r, "rejected")
    BY <1>o, <1>c, <2>1, <2>2
  <2>3. CASE Step(r, [Idle EXCEPT !.pc = "create"])
    <3>1. /\ [Idle EXCEPT !.pc = "create"] \in Tx
          /\ [Idle EXCEPT !.pc = "create"].held = {}
          /\ [Idle EXCEPT !.pc = "create"].pc = "create"
      BY IdleType DEF Idle, Tx, Pc
    <3>2. QED
      BY <1>q, <2>1, <2>3, <3>1 DEF Presenting
  <2>4. QED
    BY <1>1, <2>2, <2>3 DEF BeginRegister
(* register and login insert the first token of a family.                  *)
<1>f. ASSUME tx[r].pc \notin Ended, token' = IssuePair(r, token, r, None),
             Close(r, "ok"), registered' \subseteq Req
      PROVE  /\ RotationInv'
             /\ \A t \in Req : token[t].revoked # None =>
                    token'[t].revoked = token[t].revoked
  <2>1. /\ token' \in [Req -> Token] /\ token'[r].parent = None
        /\ token'[r].revoked = None
        /\ \A t \in Req \ {r} : token'[t] = token[t]
    BY <1>f, <1>t, IssueRow
  <2>2. QED
    BY <1>f, <1>i, <1>o, <2>1, EndStep
<1>2. CASE Login(r)
  BY <1>2, <1>f, <1>t DEF Login, Admitted, Ended
<1>3. ASSUME NEW pc \in {"read", "family"}, NEW reason \in {None, "logout"},
             pc = "family" => reason = "logout", Present(r, pc, reason)
      PROVE  RotationInv' /\ token' = token
  <2>1. PICK t \in Issued :
           Step(r, [Idle EXCEPT !.pc = pc, !.shown = t, !.reason = reason])
    BY <1>3 DEF Present
  <2> DEFINE new == [Idle EXCEPT !.pc = pc, !.shown = t, !.reason = reason]
  <2>2. /\ new \in Tx /\ new.held = {} /\ new.shown = t /\ new.pc = pc
        /\ new.reason = reason
    BY <1>t, IdleType DEF Idle, Tx, Pc, Reasons
  <2>3. tx[r].pc \notin Ended /\ UNCHANGED <<token, registered>>
    BY <1>3 DEF Present, Admitted, Ended
  <2>s. Step(r, new)
    BY <2>1
  <2> HIDE DEF new
  <2>4. QED
    BY <1>3, <1>q, <2>1, <2>2, <2>3, <2>s
<1>4. CASE CreateUser(r)
  <2>1. tx[r].pc \notin Ended
    BY <1>4 DEF CreateUser, Ended
  <2>2. CASE Close(r, "error") /\ UNCHANGED <<token, registered>>
    BY <1>o, <1>c, <2>1, <2>2
  <2>3. CASE registered' = {r} /\ token' = IssuePair(r, token, r, None) /\ Close(r, "ok")
    BY <1>f, <2>1, <2>3
  <2>4. QED
    BY <1>4, <2>2, <2>3 DEF CreateUser
<1>5. CASE ReadToken(r)
  <2>1. /\ tx[r].pc = "read" /\ tx[r].pc \notin Ended /\ tx[r].shown \in Issued
        /\ UNCHANGED <<token, registered>>
    BY <1>5, <1>p DEF ReadToken, Ended, Presenting
  <2>2. CASE Close(r, "rejected")
    BY <1>o, <1>c, <2>1, <2>2
  <2>3. ASSUME NEW pc \in {"family", "revoke"},
               NEW reason \in {"reuse_detected", "rotated"},
               pc = "family" <=> reason = "reuse_detected",
               Step(r, [tx[r] EXCEPT !.pc = pc, !.reason = reason])
        PROVE  RotationInv' /\ token' = token
    <3> DEFINE new == [tx[r] EXCEPT !.pc = pc, !.reason = reason]
    <3>1. /\ new \in Tx /\ new.held = tx[r].held /\ new.shown = tx[r].shown
          /\ new.pc = pc /\ new.reason = reason
      BY <1>t DEF Tx, Pc, Reasons
    <3>2. Step(r, new)
      BY <2>3
    <3> HIDE DEF new
    <3>3. QED
      BY <1>q, <2>1, <2>3, <3>1, <3>2
  <2>4. \/ Close(r, "rejected")
        \/ Step(r, [tx[r] EXCEPT !.pc = "family", !.reason = "reuse_detected"])
        \/ Step(r, [tx[r] EXCEPT !.pc = "revoke", !.reason = "rotated"])
    BY <1>5 DEF ReadToken
  <2>5. QED
    BY <2>2, <2>3, <2>4
(* Revoke and LockFamily take the rows that are active and not locked.     *)
<1>l. ASSUME NEW held \in SUBSET Req, tx[r].pc \in {"revoke", "lock"},
             Step(r, [tx[r] EXCEPT !.pc = "commit", !.held = held]),
             UNCHANGED <<token, registered>>,
             \A t \in held : IsActive(t) /\ ~Locked(r, t),
             tx[r].pc = "revoke" =>
                 tx[r].shown \in held \/ token[tx[r].shown].revoked # None
      PROVE  RotationInv' /\ token' = token
  <2> DEFINE new == [tx[r] EXCEPT !.pc = "commit", !.held = held]
  <2>1. /\ new \in Tx /\ new.held = held /\ new.shown = tx[r].shown
        /\ new.pc = "commit" /\ new.reason = tx[r].reason
    BY <1>l, <1>t DEF Tx, Pc
  <2>2. tx[r].pc \notin Ended /\ tx[r].shown \in Issued
    BY <1>l, <1>p DEF Ended, Presenting
  <2>3. tx[r].reason # None /\ (tx[r].reason = "rotated" => tx[r].pc = "revoke")
    BY <1>l, <1>p DEF None
  <2>4. Step(r, new)
    BY <1>l
  <2> HIDE DEF new
  <2>5. QED
    BY <1>l, <2>1, <2>2, <2>3, <2>4, QuietStep
<1>6. CASE Revoke(r)
  <2> DEFINE held == {t \in {tx[r].shown} : IsActive(t)}
  <2>1. tx[r].shown \in Issued /\ tx[r].pc = "revoke"
    BY <1>6, <1>p DEF Revoke, Presenting
  <2>2. held \in SUBSET Req /\ \A t \in held : IsActive(t) /\ ~Locked(r, t)
    BY <1>6, <1>t, <2>1 DEF Revoke
  <2>3. tx[r].shown \in held \/ token[tx[r].shown].revoked # None
    BY <2>1 DEF IsActive
  <2>4. /\ Step(r, [tx[r] EXCEPT !.pc = "commit", !.held = held])
        /\ UNCHANGED <<token, registered>>
    BY <1>6 DEF Revoke
  <2> HIDE DEF held
  <2>5. QED
    BY <1>l, <1>p, <2>1, <2>2, <2>3, <2>4
<1>7. CASE ScanFamily(r)
  <2> DEFINE new == [tx[r] EXCEPT !.pc = "lock",
                           !.targets = ActiveIn(token[tx[r].shown].family)]
  <2>1. /\ tx[r].pc = "family" /\ tx[r].pc \notin Ended /\ Step(r, new)
        /\ UNCHANGED <<token, registered>>
    BY <1>7 DEF ScanFamily, Ended
  <2>2. /\ new \in Tx /\ new.held = tx[r].held /\ new.shown = tx[r].shown
        /\ new.pc = "lock" /\ new.reason = tx[r].reason
    BY <1>t DEF Tx, Pc, ActiveIn
  <2> HIDE DEF new
  <2>3. QED
    BY <1>p, <1>q, <2>1, <2>2 DEF Presenting
<1>8. CASE LockFamily(r)
  <2> DEFINE held == {t \in tx[r].targets : IsActive(t)}
  <2>1. /\ tx[r].pc = "lock"
        /\ held \in SUBSET Req /\ \A t \in held : IsActive(t) /\ ~Locked(r, t)
        /\ Step(r, [tx[r] EXCEPT !.pc = "commit", !.held = held])
        /\ UNCHANGED <<token, registered>>
    BY <1>8, <1>t DEF LockFamily, Tx
  <2> HIDE DEF held
  <2>2. QED
    BY <1>l, <1>p, <2>1
<1>9. CASE Commit(r)
  <2> DEFINE f == token[tx[r].shown].family
             rows == Revoked(r)
  <2>1. /\ tx[r].pc = "commit" /\ tx[r].pc \notin Ended /\ registered' = registered
        /\ tx[r].shown \in Issued /\ f \in Req /\ tx[r].shown # r
        /\ tx[r].reason \in Reasons /\ r \notin tx[r].held
    BY <1>9, <1>i, <1>p, <1>t
    DEF Commit, Ended, Presenting, Issued, Token, Tx, IsActive
  <2>2. /\ rows \in [Req -> Token]
        /\ \A t \in Req \ tx[r].held : rows[t] = token[t]
        /\ \A t \in tx[r].held : /\ rows[t].family = token[t].family
                                /\ rows[t].parent = token[t].parent
                                /\ rows[t].revoked = tx[r].reason
    BY <1>p, <1>t, <2>1 DEF Revoked, Token, IsActive, Issued
  <2>3. \A t \in Req :
            /\ rows[t].family = token[t].family
            /\ rows[t].parent = token[t].parent
            /\ t \notin tx[r].held => rows[t].revoked = token[t].revoked
            /\ token[t].revoked # None => rows[t].revoked = token[t].revoked
    BY <1>p, <2>2 DEF IsActive
  <2>4. PICK outcome \in Ended : Close(r, outcome)
    BY <1>9, <1>o DEF Commit
  <2> HIDE DEF rows
  <2>5. CASE tx[r].reason = "rotated"
    <3>1. token' = IssuePair(r, rows, f, tx[r].shown)
      BY <1>9, <2>5 DEF Commit, rows
    <3>2. /\ token' \in [Req -> Token] /\ token'[r].family = f
          /\ token'[r].parent = tx[r].shown /\ token'[r].revoked = None
          /\ \A t \in Req \ {r} : token'[t] = rows[t]
      BY <1>t, <2>1, <2>2, <3>1, IssueRow
    <3>3. rows[tx[r].shown].revoked # None
      BY <1>p, <1>t, <2>1, <2>2, <2>3, <2>5 DEF None
    <3>4. QED
      BY <1>i, <1>t, <2>1, <2>3, <2>4, <3>2, <3>3, EndStep
  <2>6. CASE tx[r].reason # "rotated"
    <3>1. token' = rows
      BY <1>9, <2>6 DEF Commit, rows
    <3>2. token'[r].revoked = None /\ token'[r].family = None
      BY <1>i, <1>t, <2>1, <2>3, <3>1 DEF Issued
    <3>3. QED
      BY <1>i, <1>t, <2>1, <2>2, <2>3, <2>4, <3>1, <3>2, EndStep
  <2>7. QED
    BY <2>5, <2>6
<1>10. CASE Fail(r)
  BY <1>10, <1>c, <1>o DEF Fail, Running
<1>11. CASE Expire(r)
  <2>1. token' = [token EXCEPT ![r].expired = TRUE] /\ UNCHANGED <<registered, tx>>
    BY <1>11 DEF Expire
  <2>2. /\ token' \in [Req -> Token]
        /\ \A t \in Req : /\ token'[t].family = token[t].family
                         /\ token'[t].parent = token[t].parent
                         /\ token'[t].revoked = token[t].revoked
    BY <1>t, <2>1 DEF Token
  <2>3. Issued' = Issued /\ \A t \in Req : IsActive(t)' <=> IsActive(t)
    BY <2>2 DEF Issued, IsActive
  <2>4. TypeOK' /\ IssuedInv'
    BY <1>t, <2>1, <2>2, <2>3 DEF RotationInv, TypeOK, IssuedInv
  <2>5. HeldInv'
    <3>1. \A q \in Req : \A t \in tx[q].held : IsActive(t)' /\ t \in Req
      BY <1>t, <2>3 DEF RotationInv, HeldInv, IsActive
    <3>2. QED
      BY <2>1, <3>1 DEF RotationInv, HeldInv
  <2>6. ShownInv'
    BY <1>t, <2>1, <2>2, <2>3 DEF RotationInv, ShownInv, Presenting
  <2>7. LineageRevoked'
    <3>1. \A t \in Issued : token[t].parent # None => token[t].parent \in Req
      BY <1>t DEF Token
    <3>2. QED
      BY <1>t, <2>2, <2>3, <3>1 DEF RotationInv, LineageRevoked
  <2>8. QED
    BY <2>2, <2>4, <2>5, <2>6, <2>7 DEF RotationInv
<1>12. QED
  BY <1>1, <1>2, <1>3, <1>4, <1>5, <1>6, <1>7, <1>8, <1>9, <1>10, <1>11
  DEF BeginRefresh, BeginLogout, Advance

(* Rows and requests keep their types (models/refresh_token.py).           *)
THEOREM TypeCorrect == Spec => []TypeOK
<1>1. RotationInv => TypeOK
  BY DEF RotationInv
<1>2. QED
  BY <1>1, InitRotationInv, StepRotationInv, PTL DEF Spec

(* However refreshes, logouts and reuse detections of a family interleave, *)
(* fail or expire, a token that a refresh replaced is revoked and its       *)
(* replacement is of the same family (auth_service.refresh, step 7).       *)
THEOREM LineageKept == Spec => []LineageRevoked
<1>1. RotationInv => LineageRevoked
  BY DEF RotationInv
<1>2. QED
  BY <1>1, InitRotationInv, StepRotationInv, PTL DEF Spec

(* No step makes a revoked token active again or rewrites why it was       *)
(* revoked (refresh_token_repo.revoke, revoke_family).                     *)
THEOREM RevocationKept == Spec => RevokedStays
<1>1. RotationInv /\ [Next]_vars =>
          [\A t \in Req : token[t].revoked # None =>
               token'[t].revoked = token[t].revoked]_token
  BY StepRotationInv
<1>2. QED
  BY <1>1, InitRotationInv, StepRotationInv, PTL DEF Spec, RevokedStays

-----------------------------------------------------------------------------
(* The steps of a request.                                                 *)

Begin(r) == BeginRegister(r) \/ Login(r) \/ BeginRefresh(r) \/ BeginLogout(r)

LEMMA ServerTypes ==
    ASSUME RotationInv, NEW r \in Req
    PROVE  /\ token \in [Req -> Token] /\ tx \in [Req -> Tx] /\ tx[r] \in Tx
           /\ Issued \subseteq Req /\ None \notin Req
           /\ tx[r].pc \notin Ended => r \notin Issued /\ token[r].revoked = None
BY ReqAssumption DEF RotationInv, TypeOK, Issued, IssuedInv

LEMMA CloseTx ==
    ASSUME RotationInv, NEW r \in Req, NEW outcome, Close(r, outcome)
    PROVE  /\ tx'[r].pc = outcome /\ tx'[r].shown = tx[r].shown /\ tx'[r].reason = tx[r].reason
           /\ \A q \in Req \ {r} : tx'[q] = tx[q]
<1>1. tx \in [Req -> Tx] /\ tx[r] \in Tx
  BY ServerTypes
<1>2. QED
  BY <1>1 DEF Close, Step, Tx

(* How a request begins.                                                   *)
LEMMA BeginRegisterTx ==
    ASSUME RotationInv, NEW r \in Req, BeginRegister(r)
    PROVE  /\ tx[r].pc = "idle" /\ \A q \in Req \ {r} : tx'[q] = tx[q]
           /\ tx'[r].pc \in {"rejected", "create"} /\ token' = token
           /\ tx'[r].pc = "create" =>
                 tx'[r].held = {} /\ tx'[r].targets = {} /\ tx'[r].reason = None
<1>1. tx \in [Req -> Tx] /\ tx[r] \in Tx
  BY ServerTypes
<1>2. tx[r].pc = "idle" /\ token' = token
  BY DEF BeginRegister, Admitted
<1>3. CASE Close(r, "rejected")
  BY <1>2, <1>3, CloseTx
<1>4. CASE Step(r, [Idle EXCEPT !.pc = "create"])
  BY <1>1, <1>2, <1>4 DEF Step, Idle
<1>5. QED
  BY <1>3, <1>4 DEF BeginRegister

LEMMA LoginTx ==
    ASSUME RotationInv, NEW r \in Req, Login(r)
    PROVE  /\ tx[r].pc = "idle" /\ \A q \in Req \ {r} : tx'[q] = tx[q]
           /\ tx'[r].pc = "ok" /\ token' = IssuePair(r, token, r, None)
           /\ tx'[r].reason = tx[r].reason
<1>1. tx[r].pc = "idle" /\ token' = IssuePair(r, token, r, None) /\ Close(r, "ok")
  BY DEF Login, Admitted
<1>2. QED
  BY <1>1, CloseTx

LEMMA PresentTx ==
    ASSUME RotationInv, NEW r \in Req, NEW pc, NEW reason, Present(r, pc, reason)
    PROVE  /\ tx[r].pc = "idle" /\ \A q \in Req \ {r} : tx'[q] = tx[q]
           /\ tx'[r].pc = pc /\ tx'[r].reason = reason /\ tx'[r].shown \in Issued
           /\ tx'[r].held = {} /\ tx'[r].targets = {} /\ token' = token
<1>1. tx \in [Req -> Tx]
  BY ServerTypes
<1>2. PICK t \in Issued : Step(r, [Idle EXCEPT !.pc = pc, !.shown = t, !.reason = reason])
  BY DEF Present
<1>3. tx[r].pc = "idle" /\ token' = token
  BY DEF Present, Admitted
<1> DEFINE new == [Idle EXCEPT !.pc = pc, !.shown = t, !.reason = reason]
<1>4. /\ new.pc = pc /\ new.shown = t /\ new.reason = reason /\ new.held = {} /\ new.targets = {}
  BY DEF Idle
<1>5. tx' = [tx EXCEPT ![r] = new]
  BY <1>2 DEF Step
<1> HIDE DEF new
<1>6. tx'[r] = new /\ \A q \in Req \ {r} : tx'[q] = tx[q]
  BY <1>1, <1>5
<1>7. QED
  BY <1>3, <1>4, <1>6

(* How it goes on.                                                         *)
AdvancePc(t, u) ==
    \/ t.pc = "create" /\ u.pc = "ok" /\ u.reason = t.reason
    \/ t.pc = "read" /\ u.pc = "rejected"
    \/ t.pc = "read" /\ u.pc = "family" /\ u.reason = "reuse_detected"
    \/ t.pc = "read" /\ u.pc = "revoke" /\ u.reason = "rotated"
    \/ t.pc = "revoke" /\ u.pc = "commit" /\ u.reason = t.reason
    \/ t.pc = "family" /\ u.pc = "lock" /\ u.reason = t.reason
    \/ t.pc = "lock" /\ u.pc = "commit" /\ u.reason = t.reason
    \/ /\ t.pc = "commit" /\ u.reason = t.reason
       /\ u.pc = IF t.reason = "reuse_detected" THEN "reuse" ELSE "ok"
    \/ t.pc \notin Ended \cup {"idle"} /\ u.pc = "error" /\ u.reason = t.reason

LEMMA AdvanceTx ==
    ASSUME RotationInv, NEW r \in Req, Advance(r) \/ Fail(r)
    PROVE  /\ \A q \in Req \ {r} : tx'[q] = tx[q]
           /\ tx'[r].shown = tx[r].shown
           /\ AdvancePc(tx[r], tx'[r])
           /\ tx[r].pc = "read" => tx'[r].pc # "family" \/ token[tx[r].shown].revoked # None
           /\ tx[r].pc = "read" =>
                 tx'[r].pc \notin {"revoke", "rejected"} \/ token[tx[r].shown].revoked = None
           /\ tx'[r].pc \notin Ended =>
                 \A t \in tx'[r].held \cup tx'[r].targets :
                    \/ t \in tx[r].held \cup tx[r].targets
                    \/ tx[r].pc = "family" /\ t \in ActiveIn(token[tx[r].shown].family)
                    \/ tx[r].pc = "revoke" /\ t = tx[r].shown
           /\ tx[r].pc \in {"create", "commit"} /\ tx'[r].pc = "ok" => Advance(r)
<1>1. tx \in [Req -> Tx] /\ tx[r] \in Tx
  BY ServerTypes
<1>2. CASE CreateUser(r)
  <2>1. PICK outcome \in {"ok", "error"} : Close(r, outcome) /\ tx[r].pc = "create"
    BY <1>2 DEF CreateUser
  <2>2. QED
    BY <1>2, <2>1, CloseTx DEF AdvancePc, Ended, Advance
<1>3. CASE ReadToken(r)
  <2>1. tx[r].pc = "read"
    BY <1>3 DEF ReadToken
  <2>2. CASE token[tx[r].shown].revoked = None /\ Close(r, "rejected")
    BY <2>1, <2>2, CloseTx DEF AdvancePc, Ended
  <2>3. CASE token[tx[r].shown].revoked # None /\ Step(r, [tx[r] EXCEPT !.pc = "family", !.reason = "reuse_detected"])
    BY <1>1, <2>1, <2>3 DEF AdvancePc, Step, Tx
  <2>4. CASE token[tx[r].shown].revoked = None /\ Step(r, [tx[r] EXCEPT !.pc = "revoke", !.reason = "rotated"])
    BY <1>1, <2>1, <2>4 DEF AdvancePc, Step, Tx
  <2>5. QED
    BY <1>3, <2>2, <2>3, <2>4 DEF ReadToken
<1>4. CASE Revoke(r)
  BY <1>1, <1>4 DEF Revoke, AdvancePc, Step, Tx
<1>5. CASE ScanFamily(r)
  BY <1>1, <1>5 DEF ScanFamily, AdvancePc, Step, Tx
<1>6. CASE LockFamily(r)
  BY <1>1, <1>6 DEF LockFamily, AdvancePc, Step, Tx
<1>7. CASE Commit(r)
  <2>1. /\ tx[r].pc = "commit"
        /\ Close(r, IF tx[r].reason = "reuse_detected" THEN "reuse" ELSE "ok")
    BY <1>7 DEF Commit
  <2>2. QED
    BY <1>7, <2>1, CloseTx DEF AdvancePc, Ended, Advance
<1>8. CASE Fail(r)
  <2>1. Close(r, "error") /\ tx[r].pc \notin Ended \cup {"idle"}
    BY <1>8 DEF Fail, Running
  <2>2. QED
    BY <2>1, CloseTx DEF AdvancePc, Ended
<1>9. QED
  BY <1>2, <1>3, <1>4, <1>5, <1>6, <1>7, <1>8 DEF Advance

(* A family begins with a token of its name; a request locks only rows of  *)
(* the family it was shown.                                                *)
FamilyInv == \A t \in Issued : token[t].family \in Issued
ScopeInv ==
    \A r \in Req : Running(r) =>
        \A t \in tx[r].held \cup tx[r].targets :
            /\ t \in Issued /\ tx[r].shown \in Issued
            /\ token[t].family = token[tx[r].shown].family
ScopedInv == RotationInv /\ FamilyInv /\ ScopeInv

(* What it does to the rows.                                               *)
NewRow(row, family) == row.family = family /\ row.revoked = None /\ ~row.expired

LEMMA NewRowIssued ==
    ASSUME NEW r \in Req, NEW rows \in [Req -> Token], NEW f \in Req, NEW p \in Req \cup {None}
    PROVE  /\ NewRow(IssuePair(r, rows, f, p)[r], f)
           /\ \A t \in Req \ {r} : IssuePair(r, rows, f, p)[t] = rows[t]
BY DEF IssuePair, NoToken, NewRow

Issues(t, u) ==
    /\ t.pc \in {"idle", "create"} \/ (t.pc = "commit" /\ t.reason = "rotated")
    /\ u.pc = "ok"

LEMMA RowsStep ==
    ASSUME RotationInv, ScopeInv, NEW r \in Req, Begin(r) \/ Advance(r) \/ Fail(r)
    PROVE  /\ \A t \in Req \ {r} :
                 /\ token'[t].family = token[t].family /\ token'[t].expired = token[t].expired
                 /\ \/ token'[t].revoked = token[t].revoked
                    \/ /\ tx[r].pc = "commit" /\ tx'[r].pc \in {"ok", "reuse"}
                       /\ t \in Issued /\ token[t].family = token[tx[r].shown].family
           /\ ~Issues(tx[r], tx'[r]) => token'[r] = token[r]
           /\ Issues(tx[r], tx'[r]) =>
                 NewRow(token'[r], IF tx[r].pc = "commit" THEN token[tx[r].shown].family ELSE r)
<1>1. /\ token \in [Req -> Token] /\ tx \in [Req -> Tx] /\ tx[r] \in Tx
      /\ Issued \subseteq Req /\ None \notin Req
      /\ tx[r].pc \notin Ended => r \notin Issued /\ token[r].revoked = None
  BY ServerTypes
<1>3. CASE BeginRegister(r)
  BY <1>3, BeginRegisterTx DEF Issues
<1>4. CASE BeginRefresh(r) \/ BeginLogout(r)
  <2>1. token' = token /\ tx'[r].pc # "ok"
    BY <1>4, PresentTx DEF BeginRefresh, BeginLogout
  <2>2. QED
    BY <2>1 DEF Issues
<1>5. CASE Login(r)
  <2>1. tx[r].pc = "idle" /\ tx'[r].pc = "ok" /\ token' = IssuePair(r, token, r, None)
    BY <1>5, LoginTx
  <2>2. QED
    BY <1>1, <2>1, NewRowIssued DEF Issues
<1>6. CASE CreateUser(r)
  <2>1. tx[r].pc = "create"
    BY <1>6 DEF CreateUser
  <2>2. CASE Close(r, "error") /\ UNCHANGED <<token, registered>>
    BY <2>1, <2>2, CloseTx DEF Issues
  <2>3. CASE token' = IssuePair(r, token, r, None) /\ Close(r, "ok")
    <3>1. tx'[r].pc = "ok"
      BY <2>3, CloseTx
    <3>2. QED
      BY <1>1, <2>1, <2>3, <3>1, NewRowIssued DEF Issues
  <2>4. QED
    BY <1>6, <2>2, <2>3 DEF CreateUser
<1>7. CASE ReadToken(r) \/ Revoke(r) \/ ScanFamily(r) \/ LockFamily(r)
  <2>1. token' = token /\ tx[r].pc \in {"read", "revoke", "family", "lock"}
    BY <1>7 DEF ReadToken, Revoke, ScanFamily, LockFamily
  <2>2. QED
    BY <2>1 DEF Issues
<1>8. CASE Fail(r)
  <2>1. token' = token /\ tx'[r].pc = "error"
    BY <1>8, CloseTx DEF Fail
  <2>2. QED
    BY <2>1 DEF Issues
<1>9. CASE Commit(r)
  <2> DEFINE f == token[tx[r].shown].family
             rows == Revoked(r)
  <2>1. /\ tx[r].pc = "commit" /\ r \notin Issued /\ tx[r].shown \in Issued
        /\ f \in Req /\ tx[r].reason # None /\ tx[r].reason \in Reasons
    BY <1>1, <1>9 DEF Commit, Ended, RotationInv, ShownInv, Presenting, Tx, Issued, Token
  <2>2. \A t \in tx[r].held : t \in Issued /\ token[t].family = f
    BY <2>1 DEF ScopeInv, Running, Ended
  <2>3. rows \in [Req -> Token]
    <3>1. ASSUME NEW t \in Req PROVE [token[t] EXCEPT !.revoked = tx[r].reason] \in Token
      BY <1>1, <2>1 DEF Token
    <3>2. QED
      BY <1>1, <3>1 DEF Revoked
  <2>4. \A t \in Req : /\ rows[t].family = token[t].family /\ rows[t].expired = token[t].expired
                       /\ t \notin tx[r].held => rows[t] = token[t]
    BY <1>1 DEF Revoked, Token
  <2>5. tx'[r].pc = IF tx[r].reason = "reuse_detected" THEN "reuse" ELSE "ok"
    BY <1>9, CloseTx DEF Commit
  <2>6. CASE tx[r].reason = "rotated"
    <3>1. token' = IssuePair(r, rows, f, tx[r].shown) /\ Issues(tx[r], tx'[r])
      BY <1>9, <2>1, <2>5, <2>6 DEF Commit, Issues
    <3>a. tx[r].shown \in Req
      BY <1>1, <2>1
    <3> HIDE DEF rows, f
    <3>2. NewRow(token'[r], f) /\ \A t \in Req \ {r} : token'[t] = rows[t]
      BY <2>1, <2>3, <3>1, <3>a, NewRowIssued
    <3>3. QED
      BY <2>1, <2>2, <2>4, <2>5, <3>1, <3>2 DEF f
  <2>7. CASE tx[r].reason # "rotated"
    <3>1. token' = rows /\ ~Issues(tx[r], tx'[r])
      BY <1>9, <2>1, <2>7 DEF Commit, Issues
    <3> HIDE DEF rows
    <3>2. QED
      BY <2>1, <2>2, <2>4, <2>5, <3>1
  <2>8. QED
    BY <2>6, <2>7
<1>10. QED
  BY <1>3, <1>4, <1>5, <1>6, <1>7, <1>8, <1>9 DEF Begin, Advance

LEMMA RequestScopedInv ==
    ASSUME ScopedInv, NEW r \in Req, Begin(r) \/ Advance(r) \/ Fail(r)
    PROVE  ScopedInv'
<1>1. /\ token \in [Req -> Token] /\ tx \in [Req -> Tx] /\ tx[r] \in Tx
      /\ Issued \subseteq Req /\ None \notin Req
  BY ServerTypes DEF ScopedInv
<1>2. RotationInv'
  BY StepRotationInv DEF ScopedInv, Next, Begin
<1>3. /\ \A t \in Req \ {r} :
            token'[t].family = token[t].family /\ token'[t].expired = token[t].expired
      /\ ~Issues(tx[r], tx'[r]) => token'[r] = token[r]
      /\ Issues(tx[r], tx'[r]) =>
            NewRow(token'[r], IF tx[r].pc = "commit" THEN token[tx[r].shown].family ELSE r)
  BY RowsStep DEF ScopedInv
<1>5. \A t \in Issued : t \in Issued' /\ token'[t].family = token[t].family
  <2>1. Issues(tx[r], tx'[r]) => r \notin Issued
    BY ServerTypes DEF ScopedInv, Issues, Ended
  <2>2. QED
    BY <1>1, <1>3, <2>1 DEF Issued
<1>6. tx[r].pc = "commit" => tx[r].shown \in Issued
  BY DEF ScopedInv, RotationInv, ShownInv, Presenting
<1>7. FamilyInv'
  <2> SUFFICES ASSUME NEW t \in Issued' PROVE token'[t].family \in Issued'
    BY DEF FamilyInv
  <2>1. t \in Req /\ token'[t].family # None
    BY DEF Issued
  <2>2. CASE t \in Issued
    BY <1>5, <2>2 DEF ScopedInv, FamilyInv
  <2>3. CASE t \notin Issued
    <3>1. t = r /\ Issues(tx[r], tx'[r])
      BY <1>3, <2>1, <2>3 DEF Issued
    <3>2. token'[r].family = IF tx[r].pc = "commit" THEN token[tx[r].shown].family ELSE r
      BY <1>3, <3>1 DEF NewRow
    <3>3. CASE tx[r].pc = "commit"
      BY <1>5, <1>6, <3>1, <3>2, <3>3 DEF ScopedInv, FamilyInv
    <3>4. CASE tx[r].pc # "commit"
      BY <3>1, <3>2, <3>4
    <3>5. QED
      BY <3>3, <3>4
  <2>4. QED
    BY <2>2, <2>3
<1>8. ScopeInv'
  <2> SUFFICES ASSUME NEW q \in Req, tx'[q].pc \notin Ended \cup {"idle"},
                      NEW t \in tx'[q].held \cup tx'[q].targets
               PROVE  /\ t \in Issued' /\ tx'[q].shown \in Issued'
                      /\ token'[t].family = token'[tx'[q].shown].family
    BY DEF ScopeInv, Running
  <2>1. ASSUME t \in Issued, tx'[q].shown \in Issued,
               token[t].family = token[tx'[q].shown].family
        PROVE  /\ t \in Issued' /\ tx'[q].shown \in Issued'
               /\ token'[t].family = token'[tx'[q].shown].family
    BY <1>5, <2>1
  <2>2. CASE q # r
    <3>1. tx'[q] = tx[q]
      BY <2>2, BeginRegisterTx, LoginTx, PresentTx, AdvanceTx
      DEF ScopedInv, Begin, BeginRefresh, BeginLogout
    <3>2. /\ t \in Issued /\ tx[q].shown \in Issued
          /\ token[t].family = token[tx[q].shown].family
      BY <3>1 DEF ScopedInv, ScopeInv, Running
    <3>3. QED
      BY <2>1, <3>1, <3>2
  <2>3. CASE q = r /\ Begin(r)
    BY <2>3, BeginRegisterTx, LoginTx, PresentTx DEF ScopedInv, Begin, BeginRefresh, BeginLogout, Ended
  <2>4. CASE q = r /\ ~Begin(r)
    <3>1. /\ tx'[r].shown = tx[r].shown /\ AdvancePc(tx[r], tx'[r])
          /\ \/ t \in tx[r].held \cup tx[r].targets
             \/ tx[r].pc = "family" /\ t \in ActiveIn(token[tx[r].shown].family)
             \/ tx[r].pc = "revoke" /\ t = tx[r].shown
      BY <2>4, AdvanceTx DEF ScopedInv
    <3>2. tx[r].pc \notin Ended \cup {"idle"}
      BY <3>1, <2>4 DEF AdvancePc, Ended
    <3>3. /\ t \in Issued /\ tx[r].shown \in Issued
          /\ token[t].family = token[tx[r].shown].family
      BY <3>1, <3>2 DEF ScopedInv, ScopeInv, Running, ActiveIn, RotationInv, ShownInv, Presenting
    <3>4. QED
      BY <2>1, <2>4, <3>1, <3>3
  <2>5. QED
    BY <2>2, <2>3, <2>4
<1>9. QED
  BY <1>2, <1>7, <1>8 DEF ScopedInv

LEMMA ExpireRows ==
    ASSUME RotationInv, NEW e \in Req, Expire(e)
    PROVE  /\ tx' = tx
           /\ \A t \in Req : /\ token'[t].family = token[t].family
                             /\ token'[t].revoked = token[t].revoked
<1>1. token \in [Req -> Token]
  BY ServerTypes
<1>2. token' = [token EXCEPT ![e] = [token[e] EXCEPT !.expired = TRUE]] /\ tx' = tx
  BY DEF Expire
<1>3. QED
  BY <1>1, <1>2 DEF Token

LEMMA StepScopedInv == ASSUME ScopedInv, [Next]_vars PROVE ScopedInv'
<1>1. RotationInv'
  BY StepRotationInv DEF ScopedInv
<1>2. ASSUME tx' = tx,
             \A t \in Req : token'[t].family = token[t].family
      PROVE  ScopedInv'
  <2>1. Issued' = Issued /\ Issued \subseteq Req
    BY <1>2 DEF Issued
  <2>2. FamilyInv' /\ ScopeInv'
    BY <1>2, <2>1 DEF ScopedInv, FamilyInv, ScopeInv, Running
  <2>3. QED
    BY <1>1, <2>2 DEF ScopedInv
<1>3. ASSUME NEW e \in Req, Expire(e) PROVE ScopedInv'
  BY <1>2, <1>3, ExpireRows DEF ScopedInv
<1>4. CASE UNCHANGED vars
  BY <1>2, <1>4 DEF vars
<1>5. QED
  BY <1>3, <1>4, RequestScopedInv DEF Next, Begin

LEMMA InitScopedInv == Init => ScopedInv
<1>1. Init => /\ RotationInv /\ Issued = {}
             /\ \A r \in Req : ~Running(r)
  BY InitRotationInv DEF Init, Issued, NoToken, Idle, Running
<1>2. QED
  BY <1>1 DEF ScopedInv, FamilyInv, ScopeInv

(* A refresh that has been shown a revoked token cannot succeed.           *)
Doomed(r) ==
    \/ tx[r].pc = "read" /\ token[tx[r].shown].revoked # None
    \/ tx[r].pc \in {"family", "lock", "commit"} /\ tx[r].reason = "reuse_detected"
    \/ tx[r].pc \in {"reuse", "error"}

LEMMA StepDoomed ==
    ASSUME RotationInv, NEW r \in Req, Doomed(r), [Next]_vars
    PROVE  Doomed(r)'
<1>1. /\ tx[r].pc # "idle" /\ (tx[r].pc = "read" => tx[r].shown \in Issued)
      /\ Issued \subseteq Req /\ tx \in [Req -> Tx]
  BY ServerTypes DEF Doomed, RotationInv, ShownInv, Presenting
<1>2. \A t \in Req : token[t].revoked # None => token'[t].revoked = token[t].revoked
  BY StepRotationInv
<1>3. tx'[r] = tx[r] => Doomed(r)'
  BY <1>1, <1>2 DEF Doomed
<1>4. ASSUME NEW q \in Req \ {r}, Begin(q) \/ Advance(q) \/ Fail(q) PROVE tx'[r] = tx[r]
  BY <1>4, BeginRegisterTx, LoginTx, PresentTx, AdvanceTx DEF Begin, BeginRefresh, BeginLogout
<1>5. ~Begin(r)
  BY <1>1, BeginRegisterTx, LoginTx, PresentTx DEF Begin, BeginRefresh, BeginLogout
<1>6. ASSUME Advance(r) \/ Fail(r) PROVE Doomed(r)'
  <2>1. /\ tx'[r].shown = tx[r].shown /\ AdvancePc(tx[r], tx'[r])
        /\ tx[r].pc = "read" =>
              tx'[r].pc \notin {"revoke", "rejected"} \/ token[tx[r].shown].revoked = None
    BY <1>6, AdvanceTx
  <2>2. QED
    BY <1>1, <2>1 DEF Doomed, AdvancePc, Ended
<1>7. ASSUME NEW t \in Req, Expire(t) PROVE tx'[r] = tx[r]
  BY <1>7 DEF Expire
<1>8. QED
  BY <1>3, <1>4, <1>5, <1>6, <1>7 DEF Next, Begin, vars

(* A refresh that presents a token already rotated or revoked never         *)
(* succeeds, whatever the other requests do meanwhile                       *)
(* (auth_service.refresh, step 4).                                         *)
THEOREM UsedTokensBuyNothing == Spec => UsedTokenRefused
<1>1. ASSUME NEW r \in Req
      PROVE  Spec => [](tx[r].pc = "read" /\ token[tx[r].shown].revoked # None
                           => [](tx[r].pc # "ok"))
  <2>1. tx[r].pc = "read" /\ token[tx[r].shown].revoked # None => Doomed(r)
    BY DEF Doomed
  <2>2. RotationInv /\ Doomed(r) /\ [Next]_vars => Doomed(r)'
    BY StepDoomed
  <2>3. Doomed(r) => tx[r].pc # "ok"
    BY DEF Doomed
  <2> DEFINE Shown == tx[r].pc = "read" /\ token[tx[r].shown].revoked # None
             Unpaid == tx[r].pc # "ok"
  <2> HIDE DEF Shown, Unpaid
  <2>4. QED
    BY <2>1, <2>2, <2>3, InitRotationInv, StepRotationInv, PTL DEF Spec
<1>2. QED
  BY <1>1 DEF UsedTokenRefused

(* However many requests have found the email free, one of them creates    *)
(* the user (auth_service.register and the unique email).                  *)
THEOREM EmailUnique == Spec => []RegisteredOnce
<1> DEFINE Inv == registered = {} \/ \E r \in Req : registered = {r}
<1>1. Init => Inv
  BY DEF Init
<1>2. Inv /\ [Next]_vars => Inv'
  <2>1. [Next]_vars => UNCHANGED registered \/ \E r \in Req : registered' = {r}
    BY DEF Next, BeginRegister, Login, BeginRefresh, BeginLogout, Present, Advance,
       CreateUser, ReadToken, Revoke, ScanFamily, LockFamily, Commit, Fail, Expire, vars
  <2>2. QED
    BY <2>1
<1>3. Inv => RegisteredOnce
  <2>1. Cardinality({}) = 0 /\ \A r \in Req : Cardinality({r}) = 1
    BY FS_EmptySet, FS_Singleton
  <2>2. QED
    BY <2>1 DEF RegisteredOnce
<1> HIDE DEF Inv
<1>4. QED
  BY <1>1, <1>2, <1>3, PTL DEF Spec
-----------------------------------------------------------------------------
(* One request at a time.  A request finds the rows as it left them, and    *)
(* revokes just the token it replaces or all that is active of the family;  *)
(* so a family has one active token at most, and none once it is ended.    *)

AloneInv == \A p, q \in Req : Running(p) /\ Running(q) => p = q
OutsetInv ==
    \A r \in Req : /\ tx[r].pc \in {"idle", "create"} => tx[r].reason = None
                   /\ EndedBy(r) => tx[r].shown \in Issued
Whole(r) ==
    /\ tx[r].pc = "revoke" => IsActive(tx[r].shown)
    /\ tx[r].pc = "lock" => tx[r].targets = ActiveIn(token[tx[r].shown].family)
    /\ tx[r].pc = "commit" =>
          IF tx[r].reason = "rotated"
          THEN IsActive(tx[r].shown) /\ tx[r].held = {tx[r].shown}
          ELSE tx[r].held = ActiveIn(token[tx[r].shown].family)
OneActiveInv == \A f \in Req : \A s, t \in ActiveIn(f) : s = t
SerialInv ==
    /\ ScopedInv /\ AloneInv /\ OutsetInv /\ (\A r \in Req : Whole(r))
    /\ OneActiveInv /\ FamilyStaysEnded

LEMMA AdmittedAlone ==
    ASSUME MaxActive = 1, AloneInv, NEW r \in Req, Admitted(r)
    PROVE  \A q \in Req : ~Running(q)
<1> SUFFICES ASSUME NEW q \in Req, Running(q) PROVE FALSE
  OBVIOUS
<1>1. {p \in Req : Running(p)} = {q}
  BY DEF AloneInv
<1>2. Cardinality({q}) = 1
  BY FS_Singleton
<1>3. QED
  BY <1>1, <1>2 DEF Admitted

LEMMA BeginsAdmitted == ASSUME NEW r \in Req, Begin(r) PROVE Admitted(r)
BY DEF Begin, BeginRegister, Login, BeginRefresh, BeginLogout, Present

LEMMA RowsCommitted ==
    ASSUME ScopedInv, NEW r \in Req, Commit(r)
    PROVE  \A t \in Issued : /\ t \in tx[r].held => token'[t].revoked # None
                             /\ t \notin tx[r].held => token'[t].revoked = token[t].revoked
<1>1. /\ token \in [Req -> Token] /\ tx \in [Req -> Tx] /\ tx[r] \in Tx
      /\ Issued \subseteq Req /\ tx[r].pc = "commit" /\ r \notin Issued
  BY ServerTypes DEF ScopedInv, Commit, Ended
<1>2. tx[r].reason # None
  BY <1>1 DEF ScopedInv, RotationInv, ShownInv
<1> DEFINE rows == Revoked(r)
<1>3. \A t \in Req : /\ t \in tx[r].held => rows[t].revoked = tx[r].reason
                     /\ t \notin tx[r].held => rows[t] = token[t]
  BY <1>1 DEF Revoked, Token
<1>4. \A t \in Req \ {r} : token'[t] = rows[t]
  <2>1. rows = [t \in Req |-> rows[t]]
    BY DEF Revoked
  <2>2. QED
    BY <2>1 DEF Commit, IssuePair
<1> HIDE DEF rows
<1>5. QED
  BY <1>1, <1>2, <1>3, <1>4

(* What a step leaves active.                                              *)
LEMMA ActiveStep ==
    ASSUME ScopedInv, NEW r \in Req, Begin(r) \/ Advance(r) \/ Fail(r)
    PROVE  /\ r \notin Issued
           /\ \A t \in Issued : t \in Issued' /\ token'[t].family = token[t].family
           /\ ~Commit(r) => \A t \in Issued : IsActive(t)' <=> IsActive(t)
           /\ Commit(r) => \A t \in Issued : IsActive(t)' <=> IsActive(t) /\ t \notin tx[r].held
           /\ Issues(tx[r], tx'[r]) =>
                 /\ IsActive(r)'
                 /\ token'[r].family =
                       IF tx[r].pc = "commit" THEN token[tx[r].shown].family ELSE r
           /\ Issues(tx[r], tx'[r]) /\ tx[r].pc = "commit" => Commit(r)
           /\ \A t \in Issued' : t \in Issued \/ (t = r /\ Issues(tx[r], tx'[r]))
<1>1. /\ Issued \subseteq Req /\ None \notin Req
      /\ tx[r].pc \notin Ended => r \notin Issued
      /\ tx[r].pc \in Presenting => tx[r].shown \in Issued
  BY ServerTypes DEF ScopedInv, RotationInv, ShownInv
<1>2. tx[r].pc \notin Ended
  BY BeginsAdmitted, AdvanceTx DEF ScopedInv, Admitted, AdvancePc, Ended
<1>3. /\ \A t \in Req \ {r} :
            /\ token'[t].family = token[t].family
            /\ \/ token'[t].revoked = token[t].revoked
               \/ tx[r].pc = "commit" /\ tx'[r].pc \in {"ok", "reuse"}
      /\ ~Issues(tx[r], tx'[r]) => token'[r] = token[r]
      /\ Issues(tx[r], tx'[r]) =>
            NewRow(token'[r], IF tx[r].pc = "commit" THEN token[tx[r].shown].family ELSE r)
  BY RowsStep DEF ScopedInv
<1>4. tx[r].pc = "commit" /\ tx'[r].pc \in {"ok", "reuse"} => Commit(r)
  <2>1. Begin(r) => tx[r].pc = "idle"
    BY BeginsAdmitted DEF Admitted
  <2>2. Fail(r) => tx'[r].pc = "error"
    BY CloseTx DEF ScopedInv, Fail
  <2>3. QED
    BY <2>1, <2>2 DEF Advance, CreateUser, ReadToken, Revoke, ScanFamily, LockFamily
<1>5. \A t \in Issued : t \in Issued' /\ token'[t].family = token[t].family
  BY <1>1, <1>2, <1>3 DEF Issued
<1>6. ASSUME ~Commit(r), NEW t \in Issued PROVE IsActive(t)' <=> IsActive(t)
  <2>1. token'[t].revoked = token[t].revoked
    BY <1>1, <1>2, <1>3, <1>4, <1>6
  <2>2. QED
    BY <1>5, <2>1 DEF IsActive
<1>7. ASSUME Commit(r), NEW t \in Issued
      PROVE  IsActive(t)' <=> IsActive(t) /\ t \notin tx[r].held
  BY <1>5, <1>7, RowsCommitted DEF IsActive
<1>8. ASSUME Issues(tx[r], tx'[r])
      PROVE  /\ IsActive(r)'
             /\ token'[r].family = IF tx[r].pc = "commit" THEN token[tx[r].shown].family ELSE r
  <2>1. NewRow(token'[r], IF tx[r].pc = "commit" THEN token[tx[r].shown].family ELSE r)
    BY <1>3, <1>8
  <2>2. tx[r].pc = "commit" => token[tx[r].shown].family # None
    BY <1>1 DEF Presenting, Issued
  <2>3. QED
    BY <1>1, <2>1, <2>2 DEF NewRow, IsActive, Issued
<1>9. \A t \in Issued' : t \in Issued \/ (t = r /\ Issues(tx[r], tx'[r]))
  BY <1>3 DEF Issued
<1>10. QED
  BY <1>1, <1>2, <1>4, <1>5, <1>6, <1>7, <1>8, <1>9 DEF Issues

(* The request that a step ends, if it ends its session.                   *)
LEMMA EndStepOfSession ==
    ASSUME ScopedInv, OutsetInv, NEW r \in Req, Begin(r) \/ Advance(r) \/ Fail(r)
    PROVE  /\ ~EndedBy(r)
           /\ \A q \in Req \ {r} : tx'[q] = tx[q]
           /\ EndedBy(r)' <=> Commit(r) /\ tx[r].reason # "rotated"
           /\ EndedBy(r)' => tx'[r].shown = tx[r].shown /\ tx[r].shown \in Issued
           /\ tx'[r].pc \in {"idle", "create"} => tx'[r].reason = None
<1>1. None \notin Reasons /\ RotationInv /\ tx[r] \in Tx
  BY ServerTypes DEF Reasons, None, ScopedInv
<1>2. tx[r].pc \notin Ended /\ \A q \in Req \ {r} : tx'[q] = tx[q]
  BY <1>1, BeginRegisterTx, LoginTx, PresentTx, AdvanceTx
  DEF Begin, BeginRefresh, BeginLogout, AdvancePc, Ended
<1>3. CASE Begin(r)
  <2>1. tx[r].pc = "idle" /\ tx[r].reason = None
    BY <1>3, BeginsAdmitted DEF Admitted, OutsetInv
  <2>2. ~EndedBy(r)'
    BY <1>1, <1>3, <2>1, BeginRegisterTx, LoginTx, PresentTx
    DEF Begin, BeginRefresh, BeginLogout, EndedBy, None
  <2>3. tx'[r].pc \in {"idle", "create"} => tx'[r].reason = None
    BY <1>1, <1>3, BeginRegisterTx, LoginTx, PresentTx DEF Begin, BeginRefresh, BeginLogout
  <2>4. QED
    BY <1>2, <2>1, <2>2, <2>3 DEF Commit, EndedBy, Ended
<1>4. CASE Advance(r) \/ Fail(r)
  <2>1. AdvancePc(tx[r], tx'[r]) /\ tx'[r].shown = tx[r].shown
    BY <1>1, <1>4, AdvanceTx
  <2>2. CASE Commit(r)
    <3>1. /\ tx[r].pc = "commit" /\ tx[r].shown \in Issued /\ tx[r].reason \in Reasons
          /\ tx'[r].pc = IF tx[r].reason = "reuse_detected" THEN "reuse" ELSE "ok"
          /\ tx'[r].reason = tx[r].reason
      BY <1>1, <2>2, CloseTx DEF Commit, RotationInv, ShownInv, Presenting, Tx
    <3>2. QED
      BY <1>2, <2>1, <2>2, <3>1 DEF EndedBy, Ended, Reasons
  <2>3. CASE ~Commit(r)
    <3>1. ASSUME tx[r].pc = "commit" PROVE tx'[r].pc = "error"
      <4>1. Fail(r)
        BY <1>4, <2>3, <3>1 DEF Advance, CreateUser, ReadToken, Revoke, ScanFamily, LockFamily
      <4>2. QED
        BY <1>1, <4>1, CloseTx DEF Fail
    <3>2. tx[r].pc = "create" => tx[r].reason = None
      BY DEF OutsetInv
    <3>3. ~EndedBy(r)'
      BY <1>1, <2>1, <3>1, <3>2 DEF AdvancePc, EndedBy, None
    <3>4. tx'[r].pc \notin {"idle", "create"}
      BY <2>1 DEF AdvancePc
    <3>5. QED
      BY <1>2, <2>3, <3>3, <3>4 DEF EndedBy, Ended
  <2>4. QED
    BY <2>2, <2>3
<1>5. QED
  BY <1>3, <1>4

(* A request that is alone leaves itself whole.                            *)
LEMMA StepWhole ==
    ASSUME SerialInv, NEW r \in Req, Begin(r) \/ Advance(r) \/ Fail(r)
    PROVE  Whole(r)'
<1>1. RotationInv /\ Whole(r) /\ tx \in [Req -> Tx] /\ tx[r] \in Tx
  BY ServerTypes DEF SerialInv, ScopedInv
<1>2. CASE Begin(r)
  BY <1>1, <1>2, BeginRegisterTx, LoginTx, PresentTx
  DEF Begin, BeginRefresh, BeginLogout, Whole
<1>3. CASE ReadToken(r)
  <2>1. token' = token /\ tx[r].pc = "read" /\ tx[r].shown \in Issued
    BY <1>1, <1>3 DEF ReadToken, RotationInv, ShownInv, Presenting
  <2>2. /\ AdvancePc(tx[r], tx'[r]) /\ tx'[r].shown = tx[r].shown
        /\ tx'[r].pc \notin {"revoke", "rejected"} \/ token[tx[r].shown].revoked = None
    BY <1>1, <1>3, <2>1, AdvanceTx DEF Advance
  <2>3. QED
    BY <2>1, <2>2 DEF AdvancePc, Whole, IsActive, Issued
<1>4. CASE Revoke(r)
  <2>1. token' = token /\ Issued' = Issued /\ tx[r].pc = "revoke" /\ tx[r].reason = "rotated"
    BY <1>1, <1>4 DEF Revoke, Issued, RotationInv, ShownInv
  <2>2. tx'[r] = [tx[r] EXCEPT !.pc = "commit", !.held = {t \in {tx[r].shown} : IsActive(t)}]
    BY <1>1, <1>4 DEF Revoke, Step
  <2>3. IsActive(tx[r].shown)
    BY <1>1, <2>1 DEF Whole
  <2>4. /\ tx'[r].pc = "commit" /\ tx'[r].reason = "rotated" /\ tx'[r].shown = tx[r].shown
        /\ tx'[r].held = {tx[r].shown}
    BY <1>1, <2>1, <2>2, <2>3 DEF Tx
  <2>5. QED
    BY <2>1, <2>3, <2>4 DEF Whole, IsActive
<1>5. CASE ScanFamily(r)
  <2>1. token' = token /\ Issued' = Issued
    BY <1>5 DEF ScanFamily, Issued
  <2>2. tx'[r] = [tx[r] EXCEPT !.pc = "lock", !.targets = ActiveIn(token[tx[r].shown].family)]
    BY <1>1, <1>5 DEF ScanFamily, Step
  <2>3. /\ tx'[r].pc = "lock" /\ tx'[r].shown = tx[r].shown
        /\ tx'[r].targets = ActiveIn(token[tx[r].shown].family)
    BY <1>1, <2>2 DEF Tx
  <2>4. QED
    BY <2>1, <2>3 DEF Whole, ActiveIn
<1>6. CASE LockFamily(r)
  <2>1. /\ token' = token /\ Issued' = Issued /\ tx[r].pc = "lock"
        /\ tx[r].reason \in {"logout", "reuse_detected"}
    BY <1>1, <1>6 DEF LockFamily, Issued, RotationInv, ShownInv
  <2>2. tx'[r] = [tx[r] EXCEPT !.pc = "commit", !.held = {t \in tx[r].targets : IsActive(t)}]
    BY <1>1, <1>6 DEF LockFamily, Step
  <2>3. /\ tx'[r].pc = "commit" /\ tx'[r].shown = tx[r].shown /\ tx'[r].reason = tx[r].reason
        /\ tx'[r].held = {t \in tx[r].targets : IsActive(t)}
    BY <1>1, <2>2 DEF Tx
  <2>4. {t \in tx[r].targets : IsActive(t)} = ActiveIn(token[tx[r].shown].family)
    BY <1>1, <2>1 DEF Whole, ActiveIn, IsActive
  <2>5. QED
    BY <2>1, <2>3, <2>4 DEF Whole, ActiveIn
<1>7. CASE CreateUser(r) \/ Commit(r) \/ Fail(r)
  <2>1. PICK outcome \in Ended : Close(r, outcome)
    BY <1>7 DEF CreateUser, Commit, Fail, Ended
  <2>2. tx'[r].pc \in Ended
    BY <1>1, <2>1, CloseTx
  <2>3. QED
    BY <2>2 DEF Whole, Ended
<1>8. QED
  BY <1>2, <1>3, <1>4, <1>5, <1>6, <1>7 DEF Advance

(* The active tokens of the families after a step: a family starts, its     *)
(* token is replaced, it is ended, or nothing changes.                      *)
Starts(r) ==
    /\ ActiveIn(r) = {} /\ ActiveIn(r)' = {r}
    /\ \A g \in Req \ {r} : ActiveIn(g)' = ActiveIn(g)
Replaces(r, f, t) ==
    /\ ActiveIn(f) = {t} /\ ActiveIn(f)' = {r}
    /\ \A g \in Req \ {f} : ActiveIn(g)' = ActiveIn(g)
Ends(f) ==
    /\ ActiveIn(f)' = {}
    /\ \A g \in Req \ {f} : ActiveIn(g)' = ActiveIn(g)
Leaves == \A g \in Req : ActiveIn(g)' = ActiveIn(g)

LEMMA FamiliesStep ==
    ASSUME SerialInv, NEW r \in Req, Begin(r) \/ Advance(r) \/ Fail(r),
           NEW f \in Req, Commit(r) => f = token[tx[r].shown].family
    PROVE  /\ Commit(r) /\ tx[r].reason = "rotated" => Replaces(r, f, tx[r].shown)
           /\ Commit(r) /\ tx[r].reason # "rotated" => Ends(f)
           /\ ~Commit(r) => Starts(r) \/ Leaves
<1> DEFINE s == tx[r].shown
<1>1. /\ Issued \subseteq Req /\ None \notin Req /\ \A t \in Issued : token[t].family \in Issued
      /\ ScopedInv /\ RotationInv /\ Whole(r)
  BY ServerTypes DEF SerialInv, ScopedInv, FamilyInv
<1>2. /\ r \notin Issued
      /\ \A t \in Issued : t \in Issued' /\ token'[t].family = token[t].family
      /\ ~Commit(r) => \A t \in Issued : IsActive(t)' <=> IsActive(t)
      /\ Commit(r) => \A t \in Issued : IsActive(t)' <=> IsActive(t) /\ t \notin tx[r].held
      /\ Issues(tx[r], tx'[r]) =>
            /\ IsActive(r)'
            /\ token'[r].family = IF tx[r].pc = "commit" THEN token[s].family ELSE r
      /\ Issues(tx[r], tx'[r]) /\ tx[r].pc = "commit" => Commit(r)
      /\ \A t \in Issued' : t \in Issued \/ (t = r /\ Issues(tx[r], tx'[r]))
  BY <1>1, ActiveStep
<1>3. ASSUME NEW g, NEW t
      PROVE  /\ t \in ActiveIn(g) <=> t \in Issued /\ IsActive(t) /\ token[t].family = g
             /\ t \in ActiveIn(g)' <=> t \in Issued' /\ IsActive(t)' /\ token'[t].family = g
  BY DEF ActiveIn, IsActive
<1>4. ASSUME Commit(r)
      PROVE  /\ tx[r].pc = "commit" /\ s \in Issued /\ f = token[s].family
             /\ tx'[r].pc = IF tx[r].reason = "reuse_detected" THEN "reuse" ELSE "ok"
  <2>1. tx[r].pc = "commit" /\ s \in Issued
    BY <1>1, <1>4 DEF Commit, RotationInv, ShownInv, Presenting
  <2>2. tx'[r].pc = IF tx[r].reason = "reuse_detected" THEN "reuse" ELSE "ok"
    BY <1>1, <1>4, CloseTx DEF Commit
  <2>3. QED
    BY <1>4, <2>1, <2>2
<1>5. ASSUME Commit(r), tx[r].reason = "rotated" PROVE Replaces(r, f, s)
  <2>1. IsActive(s) /\ tx[r].held = {s} /\ Issues(tx[r], tx'[r])
    BY <1>1, <1>4, <1>5 DEF Whole, Issues
  <2>2. s \in ActiveIn(f)
    BY <1>3, <1>4, <1>5, <2>1
  <2>3. ActiveIn(f) = {s}
    BY <1>4, <1>5, <2>2 DEF SerialInv, OneActiveInv
  <2> HIDE DEF s
  <2>4. \A t : t \in ActiveIn(f)' <=> t = r
    <3>1. IsActive(r)' /\ token'[r].family = f /\ r \in Issued'
      BY <1>2, <1>4, <1>5, <2>1 DEF IsActive
    <3>2. ASSUME NEW t \in Issued PROVE t \notin ActiveIn(f)'
      BY <1>2, <1>3, <1>5, <2>1, <2>3
    <3>3. QED
      BY <1>2, <1>3, <3>1, <3>2
  <2>5. \A g \in Req \ {f} : \A t : t \in ActiveIn(g)' <=> t \in ActiveIn(g)
    BY <1>2, <1>3, <1>4, <1>5, <2>1, <2>3
  <2>6. QED
    BY <2>3, <2>4, <2>5 DEF Replaces
<1>6. ASSUME Commit(r), tx[r].reason # "rotated" PROVE Ends(f)
  <2>1. tx[r].held = ActiveIn(f) /\ ~Issues(tx[r], tx'[r])
    BY <1>1, <1>4, <1>6 DEF Whole, Issues
  <2> HIDE DEF s
  <2>2. \A t : t \notin ActiveIn(f)'
    BY <1>2, <1>3, <1>6, <2>1
  <2>3. \A g \in Req \ {f} : \A t : t \in ActiveIn(g)' <=> t \in ActiveIn(g)
    BY <1>2, <1>3, <1>6, <2>1
  <2>4. QED
    BY <2>2, <2>3 DEF Ends
<1>7. ASSUME ~Commit(r), Issues(tx[r], tx'[r]) PROVE Starts(r)
  <2> HIDE DEF s
  <2>1. IsActive(r)' /\ token'[r].family = r /\ r \in Issued'
    BY <1>2, <1>7 DEF IsActive
  <2>2. \A t : t \notin ActiveIn(r)
    BY <1>1, <1>2, <1>3
  <2>3. \A t : t \in ActiveIn(r)' <=> t = r
    BY <1>1, <1>2, <1>3, <1>7, <2>1
  <2>4. \A g \in Req \ {r} : \A t : t \in ActiveIn(g)' <=> t \in ActiveIn(g)
    BY <1>2, <1>3, <1>7, <2>1
  <2>5. QED
    BY <2>2, <2>3, <2>4 DEF Starts
<1>8. ASSUME ~Commit(r), ~Issues(tx[r], tx'[r]) PROVE Leaves
  <2> HIDE DEF s
  <2>1. \A g \in Req : \A t : t \in ActiveIn(g)' <=> t \in ActiveIn(g)
    BY <1>2, <1>3, <1>8
  <2>2. QED
    BY <2>1 DEF Leaves
<1>9. QED
  BY <1>4, <1>5, <1>6, <1>7, <1>8

LEMMA RequestSerialInv ==
    ASSUME MaxActive = 1, SerialInv, NEW r \in Req, Begin(r) \/ Advance(r) \/ Fail(r)
    PROVE  SerialInv'
<1>1. /\ ScopedInv /\ RotationInv /\ AloneInv /\ OutsetInv
      /\ Issued \subseteq Req /\ \A t \in Issued : token[t].family \in Issued
      /\ \A t \in Issued : token[t].family \in Req
  BY ServerTypes DEF SerialInv, ScopedInv, FamilyInv
<1>2. ScopedInv'
  BY <1>1, RequestScopedInv
<1>3. /\ ~EndedBy(r)
      /\ \A q \in Req \ {r} : tx'[q] = tx[q]
      /\ EndedBy(r)' <=> Commit(r) /\ tx[r].reason # "rotated"
      /\ EndedBy(r)' => tx'[r].shown = tx[r].shown /\ tx[r].shown \in Issued
      /\ tx'[r].pc \in {"idle", "create"} => tx'[r].reason = None
  BY <1>1, EndStepOfSession
<1>4. \A q \in Req \ {r} : ~Running(q)
  <2>1. CASE Begin(r)
    BY <1>1, <2>1, BeginsAdmitted, AdmittedAlone
  <2>2. CASE Advance(r) \/ Fail(r)
    <3>1. Running(r)
      BY <1>1, <2>2, AdvanceTx DEF AdvancePc, Running, Ended
    <3>2. QED
      BY <1>1, <3>1 DEF AloneInv
  <2>3. QED
    BY <2>1, <2>2
<1>5. AloneInv'
  BY <1>3, <1>4 DEF AloneInv, Running
<1>6. \A t \in Issued : t \in Issued' /\ token'[t].family = token[t].family
  BY <1>1, ActiveStep
<1>7. OutsetInv'
  BY <1>1, <1>3, <1>6 DEF OutsetInv, EndedBy
<1>8. \A q \in Req : Whole(q)'
  <2>1. ASSUME NEW q \in Req \ {r} PROVE Whole(q)'
    BY <1>3, <1>4 DEF Whole, Running, Ended
  <2>2. QED
    BY <2>1, StepWhole
<1>a. PICK f \in Req : Commit(r) => f = token[tx[r].shown].family
  <2>1. Commit(r) => tx[r].shown \in Issued
    BY <1>1 DEF Commit, RotationInv, ShownInv, Presenting
  <2>2. QED
    BY <1>1, <2>1
<1>9. /\ Commit(r) /\ tx[r].reason = "rotated" => Replaces(r, f, tx[r].shown)
      /\ Commit(r) /\ tx[r].reason # "rotated" => Ends(f)
      /\ ~Commit(r) => Starts(r) \/ Leaves
  BY <1>a, FamiliesStep
<1>10. OneActiveInv'
  <2>1. \A g \in Req : ActiveIn(g)' = ActiveIn(g) \/ ActiveIn(g)' = {} \/ ActiveIn(g)' = {r}
    BY <1>9 DEF Replaces, Ends, Starts, Leaves
  <2>2. QED
    BY <2>1 DEF SerialInv, OneActiveInv
<1>11. FamilyStaysEnded'
  <2> SUFFICES ASSUME NEW q \in Req, EndedBy(q)',
                      NEW g, g = token'[tx'[q].shown].family
               PROVE  ActiveIn(g)' = {}
    BY DEF FamilyStaysEnded, ActiveIn
  <2>1. CASE q = r
    <3>1. Commit(r) /\ tx'[r].shown = tx[r].shown /\ tx[r].shown \in Issued /\ Ends(f)
      BY <1>3, <1>9, <2>1
    <3>2. g = f
      BY <1>6, <1>a, <2>1, <3>1
    <3>3. QED
      BY <3>1, <3>2 DEF Ends
  <2>2. CASE q # r
    <3>1. EndedBy(q) /\ tx'[q] = tx[q]
      BY <1>3, <2>2 DEF EndedBy
    <3>2. /\ tx[q].shown \in Issued /\ g = token[tx[q].shown].family
          /\ g \in Issued /\ ActiveIn(g) = {}
      BY <1>1, <1>6, <3>1 DEF OutsetInv, SerialInv, FamilyStaysEnded
    <3>3. r \notin Issued
      BY <1>1, ActiveStep
    <3>4. QED
      BY <1>1, <1>9, <3>2, <3>3 DEF Replaces, Ends, Starts, Leaves
  <2>3. QED
    BY <2>1, <2>2
<1>12. QED
  BY <1>2, <1>5, <1>7, <1>8, <1>10, <1>11 DEF SerialInv

LEMMA QuietSerialInv ==
    ASSUME SerialInv, ScopedInv', tx' = tx,
           \A t \in Req : /\ token'[t].family = token[t].family
                          /\ token'[t].revoked = token[t].revoked
    PROVE  SerialInv' /\ Leaves /\ Issued' = Issued
<1>1. Issued' = Issued /\ Issued \subseteq Req
  BY DEF Issued
<1>2. ASSUME NEW g PROVE ActiveIn(g)' = ActiveIn(g)
  BY <1>1 DEF ActiveIn
<1>3. \A t : IsActive(t)' <=> IsActive(t)
  BY <1>1 DEF IsActive
<1>4. AloneInv' /\ OutsetInv' /\ OneActiveInv'
  BY <1>1, <1>2 DEF SerialInv, AloneInv, OutsetInv, OneActiveInv, Running, EndedBy
<1>5. ASSUME NEW r \in Req PROVE Whole(r)'
  <2>1. tx[r].pc \in Presenting => tx[r].shown \in Issued
    BY DEF SerialInv, ScopedInv, RotationInv, ShownInv
  <2>2. ASSUME tx[r].shown \in Issued
        PROVE  ActiveIn(token[tx[r].shown].family)' = ActiveIn(token[tx[r].shown].family)
    <3> DEFINE g == token[tx[r].shown].family
               h == token'[tx'[r].shown].family
    <3>1. h = g
      BY <1>1, <2>2
    <3> HIDE DEF g, h
    <3>2. {t \in Issued' : token'[t].family = h /\ token'[t].revoked = None}
          = {t \in Issued : token[t].family = g /\ token[t].revoked = None}
      BY <1>1, <3>1
    <3>3. QED
      BY <3>2 DEF ActiveIn, g, h
  <2>3. Whole(r)
    BY DEF SerialInv
  <2>4. QED
    BY <1>3, <2>1, <2>2, <2>3 DEF Whole, Presenting
<1>6. FamilyStaysEnded'
  <2> SUFFICES ASSUME NEW q \in Req, EndedBy(q),
                      NEW g, g = token'[tx[q].shown].family
               PROVE  ActiveIn(g)' = {}
    BY DEF FamilyStaysEnded, ActiveIn, EndedBy
  <2>1. tx[q].shown \in Issued /\ g = token[tx[q].shown].family
    BY <1>1 DEF SerialInv, OutsetInv
  <2>2. QED
    BY <1>2, <2>1 DEF SerialInv, FamilyStaysEnded
<1>7. QED
  BY <1>1, <1>2, <1>4, <1>5, <1>6 DEF SerialInv, Leaves

LEMMA StepSerialInv == ASSUME MaxActive = 1, SerialInv, [Next]_vars PROVE SerialInv'
<1>1. ScopedInv' /\ RotationInv
  BY StepScopedInv DEF SerialInv, ScopedInv
<1>2. ASSUME NEW e \in Req, Expire(e) PROVE SerialInv'
  BY <1>1, <1>2, ExpireRows, QuietSerialInv
<1>3. CASE UNCHANGED vars
  <2>1. tx' = tx /\ token' = token
    BY <1>3 DEF vars
  <2>2. QED
    BY <1>1, <2>1, QuietSerialInv
<1>4. QED
  BY <1>2, <1>3, RequestSerialInv DEF Next, Begin

LEMMA InitSerialInv == Init => SerialInv
<1> SUFFICES ASSUME Init PROVE SerialInv
  OBVIOUS
<1>1. ScopedInv
  BY InitScopedInv
<1>2. \A r \in Req : /\ tx[r].pc = "idle" /\ tx[r].reason = None /\ ~Running(r)
                     /\ ~EndedBy(r) /\ Whole(r)
  BY DEF Init, Idle, Running, EndedBy, Whole
<1>3. \A g : ActiveIn(g) = {}
  BY DEF Init, ActiveIn, Issued, NoToken
<1>4. QED
  BY <1>1, <1>2, <1>3 DEF SerialInv, AloneInv, OutsetInv, OneActiveInv, FamilyStaysEnded

(* The sessions of AuthSessions.                                           *)
Current(f) == IF ActiveIn(f) = {} THEN None ELSE CHOOSE t \in ActiveIn(f) : TRUE
Over == {token[tx[q].shown].family : q \in {p \in Req : EndedBy(p)}}

LEMMA OverFamilies ==
    ASSUME SerialInv, NEW f \in Over PROVE f \in Issued /\ ActiveIn(f) = {}
<1>1. PICK q \in Req : EndedBy(q) /\ f = token[tx[q].shown].family
  BY DEF Over
<1>2. QED
  BY <1>1 DEF SerialInv, OutsetInv, ScopedInv, FamilyInv, FamilyStaysEnded

LEMMA OverStep ==
    ASSUME SerialInv, NEW r \in Req, Begin(r) \/ Advance(r) \/ Fail(r)
    PROVE  Over' = IF Commit(r) /\ tx[r].reason # "rotated"
                   THEN Over \cup {token[tx[r].shown].family} ELSE Over
<1>1. /\ ~EndedBy(r)
      /\ \A q \in Req \ {r} : tx'[q] = tx[q]
      /\ EndedBy(r)' <=> Commit(r) /\ tx[r].reason # "rotated"
      /\ EndedBy(r)' => tx'[r].shown = tx[r].shown /\ tx[r].shown \in Issued
  BY EndStepOfSession DEF SerialInv
<1>2. \A t \in Issued : token'[t].family = token[t].family
  BY ActiveStep DEF SerialInv
<1>3. \A q \in Req \ {r} : /\ EndedBy(q)' <=> EndedBy(q)
                           /\ EndedBy(q) => token'[tx'[q].shown].family = token[tx[q].shown].family
  BY <1>1, <1>2 DEF EndedBy, SerialInv, OutsetInv
<1>4. EndedBy(r)' => token'[tx'[r].shown].family = token[tx[r].shown].family
  BY <1>1, <1>2
<1>5. ASSUME NEW g
      PROVE  /\ g \in Over <=> \E q \in Req : EndedBy(q) /\ g = token[tx[q].shown].family
             /\ g \in Over' <=> \E q \in Req : EndedBy(q)' /\ g = token'[tx'[q].shown].family
  BY DEF Over
<1>6. \A g : g \in Over' <=> g \in Over \/ (EndedBy(r)' /\ g = token[tx[r].shown].family)
  BY <1>1, <1>3, <1>4, <1>5
<1>7. QED
  BY <1>1, <1>6

LEMMA CurrentOf ==
    /\ \A f : ActiveIn(f) = {} => Current(f) = None
    /\ \A f, t : ActiveIn(f) = {t} => Current(f) = t
    /\ \A f : ActiveIn(f)' = {} => Current(f)' = None
    /\ \A f, t : ActiveIn(f)' = {t} => Current(f)' = t
    /\ \A f : ActiveIn(f)' = ActiveIn(f) => Current(f)' = Current(f)
<1> DEFINE Pick(S) == CHOOSE x \in S : TRUE
<1>1. \A f : /\ Current(f) = IF ActiveIn(f) = {} THEN None ELSE Pick(ActiveIn(f))
            /\ Current(f)' = IF ActiveIn(f)' = {} THEN None ELSE Pick(ActiveIn(f)')
  BY DEF Current
<1>2. ASSUME NEW t PROVE Pick({t}) = t /\ {t} # {}
  OBVIOUS
<1> HIDE DEF Pick
<1>3. QED
  BY <1>1, <1>2

(* The moves of AuthSessions, and what a step does to the sessions.         *)
StartMove(f) ==
    /\ Current(f) = None /\ f \notin Over /\ Current(f)' = f /\ f # None
    /\ \A g \in Req \ {f} : Current(g)' = Current(g)
    /\ Over' = Over
RotateMove(f, t) ==
    /\ Current(f) # None /\ f \notin Over /\ (\A g \in Req : Current(g) # t)
    /\ Current(f)' = t
    /\ \A g \in Req \ {f} : Current(g)' = Current(g)
    /\ Over' = Over
EndMove(f) ==
    /\ f \notin Over /\ Current(f)' = None /\ Over' = Over \cup {f}
    /\ \A g \in Req \ {f} : Current(g)' = Current(g)
StillMove == Over' = Over /\ \A g \in Req : Current(g)' = Current(g)

LEMMA SessionMoves ==
    ASSUME MaxActive = 1, SerialInv, [Next]_vars
    PROVE  \/ StillMove
           \/ \E f \in Req : StartMove(f) \/ EndMove(f) \/ \E t \in Req : RotateMove(f, t)
<1>1. /\ Issued \subseteq Req /\ None \notin Req /\ \A t \in Issued : token[t].family \in Issued
      /\ ScopedInv' /\ RotationInv
  BY StepScopedInv, ServerTypes, ReqAssumption DEF SerialInv, ScopedInv, FamilyInv, Issued
<1>2. ASSUME tx' = tx,
             \A t \in Req : /\ token'[t].family = token[t].family
                            /\ token'[t].revoked = token[t].revoked
      PROVE  StillMove
  <2>1. Leaves
    BY <1>1, <1>2, QuietSerialInv
  <2>2. \A g : g \in Over' <=> g \in Over
    <3>1. \A q \in Req : EndedBy(q) => token'[tx'[q].shown].family = token[tx[q].shown].family
      BY <1>1, <1>2 DEF SerialInv, OutsetInv
    <3>2. \A q \in Req : EndedBy(q)' <=> EndedBy(q)
      BY <1>2 DEF EndedBy
    <3>3. QED
      BY <3>1, <3>2 DEF Over
  <2>3. QED
    BY <2>1, <2>2, CurrentOf DEF StillMove, Leaves
<1>3. ASSUME NEW e \in Req, Expire(e) PROVE StillMove
  BY <1>1, <1>2, <1>3, ExpireRows
<1>4. CASE UNCHANGED vars
  BY <1>2, <1>4 DEF vars
<1>5. ASSUME NEW r \in Req, Begin(r) \/ Advance(r) \/ Fail(r)
      PROVE  \/ StillMove
             \/ \E f \in Req : StartMove(f) \/ EndMove(f) \/ \E t \in Req : RotateMove(f, t)
  <2>1. r \notin Issued
    BY <1>1, <1>5, ActiveStep DEF SerialInv
  <2>2. Commit(r) => tx[r].shown \in Issued
    BY <1>1 DEF Commit, RotationInv, ShownInv, Presenting
  <2>3. PICK f \in Req : Commit(r) => f = token[tx[r].shown].family
    BY <1>1, <2>2
  <2>4. /\ Commit(r) /\ tx[r].reason = "rotated" => Replaces(r, f, tx[r].shown)
        /\ Commit(r) /\ tx[r].reason # "rotated" => Ends(f)
        /\ ~Commit(r) => Starts(r) \/ Leaves
    BY <1>5, <2>3, FamiliesStep
  <2>5. Over' = IF Commit(r) /\ tx[r].reason # "rotated" THEN Over \cup {f} ELSE Over
    BY <1>5, <2>3, OverStep
  <2>6. \A g \in Over : g \in Issued /\ ActiveIn(g) = {}
    BY OverFamilies
  <2>7. CASE ~Commit(r) /\ Leaves
    BY <2>5, <2>7, CurrentOf DEF StillMove, Leaves
  <2>8. CASE ~Commit(r) /\ Starts(r)
    <3>1. StartMove(r)
      BY <1>1, <2>1, <2>5, <2>6, <2>8, CurrentOf DEF Starts, StartMove
    <3>2. QED
      BY <3>1
  <2>9. CASE Commit(r) /\ tx[r].reason = "rotated"
    <3>1. Current(f) # None /\ f \notin Over
      BY <1>1, <2>2, <2>4, <2>6, <2>9, CurrentOf DEF Replaces
    <3>2. \A g \in Req : Current(g) # r
      <4>1. \A g : Current(g) = None \/ Current(g) \in ActiveIn(g)
        BY DEF Current
      <4>2. QED
        BY <1>1, <2>1, <4>1 DEF ActiveIn
    <3>3. RotateMove(f, r)
      BY <2>4, <2>5, <2>9, <3>1, <3>2, CurrentOf DEF Replaces, RotateMove
    <3>4. QED
      BY <3>3
  <2>10. CASE Commit(r) /\ tx[r].reason # "rotated"
    <3>1. /\ Current(f)' = None
          /\ \A g \in Req \ {f} : Current(g)' = Current(g)
          /\ Over' = Over \cup {f}
      BY <2>4, <2>5, <2>10, CurrentOf DEF Ends
    <3>2. CASE f \in Over
      <4>1. Current(f) = None /\ Over' = Over
        BY <2>6, <3>1, <3>2, CurrentOf
      <4>2. QED
        BY <3>1, <4>1 DEF StillMove
    <3>3. CASE f \notin Over
      BY <3>1, <3>3 DEF EndMove
    <3>4. QED
      BY <3>2, <3>3
  <2>11. QED
    BY <2>4, <2>7, <2>8, <2>9, <2>10
<1>6. QED
  BY <1>3, <1>4, <1>5 DEF Next, Begin

(* Served one at a time, the requests keep the promise of docs/auth-flow.md *)
(* (AuthSessions): a session has one current token, which a refresh         *)
(* replaces, and a session that a logout or a reuse has ended stays ended.  *)
THEOREM SerialSessions == MaxActive = 1 => (Spec => ImplementsSessions)
<1> SUFFICES ASSUME MaxActive = 1 PROVE Spec => ImplementsSessions
  OBVIOUS
<1> DEFINE current == [f \in Req |-> Current(f)]
<1>1. Init => Sessions!Init
  <2> SUFFICES ASSUME Init PROVE Sessions!Init
    OBVIOUS
  <2>1. \A f \in Req : ActiveIn(f) = {}
    BY DEF Init, ActiveIn, Issued, NoToken
  <2>2. \A q \in Req : ~EndedBy(q)
    BY DEF Init, Idle, EndedBy
  <2>3. QED
    BY <2>1, <2>2 DEF Sessions!Init, Sessions!None, None
<1>2. SerialInv /\ [Next]_vars => [Sessions!Next]_Sessions!vars
  <2> SUFFICES ASSUME SerialInv, [Next]_vars PROVE [Sessions!Next]_Sessions!vars
    OBVIOUS
  <2>1. CASE StillMove
    <3>1. current' = current /\ Over' = Over
      BY <2>1 DEF StillMove
    <3>2. UNCHANGED Sessions!vars
      BY <3>1 DEF Sessions!vars, Over, Current
    <3>3. QED
      BY <3>2
  <2>2. ASSUME NEW f \in Req, StartMove(f) PROVE [Sessions!Next]_Sessions!vars
    <3>1. /\ current[f] = None /\ f \notin Over
          /\ current' = [current EXCEPT ![f] = f] /\ Over' = Over
      BY <2>2 DEF StartMove
    <3>2. Sessions!Start(f)
      BY <3>1 DEF Sessions!Start, Over, Current, Sessions!None, None
    <3>3. QED
      BY <3>2 DEF Sessions!Next
  <2>3. ASSUME NEW f \in Req, EndMove(f) PROVE [Sessions!Next]_Sessions!vars
    <3>1. /\ f \notin Over
          /\ current' = [current EXCEPT ![f] = None] /\ Over' = Over \cup {f}
      BY <2>3 DEF EndMove
    <3>2. Sessions!End(f)
      BY <3>1 DEF Sessions!End, Over, Current, Sessions!None, None
    <3>3. QED
      BY <3>2 DEF Sessions!Next
  <2>4. ASSUME NEW f \in Req, NEW t \in Req, RotateMove(f, t) PROVE [Sessions!Next]_Sessions!vars
    <3>1. /\ current[f] # None /\ f \notin Over /\ (\A g \in Req : current[g] # t)
          /\ current' = [current EXCEPT ![f] = t] /\ Over' = Over
      BY <2>4 DEF RotateMove
    <3>2. Sessions!Rotate(f, t)
      BY <3>1 DEF Sessions!Rotate, Over, Current, Sessions!None, None
    <3>3. QED
      BY <3>2 DEF Sessions!Next
  <2>5. QED
    BY <2>1, <2>2, <2>3, <2>4, SessionMoves
<1>3. QED
  BY <1>1, <1>2, InitSerialInv, StepSerialInv, PTL DEF Spec, ImplementsSessions, Sessions!Spec

(* Served one at a time, a family that a logout or a reuse has ended has no *)
(* active token: only requests that overlap leave one (the finding).        *)
THEOREM SerialFamiliesStayEnded == MaxActive = 1 => (Spec => []FamilyStaysEnded)
<1> SUFFICES ASSUME MaxActive = 1 PROVE Spec => []FamilyStaysEnded
  OBVIOUS
<1>1. SerialInv => FamilyStaysEnded
  BY DEF SerialInv
<1>2. SerialInv /\ [Next]_vars => SerialInv'
  BY StepSerialInv
<1>3. QED
  BY <1>1, <1>2, InitSerialInv, PTL DEF Spec

=============================================================================
