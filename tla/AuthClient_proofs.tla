-------------------------- MODULE AuthClient_proofs -------------------------
(***************************************************************************)
(* Proofs about AuthClient, for any number of tabs, calls and requests.    *)
(***************************************************************************)
EXTENDS AuthClient, RefreshRotation_proofs

-----------------------------------------------------------------------------
(* What the client relies on of the backend: no token is expired here, a    *)
(* family begins with a token of its name, and a request locks only rows of *)
(* the family it was shown.                                                *)

UnexpiredInv == \A t \in Req : ~token[t].expired
ServerInv == ScopedInv /\ UnexpiredInv

LEMMA StepServerInv ==
    ASSUME ServerInv, NEW r \in Req, Begin(r) \/ Advance(r) \/ Fail(r)
    PROVE  ServerInv'
<1>1. ScopedInv'
  BY StepScopedInv DEF ServerInv, Next, Begin
<1>2. /\ \A t \in Req \ {r} : token'[t].expired = token[t].expired
      /\ ~Issues(tx[r], tx'[r]) => token'[r] = token[r]
      /\ Issues(tx[r], tx'[r]) =>
            NewRow(token'[r], IF tx[r].pc = "commit" THEN token[tx[r].shown].family ELSE r)
  BY RowsStep DEF ServerInv, ScopedInv
<1>3. ~token'[r].expired
  BY <1>2 DEF ServerInv, UnexpiredInv, NewRow
<1>4. UnexpiredInv'
  BY <1>2, <1>3 DEF ServerInv, UnexpiredInv
<1>5. QED
  BY <1>1, <1>4 DEF ServerInv

-----------------------------------------------------------------------------
(* Calls.  A running request has the call it came with, and is as far as a  *)
(* request of that call can be.                                            *)

Stage(c, t) ==
    \/ t.pc = "idle"
    \/ c.slot \in {"register", "login"} /\ t.pc \in {"create", "ok", "rejected", "error"}
    \/ /\ c.slot \in {"boot", "refresh"} /\ c.cookie # None /\ t.shown = c.cookie
       /\ \/ t.pc \in {"read", "ok", "rejected", "reuse", "error"}
          \/ t.pc = "revoke" /\ t.reason = "rotated"
          \/ t.pc \in {"family", "lock"} /\ t.reason = "reuse_detected"
          \/ t.pc = "commit" /\ t.reason \in {"rotated", "reuse_detected"}
    \/ /\ c.slot = "logout" /\ c.cookie # None /\ t.shown = c.cookie
       /\ t.reason = "logout" /\ t.pc \in {"family", "lock", "commit", "ok", "error"}

CallsInv ==
    /\ ClientTypeOK
    /\ \A r \in Req : Running(r) => \E c \in calls : c.req = r
    /\ \A c \in calls : Stage(c, tx[c.req])

LEMMA StageAdvances ==
    ASSUME NEW c, NEW t, NEW u, Stage(c, t), AdvancePc(t, u), u.shown = t.shown
    PROVE  Stage(c, u) /\ u.pc # "idle" /\ t.pc \notin Ended \cup {"idle"}
<1>1. t.pc \notin Ended \cup {"idle"}
  BY DEF AdvancePc, Ended
<1>2. u.pc # "idle"
  BY DEF AdvancePc
<1>3. CASE c.slot \in {"register", "login"}
  BY <1>1, <1>3 DEF Stage, AdvancePc
<1>4. CASE c.slot \in {"boot", "refresh"}
  BY <1>1, <1>4 DEF Stage, AdvancePc
<1>5. CASE c.slot = "logout"
  BY <1>1, <1>5 DEF Stage, AdvancePc
<1>6. QED
  BY <1>1, <1>2, <1>3, <1>4, <1>5 DEF Stage

(* A step of the backend for the call c.                                   *)
ForCall(c) == Arrive(c) \/ Serve(c.req)

LEMMA CallMoves ==
    ASSUME ServerInv, CallsInv, NEW c \in calls, ForCall(c)
    PROVE  /\ c.req \in Req /\ (Begin(c.req) \/ Advance(c.req) \/ Fail(c.req))
           /\ Stage(c, tx'[c.req]) /\ tx'[c.req].pc # "idle" /\ tx[c.req].pc \notin Ended
           /\ \A q \in Req \ {c.req} : tx'[q] = tx[q]
           /\ UNCHANGED client
           /\ tx[c.req].pc = "commit" => c.cookie # None /\ tx[c.req].shown = c.cookie
           /\ tx'[c.req].pc = "ok" =>
                 /\ c.slot \in {"register", "login"} =>
                       Issues(tx[c.req], tx'[c.req]) /\ tx[c.req].pc # "commit"
                 /\ c.slot \in {"boot", "refresh"} =>
                       Issues(tx[c.req], tx'[c.req]) /\ tx[c.req].pc = "commit"
           /\ tx'[c.req].pc = "reuse" => tx[c.req].pc = "commit" /\ tx[c.req].reason = "reuse_detected"
<1> DEFINE r == c.req
<1>1. r \in Req /\ c.slot \in Slots /\ Stage(c, tx[r]) /\ UNCHANGED client /\ c.cookie \in Req \cup {None}
  BY DEF CallsInv, ClientTypeOK, CallRecord, ForCall, Arrive, Serve
<1>2. RotationInv /\ Issued \subseteq Req /\ None \notin Req
  BY ServerTypes, <1>1 DEF ServerInv, ScopedInv
<1>3. CASE Arrive(c)
  <2>1. CASE c.slot = "register"
    <3>1. BeginRegister(r)
      BY <1>3, <2>1 DEF Arrive
    <3>2. QED
      BY <1>1, <1>2, <2>1, <3>1, BeginRegisterTx DEF Begin, Stage, Ended, Issues
  <2>2. CASE c.slot = "login"
    <3>1. Login(r)
      BY <1>3, <2>2 DEF Arrive
    <3>2. QED
      BY <1>1, <1>2, <2>2, <3>1, LoginTx DEF Begin, Stage, Ended, Issues
  <2>3. CASE c.slot = "logout"
    <3>1. BeginLogout(r) /\ tx'[r].shown = c.cookie
      BY <1>3, <2>3 DEF Arrive
    <3>2. QED
      BY <1>1, <1>2, <2>3, <3>1, PresentTx DEF Begin, BeginLogout, Stage, Ended
  <2>4. CASE c.slot \in {"boot", "refresh"}
    <3>1. BeginRefresh(r) /\ tx'[r].shown = c.cookie
      BY <1>3, <2>4 DEF Arrive
    <3>2. QED
      BY <1>1, <1>2, <2>4, <3>1, PresentTx DEF Begin, BeginRefresh, Stage, Ended
  <2>5. QED
    BY <1>1, <2>1, <2>2, <2>3, <2>4 DEF Slots
<1>4. CASE Serve(r)
  <2>1. Advance(r) \/ Fail(r)
    BY <1>4 DEF Serve
  <2>2. /\ \A q \in Req \ {r} : tx'[q] = tx[q]
        /\ tx'[r].shown = tx[r].shown /\ AdvancePc(tx[r], tx'[r])
    BY <1>1, <1>2, <2>1, AdvanceTx
  <2>4. /\ Stage(c, tx'[r]) /\ tx'[r].pc # "idle" /\ tx[r].pc \notin Ended \cup {"idle"}
    BY <1>1, <2>2, StageAdvances
  <2>5. tx[r].pc = "commit" => c.cookie # None /\ tx[r].shown = c.cookie
    BY <1>1 DEF Stage
  <2>6. tx'[r].pc = "reuse" => tx[r].pc = "commit" /\ tx[r].reason = "reuse_detected"
    BY <2>2 DEF AdvancePc
  <2>7. ASSUME tx'[r].pc = "ok"
        PROVE  /\ c.slot \in {"register", "login"} => tx[r].pc = "create"
               /\ c.slot \in {"boot", "refresh"} => tx[r].pc = "commit" /\ tx[r].reason = "rotated"
    BY <1>1, <2>2, <2>4, <2>7 DEF AdvancePc, Stage
  <2>8. QED
    BY <1>1, <2>1, <2>2, <2>4, <2>5, <2>6, <2>7 DEF Issues
<1>5. QED
  BY <1>3, <1>4 DEF ForCall

-----------------------------------------------------------------------------
(* Sessions.  Of a session whose answers have come and whose calls did not  *)
(* overlap, one call is on its way at most; the cookie is the token it      *)
(* shows, and this token is current until the call has succeeded.          *)

OfFamily(c, f) == c.cookie # None /\ token[c.cookie].family = f
JarIn(f) == jar # None /\ token[jar].family = f
Reused(t) ==
    \/ t.pc = "reuse"
    \/ t.pc \in {"family", "lock", "commit"} /\ t.reason = "reuse_detected"

DoubtInv ==
    \A r \in Req : Reused(tx[r]) =>
        tx[r].shown \in Issued /\ token[tx[r].shown].family \in doubt
HandleInv ==
    \A f \in Req \ doubt :
        /\ \A c, d \in calls : OfFamily(c, f) /\ OfFamily(d, f) => c = d
        /\ \A c \in calls : OfFamily(c, f) =>
              /\ JarIn(f) => jar = c.cookie
              /\ tx[c.req].pc # "ok" => IsActive(c.cookie)
        /\ JarIn(f) => IsActive(jar) \/ \E c \in calls : OfFamily(c, f)
AnswerInv ==
    \A c \in calls : tx[c.req].pc = "ok" =>
        /\ c.slot \in {"register", "login"} =>
              /\ token[c.req].family = c.req /\ IsActive(c.req) /\ ~JarIn(c.req)
              /\ \A d \in calls : ~OfFamily(d, c.req)
        /\ c.slot \in {"boot", "refresh"} =>
              /\ c.req \in Issued /\ token[c.req].family = token[c.cookie].family
              /\ token[c.cookie].family \notin doubt => IsActive(c.req)
ClientInv == ServerInv /\ CallsInv /\ DoubtInv /\ HandleInv /\ AnswerInv

(* The rows that a step for the call c leaves as they are.                 *)
LEMMA RowsOutside ==
    ASSUME ServerInv, CallsInv, NEW c \in calls, ForCall(c)
    PROVE  /\ \A t \in Issued : t \in Issued' /\ t # c.req /\ token'[t].family = token[t].family
           /\ \A t \in Issued :
                 /\ IsActive(t)
                 /\ ~(/\ tx[c.req].pc = "commit" /\ tx'[c.req].pc \in {"ok", "reuse"}
                      /\ OfFamily(c, token[t].family))
                 => IsActive(t)'
           /\ tx'[c.req].pc = "ok" /\ c.slot \in {"register", "login"} =>
                 token'[c.req].family = c.req /\ IsActive(c.req)'
           /\ tx'[c.req].pc = "ok" /\ c.slot \in {"boot", "refresh"} =>
                 /\ token'[c.req].family = token[c.cookie].family /\ IsActive(c.req)'
                 /\ c.cookie # None
<1> DEFINE r == c.req
<1>1. /\ r \in Req /\ (Begin(r) \/ Advance(r) \/ Fail(r))
      /\ tx[r].pc \notin Ended
      /\ tx[r].pc = "commit" => c.cookie # None /\ tx[r].shown = c.cookie
      /\ tx'[r].pc = "ok" =>
            /\ c.slot \in {"register", "login"} =>
                  Issues(tx[r], tx'[r]) /\ tx[r].pc # "commit"
            /\ c.slot \in {"boot", "refresh"} =>
                  Issues(tx[r], tx'[r]) /\ tx[r].pc = "commit"
  BY CallMoves
<1>2. RotationInv /\ ScopeInv
  BY DEF ServerInv, ScopedInv
<1>3. /\ token \in [Req -> Token] /\ Issued \subseteq Req /\ None \notin Req /\ r \notin Issued
  BY <1>1, <1>2, ServerTypes
<1>4. /\ \A t \in Req \ {r} :
            /\ token'[t].family = token[t].family
            /\ \/ token'[t].revoked = token[t].revoked
               \/ /\ tx[r].pc = "commit" /\ tx'[r].pc \in {"ok", "reuse"}
                  /\ t \in Issued /\ token[t].family = token[tx[r].shown].family
      /\ Issues(tx[r], tx'[r]) =>
            NewRow(token'[r], IF tx[r].pc = "commit" THEN token[tx[r].shown].family ELSE r)
  BY <1>1, <1>2, RowsStep
<1> HIDE DEF r
<1>5. \A t \in Issued : t \in Issued' /\ t # r /\ token'[t].family = token[t].family
  BY <1>3, <1>4 DEF Issued
<1>6. ASSUME NEW t \in Issued, IsActive(t),
             ~(/\ tx[r].pc = "commit" /\ tx'[r].pc \in {"ok", "reuse"}
               /\ OfFamily(c, token[t].family))
      PROVE  IsActive(t)'
  <2>1. token'[t].revoked = token[t].revoked
    BY <1>1, <1>3, <1>4, <1>6 DEF OfFamily
  <2>2. QED
    BY <1>5, <1>6, <2>1 DEF IsActive
<1>7. ASSUME NEW f \in Req, NewRow(token'[r], f) PROVE token'[r].family = f /\ IsActive(r)'
  BY <1>1, <1>3, <1>7 DEF NewRow, IsActive, Issued
<1>8. ASSUME tx'[r].pc = "ok", c.slot \in {"register", "login"}
      PROVE  token'[r].family = r /\ IsActive(r)'
  <2>1. NewRow(token'[r], r)
    BY <1>1, <1>4, <1>8
  <2>2. QED
    BY <1>1, <1>7, <2>1
<1>9. ASSUME tx'[r].pc = "ok", c.slot \in {"boot", "refresh"}
      PROVE  /\ token'[r].family = token[c.cookie].family /\ IsActive(r)'
             /\ c.cookie # None
  <2>1. NewRow(token'[r], token[c.cookie].family) /\ c.cookie # None /\ tx[r].pc = "commit"
    BY <1>1, <1>4, <1>9
  <2>2. token[c.cookie].family \in Req
    <3>1. c.cookie \in Issued
      BY <1>1, <1>2, <2>1 DEF RotationInv, ShownInv, Presenting
    <3>2. QED
      BY <1>3, <3>1 DEF Issued, Token
  <2>3. QED
    BY <1>7, <2>1, <2>2
<1>10. QED
  BY <1>5, <1>6, <1>8, <1>9 DEF r

LEMMA ClientFacts ==
    ASSUME ClientInv
    PROVE  /\ Issued \subseteq Req /\ None \notin Req
           /\ \A t \in Issued : token[t].family \in Issued
           /\ jar \in Issued \cup {None} /\ doubt \subseteq Issued
           /\ \A c \in calls : /\ c.req \in Req /\ c.slot \in Slots /\ c.by \in Tabs \cup {None}
                               /\ c.cookie \in Issued \cup {None} /\ c \in CallRecord
           /\ \A c, d \in calls : c.req = d.req => c = d
           /\ \A c \in calls : Stage(c, tx[c.req])
BY ReqAssumption DEF ClientInv, ServerInv, ScopedInv, FamilyInv, CallsInv, ClientTypeOK, CallRecord, Issued

LEMMA ServedClientInv ==
    ASSUME ClientInv, NEW c \in calls, ForCall(c)
    PROVE  ClientInv'
<1> DEFINE r == c.req
<1>0. ServerInv /\ CallsInv
  BY DEF ClientInv
<1>1. /\ r \in Req /\ (Begin(r) \/ Advance(r) \/ Fail(r))
      /\ Stage(c, tx'[r]) /\ tx'[r].pc # "idle" /\ tx[r].pc \notin Ended
      /\ \A q \in Req \ {r} : tx'[q] = tx[q]
      /\ tab' = tab /\ jar' = jar /\ calls' = calls /\ doubt' = doubt
      /\ tx[r].pc = "commit" => c.cookie # None /\ tx[r].shown = c.cookie
      /\ tx'[r].pc = "reuse" => tx[r].pc = "commit" /\ tx[r].reason = "reuse_detected"
  BY <1>0, CallMoves DEF client
<1>2. /\ Issued \subseteq Req /\ None \notin Req
      /\ \A t \in Issued : token[t].family \in Issued
      /\ jar \in Issued \cup {None} /\ doubt \subseteq Issued
      /\ \A d \in calls : d.req \in Req /\ d.slot \in Slots /\ d.cookie \in Issued \cup {None}
      /\ \A d \in calls : d.req = r => d = c
  BY ClientFacts
<1>3. /\ \A t \in Issued : t \in Issued' /\ t # r /\ token'[t].family = token[t].family
      /\ \A t \in Issued :
            /\ IsActive(t)
            /\ ~(/\ tx[r].pc = "commit" /\ tx'[r].pc \in {"ok", "reuse"}
                 /\ OfFamily(c, token[t].family))
            => IsActive(t)'
      /\ tx'[r].pc = "ok" /\ c.slot \in {"register", "login"} =>
            token'[r].family = r /\ IsActive(r)'
      /\ tx'[r].pc = "ok" /\ c.slot \in {"boot", "refresh"} =>
            /\ token'[r].family = token[c.cookie].family /\ IsActive(r)'
            /\ c.cookie # None
  BY <1>0, RowsOutside
<1> HIDE DEF r
<1>4. ServerInv'
  BY <1>0, <1>1, StepServerInv
<1>5. CallsInv'
  <2>1. ClientTypeOK'
    BY <1>0, <1>1, <1>3 DEF CallsInv, ClientTypeOK
  <2>2. ASSUME NEW q \in Req, tx'[q].pc \notin Ended \cup {"idle"} PROVE \E d \in calls : d.req = q
    BY <1>0, <1>1, <2>2 DEF CallsInv, Running, r
  <2>3. \A d \in calls : Stage(d, tx'[d.req])
    BY <1>0, <1>1, <1>2 DEF CallsInv
  <2>4. QED
    BY <1>1, <2>1, <2>2, <2>3 DEF CallsInv, Running
<1>6. \A d \in calls, f \in Req : OfFamily(d, f)' <=> OfFamily(d, f)
  BY <1>2, <1>3 DEF OfFamily
<1>7. \A f \in Req : JarIn(f)' <=> JarIn(f)
  BY <1>1, <1>2, <1>3 DEF JarIn
(* Where it matters, the token is as it was.                               *)
<1>8. ASSUME NEW t \in Issued, IsActive(t), ~OfFamily(c, token[t].family) \/ tx'[r].pc \notin {"ok", "reuse"}
      PROVE  IsActive(t)'
  BY <1>3, <1>8
<1>9. DoubtInv'
  <2> SUFFICES ASSUME NEW q \in Req, Reused(tx'[q])
               PROVE  tx'[q].shown \in Issued' /\ token'[tx'[q].shown].family \in doubt
    BY <1>1 DEF DoubtInv
  <2>1. ASSUME tx'[q].shown \in Issued, token[tx'[q].shown].family \in doubt
        PROVE  tx'[q].shown \in Issued' /\ token'[tx'[q].shown].family \in doubt
    BY <1>3, <2>1
  <2>2. CASE q # r
    BY <1>1, <2>1, <2>2 DEF ClientInv, DoubtInv
  <2>3. CASE q = r
    <3>1. ~Begin(r)
      BY <2>3, BeginRegisterTx, LoginTx, PresentTx, <1>0, <1>1
      DEF Begin, BeginRefresh, BeginLogout, Reused, ServerInv, ScopedInv
    <3>2. /\ tx'[r].shown = tx[r].shown /\ AdvancePc(tx[r], tx'[r])
          /\ tx[r].pc = "read" => tx'[r].pc # "family" \/ token[tx[r].shown].revoked # None
      BY <1>0, <1>1, <3>1, AdvanceTx DEF ServerInv, ScopedInv
    <3>3. CASE Reused(tx[r])
      BY <1>1, <2>1, <2>3, <3>2, <3>3 DEF ClientInv, DoubtInv
    <3>4. CASE ~Reused(tx[r])
      <4>1. tx[r].pc = "read" /\ tx'[r].pc = "family"
        <5>1. Reused(tx'[r])
          BY <2>3
        <5>2. tx'[r].pc \in {"reuse", "family", "lock", "commit"}
          BY <5>1 DEF Reused
        <5>3. CASE tx'[r].reason = tx[r].reason /\ tx[r].pc # "read"
          <6>1. tx[r].pc = "revoke" => tx[r].reason = "rotated"
            BY <1>0, <1>1 DEF ServerInv, ScopedInv, RotationInv, ShownInv
          <6>2. QED
            BY <3>2, <3>4, <5>1, <5>2, <5>3, <6>1 DEF Reused, AdvancePc
        <5>4. CASE tx[r].pc = "read"
          BY <3>2, <5>1, <5>4 DEF Reused, AdvancePc
        <5>5. QED
          BY <3>2, <5>2, <5>3, <5>4 DEF AdvancePc
      <4>2. tx[r].shown = c.cookie /\ c.cookie # None
        BY <1>0, <4>1 DEF CallsInv, Stage, r
      <4>3. ~IsActive(c.cookie) /\ c.cookie \in Issued
        BY <1>2, <3>2, <4>1, <4>2 DEF IsActive
      <4>4. token[c.cookie].family \in doubt
        <5> DEFINE f == token[c.cookie].family
        <5>1. OfFamily(c, f) /\ f \in Req
          BY <1>2, <4>2, <4>3 DEF OfFamily
        <5> HIDE DEF f
        <5>2. f \in doubt
          BY <4>1, <4>3, <5>1 DEF ClientInv, HandleInv, r
        <5>3. QED
          BY <5>2 DEF f
      <4>5. QED
        BY <2>1, <2>3, <3>2, <4>2, <4>3, <4>4
    <3>5. QED
      BY <3>3, <3>4
  <2>4. QED
    BY <2>2, <2>3
<1>10. ASSUME NEW f \in Req \ doubt, OfFamily(c, f) PROVE tx'[r].pc # "reuse"
  <2> SUFFICES ASSUME tx'[r].pc = "reuse" PROVE FALSE
    OBVIOUS
  <2>1. Reused(tx[r]) /\ tx[r].shown = c.cookie
    BY <1>1 DEF Reused
  <2>2. token[c.cookie].family \in doubt
    BY <1>1, <2>1 DEF ClientInv, DoubtInv
  <2>3. QED
    BY <1>10, <2>2 DEF OfFamily
<1>11. HandleInv'
  <2> SUFFICES ASSUME NEW f \in Req \ doubt
               PROVE  /\ \A d, e \in calls : OfFamily(d, f) /\ OfFamily(e, f) => d = e
                      /\ \A d \in calls : OfFamily(d, f) =>
                            /\ JarIn(f) => jar = d.cookie
                            /\ tx'[d.req].pc # "ok" => IsActive(d.cookie)'
                      /\ JarIn(f) => IsActive(jar)' \/ \E d \in calls : OfFamily(d, f)
    BY <1>1, <1>6, <1>7 DEF HandleInv
  <2>1. /\ \A d, e \in calls : OfFamily(d, f) /\ OfFamily(e, f) => d = e
        /\ \A d \in calls : OfFamily(d, f) =>
              /\ JarIn(f) => jar = d.cookie
              /\ tx[d.req].pc # "ok" => IsActive(d.cookie)
        /\ JarIn(f) => IsActive(jar) \/ \E d \in calls : OfFamily(d, f)
    BY DEF ClientInv, HandleInv
  <2>2. ASSUME NEW d \in calls, OfFamily(d, f), tx'[d.req].pc # "ok" PROVE IsActive(d.cookie)'
    <3>1. d.cookie \in Issued /\ token[d.cookie].family = f
      BY <1>2, <2>2 DEF OfFamily
    <3>2. CASE d = c
      <4>1. IsActive(c.cookie)
        BY <1>1, <2>1, <2>2, <3>2 DEF r, Ended
      <4>2. tx'[r].pc \notin {"ok", "reuse"}
        BY <1>10, <2>2, <3>2 DEF r
      <4>3. QED
        BY <1>8, <3>1, <3>2, <4>1, <4>2
    <3>3. CASE d # c
      <4>1. ~OfFamily(c, f) /\ tx'[d.req] = tx[d.req]
        BY <1>1, <1>2, <2>1, <2>2, <3>3
      <4>2. QED
        BY <1>8, <2>1, <2>2, <3>1, <4>1
    <3>4. QED
      BY <3>2, <3>3
  <2>3. ASSUME JarIn(f), \A d \in calls : ~OfFamily(d, f) PROVE IsActive(jar)'
    <3>1. jar \in Issued /\ token[jar].family = f /\ IsActive(jar)
      BY <1>2, <2>1, <2>3 DEF JarIn
    <3>2. QED
      BY <1>1, <1>8, <2>3, <3>1 DEF IsActive
  <2>4. QED
    BY <2>1, <2>2, <2>3
<1>12. AnswerInv'
  <2> SUFFICES ASSUME NEW d \in calls, tx'[d.req].pc = "ok"
               PROVE  /\ d.slot \in {"register", "login"} =>
                            /\ token'[d.req].family = d.req /\ IsActive(d.req)' /\ ~JarIn(d.req)
                            /\ \A e \in calls : ~OfFamily(e, d.req)
                      /\ d.slot \in {"boot", "refresh"} =>
                            /\ d.req \in Issued' /\ token'[d.req].family = token'[d.cookie].family
                            /\ token'[d.cookie].family \notin doubt => IsActive(d.req)'
    BY <1>1, <1>2, <1>6, <1>7 DEF AnswerInv
  <2>1. CASE d = c
    <3>1. CASE c.slot \in {"register", "login"}
      <4>1. token'[r].family = r /\ IsActive(r)'
        BY <1>3, <2>1, <3>1 DEF r
      <4>2. r \notin Issued
        BY <1>3
      <4>3. ~JarIn(r) /\ \A e \in calls : ~OfFamily(e, r)
        BY <1>2, <4>2 DEF JarIn, OfFamily
      <4>4. QED
        BY <2>1, <3>1, <4>1, <4>3 DEF r
    <3>2. CASE c.slot \in {"boot", "refresh"}
      <4>1. /\ token'[r].family = token[c.cookie].family /\ IsActive(r)'
            /\ c.cookie \in Issued
        BY <1>2, <1>3, <2>1, <3>2 DEF r
      <4>2. token'[c.cookie].family = token[c.cookie].family
        BY <1>3, <4>1
      <4>3. r \in Issued'
        BY <4>1 DEF IsActive
      <4>4. QED
        BY <2>1, <3>2, <4>1, <4>2, <4>3 DEF r
    <3>3. QED
      BY <2>1, <3>1, <3>2
  <2>2. CASE d # c
    <3>1. tx'[d.req] = tx[d.req] /\ tx[d.req].pc = "ok" /\ d.req \in Req
      BY <1>1, <1>2, <2>2
    <3>2. CASE d.slot \in {"register", "login"}
      <4>1. /\ token[d.req].family = d.req /\ IsActive(d.req) /\ ~JarIn(d.req)
            /\ \A e \in calls : ~OfFamily(e, d.req)
        BY <3>1, <3>2 DEF ClientInv, AnswerInv
      <4>2. d.req \in Issued
        BY <4>1 DEF IsActive
      <4>3. token'[d.req].family = d.req /\ IsActive(d.req)'
        BY <1>3, <1>8, <4>1, <4>2
      <4>4. QED
        BY <3>2, <4>1, <4>3
    <3>3. CASE d.slot \in {"boot", "refresh"}
      <4>1. /\ d.req \in Issued /\ token[d.req].family = token[d.cookie].family
            /\ token[d.cookie].family \notin doubt => IsActive(d.req)
        BY <3>1, <3>3 DEF ClientInv, AnswerInv
      <4>2. d.cookie \in Issued
        <5>1. d.cookie # None
          BY <1>0, <3>1, <3>3 DEF CallsInv, Stage
        <5>2. QED
          BY <1>2, <5>1
      <4>3. /\ d.req \in Issued' /\ token'[d.req].family = token[d.req].family
            /\ token'[d.cookie].family = token[d.cookie].family
        BY <1>3, <4>1, <4>2
      <4>4. ASSUME token[d.cookie].family \notin doubt PROVE IsActive(d.req)'
        <5> DEFINE f == token[d.cookie].family
        <5>1. f \in Req \ doubt /\ OfFamily(d, f)
          BY <1>2, <4>2, <4>4 DEF OfFamily
        <5> HIDE DEF f
        <5>2. ~OfFamily(c, f)
          BY <2>2, <5>1 DEF ClientInv, HandleInv
        <5>3. token[d.req].family = f
          BY <4>1 DEF f
        <5>4. QED
          BY <1>8, <4>1, <4>4, <5>2, <5>3
      <4>5. QED
        BY <3>3, <4>1, <4>3, <4>4
    <3>4. QED
      BY <3>2, <3>3
  <2>3. QED
    BY <2>1, <2>2
<1>13. QED
  BY <1>4, <1>5, <1>9, <1>11, <1>12 DEF ClientInv

-----------------------------------------------------------------------------
(* The browser's own steps leave the backend alone.                        *)
LEMMA ServerStays == ASSUME ServerInv, UNCHANGED server PROVE ServerInv'
<1>1. UNCHANGED vars /\ token' = token
  BY DEF server, vars
<1>2. ScopedInv'
  BY <1>1, StepScopedInv DEF ServerInv, ScopedInv
<1>3. QED
  BY <1>1, <1>2 DEF ServerInv, ScopedInv, UnexpiredInv

(* A call ends: the rest stands if the cookie it leaves is accounted for.  *)
LEMMA SettledClientInv ==
    ASSUME ClientInv, NEW c \in calls, NEW succeeded, UNCHANGED server,
           Settle(c, succeeded), ~Running(c.req),
           jar' \in Issued \cup {None}, doubt \subseteq doubt', doubt' \subseteq Issued,
           \A f \in Req \ doubt' : jar' # None /\ token[jar'].family = f =>
               /\ IsActive(jar') \/ \E d \in calls \ {c} : OfFamily(d, f)
               /\ \A d \in calls \ {c} : OfFamily(d, f) => jar' = d.cookie,
           \A d \in calls \ {c} : tx[d.req].pc = "ok" /\ d.slot \in {"register", "login"} =>
               ~(jar' # None /\ token[jar'].family = d.req)
    PROVE  ClientInv'
<1>1. /\ token' = token /\ tx' = tx /\ calls' = calls \ {c} /\ Issued' = Issued
      /\ tab' = [p \in Tabs |-> IF p # c.by THEN tab[p]
                                ELSE IF succeeded THEN Fulfilled(p, c.slot)
                                ELSE Failed(p, c.slot)]
  BY DEF server, Settle, Issued
<1>2. ServerInv'
  BY ServerStays DEF ClientInv
<1>3. CallsInv'
  <2>1. tab' \in [Tabs -> Status]
    BY <1>1 DEF ClientInv, CallsInv, ClientTypeOK, Fulfilled, Failed, Status
  <2>2. ClientTypeOK'
    BY <1>1, <2>1 DEF ClientInv, CallsInv, ClientTypeOK
  <2>3. QED
    BY <1>1, <2>2 DEF ClientInv, CallsInv, Running
<1>4. DoubtInv'
  BY <1>1 DEF ClientInv, DoubtInv
<1>5. \A d \in calls, f \in Req : OfFamily(d, f)' <=> OfFamily(d, f)
  BY <1>1 DEF OfFamily
<1>6. HandleInv'
  <2> SUFFICES ASSUME NEW f \in Req \ doubt'
               PROVE  /\ \A d, e \in calls \ {c} : OfFamily(d, f) /\ OfFamily(e, f) => d = e
                      /\ \A d \in calls \ {c} : OfFamily(d, f) =>
                            /\ JarIn(f)' => jar' = d.cookie
                            /\ tx[d.req].pc # "ok" => IsActive(d.cookie)
                      /\ JarIn(f)' => IsActive(jar)' \/ \E d \in calls \ {c} : OfFamily(d, f)
    BY <1>1, <1>5 DEF HandleInv, IsActive
  <2>1. f \in Req \ doubt
    OBVIOUS
  <2>2. JarIn(f)' <=> jar' # None /\ token[jar'].family = f
    BY <1>1 DEF JarIn
  <2>3. IsActive(jar') => IsActive(jar)'
    BY <1>1 DEF IsActive
  <2>4. QED
    BY <2>1, <2>2, <2>3 DEF ClientInv, HandleInv
<1>7. AnswerInv'
  <2> SUFFICES ASSUME NEW d \in calls \ {c}, tx[d.req].pc = "ok"
               PROVE  /\ d.slot \in {"register", "login"} =>
                            /\ token[d.req].family = d.req /\ IsActive(d.req) /\ ~JarIn(d.req)'
                            /\ \A e \in calls \ {c} : ~OfFamily(e, d.req)
                      /\ d.slot \in {"boot", "refresh"} =>
                            /\ d.req \in Issued /\ token[d.req].family = token[d.cookie].family
                            /\ token[d.cookie].family \notin doubt' => IsActive(d.req)
    BY <1>1, <1>5, ClientFacts DEF AnswerInv, IsActive
  <2>1. JarIn(d.req)' <=> jar' # None /\ token[jar'].family = d.req
    BY <1>1 DEF JarIn
  <2>2. QED
    BY <2>1 DEF ClientInv, AnswerInv
<1>8. QED
  BY <1>2, <1>3, <1>4, <1>6, <1>7 DEF ClientInv

(* A call that has no cookie has no request.                               *)
LEMMA CookielessIdle ==
    ASSUME ClientInv, NEW c \in calls, Cookieless(c)
    PROVE  tx[c.req].pc = "idle"
BY ClientFacts DEF Cookieless, Stage

LEMMA KeptJar ==
    ASSUME ClientInv, NEW c \in calls, NEW succeeded, UNCHANGED <<server, jar>>,
           Settle(c, succeeded), ~Running(c.req),
           doubt \subseteq doubt', doubt' \subseteq Issued,
           tx[c.req].pc # "ok" \/ \A f \in Req \ doubt' : ~OfFamily(c, f)
    PROVE  ClientInv'
<1>1. jar \in Issued \cup {None} /\ \A d \in calls : d.req \in Req
  BY ClientFacts
<1>2. ASSUME NEW f \in Req \ doubt', JarIn(f)
      PROVE  /\ IsActive(jar) \/ \E d \in calls \ {c} : OfFamily(d, f)
             /\ \A d \in calls \ {c} : OfFamily(d, f) => jar = d.cookie
  <2>1. /\ \A d \in calls : OfFamily(d, f) =>
              /\ jar = d.cookie
              /\ tx[d.req].pc # "ok" => IsActive(d.cookie)
        /\ IsActive(jar) \/ \E d \in calls : OfFamily(d, f)
    BY <1>2 DEF ClientInv, HandleInv
  <2>2. CASE OfFamily(c, f)
    BY <2>1, <2>2
  <2>3. CASE ~OfFamily(c, f)
    BY <2>1, <2>3
  <2>4. QED
    BY <2>2, <2>3
<1>3. ASSUME NEW d \in calls \ {c}, tx[d.req].pc = "ok", d.slot \in {"register", "login"}
      PROVE  ~JarIn(d.req)
  BY <1>3 DEF ClientInv, AnswerInv
<1>4. jar' = jar /\ UNCHANGED server
  OBVIOUS
<1>5. QED
  BY <1>1, <1>2, <1>3, <1>4, SettledClientInv DEF JarIn

LEMMA VanishClientInv ==
    ASSUME ClientInv, NEW c \in calls, Vanish(c)
    PROVE  ClientInv'
<1>1. /\ Settle(c, FALSE) /\ UNCHANGED <<server, jar>> /\ doubt' = doubt
      /\ tx[c.req].pc = "idle"
  BY DEF Vanish
<1>2. doubt \subseteq Issued /\ ~Running(c.req)
  BY <1>1, ClientFacts DEF Running
<1>3. QED
  BY <1>1, <1>2, KeptJar

LEMMA DropClientInv ==
    ASSUME ClientInv, NEW c \in calls, Drop(c)
    PROVE  ClientInv'
<1>1. /\ Settle(c, FALSE) /\ UNCHANGED <<server, jar>> /\ Answered(c)
      /\ doubt' = IF c.cookie = None THEN doubt ELSE doubt \cup {token[c.cookie].family}
  BY DEF Drop, Doubtful
<1>2. /\ doubt \subseteq Issued /\ c.cookie \in Issued \cup {None}
      /\ \A t \in Issued : token[t].family \in Issued
  BY ClientFacts
<1>3. ~Running(c.req)
  BY <1>1, CookielessIdle DEF Answered, Running
<1>4. doubt \subseteq doubt' /\ doubt' \subseteq Issued
  BY <1>1, <1>2
<1>5. \A f \in Req \ doubt' : ~OfFamily(c, f)
  BY <1>1 DEF OfFamily
<1>6. QED
  BY <1>1, <1>3, <1>4, <1>5, KeptJar

LEMMA AnswerClientInv ==
    ASSUME ClientInv, NEW c \in calls, Answer(c)
    PROVE  ClientInv'
<1>1. /\ Settle(c, Succeeded(c)) /\ UNCHANGED server /\ doubt' = doubt
      /\ jar' = SetCookie(c) /\ Answered(c)
  BY DEF Answer
<1>2. /\ Issued \subseteq Req /\ None \notin Req /\ doubt \subseteq Issued
      /\ c.cookie \in Issued \cup {None} /\ c.req \in Req /\ c.slot \in Slots
      /\ \A d \in calls : d.req = c.req => d = c
      /\ \A d \in calls : d.req \in Req
      /\ \A t \in Issued : token[t].family \in Issued
      /\ Stage(c, tx[c.req])
  BY ClientFacts
<1>3. ~Running(c.req)
  BY <1>1, CookielessIdle DEF Answered, Running
<1>4. CASE ~Succeeded(c)
  <2>1. jar' = jar
    BY <1>1, <1>4 DEF SetCookie
  <2>2. tx[c.req].pc # "ok"
    BY <1>4, CookielessIdle DEF Succeeded
  <2>3. QED
    BY <1>1, <1>2, <1>3, <2>1, <2>2, KeptJar
<1>5. CASE Succeeded(c) /\ c.slot = "logout"
  <2>1. jar' = None
    BY <1>1, <1>5 DEF SetCookie
  <2>2. QED
    BY <1>1, <1>2, <1>3, <2>1, SettledClientInv
<1>6. CASE Succeeded(c) /\ c.slot # "logout"
  <2>1. jar' = c.req /\ tx[c.req].pc = "ok"
    BY <1>1, <1>6 DEF SetCookie, Succeeded
  <2>2. CASE c.slot \in {"register", "login"}
    <3>1. /\ token[c.req].family = c.req /\ IsActive(c.req)
          /\ \A d \in calls : ~OfFamily(d, c.req)
      BY <2>1, <2>2 DEF ClientInv, AnswerInv
    <3>2. c.req \in Issued /\ IsActive(jar')
      BY <2>1, <3>1 DEF IsActive
    <3>3. QED
      BY <1>1, <1>2, <1>3, <2>1, <3>1, <3>2, SettledClientInv
  <2>3. CASE c.slot \in {"boot", "refresh"}
    <3> DEFINE f0 == token[c.cookie].family
    <3>1. /\ c.req \in Issued /\ token[c.req].family = f0
          /\ f0 \notin doubt => IsActive(c.req)
      BY <2>1, <2>3 DEF ClientInv, AnswerInv
    <3>2. c.cookie \in Issued /\ OfFamily(c, f0) /\ f0 \in Req
      BY <1>2, <2>1, <2>3 DEF Stage, OfFamily
    <3> HIDE DEF f0
    <3>3. f0 \notin doubt => \A d \in calls \ {c} : ~OfFamily(d, f0)
      BY <3>2 DEF ClientInv, HandleInv
    <3>4. ASSUME NEW f \in Req \ doubt', jar' # None /\ token[jar'].family = f
          PROVE  /\ IsActive(jar') \/ \E d \in calls \ {c} : OfFamily(d, f)
                 /\ \A d \in calls \ {c} : OfFamily(d, f) => jar' = d.cookie
      BY <1>1, <2>1, <3>1, <3>3, <3>4
    <3>5. ASSUME NEW d \in calls \ {c}, tx[d.req].pc = "ok", d.slot \in {"register", "login"}
          PROVE  ~(jar' # None /\ token[jar'].family = d.req)
      <4>1. ~OfFamily(c, d.req)
        BY <3>5 DEF ClientInv, AnswerInv
      <4>2. QED
        BY <2>1, <3>1, <3>2, <4>1
    <3>6. QED
      BY <1>1, <1>2, <1>3, <2>1, <3>1, <3>4, <3>5, SettledClientInv
  <2>4. QED
    BY <1>2, <1>6, <2>2, <2>3 DEF Slots
<1>7. QED
  BY <1>4, <1>5, <1>6

(* A call is sent with the cookie; if another call of the session is on its *)
(* way, it has the same cookie and waits for another promise, and the session *)
(* is in doubt from then on.                                               *)
LEMMA SendClientInv ==
    ASSUME ClientInv, NEW p \in Tabs, NEW slot \in Slots, Send(p, slot),
           slot \in {"boot", "refresh"} => ~InFlight(p, slot)
    PROVE  ClientInv'
<1> DEFINE q == CHOOSE r \in Unused : TRUE
           cookie == Cookie(slot)
           n == [req |-> q, by |-> p, slot |-> slot, cookie |-> cookie]
<1>1. /\ Unused # {} /\ calls' = calls \cup {n}
      /\ IF Sharing(p, slot) # {} THEN Doubtful(jar) ELSE doubt' = doubt
      /\ token' = token /\ tx' = tx /\ UNCHANGED server /\ tab' = tab /\ jar' = jar
  BY DEF Send, Call, server
<1>2. q \in Unused
  BY <1>1
<1>3. q \in Req /\ tx[q].pc = "idle" /\ \A c \in calls : c.req # q
  BY <1>2 DEF Unused
<1>4. /\ n.req = q /\ n.by = p /\ n.slot = slot /\ n.cookie = cookie
      /\ cookie = jar \/ cookie = None
      /\ slot \notin {"register", "login"} => cookie = jar
  BY DEF Cookie
<1> HIDE DEF q
<1>5. n \in CallRecord
  BY <1>3, <1>4, ClientFacts DEF CallRecord
<1> HIDE DEF n, cookie
<1>6. /\ Issued \subseteq Req /\ None \notin Req /\ jar \in Issued \cup {None}
      /\ doubt \subseteq Issued /\ \A t \in Issued : token[t].family \in Issued
      /\ \A c \in calls : c.req \in Req
  BY ClientFacts
<1>7. Issued' = Issued /\ cookie \in Issued \cup {None}
  BY <1>1, <1>4, <1>6 DEF Issued
<1>8. ASSUME Sharing(p, slot) # {}
      PROVE  cookie = jar /\ jar # None /\ doubt' = doubt \cup {token[jar].family}
  <2>1. cookie # None
    BY <1>8 DEF Sharing, cookie
  <2>2. Doubtful(jar)
    BY <1>1, <1>8
  <2>3. QED
    BY <1>4, <2>1, <2>2 DEF Doubtful
<1>9. doubt \subseteq doubt' /\ doubt' \subseteq Issued
  BY <1>1, <1>6, <1>8
<1>10. ServerInv'
  BY <1>1, ServerStays DEF ClientInv
<1>11. CallsInv'
  <2>1. ClientTypeOK'
    BY <1>1, <1>3, <1>4, <1>5, <1>7, <1>9 DEF ClientInv, CallsInv, ClientTypeOK
  <2>2. Stage(n, tx[n.req])
    BY <1>3, <1>4 DEF Stage
  <2>3. QED
    BY <1>1, <2>1, <2>2 DEF ClientInv, CallsInv, Running
<1>12. DoubtInv'
  BY <1>1, <1>7, <1>9 DEF ClientInv, DoubtInv
<1>13. /\ \A d \in calls', f \in Req : OfFamily(d, f)' <=> OfFamily(d, f)
       /\ \A f \in Req : JarIn(f)' <=> JarIn(f)
       /\ \A t \in Req : IsActive(t)' <=> IsActive(t)
       /\ IsActive(jar)' <=> IsActive(jar)
  BY <1>1, <1>7 DEF OfFamily, JarIn, IsActive
<1>14. HandleInv'
  <2> SUFFICES ASSUME NEW f \in Req \ doubt'
               PROVE  /\ \A d, e \in calls' : OfFamily(d, f) /\ OfFamily(e, f) => d = e
                      /\ \A d \in calls' : OfFamily(d, f) =>
                            /\ JarIn(f) => jar = d.cookie
                            /\ tx[d.req].pc # "ok" => IsActive(d.cookie)
                      /\ JarIn(f) => IsActive(jar) \/ \E d \in calls' : OfFamily(d, f)
    BY <1>1, <1>13 DEF HandleInv, IsActive, Issued
  <2>1. /\ \A d, e \in calls : OfFamily(d, f) /\ OfFamily(e, f) => d = e
        /\ \A d \in calls : OfFamily(d, f) =>
              /\ JarIn(f) => jar = d.cookie
              /\ tx[d.req].pc # "ok" => IsActive(d.cookie)
        /\ JarIn(f) => IsActive(jar) \/ \E d \in calls : OfFamily(d, f)
    BY <1>9 DEF ClientInv, HandleInv
  <2>2. ASSUME OfFamily(n, f)
        PROVE  /\ JarIn(f) /\ cookie = jar /\ IsActive(jar)
               /\ \A d \in calls : ~OfFamily(d, f)
    <3>1. JarIn(f) /\ cookie = jar
      BY <1>4, <2>2 DEF OfFamily, JarIn
    <3>2. ASSUME NEW d \in calls, OfFamily(d, f) PROVE FALSE
      <4>1. d.cookie = jar /\ cookie # None
        BY <2>1, <3>1, <3>2 DEF JarIn
      <4>2. d \in Sharing(p, slot)
        BY <3>1, <3>2, <4>1 DEF Sharing, SamePromise, InFlight, cookie
      <4>3. QED
        BY <1>8, <3>1, <4>2 DEF JarIn
    <3>3. QED
      BY <2>1, <3>1, <3>2
  <2>3. QED
    BY <1>1, <1>4, <2>1, <2>2
<1>15. AnswerInv'
  <2> SUFFICES ASSUME NEW d \in calls, tx[d.req].pc = "ok"
               PROVE  /\ d.slot \in {"register", "login"} =>
                            /\ token[d.req].family = d.req /\ IsActive(d.req) /\ ~JarIn(d.req)
                            /\ \A e \in calls' : ~OfFamily(e, d.req)
                      /\ d.slot \in {"boot", "refresh"} =>
                            /\ d.req \in Issued /\ token[d.req].family = token[d.cookie].family
                            /\ token[d.cookie].family \notin doubt' => IsActive(d.req)
    BY <1>1, <1>3, <1>4, <1>6, <1>7, <1>13 DEF AnswerInv
  <2>1. ~JarIn(d.req) => ~OfFamily(n, d.req)
    BY <1>4 DEF JarIn, OfFamily
  <2>2. QED
    BY <1>1, <1>9, <2>1 DEF ClientInv, AnswerInv
<1>16. QED
  BY <1>10, <1>11, <1>12, <1>14, <1>15 DEF ClientInv

(* Calls keep their requests, cookies and slots when somebody stops waiting. *)
Relabels(c, d) == c.req = d.req /\ c.slot = d.slot /\ c.cookie = d.cookie

LEMMA RelabelClientInv ==
    ASSUME ClientInv, UNCHANGED <<server, jar, doubt>>, tab' \in [Tabs -> Status],
           calls' \subseteq CallRecord,
           \A e \in calls' : \E d \in calls : Relabels(e, d),
           \A d \in calls : \E e \in calls' : Relabels(e, d),
           \A c, d \in calls' : c.req = d.req => c = d
    PROVE  ClientInv'
<1>1. token' = token /\ tx' = tx /\ UNCHANGED server /\ jar' = jar /\ doubt' = doubt
  BY DEF server
<1>2. Issued' = Issued
  BY <1>1 DEF Issued
<1>3. ServerInv'
  BY <1>1, ServerStays DEF ClientInv
<1>4. CallsInv'
  <2>1. ASSUME NEW e \in calls' PROVE e.cookie \in Issued \cup {None} /\ Stage(e, tx[e.req])
    <3>1. PICK d \in calls : Relabels(e, d)
      OBVIOUS
    <3>2. d.cookie \in Issued \cup {None} /\ Stage(d, tx[d.req])
      BY ClientFacts
    <3>3. QED
      BY <3>1, <3>2 DEF Relabels, Stage
  <2>2. ClientTypeOK'
    BY <1>1, <1>2, <2>1 DEF ClientInv, CallsInv, ClientTypeOK
  <2>3. ASSUME NEW q \in Req, Running(q) PROVE \E e \in calls' : e.req = q
    BY <2>3 DEF ClientInv, CallsInv, Relabels
  <2>4. QED
    BY <1>1, <2>1, <2>2, <2>3 DEF CallsInv, Running
<1>5. DoubtInv'
  BY <1>1, <1>2 DEF ClientInv, DoubtInv
<1>6. /\ \A d \in calls', f \in Req : OfFamily(d, f)' <=> OfFamily(d, f)
      /\ \A f \in Req : JarIn(f)' <=> JarIn(f)
      /\ \A d, e, f : Relabels(e, d) => (OfFamily(e, f) <=> OfFamily(d, f))
  BY <1>1 DEF OfFamily, JarIn, Relabels
<1>7. HandleInv'
  <2> SUFFICES ASSUME NEW f \in Req \ doubt
               PROVE  /\ \A d, e \in calls' : OfFamily(d, f) /\ OfFamily(e, f) => d = e
                      /\ \A d \in calls' : OfFamily(d, f) =>
                            /\ JarIn(f) => jar = d.cookie
                            /\ tx[d.req].pc # "ok" => IsActive(d.cookie)
                      /\ JarIn(f) => IsActive(jar) \/ \E d \in calls' : OfFamily(d, f)
    BY <1>1, <1>2, <1>6 DEF HandleInv, IsActive
  <2>1. /\ \A d, e \in calls : OfFamily(d, f) /\ OfFamily(e, f) => d = e
        /\ \A d \in calls : OfFamily(d, f) =>
              /\ JarIn(f) => jar = d.cookie
              /\ tx[d.req].pc # "ok" => IsActive(d.cookie)
        /\ JarIn(f) => IsActive(jar) \/ \E d \in calls : OfFamily(d, f)
    BY DEF ClientInv, HandleInv
  <2>2. ASSUME NEW d \in calls', NEW e \in calls', OfFamily(d, f), OfFamily(e, f) PROVE d = e
    <3>1. PICK d0 \in calls : Relabels(d, d0)
      OBVIOUS
    <3>2. PICK e0 \in calls : Relabels(e, e0)
      OBVIOUS
    <3>3. d0 = e0
      BY <1>6, <2>1, <2>2, <3>1, <3>2
    <3>4. QED
      BY <3>1, <3>2, <3>3 DEF Relabels
  <2>3. ASSUME NEW d \in calls', OfFamily(d, f)
        PROVE  /\ JarIn(f) => jar = d.cookie
               /\ tx[d.req].pc # "ok" => IsActive(d.cookie)
    <3>1. PICK d0 \in calls : Relabels(d, d0)
      OBVIOUS
    <3>2. OfFamily(d0, f)
      BY <1>6, <2>3, <3>1
    <3>3. QED
      BY <2>1, <3>1, <3>2 DEF Relabels
  <2>4. ASSUME JarIn(f) PROVE IsActive(jar) \/ \E d \in calls' : OfFamily(d, f)
    BY <1>6, <2>1, <2>4
  <2>5. QED
    BY <2>2, <2>3, <2>4
<1>8. AnswerInv'
  <2> SUFFICES ASSUME NEW d \in calls', tx[d.req].pc = "ok"
               PROVE  /\ d.slot \in {"register", "login"} =>
                            /\ token[d.req].family = d.req /\ IsActive(d.req) /\ ~JarIn(d.req)
                            /\ \A e \in calls' : ~OfFamily(e, d.req)
                      /\ d.slot \in {"boot", "refresh"} =>
                            /\ d.req \in Issued /\ token[d.req].family = token[d.cookie].family
                            /\ token[d.cookie].family \notin doubt => IsActive(d.req)
    BY <1>1, <1>2, <1>6 DEF AnswerInv, IsActive, CallRecord
  <2>1. PICK d0 \in calls : Relabels(d, d0)
    OBVIOUS
  <2>2. tx[d0.req].pc = "ok"
    BY <2>1 DEF Relabels
  <2>3. /\ d0.slot \in {"register", "login"} =>
              /\ token[d0.req].family = d0.req /\ IsActive(d0.req) /\ ~JarIn(d0.req)
              /\ \A e \in calls : ~OfFamily(e, d0.req)
        /\ d0.slot \in {"boot", "refresh"} =>
              /\ d0.req \in Issued /\ token[d0.req].family = token[d0.cookie].family
              /\ token[d0.cookie].family \notin doubt => IsActive(d0.req)
    BY <2>2 DEF ClientInv, AnswerInv
  <2>4. d.req = d0.req /\ d.slot = d0.slot /\ d.cookie = d0.cookie
    BY <2>1 DEF Relabels
  <2>5. ASSUME \A e \in calls : ~OfFamily(e, d.req) PROVE \A e \in calls' : ~OfFamily(e, d.req)
    BY <1>6, <2>5
  <2>6. QED
    BY <2>3, <2>4, <2>5
<1>9. QED
  BY <1>3, <1>4, <1>5, <1>7, <1>8 DEF ClientInv

LEMMA ReloadClientInv ==
    ASSUME ClientInv, NEW p \in Tabs, Reload(p)
    PROVE  ClientInv'
<1> DEFINE Left(c) == IF c.by = p THEN [c EXCEPT !.by = None] ELSE c
<1>1. /\ calls' = {Left(c) : c \in calls} /\ UNCHANGED <<server, jar, doubt>>
      /\ tab' = [tab EXCEPT ![p] = "loading"]
  BY DEF Reload
<1>2. \A c \in calls : c \in CallRecord
  BY ClientFacts
<1>3. \A c \in calls : Left(c) \in CallRecord /\ Relabels(Left(c), c)
  BY <1>2 DEF CallRecord, Relabels
<1> HIDE DEF Left
<1>4. \A c, d \in calls : Left(c).req = Left(d).req => c = d
  BY <1>3, ClientFacts DEF Relabels
<1>5. tab' \in [Tabs -> Status]
  BY <1>1 DEF ClientInv, CallsInv, ClientTypeOK, Status
<1>6. QED
  BY <1>1, <1>3, <1>4, <1>5, RelabelClientInv

-----------------------------------------------------------------------------
LEMMA InitClientInv == ClientInit => ClientInv
<1> SUFFICES ASSUME ClientInit PROVE ClientInv
  OBVIOUS
<1>1. /\ Init /\ calls = {} /\ jar = None /\ doubt = {}
      /\ tab = [p \in Tabs |-> "loading"]
  BY DEF ClientInit
<1>2. /\ \A r \in Req : tx[r] = Idle /\ token[r] = NoToken
      /\ ScopedInv
  BY <1>1, InitScopedInv DEF Init
<1>3. Issued = {} /\ \A r \in Req : ~Running(r) /\ ~Reused(tx[r]) /\ ~token[r].expired
  BY <1>2 DEF Issued, NoToken, Idle, Running, Reused
<1>4. ServerInv
  BY <1>2, <1>3 DEF ServerInv, UnexpiredInv
<1>5. CallsInv
  BY <1>1, <1>3 DEF CallsInv, ClientTypeOK, Status
<1>6. DoubtInv /\ HandleInv /\ AnswerInv
  BY <1>1, <1>3 DEF DoubtInv, HandleInv, AnswerInv, JarIn
<1>7. QED
  BY <1>4, <1>5, <1>6 DEF ClientInv

(* Every step of the backend is one for a call.                            *)
LEMMA ServedForCall ==
    ASSUME ClientInv, NEW r \in Req, Serve(r)
    PROVE  \E c \in calls : c.req = r /\ ForCall(c)
<1>1. Advance(r) \/ Fail(r)
  BY DEF Serve
<1>2. AdvancePc(tx[r], tx'[r])
  BY <1>1, AdvanceTx DEF ClientInv, ServerInv, ScopedInv
<1>3. Running(r)
  BY <1>2 DEF AdvancePc, Running, Ended
<1>4. QED
  BY <1>3 DEF ClientInv, CallsInv, ForCall

LEMMA StepClientInv == ClientInv /\ [ClientNext]_<<server, client>> => ClientInv'
<1> SUFFICES ASSUME ClientInv, [ClientNext]_<<server, client>> PROVE ClientInv'
  OBVIOUS
<1>1. ASSUME NEW p \in Tabs, Boot(p) \/ Refresh(p) \/ SignIn(p) \/ Logout(p)
      PROVE  ClientInv'
  <2>1. PICK slot \in Slots : /\ Send(p, slot)
                              /\ slot \in {"boot", "refresh"} => ~InFlight(p, slot)
    BY <1>1 DEF Boot, Refresh, SignIn, Logout, Slots
  <2>2. QED
    BY <2>1, SendClientInv
<1>2. ASSUME NEW p \in Tabs, Reload(p) PROVE ClientInv'
  BY <1>2, ReloadClientInv
<1>3. ASSUME NEW c \in calls, Arrive(c) PROVE ClientInv'
  BY <1>3, ServedClientInv DEF ForCall
<1>4. ASSUME NEW c \in calls, Vanish(c) \/ Answer(c) \/ Drop(c) PROVE ClientInv'
  BY <1>4, VanishClientInv, AnswerClientInv, DropClientInv
<1>5. ASSUME NEW r \in Req, Serve(r) PROVE ClientInv'
  BY <1>5, ServedForCall, ServedClientInv
<1>6. CASE UNCHANGED <<server, client>>
  <2>1. UNCHANGED <<server, jar, doubt>> /\ calls' = calls /\ tab' = tab
    BY <1>6 DEF client
  <2>2. /\ tab' \in [Tabs -> Status] /\ calls' \subseteq CallRecord
        /\ \A c, d \in calls' : c.req = d.req => c = d
    BY <2>1 DEF ClientInv, CallsInv, ClientTypeOK
  <2>3. \A c \in calls : Relabels(c, c)
    BY DEF Relabels
  <2>4. QED
    BY <2>1, <2>2, <2>3, RelabelClientInv
<1>7. QED
  BY <1>1, <1>2, <1>3, <1>4, <1>5, <1>6 DEF ClientNext

LEMMA ClientInvariant == ClientSpec => []ClientInv
BY InitClientInv, StepClientInv, PTL DEF ClientSpec

-----------------------------------------------------------------------------
(* Every call is a call of a tab or of a page that was left, no two calls   *)
(* become one request, and a cookie is a token that was issued, for any     *)
(* number of tabs (lib/api/backend.ts, AuthProvider).                       *)
THEOREM ClientTypeCorrect == ClientSpec => []ClientTypeOK
<1>1. ClientInv => ClientTypeOK
  BY DEF ClientInv, CallsInv
<1>2. QED
  BY <1>1, ClientInvariant, PTL

(* The reuse detection of the backend (auth_service.refresh, step 4) ends   *)
(* no session of a learner whose answers all came and whose calls did not   *)
(* overlap: the shared refresh of backend.ts is enough in one tab.          *)
THEOREM ReuseHasReason == ClientSpec => []ReuseExplained
<1>1. ClientInv => ReuseExplained
  BY DEF ClientInv, DoubtInv, ReuseExplained, Reused
<1>2. QED
  BY <1>1, ClientInvariant, PTL

(* A browser that waits for nothing holds the current token of its session, *)
(* unless answers of the session were lost or its calls overlapped          *)
(* (Set-Cookie of the auth routes).                                         *)
THEOREM JarIsCurrent == ClientSpec => []JarCurrent
<1>1. ClientInv => JarCurrent
  <2> SUFFICES ASSUME ClientInv, calls = {}, jar # None, token[jar].family \notin doubt
               PROVE  IsActive(jar)
    BY DEF JarCurrent
  <2> DEFINE f == token[jar].family
  <2>1. f \in Req \ doubt /\ JarIn(f)
    BY ClientFacts DEF JarIn
  <2> HIDE DEF f
  <2>2. QED
    BY <2>1 DEF ClientInv, HandleInv
<1>2. QED
  BY <1>1, ClientInvariant, PTL

(* Behind any number of tabs, the backend is RefreshRotation: what is       *)
(* proved of its requests holds of the calls of a browser.                  *)
THEOREM BackendIsRotation == ClientSpec => Spec
<1>1. ClientInit => Init
  BY DEF ClientInit
<1>2. ClientInv /\ [ClientNext]_<<server, client>> => [Next]_vars
  <2> SUFFICES ASSUME ClientInv, [ClientNext]_<<server, client>> PROVE [Next]_vars
    OBVIOUS
  <2>1. ASSUME NEW c \in calls, ForCall(c) PROVE Next
    BY <2>1, CallMoves DEF ClientInv, Next, Begin
  <2>2. ASSUME UNCHANGED server PROVE UNCHANGED vars
    BY <2>2 DEF server, vars
  <2>3. ASSUME NEW p \in Tabs, Boot(p) \/ Refresh(p) \/ SignIn(p) \/ Logout(p) \/ Reload(p)
        PROVE  UNCHANGED server
    BY <2>3 DEF Boot, Refresh, SignIn, Logout, Send, Reload
  <2>4. ASSUME NEW c \in calls, Vanish(c) \/ Answer(c) \/ Drop(c) PROVE UNCHANGED server
    BY <2>4 DEF Vanish, Answer, Drop
  <2>5. ASSUME NEW r \in Req, Serve(r) PROVE Next
    BY <2>1, <2>5, ServedForCall
  <2>6. QED
    BY <2>1, <2>2, <2>3, <2>4, <2>5 DEF ClientNext, ForCall
<1>3. QED
  BY <1>1, <1>2, ClientInvariant, PTL DEF ClientSpec, Spec

(* If the backend serves one request at a time, the browser's sessions keep *)
(* the promise of docs/auth-flow.md (AuthSessions), whatever is lost.       *)
THEOREM BrowserSessions == MaxActive = 1 => (ClientSpec => ImplementsSessions)
<1> SUFFICES ASSUME MaxActive = 1 PROVE ClientSpec => ImplementsSessions
  OBVIOUS
<1>1. Spec => ImplementsSessions
  BY SerialSessions
<1>2. QED
  BY <1>1, BackendIsRotation, PTL

=============================================================================
