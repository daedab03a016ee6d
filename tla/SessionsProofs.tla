---------------------------- MODULE SessionsProofs ----------------------------
(***************************************************************************)
(* Proofs about module Sessions, for any users, token families, concurrent *)
(* requests and number of rotations.                                       *)
(*                                                                         *)
(* Most steps only let tokens die: they share the lemma TokensFade.  Three *)
(* steps do more.  A login opens a family nobody used, a consumption turns *)
(* the live token into one refresh under way, and the creation of the      *)
(* successor turns that refresh into the newest token.                     *)
(***************************************************************************)
EXTENDS Sessions, TLAPS

(* Ranks are issued in order.                                              *)
IssuedInOrder ==
    \A f \in Families : \A n \in Issued(f) : \A m \in Ranks : m < n => m \in Issued(f)

RotationsHaveTokens == \A f \in Families : Rotating(f) # {} => Issued(f) # {}

(* A family whose access is over: nothing is left of it but old documents. *)
Over(f) ==
    /\ Issued(f) # {}
    /\ Rotating(f) = {}
    /\ \A a \in access : a.family = f => a.version < tokenVersion[Owner[f]]

(* What a logout-all under way has achieved by its first write, and what   *)
(* one that ended has left.                                                *)
CoversInv ==
    \A c \in Calls : call[c].step = "incremented" =>
        \A f \in call[c].covers : Over(f) /\ Owner[f] = call[c].user

EndedInv == \A f \in ended : Over(f) /\ Live(f) = {}

IInv == /\ SessionsTypeOK
        /\ OneCredential
        /\ IssuedInOrder
        /\ RotationsHaveTokens
        /\ CoversInv
        /\ EndedInv

-----------------------------------------------------------------------------
LEMMA IdleType == Idle \in CallDocs /\ Idle.step = "idle" /\ Idle.version = 0
<1>1. (CHOOSE u \in Users : TRUE) \in Users  BY SessionsAssumption
<1>2. (CHOOSE f \in Families : TRUE) \in Families  BY SessionsAssumption
<1>3. 0 \in Ranks /\ 0 \in 0..MaxVersion  BY SessionsAssumption DEF Ranks
<1> QED  BY <1>1, <1>2, <1>3 DEF Idle, CallDocs

(* A request that is over has a version that was never ahead.              *)
LEMMA DoneKeepsVersions ==
    ASSUME SessionsTypeOK, NEW c \in Calls, Done(c),
           \A u \in Users : tokenVersion'[u] \in Nat /\ tokenVersion[u] <= tokenVersion'[u]
    PROVE  /\ call' \in [Calls -> CallDocs]
           /\ (\A d \in Calls : call[d].version <= VersionFor(d))'
<1>1. call' \in [Calls -> CallDocs]  BY IdleType DEF Done, SessionsTypeOK
<1>2. ASSUME NEW d \in Calls  PROVE call'[d].version <= VersionFor(d)'
  <2>1. CASE d = c
    <3>1. call'[d] = Idle  BY <2>1 DEF Done, SessionsTypeOK
    <3>2. Idle.user \in Users  BY IdleType DEF CallDocs
    <3>3. VersionFor(d)' = tokenVersion'[Idle.user]  BY <3>1, IdleType DEF VersionFor
    <3> QED  BY <3>1, <3>2, <3>3, IdleType
  <2>2. CASE d # c
    <3>1. call'[d] = call[d]  BY <2>2 DEF Done, SessionsTypeOK
    <3>2. call[d] \in CallDocs /\ Owner[call[d].family] \in Users
      BY SessionsAssumption DEF SessionsTypeOK, CallDocs
    <3>3. call[d].version \in Nat /\ tokenVersion[Owner[call[d].family]] \in Nat
          /\ tokenVersion[call[d].user] \in Nat /\ call[d].user \in Users
      BY <3>2, SessionsAssumption DEF SessionsTypeOK, CallDocs
    <3>4. call[d].version <= VersionFor(d)  BY DEF SessionsTypeOK
    <3> QED  BY <3>1, <3>2, <3>3, <3>4 DEF VersionFor
  <2> QED  BY <2>1, <2>2
<1> QED  BY <1>1, <1>2

LEMMA SessionsTypeStep ==
    ASSUME SessionsTypeOK, [SessionsNext]_vars
    PROVE  SessionsTypeOK'
<1> USE SessionsAssumption DEF SessionsTypeOK
<1>0. /\ \A u \in Users : tokenVersion[u] \in Nat
      /\ \A f \in Families : Owner[f] \in Users
      /\ 0 \in Ranks
  BY DEF Ranks
<1>1. ASSUME NEW u \in Users, Register(u)  PROVE SessionsTypeOK'
  BY <1>1 DEF Register, VersionFor
<1>2. ASSUME NEW c \in Calls, NEW u \in Users, LoginFind(c, u)  PROVE SessionsTypeOK'
  <2>1. call' \in [Calls -> CallDocs]
    <3>1. [call[c] EXCEPT !.step = "verifying", !.user = u, !.version = tokenVersion[u]] \in CallDocs
      BY <1>0, <1>2 DEF LoginFind, CallDocs
    <3> QED  BY <1>2, <3>1 DEF LoginFind
  <2>2. ASSUME NEW d \in Calls  PROVE call'[d].version <= VersionFor(d)'
    <3>1. CASE d = c
      <4>1. /\ call'[d].step = "verifying" /\ call'[d].user = u
            /\ call'[d].version = tokenVersion[u] /\ tokenVersion' = tokenVersion
        BY <1>2, <3>1 DEF LoginFind, CallDocs
      <4> QED  BY <4>1, <1>0 DEF VersionFor
    <3>2. CASE d # c
      BY <1>2, <3>2 DEF LoginFind, VersionFor
    <3> QED  BY <3>1, <3>2
  <2> QED  BY <1>2, <2>1, <2>2 DEF LoginFind
<1>3. ASSUME NEW c \in Calls, NEW f \in Families, LoginCreate(c, f)  PROVE SessionsTypeOK'
  <2>1. Done(c) /\ tokenVersion' = tokenVersion  BY <1>3 DEF LoginCreate
  <2>2. call[c].version \in 0..MaxVersion /\ call[c].version <= tokenVersion[Owner[f]]
    BY <1>3 DEF LoginCreate, VersionFor, CallDocs
  <2>3. token' \in [Families -> [Ranks -> Statuses]]
    BY <1>0, <1>3 DEF LoginCreate, Statuses
  <2> QED  BY <1>0, <1>3, <2>1, <2>2, <2>3, DoneKeepsVersions DEF LoginCreate
<1>4. ASSUME NEW c \in Calls, NEW f \in Families, NEW n \in Ranks, Consume(c, f, n)
      PROVE  SessionsTypeOK'
  <2>1. token' \in [Families -> [Ranks -> Statuses]]  BY <1>4 DEF Consume, Statuses
  <2>2. /\ [Idle EXCEPT !.step = "consumed", !.family = f, !.rank = n] \in CallDocs
        /\ \A d \in Calls : [call[d] EXCEPT !.covers = @ \ {f}] \in CallDocs
    BY IdleType DEF CallDocs
  <2>3. call' \in [Calls -> CallDocs]  BY <1>4, <2>2 DEF Consume
  <2>4. ASSUME NEW d \in Calls  PROVE call'[d].version <= VersionFor(d)'
    <3>1. CASE d = c
      <4>1. call'[d].version = 0 /\ call'[d].step = "consumed" /\ call'[d].user \in Users
            /\ tokenVersion' = tokenVersion
        BY <1>4, <2>3, <3>1, IdleType DEF Consume, CallDocs
      <4> QED  BY <4>1, <1>0 DEF VersionFor
    <3>2. CASE d # c
      <4>1. /\ call'[d].version = call[d].version /\ call'[d].step = call[d].step
            /\ call'[d].user = call[d].user /\ call'[d].family = call[d].family
            /\ tokenVersion' = tokenVersion
        BY <1>4, <3>2 DEF Consume, CallDocs
      <4> QED  BY <4>1 DEF VersionFor
    <3> QED  BY <3>1, <3>2
  <2> QED  BY <1>4, <2>1, <2>3, <2>4 DEF Consume
<1>5. ASSUME NEW c \in Calls, NEW f \in Families, NEW n \in Ranks, ConsumeMisses(c, f, n)
      PROVE  SessionsTypeOK'
  <2>1. call' \in [Calls -> CallDocs]
    <3>1. [call[c] EXCEPT !.step = "missed", !.family = f, !.rank = n] \in CallDocs
      BY <1>0, <1>5 DEF ConsumeMisses, CallDocs
    <3> QED  BY <1>5, <3>1 DEF ConsumeMisses
  <2>2. \A d \in Calls : /\ call'[d].version = call[d].version /\ call'[d].user = call[d].user
                         /\ d # c => call'[d] = call[d]
                         /\ call'[c].step = "missed" /\ call[c].step = "idle"
    BY <1>5 DEF ConsumeMisses, CallDocs
  <2>3. \A d \in Calls : call'[d].version <= VersionFor(d)'
    BY <1>5, <2>2 DEF VersionFor, ConsumeMisses
  <2> QED  BY <1>5, <2>1, <2>3 DEF ConsumeMisses
<1>6. ASSUME NEW c \in Calls, ExplainMiss(c)  PROVE SessionsTypeOK'
  <2>1. CASE Done(c)
    BY <1>0, <1>6, <2>1, DoneKeepsVersions DEF ExplainMiss
  <2>2. CASE call' = [call EXCEPT ![c].step = "reused"]
    <3>1. call' \in [Calls -> CallDocs]  BY <2>2 DEF CallDocs
    <3>2. \A d \in Calls : /\ call'[d].version = call[d].version /\ call'[d].user = call[d].user
                           /\ d # c => call'[d] = call[d]
                           /\ call'[c].step = "reused" /\ call[c].step = "missed"
      BY <1>6, <2>2 DEF ExplainMiss, CallDocs
    <3>3. \A d \in Calls : call'[d].version <= VersionFor(d)'
      BY <1>6, <3>2 DEF VersionFor, ExplainMiss
    <3> QED  BY <1>6, <3>1, <3>3 DEF ExplainMiss
  <2> QED  BY <1>6, <2>1, <2>2 DEF ExplainMiss
<1>7. ASSUME NEW c \in Calls, RevokeFamilyTokens(c)  PROVE SessionsTypeOK'
  BY <1>0, <1>7, DoneKeepsVersions DEF RevokeFamilyTokens, Revoke, Statuses
<1>8. ASSUME NEW c \in Calls, FetchUser(c)  PROVE SessionsTypeOK'
  <2>1. call' \in [Calls -> CallDocs]
    <3>1. [call[c] EXCEPT !.step = "fetched",
                !.version = tokenVersion[Owner[call[c].family]]] \in CallDocs
      BY <1>0, <1>8 DEF FetchUser, CallDocs
    <3> QED  BY <1>8, <3>1 DEF FetchUser
  <2>2. ASSUME NEW d \in Calls  PROVE call'[d].version <= VersionFor(d)'
    <3>1. CASE d = c
      <4>1. /\ call'[d].step = "fetched" /\ call'[d].family = call[c].family
            /\ call'[d].version = tokenVersion[Owner[call[c].family]]
            /\ call[c].family \in Families /\ tokenVersion' = tokenVersion
        BY <1>8, <3>1 DEF FetchUser, CallDocs
      <4> QED  BY <4>1, <1>0 DEF VersionFor
    <3>2. CASE d # c
      BY <1>8, <3>2 DEF FetchUser, VersionFor
    <3> QED  BY <3>1, <3>2
  <2> QED  BY <1>8, <2>1, <2>2 DEF FetchUser
<1>9. ASSUME NEW c \in Calls, CreateSuccessor(c)  PROVE SessionsTypeOK'
  <2>1. Done(c) /\ tokenVersion' = tokenVersion  BY <1>9 DEF CreateSuccessor
  <2>2. /\ call[c].version \in 0..MaxVersion /\ call[c].family \in Families
        /\ call[c].version <= tokenVersion[Owner[call[c].family]]
    BY <1>9 DEF CreateSuccessor, VersionFor, CallDocs
  <2>3. token' \in [Families -> [Ranks -> Statuses]]
    BY <1>9, <2>2 DEF CreateSuccessor, Statuses
  <2> QED  BY <1>0, <1>9, <2>1, <2>2, <2>3, DoneKeepsVersions DEF CreateSuccessor
<1>10. ASSUME NEW f \in Families, NEW n \in Ranks, Logout(f, n)  PROVE SessionsTypeOK'
  BY <1>10 DEF Logout, Revoke, Statuses, VersionFor
<1>11. ASSUME NEW c \in Calls, NEW a \in access, Authenticate(c, a)  PROVE SessionsTypeOK'
  <2>1. call' \in [Calls -> CallDocs]
    <3>1. [call[c] EXCEPT !.step = "authenticated", !.user = Owner[a.family],
                !.version = a.version] \in CallDocs
      BY <1>0, <1>11 DEF Authenticate, CallDocs
    <3> QED  BY <1>11, <3>1 DEF Authenticate
  <2>2. ASSUME NEW d \in Calls  PROVE call'[d].version <= VersionFor(d)'
    <3>1. CASE d = c
      <4>1. /\ call'[d].step = "authenticated" /\ call'[d].user = Owner[a.family]
            /\ call'[d].version = tokenVersion[Owner[a.family]]
            /\ a.family \in Families /\ tokenVersion' = tokenVersion
        BY <1>11, <3>1 DEF Authenticate, CallDocs
      <4> QED  BY <4>1, <1>0 DEF VersionFor
    <3>2. CASE d # c
      BY <1>11, <3>2 DEF Authenticate, VersionFor
    <3> QED  BY <3>1, <3>2
  <2> QED  BY <1>11, <2>1, <2>2 DEF Authenticate
<1>12. ASSUME NEW c \in Calls, IncrementTokenVersion(c)  PROVE SessionsTypeOK'
  <2>0. call[c].user \in Users  BY DEF CallDocs
  <2>1. call' \in [Calls -> CallDocs]
    <3>1. [call[c] EXCEPT !.step = "incremented",
                !.covers = {f \in FamiliesOf(call[c].user) : Rotating(f) = {}}] \in CallDocs
      BY <1>0, <1>12 DEF IncrementTokenVersion, CallDocs, FamiliesOf
    <3> QED  BY <1>12, <3>1 DEF IncrementTokenVersion
  <2>2. tokenVersion' \in [Users -> 0..MaxVersion]
    BY <1>12, <2>0 DEF IncrementTokenVersion
  <2>3. \A u \in Users : tokenVersion[u] <= tokenVersion'[u] /\ tokenVersion'[u] \in Nat
    BY <1>12, <1>0, <2>0 DEF IncrementTokenVersion
  <2>4. ASSUME NEW d \in Calls  PROVE call'[d].version <= VersionFor(d)'
    <3>1. /\ call'[d].version = call[d].version /\ call'[d].user = call[d].user
          /\ call'[d].family = call[d].family
          /\ call[d].version \in Nat /\ call[d].user \in Users /\ call[d].family \in Families
      BY <1>12 DEF IncrementTokenVersion, CallDocs
    <3>2. (call'[d].step = "fetched") = (call[d].step = "fetched")
      BY <1>12 DEF IncrementTokenVersion, CallDocs
    <3>3. call[d].version <= VersionFor(d)  OBVIOUS
    <3> QED  BY <1>0, <2>3, <3>1, <3>2, <3>3 DEF VersionFor
  <2>5. ASSUME NEW a \in access  PROVE a.version <= tokenVersion'[Owner[a.family]]
    BY <1>0, <2>3
  <2> QED  BY <1>12, <2>1, <2>2, <2>4, <2>5 DEF IncrementTokenVersion
<1>13. ASSUME NEW c \in Calls, RevokeAllUserRefreshTokens(c)  PROVE SessionsTypeOK'
  <2>1. call[c].covers \subseteq Families  BY DEF CallDocs
  <2> QED  BY <1>0, <1>13, <2>1, DoneKeepsVersions DEF RevokeAllUserRefreshTokens, Revoke, Statuses
<1>14. ASSUME NEW c \in Calls, Abandon(c)  PROVE SessionsTypeOK'
  BY <1>0, <1>14, DoneKeepsVersions DEF Abandon
<1>15. ASSUME NEW f \in Families, NEW n \in Ranks, Expire(f, n) \/ Purge(f, n)
       PROVE  SessionsTypeOK'
  <2>1. token' \in [Families -> [Ranks -> Statuses]]  BY <1>15 DEF Expire, Purge, Statuses
  <2> QED  BY <1>15, <2>1 DEF Expire, Purge, VersionFor
<1>16. ASSUME NEW a \in access, AccessExpires(a)  PROVE SessionsTypeOK'
  BY <1>16 DEF AccessExpires, VersionFor
<1>17. CASE UNCHANGED vars  BY <1>17 DEF vars, VersionFor
<1> QED
  BY <1>1, <1>2, <1>3, <1>4, <1>5, <1>6, <1>7, <1>8, <1>9, <1>10, <1>11, <1>12, <1>13,
     <1>14, <1>15, <1>16, <1>17 DEF SessionsNext, CallNext

LEMMA SessionsTypeStart == SessionsInit => SessionsTypeOK
<1> SUFFICES ASSUME SessionsInit  PROVE SessionsTypeOK  OBVIOUS
<1>1. /\ registered = {} /\ access = {} /\ ended = {}
      /\ tokenVersion = [u \in Users |-> 0] /\ call = [c \in Calls |-> Idle]
      /\ token \in [Families -> [Ranks -> Statuses]]
  BY DEF SessionsInit, Statuses
<1>2. 0 \in 0..MaxVersion  BY SessionsAssumption
<1>3. Idle.user \in Users  BY IdleType DEF CallDocs
<1>4. \A c \in Calls : call[c].version <= VersionFor(c)
  BY <1>1, <1>3, IdleType DEF VersionFor
<1> QED  BY <1>1, <1>2, <1>4, IdleType DEF SessionsTypeOK

(* Every document and request keeps its shape, and no token version is     *)
(* ahead of its user's (user.model.ts, refresh-token.model.ts).            *)
THEOREM SessionsTypeCorrect == SessionsSpec => []SessionsTypeOK
<1>1. SessionsTypeOK /\ [SessionsNext]_vars => SessionsTypeOK'  BY SessionsTypeStep
<1> QED  BY <1>1, SessionsTypeStart, PTL DEF SessionsSpec

-----------------------------------------------------------------------------
(* No token comes to life, and no request gains a rotation or a logout-all *)
(* that has incremented the version.                                       *)
TokensFade ==
    \A f \in Families : \A n \in Ranks :
        /\ (token'[f][n] = "none") = (token[f][n] = "none")
        /\ token'[f][n] = "live" => token[f][n] = "live"

RotationsFade ==
    \A c \in Calls : call'[c].step \in {"consumed", "fetched"} =>
        /\ call[c].step \in {"consumed", "fetched"}
        /\ call'[c].family = call[c].family

CoversFade ==
    \A c \in Calls : call'[c].step = "incremented" =>
        /\ call[c].step = "incremented"
        /\ call'[c].covers = call[c].covers
        /\ call'[c].user = call[c].user

(* The step of ClosedForGood.                                              *)
StaysClosed ==
    \A f \in Families : Issued(f) # {} /\ ~Open(f) => ~Open(f)'

VersionsGrow == \A u \in Users : tokenVersion[u] <= tokenVersion'[u]

LEMMA FadeKeepsCredentials ==
    ASSUME IInv, TokensFade, RotationsFade
    PROVE  /\ OneCredential'
           /\ IssuedInOrder'
           /\ RotationsHaveTokens'
           /\ \A f \in Families : /\ Issued(f)' = Issued(f)
                                  /\ Live(f)' \subseteq Live(f)
                                  /\ Rotating(f)' \subseteq Rotating(f)
<1>1. \A f \in Families : /\ Issued(f)' = Issued(f)
                          /\ Live(f)' \subseteq Live(f)
                          /\ Rotating(f)' \subseteq Rotating(f)
  BY DEF TokensFade, RotationsFade, Issued, Live, Rotating
<1>2. OneCredential'  BY <1>1 DEF IInv, OneCredential
<1>3. IssuedInOrder'  BY <1>1 DEF IInv, IssuedInOrder
<1>4. RotationsHaveTokens'  BY <1>1 DEF IInv, RotationsHaveTokens
<1> QED  BY <1>1, <1>2, <1>3, <1>4

(* What is over stays over, as long as no refresh of the family starts.    *)
LEMMA OverStays ==
    ASSUME SessionsTypeOK, SessionsTypeOK', VersionsGrow, NEW f \in Families, Over(f),
           Issued(f) \subseteq Issued(f)', Rotating(f)' = {},
           \A a \in access' : a \in access \/ a.family # f
    PROVE  Over(f)'
<1>1. Owner[f] \in Users  BY SessionsAssumption
<1>2. tokenVersion[Owner[f]] \in Nat /\ tokenVersion'[Owner[f]] \in Nat
  BY <1>1 DEF SessionsTypeOK
<1>3. ASSUME NEW a \in access', a.family = f  PROVE a.version < tokenVersion'[Owner[f]]
  <2>1. a.version \in Nat  BY <1>3 DEF SessionsTypeOK
  <2> QED  BY <1>1, <1>2, <1>3, <2>1 DEF Over, VersionsGrow
<1> QED  BY <1>3 DEF Over

LEMMA FadeKeepsIInv ==
    ASSUME IInv, SessionsTypeOK', TokensFade, RotationsFade, CoversFade, VersionsGrow,
           access' \subseteq access, ended' = ended
    PROVE  IInv' /\ StaysClosed
<1> USE DEF IInv
<1>1. \A f \in Families : /\ Issued(f)' = Issued(f)
                          /\ Live(f)' \subseteq Live(f)
                          /\ Rotating(f)' \subseteq Rotating(f)
  BY FadeKeepsCredentials
<1>2. ASSUME NEW f \in Families, Over(f)  PROVE Over(f)'
  BY <1>1, <1>2, OverStays DEF Over
<1>3. CoversInv'
  <2> SUFFICES ASSUME NEW c \in Calls, call'[c].step = "incremented", NEW f \in call'[c].covers
               PROVE  Over(f)' /\ Owner[f] = call'[c].user
    BY DEF CoversInv
  <2>1. f \in call[c].covers /\ call[c].step = "incremented" /\ call'[c].user = call[c].user
    BY DEF CoversFade
  <2>2. f \in Families  BY <2>1 DEF SessionsTypeOK, CallDocs
  <2> QED  BY <1>2, <2>1, <2>2 DEF CoversInv
<1>4. EndedInv'
  BY <1>1, <1>2 DEF EndedInv, SessionsTypeOK
<1>5. StaysClosed  BY <1>1 DEF StaysClosed, Open
<1> QED  BY <1>3, <1>4, <1>5, FadeKeepsCredentials

-----------------------------------------------------------------------------
LEMMA SessionsStep ==
    ASSUME IInv, [SessionsNext]_vars
    PROVE  IInv' /\ StaysClosed
<1>0. SessionsTypeOK /\ SessionsTypeOK'  BY SessionsTypeStep DEF IInv
<1>a. \A u \in Users : tokenVersion[u] \in Nat  BY <1>0 DEF SessionsTypeOK
<1>b. \A c \in Calls : call[c] \in CallDocs
      BY <1>0 DEF SessionsTypeOK
<1>c. ASSUME NEW c \in Calls, Done(c)  PROVE RotationsFade /\ CoversFade
  BY <1>0, <1>c, IdleType DEF Done, RotationsFade, CoversFade, SessionsTypeOK
<1>d. ASSUME NEW tokens, Revoke(tokens)  PROVE TokensFade
  BY <1>d DEF Revoke, TokensFade
<1>e. ASSUME UNCHANGED call  PROVE RotationsFade /\ CoversFade
  BY <1>e DEF RotationsFade, CoversFade
<1>f. ASSUME UNCHANGED token  PROVE TokensFade
  BY <1>f DEF TokensFade
<1>g. ASSUME UNCHANGED tokenVersion  PROVE VersionsGrow
  BY <1>a, <1>g DEF VersionsGrow
<1>1. ASSUME NEW u \in Users, Register(u)  PROVE IInv' /\ StaysClosed
  BY <1>0, <1>1, <1>e, <1>f, <1>g, FadeKeepsIInv DEF Register
<1>2. ASSUME NEW c \in Calls, NEW u \in Users, LoginFind(c, u)  PROVE IInv' /\ StaysClosed
  <2>1. RotationsFade /\ CoversFade
    BY <1>0, <1>2 DEF LoginFind, RotationsFade, CoversFade, SessionsTypeOK, CallDocs
  <2> QED  BY <1>0, <1>2, <1>f, <1>g, <2>1, FadeKeepsIInv DEF LoginFind
<1>5. ASSUME NEW c \in Calls, NEW f \in Families, NEW n \in Ranks, ConsumeMisses(c, f, n)
      PROVE  IInv' /\ StaysClosed
  <2>1. RotationsFade /\ CoversFade
    BY <1>0, <1>5 DEF ConsumeMisses, RotationsFade, CoversFade, SessionsTypeOK, CallDocs
  <2> QED  BY <1>0, <1>5, <1>f, <1>g, <2>1, FadeKeepsIInv DEF ConsumeMisses
<1>6. ASSUME NEW c \in Calls, ExplainMiss(c)  PROVE IInv' /\ StaysClosed
  <2>1. RotationsFade /\ CoversFade
    <3>1. CASE Done(c)  BY <1>c, <3>1
    <3>2. CASE call' = [call EXCEPT ![c].step = "reused"]
      BY <1>0, <3>2 DEF RotationsFade, CoversFade, SessionsTypeOK, CallDocs
    <3> QED  BY <1>6, <3>1, <3>2 DEF ExplainMiss
  <2> QED  BY <1>0, <1>6, <1>f, <1>g, <2>1, FadeKeepsIInv DEF ExplainMiss
<1>7. ASSUME NEW c \in Calls, RevokeFamilyTokens(c)  PROVE IInv' /\ StaysClosed
  BY <1>0, <1>7, <1>c, <1>d, <1>g, FadeKeepsIInv DEF RevokeFamilyTokens
<1>8. ASSUME NEW c \in Calls, FetchUser(c)  PROVE IInv' /\ StaysClosed
  <2>1. RotationsFade /\ CoversFade
    BY <1>0, <1>8 DEF FetchUser, RotationsFade, CoversFade, SessionsTypeOK, CallDocs
  <2> QED  BY <1>0, <1>8, <1>f, <1>g, <2>1, FadeKeepsIInv DEF FetchUser
<1>10. ASSUME NEW f \in Families, NEW n \in Ranks, Logout(f, n)  PROVE IInv' /\ StaysClosed
  BY <1>0, <1>10, <1>d, <1>e, <1>g, FadeKeepsIInv DEF Logout
<1>11. ASSUME NEW c \in Calls, NEW a \in access, Authenticate(c, a)  PROVE IInv' /\ StaysClosed
  <2>1. RotationsFade /\ CoversFade
    BY <1>0, <1>11 DEF Authenticate, RotationsFade, CoversFade, SessionsTypeOK, CallDocs
  <2> QED  BY <1>0, <1>11, <1>f, <1>g, <2>1, FadeKeepsIInv DEF Authenticate
<1>14. ASSUME NEW c \in Calls, Abandon(c)  PROVE IInv' /\ StaysClosed
  BY <1>0, <1>14, <1>c, <1>f, <1>g, FadeKeepsIInv DEF Abandon
<1>15. ASSUME NEW f \in Families, NEW n \in Ranks, Expire(f, n) \/ Purge(f, n)
       PROVE  IInv' /\ StaysClosed
  <2>1. TokensFade
    BY <1>0, <1>15 DEF Expire, Purge, TokensFade, SessionsTypeOK
  <2> QED  BY <1>0, <1>15, <1>e, <1>g, <2>1, FadeKeepsIInv DEF Expire, Purge
<1>16. ASSUME NEW a \in access, AccessExpires(a)  PROVE IInv' /\ StaysClosed
  BY <1>0, <1>16, <1>e, <1>f, <1>g, FadeKeepsIInv DEF AccessExpires
<1>17. CASE UNCHANGED vars
  BY <1>0, <1>17, <1>e, <1>f, <1>g, FadeKeepsIInv DEF vars
(* A new family: nothing that is over has no token.                        *)
<1>3. ASSUME NEW c \in Calls, NEW f \in Families, LoginCreate(c, f)  PROVE IInv' /\ StaysClosed
  <2>1. Done(c) /\ Issued(f) = {} /\ 0 \in Ranks /\ token' = [token EXCEPT ![f][0] = "live"]
        /\ ended' = ended
        /\ access' = access \union {[family |-> f, version |-> call[c].version]}
    BY <1>3, SessionsAssumption DEF LoginCreate, Ranks
  <2>2. RotationsFade /\ CoversFade /\ VersionsGrow
    BY <1>3, <1>c, <1>g, <2>1 DEF LoginCreate
  <2>3. \A g \in Families : /\ Rotating(g)' \subseteq Rotating(g)
                            /\ Issued(g) \subseteq Issued(g)'
                            /\ g # f => Issued(g)' = Issued(g) /\ Live(g)' = Live(g)
    BY <1>0, <2>1, <2>2 DEF RotationsFade, Rotating, Issued, Live, SessionsTypeOK
  <2>4. Issued(f)' = {0} /\ Live(f)' = {0}
    BY <1>0, <2>1 DEF Issued, Live, SessionsTypeOK
  <2>5. Rotating(f)' = {}
    <3> SUFFICES ASSUME NEW d \in Rotating(f)  PROVE FALSE  BY <2>3
    <3> QED  BY <2>1 DEF IInv, RotationsHaveTokens
  <2>6. OneCredential' /\ IssuedInOrder' /\ RotationsHaveTokens'
    <3>1. OneCredential'  BY <2>3, <2>4, <2>5 DEF IInv, OneCredential
    <3>2. IssuedInOrder'
      BY <2>3, <2>4 DEF IInv, IssuedInOrder, Ranks
    <3> QED  BY <2>3, <2>4, <3>1, <3>2 DEF IInv, RotationsHaveTokens
  <2>7. ASSUME NEW g \in Families, Over(g)  PROVE Over(g)' /\ g # f
    BY <1>0, <2>1, <2>2, <2>3, <2>7, OverStays DEF Over
  <2>8. CoversInv'
    BY <1>b, <2>2, <2>7 DEF IInv, CoversInv, CoversFade, CallDocs
  <2>9. EndedInv'
    BY <1>0, <2>1, <2>3, <2>7 DEF IInv, EndedInv, SessionsTypeOK
  <2>10. StaysClosed  BY <2>1, <2>3 DEF StaysClosed, Open
  <2> QED  BY <1>0, <2>6, <2>8, <2>9, <2>10 DEF IInv
(* The live token becomes a refresh under way; no logout-all covers the    *)
(* family any more, and none has ended it, since it had a live token.      *)
<1>4. ASSUME NEW c \in Calls, NEW f \in Families, NEW n \in Ranks, Consume(c, f, n)
      PROVE  IInv' /\ StaysClosed
  <2>1. /\ token[f][n] = "live" /\ token' = [token EXCEPT ![f][n] = "revoked"]
        /\ access' = access /\ tokenVersion' = tokenVersion /\ ended' = ended
        /\ call[c].step = "idle"
    BY <1>4 DEF Consume
  <2>2. /\ call'[c].step = "consumed" /\ call'[c].family = f
        /\ \A d \in Calls : d # c =>
              /\ call'[d].step = call[d].step /\ call'[d].family = call[d].family
              /\ call'[d].user = call[d].user /\ call'[d].covers = call[d].covers \ {f}
    BY <1>4, <1>b, IdleType DEF Consume, CallDocs
  <2>3. n \in Live(f) /\ Rotating(f) = {} /\ \A m \in Live(f) : m = n
    <3>1. n \in Live(f)  BY <2>1 DEF Live
    <3>2. Rotating(f) = {}  BY <3>1 DEF IInv, OneCredential
    <3>3. ASSUME NEW m \in Live(f)  PROVE m = n
      <4>1. m \in Issued(f) /\ n \in Issued(f)  BY <3>1 DEF Live, Issued
      <4>2. m <= n /\ n <= m  BY <3>1, <4>1 DEF IInv, OneCredential
      <4> QED  BY <4>2 DEF Live, Ranks
    <3> QED  BY <3>1, <3>2, <3>3
  <2>4. Live(f)' = {} /\ Rotating(f)' = {c}
    BY <1>0, <2>1, <2>2, <2>3 DEF Live, Rotating, SessionsTypeOK
  <2>5. \A g \in Families : /\ Issued(g)' = Issued(g)
                            /\ g # f => Live(g)' = Live(g) /\ Rotating(g)' = Rotating(g)
    BY <1>0, <2>1, <2>2 DEF Live, Rotating, Issued, SessionsTypeOK
  <2>6. OneCredential'  BY <2>4, <2>5 DEF IInv, OneCredential
  <2>7. IssuedInOrder' /\ RotationsHaveTokens'
    <3>1. Issued(f) # {}  BY <2>1 DEF Issued
    <3> QED  BY <2>4, <2>5, <3>1 DEF IInv, IssuedInOrder, RotationsHaveTokens
  <2>8. ASSUME NEW g \in Families, g # f, Over(g)  PROVE Over(g)'
    BY <2>1, <2>5, <2>8 DEF Over
  <2>9. CoversInv'
    BY <1>b, <2>2, <2>8 DEF IInv, CoversInv, CallDocs
  <2>10. EndedInv'
    <3>1. f \notin ended  BY <2>3 DEF IInv, EndedInv
    <3> QED  BY <1>0, <2>1, <2>5, <2>8, <3>1 DEF IInv, EndedInv, SessionsTypeOK
  <2>11. StaysClosed  BY <2>3, <2>5 DEF StaysClosed, Open
  <2> QED  BY <1>0, <2>6, <2>7, <2>9, <2>10, <2>11 DEF IInv
(* The refresh under way becomes the newest token; a family with a refresh *)
(* under way is not over.                                                  *)
<1>9. ASSUME NEW c \in Calls, CreateSuccessor(c)  PROVE IInv' /\ StaysClosed
  <2>0. PICK f \in Families : f = call[c].family  BY <1>b DEF CallDocs
  <2>1. PICK n \in Ranks :
          /\ token[f][n] = "none"
          /\ \A m \in 0..(n - 1) : token[f][m] # "none"
          /\ token' = [token EXCEPT ![f][n] = "live"]
    BY <1>9, <2>0 DEF CreateSuccessor
  <2>2. Done(c) /\ tokenVersion' = tokenVersion /\ ended' = ended
        /\ access' = access \union {[family |-> f, version |-> call[c].version]}
    BY <1>9, <2>0 DEF CreateSuccessor
  <2>3. RotationsFade /\ CoversFade /\ VersionsGrow  BY <1>c, <1>g, <2>2
  <2>4. c \in Rotating(f)  BY <1>9, <2>0 DEF CreateSuccessor, Rotating
  <2>5. Live(f) = {} /\ Rotating(f) = {c}  BY <2>0, <2>4 DEF IInv, OneCredential
  <2>6. Rotating(f)' = {}
    BY <1>0, <2>2, <2>3, <2>5, IdleType DEF Rotating, RotationsFade, Done, SessionsTypeOK
  <2>7. Live(f)' = {n} /\ Issued(f)' = Issued(f) \union {n}
    BY <1>0, <2>0, <2>1, <2>5 DEF Live, Issued, SessionsTypeOK
  <2>8. \A g \in Families : /\ Rotating(g)' \subseteq Rotating(g)
                            /\ Issued(g) \subseteq Issued(g)'
                            /\ g # f => Issued(g)' = Issued(g) /\ Live(g)' = Live(g)
    BY <1>0, <2>0, <2>1, <2>3, <2>7 DEF RotationsFade, Rotating, Issued, Live, SessionsTypeOK
  <2>9. \A m \in Issued(f) : m < n
    <3> SUFFICES ASSUME NEW m \in Issued(f), ~(m < n)  PROVE FALSE  OBVIOUS
    <3>1. m \in Nat /\ n \in Nat /\ m # n  BY <2>1 DEF Issued, Ranks
    <3>2. n < m  BY <3>1
    <3>3. n \in Issued(f)  BY <2>0, <3>2 DEF IInv, IssuedInOrder
    <3> QED  BY <2>1, <3>3 DEF Issued
  <2>10. \A m \in Ranks : m < n => m \in Issued(f)  BY <2>1 DEF Issued, Ranks
  <2>11. OneCredential'
    <3>1. n \in Nat /\ \A m \in Issued(f) : m \in Nat  BY DEF Issued, Ranks
    <3> QED  BY <2>6, <2>7, <2>8, <2>9, <3>1 DEF IInv, OneCredential
  <2>12. IssuedInOrder' /\ RotationsHaveTokens'
    <3>1. IssuedInOrder'
      <4> SUFFICES ASSUME NEW g \in Families, NEW k \in Issued(g)', NEW m \in Ranks, m < k
                   PROVE  m \in Issued(g)'
        BY DEF IssuedInOrder
      <4>1. CASE k \in Issued(g)
        BY <2>8, <4>1 DEF IInv, IssuedInOrder
      <4>2. CASE k \notin Issued(g)
        <5>1. g = f /\ k = n  BY <2>7, <2>8, <4>2
        <5> QED  BY <2>8, <2>10, <5>1
      <4> QED  BY <4>1, <4>2
    <3> QED  BY <2>8, <3>1 DEF IInv, RotationsHaveTokens
  <2>13. ASSUME NEW g \in Families, Over(g)  PROVE Over(g)' /\ g # f
    BY <1>0, <2>2, <2>3, <2>4, <2>8, <2>13, OverStays DEF Over
  <2>14. CoversInv'
    BY <1>b, <2>3, <2>13 DEF IInv, CoversInv, CoversFade, CallDocs
  <2>15. EndedInv'
    BY <1>0, <2>2, <2>8, <2>13 DEF IInv, EndedInv, SessionsTypeOK
  <2>16. StaysClosed  BY <2>4, <2>8 DEF StaysClosed, Open
  <2> QED  BY <1>0, <2>11, <2>12, <2>14, <2>15, <2>16 DEF IInv
(* Every access token is older than the new version.                       *)
<1>12. ASSUME NEW c \in Calls, IncrementTokenVersion(c)  PROVE IInv' /\ StaysClosed
  <2> DEFINE u == call[c].user
  <2>0. u \in Users  BY <1>b DEF CallDocs
  <2>1. /\ tokenVersion' = [tokenVersion EXCEPT ![u] = @ + 1]
        /\ token' = token /\ access' = access /\ ended' = ended
    BY <1>12 DEF IncrementTokenVersion
  <2>2. /\ call'[c].step = "incremented" /\ call'[c].user = u
        /\ call'[c].covers = {f \in FamiliesOf(u) : Rotating(f) = {}}
        /\ \A d \in Calls : d # c => call'[d] = call[d]
    <3>1. call' = [call EXCEPT ![c] = [call[c] EXCEPT !.step = "incremented",
                       !.covers = {f \in FamiliesOf(u) : Rotating(f) = {}}]]
      BY <1>12 DEF IncrementTokenVersion
    <3> QED  BY <1>0, <1>b, <3>1 DEF SessionsTypeOK, CallDocs
  <2>3. RotationsFade /\ TokensFade /\ VersionsGrow
    BY <1>a, <1>f, <2>0, <2>1, <2>2 DEF RotationsFade, VersionsGrow, IInv, SessionsTypeOK
  <2>4. \A f \in Families : Issued(f)' = Issued(f) /\ Rotating(f)' \subseteq Rotating(f)
                           /\ Live(f)' \subseteq Live(f)
    BY <2>3, FadeKeepsCredentials
  <2>5. ASSUME NEW f \in Families, Over(f)  PROVE Over(f)'
    BY <1>0, <2>1, <2>3, <2>4, <2>5, OverStays DEF Over
  <2>6. ASSUME NEW f \in FamiliesOf(u), Rotating(f) = {}  PROVE Over(f)' /\ Owner[f] = u
    <3>1. f \in Families /\ Owner[f] = u /\ Issued(f) # {}  BY DEF FamiliesOf
    <3>2. ASSUME NEW a \in access, a.family = f  PROVE a.version < tokenVersion'[u]
      <4>1. a.version \in Nat /\ a.version <= tokenVersion[u]
        BY <1>0, <3>1, <3>2 DEF SessionsTypeOK
      <4>2. tokenVersion'[u] = tokenVersion[u] + 1  BY <1>0, <2>0, <2>1 DEF SessionsTypeOK
      <4> QED  BY <1>a, <2>0, <4>1, <4>2
    <3> QED  BY <2>1, <2>4, <2>6, <3>1, <3>2 DEF Over
  <2>7. CoversInv'
    <3> SUFFICES ASSUME NEW d \in Calls, call'[d].step = "incremented", NEW f \in call'[d].covers
                 PROVE  Over(f)' /\ Owner[f] = call'[d].user
      BY DEF CoversInv
    <3>1. CASE d = c  BY <2>2, <2>6, <3>1
    <3>2. CASE d # c  BY <1>b, <2>2, <2>5, <3>2 DEF IInv, CoversInv, CallDocs
    <3> QED  BY <3>1, <3>2
  <2>8. EndedInv'  BY <1>0, <2>1, <2>4, <2>5 DEF IInv, EndedInv, SessionsTypeOK
  <2>9. StaysClosed  BY <2>4 DEF StaysClosed, Open
  <2> QED  BY <1>0, <2>3, <2>7, <2>8, <2>9, FadeKeepsCredentials DEF IInv
(* What the call covered has no live token left.                           *)
<1>13. ASSUME NEW c \in Calls, RevokeAllUserRefreshTokens(c)  PROVE IInv' /\ StaysClosed
  <2>1. /\ Revoke({f \in Families : Owner[f] = call[c].user} \X Ranks) /\ Done(c)
        /\ access' = access /\ tokenVersion' = tokenVersion
        /\ ended' = ended \union call[c].covers /\ call[c].step = "incremented"
    BY <1>13 DEF RevokeAllUserRefreshTokens
  <2>2. RotationsFade /\ CoversFade /\ TokensFade /\ VersionsGrow
    BY <1>c, <1>d, <1>g, <2>1
  <2>3. \A f \in Families : Issued(f)' = Issued(f) /\ Rotating(f)' \subseteq Rotating(f)
                           /\ Live(f)' \subseteq Live(f)
    BY <2>2, FadeKeepsCredentials
  <2>4. ASSUME NEW f \in Families, Over(f)  PROVE Over(f)'
    BY <1>0, <2>1, <2>2, <2>3, <2>4, OverStays DEF Over
  <2>5. CoversInv'  BY <1>b, <2>2, <2>4 DEF IInv, CoversInv, CoversFade, CallDocs
  <2>6. EndedInv'
    <3> SUFFICES ASSUME NEW f \in ended'  PROVE Over(f)' /\ Live(f)' = {}  BY DEF EndedInv
    <3>0. f \in Families  BY <1>0 DEF SessionsTypeOK
    <3>1. CASE f \in ended  BY <2>3, <2>4, <3>0, <3>1 DEF IInv, EndedInv
    <3>2. CASE f \in call[c].covers
      <4>1. Over(f) /\ Owner[f] = call[c].user  BY <2>1, <3>2 DEF IInv, CoversInv
      <4>2. Live(f)' = {}  BY <2>1, <3>0, <4>1 DEF Revoke, Live
      <4> QED  BY <2>4, <3>0, <4>1, <4>2
    <3> QED  BY <2>1, <3>1, <3>2
  <2>7. StaysClosed  BY <2>3 DEF StaysClosed, Open
  <2> QED  BY <1>0, <2>2, <2>5, <2>6, <2>7, FadeKeepsCredentials DEF IInv
<1> QED
  BY <1>1, <1>2, <1>3, <1>4, <1>5, <1>6, <1>7, <1>8, <1>9, <1>10, <1>11, <1>12, <1>13,
     <1>14, <1>15, <1>16, <1>17 DEF SessionsNext, CallNext

LEMMA SessionsInvariant == SessionsSpec => [](IInv /\ SessionsTypeOK)
<1>1. SessionsInit => SessionsTypeOK  BY SessionsTypeStart
<1>2. SessionsInit => IInv
  <2> SUFFICES ASSUME SessionsInit  PROVE IInv  OBVIOUS
  <2>1. \A f \in Families : Issued(f) = {} /\ Live(f) = {} /\ Rotating(f) = {}
    BY IdleType DEF SessionsInit, Issued, Live, Rotating
  <2>2. \A c \in Calls : call[c].step # "incremented"  BY IdleType DEF SessionsInit
  <2>3. ended = {}  BY DEF SessionsInit
  <2> QED
    BY <1>1, <2>1, <2>2, <2>3
    DEF IInv, OneCredential, IssuedInOrder, RotationsHaveTokens, CoversInv, EndedInv
<1>3. IInv /\ [SessionsNext]_vars => IInv'  BY SessionsStep
<1>4. IInv => SessionsTypeOK  BY DEF IInv
<1> QED  BY <1>2, <1>3, <1>4, PTL DEF SessionsSpec

(* A family never has two credentials, for any number of concurrent        *)
(* refreshes, retries and rotations (auth.repository.ts:53).               *)
THEOREM OneLiveCredential == SessionsSpec => []OneCredential
<1>1. IInv => OneCredential  BY DEF IInv
<1> QED  BY <1>1, SessionsInvariant, PTL

(* A logout-all that ended has ended what was there when it started and    *)
(* was not being refreshed (auth.service.ts:135-140).                      *)
THEOREM LogoutAllReachesAll == SessionsSpec => []LoggedOutEverywhere
<1>1. IInv => LoggedOutEverywhere
  BY DEF IInv, EndedInv, Over, LoggedOutEverywhere, Open
<1> QED  BY <1>1, SessionsInvariant, PTL

(* A session without a credential stays closed (auth.service.ts:85-102).   *)
THEOREM SessionsStayClosed == SessionsSpec => ClosedForGood
<1>1. IInv /\ [SessionsNext]_vars =>
        [\A f \in Families : Issued(f) # {} /\ ~Open(f) => ~Open(f)']_vars
  BY SessionsStep DEF StaysClosed
<1> QED  BY <1>1, SessionsInvariant, PTL DEF SessionsSpec, ClosedForGood
=============================================================================
