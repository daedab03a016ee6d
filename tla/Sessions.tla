------------------------------- MODULE Sessions -------------------------------
(***************************************************************************)
(* Sign-in sessions: a login opens a family of refresh tokens, a refresh   *)
(* exchanges the family's live token for the next one, and a token that    *)
(* comes back after it was used or revoked closes the family.  Logging out *)
(* of all sessions is two writes: the user's token version, which every    *)
(* access token carries, and the refresh tokens.  Requests run             *)
(* concurrently and may die between any two of their steps.                *)
(*                                                                         *)
(* A refresh token is a family and its rank in it.  A client may present   *)
(* any token that was ever issued, again after a lost answer included.     *)
(* Passwords, hashing and signatures are not modelled.                     *)
(***************************************************************************)
EXTENDS Integers, FiniteSets

CONSTANTS
    Users,
    Families,       \* bound: token families, that is, logins
    Owner,          \* the user of each family
    Calls,          \* bound: requests at work at the same time
    MaxRotations,   \* bound: rotations of a family
    MaxVersion      \* bound: increments of tokenVersion

ASSUME SessionsAssumption ==
    /\ Users # {} /\ Families # {}
    /\ Owner \in [Families -> Users]
    /\ MaxRotations \in Nat
    /\ MaxVersion \in Nat

VARIABLES
    registered,     \* users with an account
    tokenVersion,   \* per user
    token,          \* refresh token documents: family, rank -> status
    access,         \* access tokens that have not expired
    call,           \* what each request has read and decided
    ended           \* history: families that a logout-all of their user ended

vars == <<registered, tokenVersion, token, access, call, ended>>

Ranks == 0..MaxRotations

(* A document with revokedAt null is live until expiresAt, then expired;   *)
(* the TTL index purges it, revoked or not.                                *)
Statuses == {"none", "live", "expired", "revoked", "purged"}

(* covers: history, the families a logout-all under way is going to end.   *)
Idle == [step |-> "idle", user |-> CHOOSE u \in Users : TRUE, version |-> 0,
         family |-> CHOOSE f \in Families : TRUE, rank |-> 0, covers |-> {}]

SessionsInit ==
    /\ registered = {}
    /\ tokenVersion = [u \in Users |-> 0]
    /\ token = [f \in Families |-> [n \in Ranks |-> "none"]]
    /\ access = {}
    /\ call = [c \in Calls |-> Idle]
    /\ ended = {}

Issued(f) == {n \in Ranks : token[f][n] # "none"}
Live(f) == {n \in Ranks : token[f][n] = "live"}

(* Refreshes that consumed a token of f and have not created the next one. *)
Rotating(f) == {c \in Calls : call[c].step \in {"consumed", "fetched"}
                              /\ call[c].family = f}

(* The update { revokedAt: null } -> revoked, of a set of tokens.          *)
Revoke(tokens) ==
    token' = [f \in Families |-> [n \in Ranks |->
                 IF <<f, n>> \in tokens /\ token[f][n] \in {"live", "expired"}
                 THEN "revoked" ELSE token[f][n]]]

Done(c) == call' = [call EXCEPT ![c] = Idle]

-----------------------------------------------------------------------------
(* Two registrations of one address: the unique index lets one insert it.  *)
Register(u) ==
    /\ u \notin registered
    /\ registered' = registered \union {u}
    /\ UNCHANGED <<tokenVersion, token, access, call, ended>>

(* login: the user is read, then the password verified, which takes time.  *)
LoginFind(c, u) ==
    /\ call[c].step = "idle"
    /\ u \in registered
    /\ call' = [call EXCEPT ![c].step = "verifying", ![c].user = u,
                            ![c].version = tokenVersion[u]]
    /\ UNCHANGED <<registered, tokenVersion, token, access, ended>>

(* A random family, one nobody has used; the access token is signed with   *)
(* the version that was read.                                              *)
LoginCreate(c, f) ==
    /\ call[c].step = "verifying"
    /\ Owner[f] = call[c].user
    /\ Issued(f) = {}
    /\ token' = [token EXCEPT ![f][0] = "live"]
    /\ access' = access \union {[family |-> f, version |-> call[c].version]}
    /\ Done(c)
    /\ UNCHANGED <<registered, tokenVersion, ended>>

-----------------------------------------------------------------------------
(* Mutant: the token is looked up first and marked by its hash only, so    *)
(* that whoever read it before it was marked consumes it too.              *)
ConsumeByHashOnly(c, f, n) ==
    /\ call[c].step = "idle"
    /\ token[f][n] \in {"live", "revoked"}
    /\ token' = [token EXCEPT ![f][n] = "revoked"]
    /\ call' = [d \in Calls |->
                   IF d = c THEN [Idle EXCEPT !.step = "consumed", !.family = f, !.rank = n]
                            ELSE [call[d] EXCEPT !.covers = @ \ {f}]]
    /\ UNCHANGED <<registered, tokenVersion, access, ended>>

(* consumeRefreshToken: one atomic update, of a live token only.           *)
Consume(c, f, n) ==
    /\ call[c].step = "idle"
    /\ token[f][n] = "live"
    /\ token' = [token EXCEPT ![f][n] = "revoked"]
    /\ call' = [d \in Calls |->
                   IF d = c THEN [Idle EXCEPT !.step = "consumed", !.family = f, !.rank = n]
                            ELSE [call[d] EXCEPT !.covers = @ \ {f}]]
    /\ UNCHANGED <<registered, tokenVersion, access, ended>>

(* The update matched nothing: the token is looked up in another read.     *)
ConsumeMisses(c, f, n) ==
    /\ call[c].step = "idle"
    /\ token[f][n] \in {"expired", "revoked", "purged"}
    /\ call' = [call EXCEPT ![c].step = "missed", ![c].family = f, ![c].rank = n]
    /\ UNCHANGED <<registered, tokenVersion, token, access, ended>>

(* revokedAt is set: reuse.  Otherwise expired or gone: refused.           *)
ExplainMiss(c) ==
    /\ call[c].step = "missed"
    /\ IF token[call[c].family][call[c].rank] = "revoked"
       THEN call' = [call EXCEPT ![c].step = "reused"]
       ELSE Done(c)
    /\ UNCHANGED <<registered, tokenVersion, token, access, ended>>

RevokeFamilyTokens(c) ==
    /\ call[c].step = "reused"
    /\ Revoke({call[c].family} \X Ranks)
    /\ Done(c)
    /\ UNCHANGED <<registered, tokenVersion, access, ended>>

(* findUserById; users are never deleted.                                  *)
FetchUser(c) ==
    /\ call[c].step = "consumed"
    /\ call' = [call EXCEPT ![c].step = "fetched",
                            ![c].version = tokenVersion[Owner[call[c].family]]]
    /\ UNCHANGED <<registered, tokenVersion, token, access, ended>>

(* The next token of the family, and an access token.                      *)
CreateSuccessor(c) ==
    LET f == call[c].family IN
    /\ call[c].step = "fetched"
    /\ \E n \in Ranks :
          /\ token[f][n] = "none"
          /\ \A m \in 0..(n - 1) : token[f][m] # "none"
          /\ token' = [token EXCEPT ![f][n] = "live"]
    /\ access' = access \union {[family |-> f, version |-> call[c].version]}
    /\ Done(c)
    /\ UNCHANGED <<registered, tokenVersion, ended>>

-----------------------------------------------------------------------------
(* logout: whoever presents a token revokes that token, no other.          *)
Logout(f, n) ==
    /\ token[f][n] \in {"live", "expired"}
    /\ Revoke({<<f, n>>})
    /\ UNCHANGED <<registered, tokenVersion, access, call, ended>>

(* authenticate, in front of logout-all: the version is compared once.     *)
Authenticate(c, a) ==
    /\ call[c].step = "idle"
    /\ a \in access
    /\ a.version = tokenVersion[Owner[a.family]]
    /\ call' = [call EXCEPT ![c].step = "authenticated", ![c].user = Owner[a.family],
                            ![c].version = a.version]
    /\ UNCHANGED <<registered, tokenVersion, token, access, ended>>

FamiliesOf(u) == {f \in Families : Owner[f] = u /\ Issued(f) # {}}

(* Mutant: the version is set to the one after the token's own, a read     *)
(* and a write instead of one increment.                                   *)
SetNextTokenVersion(c) ==
    LET u == call[c].user IN
    /\ call[c].step = "authenticated"
    /\ call[c].version < MaxVersion
    /\ tokenVersion' = [tokenVersion EXCEPT ![u] = call[c].version + 1]
    /\ call' = [call EXCEPT ![c].step = "incremented",
                            ![c].covers = {f \in FamiliesOf(u) : Rotating(f) = {}}]
    /\ UNCHANGED <<registered, token, access, ended>>

(* One $inc; then the refresh tokens.                                      *)
IncrementTokenVersion(c) ==
    LET u == call[c].user IN
    /\ call[c].step = "authenticated"
    /\ tokenVersion[u] < MaxVersion
    /\ tokenVersion' = [tokenVersion EXCEPT ![u] = @ + 1]
    /\ call' = [call EXCEPT ![c].step = "incremented",
                            ![c].covers = {f \in FamiliesOf(u) : Rotating(f) = {}}]
    /\ UNCHANGED <<registered, token, access, ended>>

RevokeAllUserRefreshTokens(c) ==
    /\ call[c].step = "incremented"
    /\ Revoke({f \in Families : Owner[f] = call[c].user} \X Ranks)
    /\ ended' = ended \union call[c].covers
    /\ Done(c)
    /\ UNCHANGED <<registered, tokenVersion, access>>

-----------------------------------------------------------------------------
(* The password was wrong, the process died, a database call failed.       *)
Abandon(c) ==
    /\ call[c].step # "idle"
    /\ Done(c)
    /\ UNCHANGED <<registered, tokenVersion, token, access, ended>>

Expire(f, n) ==
    /\ token[f][n] = "live"
    /\ token' = [token EXCEPT ![f][n] = "expired"]
    /\ UNCHANGED <<registered, tokenVersion, access, call, ended>>

Purge(f, n) ==
    /\ token[f][n] \in {"expired", "revoked"}
    /\ token' = [token EXCEPT ![f][n] = "purged"]
    /\ UNCHANGED <<registered, tokenVersion, access, call, ended>>

AccessExpires(a) ==
    /\ a \in access
    /\ access' = access \ {a}
    /\ UNCHANGED <<registered, tokenVersion, token, call, ended>>

-----------------------------------------------------------------------------
CallNext(c) ==
    \/ \E u \in Users : LoginFind(c, u)
    \/ \E f \in Families : LoginCreate(c, f)
    \/ \E f \in Families, n \in Ranks : Consume(c, f, n) \/ ConsumeMisses(c, f, n)
    \/ ExplainMiss(c) \/ RevokeFamilyTokens(c) \/ FetchUser(c) \/ CreateSuccessor(c)
    \/ \E a \in access : Authenticate(c, a)
    \/ IncrementTokenVersion(c) \/ RevokeAllUserRefreshTokens(c)
    \/ Abandon(c)

SessionsNext ==
    \/ \E u \in Users : Register(u)
    \/ \E c \in Calls : CallNext(c)
    \/ \E f \in Families, n \in Ranks : Logout(f, n) \/ Expire(f, n) \/ Purge(f, n)
    \/ \E a \in access : AccessExpires(a)

SessionsSpec == SessionsInit /\ [][SessionsNext]_vars

-----------------------------------------------------------------------------
CallDocs ==
    [step : {"idle", "verifying", "consumed", "fetched", "missed", "reused",
             "authenticated", "incremented"},
     user : Users, version : 0..MaxVersion, family : Families, rank : Ranks,
     covers : SUBSET Families]

(* The version that a request read, and will put into an access token.     *)
VersionFor(c) == IF call[c].step = "fetched" THEN tokenVersion[Owner[call[c].family]]
                                             ELSE tokenVersion[call[c].user]

(* Documents and requests keep their shapes; and no version, in a token or *)
(* under way to one, is ahead of its user's, or a later logout-all would   *)
(* make it valid.                                                          *)
SessionsTypeOK ==
    /\ registered \subseteq Users
    /\ tokenVersion \in [Users -> 0..MaxVersion]
    /\ token \in [Families -> [Ranks -> Statuses]]
    /\ access \subseteq [family : Families, version : 0..MaxVersion]
    /\ call \in [Calls -> CallDocs]
    /\ ended \subseteq Families
    /\ \A a \in access : a.version <= tokenVersion[Owner[a.family]]
    /\ \A c \in Calls : call[c].version <= VersionFor(c)

(* auth.repository.ts:54: two concurrent refreshes with one token never    *)
(* both succeed.  Over the whole family: whatever is presented when, its   *)
(* right to the next token exists once, as the newest token or as one      *)
(* refresh under way, so that a copied token and its original cannot both  *)
(* be used for long without one of them being noticed.                     *)
OneCredential ==
    \A f \in Families :
        /\ \A n \in Live(f) : /\ Rotating(f) = {}
                              /\ \A m \in Issued(f) : m <= n
        /\ \A c, d \in Rotating(f) : c = d

(* A session that lost its credential, by logout, reuse, expiry or a       *)
(* refresh that died after it consumed the token, never gets one again:    *)
(* only a login helps, and that is another family.                         *)
Open(f) == Live(f) # {} \/ Rotating(f) # {}

ClosedForGood ==
    [][\A f \in Families : Issued(f) # {} /\ ~Open(f) => ~Open(f)']_vars

(* auth.service.ts:135: a logout of all sessions that ended has ended      *)
(* every session that was there when it started and that no refresh used   *)
(* meanwhile: no refresh token of it works, and no access token of it has  *)
(* the user's current version, whatever logins and refreshes of other      *)
(* sessions ran between its two writes.                                    *)
LoggedOutEverywhere ==
    \A f \in ended :
        /\ ~Open(f)
        /\ \A a \in access : a.family = f => a.version < tokenVersion[Owner[f]]
=============================================================================
