---------------------------- MODULE RefreshTokens ----------------------------
(***************************************************************************)
(* Refresh tokens of the gin JWT middleware (pkg/jwt): LoginHandler,       *)
(* RefreshHandler with its rotation and LogoutHandler over a               *)
(* RefreshTokenStore, in memory or in Redis behind a client-side cache.    *)
(*                                                                         *)
(* A token is random, so every one is new.  Requests run concurrently, and *)
(* each call of the store is a step of its own.  A call of Redis may fail, *)
(* also after it was applied.  Access tokens are signed by a library and   *)
(* kept nowhere; they are left out.                                        *)
(*                                                                         *)
(* `root', `ended', `forks' and `unsure' are history variables: the login  *)
(* a token descends from, the logins whose token a logout deleted, how     *)
(* many times a login got a live token too many (overlapping uses of one   *)
(* token, a revocation that failed), and the logins for which a call of    *)
(* the store failed after it was applied.                                  *)
(***************************************************************************)
EXTENDS Naturals, FiniteSets

CONSTANTS Requests,      \* requests that run at the same time
          Stores,        \* "memory", "redis": the stores in question
          MaxTokens,     \* bound: tokens generated
          MaxErrors      \* bound: calls of the store that fail

ASSUME TokensAssumption == /\ Stores \subseteq {"memory", "redis"}
                           /\ MaxTokens \in Nat \ {0} /\ MaxErrors \in Nat

Tokens == 1 .. MaxTokens

VARIABLES kind,       \* which store it is
          store,      \* token -> "absent", "live" or "expired"
          cache,      \* tokens in Redis' client-side cache
          issued,     \* tokens that a client was given
          req,        \* what each request does
          generated, errors,
          root, ended, forks, unsure

tokenVars == <<kind, store, cache, issued, req, generated, errors, root, ended, forks, unsure>>

UseRedis == kind = "redis"
Waiting  == [at |-> "none"]
Live(t)  == store[t] = "live"

(* The refreshes that have validated t and not yet revoked it. *)
Using(t) == {r \in Requests : req[r].at \in {"set", "revoke"} /\ req[r].old = t}

(* What a call of the store does to its key: applied; failed; or, with     *)
(* Redis, applied and reported as failed.                                  *)
Errs     == errors < MaxErrors /\ errors' = errors + 1
Put(t)   == store' = [store EXCEPT ![t] = "live"]
Drop(t)  == store' = [store EXCEPT ![t] = "absent"]
Forks(x) == forks' = [forks EXCEPT ![x] = @ + 1]

-----------------------------------------------------------------------------
(* A login that the Authenticator accepts: TokenGenerator begins. *)
Login(r) ==
  /\ req[r] = Waiting /\ generated < MaxTokens
  /\ generated' = generated + 1
  /\ root' = [root EXCEPT ![generated'] = generated']
  /\ req' = [req EXCEPT ![r] = [at |-> "set", old |-> 0, new |-> generated']]
  /\ UNCHANGED <<kind, store, cache, issued, errors, ended, forks, unsure>>

(* Get of the store: the token is live, or the cache of Redis still has it. *)
Found(t) == Live(t) \/ (UseRedis /\ t \in cache)

(* RefreshHandler: validateRefreshToken calls Get.  A token that is found  *)
(* to have expired is deleted.                                             *)
RefreshGet(r, t) ==
  /\ req[r] = Waiting /\ t \in issued /\ generated < MaxTokens
  /\ IF Found(t)
     THEN /\ generated' = generated + 1
          /\ root' = [root EXCEPT ![generated'] = root[t]]
          /\ req' = [req EXCEPT ![r] = [at |-> "set", old |-> t, new |-> generated']]
          /\ cache' = IF UseRedis THEN cache \cup {t} ELSE cache
          /\ IF Using(t) # {} \/ ~Live(t) THEN Forks(root[t]) ELSE UNCHANGED forks
          /\ UNCHANGED store
     ELSE /\ store[t] = "expired" /\ Drop(t)
          /\ UNCHANGED <<generated, root, req, cache, forks>>
  /\ UNCHANGED <<kind, issued, errors, ended, unsure>>

(* The client gets the pair of tokens. *)
Answer(r) ==
  /\ req' = [req EXCEPT ![r] = Waiting]
  /\ issued' = issued \cup {req[r].new}

(* A slip: rotation revokes first, and stores the new token afterwards. *)
StoreNewRevoked(r) ==
  LET t == req[r].new IN
  /\ req[r].at = "set"
  /\ \/ /\ store' = [x \in Tokens |-> IF x = t THEN "live"
                                      ELSE IF x = req[r].old THEN "absent" ELSE store[x]]
        /\ Answer(r) /\ UNCHANGED errors
     \/ /\ Errs /\ req' = [req EXCEPT ![r] = Waiting] /\ UNCHANGED issued
        /\ store' = [x \in Tokens |-> IF x = req[r].old THEN "absent" ELSE store[x]]
  /\ UNCHANGED <<kind, cache, generated, root, ended, forks, unsure>>

(* TokenGenerator: storeRefreshToken; a login is answered.  Signing the    *)
(* access token may fail too, whatever the store is.                       *)
StoreNew(r) ==
  LET t == req[r].new IN
  /\ req[r].at = "set"
  /\ \/ /\ Put(t) /\ UNCHANGED <<errors, forks, unsure>>
        /\ IF req[r].old = 0 THEN Answer(r)
           ELSE req' = [req EXCEPT ![r].at = "revoke"] /\ UNCHANGED issued
     \/ /\ Errs /\ req' = [req EXCEPT ![r] = Waiting] /\ UNCHANGED <<issued, unsure>>
        /\ \/ UNCHANGED <<store, forks>>
           \/ UseRedis /\ Put(t) /\ Forks(root[t])
  /\ UNCHANGED <<kind, cache, generated, root, ended>>

(* A slip: the old token is not revoked. *)
RevokeNever(r) ==
  /\ req[r].at = "revoke" /\ Answer(r)
  /\ UNCHANGED <<kind, store, cache, generated, errors, root, ended, forks, unsure>>

(* TokenGeneratorWithRevocation: Delete of the old token, and the answer.  *)
(* An error is answered although the new token is stored.                  *)
RevokeOld(r) ==
  LET t == req[r].old IN
  /\ req[r].at = "revoke"
  /\ \/ Drop(t) /\ Answer(r) /\ UNCHANGED <<errors, forks, unsure>>
     \/ /\ UseRedis /\ Errs /\ req' = [req EXCEPT ![r] = Waiting] /\ UNCHANGED issued
        /\ Forks(root[t])
        /\ \/ UNCHANGED <<store, unsure>>
           \/ Drop(t) /\ unsure' = unsure \cup {root[t]}
  /\ UNCHANGED <<kind, cache, generated, root, ended>>

(* LogoutHandler: revokeRefreshToken, whose error is only logged. *)
Logout(t) ==
  /\ t \in issued
  /\ \/ /\ Drop(t) /\ UNCHANGED errors
        /\ ended' = IF Live(t) THEN ended \cup {root[t]} ELSE ended
        /\ IF Live(t) /\ Using(t) # {} THEN Forks(root[t]) ELSE UNCHANGED forks
     \/ UseRedis /\ Errs /\ UNCHANGED <<store, ended, forks>>
  /\ UNCHANGED <<kind, cache, issued, req, generated, root, unsure>>

(* Time passes: a token expires.  Redis drops it by itself. *)
TokenExpires(t) ==
  /\ Live(t)
  /\ store' = [store EXCEPT ![t] = IF UseRedis THEN "absent" ELSE "expired"]
  /\ cache' = cache \ {t}
  /\ ended' = ended \cup {root[t]}
  /\ IF Using(t) # {} THEN Forks(root[t]) ELSE UNCHANGED forks
  /\ UNCHANGED <<kind, issued, req, generated, errors, root, unsure>>

(* Cleanup of the store in memory. *)
Cleanup ==
  /\ \E t \in Tokens : store[t] = "expired"
  /\ store' = [t \in Tokens |-> IF store[t] = "expired" THEN "absent" ELSE store[t]]
  /\ UNCHANGED <<kind, cache, issued, req, generated, errors, root, ended, forks, unsure>>

(* Redis tells the client that a key has changed, or cacheTTL is over. *)
Invalidate(t) ==
  /\ t \in cache /\ cache' = cache \ {t}
  /\ UNCHANGED <<kind, store, issued, req, generated, errors, root, ended, forks, unsure>>

-----------------------------------------------------------------------------
TokensInit ==
  /\ kind \in Stores /\ store = [t \in Tokens |-> "absent"] /\ cache = {} /\ issued = {}
  /\ req = [r \in Requests |-> Waiting]
  /\ generated = 0 /\ errors = 0
  /\ root = [t \in Tokens |-> 0] /\ ended = {}
  /\ forks = [t \in Tokens |-> 0] /\ unsure = {}

TokensNext ==
  \/ \E r \in Requests : Login(r) \/ StoreNew(r) \/ RevokeOld(r)
  \/ \E r \in Requests, t \in Tokens : RefreshGet(r, t)
  \/ \E t \in Tokens : Logout(t) \/ TokenExpires(t) \/ Invalidate(t)
  \/ Cleanup

TokensSpec == TokensInit /\ [][TokensNext]_tokenVars

-----------------------------------------------------------------------------
LiveOf(x) == {t \in Tokens : root[t] = x /\ Live(t)}
Quiet(x)  == \A r \in Requests : req[r] # Waiting => root[req[r].new] # x

(* A login has one live refresh token, and none after a logout, however    *)
(* often it is refreshed, except for the overlapping uses of one token and *)
(* the failed revocations that `forks' counts (RefreshHandler, "Generate   *)
(* new token pair and revoke old refresh token").                          *)
OneTokenPerLogin ==
  \A x \in Tokens : Quiet(x) =>
    Cardinality(LiveOf(x)) <= forks[x] + (IF x \in ended THEN 0 ELSE 1)

(* Until it logs out or its token expires, a client that was answered      *)
(* holds a token that is live, also while refreshes are under way: one     *)
(* that fails leaves the old token (TokenGeneratorWithRevocation stores    *)
(* before it revokes), unless Redis had deleted it all the same.           *)
NoLockOut ==
  \A x \in issued : root[x] = x /\ x \notin ended /\ x \notin unsure
    => LiveOf(x) \cap issued # {}

=============================================================================
