---------------------------- MODULE GatewayAuth ----------------------------
(***************************************************************************)
(* An inference request with an API key at the gateway, as the AuthPolicy  *)
(* that maas-controller generates for a model's HTTPRoute tells Authorino  *)
(* to decide it.  Two metadata evaluators call maas-api (apiKeyValidation, *)
(* then subscription-info), three authorization evaluators run on what     *)
(* they returned (auth-valid, subscription-valid, require-group-           *)
(* membership), and each of the five has a cache of its own, with its own  *)
(* key and TTL.  Here is one model, so a cache is a function of the key,   *)
(* and its AuthPolicy allows somebody: without any subject the rule        *)
(* require-group-membership is not written (see AuthPolicyController).     *)
(*                                                                         *)
(* Authorino itself is external: an evaluator looks its cache up, answers  *)
(* from a live entry, and otherwise evaluates and stores the result.       *)
(* Deciding one request takes less than a clock unit, but keys are         *)
(* revoked, subscriptions break and policies change in the middle of it.   *)
(***************************************************************************)
EXTENDS Integers

CONSTANTS
    Keys,               \* API keys
    Threads,            \* requests Authorino decides concurrently
    MetadataCacheTTL,   \* --metadata-cache-ttl
    AuthzCacheTTL,      \* --authz-cache-ttl
    MaxTime             \* bound: the clock stops here

\* ValidateCacheTTLs refuses to start the controller on a negative TTL.
ASSUME TTLAssumption ==
    /\ Keys # {}
    /\ MetadataCacheTTL \in Nat
    /\ AuthzCacheTTL \in Nat
    /\ MaxTime \in Nat

VARIABLES
    now,        \* clock
    revoked,    \* revoked[k]: when /validate began to refuse k, 0 if it does not
    broken,     \* broken[k]: since when /select fails for k's subscription, or 0
    barred,     \* barred[k]: since when no MaaSAuthPolicy allows k's user, or 0
    cache,      \* cache[e][k]: the entry of evaluator e for key k
    req         \* req[t]: the request in thread t

vars == <<now, revoked, broken, barred, cache, req>>
-----------------------------------------------------------------------------
(* The controller's part: TTLs and cache keys of the generated rules. *)

Evaluators == {"apiKeyValidation", "subscription-info",
               "auth-valid", "subscription-valid", "require-group-membership"}

\* Faulty: the authorization TTL as configured.
authzCacheTTLUncapped == AuthzCacheTTL

\* Faulty: the difference of the TTLs, not clamped.
authzCacheTTLDifference == MetadataCacheTTL - AuthzCacheTTL

\* The smaller of the two TTLs, each clamped to 0 from below.
authzCacheTTL ==
    LET clamp(x) == IF x < 0 THEN 0 ELSE x IN
    IF clamp(AuthzCacheTTL) < clamp(MetadataCacheTTL)
    THEN clamp(AuthzCacheTTL) ELSE clamp(MetadataCacheTTL)

TTL(e) == IF e \in {"apiKeyValidation", "subscription-info"}
          THEN MetadataCacheTTL ELSE authzCacheTTL

\* What apiKeyValidation left in auth.metadata: nothing (the call failed),
\* valid = false without a userId, or valid = true with the key's id as userId.
Validity == {"none", "refused", "good"}

\* Faulty: all five evaluators are cached under the key's text.
HasCacheKeyAlways(e, val) == e \in Evaluators

\* apiKeyValidation is cached under the key's text, and so is auth-valid when
\* there is validation metadata.  The other three are cached under the userId
\* it returned (celUserID): without one the CEL expression has no value, and
\* there is no cache key.
HasCacheKey(e, val) ==
    \/ e = "apiKeyValidation"
    \/ e = "auth-valid" /\ val # "none"
    \/ val = "good"
-----------------------------------------------------------------------------
(* Authorino's caches (external). *)

Entry == [ok: BOOLEAN, until: Nat]
NoEntry == [ok |-> FALSE, until |-> 0]

Live(e, k, val) == HasCacheKey(e, val) /\ now < cache[e][k].until

\* What e answers for k when its own evaluation would give fresh.
Eval(e, k, val, fresh) == IF Live(e, k, val) THEN cache[e][k].ok ELSE fresh

\* What e's entry for k is afterwards.
Store(e, k, val, fresh) ==
    IF Live(e, k, val) \/ ~HasCacheKey(e, val) THEN cache[e][k]
    ELSE [ok |-> fresh, until |-> now + TTL(e)]
-----------------------------------------------------------------------------
(* A request. *)

Request == [pc: {"idle", "validate", "select", "authorize", "admitted"},
            key: Keys, began: Nat, val: Validity, info: BOOLEAN]

Idle == [pc |-> "idle", key |-> CHOOSE k \in Keys : TRUE, began |-> 0,
         val |-> "none", info |-> FALSE]

Arrive(t, k) ==
    /\ req[t].pc \in {"idle", "admitted"}
    /\ req' = [req EXCEPT ![t] = [Idle EXCEPT !.pc = "validate", !.key = k, !.began = now]]
    /\ UNCHANGED <<now, revoked, broken, barred, cache>>

\* POST /internal/v1/api-keys/validate answers 200 with valid true or false;
\* when the call fails there is no metadata and nothing is cached.
ApiKeyValidation(t) ==
    LET k == req[t].key
        e == "apiKeyValidation"
        ok == Eval(e, k, "none", revoked[k] = 0) IN
    /\ req[t].pc = "validate"
    /\ \/ /\ req' = [req EXCEPT ![t].pc = "select",
                                ![t].val = IF ok THEN "good" ELSE "refused"]
          /\ cache' = [cache EXCEPT ![e][k] = Store(e, k, "none", revoked[k] = 0)]
       \/ /\ ~Live(e, k, "none")
          /\ req' = [req EXCEPT ![t].pc = "select", ![t].val = "none"]
          /\ UNCHANGED cache
    /\ UNCHANGED <<now, revoked, broken, barred>>

\* POST /internal/v1/subscriptions/select answers 200 also for an error, with
\* the error field set and no name; without a userId it cannot be called.
SubscriptionInfo(t) ==
    LET k == req[t].key
        v == req[t].val
        e == "subscription-info"
        fresh == v = "good" /\ broken[k] = 0 IN
    /\ req[t].pc = "select"
    /\ \/ /\ req' = [req EXCEPT ![t].pc = "authorize",
                       ![t].info = Eval(e, k, v, fresh)]
          /\ cache' = [cache EXCEPT ![e][k] = Store(e, k, v, fresh)]
       \/ /\ ~Live(e, k, v)
          /\ req' = [req EXCEPT ![t].pc = "authorize", ![t].info = FALSE]
          /\ UNCHANGED cache
    /\ UNCHANGED <<now, revoked, broken, barred>>

\* The three rego rules on the metadata of this request; all must allow.
RegoAuthValid(r) == r.val = "good"
RegoSubscriptionValid(r) == r.info
RegoGroupMembership(r) == r.val = "good" /\ barred[r.key] = 0

Rego(e, r) == CASE e = "auth-valid" -> RegoAuthValid(r)
                [] e = "subscription-valid" -> RegoSubscriptionValid(r)
                [] OTHER -> RegoGroupMembership(r)

Authz == {"auth-valid", "subscription-valid", "require-group-membership"}

\* The rules run concurrently; the first refusal cancels those still running,
\* whose results are then not cached.
Authorize(t, ran) ==
    LET r == req[t]
        Answer(e) == Eval(e, r.key, r.val, Rego(e, r)) IN
    /\ r.pc = "authorize"
    /\ ran = Authz \/ \E e \in ran : ~Answer(e)
    /\ cache' = [e \in Evaluators |->
                   IF e \in ran
                   THEN [cache[e] EXCEPT ![r.key] = Store(e, r.key, r.val, Rego(e, r))]
                   ELSE cache[e]]
    /\ req' = [req EXCEPT ![t] = IF \A e \in ran : Answer(e)
                                 THEN [r EXCEPT !.pc = "admitted"] ELSE Idle]
    /\ UNCHANGED <<now, revoked, broken, barred>>
-----------------------------------------------------------------------------
(* The world around it. *)

\* maas-api: the key is revoked or expires, for good.
RevokeKey(k) ==
    /\ revoked[k] = 0
    /\ revoked' = [revoked EXCEPT ![k] = now]
    /\ UNCHANGED <<now, broken, barred, cache, req>>

\* The subscription of k fails, is deleted, drops k's user or the model; or
\* works again.
BreakSubscription(k) ==
    /\ broken' = [broken EXCEPT ![k] = IF @ = 0 THEN now ELSE 0]
    /\ UNCHANGED <<now, revoked, barred, cache, req>>

\* The subjects of the MaaSAuthPolicies change: the rego is regenerated.  In
\* the worst case the cached decisions survive that.
ChangePolicy(k) ==
    /\ barred' = [barred EXCEPT ![k] = IF @ = 0 THEN now ELSE 0]
    /\ UNCHANGED <<now, revoked, broken, cache, req>>

\* Authorino restarts, or drops the caches of a changed AuthPolicy.
AuthorinoRestart ==
    /\ cache' = [e \in Evaluators |-> [k \in Keys |-> NoEntry]]
    /\ req' = [t \in Threads |-> Idle]
    /\ UNCHANGED <<now, revoked, broken, barred>>

\* A decision takes less than a clock unit: none is half made at a tick.
\* Entries that run out leave the caches.
Tick ==
    /\ now < MaxTime
    /\ \A t \in Threads : req[t].pc \in {"idle", "admitted"}
    /\ now' = now + 1
    /\ cache' = [e \in Evaluators |-> [k \in Keys |->
                   IF now' < cache[e][k].until THEN cache[e][k] ELSE NoEntry]]
    /\ UNCHANGED <<revoked, broken, barred, req>>

Init ==
    /\ now = 1
    /\ revoked = [k \in Keys |-> 0]
    /\ broken = [k \in Keys |-> 0]
    /\ barred = [k \in Keys |-> 0]
    /\ cache = [e \in Evaluators |-> [k \in Keys |-> NoEntry]]
    /\ req = [t \in Threads |-> Idle]

Next ==
    \/ \E t \in Threads, k \in Keys : Arrive(t, k)
    \/ \E t \in Threads : ApiKeyValidation(t) \/ SubscriptionInfo(t)
    \/ \E t \in Threads, ran \in SUBSET Authz : Authorize(t, ran)
    \/ \E k \in Keys : RevokeKey(k) \/ BreakSubscription(k) \/ ChangePolicy(k)
    \/ AuthorinoRestart
    \/ Tick

Spec == Init /\ [][Next]_vars
-----------------------------------------------------------------------------
(* Properties. *)

\* The variables keep their types.
TypeOK ==
    /\ now \in Nat
    /\ revoked \in [Keys -> Nat]
    /\ broken \in [Keys -> Nat]
    /\ barred \in [Keys -> Nat]
    /\ cache \in [Evaluators -> [Keys -> Entry]]
    /\ req \in [Threads -> Request]

Admitted(t) == req[t].pc = "admitted"

\* The request in t came less than w after since (or in the same instant).
\* since = 0 means that nothing happened.
Within(t, since, w) ==
    since # 0 => req[t].began <= since \/ req[t].began < since + w

EffectiveAuthzTTL ==
    IF AuthzCacheTTL < MetadataCacheTTL THEN AuthzCacheTTL ELSE MetadataCacheTTL

\* authorino-caching.md: a revocation takes effect within METADATA_CACHE_TTL.
\* It holds although auth-valid is cached under the key's text and outlives
\* the validation it was computed from: the other two rules lose their cache
\* key with the userId.
RevocationWindow ==
    \A t \in Threads :
        Admitted(t) => Within(t, revoked[req[t].key], MetadataCacheTTL)

\* A subscription that broke and stays broken stops admitting requests only
\* after both TTLs: subscription-valid may be computed from a subscription-
\* info entry about to expire, and then lives its own TTL.  The cap of
\* authzCacheTTL bounds the TTL of the entry, not its end: "authorization cache
\* entries must not outlive their dependent metadata cache entries" is not so.
SubscriptionWindow ==
    \A t \in Threads :
        Admitted(t) => Within(t, broken[req[t].key], MetadataCacheTTL + EffectiveAuthzTTL)

\* authorino-caching.md: a policy change takes effect within AUTHZ_CACHE_TTL,
\* itself capped at the metadata TTL.
PolicyWindow ==
    \A t \in Threads :
        Admitted(t) => Within(t, barred[req[t].key], EffectiveAuthzTTL)
=============================================================================
