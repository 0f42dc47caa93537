------------------------- MODULE GatewayAuth_proofs -------------------------
(***************************************************************************)
(* Proofs about GatewayAuth: how long a revoked key, a broken subscription *)
(* and a withdrawn policy can still be admitted, for any number of keys    *)
(* and concurrent requests and any two TTLs.                               *)
(*                                                                         *)
(* The argument is about cache entries: a positive entry of evaluator e    *)
(* ends at most Window(e) after the event that made it wrong (CacheInv).   *)
(* A request that relies on an entry inherits the bound (ReqInv), because  *)
(* the clock does not move while it is being decided.                      *)
(***************************************************************************)
EXTENDS GatewayAuth, TLAPS

\* The event that makes a positive answer of e for k wrong: since when (0:
\* it has not happened).
Since(e, k) ==
    IF e = "apiKeyValidation" THEN revoked[k]
    ELSE IF e \in {"subscription-info", "subscription-valid"} THEN broken[k]
    ELSE IF e = "require-group-membership" THEN barred[k]
    ELSE 0

\* How much longer a positive answer can be in the cache.
Window(e) ==
    IF e \in {"apiKeyValidation", "subscription-info"} THEN MetadataCacheTTL
    ELSE IF e = "subscription-valid" THEN MetadataCacheTTL + authzCacheTTL
    ELSE authzCacheTTL

EntryInv(e, k) ==
    /\ cache[e][k].until <= now + TTL(e)
    /\ cache[e][k].ok /\ Since(e, k) # 0 => cache[e][k].until <= Since(e, k) + Window(e)

CacheInv == \A e \in Evaluators, k \in Keys : EntryInv(e, k)

InFlight(t) == req[t].pc \in {"validate", "select", "authorize"}

ReqInv(t) ==
    /\ InFlight(t) => req[t].began = now
    /\ req[t].began <= now
    /\ req[t].pc \in {"select", "authorize"} /\ req[t].val = "good" =>
         Within(t, revoked[req[t].key], MetadataCacheTTL)
    /\ req[t].pc = "authorize" /\ req[t].info =>
         Within(t, broken[req[t].key], MetadataCacheTTL)
    /\ req[t].pc = "admitted" =>
         /\ Within(t, revoked[req[t].key], MetadataCacheTTL)
         /\ Within(t, broken[req[t].key], MetadataCacheTTL + authzCacheTTL)
         /\ Within(t, barred[req[t].key], authzCacheTTL)

IInv == TypeOK /\ CacheInv /\ \A t \in Threads : ReqInv(t)
-----------------------------------------------------------------------------
(* Constants and operators. *)

LEMMA TTLFacts ==
    /\ MetadataCacheTTL \in Nat
    /\ authzCacheTTL \in Nat
    /\ authzCacheTTL = EffectiveAuthzTTL
    /\ \A e \in Evaluators : TTL(e) \in Nat /\ Window(e) \in Nat /\ TTL(e) <= Window(e)
<1>1. MetadataCacheTTL \in Nat /\ AuthzCacheTTL \in Nat
  BY TTLAssumption
<1>2. authzCacheTTL \in Nat /\ authzCacheTTL = EffectiveAuthzTTL
  BY <1>1 DEF authzCacheTTL, EffectiveAuthzTTL
<1> QED
  BY <1>1, <1>2 DEF TTL, Window, Evaluators

LEMMA IdleType == Idle \in Request /\ Idle.pc = "idle" /\ Idle.began = 0
BY TTLAssumption DEF Idle, Request, Validity

LEMMA StoreType ==
    ASSUME TypeOK, NEW e \in Evaluators, NEW k \in Keys, NEW v, NEW f \in BOOLEAN
    PROVE  Store(e, k, v, f) \in Entry /\ Eval(e, k, v, f) \in BOOLEAN
BY TTLFacts DEF TypeOK, Store, Eval, Entry

LEMMA CacheType ==
    ASSUME TypeOK, NEW e \in Evaluators, NEW k \in Keys, NEW x \in Entry
    PROVE  [cache EXCEPT ![e][k] = x] \in [Evaluators -> [Keys -> Entry]]
<1>1. [cache[e] EXCEPT ![k] = x] \in [Keys -> Entry]
  BY DEF TypeOK
<1> QED
  BY <1>1 DEF TypeOK

LEMMA RegoType ==
    ASSUME TypeOK, NEW t \in Threads, NEW e \in Authz
    PROVE  Rego(e, req[t]) \in BOOLEAN
BY DEF TypeOK, Request, Rego, Authz, RegoAuthValid, RegoSubscriptionValid, RegoGroupMembership
-----------------------------------------------------------------------------
(* One step. *)

LEMMA TypeStep == TypeOK /\ [Next]_vars => TypeOK'
<1> SUFFICES ASSUME TypeOK, [Next]_vars PROVE TypeOK'
  OBVIOUS
<1> USE IdleType, TTLAssumption
<1>1. ASSUME NEW t \in Threads, NEW k \in Keys, Arrive(t, k) PROVE TypeOK'
  <2>1. [Idle EXCEPT !.pc = "validate", !.key = k, !.began = now] \in Request
    BY DEF TypeOK, Request
  <2> QED
    BY <1>1, <2>1 DEF TypeOK, Arrive
<1>2. ASSUME NEW t \in Threads, ApiKeyValidation(t) PROVE TypeOK'
  <2> DEFINE k == req[t].key
             e == "apiKeyValidation"
  <2>1. k \in Keys /\ e \in Evaluators
    BY DEF TypeOK, Request, Evaluators
  <2>2. Store(e, k, "none", revoked[k] = 0) \in Entry
    <3>1. (revoked[k] = 0) \in BOOLEAN
      OBVIOUS
    <3> QED
      BY <2>1, <3>1, StoreType, Zenon
  <2>3. [cache EXCEPT ![e][k] = Store(e, k, "none", revoked[k] = 0)]
           \in [Evaluators -> [Keys -> Entry]]
    BY <2>1, <2>2, CacheType, Zenon
  <2>4. cache' \in [Evaluators -> [Keys -> Entry]]
    <3>1. cache' = cache \/ cache' = [cache EXCEPT ![e][k] = Store(e, k, "none", revoked[k] = 0)]
      BY <1>2, Zenon DEF ApiKeyValidation
    <3>2. cache \in [Evaluators -> [Keys -> Entry]]
      BY DEF TypeOK
    <3> QED
      BY <2>3, <3>1, <3>2, Zenon
  <2>5. req' \in [Threads -> Request]
    <3>1. \A v \in Validity : [req EXCEPT ![t].pc = "select", ![t].val = v] \in [Threads -> Request]
      BY DEF TypeOK, Request
    <3>2. \E v \in Validity : req' = [req EXCEPT ![t].pc = "select", ![t].val = v]
      BY <1>2 DEF ApiKeyValidation, Validity
    <3> QED
      BY <3>1, <3>2
  <2> QED
    BY <1>2, <2>4, <2>5 DEF TypeOK, ApiKeyValidation
<1>3. ASSUME NEW t \in Threads, SubscriptionInfo(t) PROVE TypeOK'
  <2> DEFINE k == req[t].key
             e == "subscription-info"
             fresh == req[t].val = "good" /\ broken[k] = 0
  <2>1. k \in Keys /\ e \in Evaluators
    BY DEF TypeOK, Request, Evaluators
  <2>2. Store(e, k, req[t].val, fresh) \in Entry /\ Eval(e, k, req[t].val, fresh) \in BOOLEAN
    <3>1. fresh \in BOOLEAN
      OBVIOUS
    <3> QED
      BY <2>1, <3>1, StoreType, Zenon
  <2>3. [cache EXCEPT ![e][k] = Store(e, k, req[t].val, fresh)]
           \in [Evaluators -> [Keys -> Entry]]
    BY <2>1, <2>2, CacheType, Zenon
  <2>4. cache' \in [Evaluators -> [Keys -> Entry]]
    <3>1. cache' = cache \/ cache' = [cache EXCEPT ![e][k] = Store(e, k, req[t].val, fresh)]
      BY <1>3, Zenon DEF SubscriptionInfo
    <3>2. cache \in [Evaluators -> [Keys -> Entry]]
      BY DEF TypeOK
    <3> QED
      BY <2>3, <3>1, <3>2, Zenon
  <2>5. req' \in [Threads -> Request]
    <3>1. \A b \in BOOLEAN : [req EXCEPT ![t].pc = "authorize", ![t].info = b] \in [Threads -> Request]
      BY DEF TypeOK, Request
    <3>2. \E b \in BOOLEAN : req' = [req EXCEPT ![t].pc = "authorize", ![t].info = b]
      BY <1>3, <2>2, Zenon DEF SubscriptionInfo
    <3> QED
      BY <3>1, <3>2
  <2> QED
    BY <1>3, <2>4, <2>5 DEF TypeOK, SubscriptionInfo
<1>4. ASSUME NEW t \in Threads, NEW ran \in SUBSET Authz, Authorize(t, ran) PROVE TypeOK'
  <2> DEFINE r == req[t]
  <2>1. r \in Request /\ r.key \in Keys
    BY DEF TypeOK, Request
  <2>2. \A e \in ran : e \in Evaluators /\ Store(e, r.key, r.val, Rego(e, r)) \in Entry
    BY <2>1, StoreType, RegoType DEF Authz, Evaluators
  <2>3. cache' \in [Evaluators -> [Keys -> Entry]]
    BY <1>4, <2>1, <2>2 DEF TypeOK, Authorize
  <2>4. [r EXCEPT !.pc = "admitted"] \in Request
    BY <2>1 DEF Request
  <2>5. req' \in [Threads -> Request]
    BY <1>4, <2>4 DEF TypeOK, Authorize
  <2> QED
    BY <1>4, <2>3, <2>5 DEF TypeOK, Authorize
<1>5. ASSUME NEW k \in Keys, RevokeKey(k) \/ BreakSubscription(k) \/ ChangePolicy(k) PROVE TypeOK'
  BY <1>5 DEF TypeOK, RevokeKey, BreakSubscription, ChangePolicy
<1>6. CASE AuthorinoRestart
  BY <1>6 DEF TypeOK, AuthorinoRestart, NoEntry, Entry
<1>7. CASE Tick
  BY <1>7 DEF TypeOK, Tick, NoEntry, Entry
<1>8. CASE UNCHANGED vars
  BY <1>8 DEF TypeOK, vars
<1> QED
  BY <1>1, <1>2, <1>3, <1>4, <1>5, <1>6, <1>7, <1>8 DEF Next

LEMMA StoreCases ==
    ASSUME NEW e, NEW k, NEW v, NEW f
    PROVE  \/ Store(e, k, v, f) = cache[e][k]
           \/ Store(e, k, v, f) = [ok |-> f, until |-> now + TTL(e)]
BY DEF Store

LEMMA CacheStep == IInv /\ [Next]_vars => CacheInv'
<1> SUFFICES ASSUME IInv, [Next]_vars, NEW e \in Evaluators, NEW k \in Keys PROVE EntryInv(e, k)'
  BY DEF CacheInv
<1>0. TypeOK /\ TypeOK' /\ EntryInv(e, k)
  BY TypeStep DEF IInv, CacheInv
<1>a. /\ TTL(e) \in Nat /\ Window(e) \in Nat /\ TTL(e) <= Window(e)
      /\ now \in Nat /\ now' \in Nat
      /\ cache[e][k].until \in Nat
      /\ Since(e, k) \in Nat /\ Since(e, k)' \in Nat
  BY <1>0, TTLFacts DEF TypeOK, Entry, Since
\* The entry stays, and no event happens.
<1>b. ASSUME cache'[e][k] = cache[e][k], Since(e, k)' = Since(e, k), now <= now'
      PROVE  EntryInv(e, k)'
  BY <1>0, <1>a, <1>b DEF EntryInv
\* The entry stays, and an event happens or is undone now.
<1>c. ASSUME cache'[e][k] = cache[e][k], Since(e, k)' \in {0, now, Since(e, k)}, now' = now
      PROVE  EntryInv(e, k)'
  BY <1>0, <1>a, <1>c DEF EntryInv
\* The entry is new.
<1>d. ASSUME NEW f, cache'[e][k] = [ok |-> f, until |-> now + TTL(e)],
             Since(e, k)' = Since(e, k), now' = now,
             f /\ Since(e, k) # 0 => now + TTL(e) <= Since(e, k) + Window(e)
      PROVE  EntryInv(e, k)'
  BY <1>a, <1>d DEF EntryInv
\* The entry is gone.
<1>e. ASSUME cache'[e][k] = NoEntry PROVE EntryInv(e, k)'
  BY <1>a, <1>e DEF EntryInv, NoEntry
<1>f. ASSUME UNCHANGED <<revoked, broken, barred>> PROVE Since(e, k)' = Since(e, k)
  BY <1>f DEF Since
<1>1. ASSUME NEW t \in Threads, NEW j \in Keys, Arrive(t, j) PROVE EntryInv(e, k)'
  BY <1>1, <1>a, <1>b, <1>f DEF Arrive
<1>2. ASSUME NEW t \in Threads, ApiKeyValidation(t) PROVE EntryInv(e, k)'
  <2>0. Since(e, k)' = Since(e, k) /\ now' = now
    BY <1>2, <1>f DEF ApiKeyValidation
  <2>1. CASE cache'[e][k] = cache[e][k]
    BY <1>a, <1>b, <2>0, <2>1
  <2>2. CASE /\ e = "apiKeyValidation" /\ k = req[t].key
             /\ cache'[e][k] = Store(e, k, "none", revoked[k] = 0)
    <3>1. CASE cache'[e][k] = [ok |-> revoked[k] = 0, until |-> now + TTL(e)]
      <4>1. Since(e, k) = revoked[k]
        BY <2>2 DEF Since
      <4> QED
        BY <1>d, <2>0, <3>1, <4>1
    <3> QED
      BY <2>1, <2>2, <3>1, StoreCases
  <2>3. \/ cache' = cache
        \/ cache' = [cache EXCEPT !["apiKeyValidation"][req[t].key] =
                       Store("apiKeyValidation", req[t].key, "none", revoked[req[t].key] = 0)]
    BY <1>2, Zenon DEF ApiKeyValidation
  <2>4. \/ cache'[e][k] = cache[e][k]
        \/ /\ e = "apiKeyValidation" /\ k = req[t].key
           /\ cache'[e][k] = Store(e, k, "none", revoked[k] = 0)
    BY <1>0, <2>3 DEF TypeOK
  <2> QED
    BY <2>1, <2>2, <2>4
<1>3. ASSUME NEW t \in Threads, SubscriptionInfo(t) PROVE EntryInv(e, k)'
  <2> DEFINE fresh == req[t].val = "good" /\ broken[req[t].key] = 0
  <2>0. Since(e, k)' = Since(e, k) /\ now' = now
    BY <1>3, <1>f DEF SubscriptionInfo
  <2>1. CASE cache'[e][k] = cache[e][k]
    BY <1>a, <1>b, <2>0, <2>1
  <2>2. CASE /\ e = "subscription-info" /\ k = req[t].key
             /\ cache'[e][k] = Store(e, k, req[t].val, fresh)
    <3>1. CASE cache'[e][k] = [ok |-> fresh, until |-> now + TTL(e)]
      <4>1. Since(e, k) = broken[k]
        BY <2>2 DEF Since
      <4>2. fresh => Since(e, k) = 0
        BY <2>2, <4>1
      <4> HIDE DEF fresh
      <4> QED
        BY <1>d, <2>0, <3>1, <4>2
    <3> QED
      BY <2>1, <2>2, <3>1, StoreCases
  <2>3. \/ cache' = cache
        \/ cache' = [cache EXCEPT !["subscription-info"][req[t].key] =
                       Store("subscription-info", req[t].key, req[t].val, fresh)]
    BY <1>3, Zenon DEF SubscriptionInfo
  <2> HIDE DEF fresh
  <2>4. \/ cache'[e][k] = cache[e][k]
        \/ /\ e = "subscription-info" /\ k = req[t].key
           /\ cache'[e][k] = Store(e, k, req[t].val, fresh)
    BY <1>0, <2>3 DEF TypeOK
  <2> QED
    BY <2>1, <2>2, <2>4
<1>4. ASSUME NEW t \in Threads, NEW ran \in SUBSET Authz, Authorize(t, ran) PROVE EntryInv(e, k)'
  <2> DEFINE r == req[t]
  <2>0. Since(e, k)' = Since(e, k) /\ now' = now
    BY <1>4, <1>f DEF Authorize
  <2>1. CASE cache'[e][k] = cache[e][k]
    BY <1>a, <1>b, <2>0, <2>1
  <2>2. CASE /\ e \in ran /\ k = r.key
             /\ cache'[e][k] = [ok |-> Rego(e, r), until |-> now + TTL(e)]
    <3>1. r.pc = "authorize" /\ r.began = now
      BY <1>4 DEF Authorize, IInv, ReqInv, InFlight
    <3>2. ASSUME Rego(e, r), Since(e, k) # 0 PROVE now + TTL(e) <= Since(e, k) + Window(e)
      <4>1. CASE e = "auth-valid"
        BY <3>2, <4>1 DEF Since
      <4>2. CASE e = "require-group-membership"
        BY <2>2, <3>2, <4>2 DEF Since, Rego, RegoGroupMembership
      <4>3. CASE e = "subscription-valid"
        <5>1. r.info /\ Since(e, k) = broken[k]
          BY <3>2, <4>3 DEF Rego, RegoSubscriptionValid, Since
        <5>2. Within(t, broken[k], MetadataCacheTTL)
          BY <2>2, <3>1, <5>1 DEF IInv, ReqInv
        <5>3. now <= broken[k] \/ now < broken[k] + MetadataCacheTTL
          BY <3>1, <3>2, <5>1, <5>2 DEF Within
        <5>4. TTL(e) = authzCacheTTL /\ Window(e) = MetadataCacheTTL + authzCacheTTL
          BY <4>3 DEF TTL, Window
        <5> QED
          BY <1>a, <5>1, <5>3, <5>4, TTLFacts
      <4> QED
        BY <2>2, <4>1, <4>2, <4>3 DEF Authz
    <3> QED
      BY <1>d, <2>0, <2>2, <3>2
  <2>3. \/ cache'[e][k] = cache[e][k]
        \/ e \in ran /\ k = r.key /\ cache'[e][k] = Store(e, r.key, r.val, Rego(e, r))
    BY <1>0, <1>4 DEF Authorize, TypeOK
  <2> QED
    BY <2>1, <2>2, <2>3, StoreCases
<1>5. ASSUME NEW j \in Keys, RevokeKey(j) \/ BreakSubscription(j) \/ ChangePolicy(j)
      PROVE  EntryInv(e, k)'
  <2>1. Since(e, k)' \in {0, now, Since(e, k)}
    BY <1>0, <1>5 DEF Since, TypeOK, RevokeKey, BreakSubscription, ChangePolicy
  <2> QED
    BY <1>5, <1>c, <2>1 DEF RevokeKey, BreakSubscription, ChangePolicy
<1>6. CASE AuthorinoRestart
  BY <1>6, <1>e DEF AuthorinoRestart
<1>7. CASE Tick
  <2>1. cache'[e][k] = cache[e][k] \/ cache'[e][k] = NoEntry
    BY <1>7 DEF Tick
  <2>2. Since(e, k)' = Since(e, k) /\ now <= now'
    BY <1>7, <1>a, <1>f DEF Tick
  <2> QED
    BY <1>b, <1>e, <2>1, <2>2
<1>8. CASE UNCHANGED vars
  BY <1>8, <1>a, <1>b, <1>f DEF vars
<1> QED
  BY <1>1, <1>2, <1>3, <1>4, <1>5, <1>6, <1>7, <1>8 DEF Next

LEMMA ReqStep == IInv /\ [Next]_vars => \A t \in Threads : ReqInv(t)'
<1> SUFFICES ASSUME IInv, [Next]_vars, NEW t \in Threads PROVE ReqInv(t)'
  OBVIOUS
<1> USE TTLFacts
<1> DEFINE k == req[t].key
<1>0. TypeOK /\ TypeOK' /\ ReqInv(t)
  BY TypeStep DEF IInv
<1>a. /\ k \in Keys /\ now \in Nat /\ now' \in Nat /\ req[t].began \in Nat
      /\ revoked[k] \in Nat /\ broken[k] \in Nat /\ barred[k] \in Nat
  BY <1>0 DEF TypeOK, Request
\* The request stays where it is; events may happen, at this instant.
<1>b. ASSUME req'[t] = req[t], now' = now,
             revoked'[k] \in {revoked[k], 0, now},
             broken'[k] \in {broken[k], 0, now},
             barred'[k] \in {barred[k], 0, now}
      PROVE  ReqInv(t)'
  BY <1>0, <1>a, <1>b DEF ReqInv, InFlight, Within
<1>c. ASSUME req'[t] = Idle PROVE ReqInv(t)'
  BY <1>a, <1>c, IdleType DEF ReqInv, InFlight
<1>d. ASSUME NEW u \in Threads \ {t},
             \/ \E j \in Keys : Arrive(u, j)
             \/ ApiKeyValidation(u) \/ SubscriptionInfo(u)
             \/ \E ran \in SUBSET Authz : Authorize(u, ran)
      PROVE  ReqInv(t)'
  <2>1. req'[t] = req[t] /\ UNCHANGED <<now, revoked, broken, barred>>
    BY <1>0, <1>d DEF TypeOK, Arrive, ApiKeyValidation, SubscriptionInfo, Authorize
  <2> QED
    BY <1>b, <2>1
<1>1. ASSUME NEW j \in Keys, Arrive(t, j) PROVE ReqInv(t)'
  <2>1. req'[t] = [Idle EXCEPT !.pc = "validate", !.key = j, !.began = now]
    BY <1>0, <1>1 DEF Arrive, TypeOK
  <2>2. req'[t].pc = "validate" /\ req'[t].began = now /\ now' = now
    BY <1>1, <2>1, IdleType DEF Request, Arrive
  <2> QED
    BY <1>a, <2>2 DEF ReqInv, InFlight
<1>2. CASE ApiKeyValidation(t)
  <2> DEFINE e == "apiKeyValidation"
             ok == Eval(e, k, "none", revoked[k] = 0)
  <2>1. /\ req[t].pc = "validate" /\ UNCHANGED <<now, revoked, broken, barred>>
        /\ req'[t].pc = "select" /\ req'[t].began = req[t].began /\ req'[t].key = k
        /\ req'[t].val = "good" => ok
    BY <1>0, <1>2 DEF ApiKeyValidation, TypeOK, Request
  <2>2. req[t].began = now
    BY <1>0, <2>1 DEF ReqInv, InFlight
  <2>3. ASSUME ok, revoked[k] # 0 PROVE now < revoked[k] + MetadataCacheTTL
    <3>1. now < cache[e][k].until /\ cache[e][k].ok
      BY <2>3 DEF Eval, Live
    <3>2. e \in Evaluators
      BY DEF Evaluators
    <3>3. Since(e, k) = revoked[k] /\ Window(e) = MetadataCacheTTL
      BY DEF Since, Window
    <3>4. EntryInv(e, k)
      BY <1>a, <3>2, Zenon DEF IInv, CacheInv
    <3>5. cache[e][k].until <= revoked[k] + MetadataCacheTTL
      BY <2>3, <3>1, <3>3, <3>4 DEF EntryInv
    <3>6. cache[e][k].until \in Nat
      BY <1>0, <1>a, <3>2 DEF TypeOK, Entry
    <3> QED
      BY <1>a, <3>1, <3>5, <3>6
  <2> HIDE DEF ok
  <2> QED
    BY <1>a, <2>1, <2>2, <2>3 DEF ReqInv, InFlight, Within
<1>3. CASE SubscriptionInfo(t)
  <2> DEFINE e == "subscription-info"
             fresh == req[t].val = "good" /\ broken[k] = 0
             ok == Eval(e, k, req[t].val, fresh)
  <2>1. /\ req[t].pc = "select" /\ UNCHANGED <<now, revoked, broken, barred>>
        /\ req'[t].pc = "authorize" /\ req'[t].began = req[t].began /\ req'[t].key = k
        /\ req'[t].val = req[t].val
        /\ req'[t].info => ok
    BY <1>0, <1>3 DEF SubscriptionInfo, TypeOK, Request
  <2>2. req[t].began = now
    BY <1>0, <2>1 DEF ReqInv, InFlight
  <2>3. ASSUME ok, broken[k] # 0 PROVE now < broken[k] + MetadataCacheTTL
    <3>1. now < cache[e][k].until /\ cache[e][k].ok
      BY <2>3 DEF Eval, Live
    <3>2. e \in Evaluators
      BY DEF Evaluators
    <3>3. Since(e, k) = broken[k] /\ Window(e) = MetadataCacheTTL
      BY DEF Since, Window
    <3>4. EntryInv(e, k)
      BY <1>a, <3>2, Zenon DEF IInv, CacheInv
    <3>5. cache[e][k].until <= broken[k] + MetadataCacheTTL
      BY <2>3, <3>1, <3>3, <3>4 DEF EntryInv
    <3>6. cache[e][k].until \in Nat
      BY <1>0, <1>a, <3>2 DEF TypeOK, Entry
    <3> QED
      BY <1>a, <3>1, <3>5, <3>6
  <2> HIDE DEF ok
  <2> QED
    BY <1>0, <1>a, <2>1, <2>2, <2>3 DEF ReqInv, InFlight, Within
<1>4. ASSUME NEW ran \in SUBSET Authz, Authorize(t, ran) PROVE ReqInv(t)'
  <2> DEFINE r == req[t]
             Answer(e) == Eval(e, r.key, r.val, Rego(e, r))
  <2>0. /\ r.pc = "authorize" /\ r.began = now
        /\ UNCHANGED <<now, revoked, broken, barred>>
    BY <1>0, <1>4 DEF Authorize, ReqInv, InFlight
  <2>1. CASE req'[t] = Idle
    BY <1>c, <2>1
  <2>2. CASE /\ \A e \in Authz : Answer(e)
             /\ req'[t] = [r EXCEPT !.pc = "admitted"]
    <3>1. /\ req'[t].pc = "admitted" /\ req'[t].key = k /\ req'[t].began = now
      BY <1>0, <2>0, <2>2 DEF TypeOK, Request
    <3>2. \A e \in Authz : Answer(e) => Rego(e, r) \/ (Live(e, k, r.val) /\ cache[e][k].ok)
      BY DEF Eval
    <3>3. ASSUME NEW e \in Authz, Live(e, k, r.val), cache[e][k].ok, Since(e, k) # 0
          PROVE  now < Since(e, k) + Window(e)
      <4>1. e \in Evaluators
        BY DEF Evaluators, Authz
      <4>2. EntryInv(e, k) /\ cache[e][k].until \in Nat /\ Since(e, k) \in Nat
        BY <1>0, <1>a, <4>1 DEF IInv, CacheInv, TypeOK, Entry, Since
      <4> QED
        BY <1>a, <3>3, <4>1, <4>2 DEF EntryInv, Live
    <3>4. r.val = "good" /\ (barred[k] # 0 => now < barred[k] + authzCacheTTL)
      <4> DEFINE e == "require-group-membership"
      <4>1. e \in Authz /\ Since(e, k) = barred[k] /\ Window(e) = authzCacheTTL
        BY DEF Authz, Since, Window
      <4>2. Rego(e, r) => r.val = "good" /\ barred[k] = 0
        BY DEF Rego, RegoGroupMembership
      <4>3. Live(e, k, r.val) => r.val = "good"
        BY DEF Live, HasCacheKey
      <4>4. Rego(e, r) \/ (Live(e, k, r.val) /\ cache[e][k].ok)
        BY <2>2, <3>2, <4>1
      <4> QED
        BY <3>3, <4>1, <4>2, <4>3, <4>4
    <3>5. broken[k] # 0 => now <= broken[k] \/ now < broken[k] + MetadataCacheTTL + authzCacheTTL
      <4> DEFINE e == "subscription-valid"
      <4>1. /\ e \in Authz /\ Since(e, k) = broken[k]
            /\ Window(e) = MetadataCacheTTL + authzCacheTTL
        BY DEF Authz, Since, Window
      <4>2. Rego(e, r) => r.info
        BY DEF Rego, RegoSubscriptionValid
      <4>3. r.info => Within(t, broken[k], MetadataCacheTTL)
        BY <1>0, <2>0 DEF ReqInv
      <4>4. Rego(e, r) \/ (Live(e, k, r.val) /\ cache[e][k].ok)
        BY <2>2, <3>2, <4>1
      <4> QED
        BY <1>a, <2>0, <3>3, <4>1, <4>2, <4>3, <4>4 DEF Within
    <3>6. revoked[k] # 0 => now <= revoked[k] \/ now < revoked[k] + MetadataCacheTTL
      BY <1>0, <2>0, <3>4 DEF ReqInv, Within
    <3> QED
      BY <1>a, <2>0, <3>1, <3>4, <3>5, <3>6 DEF ReqInv, InFlight, Within
  <2>3. ASSUME \A e \in ran : Answer(e) PROVE ran = Authz
    BY <1>4, <2>3 DEF Authorize
  <2>4. req'[t] = IF \A e \in ran : Answer(e) THEN [r EXCEPT !.pc = "admitted"] ELSE Idle
    BY <1>0, <1>4 DEF Authorize, TypeOK
  <2> QED
    BY <2>1, <2>2, <2>3, <2>4
<1>5. ASSUME NEW j \in Keys, RevokeKey(j) \/ BreakSubscription(j) \/ ChangePolicy(j) PROVE ReqInv(t)'
  BY <1>0, <1>5, <1>a, <1>b DEF TypeOK, RevokeKey, BreakSubscription, ChangePolicy
<1>6. CASE AuthorinoRestart
  BY <1>6, <1>c DEF AuthorinoRestart
<1>7. CASE Tick
  <2>1. ~InFlight(t) /\ now' = now + 1 /\ UNCHANGED <<revoked, broken, barred, req>>
    BY <1>7 DEF Tick, InFlight
  <2> QED
    BY <1>0, <1>a, <2>1 DEF ReqInv, InFlight, Within
<1>8. CASE UNCHANGED vars
  BY <1>8, <1>b DEF vars
<1> QED
  BY <1>d, <1>1, <1>2, <1>3, <1>4, <1>5, <1>6, <1>7, <1>8 DEF Next
-----------------------------------------------------------------------------
(* The theorems. *)

\* CacheInv and ReqInv hold from the first state on.
THEOREM Inductive == Spec => []IInv
<1>1. Init => IInv
  <2> SUFFICES ASSUME Init PROVE IInv
    OBVIOUS
  <2>1. TypeOK
    BY IdleType DEF Init, TypeOK, NoEntry, Entry
  <2>2. CacheInv
    <3>1. \A e \in Evaluators, k \in Keys : cache[e][k] = NoEntry
      BY DEF Init
    <3>2. now = 1
      BY DEF Init
    <3> QED
      BY <3>1, <3>2, TTLFacts DEF CacheInv, EntryInv, NoEntry
  <2>3. \A t \in Threads : ReqInv(t)
    BY IdleType DEF Init, ReqInv, InFlight
  <2> QED
    BY <2>1, <2>2, <2>3 DEF IInv
<1>2. IInv /\ [Next]_vars => IInv'
  BY TypeStep, CacheStep, ReqStep DEF IInv
<1> QED
  BY <1>1, <1>2, PTL DEF Spec

\* Type correctness: in particular no cache entry ends before time 0, which
\* needs authzCacheTTL to be clamped.
THEOREM TypeCorrect == Spec => []TypeOK
<1>1. IInv => TypeOK
  BY DEF IInv
<1> QED
  BY <1>1, Inductive, PTL

\* A key that maas-api refuses since time r is admitted only by requests that
\* came before r + METADATA_CACHE_TTL, whatever the five caches hold.
THEOREM RevocationBounded == Spec => []RevocationWindow
<1>1. IInv => RevocationWindow
  BY DEF IInv, ReqInv, RevocationWindow, Admitted
<1> QED
  BY <1>1, Inductive, PTL

\* A subscription broken for both TTLs admits nothing.
THEOREM SubscriptionBounded == Spec => []SubscriptionWindow
<1>1. IInv => SubscriptionWindow
  BY TTLFacts DEF IInv, ReqInv, SubscriptionWindow, Admitted
<1> QED
  BY <1>1, Inductive, PTL

\* A user no MaaSAuthPolicy allows is admitted for at most the smaller TTL.
THEOREM PolicyBounded == Spec => []PolicyWindow
<1>1. IInv => PolicyWindow
  BY TTLFacts DEF IInv, ReqInv, PolicyWindow, Admitted
<1> QED
  BY <1>1, Inductive, PTL
=============================================================================
