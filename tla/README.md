# TLA+ models of Models-as-a-Service

MaaS puts an LLM gateway (Gateway API, Kuadrant, Authorino, Limitador) in front
of models served by KServe or by outside providers. Two Go programs make it up:

* **maas-api** – REST service: mints, validates and revokes API keys, selects
  the subscription a request is billed to, lists models.
* **maas-controller** – Kubernetes controllers that turn `MaaSSubscription`,
  `MaaSAuthPolicy`, `MaaSModelRef`, `ExternalModel` and `Tenant` objects into
  Kuadrant policies, routes and deployments.

This directory holds the models, the TLC instances and the TLAPS proofs.
Times, states and line numbers refer to the commit beside it.

## 1. Inventory

| Component | State | Operations | Interacts with | What is hard |
|---|---|---|---|---|
| API keys (`maas-api/internal/api_keys`) | table `api_keys` | create, validate, revoke, bulk revoke, last-used, cleanup, search | Authorino calls validate; a CronJob calls cleanup; creation calls the selector | statements of concurrent requests interleave; status shown and status stored differ; goroutines finish in any order; cleanup races requests |
| Subscription selection (`internal/subscription`) | informer cache of MaaSSubscriptions | `Select`, `SelectHighestPriority`, listings | called by key creation, by Authorino and by clients | lister order; stale status after an edit; names that are not qualified |
| Gateway decision (generated AuthPolicy) | Authorino's five caches | two metadata calls, three authorization rules | maas-api, Authorino | caches with different keys and TTLs feeding each other; failed calls |
| MaaSSubscription controller | one TokenRateLimitPolicy (TRLP) per model, status, finalizer | reconcile, delete, status, watches | API server, Kuadrant, MaaSModelRef controller | a shared object rebuilt from lagging caches; conflicts; which events wake whom |
| MaaSAuthPolicy controller | one AuthPolicy per model, status, finalizer | reconcile, delete, status | same | deletes the shared object and relies on an event to rebuild it |
| MaaSModelRef controller | phase, endpoint, finalizer | reconcile, delete | both policy controllers, KServe, ExternalModel reconciler | route and service come in any order; lost status writes; policies generated while they are deleted |
| ExternalModel reconciler | Service, ServiceEntry, DestinationRule, HTTPRoute | create, update, delete | Istio, gateway, garbage collector | one object after the other; no finalizer and no watch on what it keeps |
| Model listing (`internal/models`, `handlers/models.go`) | none | concurrent access probes with retries | the gateway itself | deadline against retries, fail closed; grants change meanwhile |
| Tenant controller and platform pipeline | Tenant phase, finalizer, params.env, the deployed objects | gates, render, apply, tear down | cluster objects of many kinds | timers instead of events; children that take time to go; cached lists |
| Subscription namespace (`cmd/manager/main.go`) | the namespace | check, wait, create; create the Tenant | operator, API server | races for the namespace; runs before the controllers it depends on |
| Start-up, configuration, tokens, logging | none | – | – | – |

`PROJECT.json` lists every component with its status, and under `hazards` each
of the difficulties above at its line with the properties aimed at it.

## 2. Modules

| Module | Models | Composes / implements |
|---|---|---|
| `KeyLifecycle` | the promise: a key is minted once and its stored status moves one way | – |
| `ApiKeys` | table, requests, goroutines, cleanup, restarts | implements `KeyLifecycle` |
| `ApiKeys_proofs` | theorems on `ApiKeys` | – |
| `SubscriptionSelector` | the selector over its cache | – |
| `SubscriptionSelector_proofs` | theorems on `SubscriptionSelector` | – |
| `GatewayAuth` | one model's AuthPolicy as Authorino runs it | takes validate and select as changing answers |
| `GatewayAuth_proofs` | theorems on `GatewayAuth` | – |
| `SubscriptionController` | the MaaSSubscription reconciler | contains the MaaSModelRef controller's deletion as environment |
| `SubscriptionController_proofs` | theorems on `SubscriptionController` | – |
| `AuthPolicyController` | the MaaSAuthPolicy reconciler | the same environment |
| `AuthPolicyController_proofs` | theorems on `AuthPolicyController` | – |
| `ModelListing` | GET /v1/models | takes the selector's answer as a set |
| `ModelListing_proofs` | theorems on `ModelListing` | – |
| `ExternalModel` | the ExternalModel reconciler | – |
| `ModelRefController` | the MaaSModelRef reconciler | composes `ExternalModel`, whose HTTPRoute it reads |
| `ModelRefController_proofs` | theorems on `ModelRefController` and `ExternalModel` | – |
| `NamespaceGuard` | the guard of the subscription namespace | – |
| `TenantController` | the Tenant reconciler and its pipeline | composes `NamespaceGuard`, in whose namespace the Tenant lives |
| `TenantController_proofs` | theorems on `TenantController` | – |
| `MC*` | constants for TLC | – |

### ApiKeys

`row[id]` is the row, `stored` the ids that have one, `minted` the ids ever
drawn. `req[t]` is the request a thread serves: `CreateAPIKey` then `AddKey`;
`ValidateAPIKey` (the SELECT of `GetByHash`) then `RejectKey` (with its
auto-expiry UPDATE) or `AcceptKey`; `RevokeAPIKey` (read and authorize), `Revoke`
(UPDATE), `RereadRevoked`. Each is one SQL statement, so everything interleaves.
`touch` holds the `UpdateLastUsed` goroutines; `BulkRevokeAPIKeys`,
`CleanupExpiredEphemeral`, `Restart` and the clock complete it. `revokedBy`,
`began` and `stale` are history. An INSERT or UPDATE may fail, an UPDATE also
after it committed. maas-api and PostgreSQL share one clock, and a time is
compared the way the code does (`<` in SQL, `After` in Go).

Left out: the text and hash of keys (holding a key is knowing its id),
names, pagination and filters of Search (reads; the status they show is
`EffectiveStatus`), the selection made at creation (any subscription).

### SubscriptionSelector

`subs` is the informer's copy. Its changes are the actions: an admin's `Apply`
(which keeps the status, as the API server does), the controller's status
writes, deletion in two steps. The answers are operators, and the invariants
quantify over all callers and requests in every reachable cache. Models are
namespace/name records, because the code sometimes uses only the name.

### GatewayAuth

A request goes through `ApiKeyValidation`, `SubscriptionInfo` and `Authorize`;
each evaluator answers from a live cache entry or evaluates and stores.
`HasCacheKey` says when an evaluator has a key: three of them are cached under
the user id that validation returned and have none without it. Authorization
rules run concurrently and the first refusal cancels the others. Authorino is
external, modelled from the rules the controller generates. `revoked`, `broken`
and `barred` are the answers of the world, with the time since when. A decision
takes less than one clock unit. The AuthPolicy is one that allows somebody: without
allowed groups and users it has no membership rule (`maasauthpolicy_controller.go:661`),
which is the subject of `AuthPolicyController`. Cluster and OIDC tokens are not
modelled.

### SubscriptionController

`subs`, `model` and `trlp` are the API server's objects; `cache` and
`modelCache` the informers' copies, refreshed by `WatchSubscription` and
`WatchModel`, which also enqueue as the predicates and mappers do. TRLPs are
unstructured and therefore read live (no unstructured caching is configured in
`cmd/manager/main.go`); their watch is `trlpEvents`/`WatchTRLP`. There is one
worker (`MaxConcurrentReconciles` is the default). Its steps are the API calls:
`Reconcile`, `AddFinalizer`, `reconcileTRLPForModel` per model,
`cleanupStaleTRLPs`, `CheckHealth` with the status write, `RemoveFinalizer`.
A write with an old version conflicts: finalizer writes requeue, status writes
are lost. What the worker reads from a cache may be old already, so reading and
writing one policy is one step. Limits are a number per model: 0 no ref,
negative invalid; what an admin writes into a policy (`EditTRLP`) is the mark
`edited`, which the next update of the policy takes away. `unanswered` is history: the
models of whose policy an event was mapped to a subscription and which nobody has
reconciled since. Every model has a namespace of its own. The periodic resync of
the informers (about ten hours) is not modelled: properties say what holds
without waiting for it.

### AuthPolicyController

The same shape with one difference that matters: the AuthPolicy of a model has no
owner and is deleted, not rebuilt, when one of its MaaSAuthPolicies is deleted or
drops the model; the event of that deletion (`WatchAuthPolicy`) wakes one of the
others. `pol`, `model`, `tenant` and `auth` are the API server's objects. A
reconcile reads the Tenant (`Start`; `ReadTenantFails` is what a failed read does),
adds the finalizer, aggregates the subjects per model, cleans up, and writes the
status; a deletion goes through `DeleteForRef`, `cleanupStaleAuthPolicies`,
`RemoveFinalizer`. An unsafe subject name fails the reconcile of every policy of the
model (`InvalidSubject`). Users and groups are both subjects. `Admits` is whom an
AuthPolicy admits: its subjects, or everybody if it has none, because then the rule
`require-group-membership` is not written. All MaaSAuthPolicies
live in the one namespace the manager caches, so their bare names identify them.
`ghosts` (the policies deleted before they had their finalizer) and `misread` (a
read of the Tenant failed) are history.

### ModelListing

One request. `Refuse`, `ListFails` or `ListLLMs` (the subscriptions and a snapshot
of the MaaSModelRefs) begin it; `StartCheck` takes the next subscription with a
deadline of its own; `TakeUnprobed` and `Launch` are the loop of
`FilterModelsByAccess` with its limit of goroutines; `ProbeAnswered`, `Retry` and
`DeadlineExceeded` one goroutine; `aggregateModelsFromSubscriptions` merges;
`SendReply` ends it. Policies at the gateway and MaaSModelRefs change at any time,
and a backend may never answer. A body is null, empty or a set of ids, which is
all the code tells apart. `answers` is history: the granting answers as they came,
with code, body, time and subscription; `Lists` says what one of them lists. Two models never share a name here (the code keys
entries by id, URL and owner).

### ExternalModel and ModelRefController

`ext` and `obj` are the ExternalModel and its four objects at the API server;
Service and HTTPRoute are read from caches, the unstructured ServiceEntry and
DestinationRule live. `Apply` is one create, update or delete of `Order`; a write
based on an old version fails and the request goes back to the queue. The garbage
collector (`CollectObject`, `CollectExternal`) works with the owners' uids, so an
ExternalModel created again under its name competes with it. The spec is a
version number.

`ModelRefController` adds one MaaSModelRef of either kind with the caches of five
kinds of objects, a worker whose steps are the writes, and the watches with their
predicates. `Outcome` is what Reconcile makes of the backend. `GeneratePolicies`
stands for both policy controllers, which may not know of a deletion yet: such a
policy is `late`, and the deletion of the MaaSModelRef does not promise to find
it. `stale` is history: the last status write was based on an old copy or failed,
which the code does not repair.

### NamespaceGuard and TenantController

`guard` is a call of `ensureSubscriptionNamespaceWithClient`, one step per call to
the API server, made by `main` before the manager runs (`mgr = "starting"`) and
then by the monitor. The Tenant lives in that namespace and its finalizer holds up
the namespace's termination. The worker of the Tenant controller adds the
finalizer, parks an idle Tenant, tears down and releases, or checks, runs the
pipeline, applies and reports. What is deployed falls into three sorts, each with one
object: the Deployment, which a teardown lists through a cache; `policy`, the
AuthPolicy gateway-default-auth of each gateway, listed live, which may take time to
go; and `deny`, the TokenRateLimitPolicy gateway-default-deny, which the pipeline
applies and no teardown lists, like the CronJob and the Perses objects. `up` is what
reads of gateways and prerequisites find (`Monitoring` stands for both prerequisites
that only cause a warning), `params` whether params.env names a maximum of expiration
days, `timer` a RequeueAfter. `late` and `loose` are history: the last teardown began
before the cache showed the Deployment; the finalizer went without a complete
teardown, from an Unmanaged or edited Tenant or after a late teardown.

## 3. Runs

Passing runs:

| Run | Checks | Shows |
|---|---|---|
| `keys` | `TypeOK`, `ValidationSound`, `RevokeReplyShowsRevoked`, `StatusAgreesWithValidation`, `LifetimeBounded`, `GraceProtectsAccepted`, `OneWayLifecycle`, `EphemeralKeysGo` | the key store under two concurrent requests, goroutines, cleanup and restarts; ephemeral keys are deleted in the end, marked expired or not |
| `gateway` | `TypeOK`, `RevocationWindow`, `SubscriptionWindow`, `PolicyWindow` | how long a withdrawn right still works |
| `selector` | `TypeOK`, `InferableIsListed`, `DegradedNeedsOwnRateLimit`, `UnnamedAgainstNamed` | one answer; listings, automatic and named selection agree; where default selection differs from naming; a limited model with a unique name needs its own rate-limit policy |
| `controller` | `TypeOK`, `LimitsEnforced`, `DeletionCompletes` | the controller converges, also after policies were deleted or edited by hand, unless the one event of a policy went to a subscription that did not reconcile the model; every deletion terminates |
| `controller_deletion` | `LimitsEnforced`, `DeletionIsClean` | the same with two models, refs that move and models that are deleted; a deleted subscription leaves nothing behind |
| `access` | `TypeOK`, `GrantsExact`, `OidcFollowsTenant`, `DeletionIsClean` | an AuthPolicy that exists admits exactly those who are granted access, unless it was built from a policy that went without its finalizer (`access_ghost`) or from none (`access_open`); it follows the Tenant and names no deleted policy |
| `listing` | `TypeOK`, `ListingExact`, `GrantsAreFresh`, `EveryRequestAnswered` | a listing shows what the answers to probes list, under the right subscriptions, no older than one deadline per subscription, and always comes |
| `models` | `TypeOK`, `ExternalConverges`, `BackendBeforeRoute`, `StatusConverges`, `DeletionIsClean`, `DeletionCompletes` | the objects of an ExternalModel and the status of a MaaSModelRef follow what they are made from; no route before its backend; deletion is complete and terminates |
| `platform` | `TypeOK`, `TeardownBeforeRelease`, `PlatformConverges`, `NamespaceReturns`, `StartWaitsForever` | teardown of what is listed before the Tenant goes, a platform that follows the Tenant, a namespace that comes back, and the one case in which it does not |

Runs that TLC refutes, each a disagreement with a line of the repository quoted
in `findings`:

| Run | Property | What happens |
|---|---|---|
| `access_ghost` | `NoStaleSubjects` | a policy aggregated by the reconcile of another and deleted before its own first reconcile has no finalizer: its subjects keep their access until another event |
| `access_open` | `UnconfiguredDenied` | a reconcile with an old copy of a policy writes an AuthPolicy for a model that the policy has dropped; it is built from nobody, so it has no membership rule, overrides gateway-default-auth and admits everybody with a key and a subscription; as it names no policy, no clean-up finds it |
| `controller_edits` | `ManualEditsOverwritten` | an event of a policy is mapped to one subscription; when that one goes before its first reconcile, nobody overwrites a manual edit |

### Where the code and its documents disagree

Besides the three runs above, these properties of passing runs state what the code
does where a document or comment promises more. Each is a finding, and TLC refutes
the promise on the instance of the run.

| Property | The code | The promise |
|---|---|---|
| `EphemeralKeysGo` | the cleanup deletes revoked ephemeral keys too (`store_postgres.go:478`) | a revoked key "remains visible in API key lists for audit purposes" (`openapi3.yaml:497`) |
| `SubscriptionWindow` | a cached `subscription-valid` outlives the metadata it was computed from: the window is both TTLs (`maasauthpolicy_controller.go:646`) | "Authorization cache entries must not outlive their dependent metadata cache entries" (line 91); "Cache TTL represents the maximum staleness window" (`authorino-caching.md:211`) |
| `UnnamedAgainstNamed` | a key without a named subscription may be bound to a Failed or unreconciled one (`selector.go:205`) | "block Failed/unreconciled" (`selector.go:497`) |
| `ListingExact` | a 2xx answer with null data lists nothing (`discovery.go:150`) | "2xx or 405 → include" (`discovery.go:84`, `model-listing-flow.md:26`) |
| `GrantsAreFresh` | one timeout per subscription (`handlers/models.go:274`) | AccessCheckTimeoutSeconds "bounds the total duration of model access validation" (`config.go:49`) |
| `TeardownBeforeRelease` | gateway-default-deny, the CronJob and the Perses objects are never torn down (`tenant_finalize.go:48`), nor a Deployment that the cache does not show | "Removed tears down owned resources before dropping the finalizer" (`tenant_reconcile.go:229`) |
| `PlatformConverges` | a Tenant that was Unmanaged before it is Removed keeps its Deployment (`tenant_reconcile.go:236`) | the same |
| `PlatformConverges` | params.env keeps a maximum of days that the Tenant no longer sets, until the container restarts (`postrender.go:416`) | "if unset, the controller does not apply a cap" (`maas-setup.md:202`) |
| `StartWaitsForever` | a process that starts while the namespace is terminating waits for the finalizer that only its own Tenant controller would remove, exits and starts again (`main.go:423`) | "Handles the edge case where the namespace is in Terminating phase" (`main.go:77`) |

Other behaviour that the models have and that a reader may want to change, without a
property against it, is listed under `hazards` with a note (a shared policy that nobody
rebuilds, an invalid subscription that is Active, a model name that is not unique) or
here:

* a key shown as expired is still revoked, because its stored status is active
  (`store_postgres.go:446`);
* a status write of a MaaSSubscription that conflicts, with the worker's own last
  write or with the duplicate-priority scan, is lost until the next event
  (`maassubscription_controller.go:833`);
* a failed read of the Tenant counts as no OIDC until the event of the rewritten
  AuthPolicy (`maasauthpolicy_controller.go:134`);
* nobody watches the objects of an ExternalModel: one deleted by hand stays away
  (`externalmodel/reconciler.go:297`);
* a route that the gateway no longer accepts keeps the gateway name of the earlier
  status, so the model stays Ready (`providers_external.go:141`);
* the Tenant is Active for as long as the cache shows the Deployment of before the
  apply (`pipeline.go:120`).

### Bounds

* **ApiKeys**: one key (rows never interact; the table-wide statements act on
  each row alone), two threads (every race above is between two statements), an
  owner and an admin, clock units of 30 minutes with lifetimes 2 and 3 and grace
  1, so that a key expires, is in grace and is collected within the horizon of
  5. `Durations` has one value out of range on either side.
* **GatewayAuth**: one key (caches of different keys share nothing), two
  concurrent requests, metadata TTL 2 and authorization TTL 5, so that the cap
  matters and an entry lives across a tick; 5 ticks are enough to fill, age and
  expire both layers.
* **SubscriptionSelector**: every content of a cache of two subscriptions of
  one user and one group, two priorities and two lists of model refs: all ties
  and orders of priority and limit, edits that add or drop a model under an old
  status. Model names differ; for
  equal names `DegradedNeedsOwnRateLimit` claims nothing (a hazard in `PROJECT.json`).
* **SubscriptionController**: two subscriptions, one or two models, from every
  settled state, with `MaxDisturbances` edits, deletions, scans, route and model
  changes, deleted and edited policies, failures and restarts; `Kinds` says which
  kinds a run has: `controller` (951 thousand states) has one model whose subscriptions
  keep their refs and also checks liveness, `controller_deletion` (8 million) two
  models and moving refs. Two disturbances together reach every action;
  `controller_edits` needs three.
  Reconciles, events and cache refreshes are not bounded. The subscriptions are
  interchangeable where only safety is checked.
* **AuthPolicyController**: two policies, two models, a ref that moves between
  them, an unsafe subject, two disturbances of nine kinds; the properties also hold
  with three edits, deletions and Tenant changes. Three are enough for
  `access_ghost`, two (a deleted AuthPolicy and a ref that moves) for `access_open`.
* **ModelListing**: three models, one of them external, two subscriptions, one of
  them without refs (its check is not filtered), one slot for two probes, two
  attempts, a deadline of one unit, one change; with it a probe waits for a slot
  until its deadline, a retry is cut off, and a grant goes after it was seen.
* **ModelRefController**: two disturbances of seven kinds from every start with
  and without a backend; policies are generated for KServe models (`Governed`:
  their deletion does not depend on the kind). Two are enough to delete an
  ExternalModel and create it again, and to restart during a deletion.
* **TenantController**: two disturbances of seven kinds, from a fresh
  installation with or without the AuthConfig CRD, two gateways, the five
  attempts of the code. A deleted namespace and a restart, or two edits of the
  Tenant, are enough for every case in the table of disagreements.
* `CHECK_DEADLOCK FALSE` is set for the controllers, which are idle when nothing
  is disturbed any more, and for the listing, which ends with its reply; the
  platform, whose timers go on, never stops.

### Fairness

* `ApiKeys!FairSpec`: the clock moves and the cleanup CronJob, scheduled every
  15 minutes, runs. No client and no request is fair.
* `SubscriptionController!FairSpec`: the work queue is first in, first out, so a
  queued subscription is taken in the end although the worker is busy in between
  (strong fairness of `Reconcile(s)`); a reconcile goes on; watch events arrive;
  the garbage collector and the MaaSModelRef controller work. Kuadrant is not
  assumed to accept anything.
* `ModelListing!FairSpec`: the handler, its loop and its goroutines go on, and time
  passes. No backend is assumed to answer.
* `ModelRefController!FairSpec`: both workers take up requests and end reconciles,
  watch events arrive, the garbage collector works. The gateway is not assumed to
  accept the route, nor the policy controllers to do anything.
* `TenantController!FairSpec`: the guard's calls return, the worker works, timers
  fire, events arrive, `ensureDefaultTenant` ticks, and Kubernetes rolls out
  Deployments and completes deletions.

## 4. Proofs

TLAPS proves for all constants that satisfy the named assumptions, that is for any
number of keys, requests, subscriptions, policies and models, any TTLs and
deadlines, and any number of disturbances, every safety property that a passing
run checks, and two more (`OwnerOrAdmin`, `SelectionIsDeterministic`). The invariants below were checked by TLC on the small instances before
they were proved. Each module has one lemma per action and conjunct of its
inductive invariant `IInv`.

**ApiKeys_proofs** (`ConstantsAssumption`): `TypeCorrect`, `ValidationIsSound`,
`RevokeReply`, `StatusAgreement`, `Lifetimes`, `GraceProtects`, `OwnerOrAdmin` and
the refinement `ImplementsLifecycle`. `IInv` adds two parts to the types:

* `RowInv` – what a row and its history satisfy together: lifetimes counted from
  the insertion, revokers who were allowed, a revoker recorded only for a row
  that is revoked, no row without its id minted;
* `ReqInv` – what a request may rely on between its statements: the snapshot of a
  validation is a past state of its row, an expiry computed earlier is not later
  than the maximum counted from now, a revocation past its UPDATE finds a status
  that cannot change again. The last is what needs `AND status = 'active'` in the
  auto-expiry UPDATE.

`Evolves` says how one step may change a row; it is proved of every action once
and carries the requests' facts over the steps of others. The refinement follows
from it.

**GatewayAuth_proofs** (`TTLAssumption`): `TypeCorrect`, `RevocationBounded`,
`SubscriptionBounded` and `PolicyBounded`. A window cannot be proved from requests
alone: `CacheInv` bounds, for every entry that says yes, how long after the change
it can still be alive – for `subscription-valid` by both TTLs, because it may be
computed from a `subscription-info` entry at the end of its life – and `ReqInv`
carries the same bound for the metadata in flight. That revocation needs only the
metadata TTL rests on `HasCacheKey`: without a user id the later rules have no
cache key.

**SubscriptionSelector_proofs** (`SelectorAssumption`: names that are ordered, refs
in a sequence in which no model occurs twice, finitely many limits each):
`TypeCorrect`, `SelectionIsDeterministic`, `InferenceIsListed`,
`DegradedIsRateLimited`, `UnnamedSelection`. The invariant says little, that the
cache is finite and typed; the work is in the operators. `SortsBefore` is shown to
be a strict total order on the cached names, and `FirstExists` that a finite set
with such an order has a first element. It is proved by taking a least
counterexample (`WFMin` over the cardinality) and not by the induction rules, whose
operator parameter the provers cannot instantiate.

**SubscriptionController_proofs** (`ControllerAssumption`): `TypeCorrect`,
`CleanDeletion`, `LimitsAreEnforced`.

* `CleanDeletion`: a reconcile of another subscription could put a limit of the
  deleted one back between two steps. `CleanInv` says that what the deletion is done
  with stays clean *unless the removal of the finalizer will be refused*; `CopyInv`
  and `SubInv` (a deletion mark is never taken back, and the current version of a
  deleted object is the cached one) are why: whoever would put it back reads the
  same cache.
* `LimitsAreEnforced`, of `Spec` without further hypotheses: `DutyInv` says of every
  model and subscription that the policy has what the caches ask for (`InStep`), or
  that somebody still has to rebuild it: an event, a request, or the reconcile in
  progress. The code loses that duty in one way: an event of a policy wakes one
  subscription only, which may have dropped the model, or be gone, before it is
  reconciled. The history variable `unanswered` holds the models in that position and
  the property exempts them; `controller_edits` shows that the exemption is needed.
  `VersionInv` (a version has one spec) makes an event of a subscription count as a
  request.

**AuthPolicyController_proofs** (`AuthPolicyAssumption`): `TypeCorrect`,
`CleanDeletion`, `GrantsAreExact`, `OidcFollows`, of `Spec` alone. The shape is
the same, the duties are more: the AuthPolicy may lack a subject (`GrantedInv`), be
built from a policy that left (`FromInv`) or hold subjects that were taken away
(`SubjectsInv`) only while a request or the worker will rebuild or delete it, and a
reconcile that read an old Tenant is followed by one of every policy (`TenantInv`).
`GoneInv` says when a policy that is gone is still named. The first attempt at this
proof failed for a reason: an earlier `GrantsExact` exempted too little, and TLC
then found a counterexample with four disturbances, beyond the bounds of `access`.
The property now exempts the AuthPolicies built from a policy in `ghosts`, and those
built from no policy: an AuthPolicy without subjects admits everybody (`Admits`), and
`access_open` shows that such ones stay.

**ModelRefController_proofs** (`DisturbanceAssumption`): `TypeCorrect`,
`RouteHasBackend`, `ExternalModelConverges`, `CleanDeletion`. `OwnerInv` says that
only a reconcile that has seen the current ExternalModel makes objects for it and
that one of its predecessor has ended by then; with it `ProgressInv` (what this reconcile has made stays while it goes on)
gives the order of backend and route, and `ConvergeInv` (without a request, what was
applied is up to date) the convergence, although nothing watches the objects.
`RefInv` is the `CleanInv` of the MaaSModelRef's deletion.

**ModelListing_proofs** (`ListingAssumption`, with finitely many subscriptions):
`TypeCorrect`, `ListingIsExact`, `GrantsFresh`. `FoundInv` says what the finished
checks have collected, `OutInv` what the one in progress has, `TimeInv` that every
check begun has used up at most one timeout. `ListLemma` relates what `fetchModels`
returns for an answer to what `Lists`, which the property uses, says of it: the two are
defined independently.

**TenantController_proofs** (`GuardAssumption`, `GatewayAssumption`): `TypeCorrect`,
`TeardownComesFirst`, `StartupIsStuck`. `TornInv` says that what a teardown with
nothing pending has been through is gone and stays gone, because only the same worker
would apply it again; of the Deployment only if the cache showed it when the teardown
began (`late`), and of gateway-default-deny nothing. `StartupIsStuck` needs that no step
but the worker's removes the finalizer of an existing Tenant and that the guard does not
succeed while the namespace is terminating and visible.

**Only model-checked**: the liveness properties (`EphemeralKeysGo`,
`DeletionCompletes` of the two controllers, `EveryRequestAnswered`,
`StatusConverges`, `PlatformConverges`, `NamespaceReturns`): fairness and ENABLED
are outside the prover.

## 5. Not modelled, and the plan

In this order:

1. `SubscriptionController`: when a lost status write is repaired; the per-model
   statuses the selector reads; `scanForDuplicatePriority` as a process of its
   own; `validateTokenRateLimit` against a reference definition.
2. `AuthPolicyController`: that an edit takes effect in the end (liveness), and what
   an unsafe subject blocks; when the phase of a policy follows its AuthPolicy,
   whose events wake one policy only.
3. An invariant for the safety part of `StatusConverges` and `PlatformConverges`:
   what holds whenever nothing is pending, which the provers can reach.
4. Search and pagination of API keys against a reference definition.
5. A composition of `ApiKeys`, `SubscriptionSelector` and `GatewayAuth`: from
   revocation in the table to the last admitted request.
6. The gateway decision for cluster and OIDC tokens.

Left out for good: what is rendered into the manifests, token and JWT parsing, key
generation, database driver, certificates, configuration, logging, health checks,
generated code – stateless, pure I/O or text.
