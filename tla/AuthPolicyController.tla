------------------------ MODULE AuthPolicyController ------------------------
(***************************************************************************)
(* The MaaSAuthPolicy reconciler of maas-controller.  A MaaSAuthPolicy     *)
(* grants its subjects access to the models it refers to.  All policies of *)
(* a model are aggregated into one Kuadrant AuthPolicy, which the single   *)
(* worker rebuilds from the whole list whenever it reconciles one of them, *)
(* and deletes when one of them is deleted or drops the model; an event of *)
(* the AuthPolicy then has to wake one of the others.                      *)
(*                                                                         *)
(* As in SubscriptionController, MaaSAuthPolicies, models and routes are   *)
(* read from caches that lag behind; AuthPolicies and the Tenant are       *)
(* unstructured and read from the API server.  All MaaSAuthPolicies are in *)
(* one namespace, every model has a namespace of its own.                  *)
(***************************************************************************)
EXTENDS Integers, FiniteSets

TenantEvent == "tenant"

CONSTANTS
    Policies,           \* names of MaaSAuthPolicies
    Models,             \* MaaSModelRefs
    Subjects,           \* users and groups
    Unsafe,             \* subjects with a quote or backslash in their name
    Specs,              \* specs of MaaSAuthPolicies: [refs, subjects]
    Kinds,              \* the disturbances that happen, see Disturb
    MaxDisturbances     \* bound: how many of them

ASSUME AuthPolicyAssumption ==
    /\ Policies # {} /\ Unsafe \subseteq Subjects /\ TenantEvent \notin Models
    /\ Specs \subseteq [refs: (SUBSET Models) \ {{}}, subjects: (SUBSET Subjects) \ {{}}]
    /\ MaxDisturbances \in Nat

VARIABLES
    pol,            \* pol[p]: the MaaSAuthPolicy p at the API server
    cache,          \* cache[p]: the informer's copy of it
    model,          \* model[m]: the MaaSModelRef and its HTTPRoute
    modelCache,     \* modelCache[m]: the informers' copy of the two
    tenant,         \* whether the Tenant configures external OIDC
    auth,           \* auth[m]: the AuthPolicy generated for the model
    events,         \* models whose AuthPolicy changed, and TenantEvent
    queue,          \* policies waiting to be reconciled
    worker,         \* the reconcile in progress
    used,           \* disturbances so far; also the source of fresh versions
    ghosts,         \* history: policies that were deleted before their finalizer
    misread         \* history: a read of the Tenant has failed

objects == <<pol, model, tenant, auth>>
caches == <<cache, modelCache>>
history == <<ghosts, misread>>
vars == <<objects, caches, events, queue, worker, used, history>>
-----------------------------------------------------------------------------
(* Objects. *)

Phases == {"", "Active", "Degraded", "Failed"}

MaaSAuthPolicy == [exists: BOOLEAN, rev: Nat, refs: SUBSET Models, subjects: SUBSET Subjects,
                   deleting: BOOLEAN, fin: BOOLEAN, phase: Phases]

NoPolicy == [exists |-> FALSE, rev |-> 0, refs |-> {}, subjects |-> {},
             deleting |-> FALSE, fin |-> FALSE, phase |-> ""]

Model == [st: {"none", "live", "deleting", "cleaned"}, route: BOOLEAN]

\* from is the annotation with the contributing policies, ready the Accepted
\* and Enforced conditions.  opted records that an admin ever opted out.
AuthPolicy == [exists: BOOLEAN, subjects: SUBSET Subjects, from: SUBSET Policies,
               oidc: BOOLEAN, ready: BOOLEAN, managed: BOOLEAN, opted: BOOLEAN]

NoAuth == [exists |-> FALSE, subjects |-> {}, from |-> {}, oidc |-> FALSE,
           ready |-> FALSE, managed |-> TRUE, opted |-> FALSE]

\* Whom the AuthPolicy of m admits, of those with a valid key or token and a
\* subscription.  The rule require-group-membership is written only if there
\* is a subject to write into it: without one nobody is kept out.
Admits(m) == IF auth[m].subjects = {} THEN Subjects ELSE auth[m].subjects

\* Faulty: policies that are being deleted still contribute.
findAllWithDeleted(m) == {p \in Policies : cache[p].exists /\ m \in cache[p].refs}

\* Of the cached policies, without those being deleted.
findAllAuthPoliciesForModel(m) ==
    {p \in Policies : cache[p].exists /\ ~cache[p].deleting /\ m \in cache[p].refs}

isManaged(m) == auth[m].exists /\ auth[m].managed

\* Delete the AuthPolicies of ms that are there and not opted out.
deleteModelAuthPolicy(ms) ==
    /\ auth' = [m \in Models |-> IF m \in ms /\ isManaged(m) THEN NoAuth ELSE auth[m]]
    /\ events' = events \cup {m \in ms : isManaged(m)}
-----------------------------------------------------------------------------
(* The worker. *)

Worker == [pc: {"idle", "finalizer", "models", "delete", "status", "drop"}, p: Policies,
           obj: MaaSAuthPolicy, oidc: BOOLEAN, missing: SUBSET Models,
           todo: SUBSET Models, done: SUBSET Models]

Idle == [pc |-> "idle", p |-> CHOOSE p \in Policies : TRUE, obj |-> NoPolicy, oidc |-> FALSE,
         missing |-> {}, todo |-> {}, done |-> {}]

\* An error makes controller-runtime put the request back.
Requeue ==
    /\ queue' = queue \cup {worker.p}
    /\ worker' = Idle

\* The API server takes a write only if it is based on the current version.
Current == pol[worker.p] = worker.obj

\* findMissingModelRefs: a model that is being deleted is not missing.
findMissingModelRefs(w) ==
    [w EXCEPT !.pc = "models", !.todo = w.obj.refs,
              !.missing = {m \in w.obj.refs : modelCache[m].st = "none"}]

\* The OIDC configuration, a Get from the cache, then deletion, finalizer or
\* the rest.
Start(p, oidc) ==
    LET o == cache[p]
        start == [Idle EXCEPT !.p = p, !.obj = o, !.oidc = oidc] IN
    /\ worker.pc = "idle"
    /\ p \in queue
    /\ queue' = queue \ {p}
    /\ worker' = CASE ~o.exists \/ (o.deleting /\ ~o.fin) -> Idle
                   [] o.exists /\ o.deleting /\ o.fin ->
                        [start EXCEPT !.pc = "delete", !.todo = o.refs]
                   [] o.exists /\ ~o.deleting /\ ~o.fin -> [start EXCEPT !.pc = "finalizer"]
                   [] OTHER -> findMissingModelRefs(start)
    /\ UNCHANGED <<objects, caches, events>>

Reconcile(p) == Start(p, tenant) /\ UNCHANGED <<used, history>>

AddFinalizer ==
    LET o == [worker.obj EXCEPT !.fin = TRUE] IN
    /\ worker.pc = "finalizer"
    /\ IF Current
       THEN /\ pol' = [pol EXCEPT ![worker.p] = o]
            /\ worker' = findMissingModelRefs([worker EXCEPT !.obj = o])
            /\ UNCHANGED queue
       ELSE Requeue /\ UNCHANGED pol
    /\ UNCHANGED <<model, tenant, auth, caches, events, used, history>>

\* The status write of a reconcile, lost when the object has changed.
updateStatus(phase) ==
    pol' = IF Current THEN [pol EXCEPT ![worker.p].phase = phase] ELSE pol

\* How a reconcile that meets an error ends; a deletion leaves the status.
ReconcileFailed ==
    /\ IF worker.obj.deleting THEN UNCHANGED pol ELSE updateStatus("Failed")
    /\ Requeue

\* The subjects of all policies of m; one unsafe name is an error for all.
Aggregated(m) == UNION {cache[p].subjects : p \in findAllAuthPoliciesForModel(m)}

\* reconcileModelAuthPolicies, for one ref.  The AuthPolicy of a model that is
\* gone is deleted, a model without a route is skipped; otherwise it is
\* created, updated, or left alone when opted out.  It is written even if no
\* cached policy refers to the model any more; it then admits everybody.
reconcileModelAuthPolicies(m) ==
    LET serving == modelCache[m].st = "live" /\ modelCache[m].route
        put == [auth[m] EXCEPT !.exists = TRUE, !.subjects = Aggregated(m),
                  !.from = findAllAuthPoliciesForModel(m), !.oidc = worker.oidc] IN
    /\ worker.pc = "models"
    /\ m \in worker.todo
    /\ \/ /\ modelCache[m].st # "live"
          /\ deleteModelAuthPolicy({m})
       \/ /\ modelCache[m].st = "live" /\ ~modelCache[m].route
          /\ UNCHANGED <<auth, events>>
       \/ /\ serving /\ Aggregated(m) \cap Unsafe = {}
          /\ auth[m].managed
          /\ auth' = [auth EXCEPT ![m] = put]
          /\ events' = IF put = auth[m] THEN events ELSE events \cup {m}
       \/ /\ serving /\ Aggregated(m) \cap Unsafe = {}
          /\ ~auth[m].managed
          /\ UNCHANGED <<auth, events>>
    /\ worker' = [worker EXCEPT !.todo = @ \ {m}, !.done = IF serving THEN @ \cup {m} ELSE @]
    /\ UNCHANGED <<pol, model, tenant, caches, queue, used, history>>

\* validateCELValue refuses a subject: the reconcile fails.
InvalidSubject(m) ==
    /\ worker.pc = "models"
    /\ m \in worker.todo
    /\ modelCache[m].st = "live" /\ modelCache[m].route
    /\ Aggregated(m) \cap Unsafe # {}
    /\ ReconcileFailed
    /\ UNCHANGED <<model, tenant, auth, caches, events, used, history>>

\* handleDeletion, for one ref.
DeleteForRef(m) ==
    /\ worker.pc = "delete"
    /\ m \in worker.todo
    /\ deleteModelAuthPolicy({m})
    /\ worker' = [worker EXCEPT !.todo = @ \ {m}]
    /\ UNCHANGED <<pol, model, tenant, caches, queue, used, history>>

\* Faulty: the AuthPolicies of removed refs are forgotten.
NoStaleAuthPolicies == {}

\* AuthPolicies that name this policy as a contributor and whose model it no
\* longer refers to.
StaleAuthPolicies ==
    {m \in Models \ worker.obj.refs : auth[m].exists /\ worker.p \in auth[m].from}

cleanupStaleAuthPolicies ==
    /\ worker.pc \in {"models", "delete"}
    /\ worker.todo = {}
    /\ deleteModelAuthPolicy(StaleAuthPolicies)
    /\ worker' = [worker EXCEPT !.pc = IF @ = "delete" THEN "drop" ELSE "status"]
    /\ UNCHANGED <<pol, model, tenant, caches, queue, used, history>>

\* Faulty: Pending while some AuthPolicy is not enforced.
deriveAuthPolicyPhasePending(refs, missing, ready, unready) ==
    CASE missing = refs -> "Failed"
      [] missing # refs /\ unready # {} -> "Pending"
      [] missing # refs /\ unready = {} /\ (missing # {} \/ ready = {}) -> "Degraded"
      [] OTHER -> "Active"

\* deriveAuthPolicyPhase, on the AuthPolicies that are ready and those not.
deriveAuthPolicyPhase(refs, missing, ready, unready) ==
    CASE missing = refs -> "Failed"
      [] missing # refs /\ (missing # {} \/ unready # {} \/ ready = {}) -> "Degraded"
      [] OTHER -> "Active"

\* updateAuthPolicyRefStatus reads the AuthPolicies of this reconcile again;
\* then the phase and the status write.
UpdateStatus ==
    LET ready == {m \in worker.done : auth[m].exists /\ auth[m].ready} IN
    /\ worker.pc = "status"
    /\ updateStatus(deriveAuthPolicyPhase(worker.obj.refs, worker.missing,
                                          ready, worker.done \ ready))
    /\ worker' = Idle
    /\ UNCHANGED <<model, tenant, auth, caches, events, queue, used, history>>

\* handleDeletion's last step: without its finalizer the object is gone.
RemoveFinalizer ==
    /\ worker.pc = "drop"
    /\ IF Current
       THEN /\ pol' = [pol EXCEPT ![worker.p] = NoPolicy]
            /\ worker' = Idle
            /\ UNCHANGED queue
       ELSE Requeue /\ UNCHANGED pol
    /\ UNCHANGED <<model, tenant, auth, caches, events, used, history>>
-----------------------------------------------------------------------------
(* Watches: an event refreshes the cache and enqueues. *)

\* The predicates of For(): creation, deletion, a new spec or a deletion mark.
Relevant(old, new) ==
    \/ old.exists # new.exists
    \/ old.rev # new.rev
    \/ ~old.deleting /\ new.deleting

WatchPolicy(p) ==
    /\ cache[p] # pol[p]
    /\ cache' = [cache EXCEPT ![p] = pol[p]]
    /\ queue' = IF Relevant(cache[p], pol[p]) THEN queue \cup {p} ELSE queue
    /\ UNCHANGED <<objects, modelCache, events, worker, used, history>>

\* mapMaaSModelRefToMaaSAuthPolicies and mapHTTPRouteToMaaSAuthPolicies: all
\* policies that refer to the model; a route without a model maps to none.
WatchModel(m) ==
    /\ modelCache[m] # model[m]
    /\ modelCache' = [modelCache EXCEPT ![m] = model[m]]
    /\ queue' = IF modelCache[m].st = "none" /\ model[m].st = "none" THEN queue
                ELSE queue \cup {p \in Policies : cache[p].exists /\ m \in cache[p].refs}
    /\ UNCHANGED <<objects, cache, events, worker, used, history>>

\* findAnyAuthPolicyForModel takes the first of the list, in any order.
mapGeneratedAuthPolicyToParent(m) ==
    LET all == findAllAuthPoliciesForModel(m) IN
    IF all = {} THEN {{}} ELSE {{p} : p \in all}

WatchAuthPolicy(m) ==
    /\ m \in events
    /\ events' = events \ {m}
    /\ \E ps \in mapGeneratedAuthPolicyToParent(m) : queue' = queue \cup ps
    /\ UNCHANGED <<objects, caches, worker, used, history>>

\* Faulty: like the other mapper, one policy stands for all.
mapTenantToOne == {CHOOSE p \in Policies : TRUE}

mapTenantToMaaSAuthPolicies == {p \in Policies : cache[p].exists}

WatchTenant ==
    /\ TenantEvent \in events
    /\ events' = events \ {TenantEvent}
    /\ queue' = queue \cup mapTenantToMaaSAuthPolicies
    /\ UNCHANGED <<objects, caches, worker, used, history>>
-----------------------------------------------------------------------------
(* The environment. *)

\* One of the things that happen MaxDisturbances times at most.
Disturb(kind) ==
    /\ kind \in Kinds
    /\ used < MaxDisturbances
    /\ used' = used + 1

\* kubectl apply: create or edit.
ApplyPolicy(p, spec) ==
    /\ Disturb("apply")
    /\ <<spec.refs, spec.subjects>> # <<pol[p].refs, pol[p].subjects>>
    /\ pol' = [pol EXCEPT ![p].exists = TRUE, ![p].refs = spec.refs,
                          ![p].subjects = spec.subjects, ![p].rev = used + 1]
    /\ UNCHANGED <<model, tenant, auth, caches, events, queue, worker, history>>

\* kubectl delete: the object goes at once unless it has its finalizer.
DeletePolicy(p) ==
    /\ Disturb("delete")
    /\ pol[p].exists /\ ~pol[p].deleting
    /\ \/ /\ pol[p].fin
          /\ pol' = [pol EXCEPT ![p].deleting = TRUE]
          /\ UNCHANGED ghosts
       \/ /\ ~pol[p].fin
          /\ pol' = [pol EXCEPT ![p] = NoPolicy]
          /\ ghosts' = ghosts \cup {p}
    /\ UNCHANGED <<model, tenant, auth, caches, events, queue, worker, misread>>

\* The route of a model is created, or deleted.
ChangeRoute(m) ==
    /\ Disturb("route")
    /\ model' = [model EXCEPT ![m].route = ~@]
    /\ UNCHANGED <<pol, tenant, auth, caches, events, queue, worker, history>>

\* A MaaSModelRef is deleted, or created again.
ChangeModel(m) ==
    /\ Disturb("model")
    /\ model[m].st \in {"none", "live"}
    /\ model' = [model EXCEPT ![m].st = IF @ = "none" THEN "live" ELSE "deleting"]
    /\ UNCHANGED <<pol, tenant, auth, caches, events, queue, worker, history>>

\* The MaaSModelRef controller's handleDeletion: the generated policies of the
\* model go, then its finalizer.
ModelRefDeletion(m) ==
    /\ \/ /\ model[m].st = "deleting"
          /\ model' = [model EXCEPT ![m].st = "cleaned"]
          /\ deleteModelAuthPolicy({m})
       \/ /\ model[m].st = "cleaned"
          /\ model' = [model EXCEPT ![m].st = "none"]
          /\ UNCHANGED <<auth, events>>
    /\ UNCHANGED <<pol, tenant, caches, queue, worker, used, history>>

\* External OIDC is configured in the Tenant, or taken out.
ChangeTenant ==
    /\ Disturb("tenant")
    /\ tenant' = ~tenant
    /\ events' = events \cup {TenantEvent}
    /\ UNCHANGED <<pol, model, auth, caches, queue, worker, history>>

\* Kuadrant accepts and enforces an AuthPolicy.
EnforceAuthPolicy(m) ==
    /\ auth[m].exists /\ ~auth[m].ready
    /\ auth' = [auth EXCEPT ![m].ready = TRUE]
    /\ events' = events \cup {m}
    /\ UNCHANGED <<pol, model, tenant, caches, queue, worker, used, history>>

\* An admin deletes an AuthPolicy, to clear Authorino's caches.
DeleteAuthPolicy(m) ==
    /\ Disturb("policy")
    /\ auth[m].exists
    /\ auth' = [auth EXCEPT ![m] = NoAuth]
    /\ events' = events \cup {m}
    /\ UNCHANGED <<pol, model, tenant, caches, queue, worker, history>>

\* An admin sets opendatahub.io/managed=false on an AuthPolicy, or drops it.
OptOut(m) ==
    /\ Disturb("optout")
    /\ auth[m].exists
    /\ auth' = [auth EXCEPT ![m].managed = ~@, ![m].opted = TRUE]
    /\ events' = events \cup {m}
    /\ UNCHANGED <<pol, model, tenant, caches, queue, worker, history>>

\* A call of the worker to the API server fails.
CallFails ==
    /\ Disturb("failure")
    /\ worker.pc # "idle"
    /\ CASE worker.pc = "finalizer" -> Requeue /\ UNCHANGED pol
         [] worker.pc = "status" -> worker' = Idle /\ UNCHANGED <<pol, queue>>
         [] OTHER -> ReconcileFailed
    /\ UNCHANGED <<model, tenant, auth, caches, events, history>>

\* The read of the Tenant fails: fetchOIDCConfig answers as if there were no
\* OIDC, and the reconcile goes on.
ReadTenantFails(p) ==
    /\ Disturb("failure")
    /\ tenant
    /\ Start(p, FALSE)
    /\ misread' = TRUE
    /\ UNCHANGED ghosts

\* The controller restarts: the caches are filled and every object is new.
Restart ==
    /\ Disturb("restart")
    /\ worker' = Idle
    /\ cache' = pol
    /\ modelCache' = model
    /\ queue' = {p \in Policies : pol[p].exists}
    /\ events' = {}
    /\ UNCHANGED <<objects, history>>
-----------------------------------------------------------------------------
\* All policies exist and have been reconciled, or some do not exist yet; all
\* models are served.
Init ==
    /\ \E start \in [Policies -> Specs \cup {[refs |-> {}, subjects |-> {}]}] :
         LET from(m) == {p \in Policies : m \in start[p].refs} IN
         /\ \A p \in Policies : start[p].subjects \cap Unsafe = {}
         /\ pol = [p \in Policies |->
                     IF start[p].refs = {} THEN NoPolicy
                     ELSE [NoPolicy EXCEPT !.exists = TRUE, !.refs = start[p].refs,
                             !.subjects = start[p].subjects, !.fin = TRUE, !.phase = "Active"]]
         /\ auth = [m \in Models |->
                      IF from(m) = {} THEN NoAuth
                      ELSE [NoAuth EXCEPT !.exists = TRUE, !.from = from(m), !.ready = TRUE,
                              !.subjects = UNION {start[p].subjects : p \in from(m)}]]
    /\ cache = pol
    /\ model = [m \in Models |-> [st |-> "live", route |-> TRUE]]
    /\ modelCache = model
    /\ tenant = FALSE
    /\ events = {}
    /\ queue = {}
    /\ worker = Idle
    /\ used = 0
    /\ ghosts = {}
    /\ misread = FALSE

WorkerStep ==
    \/ \E p \in Policies : Reconcile(p)
    \/ AddFinalizer
    \/ \E m \in Models : reconcileModelAuthPolicies(m) \/ InvalidSubject(m) \/ DeleteForRef(m)
    \/ cleanupStaleAuthPolicies \/ UpdateStatus \/ RemoveFinalizer

Watches ==
    \/ \E p \in Policies : WatchPolicy(p)
    \/ \E m \in Models : WatchModel(m) \/ WatchAuthPolicy(m)
    \/ WatchTenant

Cluster == \E m \in Models : ModelRefDeletion(m) \/ EnforceAuthPolicy(m)

Disturbance ==
    \/ \E p \in Policies, spec \in Specs : ApplyPolicy(p, spec)
    \/ \E p \in Policies : DeletePolicy(p) \/ ReadTenantFails(p)
    \/ \E m \in Models : ChangeRoute(m) \/ ChangeModel(m) \/ DeleteAuthPolicy(m) \/ OptOut(m)
    \/ ChangeTenant \/ CallFails \/ Restart

Next == WorkerStep \/ Watches \/ Cluster \/ Disturbance

Spec == Init /\ [][Next]_vars
-----------------------------------------------------------------------------
(* Properties. *)

\* The variables keep their types.
TypeOK ==
    /\ pol \in [Policies -> MaaSAuthPolicy]
    /\ cache \in [Policies -> MaaSAuthPolicy]
    /\ model \in [Models -> Model]
    /\ modelCache \in [Models -> Model]
    /\ tenant \in BOOLEAN
    /\ auth \in [Models -> AuthPolicy]
    /\ events \in SUBSET (Models \cup {TenantEvent})
    /\ queue \in SUBSET Policies
    /\ worker \in Worker
    /\ used \in 0 .. MaxDisturbances
    /\ ghosts \in SUBSET Policies
    /\ misread \in BOOLEAN

\* Nothing is left to do: no event, request, reconcile or clean-up pending.
Quiet ==
    /\ worker.pc = "idle" /\ queue = {} /\ events = {}
    /\ cache = pol /\ modelCache = model
    /\ \A m \in Models : model[m].st \in {"none", "live"}

\* The policy of model m governs traffic, and nobody ever opted it out.
Governs(m) ==
    /\ model[m].st = "live" /\ model[m].route
    /\ auth[m].exists /\ ~auth[m].opted

Granted(m) ==
    UNION {pol[p].subjects : p \in {q \in Policies :
             pol[q].exists /\ ~pol[q].deleting /\ m \in pol[q].refs}}

\* When all is quiet the AuthPolicy of a model admits everybody a policy
\* grants access to, and nobody else, with two exceptions: it was built from a
\* policy that was deleted before the controller had put its finalizer on it
\* (see NoStaleSubjects), or from no policy at all (see UnconfiguredDenied).
GrantsExact ==
    Quiet => \A m \in Models : Governs(m) =>
        /\ Granted(m) \subseteq Admits(m)
        /\ auth[m].from # {} /\ auth[m].from \cap ghosts = {} => Admits(m) \subseteq Granted(m)

\* When all is quiet the AuthPolicy of a model that anybody may use accepts
\* OIDC tokens exactly if the Tenant configures OIDC, as long as no read of
\* the Tenant has failed.
OidcFollowsTenant ==
    Quiet /\ ~misread => \A m \in Models :
        Governs(m) /\ Granted(m) # {} => auth[m].oidc = tenant

\* A policy whose finalizer goes leaves nothing behind: no AuthPolicy that the
\* controller manages still names it.
DeletionIsClean ==
    [][\A p \in Policies, m \in Models :
         pol[p].fin /\ ~pol'[p].exists /\ auth[m].exists /\ ~auth[m].opted
         => p \notin auth[m].from]_vars
-----------------------------------------------------------------------------
(* What comments and documents say and the code does not do. *)

\* deleteModelAuthPolicy: "Always delete the aggregated AuthPolicy so remaining
\* MaaSAuthPolicies rebuild it without the subjects from the deleted policy".
\* When all is quiet the rule of an AuthPolicy names nobody on account of a
\* policy that no longer exists.
NoStaleSubjects ==
    Quiet => \A m \in Models : Governs(m) => auth[m].subjects \subseteq Granted(m)

\* maas-controller/README.md: "Models with no MaaSAuthPolicy or MaaSSubscription
\* are denied at the gateway level by gateway-default-auth".  When all is quiet
\* no AuthPolicy of its own overrides that default, and admits everybody, for a
\* model that no MaaSAuthPolicy refers to.
UnconfiguredDenied ==
    Quiet => \A m \in Models : Governs(m) /\ Granted(m) = {} => Admits(m) # Subjects
=============================================================================
