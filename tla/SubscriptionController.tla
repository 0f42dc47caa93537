----------------------- MODULE SubscriptionController -----------------------
(***************************************************************************)
(* The MaaSSubscription reconciler of maas-controller.  All subscriptions  *)
(* of a model share one TokenRateLimitPolicy (TRLP), which the single      *)
(* worker of the controller rebuilds from the whole list whenever one of   *)
(* them is reconciled.  The worker reads subscriptions, models and routes  *)
(* from the informers' caches, which lag behind the API server; it reads   *)
(* TRLPs, which are unstructured objects, from the API server itself.      *)
(*                                                                         *)
(* The token limits of a model ref are one number: 0 for no ref to the     *)
(* model, a negative one for limits that validateTokenRateLimit refuses.   *)
(* Every model has a namespace of its own.  Kuadrant, the garbage          *)
(* collector, the users of kubectl and the MaaSModelRef controller are the *)
(* environment.                                                            *)
(***************************************************************************)
EXTENDS Integers, FiniteSets

CONSTANTS
    Subs,               \* names of MaaSSubscriptions
    Models,             \* MaaSModelRefs
    Specs,              \* values of spec.modelRefs: functions of the models
    Kinds,              \* the disturbances that happen, see Disturb
    MaxDisturbances     \* bound: how many of them

ASSUME ControllerAssumption ==
    /\ Subs # {} /\ Models # {}
    /\ Specs # {} /\ Specs \subseteq [Models -> Int]
    /\ \A lim \in Specs : \E m \in Models : lim[m] # 0
    /\ MaxDisturbances \in Nat

VARIABLES
    subs,           \* subs[s]: the MaaSSubscription s at the API server
    cache,          \* cache[s]: the informer's copy of it
    model,          \* model[m]: the MaaSModelRef and its HTTPRoute
    modelCache,     \* modelCache[m]: the informers' copy of the two
    trlp,           \* trlp[m]: the TokenRateLimitPolicy of the model
    trlpEvents,     \* models whose TRLP changed since the watch last reported
    queue,          \* subscriptions waiting to be reconciled
    worker,         \* the reconcile in progress
    used,           \* disturbances so far; also the source of fresh versions
    unanswered      \* history: models of whose policy an event was mapped to a
                    \* subscription, and which were not reconciled since

vars == <<subs, cache, model, modelCache, trlp, trlpEvents, queue, worker, used, unanswered>>
-----------------------------------------------------------------------------
(* Objects. *)

Phases == {"", "Active", "Degraded", "Failed"}

\* rev is the version of the spec, dup the SpecPriorityDuplicate condition; of
\* the rest of the status only the phase is kept.
Subscription == [exists: BOOLEAN, rev: Nat, lim: [Models -> Int], deleting: BOOLEAN,
                 fin: BOOLEAN, phase: Phases, dup: BOOLEAN]

NoSub == [exists |-> FALSE, rev |-> 0, lim |-> [m \in Models |-> 0], deleting |-> FALSE,
          fin |-> FALSE, phase |-> "", dup |-> FALSE]

\* route is the incarnation of the model's HTTPRoute, 0 when there is none.
Model == [st: {"none", "live", "deleting", "cleaned"}, route: Nat]

\* limits holds a <<subscription, limit>> pair per contributor, owner is the
\* route that owns the policy.  edited: somebody else changed its spec; opted
\* records that an admin ever opted out.
Policy == [exists: BOOLEAN, limits: SUBSET (Subs \X Int), owner: Nat, edited: BOOLEAN,
           accepted: BOOLEAN, managed: BOOLEAN, opted: BOOLEAN]

NoPolicy == [exists |-> FALSE, limits |-> {}, owner |-> 0, edited |-> FALSE,
             accepted |-> FALSE, managed |-> TRUE, opted |-> FALSE]

Refs(o) == {m \in Models : o.lim[m] # 0}

validateTokenRateLimit(limit) == limit > 0

\* By the field index of the cache, without those being deleted.
findAllSubscriptionsForModel(m) ==
    {s \in Subs : cache[s].exists /\ ~cache[s].deleting /\ cache[s].lim[m] # 0}

IsManaged(m) == trlp[m].exists /\ trlp[m].managed

\* Delete the TRLPs of ms that are there and not opted out.
deleteModelTRLP(ms) ==
    /\ trlp' = [m \in Models |-> IF m \in ms /\ IsManaged(m) THEN NoPolicy ELSE trlp[m]]
    /\ trlpEvents' = trlpEvents \cup {m \in ms : IsManaged(m)}
-----------------------------------------------------------------------------
(* The worker. *)

Worker == [pc: {"idle", "finalizer", "models", "health", "drop"},
           s: Subs, obj: Subscription, valid: SUBSET Models, todo: SUBSET Models]

Idle == [pc |-> "idle", s |-> CHOOSE s \in Subs : TRUE, obj |-> NoSub, valid |-> {},
         todo |-> {}]

\* Faulty: the request is forgotten.
Forget ==
    /\ worker' = Idle
    /\ UNCHANGED queue

\* An error makes controller-runtime put the request back.
Requeue ==
    /\ queue' = queue \cup {worker.s}
    /\ worker' = Idle

\* The API server takes a write only if it is based on the current version.
Current == subs[worker.s] = worker.obj

\* validateModelRefs: a model that is being deleted still counts as valid.
\* Without a valid model only cleanupStaleTRLPs runs.
Validated(w) ==
    LET valid == {m \in Refs(w.obj) : modelCache[m].st # "none"} IN
    [w EXCEPT !.pc = "models", !.valid = valid,
              !.todo = IF valid = {} THEN {} ELSE Refs(w.obj)]

\* Reconcile: Get from the cache, then deletion, finalizer or the rest.
Reconcile(s) ==
    LET o == cache[s]
        start == [Idle EXCEPT !.s = s, !.obj = o] IN
    /\ worker.pc = "idle"
    /\ s \in queue
    /\ queue' = queue \ {s}
    /\ worker' = CASE ~o.exists \/ (o.deleting /\ ~o.fin) -> Idle
                   [] o.exists /\ o.deleting /\ o.fin ->
                        [start EXCEPT !.pc = "models", !.todo = Refs(o)]
                   [] o.exists /\ ~o.deleting /\ ~o.fin -> [start EXCEPT !.pc = "finalizer"]
                   [] OTHER -> Validated(start)
    /\ UNCHANGED <<subs, cache, model, modelCache, trlp, trlpEvents, used, unanswered>>

AddFinalizer ==
    LET o == [worker.obj EXCEPT !.fin = TRUE] IN
    /\ worker.pc = "finalizer"
    /\ IF Current
       THEN /\ subs' = [subs EXCEPT ![worker.s] = o]
            /\ worker' = Validated([worker EXCEPT !.obj = o])
            /\ UNCHANGED queue
       ELSE Requeue /\ UNCHANGED subs
    /\ UNCHANGED <<cache, model, modelCache, trlp, trlpEvents, used, unanswered>>

\* The status write of a reconcile, lost when the object has changed.
updateStatus(phase) ==
    subs' = IF Current THEN [subs EXCEPT ![worker.s].phase = phase] ELSE subs

\* How a reconcile that meets an error ends; a deletion leaves the status.
ReconcileFailed ==
    /\ IF worker.obj.deleting THEN UNCHANGED subs
       ELSE updateStatus("Failed")
    /\ Requeue

\* The limits the policy of m should have, by the caches.
Wanted(m) ==
    LET all == findAllSubscriptionsForModel(m) IN
    IF modelCache[m].st # "live" THEN {}
    ELSE {<<s, cache[s].lim[m]>> : s \in {x \in all : validateTokenRateLimit(cache[x].lim[m])}}

\* A live model without a route that has subscriptions is left for later.
RouteMissing(m) ==
    /\ modelCache[m].st = "live" /\ modelCache[m].route = 0
    /\ findAllSubscriptionsForModel(m) # {}

\* reconcileTRLPForModel.  With nothing wanted the policy is deleted;
\* otherwise it is created, or updated when it differs.  One that is opted out
\* is left alone, and one that belongs to an earlier route is an error.  What
\* it reads from the caches may be old, so one step is enough for it.
reconcileTRLPForModel(m) ==
    LET p == trlp[m]
        want == Wanted(m)
        foreign == p.owner # modelCache[m].route
        put == [NoPolicy EXCEPT !.exists = TRUE, !.limits = want,
                                !.owner = modelCache[m].route] IN
    /\ worker.pc = "models"
    /\ m \in worker.todo
    /\ \/ /\ ~RouteMissing(m) /\ want = {}
          /\ deleteModelTRLP({m})
       \/ /\ ~RouteMissing(m) /\ want # {} /\ ~p.exists
          /\ trlp' = [trlp EXCEPT ![m] = put]
          /\ trlpEvents' = trlpEvents \cup {m}
       \/ /\ ~RouteMissing(m) /\ want # {} /\ IsManaged(m) /\ ~foreign
          /\ trlp' = [trlp EXCEPT ![m].limits = want, ![m].edited = FALSE]
          /\ trlpEvents' = IF p.limits = want /\ ~p.edited THEN trlpEvents
                           ELSE trlpEvents \cup {m}
       \/ /\ RouteMissing(m) \/ (p.exists /\ ~p.managed)
          /\ UNCHANGED <<trlp, trlpEvents>>
    /\ worker' = [worker EXCEPT !.todo = @ \ {m}]
    /\ unanswered' = unanswered \ {m}
    /\ UNCHANGED <<subs, cache, model, modelCache, queue, used>>

\* SetControllerReference refuses a policy that has another route as owner.
AlreadyOwned(m) ==
    /\ worker.pc = "models"
    /\ m \in worker.todo
    /\ ~RouteMissing(m) /\ Wanted(m) # {}
    /\ IsManaged(m) /\ trlp[m].owner # modelCache[m].route
    /\ ReconcileFailed
    /\ UNCHANGED <<cache, model, modelCache, trlp, trlpEvents, used, unanswered>>

\* Faulty: the policies of removed refs are forgotten.
NoStaleTRLPs == {}

\* Policies the subscription contributes to and no longer refers to, by the
\* annotation that lists the contributors.
StaleTRLPs ==
    {m \in Models \ Refs(worker.obj) :
        trlp[m].exists /\ \E l \in trlp[m].limits : l[1] = worker.s}

cleanupStaleTRLPs ==
    /\ worker.pc = "models"
    /\ worker.todo = {}
    /\ deleteModelTRLP(StaleTRLPs)
    /\ worker' = [worker EXCEPT !.pc = IF worker.obj.deleting THEN "drop" ELSE "health"]
    /\ UNCHANGED <<subs, cache, model, modelCache, queue, used, unanswered>>

\* Faulty: a subscription whose policies are not accepted yet is Pending.
deriveFinalPhasePending(refs, valid, ready) ==
    CASE valid = {} -> "Failed"
      [] valid # {} /\ valid # refs -> "Degraded"
      [] valid # {} /\ valid = refs /\ ready # refs -> "Pending"
      [] OTHER -> "Active"

\* deriveFinalPhase, on the refs that are valid and those with a ready policy.
deriveFinalPhase(refs, valid, ready) ==
    CASE valid = {} -> "Failed"
      [] valid # {} /\ (valid # refs \/ ready # refs) -> "Degraded"
      [] OTHER -> "Active"

\* checkTokenRateLimitHealth, the correction of the model statuses (no route,
\* or being deleted), the phase, and the status write.
CheckHealth ==
    LET refs == Refs(worker.obj)
        backend == {m \in refs : modelCache[m].st = "live" /\ modelCache[m].route # 0}
        ready == {m \in backend : trlp[m].exists /\ trlp[m].accepted} IN
    /\ worker.pc = "health"
    /\ updateStatus(deriveFinalPhase(refs, worker.valid \cap backend, ready))
    /\ worker' = Idle
    /\ UNCHANGED <<cache, model, modelCache, trlp, trlpEvents, queue, used, unanswered>>

\* handleDeletion's last step: without its finalizer the object is gone.
RemoveFinalizer ==
    /\ worker.pc = "drop"
    /\ IF Current
       THEN /\ subs' = [subs EXCEPT ![worker.s] = NoSub]
            /\ worker' = Idle
            /\ UNCHANGED queue
       ELSE Requeue /\ UNCHANGED subs
    /\ UNCHANGED <<cache, model, modelCache, trlp, trlpEvents, used, unanswered>>
-----------------------------------------------------------------------------
(* Watches: an event refreshes the cache and enqueues. *)

\* Faulty: the generation is not looked at.
RelevantUnlessEdited(old, new) ==
    \/ old.exists # new.exists
    \/ ~old.deleting /\ new.deleting

\* The predicates of For(): creation, deletion, a new spec or a deletion mark.
Relevant(old, new) ==
    \/ old.exists # new.exists
    \/ old.rev # new.rev
    \/ ~old.deleting /\ new.deleting

WatchSubscription(s) ==
    /\ cache[s] # subs[s]
    /\ cache' = [cache EXCEPT ![s] = subs[s]]
    /\ queue' = IF Relevant(cache[s], subs[s]) THEN queue \cup {s} ELSE queue
    /\ UNCHANGED <<subs, model, modelCache, trlp, trlpEvents, worker, used, unanswered>>

\* mapMaaSModelRefToMaaSSubscriptions and mapHTTPRouteToMaaSSubscriptions: all
\* subscriptions that refer to the model; a route without a model maps to none.
WatchModel(m) ==
    /\ modelCache[m] # model[m]
    /\ modelCache' = [modelCache EXCEPT ![m] = model[m]]
    /\ queue' = IF modelCache[m].st = "none" /\ model[m].st = "none" THEN queue
                ELSE queue \cup {s \in Subs : cache[s].exists /\ cache[s].lim[m] # 0}
    /\ unanswered' = unanswered \ {m}
    /\ UNCHANGED <<subs, cache, model, trlp, trlpEvents, worker, used>>

\* mapGeneratedTRLPToParent: findAnySubscriptionForModel takes the first of the
\* list, whose order is that of a hash map.
mapGeneratedTRLPToParent(m) ==
    LET all == findAllSubscriptionsForModel(m) IN
    IF all = {} THEN {{}} ELSE {{s} : s \in all}

WatchTRLP(m) ==
    /\ m \in trlpEvents
    /\ trlpEvents' = trlpEvents \ {m}
    /\ \E ss \in mapGeneratedTRLPToParent(m) :
         /\ queue' = queue \cup ss
         /\ unanswered' = IF ss = {} THEN unanswered ELSE unanswered \cup {m}
    /\ UNCHANGED <<subs, cache, model, modelCache, trlp, worker, used>>
-----------------------------------------------------------------------------
(* The environment. *)

\* One of the things that happen MaxDisturbances times at most.
Disturb(kind) ==
    /\ kind \in Kinds
    /\ used < MaxDisturbances
    /\ used' = used + 1

\* kubectl apply: create or edit.
ApplySubscription(s, lim) ==
    /\ Disturb("apply")
    /\ lim # subs[s].lim
    /\ subs' = [subs EXCEPT ![s].exists = TRUE, ![s].lim = lim, ![s].rev = used + 1]
    /\ UNCHANGED <<cache, model, modelCache, trlp, trlpEvents, queue, worker, unanswered>>

\* kubectl delete: the object goes at once unless it has its finalizer.
DeleteSubscription(s) ==
    /\ Disturb("delete")
    /\ subs[s].exists /\ ~subs[s].deleting
    /\ subs' = [subs EXCEPT ![s] = IF @.fin THEN [@ EXCEPT !.deleting = TRUE] ELSE NoSub]
    /\ UNCHANGED <<cache, model, modelCache, trlp, trlpEvents, queue, worker, unanswered>>

\* scanForDuplicatePriority runs in the event handler, beside the worker, and
\* changes the condition of a subscription; based on an old version it fails.
scanForDuplicatePriority(s) ==
    /\ Disturb("scan")
    /\ cache[s] = subs[s] /\ subs[s].exists /\ ~subs[s].deleting
    /\ subs' = [subs EXCEPT ![s].dup = ~@]
    /\ UNCHANGED <<cache, model, modelCache, trlp, trlpEvents, queue, worker, unanswered>>

\* The route of a model is created, or deleted.
ChangeRoute(m) ==
    /\ Disturb("route")
    /\ model' = [model EXCEPT ![m].route = IF @ = 0 THEN used + 2 ELSE 0]
    /\ UNCHANGED <<subs, cache, modelCache, trlp, trlpEvents, queue, worker, unanswered>>

\* A MaaSModelRef is deleted, or created again.
ChangeModel(m) ==
    /\ Disturb("model")
    /\ model[m].st \in {"none", "live"}
    /\ model' = [model EXCEPT ![m].st = IF @ = "none" THEN "live" ELSE "deleting"]
    /\ UNCHANGED <<subs, cache, modelCache, trlp, trlpEvents, queue, worker, unanswered>>

\* The MaaSModelRef controller's handleDeletion: the generated policies of the
\* model go, then its finalizer.
ModelRefDeletion(m) ==
    /\ \/ /\ model[m].st = "deleting"
          /\ model' = [model EXCEPT ![m].st = "cleaned"]
          /\ deleteModelTRLP({m})
       \/ /\ model[m].st = "cleaned"
          /\ model' = [model EXCEPT ![m].st = "none"]
          /\ UNCHANGED <<trlp, trlpEvents>>
    /\ UNCHANGED <<subs, cache, modelCache, queue, worker, used, unanswered>>

\* Kubernetes collects a policy whose owner is gone.
CollectTRLP(m) ==
    /\ trlp[m].exists /\ trlp[m].owner # model[m].route
    /\ trlp' = [trlp EXCEPT ![m] = NoPolicy]
    /\ trlpEvents' = trlpEvents \cup {m}
    /\ UNCHANGED <<subs, cache, model, modelCache, queue, worker, used, unanswered>>

\* Kuadrant accepts a policy.
AcceptTRLP(m) ==
    /\ trlp[m].exists /\ ~trlp[m].accepted
    /\ trlp' = [trlp EXCEPT ![m].accepted = TRUE]
    /\ trlpEvents' = trlpEvents \cup {m}
    /\ UNCHANGED <<subs, cache, model, modelCache, queue, worker, used, unanswered>>

\* An admin deletes a policy.
DeleteTRLP(m) ==
    /\ Disturb("policy")
    /\ trlp[m].exists
    /\ trlp' = [trlp EXCEPT ![m] = NoPolicy]
    /\ trlpEvents' = trlpEvents \cup {m}
    /\ UNCHANGED <<subs, cache, model, modelCache, queue, worker, unanswered>>

\* An admin edits the spec of a policy.
EditTRLP(m) ==
    /\ Disturb("policy")
    /\ trlp[m].exists
    /\ trlp' = [trlp EXCEPT ![m].edited = TRUE]
    /\ trlpEvents' = trlpEvents \cup {m}
    /\ UNCHANGED <<subs, cache, model, modelCache, queue, worker, unanswered>>

\* An admin sets opendatahub.io/managed=false on a policy, or drops it.
OptOut(m) ==
    /\ Disturb("optout")
    /\ trlp[m].exists
    /\ trlp' = [trlp EXCEPT ![m].managed = ~@, ![m].opted = TRUE]
    /\ trlpEvents' = trlpEvents \cup {m}
    /\ UNCHANGED <<subs, cache, model, modelCache, queue, worker, unanswered>>

\* A call of the worker to the API server fails.
CallFails ==
    /\ Disturb("failure")
    /\ worker.pc \in {"finalizer", "models", "health", "drop"}
    /\ CASE worker.pc = "finalizer" -> Requeue /\ UNCHANGED subs
         [] worker.pc = "health" -> worker' = Idle /\ UNCHANGED <<subs, queue>>
         [] OTHER -> ReconcileFailed
    /\ UNCHANGED <<cache, model, modelCache, trlp, trlpEvents, unanswered>>

\* The controller restarts: the caches are filled and every object is new.
Restart ==
    /\ Disturb("restart")
    /\ worker' = Idle
    /\ cache' = subs
    /\ modelCache' = model
    /\ queue' = {s \in Subs : subs[s].exists}
    /\ trlpEvents' = {}
    /\ unanswered' = {}
    /\ UNCHANGED <<subs, model, trlp>>
-----------------------------------------------------------------------------
\* The policy that the reconciles of subscriptions with specs start build.
Built(start, m) ==
    LET limits == {<<s, start[s][m]>> : s \in
                     {x \in Subs : validateTokenRateLimit(start[x][m])}} IN
    IF limits = {} THEN NoPolicy
    ELSE [NoPolicy EXCEPT !.exists = TRUE, !.limits = limits, !.owner = 1, !.accepted = TRUE]

\* Some subscriptions exist and have been reconciled, all models are served.
Init ==
    /\ \E start \in [Subs -> {lim \in Specs : \A m \in Models : lim[m] >= 0} \cup {NoSub.lim}] :
         LET refs(s) == {m \in Models : start[s][m] # 0}
             ready(s) == {m \in refs(s) : Built(start, m).exists} IN
         /\ subs = [s \in Subs |->
                      IF start[s] = NoSub.lim THEN NoSub
                      ELSE [NoSub EXCEPT !.exists = TRUE, !.lim = start[s], !.fin = TRUE,
                              !.phase = deriveFinalPhase(refs(s), refs(s), ready(s))]]
         /\ trlp = [m \in Models |-> Built(start, m)]
    /\ cache = subs
    /\ model = [m \in Models |-> [st |-> "live", route |-> 1]]
    /\ modelCache = model
    /\ trlpEvents = {}
    /\ queue = {}
    /\ worker = Idle
    /\ used = 0
    /\ unanswered = {}

WorkerStep ==
    \/ \E s \in Subs : Reconcile(s)
    \/ AddFinalizer
    \/ \E m \in Models : reconcileTRLPForModel(m) \/ AlreadyOwned(m)
    \/ cleanupStaleTRLPs \/ CheckHealth \/ RemoveFinalizer

Watches ==
    \/ \E s \in Subs : WatchSubscription(s)
    \/ \E m \in Models : WatchModel(m) \/ WatchTRLP(m)

Cluster == \E m \in Models : ModelRefDeletion(m) \/ CollectTRLP(m) \/ AcceptTRLP(m)

Disturbance ==
    \/ \E s \in Subs, lim \in Specs : ApplySubscription(s, lim)
    \/ \E s \in Subs : DeleteSubscription(s) \/ scanForDuplicatePriority(s)
    \/ \E m \in Models : ChangeRoute(m) \/ ChangeModel(m)
    \/ \E m \in Models : DeleteTRLP(m) \/ EditTRLP(m) \/ OptOut(m)
    \/ CallFails
    \/ Restart

Next == WorkerStep \/ Watches \/ Cluster \/ Disturbance

Spec == Init /\ [][Next]_vars

\* The worker takes up every request (the workqueue is first in, first out)
\* and ends every reconcile, events are delivered, and the garbage collector
\* and the MaaSModelRef controller run.
FairSpec ==
    /\ Spec
    /\ \A s \in Subs : SF_vars(Reconcile(s)) /\ WF_vars(WatchSubscription(s))
    /\ WF_vars(WorkerStep)
    /\ \A m \in Models : WF_vars(WatchModel(m)) /\ WF_vars(WatchTRLP(m))
    /\ WF_vars(\E m \in Models : ModelRefDeletion(m) \/ CollectTRLP(m))
-----------------------------------------------------------------------------
(* Properties. *)

\* The variables keep their types.
TypeOK ==
    /\ subs \in [Subs -> Subscription]
    /\ cache \in [Subs -> Subscription]
    /\ model \in [Models -> Model]
    /\ modelCache \in [Models -> Model]
    /\ trlp \in [Models -> Policy]
    /\ trlpEvents \in SUBSET Models
    /\ queue \in SUBSET Subs
    /\ worker \in Worker
    /\ used \in 0 .. MaxDisturbances
    /\ unanswered \in SUBSET Models

\* Nothing is left to do: no event, request, reconcile or clean-up pending.
Quiet ==
    /\ worker.pc = "idle" /\ queue = {} /\ trlpEvents = {}
    /\ cache = subs /\ modelCache = model
    /\ \A m \in Models :
         /\ model[m].st \in {"none", "live"}
         /\ trlp[m].exists => trlp[m].owner = model[m].route

\* Model m is served, and nobody ever opted its policy out.
Serving(m) == model[m].st = "live" /\ model[m].route # 0 /\ ~trlp[m].opted

\* The controller converges: when all is quiet the policy of a served model
\* enforces the current, valid limits of every subscription that refers to it
\* (a request of a subscription without a limit in the policy is not limited).
\* The event of a policy wakes one subscription of the model only.  When that
\* one has dropped the model, or is gone, before its reconcile, all may be quiet
\* and the event unanswered: of that policy nothing is claimed.
LimitsEnforced ==
    Quiet => \A m \in Models \ unanswered, s \in Subs :
        Serving(m) /\ subs[s].exists /\ ~subs[s].deleting /\ subs[s].lim[m] > 0
            => <<s, subs[s].lim[m]>> \in trlp[m].limits /\ ~trlp[m].edited

\* The watch on the policies is there "so manual edits get overwritten by the
\* controller": when all is quiet, none is left in the policy of a served model
\* that has subscriptions.
ManualEditsOverwritten ==
    Quiet => \A m \in Models :
        Serving(m) /\ trlp[m].exists /\ findAllSubscriptionsForModel(m) # {} => ~trlp[m].edited

\* A subscription whose finalizer goes leaves nothing behind: no policy that
\* the controller manages still holds a limit of it.
DeletionIsClean ==
    [][\A s \in Subs, m \in Models :
         /\ subs[s].fin /\ ~subs'[s].exists
         /\ trlp[m].exists /\ ~trlp[m].opted /\ trlp[m].owner = model[m].route
         => \A l \in trlp[m].limits : l[1] # s]_vars

\* Every deletion of a subscription completes, whatever write conflicts, failed
\* calls, restarts and changes of the routes of its models it meets.
DeletionCompletes == \A s \in Subs : subs[s].deleting ~> ~subs[s].deleting
=============================================================================
