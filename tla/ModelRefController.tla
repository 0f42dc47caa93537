------------------------- MODULE ModelRefController -------------------------
(***************************************************************************)
(* The MaaSModelRef reconciler of maas-controller: the status of a model   *)
(* follows its backend, which is an LLMInferenceService with the HTTPRoute *)
(* that KServe makes for it, or an ExternalModel (see ExternalModel), and  *)
(* a deleted MaaSModelRef takes the policies that were generated for the   *)
(* model with it.  Everything but the policies is read from the informers' *)
(* caches; the controller has no watch on ExternalModels.                  *)
(*                                                                         *)
(* A reconcile reads and writes its own MaaSModelRef only, so there is one *)
(* of them.  Conditions and messages are left out of its status, but for   *)
(* the generation they were observed at.  A route of an ExternalModel      *)
(* refers to the gateway that the controller is configured with, since     *)
(* both reconcilers have it from the same flags.                           *)
(***************************************************************************)
EXTENDS ExternalModel

CONSTANT Governed   \* bound: the kinds of models that get policies

VARIABLES
    kind,           \* spec.modelRef.kind
    ref,            \* the MaaSModelRef at the API server
    refCache,       \* the informer's copy of it
    llm,            \* the LLMInferenceService and its HTTPRoute
    llmCache,       \* the informers' copy of the two
    pol,            \* pol[k]: the policy of kind k generated for the model
    queued,         \* a reconcile is requested
    worker,         \* the reconcile in progress
    stale           \* history: the last status rests on an old MaaSModelRef,
                    \* or its write failed

refVars == <<kind, ref, refCache, llm, llmCache, pol, queued, worker, stale>>
vars == <<extVars, used, refVars>>
-----------------------------------------------------------------------------
Policies == {"AuthPolicy", "TokenRateLimitPolicy"}

\* late: generated by a controller that has not yet seen the deletion.
PolicyStates == {"none", "managed", "optout", "late"}

\* route: HTTPRouteName is set; gw: HTTPRouteGatewayName.
Status == [phase : {"", "Ready", "Pending", "Failed"}, endpoint : {"", "url", "override"},
           route : BOOLEAN, gw : {"", "ours", "other"}, gen : Nat]
NoStatus == [phase |-> "", endpoint |-> "", route |-> FALSE, gw |-> "", gen |-> 0]

\* rev is the version of the spec, of which endpointOverride is kept.
Ref == [exists : BOOLEAN, rev : Nat, override : BOOLEAN, deleting : BOOLEAN, fin : BOOLEAN,
        st : Status]
NoRef == [exists |-> FALSE, rev |-> 0, override |-> FALSE, deleting |-> FALSE, fin |-> FALSE,
          st |-> NoStatus]

LLM == [svc : {"none", "unready", "ready"}, route : {"none", "ours", "other"}]
NoLLM == [svc |-> "none", route |-> "none"]

Worker == [pc : {"idle", "finalizer", "status", "drop"} \cup Policies, obj : Ref]
Idle == [pc |-> "idle", obj |-> NoRef]
-----------------------------------------------------------------------------
(* The worker. *)

\* Faulty: the request is forgotten.
Forget ==
    /\ worker' = Idle
    /\ UNCHANGED queued

\* An error makes controller-runtime put the request back.
Requeue ==
    /\ queued' = TRUE
    /\ worker' = Idle

\* The API server takes a write only if it is based on the current version.
Current == ref = worker.obj

Reconcile ==
    LET o == refCache IN
    /\ worker.pc = "idle"
    /\ queued
    /\ queued' = FALSE
    /\ worker' = CASE ~o.exists \/ (o.deleting /\ ~o.fin) -> Idle
                   [] o.exists /\ o.deleting /\ o.fin -> [pc |-> "AuthPolicy", obj |-> o]
                   [] o.exists /\ ~o.deleting /\ ~o.fin -> [pc |-> "finalizer", obj |-> o]
                   [] OTHER -> [pc |-> "status", obj |-> o]
    /\ UNCHANGED <<extVars, used, kind, ref, refCache, llm, llmCache, pol, stale>>

AddFinalizer ==
    LET o == [worker.obj EXCEPT !.fin = TRUE] IN
    /\ worker.pc = "finalizer"
    /\ \/ Current /\ ref' = o /\ worker' = [pc |-> "status", obj |-> o] /\ UNCHANGED queued
       \/ ~Current /\ Requeue /\ UNCHANGED ref
    /\ UNCHANGED <<extVars, used, kind, refCache, llm, llmCache, pol, stale>>

\* validateLLMISvcHTTPRoute, on the status so far.
validateLLMISvcHTTPRoute(st) ==
    CASE llmCache.route = "none" -> [err |-> "HTTPRouteNotFound", st |-> st]
      [] llmCache.route = "other" ->
           [err |-> "failed", st |-> [st EXCEPT !.route = TRUE, !.gw = "other"]]
      [] llmCache.route = "ours" ->
           [err |-> "", st |-> [st EXCEPT !.route = TRUE, !.gw = "ours"]]

\* ReconcileRoute of an external model.  A route that is not accepted leaves
\* the gateway as it was.
externalReconcileRoute(st) ==
    LET route == objCache["HTTPRoute"] IN
    CASE extCache.uid = 0 -> [err |-> "failed", st |-> st]
      [] extCache.uid # 0 /\ route.owner = 0 ->
           [err |-> "", st |-> [st EXCEPT !.endpoint = "", !.route = FALSE, !.gw = ""]]
      [] extCache.uid # 0 /\ route.owner # 0 /\ ~route.accepted ->
           [err |-> "", st |-> [st EXCEPT !.route = TRUE]]
      [] OTHER -> [err |-> "", st |-> [st EXCEPT !.route = TRUE, !.gw = "ours"]]

ReconcileRoute(st) ==
    IF kind = "LLMInferenceService" THEN validateLLMISvcHTTPRoute(st)
    ELSE externalReconcileRoute(st)

\* The handler's Status: what the backend is, by the caches.
Readiness(st) ==
    IF kind = "LLMInferenceService" THEN llmCache.svc
    ELSE IF st.route /\ st.gw # "" THEN "ready" ELSE "unready"

\* What Reconcile makes of the backend: the new status, and whether it ends in
\* an error.  A failed route check keeps the endpoint.
Outcome(o) ==
    LET r == ReconcileRoute(o.st)
        end(phase, endpoint, err) ==
            [st |-> [r.st EXCEPT !.phase = phase, !.endpoint = endpoint, !.gen = o.rev],
             err |-> err] IN
    CASE r.err = "HTTPRouteNotFound" -> end("Pending", "", FALSE)
      [] r.err = "failed" -> end("Failed", r.st.endpoint, TRUE)
      [] r.err = "" /\ Readiness(r.st) = "none" -> end("Failed", "", TRUE)
      [] r.err = "" /\ Readiness(r.st) = "unready" -> end("Pending", "", FALSE)
      [] OTHER -> end("Ready", IF o.override THEN "override" ELSE "url", FALSE)

\* updateStatus: no write when nothing differs from the copy that was read; a
\* write that conflicts is lost.  What is read from the caches may be old, so
\* reading the backend and writing the status is one step.
UpdateStatus ==
    LET out == Outcome(worker.obj) IN
    /\ worker.pc = "status"
    /\ ref' = IF Current THEN [ref EXCEPT !.st = out.st] ELSE ref
    /\ stale' = ~Current
    /\ \/ out.err /\ Requeue
       \/ ~out.err /\ worker' = Idle /\ UNCHANGED queued
    /\ UNCHANGED <<extVars, used, kind, refCache, llm, llmCache, pol>>

\* Faulty: only AuthPolicies are deleted.
DeletableAuth(k) == k = "AuthPolicy" /\ pol[k] \in {"managed", "late"}

\* A policy with the labels of the model that is not opted out.
Deletable(k) == pol[k] \in {"managed", "late"}

\* handleDeletion: deleteGeneratedPoliciesByLabel, one kind after the other.
DeletePolicies ==
    LET k == worker.pc IN
    /\ k \in Policies
    /\ pol' = [pol EXCEPT ![k] = IF Deletable(k) THEN "none" ELSE @]
    /\ worker' = [worker EXCEPT !.pc = IF k = "AuthPolicy" THEN "TokenRateLimitPolicy"
                                       ELSE "drop"]
    /\ UNCHANGED <<extVars, used, kind, ref, refCache, llm, llmCache, queued, stale>>

\* handleDeletion's last step; CleanupOnDelete has nothing to do.
RemoveFinalizer ==
    /\ worker.pc = "drop"
    /\ \/ Current /\ ref' = NoRef /\ worker' = Idle /\ UNCHANGED queued
       \/ ~Current /\ Requeue /\ UNCHANGED ref
    /\ UNCHANGED <<extVars, used, kind, refCache, llm, llmCache, pol, stale>>
-----------------------------------------------------------------------------
(* Watches. *)

\* The predicates of For().
Relevant(old, new) ==
    \/ old.exists # new.exists
    \/ old.rev # new.rev
    \/ ~old.deleting /\ new.deleting

WatchRef ==
    /\ refCache # ref
    /\ refCache' = ref
    /\ queued' = (queued \/ Relevant(refCache, ref))
    /\ UNCHANGED <<extVars, used, kind, ref, llm, llmCache, pol, worker, stale>>

\* Faulty: an update never passes.
PassesUnlessUpdate(old, new) == (old = "none") # (new = "none")

\* llmisvcReadyChangedPredicate, on the readiness before and after.
ReadyChanged(old, new) == old # new

\* mapLLMISvcToMaaSModelRefs.
WatchLLMISvc ==
    /\ llmCache.svc # llm.svc
    /\ llmCache' = [llmCache EXCEPT !.svc = llm.svc]
    /\ queued' = (queued \/ (refCache.exists /\ ReadyChanged(llmCache.svc, llm.svc)))
    /\ UNCHANGED <<extVars, used, kind, ref, refCache, llm, pol, worker, stale>>

\* mapHTTPRouteToMaaSModelRefs: every MaaSModelRef of the namespace.
RouteEvent == queued' = (queued \/ refCache.exists)

WatchLLMRoute ==
    /\ llmCache.route # llm.route
    /\ llmCache' = [llmCache EXCEPT !.route = llm.route]
    /\ RouteEvent
    /\ UNCHANGED <<extVars, used, kind, ref, refCache, llm, pol, worker, stale>>

WatchExternalRoute ==
    /\ WatchObject("HTTPRoute")
    /\ RouteEvent
    /\ UNCHANGED <<kind, ref, refCache, llm, llmCache, pol, worker, stale>>
-----------------------------------------------------------------------------
(* The environment. *)

\* kubectl apply: create, or edit the endpointOverride.
ApplyRef ==
    /\ Disturb("ref")
    /\ ~ref.deleting
    /\ ref' = [ref EXCEPT !.exists = TRUE, !.rev = used + 2, !.override = ~@]
    /\ UNCHANGED <<extVars, kind, refCache, llm, llmCache, pol, queued, worker, stale>>

\* kubectl delete: the object goes at once unless it has its finalizer.
DeleteRef ==
    /\ Disturb("ref")
    /\ ref.exists /\ ~ref.deleting
    /\ ref' = IF ref.fin THEN [ref EXCEPT !.deleting = TRUE] ELSE NoRef
    /\ UNCHANGED <<extVars, kind, refCache, llm, llmCache, pol, queued, worker, stale>>

\* KServe and the users change the service or its route.
ChangeBackend(new) ==
    /\ Disturb("backend")
    /\ kind = "LLMInferenceService" /\ new # llm
    /\ new.svc = llm.svc \/ new.route = llm.route
    /\ llm' = new
    /\ UNCHANGED <<extVars, kind, ref, refCache, llmCache, pol, queued, worker, stale>>

\* The policy controllers generate the policies of a model that they know
\* and that has a route.
GeneratePolicies ==
    /\ kind \in Governed
    /\ ref.exists
    /\ llm.route # "none" \/ obj["HTTPRoute"].owner # 0
    /\ \E k \in Policies : pol[k] = "none"
    /\ pol' = [k \in Policies |-> IF pol[k] # "none" THEN pol[k]
                                 ELSE IF ref.deleting THEN "late" ELSE "managed"]
    /\ UNCHANGED <<extVars, used, kind, ref, refCache, llm, llmCache, queued, worker, stale>>

\* An admin sets opendatahub.io/managed=false on a policy.
OptOut(k) ==
    /\ Disturb("optout")
    /\ pol[k] \in {"managed", "late"}
    /\ pol' = [pol EXCEPT ![k] = "optout"]
    /\ UNCHANGED <<extVars, kind, ref, refCache, llm, llmCache, queued, worker, stale>>

\* A call of the worker fails.  A failed status write is not retried; the
\* endpoint cannot be told when the Gateway cannot be read or has no address.
CallFails ==
    /\ Disturb("failure")
    /\ \/ worker.pc \in {"finalizer", "drop"} \cup Policies
          /\ Requeue /\ UNCHANGED <<ref, stale>>
       \/ worker.pc = "status" /\ stale' = TRUE /\ UNCHANGED ref
          /\ IF Outcome(worker.obj).err THEN Requeue ELSE worker' = Idle /\ UNCHANGED queued
       \/ LET out == Outcome(worker.obj) IN
          /\ worker.pc = "status" /\ out.st.phase = "Ready"
          /\ ref' = IF Current
                    THEN [ref EXCEPT !.st = [out.st EXCEPT !.phase = "Failed", !.endpoint = ""]]
                    ELSE ref
          /\ stale' = ~Current
          /\ Requeue
    /\ UNCHANGED <<extVars, kind, refCache, llm, llmCache, pol>>

\* The manager restarts: the caches are filled and every object is new.
Restart ==
    /\ Disturb("restart")
    /\ refCache' = ref /\ llmCache' = llm /\ extCache' = ext
    /\ objCache' = [o \in Cached |-> obj[o]]
    /\ worker' = Idle /\ extWorker' = ExtIdle
    /\ queued' = ref.exists /\ extQueued' = (ext.uid # 0)
    /\ UNCHANGED <<kind, ref, llm, pol, stale, ext, obj>>
-----------------------------------------------------------------------------
\* A MaaSModelRef has just been created; its backend may be there already.
Init ==
    /\ ExtInit
    /\ \/ kind = "LLMInferenceService" /\ ext = NoCR /\ llm \in LLM
       \/ kind = "ExternalModel" /\ llm = NoLLM
    /\ llmCache = llm
    /\ ref = [NoRef EXCEPT !.exists = TRUE, !.rev = 1]
    /\ refCache = NoRef
    /\ pol = [k \in Policies |-> "none"]
    /\ queued = FALSE
    /\ worker = Idle
    /\ stale = FALSE

WorkerStep == Reconcile \/ AddFinalizer \/ UpdateStatus \/ DeletePolicies \/ RemoveFinalizer
Watches == WatchRef \/ WatchLLMISvc \/ WatchLLMRoute \/ WatchExternalRoute

\* A step of the ExternalModel reconciler or of its objects.
Alone(A) == A /\ kind = "ExternalModel" /\ UNCHANGED refVars

Disturbance ==
    \/ ApplyRef \/ DeleteRef
    \/ \E new \in LLM : ChangeBackend(new)
    \/ \E k \in Policies : OptOut(k)
    \/ CallFails
    \/ Restart

Next ==
    \/ WorkerStep \/ Watches \/ Disturbance \/ GeneratePolicies
    \/ Alone(ExtWorkerStep) \/ Alone(Collector) \/ Alone(AcceptRoute)
    \/ Alone(WatchExternal) \/ Alone(WatchObject("Service")) \/ Alone(ExtDisturbance)

Spec == Init /\ [][Next]_vars

\* Both workers end every reconcile and take up every request, events are
\* delivered, and the garbage collector runs.
FairSpec ==
    /\ Spec
    /\ WF_vars(WorkerStep) /\ WF_vars(Alone(ExtWorkerStep))
    /\ WF_vars(WatchRef \/ WatchLLMISvc \/ WatchLLMRoute \/ Alone(WatchExternal))
    /\ WF_vars(WatchExternalRoute \/ Alone(WatchObject("Service")) \/ Alone(Collector))
-----------------------------------------------------------------------------
(* Properties. *)

\* The variables keep their types, and an object that is not there has no
\* content.
TypeOK ==
    /\ ExtTypeOK
    /\ kind \in {"LLMInferenceService", "ExternalModel"}
    /\ ref \in Ref /\ refCache \in Ref
    /\ llm \in LLM /\ llmCache \in LLM
    /\ pol \in [Policies -> PolicyStates]
    /\ queued \in BOOLEAN /\ stale \in BOOLEAN
    /\ worker \in Worker

\* What a status should say of the backend.  An external model stays Ready
\* while a route that was accepted once is there.
Follows ==
    LET phase == ref.st.phase
        route == obj["HTTPRoute"] IN
    IF kind = "LLMInferenceService"
    THEN /\ phase = "Ready" <=> llm = [svc |-> "ready", route |-> "ours"]
         /\ phase = "Failed" <=> llm.route = "other" \/ llm = [svc |-> "none", route |-> "ours"]
    ELSE /\ ext.uid # 0 /\ route.accepted => phase = "Ready"
         /\ route.owner = 0 => phase \in {"Pending", "Failed"}

\* The watches keep up with the backend: once nothing changes any more, the
\* status says for good what the backend is and is that of the current spec,
\* through lagging caches of five kinds of objects, failures and restarts;
\* except when the last reconcile worked on an old copy of the MaaSModelRef
\* or its status write failed, which updateStatus does not retry.
StatusConverges == <>[](ref.exists /\ ~ref.deleting /\ ~stale => Follows /\ ref.st.gen = ref.rev)

\* handleDeletion is complete in spite of failed calls, conflicts, restarts
\* and old caches: when a MaaSModelRef loses its finalizer no policy is left
\* that was generated before its deletion and is still managed.
DeletionIsClean ==
    [][ref.deleting /\ ~ref'.exists => \A k \in Policies : pol[k] # "managed"]_vars

\* Every deletion of a MaaSModelRef completes.
DeletionCompletes == ref.deleting ~> ~ref.deleting
=============================================================================
