-------------------------- MODULE TenantController --------------------------
(***************************************************************************)
(* The Tenant reconciler of maas-controller and the platform pipeline that *)
(* it drives, with the Tenant in the namespace of NamespaceGuard.  The     *)
(* reconciler deploys maas-api and the policies of the Tenant's gateway,   *)
(* reports their state, and tears them down before it lets a deleted or    *)
(* Removed Tenant go.  ensureDefaultTenant makes the Tenant again whenever *)
(* it is missing.                                                          *)
(*                                                                         *)
(* Of what the pipeline applies there is one object of each sort that the  *)
(* code treats differently: the Deployment in the application namespace,   *)
(* which a teardown lists through a cache; gateway-default-auth in the     *)
(* namespace of the gateway, an AuthPolicy, which it lists at the API      *)
(* server; and gateway-default-deny next to it, a TokenRateLimitPolicy,    *)
(* which like the CronJob and the Perses objects no teardown lists.  None  *)
(* of them lives in the Tenant's namespace, so they are found by their     *)
(* labels and are not garbage-collected.  The API server defaults an empty *)
(* gatewayRef and the manifests are installed.                             *)
(***************************************************************************)
EXTENDS NamespaceGuard, FiniteSets

CONSTANTS
    Gateways,           \* the gateways that a Tenant may name
    DefaultGateway,
    Missing,            \* the sets of prerequisites that may be missing at first
    Editable            \* bound: the parts of a Tenant that users edit

ASSUME GatewayAssumption == DefaultGateway \in Gateways

VARIABLES
    tenant,         \* the default-tenant at the API server
    tenantCache,    \* the informer's copy of it
    api,            \* the maas-api Deployment
    apiCache,       \* the informer's copy of it
    policy,         \* policy[g]: gateway-default-auth of gateway g
    deny,           \* the gateways with a gateway-default-deny
    up,             \* what the reads of gateways and prerequisites find
    params,         \* params.env names a maximum of expiration days
    queued,         \* a reconcile is requested
    timer,          \* a reconcile is requested for later (RequeueAfter)
    worker,         \* the reconcile in progress
    late,           \* history: when the last teardown began the Deployment was
                    \* there, and not yet in the informer's cache
    loose           \* history: the finalizer went without a teardown, from a
                    \* Tenant that was edited since, or after such a late
                    \* teardown, and was not put back

platform == <<api, policy, deny>>
history == <<late, loose>>
tenantVars == <<tenant, tenantCache, platform, apiCache, up, params, queued, timer, worker,
                history>>
vars == <<guardVars, used, tenantVars>>
-----------------------------------------------------------------------------
Prerequisites == {"AuthConfig", "Secret", "Monitoring"}
Phases == {"", "Pending", "Failed", "Active", "Degraded"}

\* ms is the management-state annotation, Other any that is not supported;
\* days: spec.apiKeys.maxExpirationDays is set; rev counts the users' edits.
Tenant == [exists : BOOLEAN, rev : Nat, deleting : BOOLEAN, fin : BOOLEAN,
           ms : {"Managed", "Removed", "Unmanaged", "Other"}, gw : Gateways, days : BOOLEAN,
           phase : Phases]
NoTenant == [exists |-> FALSE, rev |-> 0, deleting |-> FALSE, fin |-> FALSE, ms |-> "Managed",
             gw |-> DefaultGateway, days |-> FALSE, phase |-> ""]

\* What the Deployment was rendered from, and whether it is rolled out.
Deployment == [exists : BOOLEAN, gw : Gateways, days : BOOLEAN, rolled : BOOLEAN]
NoDeployment == [exists |-> FALSE, gw |-> DefaultGateway, days |-> FALSE, rolled |-> FALSE]

\* What the pipeline applies, and what a teardown lists of it.
Applied == {"api", "policy", "deny"}
Listed == {"api", "policy"}

\* todo: the objects still to apply or delete; pending: some were there;
\* warn: a prerequisite is missing that is only warned of.
Worker == [pc : {"idle", "finalizer", "park", "teardown", "release", "check", "run", "apply",
                 "report"},
           obj : Tenant, todo : SUBSET Applied, pending : BOOLEAN, warn : BOOLEAN]
Idle == [pc |-> "idle", obj |-> NoTenant, todo |-> {}, pending |-> FALSE, warn |-> FALSE]

At(pc, o) == [Idle EXCEPT !.pc = pc, !.obj = o]
AtAll(pc, o) == [Idle EXCEPT !.pc = pc, !.obj = o, !.todo = Listed]
-----------------------------------------------------------------------------
(* The worker. *)

Requeue == worker' = Idle /\ queued' = TRUE /\ UNCHANGED timer

\* Faulty: the result carries no RequeueAfter.
NoRequeueAfter == worker' = Idle /\ UNCHANGED <<queued, timer>>

RequeueAfter == worker' = Idle /\ timer' = TRUE /\ UNCHANGED queued

Done == worker' = Idle /\ UNCHANGED <<queued, timer>>

\* The API server takes a status only if it is based on the current version.
Current == tenant = worker.obj

\* What late is when a teardown begins with this step.
Begins == IF worker'.pc = "teardown" THEN api.exists /\ ~apiCache.exists ELSE late

\* reconcile up to the first call that is not a read.
Reconcile ==
    LET o == tenantCache IN
    /\ worker.pc = "idle"
    /\ queued
    /\ queued' = FALSE
    /\ worker' = CASE ~o.exists \/ (o.deleting /\ ~o.fin) -> Idle
                   [] o.exists /\ o.deleting /\ o.fin -> AtAll("teardown", o)
                   [] o.exists /\ ~o.deleting /\ o.ms \in {"Removed", "Unmanaged"} -> At("park", o)
                   [] o.exists /\ ~o.deleting /\ o.ms \in {"Managed", "Other"} /\ ~o.fin ->
                        At("finalizer", o)
                   [] OTHER -> At("check", o)
    /\ late' = Begins
    /\ UNCHANGED <<tenant, tenantCache, platform, apiCache, up, params, timer, loose>>

\* The patch has no version: it is for whatever Tenant is there.
AddFinalizer ==
    /\ worker.pc = "finalizer"
    /\ tenant' = IF tenant.exists THEN [tenant EXCEPT !.fin = TRUE] ELSE tenant
    /\ loose' = (loose /\ ~tenant.exists)
    /\ Requeue
    /\ UNCHANGED <<tenantCache, platform, apiCache, up, params, late>>

\* handleIdleManagementState up to the teardown.
Park ==
    LET o == [worker.obj EXCEPT !.phase = ""] IN
    /\ worker.pc = "park"
    /\ \/ ~Current /\ Requeue /\ UNCHANGED tenant
       \/ /\ Current
          /\ tenant' = o
          /\ worker' = CASE ~o.fin -> Idle
                         [] o.fin /\ o.ms = "Removed" -> AtAll("teardown", o)
                         [] OTHER -> At("release", o)
          /\ UNCHANGED <<queued, timer>>
    /\ late' = Begins
    /\ UNCHANGED <<tenantCache, platform, apiCache, up, params, loose>>

\* Faulty: what is being deleted counts as gone.
PolicyNotTerminating(g) == policy[g] = "live"

\* What the lists of a teardown find: live at the API server.
PolicyFound(g) == policy[g] # "none"

\* finalizeTenantDeletion: what is listed is deleted and has to be gone from
\* the next list.  A policy may have finalizers of its own.
Teardown(c) ==
    LET g == worker.obj.gw
        found == IF c = "api" THEN apiCache.exists ELSE PolicyFound(g) IN
    /\ worker.pc = "teardown"
    /\ c \in worker.todo
    /\ \/ /\ c = "api" /\ UNCHANGED policy
          /\ api' = IF found THEN NoDeployment ELSE api
       \/ /\ c = "policy" /\ UNCHANGED api
          /\ \E after \in {"none", "terminating"} :
                policy' = [policy EXCEPT ![g] = IF @ = "live" THEN after ELSE @]
    /\ worker' = [worker EXCEPT !.todo = @ \ {c}, !.pending = @ \/ found]
    /\ UNCHANGED <<tenant, tenantCache, deny, apiCache, up, params, queued, timer, history>>

TornDown ==
    /\ worker.pc = "teardown"
    /\ worker.todo = {}
    /\ \/ worker.pending /\ RequeueAfter
       \/ ~worker.pending /\ worker' = At("release", worker.obj) /\ UNCHANGED <<queued, timer>>
    /\ UNCHANGED <<tenant, tenantCache, platform, apiCache, up, params, history>>

\* RemoveFinalizer, again by a patch without a version.
Release ==
    /\ worker.pc = "release"
    /\ tenant' = IF tenant.deleting THEN NoTenant ELSE [tenant EXCEPT !.fin = FALSE]
    /\ IF tenant.exists THEN Done ELSE Requeue
    /\ loose' = \/ loose \/ late
                \/ ~worker.obj.deleting /\ worker.obj.ms = "Unmanaged"
                \/ ~worker.obj.deleting /\ worker.obj.rev # tenant.rev
    /\ UNCHANGED <<tenantCache, platform, apiCache, up, params, late>>

\* A status is written and the reconcile ends, with a RequeueAfter; on a
\* conflict it is repeated.
EndWith(phase) ==
    \/ Current /\ tenant' = [tenant EXCEPT !.phase = phase] /\ RequeueAfter
    \/ ~Current /\ Requeue /\ UNCHANGED tenant

\* What reconcile reports without deploying anything, "" if nothing blocks.
Blocked(o) ==
    CASE o.ms = "Other" -> "Failed"
      [] o.ms # "Other" /\ ~{o.gw, "AuthConfig"} \subseteq up -> "Pending"
      [] o.ms # "Other" /\ {o.gw, "AuthConfig"} \subseteq up /\ "Secret" \notin up -> "Failed"
      [] OTHER -> ""

\* validateGatewayExists, CheckDependencies and CollectPrerequisiteReport.
Check ==
    LET o == worker.obj IN
    /\ worker.pc = "check"
    /\ \/ Blocked(o) # "" /\ EndWith(Blocked(o))
       \/ Blocked(o) = "" /\ UNCHANGED <<tenant, queued, timer>>
          /\ worker' = [At("run", o) EXCEPT !.warn = "Monitoring" \notin up]
    /\ UNCHANGED <<tenantCache, platform, apiCache, up, params, history>>

\* Faulty: the file is not brought up to date.
KeepParams(o) == params

\* CustomizeParams: nothing is ever taken out of params.env.
CustomizeParams(o) == params \/ o.days

\* RunPlatform up to ApplyRendered; it looks for the gateway again.
RunPlatform ==
    LET o == worker.obj IN
    /\ worker.pc = "run"
    /\ \/ o.gw \notin up /\ EndWith("Failed") /\ UNCHANGED params
       \/ o.gw \in up /\ params' = CustomizeParams(o)
          /\ worker' = [worker EXCEPT !.pc = "apply", !.todo = Applied]
          /\ UNCHANGED <<tenant, queued, timer>>
    /\ UNCHANGED <<tenantCache, platform, apiCache, up, history>>

\* A changed configuration changes the hash annotation: a new rollout.
Rendered(o) ==
    [exists |-> TRUE, gw |-> o.gw, days |-> params,
     rolled |-> api.exists /\ api.gw = o.gw /\ api.days = params /\ api.rolled]

\* ApplyRendered: a server-side apply of each object.  One that is being
\* deleted takes it, and goes all the same.
Apply(c) ==
    LET g == worker.obj.gw IN
    /\ worker.pc = "apply"
    /\ c \in worker.todo
    /\ \/ c = "api" /\ api' = Rendered(worker.obj) /\ UNCHANGED <<policy, deny>>
       \/ c = "policy" /\ UNCHANGED <<api, deny>>
          /\ policy' = [policy EXCEPT ![g] = IF @ = "none" THEN "live" ELSE @]
       \/ c = "deny" /\ deny' = deny \cup {g} /\ UNCHANGED <<api, policy>>
    /\ worker' = [worker EXCEPT !.todo = @ \ {c},
                                !.pc = IF worker.todo = {c} THEN "report" ELSE "apply"]
    /\ UNCHANGED <<tenant, tenantCache, apiCache, up, params, queued, timer, history>>

\* MaasAPIDeploymentReady.
MaasAPIDeploymentReady == apiCache.exists /\ apiCache.rolled

Report ==
    /\ worker.pc = "report"
    /\ EndWith(IF ~MaasAPIDeploymentReady THEN "Pending"
               ELSE IF worker.warn THEN "Degraded" ELSE "Active")
    /\ UNCHANGED <<tenantCache, platform, apiCache, up, params, history>>

\* A call of the worker fails.  A failure of the checks or of the pipeline is
\* reported, any other is an error, as is that of a status write.
CallFails ==
    /\ Disturb("failure")
    /\ worker.pc # "idle"
    /\ \/ Requeue /\ UNCHANGED tenant
       \/ worker.pc = "check" /\ worker.obj.ms # "Other" /\ EndWith("Pending")
       \/ worker.pc \in {"check", "run", "apply", "report"} /\ EndWith("Failed")
    /\ UNCHANGED <<tenantCache, platform, apiCache, up, params, history>>
-----------------------------------------------------------------------------
(* Watches, timers and the runnable. *)

WatchTenant ==
    /\ tenantCache # tenant
    /\ tenantCache' = tenant
    /\ queued' = TRUE
    /\ UNCHANGED <<tenant, platform, apiCache, up, params, timer, worker, history>>

\* Nothing is enqueued for a Deployment.
WatchDeployment ==
    /\ apiCache # api
    /\ apiCache' = api
    /\ UNCHANGED <<tenant, tenantCache, platform, up, params, queued, timer, worker, history>>

TimerFires ==
    /\ timer
    /\ timer' = FALSE
    /\ queued' = TRUE
    /\ UNCHANGED <<tenant, tenantCache, platform, apiCache, up, params, worker, history>>

\* ensureDefaultTenantRunnable's tick.  Only an active namespace takes it.
EnsureDefaultTenant ==
    /\ ~tenantCache.exists
    /\ ~tenant.exists /\ ns = "active"
    /\ tenant' = [NoTenant EXCEPT !.exists = TRUE]
    /\ UNCHANGED <<tenantCache, platform, apiCache, up, params, queued, timer, worker, history>>

\* mgr.Start: the caches are filled and the Tenant is new.
StartManager ==
    /\ tenantCache' = tenant /\ apiCache' = api
    /\ queued' = tenant.exists
    /\ UNCHANGED <<tenant, platform, up, params, timer, worker, history>>
-----------------------------------------------------------------------------
(* The environment. *)

\* A user edits the Tenant.
EditTenant(part, new) ==
    /\ Disturb("tenant")
    /\ part \in Editable
    /\ tenant.exists /\ ~tenant.deleting
    /\ tenant' = [new EXCEPT !.rev = used + 1]
    /\ UNCHANGED <<tenantCache, platform, apiCache, up, params, queued, timer, worker, history>>

Edits ==
    \/ \E ms \in {"Managed", "Removed", "Unmanaged", "Other"} \ {tenant.ms} :
          EditTenant("ms", [tenant EXCEPT !.ms = ms])
    \/ \E g \in Gateways \ {tenant.gw} : EditTenant("gw", [tenant EXCEPT !.gw = g])
    \/ EditTenant("days", [tenant EXCEPT !.days = ~@])

\* The object goes at once unless it has its finalizer.
Deleted(o) == IF o.fin THEN [o EXCEPT !.deleting = TRUE] ELSE NoTenant

DeleteTenant ==
    /\ Disturb("tenant")
    /\ tenant.exists /\ ~tenant.deleting
    /\ tenant' = Deleted(tenant)
    /\ UNCHANGED <<tenantCache, platform, apiCache, up, params, queued, timer, worker, history>>

\* A gateway or a prerequisite comes or goes, as the reads show it; only the
\* Secret is watched.  The REST mapper does not forget a CRD.
ChangePrerequisite(p) ==
    /\ Disturb("prerequisite")
    /\ p = "AuthConfig" => p \notin up
    /\ up' = IF p \in up THEN up \ {p} ELSE up \cup {p}
    /\ queued' = (queued \/ (mgr = "running" /\ p = "Secret"))
    /\ UNCHANGED <<tenant, tenantCache, platform, apiCache, params, timer, worker, history>>

\* Somebody deletes an object of the platform.
DeleteObject ==
    /\ Disturb("object")
    /\ \/ api.exists /\ api' = NoDeployment /\ UNCHANGED <<policy, deny>>
       \/ \E g \in Gateways : policy[g] = "live" /\ UNCHANGED <<api, deny>>
             /\ policy' = [policy EXCEPT ![g] = "terminating"]
       \/ \E g \in deny : deny' = deny \ {g} /\ UNCHANGED <<api, policy>>
    /\ UNCHANGED <<tenant, tenantCache, apiCache, up, params, queued, timer, worker, history>>

\* Kubernetes rolls the Deployment out.
Rollout ==
    /\ api.exists /\ ~api.rolled
    /\ api' = [api EXCEPT !.rolled = TRUE]
    /\ UNCHANGED <<tenant, tenantCache, apiCache, policy, deny, up, params, queued, timer, worker,
                   history>>

\* Kuadrant lets go of a policy.
PolicyGone ==
    /\ \E g \in Gateways : policy[g] = "terminating" /\ policy' = [policy EXCEPT ![g] = "none"]
    /\ UNCHANGED <<tenant, tenantCache, api, apiCache, deny, up, params, queued, timer, worker,
                   history>>

\* kubectl delete namespace: everything in it is deleted, and then it goes.
DeleteNamespace ==
    /\ Disturb("namespace")
    /\ ns = "active"
    /\ ns' = "terminating"
    /\ tenant' = Deleted(tenant)
    /\ UNCHANGED <<perm, mgr, guard, tenantCache, platform, apiCache, up, params, queued, timer,
                   worker, history>>

NamespaceGone ==
    /\ ns = "terminating"
    /\ ~tenant.exists
    /\ ns' = "absent"
    /\ UNCHANGED <<perm, mgr, guard, used, tenantVars>>

\* The container ends, and with it all that was in memory or in its files.
Restart ==
    /\ Disturb("restart")
    /\ mgr = "running"
    /\ mgr' = "starting" /\ guard' = GuardIdle
    /\ tenantCache' = NoTenant /\ apiCache' = NoDeployment
    /\ worker' = Idle /\ queued' = FALSE /\ timer' = FALSE /\ params' = FALSE
    /\ UNCHANGED <<ns, perm, tenant, platform, up, history>>
-----------------------------------------------------------------------------
\* A fresh installation.
Init ==
    /\ GuardInit
    /\ tenant = NoTenant /\ tenantCache = NoTenant
    /\ api = NoDeployment /\ apiCache = NoDeployment
    /\ policy = [g \in Gateways |-> "none"]
    /\ up \in {(Gateways \cup Prerequisites) \ m : m \in Missing}
    /\ params = FALSE /\ queued = FALSE /\ timer = FALSE
    /\ deny = {} /\ late = FALSE /\ loose = FALSE
    /\ worker = Idle

\* The guard, whose success at the start starts the manager.
Guarding ==
    /\ GuardStep \/ GuardCallFails
    /\ IF mgr = "starting" /\ mgr' = "running" THEN StartManager ELSE UNCHANGED tenantVars

WorkerStep ==
    \/ Reconcile \/ AddFinalizer \/ Park \/ TornDown \/ Release \/ Check \/ RunPlatform \/ Report
    \/ \E c \in Listed : Teardown(c)
    \/ \E c \in Applied : Apply(c)

\* What happens in the manager.
Managed(A) == mgr = "running" /\ A /\ UNCHANGED <<guardVars, used>>

Disturbance ==
    \/ CallFails \/ Edits \/ DeleteTenant \/ DeleteObject
    \/ \E p \in Gateways \cup Prerequisites : ChangePrerequisite(p)

Next ==
    \/ Guarding
    \/ Managed(WorkerStep) \/ Managed(WatchTenant) \/ Managed(WatchDeployment)
    \/ Managed(TimerFires) \/ Managed(EnsureDefaultTenant)
    \/ (Rollout \/ PolicyGone) /\ UNCHANGED <<guardVars, used>>
    \/ Disturbance /\ UNCHANGED guardVars
    \/ OperatorCreatesNamespace /\ UNCHANGED tenantVars
    \/ \E p \in {"full", "get", "none"} : ChangePermission(p) /\ UNCHANGED tenantVars
    \/ DeleteNamespace \/ NamespaceGone \/ Restart

Spec == Init /\ [][Next]_vars

\* The guard's calls return, the worker ends every reconcile and takes up
\* every request, timers fire, events are delivered, the runnable ticks, and
\* Kubernetes and Kuadrant do their part.
FairSpec ==
    /\ Spec
    /\ WF_vars(GuardStep /\ Guarding)
    /\ WF_vars(Managed(WorkerStep)) /\ WF_vars(Managed(TimerFires))
    /\ WF_vars(Managed(WatchTenant)) /\ WF_vars(Managed(WatchDeployment))
    /\ WF_vars(Managed(EnsureDefaultTenant))
    /\ WF_vars((Rollout \/ PolicyGone) /\ UNCHANGED <<guardVars, used>>)
    /\ WF_vars(NamespaceGone)
-----------------------------------------------------------------------------
(* Properties. *)

\* The variables keep their types; the guard's attempts stay within Steps.
TypeOK ==
    /\ GuardTypeOK
    /\ tenant \in Tenant /\ tenantCache \in Tenant
    /\ api \in Deployment /\ apiCache \in Deployment
    /\ policy \in [Gateways -> {"none", "live", "terminating"}]
    /\ up \subseteq Gateways \cup Prerequisites
    /\ params \in BOOLEAN /\ queued \in BOOLEAN /\ timer \in BOOLEAN
    /\ deny \subseteq Gateways /\ late \in BOOLEAN /\ loose \in BOOLEAN
    /\ worker \in Worker

\* finalizeTenantDeletion keeps the finalizer until what it lists is gone,
\* through failed calls, old caches and edits in between: a Tenant that is
\* deleted or Removed loses it only when gateway-default-auth of its gateway is
\* not there, not even terminating, and the Deployment is not there either,
\* unless it was still missing in the informer's cache when the teardown began.
\* (What the teardown does not list stays: see gateway-default-deny above.)
TeardownBeforeRelease ==
    [][tenant.fin /\ ~tenant'.fin /\ (worker.obj.deleting \/ worker.obj.ms = "Removed") =>
         (api.exists => late) /\ policy[worker.obj.gw] = "none"]_vars

\* What is there for the Tenant as it is, once it has been reconciled.  A Tenant
\* that is Removed keeps the Deployment if its finalizer was gone before, and a
\* maximum of expiration days is deployed if params.env has one, which it has
\* from the first Tenant with one until the process ends.
Follows ==
    CASE tenant.ms = "Removed" ->
           ~tenant.fin /\ tenant.phase = "" /\ (api.exists => loose)
      [] tenant.ms = "Unmanaged" -> ~tenant.fin /\ tenant.phase = ""
      [] Blocked(tenant) # "" /\ tenant.ms \in {"Managed", "Other"} ->
           tenant.fin /\ tenant.phase = Blocked(tenant)
      [] OTHER ->
           /\ tenant.fin
           /\ tenant.phase = IF "Monitoring" \in up THEN "Active" ELSE "Degraded"
           /\ api.exists /\ api.gw = tenant.gw /\ api.rolled
           /\ api.days = params /\ (tenant.days => params)
           /\ policy[tenant.gw] = "live" /\ tenant.gw \in deny

\* Once nothing changes any more there is a Tenant for good whenever there is
\* the namespace, its status says what blocks the platform or that it works,
\* and what the current Tenant asks for is deployed and rolled out, although
\* no event tells the reconciler of a Deployment, a gateway, a CRD or a
\* policy, old caches are read and calls fail.
PlatformConverges == <>[](ns = "active" => tenant.exists /\ ~tenant.deleting /\ Follows)

\* A process that starts while the namespace is terminating waits for the
\* finalizer of the Tenant.
StartWaitsForTenant == mgr = "starting" /\ ns = "terminating" /\ tenant.fin

\* With the permission to see and create namespaces the controller brings the
\* subscription namespace back whenever it is deleted or found missing,
\* through lost races with the operator, failed calls and restarts: it waits
\* out a termination that the teardown of the Tenant holds up, and creates
\* the namespace anew; unless the process restarts in the meantime.
NamespaceReturns ==
    perm = "full" /\ ns # "active" ~> ns = "active" \/ perm # "full" \/ StartWaitsForTenant

\* What happens then: the process waits in vain.  Only its own Tenant
\* controller would remove the finalizer, which starts when the wait is over,
\* so through polls that time out, exits, restarts and retries it gets no
\* further, as long as its service account may see the namespace.
StartWaitsForever ==
    [][StartWaitsForTenant /\ perm # "none" => StartWaitsForTenant']_vars
=============================================================================
