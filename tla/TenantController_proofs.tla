----------------------- MODULE TenantController_proofs ----------------------
(***************************************************************************)
(* Proofs about TenantController, for any gateways, prerequisites, number  *)
(* of attempts of the guard and number of disturbances of any kind.        *)
(*                                                                         *)
(* The teardown goes through the Deployment and the policy one after the   *)
(* other and meanwhile others delete and roll out.  TornInv says what it   *)
(* has found out so far, provided that it has found nothing: that stays    *)
(* true until the finalizer goes, since only the worker itself creates     *)
(* objects.  Until it comes to the Deployment, one that is there is in the *)
(* informer's cache, unless the teardown began late.                       *)
(***************************************************************************)
EXTENDS TenantController, TLAPS

\* Only what exists has a finalizer, and only what is not being deleted is
\* parked.
ObjectInv ==
    /\ tenant.fin => tenant.exists
    /\ worker.pc = "park" => ~worker.obj.deleting /\ worker.obj.ms \in {"Removed", "Unmanaged"}

\* What a teardown that found nothing has been through is gone, and all of it
\* before the finalizer goes.
ApiGone == api.exists => late

TornInv ==
    /\ worker.pc = "teardown" /\ ~worker.pending =>
         /\ "api" \in worker.todo => ApiGone \/ apiCache.exists
         /\ "api" \notin worker.todo => ApiGone
         /\ "policy" \notin worker.todo => policy[worker.obj.gw] = "none"
    /\ worker.pc = "release" /\ (worker.obj.deleting \/ worker.obj.ms = "Removed") =>
         ApiGone /\ policy[worker.obj.gw] = "none"

IInv == TypeOK /\ ObjectInv /\ TornInv

USE DEF platform, history
-----------------------------------------------------------------------------
(* Operators. *)

Pcs == {"idle", "finalizer", "park", "teardown", "release", "check", "run", "apply", "report"}

LEMMA Types ==
    /\ NoTenant \in Tenant /\ ~NoTenant.exists /\ ~NoTenant.fin
    /\ NoDeployment \in Deployment /\ ~NoDeployment.exists
    /\ Idle \in Worker /\ Idle.pc = "idle"
    /\ GuardIdle \in Guard
<1>1. NoTenant \in Tenant
  BY GatewayAssumption DEF NoTenant, Tenant, Phases
<1>2. ~NoTenant.exists /\ ~NoTenant.fin
  BY DEF NoTenant
<1>3. NoDeployment \in Deployment
  BY GatewayAssumption DEF NoDeployment, Deployment
<1>4. ~NoDeployment.exists
  BY DEF NoDeployment
<1>5. Idle \in Worker /\ Idle.pc = "idle"
  BY <1>1 DEF Idle, Worker
<1>6. GuardIdle \in Guard
  BY GuardAssumption DEF GuardIdle, Guard
<1> QED
  BY <1>1, <1>2, <1>3, <1>4, <1>5, <1>6

\* A worker that has just come to pc.
LEMMA AtType ==
    ASSUME NEW pc \in Pcs, NEW o \in Tenant
    PROVE  /\ At(pc, o) \in Worker /\ At(pc, o).pc = pc /\ At(pc, o).obj = o
           /\ AtAll(pc, o) \in Worker /\ AtAll(pc, o).pc = pc /\ AtAll(pc, o).obj = o
           /\ AtAll(pc, o).todo = Listed
<1> USE Types
<1>1. At(pc, o) \in Worker
  BY DEF At, Worker, Pcs
<1>2. At(pc, o).pc = pc /\ At(pc, o).obj = o
  BY DEF At, Worker
<1>3. AtAll(pc, o) \in Worker
  BY DEF AtAll, Worker, Pcs, Listed, Applied
<1>4. /\ AtAll(pc, o).pc = pc /\ AtAll(pc, o).obj = o
      /\ AtAll(pc, o).todo = Listed
  BY DEF AtAll, Worker
<1> QED
  BY <1>1, <1>2, <1>3, <1>4

\* Another phase, with or without the finalizer, another spec.
LEMMA TenantWrites ==
    ASSUME NEW o \in Tenant
    PROVE  /\ \A phase \in Phases : LET t == [o EXCEPT !.phase = phase]
                 IN  /\ t \in Tenant /\ t.exists = o.exists /\ t.fin = o.fin
                     /\ t.deleting = o.deleting /\ t.ms = o.ms /\ t.gw = o.gw
           /\ \A fin \in BOOLEAN : LET t == [o EXCEPT !.fin = fin]
                 IN  t \in Tenant /\ t.exists = o.exists /\ t.fin = fin
           /\ Deleted(o) \in Tenant /\ Deleted(o).fin = o.fin
           /\ Deleted(o).fin => Deleted(o).exists = o.exists
<1> USE Types
<1>1. ASSUME NEW phase \in Phases
      PROVE  LET t == [o EXCEPT !.phase = phase]
             IN  /\ t \in Tenant /\ t.exists = o.exists /\ t.fin = o.fin
                 /\ t.deleting = o.deleting /\ t.ms = o.ms /\ t.gw = o.gw
  <2> DEFINE t == [o EXCEPT !.phase = phase]
  <2>1. t \in Tenant
    BY DEF Tenant
  <2>2. /\ t.exists = o.exists /\ t.fin = o.fin
        /\ t.deleting = o.deleting /\ t.ms = o.ms /\ t.gw = o.gw
    BY DEF Tenant
  <2> QED
    BY <2>1, <2>2
<1>2. ASSUME NEW fin \in BOOLEAN
      PROVE  LET t == [o EXCEPT !.fin = fin]
             IN  t \in Tenant /\ t.exists = o.exists /\ t.fin = fin
  <2> DEFINE t == [o EXCEPT !.fin = fin]
  <2>1. t \in Tenant
    BY DEF Tenant
  <2>2. t.exists = o.exists /\ t.fin = fin
    BY DEF Tenant
  <2> QED
    BY <2>1, <2>2
<1>3. /\ Deleted(o) \in Tenant /\ Deleted(o).fin = o.fin
      /\ Deleted(o).fin => Deleted(o).exists = o.exists
  <2>1. CASE o.fin
    <3> DEFINE t == [o EXCEPT !.deleting = TRUE]
    <3>1. t \in Tenant
      BY DEF Tenant
    <3>2. t.exists = o.exists /\ t.fin = o.fin
      BY DEF Tenant
    <3>3. Deleted(o) = t
      BY <2>1 DEF Deleted
    <3> HIDE DEF t
    <3> QED
      BY <3>1, <3>2, <3>3
  <2>2. CASE ~o.fin
    <3>1. Deleted(o) = NoTenant /\ o.fin = FALSE /\ NoTenant.fin = FALSE
      BY <2>2 DEF Deleted, Tenant, NoTenant
    <3> QED
      BY <3>1
  <2> QED
    BY <2>1, <2>2
<1> QED
  BY <1>1, <1>2, <1>3
-----------------------------------------------------------------------------
(* The guard. *)

LEMMA DisturbType ==
    ASSUME GuardTypeOK, NEW k, Disturb(k)
    PROVE  used' \in 0 .. MaxDisturbances
BY GuardAssumption DEF GuardTypeOK, Disturb

LEMMA GuardMoves ==
    ASSUME GuardTypeOK
    PROVE  /\ \A ok \in BOOLEAN : Return(ok) => guard' \in Guard /\ mgr' \in {"starting", "running"}
           /\ \A pc \in {"poll", "final", "create"} :
                 Goto(pc) => guard' \in Guard /\ mgr' \in {"starting", "running"}
           /\ Retry => guard' \in Guard /\ mgr' \in {"starting", "running"}
<1> USE Types
<1>0. mgr \in {"starting", "running"} /\ guard.tries \in 1 .. Steps
  BY DEF GuardTypeOK, Guard
<1>1. \A ok \in BOOLEAN : Return(ok) => guard' \in Guard /\ mgr' \in {"starting", "running"}
  BY <1>0 DEF Return
<1>2. \A pc \in {"poll", "final", "create"} :
         Goto(pc) => guard' \in Guard /\ mgr' \in {"starting", "running"}
  BY <1>0, GuardAssumption DEF Goto, Guard
<1>3. ASSUME Retry PROVE guard' \in Guard /\ mgr' \in {"starting", "running"}
  <2>1. CASE Return(FALSE)
    BY <1>1, <2>1
  <2>2. CASE guard.tries > 1 /\ guard' = [pc |-> "create", tries |-> guard.tries - 1] /\ UNCHANGED mgr
    <3> DEFINE n == guard.tries - 1
    <3>1. n \in 1 .. Steps
      BY <1>0, <2>2, GuardAssumption
    <3>2. guard' = [pc |-> "create", tries |-> n] /\ UNCHANGED mgr
      BY <2>2
    <3> HIDE DEF n
    <3> QED
      BY <1>0, <3>1, <3>2 DEF Guard
  <2> QED
    BY <1>3, <2>1, <2>2 DEF Retry
<1> QED
  BY <1>1, <1>2, <1>3

\* The calls of ensureSubscriptionNamespaceWithClient.
LEMMA GuardType ==
    ASSUME GuardTypeOK, GuardStep \/ GuardCallFails
    PROVE  GuardTypeOK'
<1> USE GuardMoves
<1>1. /\ ns' \in {"absent", "active", "terminating"} /\ perm' \in {"full", "get", "none"}
      /\ used' \in 0 .. MaxDisturbances
  BY DisturbType DEF GuardTypeOK, GuardStep, EnsureSubscriptionNamespace, PollTermination,
     resolveNamespaceAfterTerminationWait, CreateNamespace, RecheckNamespace, GuardCallFails
<1>2. guard' \in Guard /\ mgr' \in {"starting", "running"}
  <2>1. CASE EnsureSubscriptionNamespace
    BY <2>1 DEF EnsureSubscriptionNamespace
  <2>2. CASE PollTermination
    BY <2>2 DEF PollTermination
  <2>3. CASE resolveNamespaceAfterTerminationWait
    BY <2>3 DEF resolveNamespaceAfterTerminationWait
  <2>4. CASE CreateNamespace
    <3>1. [guard EXCEPT !.pc = "recheck"] \in Guard
      BY DEF GuardTypeOK, Guard
    <3> QED
      BY <2>4, <3>1 DEF CreateNamespace, GuardTypeOK
  <2>5. CASE RecheckNamespace
    BY <2>5 DEF RecheckNamespace
  <2>6. CASE GuardCallFails
    BY <2>6 DEF GuardCallFails
  <2> QED
    BY <2>1, <2>2, <2>3, <2>4, <2>5, <2>6 DEF GuardStep
<1> QED
  BY <1>1, <1>2 DEF GuardTypeOK

\* Nothing the guard reads or writes changes, other than the count.
LEMMA GuardKept ==
    ASSUME GuardTypeOK, UNCHANGED guardVars, used' \in 0 .. MaxDisturbances
    PROVE  GuardTypeOK'
BY DEF GuardTypeOK, guardVars
-----------------------------------------------------------------------------
(* Every action keeps IInv, and all but Release keep the finalizer. *)

Kept == tenant.fin => tenant'.fin

LEMMA TypeParts ==
    ASSUME TypeOK, GuardTypeOK', tenant' \in Tenant, tenantCache' \in Tenant,
           api' \in Deployment, apiCache' \in Deployment,
           policy' \in [Gateways -> {"none", "live", "terminating"}], deny' \subseteq Gateways,
           up' \subseteq Gateways \cup Prerequisites, worker' \in Worker,
           params' \in BOOLEAN \/ UNCHANGED params, queued' \in BOOLEAN \/ UNCHANGED queued,
           timer' \in BOOLEAN \/ UNCHANGED timer,
           late' \in BOOLEAN \/ UNCHANGED late, loose' \in BOOLEAN \/ UNCHANGED loose
    PROVE  TypeOK'
<1>1. params' \in BOOLEAN /\ queued' \in BOOLEAN
  BY DEF TypeOK
<1>2. timer' \in BOOLEAN /\ late' \in BOOLEAN /\ loose' \in BOOLEAN
  BY DEF TypeOK
<1> QED
  BY <1>1, <1>2 DEF TypeOK

\* The worker stays where it is, and objects only go.
LEMMA StillStep ==
    ASSUME IInv, TypeOK', UNCHANGED <<worker, history>>, tenant'.fin => tenant'.exists,
           apiCache' = apiCache \/ apiCache' = api',
           api'.exists => api.exists, \A g \in Gateways : policy[g] = "none" => policy'[g] = "none"
    PROVE  IInv'
<1>1. worker.obj.gw \in Gateways
  BY DEF IInv, TypeOK, Worker, Tenant
<1> QED
  BY <1>1 DEF IInv, ObjectInv, TornInv, ApiGone

\* The worker stops, or goes on with the platform.
LEMMA AwayStep ==
    ASSUME TypeOK', tenant'.fin => tenant'.exists,
           worker'.pc \notin {"park", "teardown", "release"}
    PROVE  IInv'
BY DEF IInv, ObjectInv, TornInv

\* The status write that ends a reconcile.
LEMMA EndWithEffect ==
    ASSUME IInv, NEW phase \in Phases, EndWith(phase)
    PROVE  /\ tenant' \in Tenant /\ (tenant'.fin => tenant'.exists) /\ Kept
           /\ worker' = Idle
           /\ queued' \in BOOLEAN \/ UNCHANGED queued
           /\ timer' \in BOOLEAN \/ UNCHANGED timer
<1> USE DEF IInv
<1>1. tenant \in Tenant /\ (tenant.fin => tenant.exists)
  BY DEF TypeOK, ObjectInv
<1>2. CASE tenant' = [tenant EXCEPT !.phase = phase] /\ RequeueAfter
  <2>1. tenant' \in Tenant /\ tenant'.exists = tenant.exists /\ tenant'.fin = tenant.fin
    BY <1>1, <1>2, TenantWrites
  <2>2. worker' = Idle /\ UNCHANGED queued /\ timer' = TRUE
    BY <1>2 DEF RequeueAfter
  <2> QED
    BY <1>1, <2>1, <2>2 DEF Kept
<1>3. CASE Requeue /\ UNCHANGED tenant
  BY <1>1, <1>3 DEF Requeue, Kept
<1> QED
  BY <1>2, <1>3 DEF EndWith

\* What a teardown knows when it begins.
LEMMA BeginsEffect ==
    ASSUME TypeOK, late' = Begins, UNCHANGED <<api, apiCache>>
    PROVE  /\ late' \in BOOLEAN
           /\ worker'.pc = "teardown" => (ApiGone \/ apiCache.exists)'
BY DEF TypeOK, Begins, ApiGone

LEMMA ReconcileStep ==
    ASSUME IInv, GuardTypeOK', Reconcile
    PROVE  IInv' /\ Kept
<1> USE Types, AtType DEF IInv, Pcs
<1> DEFINE o == tenantCache
<1>0. /\ UNCHANGED <<tenant, tenantCache, platform, apiCache, up, params, timer, loose>>
      /\ queued' = FALSE /\ o \in Tenant /\ late' = Begins
  BY DEF Reconcile, TypeOK
<1>1. \/ worker' = Idle
      \/ worker' = AtAll("teardown", o)
      \/ worker' = At("park", o) /\ ~o.deleting /\ o.ms \in {"Removed", "Unmanaged"}
      \/ worker' = At("finalizer", o)
      \/ worker' = At("check", o)
  <2>1. CASE ~o.exists \/ (o.deleting /\ ~o.fin)
    BY <2>1 DEF Reconcile
  <2>2. CASE o.exists /\ o.deleting /\ o.fin
    BY <2>2 DEF Reconcile
  <2>3. CASE o.exists /\ ~o.deleting /\ o.ms \in {"Removed", "Unmanaged"}
    BY <2>3 DEF Reconcile
  <2>4. CASE o.exists /\ ~o.deleting /\ o.ms \notin {"Removed", "Unmanaged"}
    <3>1. o.ms \in {"Managed", "Other"}
      BY <1>0, <2>4 DEF Tenant
    <3> QED
      BY <2>4, <3>1 DEF Reconcile
  <2> QED
    BY <2>1, <2>2, <2>3, <2>4
<1> HIDE DEF o
<1>2. worker' \in Worker
  BY <1>0, <1>1
<1>3. TypeOK'
  BY <1>0, <1>2, TypeParts, BeginsEffect DEF TypeOK
<1>4. ObjectInv' /\ TornInv'
  BY <1>0, <1>1, BeginsEffect DEF ObjectInv, TornInv, ApiGone, Listed
<1> QED
  BY <1>0, <1>3, <1>4 DEF Kept

LEMMA FinalizerStep ==
    ASSUME IInv, GuardTypeOK', AddFinalizer
    PROVE  IInv' /\ Kept
<1> USE Types DEF IInv
<1>0. /\ UNCHANGED <<tenantCache, platform, apiCache, up, params, late, timer>>
      /\ worker' = Idle /\ queued' = TRUE /\ loose' \in BOOLEAN
  BY DEF AddFinalizer, Requeue
<1>1. tenant' \in Tenant /\ (tenant'.fin => tenant'.exists) /\ Kept
  <2>1. tenant \in Tenant /\ (tenant.fin => tenant.exists) /\ TRUE \in BOOLEAN
    BY DEF TypeOK, ObjectInv
  <2>2. CASE tenant.exists
    <3>1. tenant' = [tenant EXCEPT !.fin = TRUE]
      BY <2>2 DEF AddFinalizer
    <3>2. tenant' \in Tenant /\ tenant'.exists = tenant.exists /\ tenant'.fin = TRUE
      BY <2>1, <3>1, TenantWrites
    <3> QED
      BY <2>2, <3>2 DEF Kept
  <2>3. CASE ~tenant.exists
    BY <2>1, <2>3 DEF AddFinalizer, Kept
  <2> QED
    BY <2>2, <2>3
<1>2. TypeOK'
  BY <1>0, <1>1, TypeParts DEF TypeOK
<1> QED
  BY <1>0, <1>1, <1>2, AwayStep

LEMMA ParkStep ==
    ASSUME IInv, GuardTypeOK', Park
    PROVE  IInv' /\ Kept
<1> USE Types, AtType DEF IInv, Pcs
<1> DEFINE o == [worker.obj EXCEPT !.phase = ""]
<1>0. /\ UNCHANGED <<tenantCache, platform, apiCache, up, params, loose>> /\ worker.pc = "park"
      /\ late' = Begins /\ late' \in BOOLEAN
  BY BeginsEffect DEF Park
<1>1. /\ tenant \in Tenant /\ worker.obj \in Tenant /\ (tenant.fin => tenant.exists)
      /\ ~worker.obj.deleting /\ worker.obj.ms \in {"Removed", "Unmanaged"}
  BY <1>0 DEF TypeOK, ObjectInv, Worker
<1>2. /\ o \in Tenant /\ o.exists = worker.obj.exists /\ o.fin = worker.obj.fin
      /\ o.deleting = worker.obj.deleting /\ o.ms = worker.obj.ms
  <2>1. o \in Tenant
    BY <1>1 DEF Tenant, Phases
  <2>2. /\ o.exists = worker.obj.exists /\ o.fin = worker.obj.fin
        /\ o.deleting = worker.obj.deleting /\ o.ms = worker.obj.ms
    BY <1>1 DEF Tenant
  <2> QED
    BY <2>1, <2>2
<1>3. CASE ~Current
  <2>1. worker' = Idle /\ queued' = TRUE /\ UNCHANGED <<timer, tenant>>
    BY <1>3 DEF Park, Requeue
  <2>2. TypeOK'
    BY <1>0, <2>1, TypeParts DEF TypeOK
  <2> QED
    BY <1>1, <2>1, <2>2, AwayStep DEF Kept
<1>4. CASE Current
  <2>1. /\ tenant' = o /\ UNCHANGED <<queued, timer>>
        /\ \/ worker' = Idle
           \/ worker' = AtAll("teardown", o)
           \/ worker' = At("release", o) /\ o.ms # "Removed"
    BY <1>4 DEF Park
  <2> HIDE DEF o
  <2>2. TypeOK'
    BY <1>0, <1>2, <2>1, TypeParts DEF TypeOK
  <2>3. tenant'.exists = tenant.exists /\ tenant'.fin = tenant.fin
    BY <1>2, <1>4, <2>1 DEF Current
  <2>4. ObjectInv' /\ TornInv'
    BY <1>0, <1>1, <1>2, <2>1, <2>3, BeginsEffect DEF ObjectInv, TornInv, ApiGone, Listed
  <2> QED
    BY <2>2, <2>3, <2>4 DEF Kept
<1> QED
  BY <1>3, <1>4

\* What is not found is gone, and what is found is remembered.
LEMMA TeardownStep ==
    ASSUME IInv, GuardTypeOK', NEW c \in Listed, Teardown(c)
    PROVE  IInv' /\ Kept
<1> USE Types DEF IInv
<1> DEFINE g == worker.obj.gw
           found == IF c = "api" THEN apiCache.exists ELSE PolicyFound(g)
           b == worker.pending \/ found
<1>0. /\ UNCHANGED <<tenant, tenantCache, deny, apiCache, up, params, queued, timer, history>>
      /\ worker.pc = "teardown" /\ c \in worker.todo /\ c \in {"api", "policy"}
  BY DEF Teardown, Listed
<1>1. /\ worker \in Worker /\ worker.obj \in Tenant /\ g \in Gateways
      /\ worker.todo \in SUBSET Applied
      /\ policy \in [Gateways -> {"none", "live", "terminating"}]
      /\ api \in Deployment
  BY DEF TypeOK, Worker, Tenant
<1>2. b \in BOOLEAN /\ worker' = [worker EXCEPT !.todo = @ \ {c}, !.pending = b]
  BY DEF Teardown, TypeOK, Worker
<1>3. /\ (b <=> (worker.pending \/ found))
      /\ c = "api" => /\ policy' = policy /\ api' = (IF found THEN NoDeployment ELSE api)
                      /\ found <=> apiCache.exists
      /\ c = "policy" => /\ UNCHANGED api
                         /\ \E after \in {"none", "terminating"} :
                              policy' = [policy EXCEPT ![g] = IF @ = "live" THEN after ELSE @]
      /\ c = "policy" => (found <=> policy[g] # "none")
  BY DEF Teardown, PolicyFound
<1> HIDE DEF b
<1>4. worker' \in Worker
  BY <1>1, <1>2 DEF Worker
<1>5. /\ worker'.pc = "teardown" /\ worker'.obj = worker.obj /\ worker'.todo = worker.todo \ {c}
      /\ worker'.pending = b
  BY <1>0, <1>1, <1>2 DEF Worker
<1> HIDE DEF found
<1>6. CASE c = "api"
  <2>1. policy' = policy /\ api' \in Deployment
    BY <1>1, <1>3, <1>6
  <2>2. TypeOK'
    BY <1>0, <1>4, <2>1, TypeParts DEF TypeOK
  <2>3. worker.pending \/ found \/ ApiGone'
    BY <1>0, <1>3, <1>6 DEF ApiGone, TornInv
  <2>4. TornInv'
    BY <1>0, <1>3, <1>5, <1>6, <2>1, <2>3 DEF TornInv
  <2>5. ObjectInv'
    BY <1>0, <1>5 DEF ObjectInv
  <2> QED
    BY <1>0, <2>2, <2>4, <2>5 DEF Kept
<1>7. CASE c = "policy"
  <2>0. PICK after \in {"none", "terminating"} :
             policy' = [policy EXCEPT ![g] = IF policy[g] = "live" THEN after ELSE policy[g]]
    BY <1>1, <1>3, <1>7
  <2>1. /\ UNCHANGED api /\ policy' \in [Gateways -> {"none", "live", "terminating"}]
        /\ policy[g] = "none" => policy'[g] = "none"
    BY <1>1, <1>3, <1>7, <2>0
  <2>2. TypeOK'
    BY <1>0, <1>4, <2>1, TypeParts DEF TypeOK
  <2>3. found \/ policy'[g] = "none"
    BY <1>3, <1>7, <2>1
  <2>4. TornInv'
    BY <1>0, <1>3, <1>5, <1>7, <2>1, <2>3 DEF TornInv, ApiGone
  <2>5. ObjectInv'
    BY <1>0, <1>5 DEF ObjectInv
  <2> QED
    BY <1>0, <2>2, <2>4, <2>5 DEF Kept
<1> QED
  BY <1>0, <1>6, <1>7

LEMMA TornDownStep ==
    ASSUME IInv, GuardTypeOK', TornDown
    PROVE  IInv' /\ Kept
<1> USE Types, AtType DEF IInv, Pcs
<1>0. /\ UNCHANGED <<tenant, tenantCache, platform, apiCache, up, params, history>>
      /\ worker.pc = "teardown" /\ worker.todo = {} /\ worker.obj \in Tenant
  BY DEF TornDown, TypeOK, Worker
<1>1. CASE RequeueAfter
  <2>1. TypeOK'
    BY <1>0, <1>1, TypeParts DEF TypeOK, RequeueAfter
  <2> QED
    BY <1>0, <1>1, <2>1, AwayStep DEF RequeueAfter, ObjectInv, Kept
<1>2. CASE ~worker.pending /\ worker' = At("release", worker.obj) /\ UNCHANGED <<queued, timer>>
  <2>0. worker' \in Worker /\ worker'.pc = "release" /\ worker'.obj = worker.obj
    BY <1>0, <1>2
  <2>1. TypeOK'
    BY <1>0, <1>2, <2>0, TypeParts DEF TypeOK
  <2>2. ObjectInv' /\ TornInv'
    BY <1>0, <1>2, <2>0 DEF ObjectInv, TornInv, ApiGone
  <2> QED
    BY <1>0, <2>1, <2>2 DEF Kept
<1> QED
  BY <1>1, <1>2 DEF TornDown

LEMMA ReleaseStep ==
    ASSUME IInv, GuardTypeOK', Release
    PROVE  IInv' /\ worker.pc = "release"
<1> USE Types DEF IInv
<1>0. /\ UNCHANGED <<tenantCache, platform, apiCache, up, params>> /\ worker.pc = "release"
      /\ worker' = Idle /\ UNCHANGED timer
      /\ queued' \in BOOLEAN \/ UNCHANGED queued
  BY DEF Release, Done, Requeue
<1>1. UNCHANGED late /\ loose' \in BOOLEAN
  BY DEF Release
<1>2. tenant' \in Tenant /\ (tenant'.fin => tenant'.exists)
  <2>1. tenant \in Tenant /\ FALSE \in BOOLEAN
    BY DEF TypeOK
  <2>2. CASE tenant.deleting
    BY <2>2 DEF Release
  <2>3. CASE ~tenant.deleting
    <3>1. tenant' = [tenant EXCEPT !.fin = FALSE]
      BY <2>3 DEF Release
    <3>2. tenant' \in Tenant /\ tenant'.fin = FALSE
      BY <2>1, <3>1, TenantWrites
    <3> QED
      BY <3>2
  <2> QED
    BY <2>2, <2>3
<1>3. TypeOK'
  BY <1>0, <1>1, <1>2, TypeParts DEF TypeOK
<1> QED
  BY <1>0, <1>2, <1>3, AwayStep

LEMMA BlockedType ==
    ASSUME NEW o
    PROVE  Blocked(o) \in Phases
<1>1. CASE o.ms = "Other"
  BY <1>1 DEF Blocked, Phases
<1>2. CASE o.ms # "Other" /\ ~{o.gw, "AuthConfig"} \subseteq up
  BY <1>2 DEF Blocked, Phases
<1>3. CASE o.ms # "Other" /\ {o.gw, "AuthConfig"} \subseteq up /\ "Secret" \notin up
  BY <1>3 DEF Blocked, Phases
<1>4. CASE o.ms # "Other" /\ {o.gw, "AuthConfig"} \subseteq up /\ "Secret" \in up
  BY <1>4 DEF Blocked, Phases
<1> QED
  BY <1>1, <1>2, <1>3, <1>4

\* A reconcile that ends with a status.
LEMMA EndStep ==
    ASSUME IInv, GuardTypeOK', NEW phase \in Phases, EndWith(phase),
           UNCHANGED <<tenantCache, platform, apiCache, up, params, history>>
    PROVE  IInv' /\ Kept
<1>1. TypeOK'
  BY EndWithEffect, Types, TypeParts DEF IInv, TypeOK
<1> QED
  BY <1>1, EndWithEffect, Types, AwayStep

LEMMA CheckStep ==
    ASSUME IInv, GuardTypeOK', Check
    PROVE  IInv' /\ Kept
<1> USE Types, AtType DEF IInv, Pcs
<1>0. UNCHANGED <<tenantCache, platform, apiCache, up, params, history>>
  BY DEF Check
<1>1. CASE EndWith(Blocked(worker.obj))
  BY <1>0, <1>1, BlockedType, EndStep
<1>2. CASE /\ UNCHANGED <<tenant, queued, timer>>
           /\ worker' = [At("run", worker.obj) EXCEPT !.warn = "Monitoring" \notin up]
  <2> DEFINE b == "Monitoring" \notin up
             w == At("run", worker.obj)
  <2>0. b \in BOOLEAN /\ w \in Worker /\ w.pc = "run" /\ worker' = [w EXCEPT !.warn = b]
    BY <1>2 DEF TypeOK, Worker
  <2> HIDE DEF b, w
  <2>1. worker' \in Worker
    BY <2>0 DEF Worker
  <2>2. worker'.pc = "run"
    BY <2>0 DEF Worker
  <2>3. TypeOK'
    BY <1>0, <1>2, <2>1, TypeParts DEF TypeOK
  <2> QED
    BY <1>2, <2>2, <2>3, AwayStep DEF ObjectInv, Kept
<1> QED
  BY <1>1, <1>2 DEF Check

LEMMA RunPlatformStep ==
    ASSUME IInv, GuardTypeOK', RunPlatform
    PROVE  IInv' /\ Kept
<1> USE Types DEF IInv
<1>0. UNCHANGED <<tenantCache, platform, apiCache, up, history>>
  BY DEF RunPlatform
<1>1. CASE EndWith("Failed") /\ UNCHANGED params
  BY <1>0, <1>1, EndStep DEF Phases
<1>2. CASE /\ params' = CustomizeParams(worker.obj) /\ UNCHANGED <<tenant, queued, timer>>
           /\ worker' = [worker EXCEPT !.pc = "apply", !.todo = Applied]
  <2>1. params' \in BOOLEAN
    BY <1>2 DEF CustomizeParams
  <2>2. worker' \in Worker
    BY <1>2 DEF TypeOK, Worker
  <2>3. worker'.pc = "apply"
    BY <1>2 DEF TypeOK, Worker
  <2>4. TypeOK'
    BY <1>0, <1>2, <2>1, <2>2, TypeParts DEF TypeOK
  <2> QED
    BY <1>2, <2>3, <2>4, AwayStep DEF ObjectInv, Kept
<1> QED
  BY <1>1, <1>2 DEF RunPlatform

LEMMA ApplyStep ==
    ASSUME IInv, GuardTypeOK', NEW c \in Applied, Apply(c)
    PROVE  IInv' /\ Kept
<1> USE Types DEF IInv
<1> DEFINE g == worker.obj.gw
           pc == IF worker.todo = {c} THEN "report" ELSE "apply"
           b == api.exists /\ api.gw = g /\ api.days = params /\ api.rolled
<1>0. /\ UNCHANGED <<tenant, tenantCache, apiCache, up, params, queued, timer, history>>
      /\ pc \in {"report", "apply"} /\ worker' = [worker EXCEPT !.todo = @ \ {c}, !.pc = pc]
  BY DEF Apply
<1>1. /\ worker \in Worker /\ g \in Gateways /\ worker.todo \in SUBSET Applied
      /\ api \in Deployment /\ policy \in [Gateways -> {"none", "live", "terminating"}]
  BY DEF TypeOK, Worker, Tenant
<1> HIDE DEF pc
<1>2. worker' \in Worker
  BY <1>0, <1>1 DEF Worker
<1>3. worker'.pc \in {"report", "apply"}
  BY <1>0, <1>1 DEF Worker
<1>4. api' \in Deployment
  <2>1. b \in BOOLEAN /\ params \in BOOLEAN
    BY DEF TypeOK
  <2>2. Rendered(worker.obj) = [exists |-> TRUE, gw |-> g, days |-> params, rolled |-> b]
    BY DEF Rendered
  <2> HIDE DEF b
  <2>3. Rendered(worker.obj) \in Deployment
    BY <1>1, <2>1, <2>2 DEF Deployment
  <2> QED
    BY <1>1, <2>3 DEF Apply
<1>5. policy' \in [Gateways -> {"none", "live", "terminating"}] /\ deny' \subseteq Gateways
  BY <1>1 DEF Apply, TypeOK
<1>6. TypeOK'
  BY <1>0, <1>2, <1>4, <1>5, TypeParts DEF TypeOK
<1> QED
  BY <1>0, <1>3, <1>6, AwayStep DEF ObjectInv, Kept

LEMMA CallFailsStep ==
    ASSUME IInv, GuardTypeOK', CallFails
    PROVE  IInv' /\ Kept
<1> USE Types DEF IInv
<1>0. UNCHANGED <<tenantCache, platform, apiCache, up, params, history>>
  BY DEF CallFails
<1>1. CASE Requeue /\ UNCHANGED tenant
  <2>1. TypeOK'
    BY <1>0, <1>1, TypeParts DEF TypeOK, Requeue
  <2> QED
    BY <1>1, <2>1, AwayStep DEF Requeue, ObjectInv, Kept
<1>2. CASE EndWith("Pending") \/ EndWith("Failed")
  BY <1>0, <1>2, EndStep DEF Phases
<1> QED
  BY <1>1, <1>2 DEF CallFails

LEMMA WorkerStepInv ==
    ASSUME IInv, GuardTypeOK', WorkerStep
    PROVE  IInv' /\ (Kept \/ worker.pc = "release")
<1>1. CASE Report
  <2>1. PICK phase \in Phases : EndWith(phase)
    BY <1>1 DEF Report, Phases
  <2> QED
    BY <1>1, <2>1, EndStep DEF Report
<1> QED
  BY <1>1, ReconcileStep, FinalizerStep, ParkStep, TeardownStep, TornDownStep, ReleaseStep,
     CheckStep, RunPlatformStep, ApplyStep DEF WorkerStep

\* Watches, timers and the cluster.
LEMMA WatchStep ==
    ASSUME IInv, GuardTypeOK',
           WatchTenant \/ WatchDeployment \/ TimerFires \/ Rollout \/ PolicyGone
    PROVE  IInv' /\ Kept
<1> USE DEF IInv
<1>0. UNCHANGED <<tenant, deny, up, params, worker, history>>
  BY DEF WatchTenant, WatchDeployment, TimerFires, Rollout, PolicyGone
<1>1. /\ api' \in Deployment /\ (api'.exists => api.exists) /\ apiCache' \in Deployment
      /\ apiCache' = apiCache \/ apiCache' = api'
  <2>1. CASE Rollout
    <3>1. api \in Deployment /\ api.exists /\ api' = [api EXCEPT !.rolled = TRUE]
      BY <2>1 DEF TypeOK, Rollout
    <3>2. api' \in Deployment
      BY <3>1 DEF Deployment
    <3> QED
      BY <2>1, <3>1, <3>2 DEF Rollout, TypeOK
  <2>2. CASE UNCHANGED api
    BY <2>2 DEF TypeOK, WatchTenant, WatchDeployment, TimerFires, Rollout, PolicyGone
  <2> QED
    BY <2>1, <2>2 DEF WatchTenant, WatchDeployment, TimerFires, PolicyGone
<1>2. /\ policy' \in [Gateways -> {"none", "live", "terminating"}]
      /\ \A g \in Gateways : policy[g] = "none" => policy'[g] = "none"
  BY DEF TypeOK, WatchTenant, WatchDeployment, TimerFires, Rollout, PolicyGone
<1>3. /\ tenantCache' \in Tenant
      /\ queued' \in BOOLEAN \/ UNCHANGED queued
      /\ timer' \in BOOLEAN \/ UNCHANGED timer
  BY DEF TypeOK, WatchTenant, WatchDeployment, TimerFires, Rollout, PolicyGone
<1>4. TypeOK'
  BY <1>0, <1>1, <1>2, <1>3, TypeParts DEF TypeOK
<1> QED
  BY <1>0, <1>1, <1>2, <1>4, StillStep DEF ObjectInv, Kept

\* Only the Tenant changes, and it keeps its finalizer.
LEMMA TenantStep ==
    ASSUME IInv, GuardTypeOK', tenant' \in Tenant, tenant'.fin => tenant'.exists, Kept,
           UNCHANGED <<tenantCache, platform, apiCache, up, params, queued, timer, worker, history>>
    PROVE  IInv' /\ Kept
<1>1. TypeOK'
  BY TypeParts DEF IInv, TypeOK
<1> QED
  BY <1>1, StillStep

LEMMA EnsureStep ==
    ASSUME IInv, GuardTypeOK', EnsureDefaultTenant
    PROVE  IInv' /\ Kept
<1> DEFINE t == [NoTenant EXCEPT !.exists = TRUE]
<1>1. t \in Tenant
  BY Types DEF Tenant
<1>2. ~t.fin
  BY Types DEF Tenant, NoTenant
<1>3. tenant' = t /\ ~tenant.exists
  BY DEF EnsureDefaultTenant
<1> HIDE DEF t
<1>4. tenant' \in Tenant /\ ~tenant'.fin /\ Kept
  BY <1>1, <1>2, <1>3 DEF Kept, IInv, ObjectInv
<1> QED
  BY <1>4, TenantStep DEF EnsureDefaultTenant

LEMMA EditStep ==
    ASSUME IInv, GuardTypeOK', Edits
    PROVE  IInv' /\ Kept
<1> USE DEF IInv
<1>0. tenant \in Tenant /\ used + 1 \in Nat
  BY GuardAssumption DEF TypeOK, GuardTypeOK
<1>1. PICK new \in Tenant, part \in Editable : /\ new.exists = tenant.exists /\ new.fin = tenant.fin
                                               /\ EditTenant(part, new)
  <2>1. ASSUME NEW ms \in {"Managed", "Removed", "Unmanaged", "Other"},
               EditTenant("ms", [tenant EXCEPT !.ms = ms])
        PROVE  \E new \in Tenant, part \in Editable : /\ new.exists = tenant.exists /\ new.fin = tenant.fin
                                                      /\ EditTenant(part, new)
    <3>1. [tenant EXCEPT !.ms = ms] \in Tenant
      BY <1>0 DEF Tenant
    <3>2. /\ [tenant EXCEPT !.ms = ms].exists = tenant.exists
          /\ [tenant EXCEPT !.ms = ms].fin = tenant.fin
      BY <1>0 DEF Tenant
    <3>3. "ms" \in Editable
      BY <2>1 DEF EditTenant
    <3> QED
      BY <2>1, <3>1, <3>2, <3>3
  <2>2. ASSUME NEW g \in Gateways, EditTenant("gw", [tenant EXCEPT !.gw = g])
        PROVE  \E new \in Tenant, part \in Editable : /\ new.exists = tenant.exists /\ new.fin = tenant.fin
                                                      /\ EditTenant(part, new)
    <3>1. [tenant EXCEPT !.gw = g] \in Tenant
      BY <1>0 DEF Tenant
    <3>2. /\ [tenant EXCEPT !.gw = g].exists = tenant.exists
          /\ [tenant EXCEPT !.gw = g].fin = tenant.fin
      BY <1>0 DEF Tenant
    <3>3. "gw" \in Editable
      BY <2>2 DEF EditTenant
    <3> QED
      BY <2>2, <3>1, <3>2, <3>3
  <2>3. ASSUME EditTenant("days", [tenant EXCEPT !.days = ~@])
        PROVE  \E new \in Tenant, part \in Editable : /\ new.exists = tenant.exists /\ new.fin = tenant.fin
                                                      /\ EditTenant(part, new)
    <3> DEFINE b == ~tenant.days
               t == [tenant EXCEPT !.days = b]
    <3>0. b \in BOOLEAN /\ EditTenant("days", t)
      BY <1>0, <2>3 DEF Tenant
    <3> HIDE DEF b
    <3>1. t \in Tenant
      BY <1>0, <3>0 DEF Tenant
    <3>2. t.exists = tenant.exists /\ t.fin = tenant.fin
      BY <1>0, <3>0 DEF Tenant
    <3>3. "days" \in Editable
      BY <2>3 DEF EditTenant
    <3> QED
      BY <3>0, <3>1, <3>2, <3>3
  <2> QED
    BY <2>1, <2>2, <2>3 DEF Edits
<1>2. tenant' = [new EXCEPT !.rev = used + 1]
  BY <1>1 DEF EditTenant
<1>3. tenant' \in Tenant
  <2> DEFINE n == used + 1
  <2>1. n \in Nat /\ tenant' = [new EXCEPT !.rev = n]
    BY <1>0, <1>2
  <2> HIDE DEF n
  <2> QED
    BY <1>1, <2>1 DEF Tenant
<1>4. tenant'.exists = tenant.exists /\ tenant'.fin = tenant.fin
  BY <1>1, <1>2 DEF Tenant
<1> QED
  BY <1>1, <1>3, <1>4, TenantStep DEF EditTenant, ObjectInv, Kept

\* A Tenant is deleted, by itself or with its namespace.
LEMMA DeleteStep ==
    ASSUME IInv, GuardTypeOK', tenant' = Deleted(tenant),
           UNCHANGED <<tenantCache, platform, apiCache, up, params, queued, timer, worker, history>>
    PROVE  IInv' /\ Kept
<1>1. tenant \in Tenant /\ (tenant.fin => tenant.exists)
  BY DEF IInv, TypeOK, ObjectInv
<1>2. /\ tenant' \in Tenant /\ tenant'.fin = tenant.fin
      /\ tenant'.fin => tenant'.exists = tenant.exists
  BY <1>1, TenantWrites
<1> QED
  BY <1>1, <1>2, TenantStep DEF Kept

LEMMA ObjectStep ==
    ASSUME IInv, GuardTypeOK',
           DeleteObject \/ \E p \in Gateways \cup Prerequisites : ChangePrerequisite(p)
    PROVE  IInv' /\ Kept
<1> USE Types DEF IInv
<1>0. UNCHANGED <<tenant, tenantCache, apiCache, params, timer, worker, history>>
  BY DEF DeleteObject, ChangePrerequisite
<1>1. api' \in Deployment /\ (api'.exists => api.exists)
  BY DEF TypeOK, DeleteObject, ChangePrerequisite
<1>2. /\ deny' \subseteq Gateways
      /\ policy' \in [Gateways -> {"none", "live", "terminating"}]
      /\ \A g \in Gateways : policy[g] = "none" => policy'[g] = "none"
  BY DEF TypeOK, DeleteObject, ChangePrerequisite
<1>3. up' \subseteq Gateways \cup Prerequisites
  BY DEF TypeOK, DeleteObject, ChangePrerequisite
<1>4. queued' \in BOOLEAN \/ UNCHANGED queued
  BY DEF DeleteObject, ChangePrerequisite
<1>5. TypeOK'
  BY <1>0, <1>1, <1>2, <1>3, <1>4, TypeParts DEF TypeOK
<1> QED
  BY <1>0, <1>1, <1>2, <1>5, StillStep DEF ObjectInv, Kept

LEMMA RestartStep ==
    ASSUME IInv, GuardTypeOK', Restart
    PROVE  IInv' /\ Kept
<1> USE Types DEF IInv
<1>0. /\ UNCHANGED <<tenant, platform, up, history>> /\ worker' = Idle
      /\ tenantCache' = NoTenant /\ apiCache' = NoDeployment
      /\ params' = FALSE /\ queued' = FALSE /\ timer' = FALSE
  BY DEF Restart
<1>1. TypeOK'
  BY <1>0, TypeParts DEF TypeOK
<1> QED
  BY <1>0, <1>1, AwayStep DEF ObjectInv, Kept

\* The guard, and mgr.Start.
LEMMA GuardingStep ==
    ASSUME IInv, Guarding
    PROVE  IInv' /\ Kept
<1> USE DEF IInv
<1>0. GuardTypeOK'
  BY GuardType DEF Guarding, TypeOK
<1>1. UNCHANGED <<tenant, platform, up, params, timer, worker, history>>
  BY DEF Guarding, StartManager, tenantVars
<1>2. /\ tenantCache' \in Tenant /\ apiCache' \in Deployment
      /\ apiCache' = apiCache \/ apiCache' = api'
  BY DEF Guarding, StartManager, tenantVars, TypeOK
<1>3. queued' \in BOOLEAN \/ UNCHANGED queued
  <2>1. tenant.exists \in BOOLEAN
    BY DEF TypeOK, Tenant
  <2> QED
    BY <2>1 DEF Guarding, StartManager, tenantVars
<1>4. TypeOK'
  BY <1>0, <1>1, <1>2, <1>3, TypeParts DEF TypeOK
<1> QED
  BY <1>1, <1>2, <1>4, StillStep DEF ObjectInv, Kept

\* Nothing of the Tenant changes.
LEMMA NamespaceStep ==
    ASSUME IInv, GuardTypeOK', UNCHANGED tenantVars
    PROVE  IInv' /\ Kept
<1>1. tenant' \in Tenant /\ (tenant'.fin => tenant'.exists) /\ Kept
  BY DEF IInv, TypeOK, ObjectInv, Kept, tenantVars
<1> QED
  BY <1>1, TenantStep DEF tenantVars

\* The part of the types that every step keeps for the guard.
LEMMA GuardNext ==
    ASSUME TypeOK, [Next]_vars
    PROVE  GuardTypeOK'
<1> USE DEF TypeOK
<1>1. CASE Guarding
  BY <1>1, GuardType DEF Guarding
<1>2. ASSUME UNCHANGED <<guardVars, used>> PROVE GuardTypeOK'
  BY <1>2, GuardKept DEF GuardTypeOK
<1>3. CASE Disturbance /\ UNCHANGED guardVars
  <2>1. used' \in 0 .. MaxDisturbances
    BY <1>3, DisturbType DEF Disturbance, CallFails, Edits, EditTenant, DeleteTenant,
       DeleteObject, ChangePrerequisite
  <2> QED
    BY <1>3, <2>1, GuardKept
<1>4. CASE OperatorCreatesNamespace
  BY <1>4, DisturbType DEF OperatorCreatesNamespace, GuardTypeOK
<1>5. CASE \E p \in {"full", "get", "none"} : ChangePermission(p)
  BY <1>5, DisturbType DEF ChangePermission, GuardTypeOK
<1>6. CASE DeleteNamespace
  BY <1>6, DisturbType DEF DeleteNamespace, GuardTypeOK
<1>7. CASE NamespaceGone
  BY <1>7 DEF NamespaceGone, GuardTypeOK
<1>8. CASE Restart
  BY <1>8, DisturbType, Types DEF Restart, GuardTypeOK
<1>9. CASE UNCHANGED vars
  BY <1>2, <1>9 DEF vars
<1> QED
  BY <1>1, <1>2, <1>3, <1>4, <1>5, <1>6, <1>7, <1>8, <1>9 DEF Next, Managed

LEMMA NextInv ==
    ASSUME IInv, [Next]_vars
    PROVE  IInv' /\ (Kept \/ worker.pc = "release")
<1>0. GuardTypeOK'
  BY GuardNext DEF IInv
<1>1. CASE Managed(WorkerStep)
  BY <1>0, <1>1, WorkerStepInv DEF Managed
<1>2. CASE Managed(WatchTenant) \/ Managed(WatchDeployment) \/ Managed(TimerFires)
  BY <1>0, <1>2, WatchStep DEF Managed
<1>3. CASE Managed(EnsureDefaultTenant)
  BY <1>0, <1>3, EnsureStep DEF Managed
<1>4. CASE Rollout \/ PolicyGone
  BY <1>0, <1>4, WatchStep
<1>5. CASE Disturbance
  BY <1>0, <1>5, CallFailsStep, EditStep, DeleteStep, ObjectStep DEF Disturbance, DeleteTenant
<1>6. CASE DeleteNamespace
  BY <1>0, <1>6, DeleteStep DEF DeleteNamespace
<1>7. CASE UNCHANGED tenantVars
  BY <1>0, <1>7, NamespaceStep
<1>8. CASE Guarding \/ Restart
  BY <1>0, <1>8, GuardingStep, RestartStep
<1> QED
  BY <1>1, <1>2, <1>3, <1>4, <1>5, <1>6, <1>7, <1>8 DEF Next, NamespaceGone, vars

LEMMA InitInv ==
    ASSUME Init
    PROVE  IInv
<1> USE Types
<1>1. /\ tenant = NoTenant /\ tenantCache = NoTenant /\ api = NoDeployment
      /\ apiCache = NoDeployment /\ worker = Idle
      /\ policy = [g \in Gateways |-> "none"]
      /\ up \subseteq Gateways \cup Prerequisites
  BY DEF Init
<1>2. params \in BOOLEAN /\ queued \in BOOLEAN
  BY DEF Init
<1>3. timer \in BOOLEAN /\ deny \subseteq Gateways /\ late \in BOOLEAN /\ loose \in BOOLEAN
  BY DEF Init
<1>4. GuardTypeOK
  BY GuardAssumption DEF Init, GuardInit, GuardTypeOK
<1>5. TypeOK
  BY <1>1, <1>2, <1>3, <1>4 DEF TypeOK
<1>6. ObjectInv /\ TornInv
  BY <1>1 DEF ObjectInv, TornInv
<1> QED
  BY <1>5, <1>6 DEF IInv

LEMMA SpecInv == Spec => []IInv
<1>1. IInv /\ [Next]_vars => IInv'
  BY NextInv
<1> QED
  BY <1>1, InitInv, PTL DEF Spec

\* The variables keep their types, and the guard's attempts to create the
\* namespace stay within wait.Backoff's Steps, for every number of them.
THEOREM TypeCorrect == Spec => []TypeOK
<1>1. IInv => TypeOK
  BY DEF IInv
<1> QED
  BY <1>1, SpecInv, PTL

\* finalizeTenantDeletion keeps the finalizer of a deleted or Removed Tenant
\* until what it lists is gone: only Release takes a finalizer away, and a
\* reconcile comes there only through a teardown that found nothing, neither
\* the policy at the API server nor, in the informer's cache, the Deployment,
\* which is gone then if the cache had it, or there was none, at the beginning.
THEOREM TeardownComesFirst == Spec => TeardownBeforeRelease
<1>1. ASSUME IInv, [Next]_vars
      PROVE  [tenant.fin /\ ~tenant'.fin /\ (worker.obj.deleting \/ worker.obj.ms = "Removed") =>
                (api.exists => late) /\ policy[worker.obj.gw] = "none"]_vars
  BY <1>1, NextInv DEF Kept, IInv, TornInv, ApiGone
<1> QED
  BY <1>1, SpecInv, PTL DEF Spec, TeardownBeforeRelease
-----------------------------------------------------------------------------
(* The process that waits for its own Tenant controller. *)

\* As long as the manager does not run nothing takes the finalizer away.
LEMMA FinalizerStays ==
    ASSUME IInv, [Next]_vars, StartWaitsForTenant
    PROVE  tenant'.fin
<1>1. ~Managed(WorkerStep)
  BY DEF Managed, StartWaitsForTenant
<1>2. CASE Disturbance
  BY <1>2, GuardNext, CallFailsStep, EditStep, DeleteStep, ObjectStep
  DEF Disturbance, DeleteTenant, Kept, IInv, StartWaitsForTenant
<1>3. CASE DeleteNamespace \/ Guarding \/ Restart
  BY <1>3, GuardNext, DeleteStep, GuardingStep, RestartStep
  DEF DeleteNamespace, Kept, IInv, StartWaitsForTenant
<1>4. CASE Rollout \/ PolicyGone
  BY <1>4, GuardNext, WatchStep DEF Kept, IInv, StartWaitsForTenant
<1>5. CASE UNCHANGED tenantVars
  BY <1>5 DEF tenantVars, StartWaitsForTenant
<1> QED
  BY <1>1, <1>2, <1>3, <1>4, <1>5
  DEF Next, Managed, NamespaceGone, vars, StartWaitsForTenant

\* As long as it sees a namespace that is terminating the guard does not return
\* with success, at whatever call it is.
LEMMA GuardStays ==
    ASSUME IInv, GuardStep \/ GuardCallFails, mgr = "starting", ns = "terminating",
           perm # "none"
    PROVE  mgr' = "starting" /\ ns' = "terminating"
BY DEF GuardStep, GuardCallFails, EnsureSubscriptionNamespace, PollTermination,
   resolveNamespaceAfterTerminationWait, CreateNamespace, RecheckNamespace, Retry, Return, Goto,
   Satisfied

\* A process that starts while the namespace is terminating and the Tenant has
\* its finalizer waits for good: the guard never succeeds, through any number
\* of polls, exits and retries, and meanwhile nobody removes the finalizer, so
\* the namespace stays, as long as the service account may see it.
THEOREM StartupIsStuck == Spec => StartWaitsForever
<1>1. ASSUME IInv, [Next]_vars, StartWaitsForTenant, perm # "none"
      PROVE  StartWaitsForTenant'
  <2>1. tenant'.fin
    BY <1>1, FinalizerStays
  <2>2. tenant.exists /\ mgr = "starting" /\ ns = "terminating"
    BY <1>1 DEF StartWaitsForTenant, IInv, ObjectInv
  <2>3. CASE Guarding
    BY <1>1, <2>1, <2>2, <2>3, GuardStays DEF Guarding, StartWaitsForTenant
  <2>4. CASE UNCHANGED guardVars
    BY <2>1, <2>2, <2>4 DEF guardVars, StartWaitsForTenant
  <2>5. CASE \E p \in {"full", "get", "none"} : ChangePermission(p)
    BY <2>1, <2>2, <2>5 DEF ChangePermission, StartWaitsForTenant
  <2>6. ~OperatorCreatesNamespace /\ ~DeleteNamespace /\ ~NamespaceGone /\ ~Restart
    BY <2>2 DEF OperatorCreatesNamespace, DeleteNamespace, NamespaceGone, Restart
  <2> QED
    BY <1>1, <2>3, <2>4, <2>5, <2>6 DEF Next, Managed, vars
<1>2. ASSUME IInv, [Next]_vars
      PROVE  [StartWaitsForTenant /\ perm # "none" => StartWaitsForTenant']_vars
  BY <1>1, <1>2
<1> QED
  BY <1>2, SpecInv, PTL DEF Spec, StartWaitsForever
=============================================================================
