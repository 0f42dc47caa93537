--------------------- MODULE AuthPolicyController_proofs --------------------
(***************************************************************************)
(* Proofs about AuthPolicyController, for any policies, models, subjects   *)
(* and specs and any number of disturbances of any kind.                   *)
(*                                                                         *)
(* An AuthPolicy that exists may be out of step with the MaaSAuthPolicies  *)
(* in three ways, and each leaves somebody who puts it right: a policy     *)
(* whose subjects or OIDC it lacks is Awaited (GrantedInv), a policy that  *)
(* it was built from and that no longer refers to the model is Leaving     *)
(* (FromInv), and subjects that none of its policies has any more are      *)
(* Rebuilding (SubjectsInv).  Unlike the limits of SubscriptionController  *)
(* this needs no hypothesis: an event that gets lost leaves the model      *)
(* without an AuthPolicy, not with a wrong one.                            *)
(***************************************************************************)
EXTENDS AuthPolicyController, TLAPS

\* Versions that exist were handed out before.
FreshInv ==
    /\ \A p \in Policies : pol[p].rev <= used /\ cache[p].rev <= used
    /\ worker.obj.rev <= used

\* Only what exists has a finalizer, only what has one is being deleted, and a
\* policy has a subject.
WellFormed(o) == (o.deleting => o.fin) /\ (o.fin => o.exists) /\ (o.exists => o.subjects # {})

\* A deletion mark is never taken back, and a version has one spec.
Marked(o, p) == o.deleting /\ pol[p].exists /\ pol[p].rev = o.rev => pol[p].deleting

SameSpec(o, p) ==
    o.exists /\ pol[p].exists /\ pol[p].rev = o.rev
    => o.refs = pol[p].refs /\ o.subjects = pol[p].subjects

ObjectInv ==
    /\ \A p \in Policies : /\ WellFormed(pol[p]) /\ WellFormed(cache[p])
                           /\ Marked(cache[p], p) /\ SameSpec(cache[p], p)
    /\ WellFormed(worker.obj) /\ Marked(worker.obj, worker.p)

\* Where the worker is and what it works on.
WorkerInv ==
    /\ worker.pc = "idle" => worker.obj = NoPolicy
    /\ worker.pc # "idle" => worker.obj.exists
    /\ worker.pc \in {"finalizer", "models", "status"} => ~worker.obj.deleting
    /\ worker.pc \in {"delete", "drop"} => worker.obj.deleting

\* The current version of a deleted policy is also the cached one.
CopyInv == worker.obj.deleting /\ Current => cache[worker.p] = worker.obj

\* No AuthPolicy of m that the controller manages names p.
Clean(m, p) == auth[m].exists /\ ~auth[m].opted => p \notin auth[m].from

\* What the deletion in progress is done with is clean.
CleanInv ==
    /\ worker.pc = "delete" => \A m \in worker.obj.refs \ worker.todo : Clean(m, worker.p)
    /\ worker.pc = "drop" => \A m \in Models : Clean(m, worker.p)

\* Only an admin takes an AuthPolicy out of the controller's hands, and the rule
\* of one that was built from no policy has no subject.
AuthInv ==
    \A m \in Models :
        /\ ~auth[m].managed => auth[m].opted
        /\ auth[m].from = {} => auth[m].subjects = {}

IInv ==
    TypeOK /\ FreshInv /\ ObjectInv /\ WorkerInv /\ CopyInv /\ AuthInv /\ CleanInv
-----------------------------------------------------------------------------
(* Convergence. *)

Managed(m) == auth[m].exists /\ ~auth[m].opted
Served(m) == modelCache[m].st = "live" /\ modelCache[m].route
Live(p, m) == cache[p].exists /\ ~cache[p].deleting /\ m \in cache[p].refs

\* A policy that is gone is not cached as live, and not named any more, unless
\* it went without its finalizer.
GoneInv ==
    \A p \in Policies \ ghosts :
        /\ cache[p].exists /\ ~cache[p].deleting => pol[p].exists
        /\ \A m \in Models : Managed(m) /\ p \in auth[m].from
             => pol[p].exists /\ cache[p].exists

\* p will be reconciled, or its reconcile has m before it.
Awaited(p, m) ==
    \/ p \in queue
    \/ /\ worker.p = p
       /\ worker.pc = "finalizer" \/ (worker.pc = "models" /\ m \in worker.todo)

\* p will be reconciled, or its reconcile has yet to find that m left its refs
\* or that it is being deleted.
Leaving(p, m) ==
    \/ p \in queue
    \/ /\ worker.p = p
       /\ \/ worker.pc \in {"finalizer", "models"} /\ m \notin worker.obj.refs
          \/ worker.pc = "delete" /\ (m \in worker.todo \/ m \notin worker.obj.refs)

\* One or the other: the reconcile of p will rebuild or delete the AuthPolicy.
Rebuilding(p, m) == Awaited(p, m) \/ Leaving(p, m)

OidcRight(m) == misread \/ TenantEvent \in events \/ auth[m].oidc = tenant

GrantedInv ==
    \A m \in Models, p \in Policies :
        Managed(m) /\ Served(m) /\ Live(p, m)
        => Awaited(p, m) \/ (cache[p].subjects \subseteq auth[m].subjects /\ OidcRight(m))

FromInv ==
    \A m \in Models : Managed(m) =>
        \A p \in auth[m].from \ ghosts : Live(p, m) \/ Leaving(p, m)

SubjectsInv ==
    \A m \in Models : Managed(m) /\ Served(m) /\ auth[m].from \cap ghosts = {} =>
        \/ auth[m].subjects \subseteq UNION {cache[p].subjects : p \in auth[m].from}
        \/ \E p \in auth[m].from : Rebuilding(p, m)

\* A reconcile with an old OIDC configuration will be followed by one of every
\* policy.
TenantInv ==
    ~misread /\ worker.pc # "idle" /\ worker.oidc # tenant
    => TenantEvent \in events \/ \A p \in Policies : cache[p].exists => p \in queue

\* The version that the reconcile works on, if it is still the current one, is
\* also the cached one.
VersionInv ==
    worker.pc # "idle" /\ pol[worker.p].exists /\ pol[worker.p].rev = worker.obj.rev
    => cache[worker.p].exists /\ cache[worker.p].rev = worker.obj.rev

KInv == GoneInv /\ GrantedInv /\ FromInv /\ SubjectsInv /\ TenantInv
-----------------------------------------------------------------------------
(* Operators. *)

LEMMA Types ==
    /\ NoPolicy \in MaaSAuthPolicy /\ WellFormed(NoPolicy)
    /\ ~NoPolicy.exists /\ NoPolicy.rev = 0 /\ ~NoPolicy.deleting
    /\ NoAuth \in AuthPolicy /\ ~NoAuth.exists /\ ~NoAuth.opted /\ NoAuth.managed
    /\ NoAuth.from = {} /\ NoAuth.subjects = {}
    /\ Idle \in Worker /\ Idle.pc = "idle" /\ Idle.obj = NoPolicy
<1>1. NoPolicy \in MaaSAuthPolicy
  BY DEF NoPolicy, MaaSAuthPolicy, Phases
<1>2. ~NoPolicy.exists /\ NoPolicy.rev = 0 /\ ~NoPolicy.deleting /\ ~NoPolicy.fin
  BY DEF NoPolicy
<1>3. NoAuth \in AuthPolicy
  BY DEF NoAuth, AuthPolicy
<1>4. /\ ~NoAuth.exists /\ ~NoAuth.opted /\ NoAuth.managed
      /\ NoAuth.from = {} /\ NoAuth.subjects = {}
  BY DEF NoAuth
<1>5. (CHOOSE p \in Policies : TRUE) \in Policies
  BY AuthPolicyAssumption
<1>6. Idle \in Worker /\ Idle.pc = "idle" /\ Idle.obj = NoPolicy
  BY <1>1, <1>5 DEF Idle, Worker
<1> QED
  BY <1>1, <1>2, <1>3, <1>4, <1>6 DEF WellFormed

LEMMA ValidatedWorker ==
    ASSUME NEW w \in Worker
    PROVE  LET v == findMissingModelRefs(w)
           IN  /\ v \in Worker /\ v.pc = "models" /\ v.p = w.p /\ v.obj = w.obj
               /\ v.oidc = w.oidc /\ v.todo = w.obj.refs
<1> DEFINE missing == {m \in w.obj.refs : modelCache[m].st = "none"}
<1>1. w.obj.refs \in SUBSET Models
  BY DEF Worker, MaaSAuthPolicy
<1>2. missing \in SUBSET Models
  BY <1>1
<1>3. findMissingModelRefs(w) = [w EXCEPT !.pc = "models", !.todo = w.obj.refs,
                                          !.missing = missing]
  BY DEF findMissingModelRefs
<1> HIDE DEF missing
<1>4. findMissingModelRefs(w) \in Worker
  BY <1>1, <1>2, <1>3 DEF Worker
<1>5. /\ findMissingModelRefs(w).pc = "models" /\ findMissingModelRefs(w).p = w.p
      /\ findMissingModelRefs(w).obj = w.obj /\ findMissingModelRefs(w).oidc = w.oidc
      /\ findMissingModelRefs(w).todo = w.obj.refs
  BY <1>3 DEF Worker
<1> QED
  BY <1>4, <1>5

\* What a reconcile starts as.
LEMMA StartWorker ==
    ASSUME TypeOK, NEW p \in Policies, NEW oidc \in BOOLEAN, Start(p, oidc)
    PROVE  /\ worker' \in Worker
           /\ \/ /\ worker' = Idle
                 /\ ~cache[p].exists \/ (cache[p].deleting /\ ~cache[p].fin)
              \/ /\ worker'.p = p /\ worker'.obj = cache[p] /\ worker'.oidc = oidc
                 /\ cache[p].exists
                 /\ \/ worker'.pc = "finalizer" /\ ~cache[p].deleting
                    \/ /\ worker'.pc = "models" /\ ~cache[p].deleting
                       /\ worker'.todo = cache[p].refs
                    \/ /\ worker'.pc = "delete" /\ cache[p].deleting
                       /\ worker'.todo = cache[p].refs
<1> USE Types
<1> DEFINE o == cache[p]
           start == [Idle EXCEPT !.p = p, !.obj = o, !.oidc = oidc]
<1>1. o \in MaaSAuthPolicy /\ o.refs \in SUBSET Models
  BY DEF TypeOK, MaaSAuthPolicy
<1>2. start \in Worker /\ start.p = p /\ start.obj = o /\ start.oidc = oidc
  BY <1>1 DEF Worker
<1>3. CASE ~o.exists \/ (o.deleting /\ ~o.fin)
  BY <1>3 DEF Start
<1>4. CASE o.exists /\ o.deleting /\ o.fin
  <2>1. worker' = [start EXCEPT !.pc = "delete", !.todo = o.refs]
    BY <1>4 DEF Start
  <2> HIDE DEF start
  <2>2. worker' \in Worker
    BY <1>1, <1>2, <2>1 DEF Worker
  <2>3. /\ worker'.pc = "delete" /\ worker'.p = p /\ worker'.obj = o /\ worker'.oidc = oidc
        /\ worker'.todo = o.refs
    BY <1>2, <2>1 DEF Worker
  <2> QED
    BY <1>4, <2>2, <2>3
<1>5. CASE o.exists /\ ~o.deleting /\ ~o.fin
  <2>1. worker' = [start EXCEPT !.pc = "finalizer"]
    BY <1>5 DEF Start
  <2> HIDE DEF start
  <2>2. worker' \in Worker
    BY <1>1, <1>2, <2>1 DEF Worker
  <2>3. worker'.pc = "finalizer" /\ worker'.p = p /\ worker'.obj = o /\ worker'.oidc = oidc
    BY <1>2, <2>1 DEF Worker
  <2> QED
    BY <1>5, <2>2, <2>3
<1>6. CASE o.exists /\ ~o.deleting /\ o.fin
  <2>1. worker' = findMissingModelRefs(start)
    BY <1>6 DEF Start
  <2> HIDE DEF start
  <2> QED
    BY <1>1, <1>2, <1>6, <2>1, ValidatedWorker
<1> QED
  BY <1>3, <1>4, <1>5, <1>6
-----------------------------------------------------------------------------
(* What the actions do to an AuthPolicy and to a MaaSAuthPolicy. *)

\* a may go, or keep whom it admits.
Kept(a, b) ==
    \/ b = NoAuth
    \/ /\ b.exists = a.exists /\ b.subjects = a.subjects /\ b.from = a.from /\ b.oidc = a.oidc
       /\ a.opted => b.opted
       /\ b.managed \/ ~a.managed \/ b.opted

\* No AuthPolicy changes whom it admits, other than by going.
AuthKept ==
    /\ auth' \in [Models -> AuthPolicy]
    /\ events' \in SUBSET (Models \cup {TenantEvent})
    /\ \A m \in Models : Kept(auth[m], auth'[m])

LEMMA NothingKept ==
    ASSUME TypeOK, UNCHANGED auth, events' \in SUBSET (Models \cup {TenantEvent})
    PROVE  AuthKept
BY DEF TypeOK, AuthKept, Kept, AuthPolicy

LEMMA DeletionKeeps ==
    ASSUME TypeOK, NEW ms \in SUBSET Models, deleteModelAuthPolicy(ms)
    PROVE  /\ AuthKept /\ events \subseteq events'
           /\ \A m \in ms : auth'[m].exists => ~auth[m].managed
<1> USE Types
<1>1. auth' \in [Models -> AuthPolicy] /\ events' \in SUBSET (Models \cup {TenantEvent})
  BY DEF TypeOK, deleteModelAuthPolicy
<1>2. \A m \in Models : auth'[m] = NoAuth \/ auth'[m] = auth[m]
  BY <1>1 DEF deleteModelAuthPolicy
<1>3. \A m \in ms : auth'[m].exists => ~auth[m].managed
  BY <1>1 DEF deleteModelAuthPolicy, isManaged
<1>4. events \subseteq events'
  BY DEF deleteModelAuthPolicy
<1> QED
  BY <1>1, <1>2, <1>3, <1>4 DEF AuthKept, Kept, TypeOK, AuthPolicy

\* The environment: Kuadrant and the admins.
LEMMA EnvironmentKeeps ==
    ASSUME TypeOK, NEW m \in Models, EnforceAuthPolicy(m) \/ DeleteAuthPolicy(m) \/ OptOut(m)
    PROVE  AuthKept /\ events \subseteq events'
<1> USE Types
<1>1. events' = events \cup {m}
  BY DEF EnforceAuthPolicy, DeleteAuthPolicy, OptOut
<1>2. auth[m] \in AuthPolicy
  BY DEF TypeOK
<1>3. SUFFICES \E q \in AuthPolicy : Kept(auth[m], q) /\ auth' = [auth EXCEPT ![m] = q]
  <2>1. ASSUME NEW q \in AuthPolicy, Kept(auth[m], q), auth' = [auth EXCEPT ![m] = q]
        PROVE  AuthKept /\ events \subseteq events'
    <3>1. auth' \in [Models -> AuthPolicy] /\ auth'[m] = q
      BY <2>1 DEF TypeOK
    <3>2. \A n \in Models : n # m => auth'[n] = auth[n]
      BY <2>1 DEF TypeOK
    <3>3. \A n \in Models : Kept(auth[n], auth'[n])
      BY <2>1, <3>1, <3>2 DEF Kept, TypeOK, AuthPolicy
    <3>4. events' \in SUBSET (Models \cup {TenantEvent})
      BY <1>1 DEF TypeOK
    <3> QED
      BY <1>1, <3>1, <3>2, <3>3, <3>4 DEF AuthKept
  <2> QED
    BY <2>1
<1>4. CASE DeleteAuthPolicy(m)
  BY <1>4 DEF DeleteAuthPolicy, Kept
<1>5. CASE EnforceAuthPolicy(m)
  <2> DEFINE q == [auth[m] EXCEPT !.ready = TRUE]
  <2>1. q \in AuthPolicy
    BY <1>2 DEF AuthPolicy
  <2>2. /\ q.exists = auth[m].exists /\ q.subjects = auth[m].subjects /\ q.from = auth[m].from
        /\ q.oidc = auth[m].oidc /\ q.opted = auth[m].opted /\ q.managed = auth[m].managed
    BY <1>2 DEF AuthPolicy
  <2>3. auth' = [auth EXCEPT ![m] = q]
    BY <1>5 DEF EnforceAuthPolicy
  <2> HIDE DEF q
  <2>4. Kept(auth[m], q)
    BY <1>2, <2>2 DEF Kept, AuthPolicy
  <2> QED
    BY <2>1, <2>3, <2>4
<1>6. CASE OptOut(m)
  <2> DEFINE b == ~auth[m].managed
             q == [auth[m] EXCEPT !.managed = b, !.opted = TRUE]
  <2>0. b \in BOOLEAN
    OBVIOUS
  <2>3. auth' = [auth EXCEPT ![m] = q]
    BY <1>6 DEF OptOut, TypeOK
  <2> HIDE DEF b
  <2>1. q \in AuthPolicy
    BY <1>2, <2>0 DEF AuthPolicy
  <2>2. /\ q.exists = auth[m].exists /\ q.subjects = auth[m].subjects /\ q.from = auth[m].from
        /\ q.oidc = auth[m].oidc /\ q.opted = TRUE
    BY <1>2 DEF AuthPolicy
  <2> HIDE DEF q
  <2>4. Kept(auth[m], q)
    BY <1>2, <2>2 DEF Kept, AuthPolicy
  <2> QED
    BY <2>1, <2>3, <2>4
<1> QED
  BY <1>4, <1>5, <1>6

\* The worker goes on with the next ref.
LEMMA NextRef ==
    ASSUME TypeOK, NEW m \in Models, reconcileModelAuthPolicies(m) \/ DeleteForRef(m)
    PROVE  /\ worker' \in Worker /\ worker'.pc = worker.pc /\ worker'.p = worker.p
           /\ worker'.obj = worker.obj /\ worker'.oidc = worker.oidc
           /\ worker'.todo = worker.todo \ {m}
<1>1. PICK done \in SUBSET Models : worker' = [worker EXCEPT !.todo = @ \ {m}, !.done = done]
  <2>1. worker.done \in SUBSET Models
    BY DEF TypeOK, Worker
  <2>2. CASE reconcileModelAuthPolicies(m)
    <3>1. CASE modelCache[m].st = "live" /\ modelCache[m].route
      <4>1. worker' = [worker EXCEPT !.todo = @ \ {m}, !.done = worker.done \cup {m}]
        BY <2>2, <3>1 DEF reconcileModelAuthPolicies, TypeOK, Worker
      <4>2. worker.done \cup {m} \in SUBSET Models
        BY <2>1
      <4> QED
        BY <4>1, <4>2
    <3>2. CASE ~(modelCache[m].st = "live" /\ modelCache[m].route)
      <4>1. worker' = [worker EXCEPT !.todo = @ \ {m}, !.done = worker.done]
        BY <2>2, <3>2 DEF reconcileModelAuthPolicies, TypeOK, Worker
      <4> QED
        BY <2>1, <4>1
    <3> QED
      BY <3>1, <3>2
  <2>3. CASE DeleteForRef(m)
    <3>1. worker' = [worker EXCEPT !.todo = @ \ {m}, !.done = worker.done]
      BY <2>3 DEF DeleteForRef, TypeOK, Worker
    <3> QED
      BY <2>1, <3>1
  <2> QED
    BY <2>2, <2>3
<1>2. worker' \in Worker
  BY <1>1 DEF TypeOK, Worker
<1>3. /\ worker'.pc = worker.pc /\ worker'.p = worker.p
      /\ worker'.obj = worker.obj /\ worker'.oidc = worker.oidc
      /\ worker'.todo = worker.todo \ {m}
  BY <1>1 DEF TypeOK, Worker
<1> QED
  BY <1>2, <1>3

\* reconcileModelAuthPolicies builds the AuthPolicy of a served model anew,
\* deletes that of a model that is not live, or does nothing.
LEMMA RebuildEffect ==
    ASSUME TypeOK, NEW m \in Models, reconcileModelAuthPolicies(m)
    PROVE  /\ auth' \in [Models -> AuthPolicy]
           /\ events' \in SUBSET (Models \cup {TenantEvent}) /\ events \subseteq events'
           /\ \A n \in Models : n # m => auth'[n] = auth[n]
           /\ \/ /\ auth[m].managed /\ auth'[m].exists /\ auth'[m].managed
                 /\ auth'[m].subjects = Aggregated(m)
                 /\ auth'[m].from = findAllAuthPoliciesForModel(m)
                 /\ auth'[m].oidc = worker.oidc
                 /\ auth'[m].opted = auth[m].opted
              \/ /\ ~Served(m) \/ ~auth[m].managed
                 /\ auth'[m] = auth[m]
              \/ /\ ~Served(m) /\ Kept(auth[m], auth'[m])
<1> USE Types
<1>0. /\ auth \in [Models -> AuthPolicy] /\ auth[m] \in AuthPolicy
      /\ events \in SUBSET (Models \cup {TenantEvent})
      /\ Aggregated(m) \in SUBSET Subjects /\ findAllAuthPoliciesForModel(m) \in SUBSET Policies
      /\ worker.oidc \in BOOLEAN
  BY DEF TypeOK, Aggregated, findAllAuthPoliciesForModel, MaaSAuthPolicy, Worker
<1>1. CASE modelCache[m].st # "live" /\ deleteModelAuthPolicy({m})
  <2>1. AuthKept /\ events \subseteq events'
    BY <1>1, DeletionKeeps DEF deleteModelAuthPolicy
  <2>2. \A n \in Models : n # m => auth'[n] = auth[n]
    BY <1>0, <1>1 DEF deleteModelAuthPolicy
  <2> QED
    BY <1>1, <2>1, <2>2 DEF AuthKept, Served
<1>2. CASE ~Served(m) /\ UNCHANGED <<auth, events>>
  BY <1>0, <1>2
<1>3. CASE ~auth[m].managed /\ UNCHANGED <<auth, events>>
  BY <1>0, <1>3
<1>4. CASE /\ auth[m].managed
           /\ auth' = [auth EXCEPT ![m] = [auth[m] EXCEPT !.exists = TRUE,
                         !.subjects = Aggregated(m), !.from = findAllAuthPoliciesForModel(m),
                         !.oidc = worker.oidc]]
           /\ events' = events \/ events' = events \cup {m}
  <2> DEFINE q == [auth[m] EXCEPT !.exists = TRUE, !.subjects = Aggregated(m),
                     !.from = findAllAuthPoliciesForModel(m), !.oidc = worker.oidc]
  <2>1. q \in AuthPolicy
    BY <1>0 DEF AuthPolicy
  <2>2. /\ q.exists = TRUE /\ q.subjects = Aggregated(m) /\ q.from = findAllAuthPoliciesForModel(m)
        /\ q.oidc = worker.oidc /\ q.managed = auth[m].managed /\ q.opted = auth[m].opted
    BY <1>0 DEF AuthPolicy
  <2> HIDE DEF q
  <2>3. auth' = [auth EXCEPT ![m] = q]
    BY <1>4 DEF q
  <2>4. /\ auth' \in [Models -> AuthPolicy] /\ auth'[m] = q
        /\ \A n \in Models : n # m => auth'[n] = auth[n]
    BY <1>0, <2>1, <2>3
  <2>5. events' \in SUBSET (Models \cup {TenantEvent}) /\ events \subseteq events'
    BY <1>0, <1>4
  <2> QED
    BY <1>4, <2>2, <2>4, <2>5
<1> QED
  BY <1>1, <1>2, <1>3, <1>4 DEF reconcileModelAuthPolicies, Served

\* p, which is there and not being deleted, gets a new status or its finalizer.
LiveWrite(p) ==
    /\ pol' \in [Policies -> MaaSAuthPolicy]
    /\ \A x \in Policies : x # p => pol'[x] = pol[x]
    /\ pol[p].exists /\ ~pol[p].deleting
    /\ pol'[p].exists /\ ~pol'[p].deleting
    /\ pol'[p].rev = pol[p].rev
    /\ pol'[p].refs = pol[p].refs /\ pol'[p].subjects = pol[p].subjects

LEMMA StatusWrite ==
    ASSUME TypeOK, NEW phase \in Phases, updateStatus(phase),
           worker.obj.exists, ~worker.obj.deleting
    PROVE  pol' = pol \/ LiveWrite(worker.p)
<1>1. CASE ~Current
  BY <1>1 DEF updateStatus
<1>2. CASE Current
  <2> DEFINE o == [pol[worker.p] EXCEPT !.phase = phase]
  <2>0. /\ worker.p \in Policies /\ pol[worker.p] \in MaaSAuthPolicy
        /\ pol[worker.p].exists /\ ~pol[worker.p].deleting
    BY <1>2 DEF TypeOK, Worker, Current
  <2>1. o \in MaaSAuthPolicy
    BY <2>0 DEF MaaSAuthPolicy
  <2>2. /\ o.exists = pol[worker.p].exists /\ o.deleting = pol[worker.p].deleting
        /\ o.fin = pol[worker.p].fin /\ o.rev = pol[worker.p].rev
        /\ o.refs = pol[worker.p].refs /\ o.subjects = pol[worker.p].subjects
    BY <2>0 DEF MaaSAuthPolicy
  <2>3. pol' = [pol EXCEPT ![worker.p] = o]
    BY <1>2 DEF updateStatus
  <2> HIDE DEF o
  <2>4. /\ pol' \in [Policies -> MaaSAuthPolicy] /\ pol'[worker.p] = o
        /\ \A x \in Policies : x # worker.p => pol'[x] = pol[x]
    BY <2>0, <2>1, <2>3 DEF TypeOK
  <2> QED
    BY <2>0, <2>2, <2>4 DEF LiveWrite
<1> QED
  BY <1>1, <1>2

\* The reconcile that adds the finalizer goes on with the object it wrote.
LEMMA FinalizerWrite ==
    ASSUME TypeOK, AddFinalizer, Current, worker.obj.exists, ~worker.obj.deleting
    PROVE  /\ LiveWrite(worker.p)
           /\ worker' \in Worker /\ worker'.pc = "models" /\ worker'.p = worker.p
           /\ worker'.obj = pol'[worker.p] /\ worker'.todo = worker.obj.refs
           /\ worker'.oidc = worker.oidc /\ worker'.obj.refs = worker.obj.refs
           /\ UNCHANGED queue
<1> DEFINE o == [worker.obj EXCEPT !.fin = TRUE]
           w == [worker EXCEPT !.obj = o]
<1>0. /\ worker \in Worker /\ worker.p \in Policies /\ worker.obj \in MaaSAuthPolicy
      /\ pol[worker.p] = worker.obj
  BY DEF TypeOK, Worker, Current
<1>1. o \in MaaSAuthPolicy
  BY <1>0 DEF MaaSAuthPolicy
<1>2. /\ o.exists = worker.obj.exists /\ o.deleting = worker.obj.deleting
      /\ o.fin = TRUE /\ o.rev = worker.obj.rev
      /\ o.refs = worker.obj.refs /\ o.subjects = worker.obj.subjects
  BY <1>0 DEF MaaSAuthPolicy
<1>3. pol' = [pol EXCEPT ![worker.p] = o] /\ worker' = findMissingModelRefs(w) /\ UNCHANGED queue
  BY DEF AddFinalizer
<1> HIDE DEF o
<1>4. w \in Worker /\ w.p = worker.p /\ w.obj = o /\ w.oidc = worker.oidc
  <2>1. w \in Worker
    BY <1>0, <1>1 DEF Worker
  <2>2. w.p = worker.p /\ w.obj = o /\ w.oidc = worker.oidc
    BY <1>0, <1>1 DEF Worker
  <2> QED
    BY <2>1, <2>2
<1> HIDE DEF w
<1>5. /\ pol' \in [Policies -> MaaSAuthPolicy] /\ pol'[worker.p] = o
      /\ \A x \in Policies : x # worker.p => pol'[x] = pol[x]
  BY <1>0, <1>1, <1>3 DEF TypeOK
<1>6. LiveWrite(worker.p)
  BY <1>0, <1>2, <1>5 DEF LiveWrite
<1> QED
  BY <1>2, <1>3, <1>4, <1>5, <1>6, ValidatedWorker

LEMMA ApplyWrite ==
    ASSUME TypeOK, NEW p \in Policies, NEW spec \in Specs, ApplyPolicy(p, spec)
    PROVE  /\ pol' \in [Policies -> MaaSAuthPolicy]
           /\ \A x \in Policies : x # p => pol'[x] = pol[x]
           /\ pol'[p].exists /\ pol'[p].rev = used + 1 /\ pol'[p].subjects # {}
           /\ pol'[p].deleting = pol[p].deleting /\ pol'[p].fin = pol[p].fin
<1> DEFINE n == used + 1
           o == [pol[p] EXCEPT !.exists = TRUE, !.refs = spec.refs, !.subjects = spec.subjects,
                               !.rev = n]
<1>0. /\ pol[p] \in MaaSAuthPolicy /\ n \in Nat
      /\ spec.refs \in SUBSET Models /\ spec.subjects \in SUBSET Subjects /\ spec.subjects # {}
  BY AuthPolicyAssumption DEF TypeOK
<1>1. n = used + 1 /\ pol' = [pol EXCEPT ![p] = o]
  BY DEF ApplyPolicy, TypeOK
<1> HIDE DEF n
<1>2. o \in MaaSAuthPolicy
  BY <1>0 DEF MaaSAuthPolicy
<1>3. /\ o.exists = TRUE /\ o.rev = n /\ o.deleting = pol[p].deleting /\ o.fin = pol[p].fin
      /\ o.subjects # {}
  BY <1>0 DEF MaaSAuthPolicy
<1> HIDE DEF o
<1>4. /\ pol' \in [Policies -> MaaSAuthPolicy] /\ pol'[p] = o
      /\ \A x \in Policies : x # p => pol'[x] = pol[x]
  BY <1>1, <1>2 DEF TypeOK
<1> QED
  BY <1>1, <1>3, <1>4

LEMMA DeleteWrite ==
    ASSUME TypeOK, NEW p \in Policies, DeletePolicy(p)
    PROVE  /\ pol' \in [Policies -> MaaSAuthPolicy]
           /\ \A x \in Policies : x # p => pol'[x] = pol[x]
           /\ pol[p].exists /\ ~pol[p].deleting
           /\ \/ pol'[p] = NoPolicy /\ ~pol[p].fin /\ ghosts' = ghosts \cup {p}
              \/ /\ pol[p].fin /\ pol'[p].fin /\ pol'[p].deleting /\ pol'[p].exists
                 /\ pol'[p].rev = pol[p].rev /\ pol'[p].refs = pol[p].refs
                 /\ pol'[p].subjects = pol[p].subjects /\ ghosts' = ghosts
<1> USE Types
<1>0. pol[p] \in MaaSAuthPolicy /\ pol[p].exists /\ ~pol[p].deleting
  BY DEF TypeOK, DeletePolicy
<1>1. CASE ~pol[p].fin
  BY <1>0, <1>1 DEF DeletePolicy, TypeOK
<1>2. CASE pol[p].fin
  <2> DEFINE o == [pol[p] EXCEPT !.deleting = TRUE]
  <2>1. o \in MaaSAuthPolicy
    BY <1>0 DEF MaaSAuthPolicy
  <2>2. /\ o.exists = pol[p].exists /\ o.fin = pol[p].fin /\ o.deleting = TRUE
        /\ o.rev = pol[p].rev /\ o.refs = pol[p].refs /\ o.subjects = pol[p].subjects
    BY <1>0 DEF MaaSAuthPolicy
  <2>3. pol' = [pol EXCEPT ![p] = o] /\ ghosts' = ghosts
    BY <1>2 DEF DeletePolicy
  <2> HIDE DEF o
  <2>4. /\ pol' \in [Policies -> MaaSAuthPolicy] /\ pol'[p] = o
        /\ \A x \in Policies : x # p => pol'[x] = pol[x]
    BY <2>1, <2>3 DEF TypeOK
  <2> QED
    BY <1>0, <1>2, <2>2, <2>3, <2>4
<1> QED
  BY <1>1, <1>2
-----------------------------------------------------------------------------
(* Every action keeps IInv. *)

\* The bound on disturbances and the history variables.
Grows ==
    /\ used' \in 0 .. MaxDisturbances /\ used' >= used
    /\ ghosts' \in SUBSET Policies /\ ghosts \subseteq ghosts'
    /\ misread' \in BOOLEAN
    /\ misread => misread'

LEMMA Used ==
    ASSUME TypeOK, [Next]_vars
    PROVE  Grows
<1> USE AuthPolicyAssumption DEF TypeOK, Grows, history
<1>0. ASSUME NEW k, Disturb(k) PROVE used' \in 0 .. MaxDisturbances /\ used' >= used
  BY <1>0 DEF Disturb
<1>1. CASE UNCHANGED <<used, history>>
  BY <1>1
<1>2. CASE WorkerStep
  <2>1. UNCHANGED <<used, history>>
    BY <1>2 DEF WorkerStep, Reconcile, AddFinalizer, reconcileModelAuthPolicies, InvalidSubject,
       DeleteForRef, cleanupStaleAuthPolicies, UpdateStatus, RemoveFinalizer
  <2> QED
    BY <1>1, <2>1
<1>3. CASE Watches \/ Cluster
  <2>1. UNCHANGED <<used, history>>
    BY <1>3 DEF Watches, WatchPolicy, WatchModel, WatchAuthPolicy, WatchTenant, Cluster,
                ModelRefDeletion, EnforceAuthPolicy
  <2> QED
    BY <1>1, <2>1
<1>4. CASE Disturbance
  <2>1. used' \in 0 .. MaxDisturbances /\ used' >= used
    BY <1>0, <1>4 DEF Disturbance, ApplyPolicy, DeletePolicy, ReadTenantFails, ChangeRoute,
       ChangeModel, DeleteAuthPolicy, OptOut, ChangeTenant, CallFails, Restart
  <2>2. CASE \E p \in Policies : DeletePolicy(p)
    BY <2>1, <2>2 DEF DeletePolicy
  <2>3. CASE \E p \in Policies : ReadTenantFails(p)
    BY <2>1, <2>3 DEF ReadTenantFails
  <2>4. CASE UNCHANGED history
    BY <2>1, <2>4
  <2> QED
    BY <1>4, <2>2, <2>3, <2>4 DEF Disturbance, ApplyPolicy, ChangeRoute,
       ChangeModel, DeleteAuthPolicy, OptOut, ChangeTenant, CallFails, Restart
<1>5. CASE UNCHANGED vars
  BY <1>1, <1>5 DEF vars
<1> QED
  BY <1>2, <1>3, <1>4, <1>5 DEF Next

LEMMA Domains ==
    ASSUME TypeOK
    PROVE  /\ used \in Nat
           /\ Grows => used' \in Nat
           /\ \A p \in Policies : pol[p].rev \in Nat /\ cache[p].rev \in Nat
           /\ worker.p \in Policies /\ worker.obj \in MaaSAuthPolicy /\ worker.obj.rev \in Nat
           /\ worker.obj.refs \in SUBSET Models /\ worker.todo \in SUBSET Models
           /\ \A m \in Models : /\ auth[m].from \in SUBSET Policies
                                /\ auth[m].subjects \in SUBSET Subjects
<1>1. used \in Nat /\ (Grows => used' \in Nat)
  BY AuthPolicyAssumption DEF TypeOK, Grows
<1>2. \A p \in Policies : pol[p].rev \in Nat /\ cache[p].rev \in Nat
  BY DEF TypeOK, MaaSAuthPolicy
<1>3. worker.p \in Policies /\ worker.obj \in MaaSAuthPolicy /\ worker.todo \in SUBSET Models
  BY DEF TypeOK, Worker
<1>4. worker.obj.rev \in Nat /\ worker.obj.refs \in SUBSET Models
  BY <1>3 DEF MaaSAuthPolicy
<1>5. \A m \in Models : auth[m].from \in SUBSET Policies /\ auth[m].subjects \in SUBSET Subjects
  BY DEF TypeOK, AuthPolicy
<1> QED
  BY <1>1, <1>2, <1>3, <1>4, <1>5

LEMMA TypeParts ==
    ASSUME Grows,
           pol' \in [Policies -> MaaSAuthPolicy], cache' \in [Policies -> MaaSAuthPolicy],
           model' \in [Models -> Model], modelCache' \in [Models -> Model],
           tenant' \in BOOLEAN \/ (tenant \in BOOLEAN /\ UNCHANGED tenant),
           auth' \in [Models -> AuthPolicy], events' \in SUBSET (Models \cup {TenantEvent}),
           queue' \in SUBSET Policies, worker' \in Worker
    PROVE  TypeOK'
<1>1. tenant' \in BOOLEAN
  OBVIOUS
<1> QED
  BY <1>1 DEF TypeOK, Grows

\* The worker stops or stays, no AuthPolicy is built, and what else the
\* invariant speaks of does not change.
LEMMA KeptStep ==
    ASSUME IInv, Grows, AuthKept, UNCHANGED <<pol, cache>>,
           worker' = worker \/ worker' = Idle, queue' \in SUBSET Policies, tenant' \in BOOLEAN,
           model' \in [Models -> Model], modelCache' \in [Models -> Model]
    PROVE  IInv'
<1> USE Types, Domains DEF IInv
<1>1. TypeOK'
  BY TypeParts DEF TypeOK, AuthKept
<1>2. FreshInv'
  BY DEF FreshInv, Grows
<1>3. ObjectInv'
  BY DEF ObjectInv, WellFormed, Marked, SameSpec
<1>4. WorkerInv' /\ CopyInv'
  BY DEF WorkerInv, CopyInv, Current
<1>5. AuthInv'
  BY DEF AuthInv, AuthKept, Kept
<1>6. \A m \in Models, p \in Policies : Clean(m, p) => Clean(m, p)'
  BY DEF Clean, AuthKept, Kept
<1>7. CleanInv'
  BY <1>6 DEF CleanInv
<1> QED
  BY <1>1, <1>2, <1>3, <1>4, <1>5, <1>7

LEMMA StartStep ==
    ASSUME IInv, Grows, NEW p \in Policies, NEW oidc \in BOOLEAN, Start(p, oidc)
    PROVE  IInv'
<1> USE Types, Domains DEF IInv
<1>0. /\ UNCHANGED <<pol, model, tenant, auth, cache, modelCache, events>>
      /\ queue' \in SUBSET Policies
  BY DEF Start, TypeOK, objects, caches
<1>1. CASE worker' = Idle
  <2>1. AuthKept
    BY <1>0, NothingKept DEF TypeOK
  <2> QED
    BY <1>0, <1>1, <2>1, KeptStep DEF TypeOK
<1>2. CASE worker' # Idle
  <2>0. /\ worker' \in Worker
        /\ worker'.p = p /\ worker'.obj = cache[p] /\ cache[p].exists
        /\ \/ worker'.pc \in {"finalizer", "models"} /\ ~cache[p].deleting
           \/ /\ worker'.pc = "delete" /\ cache[p].deleting
              /\ worker'.todo = cache[p].refs
    BY <1>2, StartWorker
  <2>1. TypeOK'
    BY <1>0, <2>0, TypeParts DEF TypeOK
  <2>2. FreshInv'
    BY <1>0, <2>0 DEF FreshInv, Grows
  <2>3. ObjectInv'
    BY <1>0, <2>0 DEF ObjectInv, WellFormed, Marked, SameSpec
  <2>4. WorkerInv' /\ CopyInv'
    BY <1>0, <2>0 DEF WorkerInv, CopyInv
  <2>5. AuthInv' /\ CleanInv'
    BY <1>0, <2>0 DEF AuthInv, CleanInv
  <2> QED
    BY <2>1, <2>2, <2>3, <2>4, <2>5
<1> QED
  BY <1>1, <1>2

\* A write to a policy that is not being deleted.
LEMMA LiveWriteStep ==
    ASSUME IInv, Grows, NEW p \in Policies, LiveWrite(p),
           UNCHANGED <<cache, model, modelCache, tenant, auth, events>>,
           queue' \in SUBSET Policies, worker' \in Worker,
           \/ worker' = worker \/ worker' = Idle
           \/ worker'.pc = "models" /\ worker'.p = p /\ worker'.obj = pol'[p]
    PROVE  IInv'
<1> USE Types, Domains DEF IInv, LiveWrite
<1>1. TypeOK'
  BY TypeParts DEF TypeOK
<1>2. FreshInv'
  BY DEF FreshInv, Grows
<1>3. /\ WellFormed(pol[p]) /\ WellFormed(pol'[p])
      /\ \A x \in Policies : \A o : Marked(o, x) => (Marked(o, x))'
      /\ \A x \in Policies : \A o : SameSpec(o, x) => (SameSpec(o, x))'
  BY DEF ObjectInv, WellFormed, Marked, SameSpec
<1>4. \A x \in Policies : /\ WellFormed(pol'[x]) /\ WellFormed(cache'[x])
                          /\ Marked(cache[x], x)' /\ SameSpec(cache[x], x)'
  BY <1>3 DEF ObjectInv, WellFormed, Marked, SameSpec
<1>5. WellFormed(worker'.obj) /\ Marked(worker.obj, worker.p)'
  <2>1. CASE worker' = worker
    BY <2>1, <1>3 DEF ObjectInv, Marked
  <2>2. CASE worker' = Idle
    BY <2>2 DEF Marked
  <2>3. CASE worker'.p = p /\ worker'.obj = pol'[p]
    BY <2>3, <1>3 DEF Marked
  <2> QED
    BY <2>1, <2>2, <2>3
<1>6. ObjectInv'
  BY <1>4, <1>5 DEF ObjectInv, WellFormed, Marked, SameSpec
<1>7. WorkerInv'
  BY DEF WorkerInv
<1>8. worker'.obj.deleting /\ Current' => worker' = worker /\ Current
  BY DEF Current
<1>9. CopyInv' /\ AuthInv'
  BY <1>8 DEF CopyInv, AuthInv
<1>10. CleanInv'
  BY DEF CleanInv, Clean
<1> QED
  BY <1>1, <1>2, <1>6, <1>7, <1>9, <1>10

\* The worker goes on while the AuthPolicies of some models change.
LEMMA WorkerStepInv ==
    ASSUME IInv, Grows, UNCHANGED <<pol, cache, model, modelCache, tenant, queue>>,
           auth' \in [Models -> AuthPolicy], events' \in SUBSET (Models \cup {TenantEvent}),
           worker' \in Worker, worker'.p = worker.p, worker'.obj = worker.obj,
           worker.pc # "idle", WorkerInv', AuthInv', CleanInv'
    PROVE  IInv'
<1> USE Types, Domains DEF IInv
<1>1. TypeOK'
  BY TypeParts DEF TypeOK
<1>2. FreshInv'
  BY DEF FreshInv, Grows
<1>3. ObjectInv'
  BY DEF ObjectInv, WellFormed, Marked, SameSpec
<1>4. CopyInv'
  BY DEF CopyInv, Current
<1> QED
  BY <1>1, <1>2, <1>3, <1>4

LEMMA RebuildStep ==
    ASSUME IInv, Grows, NEW m \in Models, reconcileModelAuthPolicies(m)
    PROVE  IInv'
<1> USE Types, Domains DEF IInv
<1>0. /\ UNCHANGED <<pol, model, tenant, cache, modelCache, queue>>
      /\ worker.pc = "models" /\ m \in worker.todo
  BY DEF reconcileModelAuthPolicies, caches
<1>1. /\ auth' \in [Models -> AuthPolicy] /\ events' \in SUBSET (Models \cup {TenantEvent})
      /\ \A n \in Models : n # m => auth'[n] = auth[n]
  BY RebuildEffect
<1>2. WorkerInv' /\ CleanInv'
  BY <1>0, NextRef DEF WorkerInv, CleanInv
<1>3. /\ ~auth'[m].managed => auth'[m].opted
      /\ auth'[m].from = {} => auth'[m].subjects = {}
  <2>1. findAllAuthPoliciesForModel(m) = {} => Aggregated(m) = {}
    BY DEF Aggregated
  <2> QED
    BY <2>1, RebuildEffect DEF AuthInv, Kept
<1>4. AuthInv'
  BY <1>1, <1>3 DEF AuthInv
<1> QED
  BY <1>0, <1>1, <1>2, <1>4, NextRef, WorkerStepInv

LEMMA DeleteForRefStep ==
    ASSUME IInv, Grows, NEW m \in Models, DeleteForRef(m)
    PROVE  IInv'
<1> USE Types, Domains DEF IInv
<1>0. /\ UNCHANGED <<pol, model, tenant, cache, modelCache, queue>>
      /\ worker.pc = "delete" /\ m \in worker.todo /\ deleteModelAuthPolicy({m})
  BY DEF DeleteForRef, caches
<1>1. AuthKept /\ (auth'[m].exists => ~auth[m].managed)
  BY <1>0, DeletionKeeps
<1>2. WorkerInv'
  BY <1>0, NextRef DEF WorkerInv
<1>3. AuthInv'
  BY <1>1 DEF AuthInv, AuthKept, Kept
<1>4. Clean(m, worker.p)'
  BY <1>1 DEF Clean, AuthKept, Kept, AuthInv
<1>5. \A n \in Models, p \in Policies : Clean(n, p) => Clean(n, p)'
  BY <1>1 DEF Clean, AuthKept, Kept
<1>6. CleanInv'
  BY <1>0, <1>4, <1>5, NextRef DEF CleanInv, Clean
<1> QED
  BY <1>0, <1>1, <1>2, <1>3, <1>6, NextRef, WorkerStepInv DEF AuthKept

LEMMA CleanupWorker ==
    ASSUME TypeOK, cleanupStaleAuthPolicies
    PROVE  /\ worker' \in Worker /\ worker'.p = worker.p /\ worker'.obj = worker.obj
           /\ worker'.oidc = worker.oidc
           /\ worker'.pc = IF worker.pc = "delete" THEN "drop" ELSE "status"
<1> DEFINE pc == IF worker.pc = "delete" THEN "drop" ELSE "status"
<1>1. worker' = [worker EXCEPT !.pc = pc]
  BY DEF cleanupStaleAuthPolicies, TypeOK, Worker
<1>2. pc \in {"drop", "status"}
  OBVIOUS
<1> HIDE DEF pc
<1>3. worker' \in Worker
  BY <1>1, <1>2 DEF TypeOK, Worker
<1>4. worker'.p = worker.p /\ worker'.obj = worker.obj /\ worker'.oidc = worker.oidc /\ worker'.pc = pc
  BY <1>1 DEF TypeOK, Worker
<1> QED
  BY <1>3, <1>4 DEF pc

\* A managed AuthPolicy of a model that left the refs does not survive.
LEMMA CleanupEffect ==
    ASSUME IInv, cleanupStaleAuthPolicies
    PROVE  /\ AuthKept /\ events \subseteq events'
           /\ \A m \in Models : m \notin worker.obj.refs => Clean(m, worker.p)'
<1> USE Types, Domains DEF IInv
<1>1. deleteModelAuthPolicy(StaleAuthPolicies) /\ StaleAuthPolicies \in SUBSET Models
  BY DEF cleanupStaleAuthPolicies, StaleAuthPolicies
<1>2. /\ AuthKept /\ events \subseteq events'
      /\ \A m \in StaleAuthPolicies : auth'[m].exists => ~auth[m].managed
  BY <1>1, DeletionKeeps
<1>3. ASSUME NEW m \in Models, m \notin worker.obj.refs, auth'[m].exists, ~auth'[m].opted,
             worker.p \in auth'[m].from
      PROVE  FALSE
  <2>1. auth[m].exists /\ ~auth[m].opted /\ worker.p \in auth[m].from
    BY <1>2, <1>3 DEF AuthKept, Kept
  <2>2. m \in StaleAuthPolicies
    BY <1>3, <2>1 DEF StaleAuthPolicies
  <2> QED
    BY <1>2, <1>3, <2>1, <2>2 DEF AuthInv
<1>4. worker'.p = worker.p
  BY CleanupWorker
<1> QED
  BY <1>2, <1>3, <1>4 DEF Clean

LEMMA CleanupStep ==
    ASSUME IInv, Grows, cleanupStaleAuthPolicies
    PROVE  IInv'
<1> USE Types, Domains DEF IInv
<1>0. /\ UNCHANGED <<pol, model, tenant, cache, modelCache, queue>>
      /\ worker.pc \in {"models", "delete"} /\ worker.todo = {}
  BY DEF cleanupStaleAuthPolicies, caches
<1>1. AuthKept
  BY CleanupEffect
<1>2. WorkerInv'
  BY <1>0, CleanupWorker DEF WorkerInv
<1>3. AuthInv'
  BY <1>1 DEF AuthInv, AuthKept, Kept
<1>4. \A n \in Models, p \in Policies : Clean(n, p) => Clean(n, p)'
  BY <1>1 DEF Clean, AuthKept, Kept
<1>5. CleanInv'
  <2>1. CASE worker.pc = "models"
    BY <2>1, CleanupWorker DEF CleanInv
  <2>2. CASE worker.pc = "delete"
    <3>1. \A m \in worker.obj.refs : Clean(m, worker.p)'
      BY <1>0, <1>4, <2>2, CleanupWorker DEF CleanInv, Clean
    <3> QED
      BY <2>2, <3>1, CleanupEffect, CleanupWorker DEF CleanInv
  <2> QED
    BY <1>0, <2>1, <2>2
<1> QED
  BY <1>0, <1>1, <1>2, <1>3, <1>5, CleanupWorker, WorkerStepInv DEF AuthKept

\* ReconcileFailed, from the steps that can fail.
LEMMA FailedStep ==
    ASSUME IInv, Grows, ReconcileFailed, worker.pc # "idle",
           UNCHANGED <<cache, model, modelCache, tenant, auth, events>>
    PROVE  IInv'
<1> USE Types, Domains DEF IInv
<1>1. worker' = Idle /\ queue' \in SUBSET Policies
  BY DEF ReconcileFailed, Requeue, TypeOK
<1>2. CASE pol' = pol
  <2>1. AuthKept
    BY NothingKept DEF TypeOK
  <2> QED
    BY <1>1, <1>2, <2>1, KeptStep DEF TypeOK
<1>3. CASE pol' # pol
  <2>1. ~worker.obj.deleting /\ updateStatus("Failed") /\ worker.obj.exists
    BY <1>3 DEF ReconcileFailed, WorkerInv
  <2>2. LiveWrite(worker.p)
    BY <1>3, <2>1, StatusWrite DEF Phases
  <2> QED
    BY <1>1, <2>2, LiveWriteStep
<1> QED
  BY <1>2, <1>3

\* Requeue, when the write of a finalizer is refused.
LEMMA RequeueStep ==
    ASSUME IInv, Grows, Requeue, UNCHANGED <<pol, cache, model, modelCache, tenant, auth, events>>
    PROVE  IInv'
<1>1. worker' = Idle /\ queue' \in SUBSET Policies
  BY Domains DEF Requeue, TypeOK, IInv
<1>2. AuthKept
  BY NothingKept DEF TypeOK, IInv
<1> QED
  BY <1>1, <1>2, KeptStep DEF IInv, TypeOK

LEMMA FinalizerStep ==
    ASSUME IInv, Grows, AddFinalizer
    PROVE  IInv'
<1> USE Domains DEF IInv
<1>0. /\ UNCHANGED <<cache, model, modelCache, tenant, auth, events>>
      /\ worker.obj.exists /\ ~worker.obj.deleting
  BY DEF AddFinalizer, caches, WorkerInv
<1>1. CASE Current
  BY <1>0, <1>1, FinalizerWrite, LiveWriteStep DEF TypeOK
<1>2. CASE ~Current
  BY <1>0, <1>2, RequeueStep DEF AddFinalizer
<1> QED
  BY <1>1, <1>2

LEMMA PhaseType ==
    ASSUME NEW refs, NEW missing, NEW ready, NEW unready
    PROVE  deriveAuthPolicyPhase(refs, missing, ready, unready) \in Phases
<1>1. CASE missing = refs
  BY <1>1 DEF deriveAuthPolicyPhase, Phases
<1>2. CASE missing # refs /\ (missing # {} \/ unready # {} \/ ready = {})
  BY <1>2 DEF deriveAuthPolicyPhase, Phases
<1>3. CASE missing # refs /\ missing = {} /\ unready = {} /\ ready # {}
  BY <1>3 DEF deriveAuthPolicyPhase, Phases
<1> QED
  BY <1>1, <1>2, <1>3

\* The status write at the end of a reconcile.
LEMMA StatusEffect ==
    ASSUME IInv, UpdateStatus
    PROVE  /\ UNCHANGED <<cache, model, modelCache, tenant, auth, events, queue>>
           /\ worker' = Idle /\ worker.pc = "status"
           /\ pol' = pol \/ LiveWrite(worker.p)
<1>1. worker.obj.exists /\ ~worker.obj.deleting
  BY DEF UpdateStatus, WorkerInv, IInv
<1>2. PICK phase \in Phases : updateStatus(phase)
  BY PhaseType DEF UpdateStatus
<1> QED
  BY <1>1, <1>2, StatusWrite DEF UpdateStatus, caches, IInv

LEMMA StatusStep ==
    ASSUME IInv, Grows, UpdateStatus
    PROVE  IInv'
<1> USE Types, Domains DEF IInv
<1>1. CASE pol' = pol
  <2>1. AuthKept
    BY StatusEffect, NothingKept DEF TypeOK
  <2> QED
    BY <1>1, <2>1, StatusEffect, KeptStep DEF TypeOK
<1>2. CASE LiveWrite(worker.p)
  BY <1>2, StatusEffect, LiveWriteStep DEF TypeOK
<1> QED
  BY <1>1, <1>2, StatusEffect

\* p goes; the reconcile in progress stops or is not of that version.
LEMMA GoneStep ==
    ASSUME IInv, Grows, NEW p \in Policies, pol' = [pol EXCEPT ![p] = NoPolicy],
           UNCHANGED <<cache, model, modelCache, tenant, auth, events, queue>>,
           worker' = worker \/ worker' = Idle
    PROVE  IInv'
<1> USE Types, Domains DEF IInv
<1>0. /\ pol' \in [Policies -> MaaSAuthPolicy] /\ pol'[p] = NoPolicy
      /\ \A x \in Policies : x # p => pol'[x] = pol[x]
  BY DEF TypeOK
<1>1. TypeOK'
  BY <1>0, TypeParts DEF TypeOK
<1>2. FreshInv'
  BY <1>0 DEF FreshInv, Grows
<1>3. ObjectInv'
  BY <1>0 DEF ObjectInv, WellFormed, Marked, SameSpec
<1>4. WorkerInv' /\ AuthInv' /\ CleanInv'
  BY DEF WorkerInv, AuthInv, CleanInv, Clean
<1>5. worker'.obj.deleting /\ Current' => worker' = worker /\ Current
  BY <1>0 DEF Current
<1>6. CopyInv'
  BY <1>5 DEF CopyInv
<1> QED
  BY <1>1, <1>2, <1>3, <1>4, <1>6

LEMMA ReleaseStep ==
    ASSUME IInv, Grows, RemoveFinalizer
    PROVE  IInv'
<1> USE Domains DEF IInv
<1>0. UNCHANGED <<cache, model, modelCache, tenant, auth, events>>
  BY DEF RemoveFinalizer, caches
<1>1. CASE Current
  BY <1>0, <1>1, GoneStep DEF RemoveFinalizer
<1>2. CASE ~Current
  BY <1>0, <1>2, RequeueStep DEF RemoveFinalizer
<1> QED
  BY <1>1, <1>2

\* kubectl apply and kubectl delete: the copy that a deletion works on does not
\* become the current one.
LEMMA UserStep ==
    ASSUME IInv, Grows, NEW p \in Policies,
           DeletePolicy(p) \/ \E spec \in Specs : ApplyPolicy(p, spec)
    PROVE  IInv' /\ (worker.obj.deleting /\ Current' => Current)
<1> USE Types, Domains DEF IInv
<1>0. UNCHANGED <<cache, model, modelCache, tenant, auth, events, queue, worker>>
  BY DEF DeletePolicy, ApplyPolicy, caches
<1>1. /\ pol' \in [Policies -> MaaSAuthPolicy] /\ \A x \in Policies : x # p => pol'[x] = pol[x]
  BY DeleteWrite, ApplyWrite
<1>2. \/ pol'[p] = NoPolicy
      \/ /\ pol[p].exists /\ ~pol[p].deleting
         /\ pol'[p].fin /\ pol'[p].deleting /\ pol'[p].exists /\ pol'[p].rev = pol[p].rev
         /\ pol'[p].refs = pol[p].refs /\ pol'[p].subjects = pol[p].subjects
      \/ /\ pol'[p].exists /\ pol'[p].rev = used + 1 /\ used' = used + 1
         /\ pol'[p].subjects # {}
         /\ pol'[p].deleting = pol[p].deleting /\ pol'[p].fin = pol[p].fin
  <2>1. CASE DeletePolicy(p)
    BY <2>1, DeleteWrite
  <2>2. ASSUME NEW spec \in Specs, ApplyPolicy(p, spec)
        PROVE  /\ pol'[p].exists /\ pol'[p].rev = used + 1 /\ used' = used + 1
               /\ pol'[p].subjects # {}
               /\ pol'[p].deleting = pol[p].deleting /\ pol'[p].fin = pol[p].fin
    <3>1. TypeOK /\ used' = used + 1
      BY <2>2 DEF ApplyPolicy, Disturb
    <3>2. /\ pol'[p].exists /\ pol'[p].rev = used + 1 /\ pol'[p].subjects # {}
          /\ pol'[p].deleting = pol[p].deleting /\ pol'[p].fin = pol[p].fin
      BY <2>2, <3>1, ApplyWrite
    <3> QED
      BY <3>1, <3>2, Zenon
  <2> QED
    BY <2>1, <2>2
<1>3. TypeOK'
  BY <1>0, <1>1, TypeParts DEF TypeOK
<1>4. FreshInv'
  BY <1>0, <1>1, <1>2 DEF FreshInv, Grows
<1>5. ObjectInv'
  BY <1>0, <1>1, <1>2 DEF ObjectInv, WellFormed, Marked, SameSpec, FreshInv
<1>6. WorkerInv' /\ AuthInv' /\ CleanInv'
  BY <1>0 DEF WorkerInv, AuthInv, CleanInv, Clean
<1>7. worker.obj.deleting /\ Current' => Current
  BY <1>0, <1>1, <1>2 DEF Current, ObjectInv, Marked, FreshInv
<1>8. CopyInv'
  BY <1>0, <1>7 DEF CopyInv
<1> QED
  BY <1>3, <1>4, <1>5, <1>6, <1>7, <1>8

LEMMA WatchPolicyStep ==
    ASSUME IInv, Grows, NEW p \in Policies, WatchPolicy(p)
    PROVE  IInv'
<1> USE Domains DEF IInv
<1>0. /\ UNCHANGED <<pol, model, modelCache, tenant, auth, events, worker>>
      /\ queue' \in SUBSET Policies /\ cache' = [cache EXCEPT ![p] = pol[p]]
  BY DEF WatchPolicy, TypeOK, objects
<1>1. /\ cache' \in [Policies -> MaaSAuthPolicy] /\ cache'[p] = pol[p]
      /\ \A x \in Policies : x # p => cache'[x] = cache[x]
  BY <1>0 DEF TypeOK
<1>2. TypeOK'
  BY <1>0, <1>1, TypeParts DEF TypeOK
<1>3. FreshInv'
  BY <1>0, <1>1 DEF FreshInv, Grows
<1>4. ObjectInv'
  BY <1>0, <1>1 DEF ObjectInv, WellFormed, Marked, SameSpec
<1>5. WorkerInv' /\ AuthInv' /\ CleanInv'
  BY <1>0 DEF WorkerInv, AuthInv, CleanInv, Clean
<1>6. CopyInv'
  BY <1>0, <1>1 DEF CopyInv, Current
<1> QED
  BY <1>2, <1>3, <1>4, <1>5, <1>6

LEMMA RestartStep ==
    ASSUME IInv, Grows, Restart
    PROVE  IInv'
<1> USE Types, Domains DEF IInv
<1>0. /\ worker' = Idle /\ cache' = pol /\ modelCache' = model
      /\ queue' \in SUBSET Policies /\ events' = {} /\ UNCHANGED <<pol, model, tenant, auth>>
  BY DEF Restart, objects
<1>1. TypeOK'
  BY <1>0, TypeParts DEF TypeOK
<1>2. FreshInv'
  BY <1>0 DEF FreshInv, Grows
<1>3. ObjectInv' /\ WorkerInv' /\ AuthInv'
  BY <1>0 DEF ObjectInv, WellFormed, Marked, SameSpec, WorkerInv, AuthInv
<1>4. CopyInv' /\ CleanInv'
  BY <1>0 DEF CopyInv, CleanInv
<1> QED
  BY <1>1, <1>2, <1>3, <1>4

\* A policy and an AuthPolicy at the start.
StartObject(spec) ==
    [NoPolicy EXCEPT !.exists = TRUE, !.refs = spec.refs, !.subjects = spec.subjects,
                     !.fin = TRUE, !.phase = "Active"]

StartAuth(from, subjects) ==
    [NoAuth EXCEPT !.exists = TRUE, !.from = from, !.ready = TRUE, !.subjects = subjects]

LEMMA StartObjects ==
    /\ \A spec : spec.refs \in SUBSET Models /\ spec.subjects \in SUBSET Subjects =>
         LET o == StartObject(spec)
         IN  /\ o \in MaaSAuthPolicy /\ o.exists /\ o.refs = spec.refs /\ o.rev = 0
             /\ o.subjects = spec.subjects /\ ~o.deleting /\ o.fin
    /\ \A from \in SUBSET Policies, subjects \in SUBSET Subjects :
         LET a == StartAuth(from, subjects)
         IN  /\ a \in AuthPolicy /\ a.from = from /\ a.subjects = subjects
             /\ a.managed /\ a.oidc = FALSE
<1> USE Types
<1>1. ASSUME NEW spec, spec.refs \in SUBSET Models, spec.subjects \in SUBSET Subjects
      PROVE  LET o == StartObject(spec)
             IN  /\ o \in MaaSAuthPolicy /\ o.exists /\ o.refs = spec.refs /\ o.rev = 0
                 /\ o.subjects = spec.subjects /\ ~o.deleting /\ o.fin
  <2> DEFINE refs == spec.refs
             subjects == spec.subjects
             o == [NoPolicy EXCEPT !.exists = TRUE, !.refs = refs, !.subjects = subjects,
                     !.fin = TRUE, !.phase = "Active"]
  <2>0. StartObject(spec) = o /\ refs \in SUBSET Models /\ subjects \in SUBSET Subjects
    BY <1>1 DEF StartObject
  <2> HIDE DEF refs, subjects
  <2>1. o \in MaaSAuthPolicy
    BY <2>0 DEF MaaSAuthPolicy, Phases
  <2>2. o.exists /\ o.refs = refs /\ o.rev = 0 /\ o.subjects = subjects /\ ~o.deleting /\ o.fin
    BY DEF NoPolicy
  <2> HIDE DEF o
  <2> QED
    BY <2>0, <2>1, <2>2 DEF refs, subjects
<1>2. ASSUME NEW from \in SUBSET Policies, NEW subjects \in SUBSET Subjects
      PROVE  LET a == StartAuth(from, subjects)
             IN  /\ a \in AuthPolicy /\ a.from = from /\ a.subjects = subjects
                 /\ a.managed /\ a.oidc = FALSE
  <2> DEFINE a == [NoAuth EXCEPT !.exists = TRUE, !.from = from, !.ready = TRUE,
                                 !.subjects = subjects]
  <2>0. StartAuth(from, subjects) = a
    BY DEF StartAuth
  <2>1. a \in AuthPolicy
    BY DEF AuthPolicy
  <2>2. a.from = from /\ a.subjects = subjects /\ a.managed /\ a.oidc = FALSE
    BY DEF NoAuth
  <2> HIDE DEF a
  <2> QED
    BY <2>0, <2>1, <2>2
<1> QED
  BY <1>1, <1>2

\* The facts of Init: what is there was reconciled.
LEMMA InitFacts ==
    ASSUME Init
    PROVE  /\ pol \in [Policies -> MaaSAuthPolicy] /\ auth \in [Models -> AuthPolicy]
           /\ \A p \in Policies : /\ pol[p].rev = 0 /\ ~pol[p].deleting
                                  /\ pol[p].fin <=> pol[p].exists
                                  /\ pol[p].exists => pol[p].subjects # {}
           /\ \A m \in Models : /\ auth[m].managed /\ auth[m].oidc = FALSE
                                /\ auth[m].from = {p \in Policies : m \in pol[p].refs}
                                /\ auth[m].subjects = UNION {pol[p].subjects : p \in auth[m].from}
           /\ \A p \in Policies : pol[p].refs # {} => pol[p].exists
<1> USE Types
<1> DEFINE None == [refs |-> {}, subjects |-> {}]
           from(start, m) == {p \in Policies : m \in start[p].refs}
           subjects(start, m) == UNION {start[p].subjects : p \in from(start, m)}
<1>1. PICK start \in [Policies -> Specs \cup {None}] :
         /\ pol = [p \in Policies |->
                     IF start[p].refs = {} THEN NoPolicy ELSE StartObject(start[p])]
         /\ auth = [m \in Models |->
                      IF from(start, m) = {} THEN NoAuth
                      ELSE StartAuth(from(start, m), subjects(start, m))]
  BY DEF Init, StartObject, StartAuth
<1>2. \A p \in Policies : /\ start[p].refs \in SUBSET Models
                          /\ start[p].subjects \in SUBSET Subjects
                          /\ start[p].refs # {} => start[p].subjects # {}
  BY AuthPolicyAssumption
<1>3. ASSUME NEW p \in Policies
      PROVE  /\ pol[p] \in MaaSAuthPolicy /\ pol[p].rev = 0 /\ ~pol[p].deleting
             /\ pol[p].fin <=> pol[p].exists
             /\ pol[p].exists => pol[p].subjects # {}
             /\ pol[p].refs = start[p].refs
             /\ pol[p].refs # {} => pol[p].exists /\ pol[p].subjects = start[p].subjects
  <2>1. CASE start[p].refs = {}
    BY <1>1, <2>1 DEF WellFormed, NoPolicy
  <2>2. CASE start[p].refs # {}
    <3>1. pol[p] = StartObject(start[p])
      BY <1>1, <2>2
    <3> QED
      BY <1>2, <2>2, <3>1, StartObjects
  <2> QED
    BY <2>1, <2>2
<1>4. pol \in [Policies -> MaaSAuthPolicy]
  BY <1>1, <1>3
<1>5. ASSUME NEW m \in Models
      PROVE  /\ auth[m] \in AuthPolicy /\ auth[m].managed /\ auth[m].oidc = FALSE
             /\ auth[m].from = from(start, m) /\ auth[m].subjects = subjects(start, m)
  <2>0. from(start, m) \in SUBSET Policies /\ subjects(start, m) \in SUBSET Subjects
    BY <1>2
  <2>1. CASE from(start, m) = {}
    <3>1. auth[m] = NoAuth /\ subjects(start, m) = {}
      BY <1>1, <2>1
    <3>2. NoAuth.oidc = FALSE
      BY DEF NoAuth
    <3> QED
      BY <2>1, <3>1, <3>2
  <2>2. CASE from(start, m) # {}
    <3>1. auth[m] = StartAuth(from(start, m), subjects(start, m))
      BY <1>1, <2>2
    <3> HIDE DEF from, subjects
    <3> QED
      BY <2>0, <3>1, StartObjects
  <2> QED
    BY <2>1, <2>2
<1>6. auth \in [Models -> AuthPolicy]
  BY <1>1, <1>5
<1>7. ASSUME NEW m \in Models
      PROVE  /\ auth[m].from = {p \in Policies : m \in pol[p].refs}
             /\ auth[m].subjects = UNION {pol[p].subjects : p \in auth[m].from}
  <2>1. from(start, m) = {p \in Policies : m \in pol[p].refs}
    BY <1>3
  <2>2. \A p \in from(start, m) : pol[p].subjects = start[p].subjects
    BY <1>3
  <2>3. subjects(start, m) = UNION {pol[p].subjects : p \in from(start, m)}
    BY <2>2
  <2> QED
    BY <1>5, <2>1, <2>3
<1> QED
  BY <1>3, <1>4, <1>5, <1>6, <1>7

LEMMA InitInv ==
    ASSUME Init
    PROVE  IInv
<1> USE Types, InitFacts
<1>1. /\ cache = pol /\ model = [m \in Models |-> [st |-> "live", route |-> TRUE]]
      /\ modelCache = model /\ tenant = FALSE /\ events = {} /\ queue = {} /\ worker = Idle
      /\ used = 0 /\ ghosts = {} /\ misread = FALSE
  BY DEF Init
<1>2. TypeOK
  <2>1. model \in [Models -> Model] /\ modelCache \in [Models -> Model]
    BY <1>1 DEF Model
  <2>2. tenant \in BOOLEAN /\ misread \in BOOLEAN
    BY <1>1
  <2>3. used \in 0 .. MaxDisturbances
    BY <1>1, AuthPolicyAssumption
  <2>4. /\ pol \in [Policies -> MaaSAuthPolicy] /\ cache \in [Policies -> MaaSAuthPolicy]
        /\ auth \in [Models -> AuthPolicy] /\ worker \in Worker
        /\ events \in SUBSET (Models \cup {TenantEvent})
        /\ queue \in SUBSET Policies /\ ghosts \in SUBSET Policies
    BY <1>1
  <2> QED
    BY <2>1, <2>2, <2>3, <2>4 DEF TypeOK
<1>3. FreshInv
  BY <1>1 DEF FreshInv
<1>4. ObjectInv
  BY <1>1 DEF ObjectInv, WellFormed, Marked, SameSpec
<1>5. WorkerInv
  BY <1>1 DEF WorkerInv
<1>6. AuthInv
  <2>1. \A m \in Models : auth[m].from = {} => auth[m].subjects = {}
    OBVIOUS
  <2> QED
    BY <2>1 DEF AuthInv
<1>7. CopyInv /\ CleanInv
  BY <1>1 DEF CopyInv, CleanInv
<1> QED
  BY <1>2, <1>3, <1>4, <1>5, <1>6, <1>7 DEF IInv

LEMMA ModelTypes ==
    ASSUME TypeOK, NEW m \in Models,
           ChangeRoute(m) \/ ChangeModel(m) \/ ModelRefDeletion(m) \/ WatchModel(m)
    PROVE  model' \in [Models -> Model] /\ modelCache' \in [Models -> Model]
<1>0. model \in [Models -> Model] /\ modelCache \in [Models -> Model] /\ model[m] \in Model
  BY DEF TypeOK
<1>1. SUFFICES \/ model' = model
               \/ \E q \in Model : model' = [model EXCEPT ![m] = q] /\ UNCHANGED modelCache
  <2>1. UNCHANGED model => modelCache' = modelCache \/ modelCache' = [modelCache EXCEPT ![m] = model[m]]
    BY DEF ChangeRoute, ChangeModel, ModelRefDeletion, WatchModel, caches
  <2> QED
    BY <1>0, <2>1
<1>2. CASE ChangeRoute(m)
  <2> DEFINE b == ~model[m].route
             q == [model[m] EXCEPT !.route = b]
  <2>1. b \in BOOLEAN /\ model' = [model EXCEPT ![m] = q] /\ UNCHANGED modelCache
    BY <1>2, <1>0 DEF ChangeRoute, caches
  <2> HIDE DEF b
  <2>2. q \in Model
    BY <1>0, <2>1 DEF Model
  <2> QED
    BY <2>1, <2>2
<1>3. ASSUME ChangeModel(m) \/ ModelRefDeletion(m)
      PROVE  \E q \in Model : model' = [model EXCEPT ![m] = q] /\ UNCHANGED modelCache
  <2>1. PICK st \in {"none", "live", "deleting", "cleaned"} :
             model' = [model EXCEPT ![m] = [model[m] EXCEPT !.st = st]]
    BY <1>0, <1>3 DEF ChangeModel, ModelRefDeletion
  <2>2. [model[m] EXCEPT !.st = st] \in Model
    BY <1>0 DEF Model
  <2> QED
    BY <1>3, <2>1, <2>2 DEF ChangeModel, ModelRefDeletion, caches
<1>4. CASE WatchModel(m)
  BY <1>4 DEF WatchModel, objects
<1> QED
  BY <1>2, <1>3, <1>4

LEMMA WatchStep ==
    ASSUME IInv, Grows,
           WatchTenant \/ \E m \in Models : WatchModel(m) \/ WatchAuthPolicy(m)
    PROVE  IInv'
<1> USE DEF IInv
<1>1. UNCHANGED <<pol, cache, tenant, auth, worker>> /\ model' = model
  BY DEF WatchTenant, WatchModel, WatchAuthPolicy, objects, caches
<1>2. events' \in SUBSET (Models \cup {TenantEvent})
  BY DEF WatchTenant, WatchModel, WatchAuthPolicy, TypeOK
<1>3. queue' \in SUBSET Policies
  <2>1. \A m \in Models : \A ps \in mapGeneratedAuthPolicyToParent(m) : ps \subseteq Policies
    BY DEF mapGeneratedAuthPolicyToParent, findAllAuthPoliciesForModel
  <2> QED
    BY <2>1 DEF WatchTenant, WatchModel, WatchAuthPolicy, TypeOK, mapTenantToMaaSAuthPolicies
<1>4. model' \in [Models -> Model] /\ modelCache' \in [Models -> Model]
  BY ModelTypes DEF WatchTenant, WatchAuthPolicy, TypeOK, caches, objects
<1>5. AuthKept
  BY <1>1, <1>2, NothingKept
<1> QED
  BY <1>1, <1>3, <1>4, <1>5, KeptStep DEF TypeOK

\* Models and routes change, and the Tenant.
LEMMA OtherStep ==
    ASSUME IInv, Grows,
           ChangeTenant \/ \E m \in Models : ChangeRoute(m) \/ ChangeModel(m) \/ ModelRefDeletion(m)
    PROVE  IInv' /\ AuthKept /\ events \subseteq events'
<1> USE DEF IInv
<1>1. UNCHANGED <<pol, cache, modelCache, queue, worker>>
  BY DEF ChangeTenant, ChangeRoute, ChangeModel, ModelRefDeletion, caches
<1>2. model' \in [Models -> Model]
  BY ModelTypes DEF ChangeTenant, TypeOK
<1>3. tenant' \in BOOLEAN
  <2>1. CASE ChangeTenant
    BY <2>1 DEF ChangeTenant
  <2>2. CASE UNCHANGED tenant
    BY <2>2 DEF TypeOK
  <2> QED
    BY <2>1, <2>2 DEF ChangeRoute, ChangeModel, ModelRefDeletion
<1>4. AuthKept /\ events \subseteq events'
  <2>1. ASSUME NEW m \in Models, deleteModelAuthPolicy({m})
        PROVE  AuthKept /\ events \subseteq events'
    BY <2>1, DeletionKeeps
  <2>2. CASE UNCHANGED auth /\ (events' = events \/ events' = events \cup {TenantEvent})
    BY <2>2, NothingKept DEF TypeOK
  <2> QED
    BY <2>1, <2>2 DEF ChangeTenant, ChangeRoute, ChangeModel, ModelRefDeletion
<1> QED
  BY <1>1, <1>2, <1>3, <1>4, KeptStep DEF TypeOK

LEMMA CallFailsStep ==
    ASSUME IInv, Grows, CallFails
    PROVE  IInv'
<1>0. /\ UNCHANGED <<cache, model, modelCache, tenant, auth, events>> /\ worker.pc # "idle"
  BY DEF CallFails, caches
<1>1. CASE worker.pc = "finalizer"
  BY <1>0, <1>1, RequeueStep DEF CallFails
<1>2. CASE worker.pc = "status"
  <2>1. worker' = Idle /\ UNCHANGED <<pol, queue>>
    BY <1>2 DEF CallFails
  <2>2. AuthKept
    BY <1>0, NothingKept DEF IInv, TypeOK
  <2> QED
    BY <1>0, <2>1, <2>2, KeptStep DEF IInv, TypeOK
<1>3. CASE worker.pc \notin {"finalizer", "status"}
  BY <1>0, <1>3, FailedStep DEF CallFails
<1> QED
  BY <1>1, <1>2, <1>3

LEMMA NextInv ==
    ASSUME IInv, [Next]_vars
    PROVE  IInv'
<1>0. Grows /\ tenant \in BOOLEAN /\ FALSE \in BOOLEAN
  BY Used DEF IInv, TypeOK
<1>1. CASE WorkerStep
  <2>1. ASSUME NEW m \in Models, InvalidSubject(m) PROVE IInv'
    BY <1>0, <2>1, FailedStep DEF InvalidSubject, caches
  <2>2. ASSUME NEW p \in Policies, Reconcile(p) PROVE IInv'
    BY <1>0, <2>2, StartStep DEF Reconcile
  <2> QED
    BY <1>0, <1>1, <2>1, <2>2, FinalizerStep, RebuildStep, DeleteForRefStep, CleanupStep,
       StatusStep, ReleaseStep DEF WorkerStep
<1>2. CASE Watches
  BY <1>0, <1>2, WatchPolicyStep, WatchStep DEF Watches
<1>3. ASSUME NEW m \in Models, EnforceAuthPolicy(m) \/ DeleteAuthPolicy(m) \/ OptOut(m)
      PROVE  IInv'
  <2>1. UNCHANGED <<pol, cache, model, modelCache, tenant, queue, worker>>
    BY <1>3 DEF EnforceAuthPolicy, DeleteAuthPolicy, OptOut, caches
  <2>2. AuthKept
    BY <1>3, EnvironmentKeeps DEF IInv
  <2> QED
    BY <1>0, <2>1, <2>2, KeptStep DEF IInv, TypeOK
<1>4. CASE Cluster
  BY <1>0, <1>3, <1>4, OtherStep DEF Cluster
<1>5. CASE Disturbance
  <2>1. ASSUME NEW p \in Policies, ReadTenantFails(p) PROVE IInv'
    BY <1>0, <2>1, StartStep DEF ReadTenantFails
  <2> QED
    BY <1>0, <1>3, <1>5, <2>1, UserStep, OtherStep, CallFailsStep, RestartStep DEF Disturbance
<1>6. CASE UNCHANGED vars
  <2>1. AuthKept
    BY <1>6, NothingKept DEF vars, objects, IInv, TypeOK
  <2> QED
    BY <1>0, <1>6, <2>1, KeptStep DEF vars, objects, caches, IInv, TypeOK
<1> QED
  BY <1>1, <1>2, <1>4, <1>5, <1>6 DEF Next

LEMMA SpecInv == Spec => []IInv
<1> QED
  BY InitInv, NextInv, PTL DEF Spec

\* The variables keep their types, whatever the worker, the watches and the
\* environment do.
THEOREM TypeCorrect == Spec => []TypeOK
<1>1. IInv => TypeOK
  BY DEF IInv
<1> QED
  BY <1>1, SpecInv, PTL

\* A step that takes a policy away after it had its finalizer, handleDeletion's
\* last, finds no AuthPolicy that the controller manages and that names it:
\* the AuthPolicies of its refs were deleted one by one, those of refs it had
\* dropped before by the cleanup, and none was rebuilt in between.
THEOREM CleanDeletion == Spec => DeletionIsClean
<1>1. ASSUME IInv, [Next]_vars
      PROVE  [\A p \in Policies, m \in Models :
                pol[p].fin /\ ~pol'[p].exists /\ auth[m].exists /\ ~auth[m].opted
                => p \notin auth[m].from]_vars
  <2>1. SUFFICES ASSUME NEW p \in Policies, NEW m \in Models, pol[p].fin, ~pol'[p].exists
                 PROVE  Clean(m, p)
    BY DEF Clean
  <2>2. pol[p].exists /\ TypeOK
    BY <1>1, <2>1 DEF IInv, ObjectInv, WellFormed
  <2>3. ASSUME NEW x \in Policies, LiveWrite(x) PROVE FALSE
    BY <2>1, <2>2, <2>3 DEF LiveWrite
  <2>4. pol' # pol
    BY <2>1, <2>2
  <2>5. ASSUME RemoveFinalizer PROVE Clean(m, p)
    <3>1. pol' = [pol EXCEPT ![worker.p] = NoPolicy] /\ worker.pc = "drop"
      BY <2>4, <2>5 DEF RemoveFinalizer
    <3>2. p = worker.p
      BY <2>1, <2>2, <3>1 DEF TypeOK
    <3> QED
      BY <1>1, <3>1, <3>2 DEF IInv, CleanInv
  <2>6. ASSUME ReconcileFailed, worker.pc # "idle" PROVE FALSE
    BY <1>1, <2>2, <2>3, <2>4, <2>6, StatusWrite, Domains
    DEF ReconcileFailed, IInv, WorkerInv, Phases
  <2>7. CASE WorkerStep
    <3>1. CASE AddFinalizer
      <4>1. Current
        BY <2>4, <3>1 DEF AddFinalizer
      <4> QED
        BY <1>1, <2>3, <3>1, <4>1, FinalizerWrite, Domains DEF IInv, WorkerInv, AddFinalizer
    <3>2. CASE \E n \in Models : InvalidSubject(n)
      BY <2>6, <3>2 DEF InvalidSubject
    <3>3. CASE UpdateStatus
      BY <1>1, <2>2, <2>3, <2>4, <3>3, StatusEffect, Domains
    <3> QED
      BY <2>4, <2>5, <2>7, <3>1, <3>2, <3>3
      DEF WorkerStep, Reconcile, Start, objects, reconcileModelAuthPolicies, DeleteForRef,
          cleanupStaleAuthPolicies
  <2>8. CASE Watches \/ Cluster
    BY <2>4, <2>8 DEF Watches, WatchPolicy, WatchModel, WatchAuthPolicy, WatchTenant, objects,
       Cluster, ModelRefDeletion, EnforceAuthPolicy
  <2>9. CASE Disturbance
    <3>1. ASSUME NEW x \in Policies, NEW spec \in Specs, ApplyPolicy(x, spec) PROVE FALSE
      BY <2>1, <2>2, <3>1, ApplyWrite
    <3>2. ASSUME NEW x \in Policies, DeletePolicy(x) PROVE FALSE
      BY <2>1, <2>2, <3>2, DeleteWrite
    <3>3. CASE CallFails
      BY <2>4, <2>6, <3>3 DEF CallFails
    <3> QED
      BY <2>4, <2>9, <3>1, <3>2, <3>3 DEF Disturbance, ReadTenantFails, Start, objects,
         ChangeRoute, ChangeModel, DeleteAuthPolicy, OptOut, ChangeTenant, Restart
  <2>10. CASE UNCHANGED vars
    BY <2>4, <2>10 DEF vars, objects
  <2> QED
    BY <1>1, <2>7, <2>8, <2>9, <2>10 DEF Next
<1> QED
  BY <1>1, SpecInv, PTL DEF Spec, DeletionIsClean
-----------------------------------------------------------------------------
(* Every action keeps KInv. *)

\* How VersionInv survives a step that leaves the cache alone.
LEMMA VersionKept ==
    ASSUME IInv, VersionInv, UNCHANGED cache,
           \A p \in Policies : \/ pol'[p].exists => pol[p].exists /\ pol'[p].rev = pol[p].rev
                               \/ pol'[p].rev > used,
           \/ worker'.pc = "idle"
           \/ /\ worker.pc # "idle" /\ worker'.p = worker.p
              /\ worker'.obj.rev = worker.obj.rev
    PROVE  VersionInv'
BY Domains DEF VersionInv, IInv, FreshInv

\* The worker leaves the specs of the policies alone.
LEMMA VersionWorker ==
    ASSUME IInv, VersionInv, WorkerStep
    PROVE  VersionInv'
<1> USE Types, Domains DEF IInv
<1>1. ASSUME NEW p \in Policies, Reconcile(p) PROVE VersionInv'
  <2>1. UNCHANGED <<pol, cache>> /\ tenant \in BOOLEAN /\ Start(p, tenant)
    BY <1>1 DEF Reconcile, Start, objects, caches, TypeOK
  <2> QED
    BY <2>1, StartWorker DEF VersionInv
<1>2. CASE AddFinalizer
  <2>1. UNCHANGED cache /\ worker.obj.exists /\ ~worker.obj.deleting /\ worker.pc # "idle"
    BY <1>2 DEF AddFinalizer, caches, WorkerInv
  <2>2. CASE Current
    <3>1. LiveWrite(worker.p) /\ worker'.p = worker.p /\ worker'.obj = pol'[worker.p]
      BY <1>2, <2>1, <2>2, FinalizerWrite
    <3>2. worker'.obj.rev = worker.obj.rev
      BY <2>2, <3>1 DEF LiveWrite, Current
    <3>3. \A p \in Policies : pol'[p].exists => pol[p].exists /\ pol'[p].rev = pol[p].rev
      BY <3>1 DEF LiveWrite
    <3> QED
      BY <2>1, <3>1, <3>2, <3>3, VersionKept
  <2>3. CASE ~Current
    BY <1>2, <2>1, <2>3, VersionKept DEF AddFinalizer, Requeue
  <2> QED
    BY <2>2, <2>3
<1>3. ASSUME NEW m \in Models, reconcileModelAuthPolicies(m) \/ DeleteForRef(m) PROVE VersionInv'
  <2>1. UNCHANGED <<pol, cache>> /\ worker.pc # "idle"
    BY <1>3 DEF reconcileModelAuthPolicies, DeleteForRef, caches
  <2> QED
    BY <1>3, <2>1, NextRef, VersionKept
<1>4. ASSUME NEW m \in Models, InvalidSubject(m) PROVE VersionInv'
  <2>1. UNCHANGED cache /\ worker' = Idle /\ worker.pc = "models" /\ ReconcileFailed
    BY <1>4 DEF InvalidSubject, ReconcileFailed, Requeue, caches
  <2> QED
    BY <2>1 DEF VersionInv
<1>5. CASE cleanupStaleAuthPolicies
  <2>1. UNCHANGED <<pol, cache>> /\ worker.pc # "idle"
    BY <1>5 DEF cleanupStaleAuthPolicies, caches
  <2> QED
    BY <1>5, <2>1, CleanupWorker, VersionKept
<1>6. CASE UpdateStatus \/ RemoveFinalizer
  BY <1>6 DEF UpdateStatus, RemoveFinalizer, Requeue, VersionInv
<1> QED
  BY <1>1, <1>2, <1>3, <1>4, <1>5, <1>6 DEF WorkerStep

LEMMA VersionStep ==
    ASSUME IInv, VersionInv, [Next]_vars
    PROVE  VersionInv'
<1> USE Types, Domains DEF IInv
<1>1. ASSUME UNCHANGED <<pol, cache, worker>> PROVE VersionInv'
  BY <1>1 DEF VersionInv
<1>2. ASSUME NEW p \in Policies, WatchPolicy(p) PROVE VersionInv'
  <2>1. UNCHANGED <<pol, worker>> /\ cache' = [cache EXCEPT ![p] = pol[p]]
    BY <1>2 DEF WatchPolicy, objects
  <2>2. \A x \in Policies : cache'[x] = IF x = p THEN pol[p] ELSE cache[x]
    BY <2>1 DEF TypeOK
  <2> QED
    BY <2>1, <2>2 DEF VersionInv
<1>3. CASE Watches \/ Cluster
  BY <1>1, <1>2, <1>3 DEF Watches, WatchModel, WatchAuthPolicy, WatchTenant, Cluster,
     ModelRefDeletion, EnforceAuthPolicy, objects, caches
<1>4. CASE Disturbance
  <2>1. ASSUME NEW p \in Policies, NEW spec \in Specs, ApplyPolicy(p, spec) PROVE VersionInv'
    <3>1. UNCHANGED <<cache, worker>>
      BY <2>1 DEF ApplyPolicy, caches
    <3>2. \A x \in Policies : pol'[x] = pol[x] \/ pol'[x].rev > used
      BY <2>1, ApplyWrite
    <3> QED
      BY <3>1, <3>2, VersionKept
  <2>2. ASSUME NEW p \in Policies, DeletePolicy(p) PROVE VersionInv'
    <3>1. UNCHANGED <<cache, worker>>
      BY <2>2 DEF DeletePolicy, caches
    <3>2. \A x \in Policies : pol'[x].exists => pol[x].exists /\ pol'[x].rev = pol[x].rev
      BY <2>2, DeleteWrite
    <3> QED
      BY <3>1, <3>2, VersionKept
  <2>3. ASSUME NEW p \in Policies, ReadTenantFails(p) PROVE VersionInv'
    <3>1. UNCHANGED <<pol, cache>> /\ FALSE \in BOOLEAN /\ Start(p, FALSE)
      BY <2>3 DEF ReadTenantFails, Start, objects, caches
    <3> QED
      BY <3>1, StartWorker DEF VersionInv
  <2>4. CASE CallFails
    <3>1. worker' = Idle
      BY <2>4 DEF CallFails, ReconcileFailed, Requeue
    <3> QED
      BY <3>1 DEF VersionInv
  <2>5. CASE Restart
    BY <2>5 DEF Restart, VersionInv
  <2> QED
    BY <1>1, <1>4, <2>1, <2>2, <2>3, <2>4, <2>5 DEF Disturbance, ChangeRoute, ChangeModel,
       DeleteAuthPolicy, OptOut, ChangeTenant, objects, caches
<1>5. CASE UNCHANGED vars
  BY <1>1, <1>5 DEF vars, objects, caches
<1> QED
  BY <1>3, <1>4, <1>5, VersionWorker DEF Next

\* No AuthPolicy is built and nobody that something waits for is lost.
LEMMA KeptDuty ==
    ASSUME TypeOK, KInv, Grows, AuthKept, GoneInv', UNCHANGED <<cache, modelCache>>,
           TenantEvent \in events => TenantEvent \in events',
           tenant' = tenant \/ TenantEvent \in events', queue \subseteq queue',
           \A m \in Models, p \in Policies : Awaited(p, m) => Awaited(p, m)',
           \A m \in Models, p \in Policies :
               Managed(m)' /\ p \in auth'[m].from /\ Leaving(p, m) => Leaving(p, m)',
           worker'.pc # "idle" => worker.pc # "idle" /\ worker'.oidc = worker.oidc
    PROVE  KInv'
<1> USE Types, Domains DEF KInv, Grows
<1>1. ASSUME NEW m \in Models, Managed(m)'
      PROVE  /\ Managed(m) /\ auth'[m].from = auth[m].from /\ auth'[m].subjects = auth[m].subjects
             /\ auth'[m].oidc = auth[m].oidc /\ auth[m].from \in SUBSET Policies
  BY <1>1 DEF Managed, AuthKept, Kept
<1>2. \A m \in Models : Served(m)' = Served(m) /\ \A p \in Policies : Live(p, m)' = Live(p, m)
  BY DEF Served, Live
<1>3. \A m \in Models : Managed(m)' /\ OidcRight(m) => OidcRight(m)'
  BY <1>1 DEF OidcRight
<1>4. GrantedInv'
  BY <1>1, <1>2, <1>3 DEF GrantedInv
<1>5. FromInv'
  BY <1>1, <1>2 DEF FromInv
<1>6. ASSUME NEW m \in Models, Managed(m)', Served(m)', auth'[m].from \cap ghosts' = {}
      PROVE  \/ auth'[m].subjects \subseteq UNION {cache'[p].subjects : p \in auth'[m].from}
             \/ \E p \in auth'[m].from : Rebuilding(p, m)'
  <2>1. auth[m].from \cap ghosts = {} /\ Served(m)
    BY <1>1, <1>2, <1>6
  <2>2. CASE auth[m].subjects \subseteq UNION {cache[p].subjects : p \in auth[m].from}
    BY <1>1, <1>6, <2>2
  <2>3. ASSUME NEW p \in auth[m].from, Rebuilding(p, m) PROVE Rebuilding(p, m)'
    BY <1>1, <1>6, <2>3 DEF Rebuilding
  <2> QED
    BY <1>1, <1>6, <2>1, <2>2, <2>3 DEF SubjectsInv
<1>7. SubjectsInv'
  BY <1>6 DEF SubjectsInv
<1>8. TenantInv'
  BY DEF TenantInv
<1> QED
  BY <1>4, <1>5, <1>7, <1>8

\* No policy goes other than as a ghost.
LEMMA GoneKept ==
    ASSUME TypeOK, GoneInv, Grows, AuthKept, UNCHANGED cache,
           \A p \in Policies \ ghosts' : pol[p].exists => pol'[p].exists
    PROVE  GoneInv'
<1>1. \A m \in Models : Managed(m)' => Managed(m) /\ auth'[m].from = auth[m].from
  BY Types DEF Managed, AuthKept, Kept
<1> QED
  BY <1>1 DEF GoneInv, Grows

\* The worker stays, or stops: at its end or with its request put back.
LEMMA StillDuty ==
    ASSUME IInv, KInv, Grows, AuthKept, GoneInv', UNCHANGED <<cache, modelCache>>,
           TenantEvent \in events => TenantEvent \in events',
           tenant' = tenant \/ TenantEvent \in events', queue \subseteq queue',
           \/ worker' = worker
           \/ /\ worker' = Idle
              /\ worker.p \in queue' \/ worker.pc \in {"idle", "status", "drop"}
    PROVE  KInv'
<1> USE Types, Domains DEF IInv
<1>1. \A m \in Models, p \in Policies : Awaited(p, m) => Awaited(p, m)'
  BY DEF Awaited
<1>2. \A m \in Models, p \in Policies : Leaving(p, m) => Leaving(p, m)'
  BY DEF Leaving
<1> QED
  BY <1>1, <1>2, KeptDuty

\* A policy that is taken from the queue is now the worker's.
LEMMA StartDuty ==
    ASSUME IInv, KInv, Grows, NEW p \in Policies, NEW oidc \in BOOLEAN, Start(p, oidc),
           oidc = tenant \/ misread', ghosts' = ghosts
    PROVE  KInv'
<1> USE Types, Domains DEF IInv, KInv
<1>0. /\ UNCHANGED <<pol, tenant, auth, cache, modelCache, events>>
      /\ worker.pc = "idle" /\ queue' = queue \ {p}
  BY DEF Start, objects, caches
<1>1. /\ GoneInv'
      /\ \A m \in Models : Managed(m)' = Managed(m) /\ Served(m)' = Served(m)
      /\ \A m \in Models, x \in Policies : Live(x, m)' = Live(x, m)
  BY <1>0 DEF GoneInv, Managed, Served, Live
<1>2. ASSUME NEW m \in Models, NEW x \in Policies, x # p
      PROVE  (Awaited(x, m) => Awaited(x, m)') /\ (Leaving(x, m) => Leaving(x, m)')
  BY <1>0, <1>2 DEF Awaited, Leaving
<1>3. ASSUME NEW m \in Models, Live(p, m) PROVE Awaited(p, m)'
  BY <1>3, StartWorker DEF Awaited, Live
<1>4. ASSUME NEW m \in Models, ~Live(p, m), cache[p].exists PROVE Leaving(p, m)'
  <2>1. cache[p].deleting => cache[p].fin
    BY DEF ObjectInv, WellFormed
  <2> QED
    BY <1>4, <2>1, StartWorker DEF Leaving, Live
<1>5. \A m \in Models : OidcRight(m) => OidcRight(m)'
  BY <1>0 DEF OidcRight, Grows
<1>6. GrantedInv'
  BY <1>0, <1>1, <1>2, <1>3, <1>5 DEF GrantedInv
<1>7. ASSUME NEW m \in Models, Managed(m), NEW x \in auth[m].from \ ghosts
      PROVE  Live(x, m) \/ Leaving(x, m)'
  BY <1>1, <1>2, <1>4, <1>7 DEF FromInv, GoneInv
<1>8. FromInv'
  BY <1>0, <1>1, <1>7 DEF FromInv
<1>9. ASSUME NEW m \in Models, Managed(m), Served(m), auth[m].from \cap ghosts = {}
      PROVE  \/ auth[m].subjects \subseteq UNION {cache[x].subjects : x \in auth[m].from}
             \/ \E x \in auth[m].from : Rebuilding(x, m)'
  <2>1. ASSUME NEW x \in auth[m].from, Rebuilding(x, m) PROVE Rebuilding(x, m)'
    <3>1. x \in Policies \ ghosts /\ cache[x].exists
      BY <1>9, <2>1 DEF GoneInv
    <3>2. CASE x # p
      BY <1>2, <2>1, <3>1, <3>2 DEF Rebuilding
    <3>3. CASE x = p
      BY <1>3, <1>4, <3>1, <3>3 DEF Rebuilding
    <3> QED
      BY <3>2, <3>3
  <2> QED
    BY <1>9, <2>1 DEF SubjectsInv
<1>10. SubjectsInv'
  BY <1>0, <1>1, <1>9 DEF SubjectsInv
<1>11. TenantInv'
  BY <1>0, StartWorker DEF TenantInv
<1> QED
  BY <1>1, <1>6, <1>8, <1>10, <1>11

LEMMA FinalizerDuty ==
    ASSUME IInv, KInv, VersionInv, Grows, AddFinalizer
    PROVE  KInv'
<1> USE Types, Domains DEF IInv, KInv
<1>0. /\ UNCHANGED <<cache, modelCache, tenant, auth, events, ghosts, misread>>
      /\ worker.pc = "finalizer" /\ worker.obj.exists /\ ~worker.obj.deleting
  BY DEF AddFinalizer, caches, history, WorkerInv
<1>1. AuthKept
  BY <1>0, NothingKept DEF TypeOK
<1>2. CASE ~Current
  <2>1. GoneInv'
    BY <1>0, <1>1, <1>2, GoneKept DEF AddFinalizer
  <2> QED
    BY <1>0, <1>1, <1>2, <2>1, StillDuty DEF AddFinalizer, Requeue
<1>3. CASE Current
  <2>1. /\ LiveWrite(worker.p) /\ worker'.pc = "models" /\ worker'.p = worker.p
        /\ worker'.oidc = worker.oidc /\ worker'.todo = worker.obj.refs
        /\ worker'.obj.refs = worker.obj.refs /\ UNCHANGED queue
    BY <1>0, <1>3, FinalizerWrite
  <2>2. cache[worker.p].refs = worker.obj.refs
    BY <1>0, <1>3 DEF VersionInv, Current, ObjectInv, SameSpec
  <2>3. GoneInv'
    BY <1>0, <1>1, <2>1, GoneKept DEF LiveWrite
  <2>4. /\ \A m \in Models : Managed(m)' = Managed(m) /\ Served(m)' = Served(m)
        /\ \A m \in Models, p \in Policies : Live(p, m)' = Live(p, m)
        /\ \A m \in Models : OidcRight(m) => OidcRight(m)'
    BY <1>0 DEF Managed, Served, Live, OidcRight
  <2>5. ASSUME NEW m \in Models, NEW p \in Policies
        PROVE  /\ Live(p, m) /\ Awaited(p, m) => Awaited(p, m)'
               /\ Leaving(p, m) => Leaving(p, m)'
               /\ Awaited(p, m) => Rebuilding(p, m)'
    <3>1. Live(p, m) /\ Awaited(p, m) => Awaited(p, m)'
      BY <1>0, <2>1, <2>2 DEF Awaited, Live
    <3>2. Leaving(p, m) => Leaving(p, m)'
      BY <1>0, <2>1 DEF Leaving
    <3>3. Awaited(p, m) => Rebuilding(p, m)'
      BY <1>0, <2>1 DEF Awaited, Leaving, Rebuilding
    <3> QED
      BY <3>1, <3>2, <3>3
  <2>6. GrantedInv'
    BY <1>0, <2>4, <2>5 DEF GrantedInv
  <2>7. FromInv'
    BY <1>0, <2>4, <2>5 DEF FromInv
  <2>8. SubjectsInv'
    <3>1. \A m \in Models, p \in Policies : Rebuilding(p, m) => Rebuilding(p, m)'
      BY <2>5 DEF Rebuilding
    <3> QED
      BY <1>0, <2>4, <3>1 DEF SubjectsInv
  <2>9. TenantInv'
    BY <1>0, <2>1 DEF TenantInv
  <2> QED
    BY <2>3, <2>6, <2>7, <2>8, <2>9
<1> QED
  BY <1>2, <1>3

\* The AuthPolicy that reconcileModelAuthPolicies builds has every policy that
\* is cached; what it leaves alone is not served or not the controller's.
LEMMA RebuildDuty ==
    ASSUME IInv, KInv, Grows, NEW m \in Models, reconcileModelAuthPolicies(m)
    PROVE  KInv'
<1> USE Types, Domains DEF IInv, KInv
<1>0. /\ UNCHANGED <<pol, tenant, cache, modelCache, queue, ghosts, misread>>
      /\ worker.pc = "models" /\ m \in worker.todo
  BY DEF reconcileModelAuthPolicies, caches, history
<1>1. /\ \A n \in Models : n # m => auth'[n] = auth[n]
      /\ events \subseteq events' /\ auth' \in [Models -> AuthPolicy]
  BY RebuildEffect
<1>2. /\ worker'.pc = "models" /\ worker'.p = worker.p /\ worker'.obj = worker.obj
      /\ worker'.oidc = worker.oidc /\ worker'.todo = worker.todo \ {m}
  BY <1>0, NextRef
<1>3. \A p \in Policies : Live(p, m) <=> p \in findAllAuthPoliciesForModel(m)
  BY DEF Live, findAllAuthPoliciesForModel
<1>4. /\ \A n \in Models : Served(n)' = Served(n)
      /\ \A n \in Models, p \in Policies : Live(p, n)' = Live(p, n)
      /\ \A n \in Models : n # m => Managed(n)' = Managed(n) /\ (OidcRight(n) => OidcRight(n)')
  BY <1>0, <1>1 DEF Served, Live, Managed, OidcRight
<1>5. ASSUME NEW n \in Models, NEW p \in Policies
      PROVE  /\ n # m /\ Awaited(p, n) => Awaited(p, n)'
             /\ Leaving(p, n) => Leaving(p, n)'
  BY <1>0, <1>2 DEF Awaited, Leaving
<1>6. \/ /\ auth'[m].exists /\ auth'[m].subjects = Aggregated(m)
         /\ auth'[m].from = findAllAuthPoliciesForModel(m) /\ auth'[m].oidc = worker.oidc
      \/ /\ ~Served(m) \/ ~Managed(m)'
         /\ Managed(m)' => Managed(m) /\ auth'[m].from = auth[m].from
  BY RebuildEffect DEF Managed, Kept, AuthInv
<1>7. TenantInv'
  BY <1>0, <1>1, <1>2 DEF TenantInv
<1>8. GoneInv'
  <2>1. ASSUME NEW p \in Policies \ ghosts, Managed(m)', p \in auth'[m].from
        PROVE  pol[p].exists /\ cache[p].exists
    BY <1>3, <1>6, <2>1 DEF GoneInv, Live
  <2> QED
    BY <1>0, <1>1, <1>4, <2>1 DEF GoneInv
<1>9. GrantedInv'
  <2>1. ASSUME Managed(m)', Served(m), NEW p \in Policies, Live(p, m)
        PROVE  Awaited(p, m)' \/ (cache[p].subjects \subseteq auth'[m].subjects /\ OidcRight(m)')
    <3>1. auth'[m].oidc = worker.oidc /\ cache[p].subjects \subseteq auth'[m].subjects
      BY <1>3, <1>6, <2>1 DEF Aggregated
    <3>2. OidcRight(m)' \/ p \in queue'
      BY <1>0, <1>1, <2>1, <3>1 DEF OidcRight, TenantInv, Live
    <3> QED
      BY <3>1, <3>2 DEF Awaited
  <2>2. ASSUME NEW n \in Models, NEW p \in Policies, Managed(n)', Served(n)', Live(p, n)'
        PROVE  \/ Awaited(p, n)'
               \/ cache'[p].subjects \subseteq auth'[n].subjects /\ OidcRight(n)'
    BY <1>0, <1>1, <1>4, <1>5, <2>1, <2>2 DEF GrantedInv
  <2> QED
    BY <2>2 DEF GrantedInv
<1>10. FromInv'
  <2>1. ASSUME Managed(m)', NEW p \in auth'[m].from \ ghosts PROVE Live(p, m) \/ Leaving(p, m)'
    BY <1>1, <1>3, <1>5, <1>6, <2>1 DEF FromInv, AuthPolicy
  <2>2. ASSUME NEW n \in Models, Managed(n)', NEW p \in auth'[n].from \ ghosts'
        PROVE  Live(p, n)' \/ Leaving(p, n)'
    <3>1. CASE n = m
      BY <1>0, <1>1, <1>4, <2>1, <2>2, <3>1 DEF AuthPolicy
    <3>2. CASE n # m
      BY <1>0, <1>1, <1>4, <1>5, <2>2, <3>2 DEF FromInv
    <3> QED
      BY <3>1, <3>2
  <2> QED
    BY <2>2 DEF FromInv
<1>11. SubjectsInv'
  <2>1. ASSUME Managed(m)', Served(m)
        PROVE  auth'[m].subjects \subseteq UNION {cache[p].subjects : p \in auth'[m].from}
    BY <1>6, <2>1 DEF Aggregated
  <2>2. ASSUME NEW n \in Models, n # m, NEW p \in auth[n].from, Rebuilding(p, n)
        PROVE  Rebuilding(p, n)'
    BY <1>5, <2>2 DEF Rebuilding
  <2>3. ASSUME NEW n \in Models, Managed(n)', Served(n)', auth'[n].from \cap ghosts' = {}
        PROVE  \/ auth'[n].subjects \subseteq UNION {cache'[p].subjects : p \in auth'[n].from}
               \/ \E p \in auth'[n].from : Rebuilding(p, n)'
    BY <1>0, <1>1, <1>4, <2>1, <2>2, <2>3 DEF SubjectsInv
  <2> QED
    BY <2>3 DEF SubjectsInv
<1> QED
  BY <1>7, <1>8, <1>9, <1>10, <1>11

\* The AuthPolicies that a deletion or the cleanup goes through do not name the
\* policy any more.
LEMMA DeletionDuty ==
    ASSUME IInv, KInv, Grows,
           cleanupStaleAuthPolicies \/ \E m \in Models : DeleteForRef(m)
    PROVE  KInv'
<1> USE Types, Domains DEF IInv, KInv
<1>0. UNCHANGED <<pol, tenant, cache, modelCache, queue, ghosts, misread>>
  BY DEF cleanupStaleAuthPolicies, DeleteForRef, caches, history
<1>1. CASE cleanupStaleAuthPolicies
  <2>1. AuthKept /\ events \subseteq events'
    BY <1>1, CleanupEffect
  <2>2. worker.pc \in {"models", "delete"} /\ worker.todo = {}
    BY <1>1 DEF cleanupStaleAuthPolicies
  <2>3. \A m \in Models, p \in Policies : Awaited(p, m) => Awaited(p, m)'
    BY <1>0, <2>2 DEF Awaited
  <2>4. ASSUME NEW m \in Models, NEW p \in Policies, Managed(m)', p \in auth'[m].from, Leaving(p, m)
        PROVE  Leaving(p, m)'
    <3>1. worker.p = p => m \in worker.obj.refs
      BY <1>1, <2>4, CleanupEffect, CleanupWorker DEF Clean, Managed
    <3> QED
      BY <1>0, <2>2, <2>4, <3>1 DEF Leaving
  <2>5. GoneInv'
    BY <1>0, <2>1, GoneKept
  <2> QED
    BY <1>0, <1>1, <2>1, <2>2, <2>3, <2>4, <2>5, CleanupWorker, KeptDuty
<1>2. ASSUME NEW n \in Models, DeleteForRef(n) PROVE KInv'
  <2>1. AuthKept /\ events \subseteq events' /\ (auth'[n].exists => ~auth[n].managed)
    BY <1>2, DeletionKeeps DEF DeleteForRef
  <2>2. worker.pc = "delete"
    BY <1>2 DEF DeleteForRef
  <2>3. \A m \in Models, p \in Policies : Awaited(p, m) => Awaited(p, m)'
    BY <1>0, <2>2 DEF Awaited
  <2>4. ~Managed(n)'
    BY <2>1 DEF Managed, AuthKept, Kept, AuthInv
  <2>5. ASSUME NEW m \in Models, NEW p \in Policies, m # n, Leaving(p, m) PROVE Leaving(p, m)'
    BY <1>0, <1>2, <2>2, <2>5, NextRef DEF Leaving
  <2>6. GoneInv'
    BY <1>0, <2>1, GoneKept
  <2> QED
    BY <1>0, <1>2, <2>1, <2>2, <2>3, <2>4, <2>5, <2>6, NextRef, KeptDuty
<1> QED
  BY <1>1, <1>2

\* The worker fails, is refused, or comes to its end.
LEMMA EndDuty ==
    ASSUME IInv, KInv, Grows,
           UpdateStatus \/ RemoveFinalizer \/ CallFails \/ \E m \in Models : InvalidSubject(m)
    PROVE  KInv'
<1> USE Types, Domains DEF IInv, KInv
<1>0. UNCHANGED <<tenant, auth, cache, modelCache, events, ghosts, misread>>
  BY DEF UpdateStatus, RemoveFinalizer, CallFails, InvalidSubject, caches, history
<1>1. AuthKept
  BY <1>0, NothingKept DEF TypeOK
<1>2. /\ worker' = Idle /\ queue \subseteq queue'
      /\ worker.p \in queue' \/ worker.pc \in {"status", "drop"}
  BY DEF UpdateStatus, RemoveFinalizer, CallFails, InvalidSubject, ReconcileFailed, Requeue
<1>3. ASSUME \A p \in Policies : pol[p].exists => pol'[p].exists PROVE GoneInv'
  BY <1>0, <1>1, <1>3, GoneKept
<1>4. ASSUME pol' = pol \/ LiveWrite(worker.p) PROVE GoneInv'
  BY <1>3, <1>4 DEF LiveWrite
<1>5. ASSUME ReconcileFailed, worker.pc # "idle" PROVE GoneInv'
  <2>1. pol' = pol \/ LiveWrite(worker.p)
    BY <1>5, StatusWrite DEF ReconcileFailed, WorkerInv, Phases
  <2> QED
    BY <1>4, <2>1
<1>6. GoneInv'
  <2>1. CASE UpdateStatus
    BY <1>4, <2>1, StatusEffect
  <2>2. CASE RemoveFinalizer
    <3>1. CASE ~Current
      BY <1>4, <2>2, <3>1 DEF RemoveFinalizer
    <3>2. CASE Current
      <4>1. worker.pc = "drop" /\ pol' = [pol EXCEPT ![worker.p] = NoPolicy]
        BY <2>2, <3>2 DEF RemoveFinalizer
      <4>2. \A p \in Policies : p # worker.p => pol'[p] = pol[p]
        BY <4>1 DEF TypeOK
      <4>3. cache[worker.p].deleting
        BY <3>2, <4>1 DEF WorkerInv, CopyInv
      <4>4. \A m \in Models : Managed(m) => worker.p \notin auth[m].from
        BY <4>1 DEF CleanInv, Clean, Managed
      <4>5. \A m \in Models : Managed(m)' = Managed(m)
        BY <1>0 DEF Managed
      <4> QED
        BY <1>0, <4>2, <4>3, <4>4, <4>5 DEF GoneInv
    <3> QED
      BY <3>1, <3>2
  <2>3. CASE CallFails
    BY <1>4, <1>5, <2>3 DEF CallFails
  <2>4. CASE \E m \in Models : InvalidSubject(m)
    BY <1>5, <2>4 DEF InvalidSubject
  <2> QED
    BY <2>1, <2>2, <2>3, <2>4
<1> QED
  BY <1>0, <1>1, <1>2, <1>6, StillDuty

\* An event of a policy, relevant or not, leaves nothing unnoticed.
LEMMA WatchPolicyDuty ==
    ASSUME IInv, KInv, Grows, NEW p \in Policies, WatchPolicy(p)
    PROVE  KInv'
<1> USE Domains DEF IInv, KInv
<1>0. /\ UNCHANGED <<pol, tenant, auth, modelCache, events, worker, ghosts, misread>>
      /\ queue \subseteq queue' /\ (Relevant(cache[p], pol[p]) => p \in queue')
  BY DEF WatchPolicy, objects, history
<1>1. cache'[p] = pol[p] /\ \A x \in Policies : x # p => cache'[x] = cache[x]
  BY DEF WatchPolicy, TypeOK
<1>2. GoneInv'
  <2>1. \A m \in Models : Managed(m)' = Managed(m)
    BY <1>0 DEF Managed
  <2> QED
    BY <1>0, <1>1, <2>1 DEF GoneInv
<1>3. /\ \A m \in Models : Managed(m)' = Managed(m) /\ Served(m)' = Served(m)
      /\ \A m \in Models : OidcRight(m)' = OidcRight(m)
      /\ \A m \in Models, x \in Policies : x # p => Live(x, m)' = Live(x, m)
      /\ \A m \in Models, x \in Policies : Awaited(x, m) => Awaited(x, m)'
      /\ \A m \in Models, x \in Policies : Leaving(x, m) => Leaving(x, m)'
  BY <1>0, <1>1 DEF Managed, Served, OidcRight, Live, Awaited, Leaving
<1>4. \/ p \in queue'
      \/ /\ cache'[p].exists = cache[p].exists /\ \A m \in Models : Live(p, m)' = Live(p, m)
         /\ cache[p].exists => cache'[p].subjects = cache[p].subjects
  <2>1. SUFFICES ASSUME ~Relevant(cache[p], pol[p])
                 PROVE  /\ cache'[p].exists = cache[p].exists
                        /\ \A m \in Models : Live(p, m)' = Live(p, m)
                        /\ cache[p].exists => cache'[p].subjects = cache[p].subjects
    BY <1>0
  <2>2. cache[p].exists = pol[p].exists /\ cache[p].rev = pol[p].rev
    BY <2>1 DEF Relevant
  <2>3. cache[p].exists => /\ cache[p].refs = pol[p].refs /\ cache[p].subjects = pol[p].subjects
                           /\ cache[p].deleting <=> pol[p].deleting
    BY <2>1, <2>2 DEF Relevant, ObjectInv, Marked, SameSpec
  <2> QED
    BY <1>1, <2>2, <2>3 DEF Live
<1>5. GrantedInv'
  <2>1. ASSUME NEW m \in Models, NEW x \in Policies, Managed(m), Served(m), Live(x, m)'
        PROVE  Awaited(x, m)' \/ (cache'[x].subjects \subseteq auth[m].subjects /\ OidcRight(m))
    <3>1. CASE x = p /\ p \in queue'
      BY <3>1 DEF Awaited
    <3>2. CASE x = p /\ p \notin queue'
      BY <1>3, <1>4, <2>1, <3>2 DEF GrantedInv, Live
    <3>3. CASE x # p
      BY <1>1, <1>3, <2>1, <3>3 DEF GrantedInv
    <3> QED
      BY <3>1, <3>2, <3>3
  <2> QED
    BY <1>0, <1>3, <2>1 DEF GrantedInv
<1>6. FromInv'
  <2>1. ASSUME NEW m \in Models, Managed(m), NEW x \in auth[m].from \ ghosts
        PROVE  Live(x, m)' \/ Leaving(x, m)'
    <3>1. CASE x = p /\ p \in queue'
      BY <3>1 DEF Leaving
    <3>2. CASE x # p \/ p \notin queue'
      BY <1>3, <1>4, <2>1, <3>2 DEF FromInv
    <3> QED
      BY <3>1, <3>2
  <2> QED
    BY <1>0, <1>3, <2>1 DEF FromInv
<1>7. SubjectsInv'
  <2>1. ASSUME NEW m \in Models, Managed(m), Served(m), auth[m].from \cap ghosts = {}
        PROVE  \/ auth[m].subjects \subseteq UNION {cache'[x].subjects : x \in auth[m].from}
               \/ \E x \in auth[m].from : Rebuilding(x, m)'
    <3>1. CASE p \in auth[m].from /\ p \in queue'
      BY <3>1 DEF Rebuilding, Leaving
    <3>2. CASE p \notin auth[m].from \/ p \notin queue'
      <4>1. \A x \in auth[m].from : cache'[x].subjects = cache[x].subjects
        <5>1. p \in auth[m].from => cache[p].exists
          BY <2>1 DEF GoneInv
        <5> QED
          BY <1>1, <1>4, <3>2, <5>1
      <4>2. \A x \in auth[m].from : Rebuilding(x, m) => Rebuilding(x, m)'
        BY <1>3 DEF Rebuilding
      <4> QED
        BY <2>1, <4>1, <4>2 DEF SubjectsInv
    <3> QED
      BY <3>1, <3>2
  <2> QED
    BY <1>0, <1>3, <2>1 DEF SubjectsInv
<1>8. TenantInv'
  BY <1>0, <1>1, <1>4 DEF TenantInv
<1> QED
  BY <1>2, <1>5, <1>6, <1>7, <1>8

\* A model that is served again finds all policies that refer to it queued.
LEMMA WatchModelDuty ==
    ASSUME IInv, KInv, Grows, NEW n \in Models, WatchModel(n)
    PROVE  KInv'
<1> USE Domains DEF IInv, KInv
<1>0. /\ UNCHANGED <<pol, tenant, auth, cache, events, worker, ghosts, misread>>
      /\ queue \subseteq queue'
  BY DEF WatchModel, objects, history
<1>1. /\ \A m \in Models : m # n => Served(m)' = Served(m)
      /\ Served(n)' => \A p \in Policies : Live(p, n) => p \in queue'
  BY DEF WatchModel, TypeOK, Served, Live
<1>2. /\ \A m \in Models : Managed(m)' = Managed(m) /\ OidcRight(m)' = OidcRight(m)
      /\ \A m \in Models, p \in Policies : Live(p, m)' = Live(p, m)
      /\ \A m \in Models, p \in Policies : Awaited(p, m) => Awaited(p, m)'
      /\ \A m \in Models, p \in Policies : Leaving(p, m) => Leaving(p, m)'
  BY <1>0 DEF Managed, OidcRight, Live, Awaited, Leaving
<1>3. GoneInv' /\ TenantInv'
  BY <1>0, <1>2 DEF GoneInv, TenantInv
<1>4. GrantedInv'
  <2>1. \A p \in Policies : p \in queue' => Awaited(p, n)'
    BY DEF Awaited
  <2> QED
    BY <1>0, <1>1, <1>2, <2>1 DEF GrantedInv
<1>5. FromInv'
  BY <1>0, <1>2 DEF FromInv
<1>6. ASSUME NEW m \in Models, Managed(m), Served(m)', auth[m].from \cap ghosts = {}
      PROVE  \/ auth[m].subjects \subseteq UNION {cache[p].subjects : p \in auth[m].from}
             \/ \E p \in auth[m].from : Rebuilding(p, m)'
  <2>1. CASE m # n
    BY <1>0, <1>1, <1>2, <1>6, <2>1 DEF SubjectsInv, Rebuilding
  <2>2. CASE m = n /\ auth[m].from = {}
    BY <2>2 DEF AuthInv
  <2>3. ASSUME m = n, NEW p \in auth[m].from PROVE Rebuilding(p, m)'
    BY <1>1, <1>2, <1>6, <2>3 DEF FromInv, Rebuilding, Awaited
  <2> QED
    BY <2>1, <2>2, <2>3
<1>7. SubjectsInv'
  BY <1>0, <1>2, <1>6 DEF SubjectsInv
<1> QED
  BY <1>3, <1>4, <1>5, <1>7

\* The event of the Tenant queues every policy.
LEMMA WatchTenantDuty ==
    ASSUME IInv, KInv, Grows, WatchTenant
    PROVE  KInv'
<1> USE Domains DEF IInv, KInv
<1>0. /\ UNCHANGED <<pol, tenant, auth, cache, modelCache, worker, ghosts, misread>>
      /\ queue \subseteq queue' /\ \A p \in Policies : cache[p].exists => p \in queue'
  BY DEF WatchTenant, objects, caches, history, mapTenantToMaaSAuthPolicies
<1>1. /\ \A m \in Models : Managed(m)' = Managed(m) /\ Served(m)' = Served(m)
      /\ \A m \in Models, p \in Policies : Live(p, m)' = Live(p, m)
      /\ \A m \in Models, p \in Policies : Live(p, m) => Awaited(p, m)'
      /\ \A m \in Models, p \in Policies : Awaited(p, m) => Awaited(p, m)'
      /\ \A m \in Models, p \in Policies : Leaving(p, m) => Leaving(p, m)'
  BY <1>0 DEF Managed, Served, Live, Awaited, Leaving
<1>2. GoneInv' /\ TenantInv'
  BY <1>0, <1>1 DEF GoneInv, TenantInv
<1>3. GrantedInv' /\ FromInv'
  BY <1>0, <1>1 DEF GrantedInv, FromInv
<1>4. SubjectsInv'
  <2>1. \A m \in Models, p \in Policies : Rebuilding(p, m) => Rebuilding(p, m)'
    BY <1>1 DEF Rebuilding
  <2> QED
    BY <1>0, <1>1, <2>1 DEF SubjectsInv
<1> QED
  BY <1>2, <1>3, <1>4

\* After a restart every policy is queued.
LEMMA RestartDuty ==
    ASSUME IInv, KInv, Grows, Restart
    PROVE  KInv'
<1> USE Types, Domains DEF IInv, KInv
<1>0. /\ UNCHANGED <<pol, auth, ghosts, misread>> /\ worker' = Idle /\ cache' = pol
      /\ queue' = {p \in Policies : pol[p].exists}
  BY DEF Restart, objects, history
<1>1. \A m \in Models : Managed(m)' = Managed(m)
  BY <1>0 DEF Managed
<1>2. \A m \in Models, p \in Policies : pol[p].exists => Awaited(p, m)' /\ Leaving(p, m)'
  BY <1>0 DEF Awaited, Leaving
<1>3. GoneInv' /\ TenantInv'
  BY <1>0, <1>1 DEF GoneInv, TenantInv
<1>4. GrantedInv'
  BY <1>0, <1>2 DEF GrantedInv, Live
<1>5. FromInv'
  BY <1>0, <1>1, <1>2 DEF FromInv, GoneInv
<1>6. ASSUME NEW m \in Models, Managed(m), auth[m].from \cap ghosts = {}
      PROVE  auth[m].subjects = {} \/ \E p \in auth[m].from : Rebuilding(p, m)'
  BY <1>2, <1>6 DEF AuthInv, GoneInv, Rebuilding
<1>7. SubjectsInv'
  BY <1>0, <1>1, <1>6 DEF SubjectsInv
<1> QED
  BY <1>3, <1>4, <1>5, <1>7

\* What the worker is not part of.
LEMMA OutsideDuty ==
    ASSUME IInv, KInv, Grows,
           \/ ChangeTenant
           \/ \E m \in Models : \/ WatchAuthPolicy(m) \/ ModelRefDeletion(m)
                                \/ EnforceAuthPolicy(m) \/ DeleteAuthPolicy(m) \/ OptOut(m)
                                \/ ChangeRoute(m) \/ ChangeModel(m)
           \/ \E p \in Policies, spec \in Specs : ApplyPolicy(p, spec)
           \/ \E p \in Policies : DeletePolicy(p)
    PROVE  KInv'
<1> USE Domains DEF IInv, KInv
<1>1. UNCHANGED <<cache, modelCache, worker>> /\ queue \subseteq queue'
  BY DEF ChangeTenant, WatchAuthPolicy, ModelRefDeletion, EnforceAuthPolicy, DeleteAuthPolicy,
         OptOut, ChangeRoute, ChangeModel, ApplyPolicy, DeletePolicy, caches
<1>2. AuthKept /\ (TenantEvent \in events => TenantEvent \in events')
  <2>1. ASSUME NEW m \in Models, WatchAuthPolicy(m)
        PROVE  AuthKept /\ (TenantEvent \in events => TenantEvent \in events')
    <3>1. UNCHANGED auth /\ events' = events \ {m} /\ TenantEvent # m
      BY <2>1, AuthPolicyAssumption DEF WatchAuthPolicy, objects
    <3> QED
      BY <3>1, NothingKept DEF TypeOK
  <2>2. CASE UNCHANGED <<auth, events>>
    BY <2>2, NothingKept DEF TypeOK
  <2> QED
    BY <2>1, <2>2, OtherStep, EnvironmentKeeps DEF ApplyPolicy, DeletePolicy
<1>3. tenant' = tenant \/ TenantEvent \in events'
  BY DEF ChangeTenant, WatchAuthPolicy, ModelRefDeletion, EnforceAuthPolicy, DeleteAuthPolicy,
         OptOut, ChangeRoute, ChangeModel, ApplyPolicy, DeletePolicy, objects
<1>4. \A p \in Policies \ ghosts' : pol[p].exists => pol'[p].exists
  BY ApplyWrite, DeleteWrite
  DEF ChangeTenant, WatchAuthPolicy, ModelRefDeletion, EnforceAuthPolicy, DeleteAuthPolicy,
      OptOut, ChangeRoute, ChangeModel, objects
<1>5. GoneInv'
  BY <1>1, <1>2, <1>4, GoneKept
<1> QED
  BY <1>1, <1>2, <1>3, <1>5, StillDuty

LEMMA NextDuty ==
    ASSUME IInv, KInv, VersionInv, [Next]_vars
    PROVE  KInv'
<1>0. Grows /\ tenant \in BOOLEAN /\ FALSE \in BOOLEAN
  BY Used DEF IInv, TypeOK
<1>1. CASE WorkerStep
  <2>1. ASSUME NEW p \in Policies, Reconcile(p) PROVE KInv'
    BY <1>0, <2>1, StartDuty DEF Reconcile, history
  <2> QED
    BY <1>0, <1>1, <2>1, FinalizerDuty, RebuildDuty, DeletionDuty, EndDuty DEF WorkerStep
<1>2. CASE Watches
  BY <1>0, <1>2, WatchPolicyDuty, WatchModelDuty, WatchTenantDuty, OutsideDuty DEF Watches
<1>3. CASE Cluster
  BY <1>0, <1>3, OutsideDuty DEF Cluster
<1>4. CASE Disturbance
  <2>1. ASSUME NEW p \in Policies, ReadTenantFails(p) PROVE KInv'
    BY <1>0, <2>1, StartDuty DEF ReadTenantFails
  <2> QED
    BY <1>0, <1>4, <2>1, OutsideDuty, EndDuty, RestartDuty DEF Disturbance
<1>5. CASE UNCHANGED vars
  <2>1. AuthKept
    BY <1>5, NothingKept DEF vars, objects, IInv, TypeOK
  <2>2. UNCHANGED <<pol, tenant, auth, cache, modelCache, events, queue, worker>>
    BY <1>5 DEF vars, objects, caches
  <2>3. GoneInv'
    BY <1>0, <2>1, <2>2, GoneKept DEF IInv, KInv
  <2> QED
    BY <1>0, <2>1, <2>2, <2>3, StillDuty
<1> QED
  BY <1>1, <1>2, <1>3, <1>4, <1>5 DEF Next

LEMMA InitDuty ==
    ASSUME Init
    PROVE  KInv /\ VersionInv
<1> USE Types, InitFacts
<1>1. /\ cache = pol /\ tenant = FALSE /\ queue = {} /\ worker = Idle /\ ghosts = {}
      /\ misread = FALSE
  BY DEF Init
<1>2. GoneInv /\ TenantInv /\ VersionInv
  BY <1>1 DEF GoneInv, TenantInv, VersionInv
<1>3. \A m \in Models, p \in Policies : Live(p, m) <=> p \in auth[m].from
  BY <1>1 DEF Live
<1>4. \A m \in Models : auth[m].subjects = UNION {cache[p].subjects : p \in auth[m].from}
  <2>1. \A m \in Models : auth[m].subjects = UNION {pol[p].subjects : p \in auth[m].from}
    BY InitFacts, Zenon
  <2>2. \A m \in Models : {cache[p].subjects : p \in auth[m].from}
                          = {pol[p].subjects : p \in auth[m].from}
    BY <1>1
  <2> QED
    BY ONLY <2>1, <2>2
<1>5. GrantedInv
  <2>1. \A m \in Models : OidcRight(m)
    BY <1>1 DEF OidcRight
  <2>2. \A m \in Models, p \in Policies : Live(p, m) => cache[p].subjects \subseteq auth[m].subjects
    BY <1>3, <1>4
  <2> QED
    BY <2>1, <2>2 DEF GrantedInv
<1>6. FromInv
  BY <1>3 DEF FromInv
<1>7. SubjectsInv
  BY <1>4 DEF SubjectsInv
<1> QED
  BY <1>2, <1>5, <1>6, <1>7 DEF KInv

LEMMA SpecDuty == Spec => [](IInv /\ KInv)
<1>1. Init => IInv /\ KInv /\ VersionInv
  BY InitInv, InitDuty
<1>2. IInv /\ KInv /\ VersionInv /\ [Next]_vars => (IInv /\ KInv /\ VersionInv)'
  BY NextInv, NextDuty, VersionStep
<1> QED
  BY <1>1, <1>2, PTL DEF Spec

\* When nothing is pending the caches are the objects and nobody is Awaited,
\* Leaving or Rebuilding.
LEMMA QuietFacts ==
    ASSUME Quiet
    PROVE  /\ cache = pol /\ modelCache = model /\ TenantEvent \notin events
           /\ \A m \in Models, p \in Policies : /\ ~Awaited(p, m) /\ ~Leaving(p, m)
                                                /\ ~Rebuilding(p, m)
           /\ \A m \in Models : Governs(m) => Managed(m) /\ Served(m)
BY DEF Quiet, Awaited, Leaving, Rebuilding, Governs, Managed, Served

\* When all is quiet the AuthPolicy of a model admits exactly the subjects that
\* a policy grants access to, after any number of edits, deletions, failures,
\* opt-outs of others and restarts, in any order, unless it was built from a
\* policy that was deleted before the controller had put its finalizer on it,
\* or from no policy at all: then it has no membership rule.
THEOREM GrantsAreExact == Spec => []GrantsExact
<1>1. ASSUME IInv, KInv PROVE GrantsExact
  <2>1. SUFFICES ASSUME Quiet, NEW m \in Models, Governs(m)
                 PROVE  /\ Granted(m) \subseteq Admits(m)
                        /\ auth[m].from # {} /\ auth[m].from \cap ghosts = {}
                           => Admits(m) \subseteq Granted(m)
    BY DEF GrantsExact
  <2>2. Granted(m) = UNION {pol[p].subjects : p \in {q \in Policies : Live(q, m)}}
    BY <2>1, QuietFacts DEF Granted, Live
  <2>3. \A p \in Policies : Live(p, m) => pol[p].subjects \subseteq auth[m].subjects
    BY <1>1, <2>1, QuietFacts DEF KInv, GrantedInv
  <2>4. Granted(m) \subseteq auth[m].subjects /\ auth[m].subjects \in SUBSET Subjects
    BY <1>1, <2>2, <2>3, Domains DEF IInv
  <2>5. ASSUME auth[m].from # {}, auth[m].from \cap ghosts = {}
        PROVE  auth[m].subjects # {} /\ auth[m].subjects \subseteq Granted(m)
    <3>1. auth[m].from \in SUBSET Policies
      BY <1>1, Domains DEF IInv
    <3>2. \A p \in auth[m].from : Live(p, m)
      BY <1>1, <2>1, <2>5, <3>1, QuietFacts DEF KInv, FromInv
    <3>3. auth[m].subjects \subseteq UNION {pol[p].subjects : p \in auth[m].from}
      BY <1>1, <2>1, <2>5, <3>1, QuietFacts DEF KInv, SubjectsInv
    <3>4. PICK p \in auth[m].from : pol[p].exists
      BY <2>1, <2>5, <3>2, QuietFacts DEF Live
    <3>5. pol[p].subjects # {}
      BY <1>1, <3>1, <3>4 DEF IInv, ObjectInv, WellFormed
    <3> QED
      BY <2>2, <2>3, <3>1, <3>2, <3>3, <3>4, <3>5
  <2> QED
    BY <2>4, <2>5 DEF Admits
<1> QED
  BY <1>1, SpecDuty, PTL

\* When all is quiet the AuthPolicy of a model that somebody may use has the
\* OIDC configuration of the Tenant, however reconciles and changes of the
\* Tenant interleaved, as long as no read of the Tenant has failed.
THEOREM OidcFollows == Spec => []OidcFollowsTenant
<1>1. ASSUME IInv, KInv PROVE OidcFollowsTenant
  <2>1. SUFFICES ASSUME Quiet, ~misread, NEW m \in Models, Governs(m), Granted(m) # {}
                 PROVE  auth[m].oidc = tenant
    BY DEF OidcFollowsTenant
  <2>2. PICK p \in Policies : Live(p, m)
    BY <2>1, QuietFacts DEF Granted, Live
  <2>3. OidcRight(m)
    BY <1>1, <2>1, <2>2, QuietFacts DEF KInv, GrantedInv
  <2> QED
    BY <2>1, <2>3, QuietFacts DEF OidcRight
<1> QED
  BY <1>1, SpecDuty, PTL
=============================================================================
