-------------------- MODULE SubscriptionController_proofs -------------------
(***************************************************************************)
(* Proofs about SubscriptionController, for any subscriptions, models and  *)
(* specs and any number of disturbances of any kind.                       *)
(*                                                                         *)
(* Two arguments carry them.  A deletion works on a copy that stays the    *)
(* cached one for as long as it is the current one (CopyInv), so what the  *)
(* reconcile rebuilds in between cannot contain the subscription again     *)
(* (CleanInv).  And whatever puts a policy out of step with the caches     *)
(* leaves, for every subscription it wrongs, an event, a request of that   *)
(* very subscription, or an event that is not answered yet (DutyInv).      *)
(***************************************************************************)
EXTENDS SubscriptionController, TLAPS

\* Versions and routes that exist were handed out before.
FreshInv ==
    /\ \A s \in Subs : subs[s].rev <= used /\ cache[s].rev <= used
    /\ worker.obj.rev <= used
    /\ \A m \in Models : /\ model[m].route <= used + 1 /\ modelCache[m].route <= used + 1
                         /\ trlp[m].owner <= used + 1

\* Only what exists has a finalizer, and only what has one is being deleted.
WellFormed(o) == (o.deleting => o.fin) /\ (o.fin => o.exists)

\* A deletion mark is never taken back.
Marked(o, s) == o.deleting /\ subs[s].exists /\ subs[s].rev = o.rev => subs[s].deleting

SubInv ==
    /\ \A s \in Subs : /\ WellFormed(subs[s]) /\ WellFormed(cache[s])
                       /\ Marked(cache[s], s)
    /\ WellFormed(worker.obj) /\ Marked(worker.obj, worker.s)

\* Where the worker is and what it works on.
WorkerInv ==
    /\ worker.pc = "idle" => worker.obj = NoSub
    /\ worker.pc # "idle" => worker.obj.exists
    /\ worker.pc \in {"finalizer", "health"} => ~worker.obj.deleting
    /\ worker.pc = "drop" => worker.obj.deleting

\* The current version of a deleted subscription is also the cached one.
CopyInv == worker.obj.deleting /\ Current => cache[worker.s] = worker.obj

\* A policy of the current route was made by a controller that knew the route.
PolicyInv ==
    \A m \in Models :
        /\ trlp[m].exists => trlp[m].owner # 0
        /\ trlp[m].exists /\ trlp[m].owner = model[m].route => modelCache[m].route = model[m].route
        /\ trlp[m].exists /\ ~trlp[m].managed => trlp[m].opted

\* No policy of m that the controller manages holds a limit of s.
Clean(m, s) ==
    trlp[m].exists /\ ~trlp[m].opted /\ trlp[m].owner = model[m].route
    => \A l \in trlp[m].limits : l[1] # s

\* What the deletion in progress is done with is clean, unless the deletion
\* will be refused.
CleanInv ==
    worker.obj.deleting /\ Current =>
        /\ worker.pc = "models" => \A m \in Refs(worker.obj) \ worker.todo : Clean(m, worker.s)
        /\ worker.pc = "drop" => \A m \in Models : Clean(m, worker.s)

IInv == TypeOK /\ FreshInv /\ SubInv /\ WorkerInv /\ CopyInv /\ PolicyInv /\ CleanInv
-----------------------------------------------------------------------------
(* Convergence. *)

\* A version has one spec.
VersionInv ==
    \A s \in Subs : cache[s].exists /\ subs[s].exists /\ cache[s].rev = subs[s].rev
                      => cache[s].lim = subs[s].lim

\* By the caches, m is served and s has a valid limit on it.
Asks(m, s) ==
    /\ modelCache[m].st = "live" /\ modelCache[m].route # 0 /\ ~trlp[m].opted
    /\ cache[s].exists /\ ~cache[s].deleting /\ cache[s].lim[m] > 0

\* The policy of m has what s asks for.
InStep(m, s) ==
    Asks(m, s) => <<s, cache[s].lim[m]>> \in trlp[m].limits /\ ~trlp[m].edited

\* The reconcile in progress is one of s and has m before it.
InProgress(m, s) ==
    /\ worker.s = s /\ worker.obj.lim[m] # 0
    /\ worker.pc = "finalizer" \/ (worker.pc = "models" /\ m \in worker.todo)

Duty(m, s) ==
    \/ InStep(m, s)
    \/ m \in trlpEvents \/ m \in unanswered
    \/ s \in queue \/ InProgress(m, s)

DutyInv == \A m \in Models, s \in Subs : Duty(m, s)

KInv == VersionInv /\ DutyInv
-----------------------------------------------------------------------------
(* Operators. *)

LEMMA Types ==
    /\ NoSub \in Subscription /\ WellFormed(NoSub)
    /\ ~NoSub.exists /\ NoSub.rev = 0 /\ ~NoSub.deleting
    /\ NoPolicy \in Policy /\ ~NoPolicy.exists /\ ~NoPolicy.opted
    /\ NoPolicy.owner = 0 /\ NoPolicy.managed
    /\ Idle \in Worker /\ Idle.pc = "idle" /\ Idle.obj = NoSub
<1>1. NoSub \in Subscription
  BY DEF NoSub, Subscription, Phases
<1>2. ~NoSub.exists /\ NoSub.rev = 0 /\ ~NoSub.deleting /\ ~NoSub.fin
  BY DEF NoSub
<1>3. NoPolicy \in Policy
  BY DEF NoPolicy, Policy
<1>4. /\ ~NoPolicy.exists /\ ~NoPolicy.opted /\ NoPolicy.owner = 0 /\ NoPolicy.managed
  BY DEF NoPolicy
<1>5. (CHOOSE s \in Subs : TRUE) \in Subs
  BY ControllerAssumption
<1>6. Idle \in Worker /\ Idle.pc = "idle" /\ Idle.obj = NoSub
  BY <1>1, <1>5 DEF Idle, Worker
<1> QED
  BY <1>1, <1>2, <1>3, <1>4, <1>6 DEF WellFormed

LEMMA ValidatedWorker ==
    ASSUME NEW w \in Worker
    PROVE  /\ Validated(w) \in Worker
           /\ Validated(w).pc = "models" /\ Validated(w).s = w.s /\ Validated(w).obj = w.obj
           /\ \/ Validated(w).todo = Refs(w.obj)
              \/ /\ Validated(w).todo = {}
                 /\ \A m \in Refs(w.obj) : modelCache[m].st = "none"
<1> DEFINE valid == {m \in Refs(w.obj) : modelCache[m].st # "none"}
           todo == IF valid = {} THEN {} ELSE Refs(w.obj)
<1>1. valid \in SUBSET Models /\ todo \in SUBSET Models
  BY DEF Refs
<1>2. \/ todo = {} /\ \A m \in Refs(w.obj) : modelCache[m].st = "none"
      \/ todo = Refs(w.obj)
  OBVIOUS
<1>3. Validated(w) = [w EXCEPT !.pc = "models", !.valid = valid, !.todo = todo]
  BY DEF Validated
<1> HIDE DEF valid, todo
<1> QED
  BY <1>1, <1>2, <1>3 DEF Worker

\* What a reconcile starts as.
LEMMA StartWorker ==
    ASSUME TypeOK, NEW s \in Subs, Reconcile(s)
    PROVE  /\ worker' \in Worker
           /\ \/ /\ worker' = Idle
                 /\ ~cache[s].exists \/ (cache[s].deleting /\ ~cache[s].fin)
              \/ /\ worker'.s = s /\ worker'.obj = cache[s] /\ cache[s].exists
                 /\ \/ worker'.pc = "finalizer" /\ ~cache[s].deleting
                    \/ worker'.pc = "models" /\ worker'.todo = Refs(cache[s])
                    \/ /\ worker'.pc = "models" /\ worker'.todo = {} /\ ~cache[s].deleting
                       /\ \A m \in Refs(cache[s]) : modelCache[m].st = "none"
<1> USE Types
<1> DEFINE o == cache[s]
           start == [Idle EXCEPT !.s = s, !.obj = o]
<1>1. o \in Subscription /\ Refs(o) \in SUBSET Models
  BY DEF TypeOK, Refs
<1>2. start \in Worker /\ start.s = s /\ start.obj = o
  BY <1>1 DEF Worker
<1>3. CASE ~o.exists \/ (o.deleting /\ ~o.fin)
  BY <1>3 DEF Reconcile
<1>4. CASE o.exists /\ o.deleting /\ o.fin
  <2>1. worker' = [start EXCEPT !.pc = "models", !.todo = Refs(o)]
    BY <1>4 DEF Reconcile
  <2> HIDE DEF start
  <2> QED
    BY <1>1, <1>2, <1>4, <2>1 DEF Worker
<1>5. CASE o.exists /\ ~o.deleting /\ ~o.fin
  <2>1. worker' = [start EXCEPT !.pc = "finalizer"]
    BY <1>5 DEF Reconcile
  <2> HIDE DEF start
  <2> QED
    BY <1>1, <1>2, <1>5, <2>1 DEF Worker
<1>6. CASE o.exists /\ ~o.deleting /\ o.fin
  <2>1. worker' = Validated(start)
    BY <1>6 DEF Reconcile
  <2> HIDE DEF start
  <2> QED
    BY <1>1, <1>2, <1>6, <2>1, ValidatedWorker
<1> QED
  BY <1>3, <1>4, <1>5, <1>6
-----------------------------------------------------------------------------
(* What the actions do to a policy and to a subscription. *)

\* p may go, or keep what it enforces.
Kept(p, q) ==
    \/ q = NoPolicy
    \/ /\ q.exists = p.exists /\ q.limits = p.limits /\ q.owner = p.owner
       /\ p.opted => q.opted
       /\ q.managed \/ ~p.managed \/ q.opted

\* No policy changes what it enforces, other than by going, and only those in
\* trlpEvents' change at all.
PoliciesKept ==
    /\ trlp' \in [Models -> Policy]
    /\ trlpEvents' \in SUBSET Models
    /\ trlpEvents \subseteq trlpEvents'
    /\ \A m \in Models : /\ Kept(trlp[m], trlp'[m])
                         /\ m \notin trlpEvents' => trlp'[m] = trlp[m]

LEMMA NothingKept ==
    ASSUME TypeOK, UNCHANGED <<trlp, trlpEvents>>
    PROVE  PoliciesKept
BY DEF TypeOK, PoliciesKept, Kept, Policy

LEMMA DeletionKeeps ==
    ASSUME TypeOK, NEW ms \in SUBSET Models, deleteModelTRLP(ms)
    PROVE  PoliciesKept
<1> USE Types
<1>1. trlp' \in [Models -> Policy] /\ trlpEvents' \in SUBSET Models
  BY DEF TypeOK, deleteModelTRLP
<1>2. ASSUME NEW m \in Models
      PROVE  /\ trlp'[m] = NoPolicy \/ trlp'[m] = trlp[m]
             /\ m \notin trlpEvents' => trlp'[m] = trlp[m]
  BY <1>1 DEF deleteModelTRLP
<1>3. trlpEvents \subseteq trlpEvents'
  BY DEF deleteModelTRLP
<1> QED
  BY <1>1, <1>2, <1>3 DEF PoliciesKept, Kept, TypeOK, Policy

\* The environment: the collector, Kuadrant and the admins.
LEMMA EnvironmentKeeps ==
    ASSUME TypeOK, NEW m \in Models,
           CollectTRLP(m) \/ AcceptTRLP(m) \/ DeleteTRLP(m) \/ EditTRLP(m) \/ OptOut(m)
    PROVE  PoliciesKept
<1> USE Types
<1>1. trlpEvents' = trlpEvents \cup {m}
  BY DEF CollectTRLP, AcceptTRLP, DeleteTRLP, EditTRLP, OptOut
<1>2. trlp[m] \in Policy
  BY DEF TypeOK
<1>3. SUFFICES \E q \in Policy : Kept(trlp[m], q) /\ trlp' = [trlp EXCEPT ![m] = q]
  <2>1. ASSUME NEW q \in Policy, Kept(trlp[m], q), trlp' = [trlp EXCEPT ![m] = q]
        PROVE  PoliciesKept
    <3>1. trlp' \in [Models -> Policy] /\ trlp'[m] = q
      BY <2>1 DEF TypeOK
    <3>2. \A n \in Models : n # m => trlp'[n] = trlp[n]
      BY <2>1 DEF TypeOK
    <3>3. \A n \in Models : Kept(trlp[n], trlp'[n])
      BY <2>1, <3>1, <3>2 DEF Kept, TypeOK, Policy
    <3>4. trlpEvents' \in SUBSET Models
      BY <1>1 DEF TypeOK
    <3> QED
      BY <1>1, <3>1, <3>2, <3>3, <3>4 DEF PoliciesKept
  <2> QED
    BY <2>1
<1>4. CASE CollectTRLP(m) \/ DeleteTRLP(m)
  BY <1>4 DEF CollectTRLP, DeleteTRLP, Kept
<1>5. CASE AcceptTRLP(m)
  <2> DEFINE q == [trlp[m] EXCEPT !.accepted = TRUE]
  <2>1. q \in Policy
    BY <1>2 DEF Policy
  <2>2. /\ q.exists = trlp[m].exists /\ q.limits = trlp[m].limits /\ q.owner = trlp[m].owner
        /\ q.opted = trlp[m].opted /\ q.managed = trlp[m].managed
    BY <1>2 DEF Policy
  <2>3. trlp' = [trlp EXCEPT ![m] = q]
    BY <1>5 DEF AcceptTRLP
  <2> HIDE DEF q
  <2>4. Kept(trlp[m], q)
    BY <1>2, <2>2 DEF Kept, Policy
  <2> QED
    BY <2>1, <2>3, <2>4
<1>6. CASE EditTRLP(m)
  <2> DEFINE q == [trlp[m] EXCEPT !.edited = TRUE]
  <2>1. q \in Policy
    BY <1>2 DEF Policy
  <2>2. /\ q.exists = trlp[m].exists /\ q.limits = trlp[m].limits /\ q.owner = trlp[m].owner
        /\ q.opted = trlp[m].opted /\ q.managed = trlp[m].managed
    BY <1>2 DEF Policy
  <2>3. trlp' = [trlp EXCEPT ![m] = q]
    BY <1>6 DEF EditTRLP
  <2> HIDE DEF q
  <2>4. Kept(trlp[m], q)
    BY <1>2, <2>2 DEF Kept, Policy
  <2> QED
    BY <2>1, <2>3, <2>4
<1>7. CASE OptOut(m)
  <2> DEFINE b == ~trlp[m].managed
             q == [trlp[m] EXCEPT !.managed = b, !.opted = TRUE]
  <2>0. b \in BOOLEAN
    OBVIOUS
  <2>3. trlp' = [trlp EXCEPT ![m] = q]
    BY <1>7 DEF OptOut, TypeOK
  <2> HIDE DEF b
  <2>1. q \in Policy
    BY <1>2, <2>0 DEF Policy
  <2>2. /\ q.exists = trlp[m].exists /\ q.limits = trlp[m].limits /\ q.owner = trlp[m].owner
        /\ q.opted = TRUE
    BY <1>2 DEF Policy
  <2> HIDE DEF q
  <2>4. Kept(trlp[m], q)
    BY <1>2, <2>2 DEF Kept, Policy
  <2> QED
    BY <2>1, <2>3, <2>4
<1> QED
  BY <1>4, <1>5, <1>6, <1>7

LEMMA WantedType ==
    ASSUME TypeOK, NEW m \in Models
    PROVE  Wanted(m) \in SUBSET (Subs \X Int)
<1>1. \A s \in Subs : cache[s].lim[m] \in Int
  BY DEF TypeOK, Subscription
<1> QED
  BY <1>1 DEF Wanted, findAllSubscriptionsForModel

\* reconcileTRLPForModel leaves the policy it wants, or none, or does nothing.
LEMMA RebuildEffect ==
    ASSUME TypeOK, NEW m \in Models, reconcileTRLPForModel(m)
    PROVE  /\ trlp' \in [Models -> Policy]
           /\ trlpEvents' \in SUBSET Models /\ trlpEvents \subseteq trlpEvents'
           /\ \A n \in Models : n # m => trlp'[n] = trlp[n]
           /\ m \notin trlpEvents' => trlp'[m] = trlp[m]
           /\ \/ /\ Wanted(m) = {} /\ Kept(trlp[m], trlp'[m])
                 /\ trlp'[m].exists => ~trlp[m].managed
              \/ /\ ~RouteMissing(m) /\ Wanted(m) # {}
                 /\ trlp'[m].exists /\ trlp'[m].limits = Wanted(m) /\ ~trlp'[m].edited
                 /\ trlp'[m].owner = modelCache[m].route
                 /\ trlp'[m].managed
              \/ /\ RouteMissing(m) \/ (trlp[m].exists /\ ~trlp[m].managed)
                 /\ trlp' = trlp
<1> USE Types
<1>0. /\ trlp \in [Models -> Policy] /\ trlp[m] \in Policy /\ modelCache[m].route \in Nat
      /\ trlpEvents \in SUBSET Models
  BY DEF TypeOK, Model
<1>1. CASE Wanted(m) = {} /\ deleteModelTRLP({m})
  <2>1. PoliciesKept
    BY <1>1, DeletionKeeps
  <2>2. trlp'[m].exists => ~trlp[m].managed
    BY <1>0, <1>1 DEF deleteModelTRLP, IsManaged
  <2>3. \A n \in Models : n # m => trlp'[n] = trlp[n]
    BY <1>0, <1>1 DEF deleteModelTRLP
  <2> QED
    BY <1>1, <2>1, <2>2, <2>3 DEF PoliciesKept
<1>2. CASE /\ ~RouteMissing(m) /\ Wanted(m) # {} /\ ~trlp[m].exists
           /\ trlp' = [trlp EXCEPT ![m] = [NoPolicy EXCEPT !.exists = TRUE,
                          !.limits = Wanted(m), !.owner = modelCache[m].route]]
           /\ trlpEvents' = trlpEvents \cup {m}
  <2> DEFINE q == [NoPolicy EXCEPT !.exists = TRUE, !.limits = Wanted(m),
                                   !.owner = modelCache[m].route]
  <2>1. q \in Policy
    BY <1>0, WantedType DEF Policy
  <2>2. /\ q.exists /\ q.limits = Wanted(m) /\ q.owner = modelCache[m].route
        /\ ~q.edited /\ q.managed
    BY DEF NoPolicy
  <2> HIDE DEF q
  <2>3. trlp' = [trlp EXCEPT ![m] = q]
    BY <1>2 DEF q
  <2>4. trlp' \in [Models -> Policy] /\ trlp'[m] = q /\ \A n \in Models : n # m => trlp'[n] = trlp[n]
    BY <1>0, <2>1, <2>3
  <2>5. trlpEvents' \in SUBSET Models /\ trlpEvents \subseteq trlpEvents' /\ m \in trlpEvents'
    BY <1>0, <1>2
  <2> QED
    BY <1>2, <2>2, <2>4, <2>5
<1>3. CASE /\ ~RouteMissing(m) /\ Wanted(m) # {} /\ IsManaged(m)
           /\ trlp[m].owner = modelCache[m].route
           /\ trlp' = [trlp EXCEPT ![m].limits = Wanted(m), ![m].edited = FALSE]
           /\ trlpEvents' = IF trlp[m].limits = Wanted(m) /\ ~trlp[m].edited THEN trlpEvents
                            ELSE trlpEvents \cup {m}
  <2> DEFINE q == [trlp[m] EXCEPT !.limits = Wanted(m), !.edited = FALSE]
  <2>1. q \in Policy
    BY <1>0, WantedType DEF Policy
  <2>2. /\ q.exists = trlp[m].exists /\ q.limits = Wanted(m) /\ q.owner = trlp[m].owner
        /\ q.edited = FALSE /\ q.managed = trlp[m].managed
    BY <1>0 DEF Policy
  <2>3. trlp' = [trlp EXCEPT ![m] = q]
    BY <1>0, <1>3
  <2>4. ASSUME trlp[m].limits = Wanted(m), ~trlp[m].edited
        PROVE  q = trlp[m]
    <3>1. trlp[m].edited = FALSE
      BY <1>0, <2>4 DEF Policy
    <3> QED
      BY <1>0, <2>4, <3>1 DEF Policy
  <2> HIDE DEF q
  <2>5. /\ trlp' \in [Models -> Policy] /\ trlp'[m] = q
        /\ \A n \in Models : n # m => trlp'[n] = trlp[n]
    BY <1>0, <2>1, <2>3
  <2>6. /\ trlpEvents' \in SUBSET Models /\ trlpEvents \subseteq trlpEvents'
        /\ m \notin trlpEvents' => trlp[m].limits = Wanted(m) /\ ~trlp[m].edited
    BY <1>0, <1>3
  <2>7. trlp[m].exists /\ trlp[m].managed
    BY <1>3 DEF IsManaged
  <2> QED
    BY <1>3, <2>2, <2>4, <2>5, <2>6, <2>7
<1>4. CASE /\ RouteMissing(m) \/ (trlp[m].exists /\ ~trlp[m].managed)
           /\ UNCHANGED <<trlp, trlpEvents>>
  BY <1>0, <1>4
<1> QED
  BY <1>1, <1>2, <1>3, <1>4 DEF reconcileTRLPForModel

\* s, which is there and not being deleted, gets a new status or its finalizer.
LiveWrite(s) ==
    /\ subs' \in [Subs -> Subscription]
    /\ \A x \in Subs : x # s => subs'[x] = subs[x]
    /\ subs[s].exists /\ ~subs[s].deleting
    /\ subs'[s].exists /\ ~subs'[s].deleting
    /\ subs'[s].rev = subs[s].rev /\ subs'[s].lim = subs[s].lim
    /\ subs[s].fin => subs'[s].fin

LEMMA StatusWrite ==
    ASSUME TypeOK, NEW phase \in Phases, updateStatus(phase),
           worker.obj.exists, ~worker.obj.deleting
    PROVE  subs' = subs \/ LiveWrite(worker.s)
<1>1. CASE ~Current
  BY <1>1 DEF updateStatus
<1>2. CASE Current
  <2> DEFINE o == [subs[worker.s] EXCEPT !.phase = phase]
  <2>0. /\ worker.s \in Subs /\ subs[worker.s] \in Subscription
        /\ subs[worker.s].exists /\ ~subs[worker.s].deleting
    BY <1>2 DEF TypeOK, Worker, Current
  <2>1. o \in Subscription
    BY <2>0 DEF Subscription
  <2>2. /\ o.exists = subs[worker.s].exists /\ o.deleting = subs[worker.s].deleting
        /\ o.fin = subs[worker.s].fin /\ o.rev = subs[worker.s].rev /\ o.lim = subs[worker.s].lim
    BY <2>0 DEF Subscription
  <2>3. subs' = [subs EXCEPT ![worker.s] = o]
    BY <1>2 DEF updateStatus
  <2> HIDE DEF o
  <2>4. /\ subs' \in [Subs -> Subscription] /\ subs'[worker.s] = o
        /\ \A x \in Subs : x # worker.s => subs'[x] = subs[x]
    BY <2>0, <2>1, <2>3 DEF TypeOK
  <2> QED
    BY <2>0, <2>2, <2>4 DEF LiveWrite
<1> QED
  BY <1>1, <1>2

LEMMA ScanWrite ==
    ASSUME TypeOK, NEW s \in Subs, scanForDuplicatePriority(s)
    PROVE  LiveWrite(s)
<1> DEFINE b == ~subs[s].dup
           o == [subs[s] EXCEPT !.dup = b]
<1>0. /\ subs[s] \in Subscription /\ subs[s].exists /\ ~subs[s].deleting
      /\ b \in BOOLEAN
  BY DEF TypeOK, scanForDuplicatePriority
<1>1. subs' = [subs EXCEPT ![s] = o]
  BY DEF scanForDuplicatePriority, TypeOK
<1> HIDE DEF b
<1>2. o \in Subscription
  BY <1>0 DEF Subscription
<1>3. /\ o.exists = subs[s].exists /\ o.deleting = subs[s].deleting
      /\ o.fin = subs[s].fin /\ o.rev = subs[s].rev /\ o.lim = subs[s].lim
  BY <1>0 DEF Subscription
<1> HIDE DEF o
<1>4. /\ subs' \in [Subs -> Subscription] /\ subs'[s] = o
      /\ \A x \in Subs : x # s => subs'[x] = subs[x]
  BY <1>1, <1>2 DEF TypeOK
<1> QED
  BY <1>0, <1>3, <1>4 DEF LiveWrite

\* The reconcile that adds the finalizer goes on with the object it wrote.
LEMMA FinalizerWrite ==
    ASSUME TypeOK, AddFinalizer, Current, worker.obj.exists, ~worker.obj.deleting
    PROVE  /\ LiveWrite(worker.s)
           /\ worker' \in Worker /\ worker'.pc = "models" /\ worker'.s = worker.s
           /\ worker'.obj = subs'[worker.s]
           /\ \/ worker'.todo = Refs(worker'.obj)
              \/ /\ worker'.todo = {}
                 /\ \A m \in Refs(worker'.obj) : modelCache[m].st = "none"
           /\ UNCHANGED queue
<1> DEFINE o == [worker.obj EXCEPT !.fin = TRUE]
           w == [worker EXCEPT !.obj = o]
<1>0. /\ worker \in Worker /\ worker.s \in Subs /\ worker.obj \in Subscription
      /\ subs[worker.s] = worker.obj
  BY DEF TypeOK, Worker, Current
<1>1. o \in Subscription
  BY <1>0 DEF Subscription
<1>2. /\ o.exists = worker.obj.exists /\ o.deleting = worker.obj.deleting
      /\ o.fin = TRUE /\ o.rev = worker.obj.rev /\ o.lim = worker.obj.lim
  BY <1>0 DEF Subscription
<1>3. subs' = [subs EXCEPT ![worker.s] = o] /\ worker' = Validated(w) /\ UNCHANGED queue
  BY DEF AddFinalizer
<1> HIDE DEF o
<1>4. w \in Worker /\ w.s = worker.s /\ w.obj = o
  BY <1>0, <1>1 DEF Worker
<1> HIDE DEF w
<1>5. /\ subs' \in [Subs -> Subscription] /\ subs'[worker.s] = o
      /\ \A x \in Subs : x # worker.s => subs'[x] = subs[x]
  BY <1>0, <1>1, <1>3 DEF TypeOK
<1>6. LiveWrite(worker.s)
  BY <1>0, <1>2, <1>5 DEF LiveWrite
<1> QED
  BY <1>3, <1>4, <1>5, <1>6, ValidatedWorker

LEMMA ApplyWrite ==
    ASSUME TypeOK, NEW s \in Subs, NEW lim \in Specs, ApplySubscription(s, lim)
    PROVE  /\ subs' \in [Subs -> Subscription]
           /\ \A x \in Subs : x # s => subs'[x] = subs[x]
           /\ subs'[s].exists /\ subs'[s].lim = lim /\ subs'[s].rev = used + 1
           /\ subs'[s].deleting = subs[s].deleting /\ subs'[s].fin = subs[s].fin
<1> DEFINE n == used + 1
           o == [subs[s] EXCEPT !.exists = TRUE, !.lim = lim, !.rev = n]
<1>0. subs[s] \in Subscription /\ n \in Nat /\ lim \in [Models -> Int]
  BY ControllerAssumption DEF TypeOK
<1> HIDE DEF n
<1>1. o \in Subscription
  BY <1>0 DEF Subscription
<1>2. /\ o.exists = TRUE /\ o.lim = lim /\ o.rev = n
      /\ o.deleting = subs[s].deleting /\ o.fin = subs[s].fin
  BY <1>0 DEF Subscription
<1>3. n = used + 1
  BY DEF n
<1>5. subs' = [subs EXCEPT ![s] = o]
  BY DEF ApplySubscription, TypeOK, n
<1> HIDE DEF o
<1>4. /\ subs' \in [Subs -> Subscription] /\ subs'[s] = o
      /\ \A x \in Subs : x # s => subs'[x] = subs[x]
  BY <1>1, <1>5 DEF TypeOK
<1> QED
  BY <1>2, <1>3, <1>4

LEMMA DeleteWrite ==
    ASSUME TypeOK, NEW s \in Subs, DeleteSubscription(s)
    PROVE  /\ subs' \in [Subs -> Subscription]
           /\ \A x \in Subs : x # s => subs'[x] = subs[x]
           /\ subs[s].exists /\ ~subs[s].deleting
           /\ \/ subs'[s] = NoSub /\ ~subs[s].fin
              \/ /\ subs[s].fin /\ subs'[s].fin /\ subs'[s].deleting /\ subs'[s].exists
                 /\ subs'[s].rev = subs[s].rev /\ subs'[s].lim = subs[s].lim
<1> USE Types
<1> DEFINE d == [subs[s] EXCEPT !.deleting = TRUE]
           o == IF subs[s].fin THEN d ELSE NoSub
<1>0. subs[s] \in Subscription /\ subs[s].exists /\ ~subs[s].deleting
  BY DEF TypeOK, DeleteSubscription
<1>1. /\ d \in Subscription /\ d.exists = subs[s].exists /\ d.fin = subs[s].fin
      /\ d.deleting = TRUE /\ d.rev = subs[s].rev /\ d.lim = subs[s].lim
  <2>1. d \in Subscription
    BY <1>0 DEF Subscription
  <2>2. /\ d.exists = subs[s].exists /\ d.fin = subs[s].fin
        /\ d.deleting = TRUE /\ d.rev = subs[s].rev /\ d.lim = subs[s].lim
    BY <1>0 DEF Subscription
  <2> QED
    BY <2>1, <2>2
<1>2. subs' = [subs EXCEPT ![s] = o]
  BY DEF DeleteSubscription, TypeOK
<1> HIDE DEF d
<1>3. o \in Subscription
  <2>1. CASE subs[s].fin
    BY <1>1, <2>1
  <2>2. CASE ~subs[s].fin
    BY <2>2
  <2> QED
    BY <2>1, <2>2
<1>4. /\ subs' \in [Subs -> Subscription] /\ subs'[s] = o
      /\ \A x \in Subs : x # s => subs'[x] = subs[x]
  BY <1>2, <1>3 DEF TypeOK
<1>5. CASE subs[s].fin
  BY <1>0, <1>1, <1>4, <1>5
<1>6. CASE ~subs[s].fin
  BY <1>0, <1>1, <1>4, <1>6
<1> QED
  BY <1>5, <1>6
-----------------------------------------------------------------------------
(* Every action keeps IInv. *)

\* How the bound on disturbances and the history move.
Bookkeeping ==
    /\ used' \in 0 .. MaxDisturbances /\ used' >= used
    /\ unanswered' \in SUBSET Models

LEMMA Used ==
    ASSUME TypeOK, [Next]_vars
    PROVE  Bookkeeping
<1> USE ControllerAssumption DEF TypeOK
<1>0. ASSUME NEW k, Disturb(k), unanswered' \in SUBSET Models PROVE Bookkeeping
  BY <1>0 DEF Disturb, Bookkeeping
<1>1. CASE UNCHANGED used /\ unanswered' \in SUBSET Models
  BY <1>1 DEF Bookkeeping
<1>2. CASE WorkerStep
  <2>1. UNCHANGED used /\ unanswered' \in SUBSET Models
    BY <1>2 DEF WorkerStep, Reconcile, AddFinalizer, reconcileTRLPForModel, AlreadyOwned,
                cleanupStaleTRLPs, CheckHealth, RemoveFinalizer
  <2> QED
    BY <1>1, <2>1
<1>3. CASE Watches \/ Cluster
  <2>1. UNCHANGED used /\ unanswered' \in SUBSET Models
    BY <1>3 DEF Watches, WatchSubscription, WatchModel, WatchTRLP, Cluster, ModelRefDeletion,
                CollectTRLP, AcceptTRLP
  <2> QED
    BY <1>1, <2>1
<1>4. CASE Disturbance
  <2>1. unanswered' \in SUBSET Models
    BY <1>4 DEF Disturbance, ApplySubscription, DeleteSubscription, scanForDuplicatePriority,
       ChangeRoute, ChangeModel, DeleteTRLP, EditTRLP, OptOut, CallFails, Restart
  <2> QED
    BY <1>0, <1>4, <2>1
    DEF Disturbance, ApplySubscription, DeleteSubscription, scanForDuplicatePriority,
       ChangeRoute, ChangeModel, DeleteTRLP, EditTRLP, OptOut, CallFails, Restart
<1>5. CASE UNCHANGED vars
  BY <1>1, <1>5 DEF vars
<1> QED
  BY <1>2, <1>3, <1>4, <1>5 DEF Next

LEMMA UsedType ==
    ASSUME TypeOK
    PROVE  /\ used \in Nat
           /\ Bookkeeping => used' \in Nat
           /\ \A s \in Subs : subs[s].rev \in Nat /\ cache[s].rev \in Nat
           /\ worker.s \in Subs /\ worker.obj \in Subscription /\ worker.obj.rev \in Nat
           /\ \A m \in Models : model[m].route \in Nat /\ modelCache[m].route \in Nat
                                 /\ trlp[m].owner \in Nat
<1>1. used \in Nat /\ (Bookkeeping => used' \in Nat)
  BY ControllerAssumption DEF TypeOK, Bookkeeping
<1>2. \A s \in Subs : subs[s].rev \in Nat /\ cache[s].rev \in Nat
  BY DEF TypeOK, Subscription
<1>3. worker.s \in Subs /\ worker.obj \in Subscription
  BY DEF TypeOK, Worker
<1>4. worker.obj.rev \in Nat
  BY <1>3 DEF Subscription
<1>5. \A m \in Models : model[m].route \in Nat /\ modelCache[m].route \in Nat
  BY DEF TypeOK, Model
<1>6. \A m \in Models : trlp[m].owner \in Nat
  BY DEF TypeOK, Policy
<1> QED
  BY <1>1, <1>2, <1>3, <1>4, <1>5, <1>6

\* The worker stops, or nothing that the invariant speaks of changes.
LEMMA StillStep ==
    ASSUME IInv, UNCHANGED <<subs, cache, model, modelCache, trlp>>,
           worker' = worker \/ worker' = Idle,
           queue' \in SUBSET Subs, trlpEvents' \in SUBSET Models, Bookkeeping
    PROVE  IInv'
<1> USE Types, UsedType DEF IInv
<1>1. TypeOK'
  BY DEF TypeOK, Bookkeeping
<1>2. FreshInv'
  BY DEF FreshInv, Bookkeeping
<1>3. SubInv'
  BY DEF SubInv, WellFormed, Marked
<1>4. WorkerInv'
  BY DEF WorkerInv
<1>5. CopyInv'
  BY DEF CopyInv, Current
<1>6. PolicyInv'
  BY DEF PolicyInv
<1>7. CleanInv'
  BY DEF CleanInv, Clean, Current, Refs
<1> QED
  BY <1>1, <1>2, <1>3, <1>4, <1>5, <1>6, <1>7

LEMMA ReconcileStep ==
    ASSUME IInv, NEW s \in Subs, Reconcile(s)
    PROVE  IInv'
<1> USE Types, UsedType DEF IInv
<1>0. /\ UNCHANGED <<subs, cache, model, modelCache, trlp, trlpEvents, used, unanswered>>
      /\ queue' \in SUBSET Subs
  BY DEF Reconcile, TypeOK
<1>1. Bookkeeping
  BY <1>0 DEF Bookkeeping, TypeOK
<1>2. CASE worker' = Idle
  BY <1>0, <1>1, <1>2, StillStep DEF TypeOK
<1>3. CASE worker' # Idle
  <2>0. /\ worker' \in Worker
        /\ worker'.s = s /\ worker'.obj = cache[s] /\ cache[s].exists
        /\ \/ worker'.pc = "finalizer" /\ ~cache[s].deleting
           \/ worker'.pc = "models" /\ worker'.todo = Refs(cache[s])
           \/ worker'.pc = "models" /\ worker'.todo = {} /\ ~cache[s].deleting
    BY <1>3, StartWorker
  <2>1. TypeOK'
    BY <1>0, <1>1, <2>0 DEF TypeOK, Bookkeeping
  <2>2. FreshInv'
    BY <1>0, <2>0 DEF FreshInv
  <2>3. SubInv'
    BY <1>0, <2>0 DEF SubInv, WellFormed, Marked
  <2>4. WorkerInv'
    BY <2>0 DEF WorkerInv
  <2>5. CopyInv'
    BY <1>0, <2>0 DEF CopyInv
  <2>6. PolicyInv'
    BY <1>0 DEF PolicyInv
  <2>7. CleanInv'
    BY <2>0 DEF CleanInv, Refs
  <2> QED
    BY <2>1, <2>2, <2>3, <2>4, <2>5, <2>6, <2>7
<1> QED
  BY <1>2, <1>3

\* A write to a subscription that is not being deleted.
LEMMA LiveWriteStep ==
    ASSUME IInv, NEW s \in Subs, LiveWrite(s),
           UNCHANGED <<cache, model, modelCache, trlp, trlpEvents>>,
           queue' \in SUBSET Subs, Bookkeeping, worker' \in Worker,
           \/ worker' = worker \/ worker' = Idle
           \/ /\ worker'.pc = "models" /\ worker'.s = s /\ worker'.obj = subs'[s]
    PROVE  IInv'
<1> USE Types, UsedType DEF IInv, LiveWrite
<1>1. TypeOK'
  BY DEF TypeOK, Bookkeeping
<1>2. FreshInv'
  BY DEF FreshInv, Bookkeeping
<1>3. /\ WellFormed(subs'[s])
      /\ \A o : Marked(o, s) => (Marked(o, s))'
      /\ \A x \in Subs : x # s => \A o : Marked(o, x) => (Marked(o, x))'
  BY DEF WellFormed, Marked
<1>4. \A x \in Subs : /\ WellFormed(subs'[x]) /\ WellFormed(cache'[x])
                      /\ Marked(cache[x], x)'
  BY <1>3 DEF SubInv, WellFormed, Marked
<1>5. WellFormed(worker'.obj) /\ Marked(worker.obj, worker.s)'
  <2>1. CASE worker' = worker
    BY <2>1, <1>3 DEF SubInv, Marked
  <2>2. CASE worker' = Idle
    BY <2>2 DEF Marked
  <2>3. CASE worker'.s = s /\ worker'.obj = subs'[s]
    BY <2>3, <1>3 DEF Marked
  <2> QED
    BY <2>1, <2>2, <2>3
<1>6. SubInv'
  BY <1>4, <1>5 DEF SubInv, WellFormed, Marked
<1>7. WorkerInv'
  BY DEF WorkerInv
<1>8. worker'.obj.deleting /\ Current' => worker' = worker /\ Current
  BY DEF Current
<1>9. CopyInv'
  BY <1>8 DEF CopyInv
<1>10. PolicyInv'
  BY DEF PolicyInv
<1>11. CleanInv'
  BY <1>8 DEF CleanInv, Clean, Refs
<1> QED
  BY <1>1, <1>2, <1>6, <1>7, <1>9, <1>10, <1>11

\* No policy is made or changed by it, and no route.
LEMMA PolicyStep ==
    ASSUME IInv, PoliciesKept, UNCHANGED <<subs, cache, modelCache, worker, queue>>, Bookkeeping,
           model' \in [Models -> Model], \A m \in Models : model'[m].route = model[m].route
    PROVE  IInv'
<1> USE Types, UsedType DEF IInv
<1>1. TypeOK'
  BY DEF TypeOK, Bookkeeping, PoliciesKept
<1>2. \A m \in Models : Kept(trlp[m], trlp'[m])
  BY DEF PoliciesKept
<1>3. FreshInv'
  BY <1>2 DEF FreshInv, Bookkeeping, Kept
<1>4. SubInv' /\ WorkerInv' /\ CopyInv'
  BY DEF SubInv, WellFormed, Marked, WorkerInv, CopyInv, Current
<1>5. PolicyInv'
  BY <1>2 DEF PolicyInv, Kept
<1>6. \A m \in Models, s \in Subs : Clean(m, s) => Clean(m, s)'
  BY <1>2 DEF Clean, Kept
<1>7. CleanInv'
  BY <1>6 DEF CleanInv, Current, Refs
<1> QED
  BY <1>1, <1>3, <1>4, <1>5, <1>7

\* The reconcile in progress is done with model m: its policy, if there is one,
\* belongs to the route in the cache and is opted out or without the limits of
\* a subscription that is being deleted.
LEMMA RebuiltPolicy ==
    ASSUME IInv, NEW m \in Models, reconcileTRLPForModel(m)
    PROVE  /\ trlp'[m].owner <= used + 1
           /\ trlp'[m].exists => trlp'[m].owner # 0
           /\ trlp'[m].exists /\ trlp'[m].owner = model[m].route
                => modelCache[m].route = model[m].route
           /\ trlp'[m].exists /\ ~trlp'[m].managed => trlp'[m].opted
           /\ trlp'[m].exists /\ ~trlp'[m].opted /\ trlp'[m].owner = model[m].route
                => \A l \in trlp'[m].limits :
                     \E s \in Subs : l[1] = s /\ cache[s].exists /\ ~cache[s].deleting
<1> USE Types, UsedType DEF IInv
<1>1. CASE /\ Wanted(m) = {} /\ Kept(trlp[m], trlp'[m])
           /\ trlp'[m].exists => ~trlp[m].managed
  BY <1>1 DEF Kept, FreshInv, PolicyInv
<1>2. CASE /\ ~RouteMissing(m) /\ Wanted(m) # {}
           /\ trlp'[m].exists /\ trlp'[m].limits = Wanted(m)
           /\ trlp'[m].owner = modelCache[m].route
           /\ trlp'[m].managed
  <2>1. modelCache[m].route # 0
    BY <1>2 DEF RouteMissing, Wanted
  <2>2. \A l \in Wanted(m) : \E s \in Subs : l[1] = s /\ cache[s].exists /\ ~cache[s].deleting
    BY DEF Wanted, findAllSubscriptionsForModel
  <2> QED
    BY <1>2, <2>1, <2>2 DEF FreshInv
<1>3. CASE /\ RouteMissing(m) \/ (trlp[m].exists /\ ~trlp[m].managed)
           /\ trlp' = trlp
  BY <1>3 DEF FreshInv, PolicyInv, RouteMissing
<1> QED
  BY <1>1, <1>2, <1>3, RebuildEffect

LEMMA RebuildStep ==
    ASSUME IInv, NEW m \in Models, reconcileTRLPForModel(m)
    PROVE  IInv'
<1> USE Types, UsedType DEF IInv
<1>0. /\ UNCHANGED <<subs, cache, model, modelCache, queue, used>>
      /\ unanswered' = unanswered \ {m}
      /\ worker.pc = "models" /\ m \in worker.todo
      /\ worker' = [worker EXCEPT !.todo = @ \ {m}]
  BY DEF reconcileTRLPForModel
<1>1. /\ worker' \in Worker /\ worker'.pc = "models" /\ worker'.s = worker.s
      /\ worker'.obj = worker.obj /\ worker'.todo = worker.todo \ {m}
  BY <1>0 DEF TypeOK, Worker
<1>2. /\ trlp' \in [Models -> Policy]
      /\ trlpEvents' \in SUBSET Models
      /\ \A n \in Models : n # m => trlp'[n] = trlp[n]
  BY RebuildEffect
<1>3. TypeOK'
  BY <1>0, <1>1, <1>2 DEF TypeOK
<1>4. FreshInv'
  BY <1>0, <1>1, <1>2, RebuiltPolicy DEF FreshInv
<1>5. SubInv' /\ WorkerInv' /\ CopyInv'
  BY <1>0, <1>1 DEF SubInv, WellFormed, Marked, WorkerInv, CopyInv, Current
<1>6. PolicyInv'
  BY <1>0, <1>2, RebuiltPolicy DEF PolicyInv
<1>7. CleanInv'
  <2>1. SUFFICES ASSUME worker.obj.deleting, Current, NEW n \in Refs(worker.obj) \ worker'.todo
                 PROVE  Clean(n, worker.s)'
    BY <1>0, <1>1 DEF CleanInv, Current, Refs
  <2>2. n \in Models
    BY DEF Refs
  <2>3. CASE n # m
    <3>1. Clean(n, worker.s)
      BY <1>0, <1>1, <2>1, <2>3 DEF CleanInv
    <3> QED
      BY <1>0, <1>1, <1>2, <2>2, <2>3, <3>1 DEF Clean
  <2>4. CASE n = m
    <3>1. cache[worker.s].deleting
      BY <2>1 DEF CopyInv
    <3> QED
      BY <1>0, <1>1, <2>4, <3>1, RebuiltPolicy DEF Clean
  <2> QED
    BY <2>3, <2>4
<1> QED
  BY <1>3, <1>4, <1>5, <1>6, <1>7

LEMMA CleanupStep ==
    ASSUME IInv, cleanupStaleTRLPs
    PROVE  IInv'
<1> USE Types, UsedType DEF IInv
<1> DEFINE pc == IF worker.obj.deleting THEN "drop" ELSE "health"
<1>0. /\ UNCHANGED <<subs, cache, model, modelCache, queue, used, unanswered>>
      /\ worker.pc = "models" /\ worker.todo = {}
      /\ worker' = [worker EXCEPT !.pc = pc]
      /\ deleteModelTRLP(StaleTRLPs)
  BY DEF cleanupStaleTRLPs
<1>1. /\ worker' \in Worker /\ worker'.pc = pc /\ worker'.s = worker.s
      /\ worker'.obj = worker.obj
  BY <1>0 DEF TypeOK, Worker
<1>2. PoliciesKept /\ \A m \in Models : Kept(trlp[m], trlp'[m])
  BY <1>0, DeletionKeeps DEF StaleTRLPs, PoliciesKept
<1>3. TypeOK'
  BY <1>0, <1>1, <1>2 DEF TypeOK, PoliciesKept
<1>4. FreshInv'
  BY <1>0, <1>1, <1>2 DEF FreshInv, Kept
<1>5. SubInv' /\ WorkerInv' /\ CopyInv'
  BY <1>0, <1>1 DEF SubInv, WellFormed, Marked, WorkerInv, CopyInv, Current
<1>6. PolicyInv'
  BY <1>0, <1>2 DEF PolicyInv, Kept
<1>7. CleanInv'
  <2>1. SUFFICES ASSUME worker.obj.deleting, Current, NEW m \in Models
                 PROVE  Clean(m, worker.s)'
    BY <1>0, <1>1 DEF CleanInv, Current
  <2>2. CASE m \in Refs(worker.obj)
    <3>1. Clean(m, worker.s)
      BY <1>0, <2>1, <2>2 DEF CleanInv
    <3> QED
      BY <1>0, <1>1, <1>2, <3>1 DEF Clean, Kept
  <2>3. CASE m \notin Refs(worker.obj)
    <3>1. SUFFICES ASSUME trlp'[m].exists, ~trlp'[m].opted,
                          NEW l \in trlp'[m].limits, l[1] = worker.s
                   PROVE  FALSE
      BY <1>0, <1>1 DEF Clean
    <3>2. /\ trlp[m].exists /\ ~trlp[m].opted /\ l \in trlp[m].limits
      BY <1>2, <3>1 DEF Kept
    <3>3. m \in StaleTRLPs /\ IsManaged(m)
      BY <2>3, <3>1, <3>2 DEF StaleTRLPs, IsManaged, PolicyInv
    <3>4. trlp'[m] = NoPolicy
      BY <1>0, <3>3 DEF deleteModelTRLP
    <3> QED
      BY <3>1, <3>4
  <2> QED
    BY <2>2, <2>3
<1> QED
  BY <1>3, <1>4, <1>5, <1>6, <1>7

\* ReconcileFailed, from the steps that can fail.
LEMMA FailedStep ==
    ASSUME IInv, ReconcileFailed, worker.pc # "idle", Bookkeeping,
           UNCHANGED <<cache, model, modelCache, trlp, trlpEvents>>
    PROVE  IInv'
<1> USE Types, UsedType DEF IInv
<1>1. worker' = Idle /\ queue' \in SUBSET Subs
  BY DEF ReconcileFailed, Requeue, TypeOK
<1>2. CASE subs' = subs
  BY <1>1, <1>2, StillStep DEF TypeOK
<1>3. CASE subs' # subs
  <2>1. ~worker.obj.deleting /\ updateStatus("Failed") /\ worker.obj.exists
    BY <1>3 DEF ReconcileFailed, WorkerInv
  <2>2. LiveWrite(worker.s)
    BY <1>3, <2>1, StatusWrite DEF Phases
  <2> QED
    BY <1>1, <2>2, LiveWriteStep
<1> QED
  BY <1>2, <1>3

\* Requeue, when the write of a finalizer is refused.
LEMMA RequeueStep ==
    ASSUME IInv, Requeue, UNCHANGED <<subs, cache, model, modelCache, trlp, trlpEvents>>, Bookkeeping
    PROVE  IInv'
BY UsedType, StillStep DEF Requeue, IInv, TypeOK

LEMMA FinalizerStep ==
    ASSUME IInv, AddFinalizer
    PROVE  IInv'
<1> USE UsedType DEF IInv
<1>0. /\ UNCHANGED <<cache, model, modelCache, trlp, trlpEvents, used>> /\ Bookkeeping
      /\ worker.obj.exists /\ ~worker.obj.deleting
  BY DEF AddFinalizer, Bookkeeping, TypeOK, WorkerInv
<1>1. CASE Current
  BY <1>0, <1>1, FinalizerWrite, LiveWriteStep DEF TypeOK
<1>2. CASE ~Current
  BY <1>0, <1>2, RequeueStep DEF AddFinalizer
<1> QED
  BY <1>1, <1>2

LEMMA PhaseType ==
    ASSUME NEW refs, NEW valid, NEW ready
    PROVE  deriveFinalPhase(refs, valid, ready) \in Phases
<1>1. CASE valid = {}
  BY <1>1 DEF deriveFinalPhase, Phases
<1>2. CASE valid # {} /\ (valid # refs \/ ready # refs)
  BY <1>2 DEF deriveFinalPhase, Phases
<1>3. CASE valid # {} /\ valid = refs /\ ready = refs
  BY <1>3 DEF deriveFinalPhase, Phases
<1> QED
  BY <1>1, <1>2, <1>3

LEMMA HealthStep ==
    ASSUME IInv, CheckHealth
    PROVE  IInv'
<1> USE Types, UsedType DEF IInv
<1>0. /\ UNCHANGED <<cache, model, modelCache, trlp, trlpEvents, queue, used>> /\ Bookkeeping
      /\ worker.obj.exists /\ ~worker.obj.deleting /\ worker' = Idle
  BY DEF CheckHealth, Bookkeeping, TypeOK, WorkerInv
<1>1. PICK phase \in Phases : updateStatus(phase)
  BY PhaseType DEF CheckHealth
<1>2. subs' = subs \/ LiveWrite(worker.s)
  BY <1>0, <1>1, StatusWrite
<1>3. CASE subs' = subs
  BY <1>0, <1>3, StillStep DEF TypeOK
<1>4. CASE LiveWrite(worker.s)
  BY <1>0, <1>4, LiveWriteStep DEF TypeOK
<1> QED
  BY <1>2, <1>3, <1>4

\* s goes at once; the reconcile in progress stops or is not of the version
\* that was there.
LEMMA GoneStep ==
    ASSUME IInv, NEW s \in Subs, subs' = [subs EXCEPT ![s] = NoSub],
           UNCHANGED <<cache, model, modelCache, trlp, trlpEvents, queue>>, Bookkeeping,
           worker' = worker \/ worker' = Idle
    PROVE  IInv'
<1> USE Types, UsedType DEF IInv
<1>0. /\ subs' \in [Subs -> Subscription] /\ subs'[s] = NoSub
      /\ \A x \in Subs : x # s => subs'[x] = subs[x]
  BY DEF TypeOK
<1>1. TypeOK'
  BY <1>0 DEF TypeOK, Bookkeeping
<1>2. FreshInv'
  BY <1>0 DEF FreshInv, Bookkeeping
<1>3. SubInv'
  BY <1>0 DEF SubInv, WellFormed, Marked
<1>4. WorkerInv' /\ PolicyInv'
  BY DEF WorkerInv, PolicyInv
<1>5. worker'.obj.deleting /\ Current' => worker' = worker /\ Current
  BY <1>0 DEF Current
<1>6. CopyInv' /\ CleanInv'
  BY <1>5 DEF CopyInv, CleanInv, Clean, Refs
<1> QED
  BY <1>1, <1>2, <1>3, <1>4, <1>6

LEMMA ReleaseStep ==
    ASSUME IInv, RemoveFinalizer
    PROVE  IInv'
<1> USE UsedType DEF IInv
<1>0. UNCHANGED <<cache, model, modelCache, trlp, trlpEvents, used>> /\ Bookkeeping
  BY DEF RemoveFinalizer, Bookkeeping, TypeOK
<1>1. CASE Current
  BY <1>0, <1>1, GoneStep DEF RemoveFinalizer
<1>2. CASE ~Current
  BY <1>0, <1>2, RequeueStep DEF RemoveFinalizer
<1> QED
  BY <1>1, <1>2

LEMMA DeleteStep ==
    ASSUME IInv, Bookkeeping, NEW s \in Subs, DeleteSubscription(s)
    PROVE  IInv'
<1> USE Types, UsedType DEF IInv
<1>0. UNCHANGED <<cache, model, modelCache, trlp, trlpEvents, queue, worker>>
  BY DEF DeleteSubscription
<1>1. /\ subs' \in [Subs -> Subscription] /\ \A x \in Subs : x # s => subs'[x] = subs[x]
      /\ subs[s].exists /\ ~subs[s].deleting
  BY DeleteWrite
<1>2. \/ subs'[s] = NoSub
      \/ /\ subs'[s].fin /\ subs'[s].deleting /\ subs'[s].exists /\ subs'[s].rev = subs[s].rev
  BY DeleteWrite
<1>3. TypeOK'
  BY <1>0, <1>1 DEF TypeOK, Bookkeeping
<1>4. FreshInv'
  BY <1>0, <1>1, <1>2 DEF FreshInv, Bookkeeping
<1>5. SubInv'
  BY <1>0, <1>1, <1>2 DEF SubInv, WellFormed, Marked
<1>6. WorkerInv' /\ PolicyInv'
  BY <1>0 DEF WorkerInv, PolicyInv
<1>7. worker.obj.deleting /\ Current' => Current
  BY <1>0, <1>1, <1>2 DEF Current, SubInv, Marked
<1>8. CopyInv' /\ CleanInv'
  BY <1>0, <1>7 DEF CopyInv, CleanInv, Clean, Refs
<1> QED
  BY <1>3, <1>4, <1>5, <1>6, <1>8

LEMMA ApplyStep ==
    ASSUME IInv, Bookkeeping, NEW s \in Subs, NEW lim \in Specs, ApplySubscription(s, lim)
    PROVE  IInv'
<1> USE Types, UsedType DEF IInv
<1>0. /\ UNCHANGED <<cache, model, modelCache, trlp, trlpEvents, queue, worker>>
      /\ used' = used + 1
  BY DEF ApplySubscription, Disturb
<1>1. /\ subs' \in [Subs -> Subscription]
      /\ \A x \in Subs : x # s => subs'[x] = subs[x]
      /\ subs'[s].exists /\ subs'[s].rev = used + 1
      /\ subs'[s].deleting = subs[s].deleting /\ subs'[s].fin = subs[s].fin
  BY ApplyWrite
<1>2. TypeOK'
  BY <1>0, <1>1 DEF TypeOK, Bookkeeping
<1>3. FreshInv'
  BY <1>0, <1>1 DEF FreshInv
<1>4. SubInv'
  BY <1>0, <1>1 DEF SubInv, WellFormed, Marked, FreshInv
<1>5. WorkerInv' /\ PolicyInv'
  BY <1>0 DEF WorkerInv, PolicyInv
<1>6. worker.obj.deleting /\ Current' => Current
  BY <1>0, <1>1 DEF Current, FreshInv
<1>7. CopyInv' /\ CleanInv'
  BY <1>0, <1>6 DEF CopyInv, CleanInv, Clean, Refs
<1> QED
  BY <1>2, <1>3, <1>4, <1>5, <1>7

\* The subscription the worker holds is the cached one again.
LEMMA WatchSubscriptionStep ==
    ASSUME IInv, NEW s \in Subs, WatchSubscription(s)
    PROVE  IInv'
<1> USE UsedType DEF IInv
<1>0. /\ UNCHANGED <<subs, model, modelCache, trlp, trlpEvents, worker, used, unanswered>>
      /\ queue' \in SUBSET Subs /\ cache' = [cache EXCEPT ![s] = subs[s]]
  BY DEF WatchSubscription, TypeOK
<1>1. /\ cache' \in [Subs -> Subscription] /\ cache'[s] = subs[s]
      /\ \A x \in Subs : x # s => cache'[x] = cache[x]
  BY <1>0 DEF TypeOK
<1>2. TypeOK'
  BY <1>0, <1>1 DEF TypeOK
<1>3. FreshInv'
  BY <1>0, <1>1 DEF FreshInv
<1>4. SubInv'
  BY <1>0, <1>1 DEF SubInv, WellFormed, Marked
<1>5. WorkerInv' /\ PolicyInv'
  BY <1>0 DEF WorkerInv, PolicyInv
<1>6. CopyInv' /\ CleanInv'
  BY <1>0, <1>1 DEF CopyInv, CleanInv, Clean, Refs, Current
<1> QED
  BY <1>2, <1>3, <1>4, <1>5, <1>6

\* The model, its route or the copy of the two changes.  A new route has an
\* incarnation that no policy belongs to.
LEMMA ModelStep ==
    ASSUME IInv, Bookkeeping, UNCHANGED <<subs, cache, trlp, trlpEvents, worker>>,
           queue' \in SUBSET Subs,
           model' \in [Models -> Model], modelCache' \in [Models -> Model],
           \A m \in Models :
               /\ model'[m].route <= used' + 1
               /\ \/ model'[m].route = model[m].route
                  \/ model'[m].route = 0 \/ model'[m].route > used + 1
               /\ \/ modelCache'[m] = modelCache[m]
                  \/ modelCache'[m] = model'[m]
    PROVE  IInv'
<1> USE UsedType DEF IInv
<1>1. TypeOK'
  BY DEF TypeOK, Bookkeeping
<1>2. FreshInv'
  BY <1>1, ControllerAssumption DEF FreshInv, Bookkeeping
<1>3. SubInv' /\ WorkerInv' /\ CopyInv'
  BY DEF SubInv, WellFormed, Marked, WorkerInv, CopyInv, Current
<1>4. \A m \in Models : trlp[m].exists /\ trlp[m].owner = model'[m].route
                        => model'[m].route = model[m].route
  BY DEF PolicyInv, FreshInv
<1>5. PolicyInv'
  BY <1>4 DEF PolicyInv
<1>6. \A m \in Models, s \in Subs : Clean(m, s) => Clean(m, s)'
  BY <1>4 DEF Clean
<1>7. CleanInv'
  BY <1>6 DEF CleanInv, Current, Refs
<1> QED
  BY <1>1, <1>2, <1>3, <1>5, <1>7

LEMMA WatchModelStep ==
    ASSUME IInv, NEW m \in Models, WatchModel(m)
    PROVE  IInv'
<1> USE UsedType DEF IInv
<1>0. /\ UNCHANGED <<subs, cache, model, trlp, trlpEvents, worker, used>> /\ Bookkeeping
      /\ queue' \in SUBSET Subs /\ modelCache' = [modelCache EXCEPT ![m] = model[m]]
  BY DEF WatchModel, TypeOK, Bookkeeping
<1>1. /\ modelCache' \in [Models -> Model]
      /\ \A n \in Models : modelCache'[n] = modelCache[n] \/ modelCache'[n] = model'[n]
  BY <1>0 DEF TypeOK
<1> QED
  BY <1>0, <1>1, ModelStep DEF FreshInv, TypeOK

LEMMA ChangeRouteStep ==
    ASSUME IInv, Bookkeeping, NEW m \in Models, ChangeRoute(m)
    PROVE  IInv'
<1> USE UsedType DEF IInv
<1> DEFINE r == IF model[m].route = 0 THEN used + 2 ELSE 0
<1>0. /\ UNCHANGED <<subs, cache, modelCache, trlp, trlpEvents, queue, worker>> /\ used' = used + 1
      /\ model' = [model EXCEPT ![m].route = r]
  BY DEF ChangeRoute, Disturb, TypeOK
<1>1. r \in Nat /\ (r = 0 \/ r = used + 2)
  OBVIOUS
<1> HIDE DEF r
<1>2. /\ model' \in [Models -> Model] /\ model'[m].route = r
      /\ \A n \in Models : n # m => model'[n] = model[n]
  BY <1>0, <1>1 DEF TypeOK, Model
<1>3. \A n \in Models :
         /\ model'[n].route <= used' + 1
         /\ model'[n].route = model[n].route \/ model'[n].route = 0 \/ model'[n].route > used + 1
  BY <1>0, <1>1, <1>2 DEF FreshInv
<1> QED
  BY <1>0, <1>2, <1>3, ModelStep DEF TypeOK

\* The state of model m changes, its route does not.
LEMMA StateChange ==
    ASSUME TypeOK, NEW m \in Models, NEW st \in {"none", "live", "deleting", "cleaned"},
           model' = [model EXCEPT ![m].st = st]
    PROVE  /\ model' \in [Models -> Model] /\ model'[m].st = st
           /\ \A n \in Models : model'[n].route = model[n].route
BY DEF TypeOK, Model

LEMMA ChangeModelStep ==
    ASSUME IInv, Bookkeeping, NEW m \in Models, ChangeModel(m)
    PROVE  IInv'
<1>0. UNCHANGED <<subs, cache, modelCache, trlp, trlpEvents, queue, worker>>
  BY DEF ChangeModel
<1>1. PICK st \in {"none", "live", "deleting", "cleaned"} : model' = [model EXCEPT ![m].st = st]
  BY DEF ChangeModel, IInv, TypeOK
<1> QED
  BY <1>0, <1>1, StateChange, PolicyStep, NothingKept DEF IInv

LEMMA ModelRefDeletionStep ==
    ASSUME IInv, NEW m \in Models, ModelRefDeletion(m)
    PROVE  IInv'
<1>0. UNCHANGED <<subs, cache, modelCache, queue, worker, used>> /\ Bookkeeping
  BY UsedType DEF ModelRefDeletion, IInv, TypeOK, Bookkeeping
<1>1. PICK st \in {"none", "live", "deleting", "cleaned"} : model' = [model EXCEPT ![m].st = st]
  BY DEF ModelRefDeletion
<1>2. PoliciesKept
  BY DeletionKeeps, NothingKept DEF ModelRefDeletion, IInv
<1> QED
  BY <1>0, <1>1, <1>2, StateChange, PolicyStep DEF IInv

LEMMA EnvironmentStep ==
    ASSUME IInv, Bookkeeping, NEW m \in Models,
           CollectTRLP(m) \/ AcceptTRLP(m) \/ DeleteTRLP(m) \/ EditTRLP(m) \/ OptOut(m)
    PROVE  IInv'
<1>1. UNCHANGED <<subs, cache, model, modelCache, queue, worker>>
  BY DEF CollectTRLP, AcceptTRLP, DeleteTRLP, EditTRLP, OptOut
<1> QED
  BY <1>1, EnvironmentKeeps, PolicyStep DEF IInv, TypeOK

LEMMA CallFailsStep ==
    ASSUME IInv, Bookkeeping, CallFails
    PROVE  IInv'
<1>0. UNCHANGED <<cache, model, modelCache, trlp, trlpEvents>>
      /\ worker.pc \in {"finalizer", "models", "health", "drop"}
  BY DEF CallFails
<1>1. CASE worker.pc = "finalizer"
  BY <1>0, <1>1, RequeueStep DEF CallFails
<1>2. CASE worker.pc = "health"
  <2>1. worker' = Idle /\ UNCHANGED <<subs, queue>>
    BY <1>2 DEF CallFails
  <2> QED
    BY <1>0, <2>1, StillStep DEF IInv, TypeOK
<1>3. CASE worker.pc \in {"models", "drop"}
  <2>1. ReconcileFailed
    BY <1>3 DEF CallFails
  <2> QED
    BY <1>0, <1>3, <2>1, FailedStep
<1> QED
  BY <1>0, <1>1, <1>2, <1>3

LEMMA RestartStep ==
    ASSUME IInv, Bookkeeping, Restart
    PROVE  IInv'
<1> USE Types, UsedType DEF IInv
<1>0. /\ worker' = Idle /\ cache' = subs /\ modelCache' = model
      /\ queue' \in SUBSET Subs /\ trlpEvents' = {} /\ UNCHANGED <<subs, model, trlp>>
  BY DEF Restart
<1>1. TypeOK'
  BY <1>0 DEF TypeOK, Bookkeeping
<1>2. FreshInv'
  BY <1>0 DEF FreshInv, Bookkeeping
<1>3. SubInv' /\ WorkerInv' /\ PolicyInv'
  BY <1>0 DEF SubInv, WellFormed, Marked, WorkerInv, PolicyInv
<1>4. CopyInv' /\ CleanInv'
  BY <1>0 DEF CopyInv, CleanInv
<1> QED
  BY <1>1, <1>2, <1>3, <1>4

LEMMA BuiltPolicy ==
    ASSUME NEW start \in [Subs -> [Models -> Int]], NEW m \in Models
    PROVE  /\ Built(start, m) \in Policy
           /\ Built(start, m).owner <= 1 /\ Built(start, m).managed
           /\ Built(start, m).exists => Built(start, m).owner = 1
           /\ ~Built(start, m).edited
           /\ \A s \in Subs : start[s][m] > 0 => <<s, start[s][m]>> \in Built(start, m).limits
<1> USE Types
<1> DEFINE limits == {<<s, start[s][m]>> : s \in
                        {x \in Subs : validateTokenRateLimit(start[x][m])}}
           q == [NoPolicy EXCEPT !.exists = TRUE, !.limits = limits, !.owner = 1,
                                 !.accepted = TRUE]
<1>1. limits \in SUBSET (Subs \X Int)
  OBVIOUS
<1>2. \A s \in Subs : start[s][m] > 0 => <<s, start[s][m]>> \in limits
  BY DEF validateTokenRateLimit
<1>3. Built(start, m) = IF limits = {} THEN NoPolicy ELSE q
  BY DEF Built
<1> HIDE DEF limits
<1>4. q \in Policy
  BY <1>1 DEF Policy
<1>5. q.exists /\ q.owner = 1 /\ q.managed /\ ~q.edited /\ q.limits = limits
  BY DEF NoPolicy
<1>6. ~NoPolicy.edited
  BY DEF NoPolicy
<1> HIDE DEF q
<1>7. CASE limits = {}
  BY <1>2, <1>3, <1>6, <1>7
<1>8. CASE limits # {}
  BY <1>2, <1>3, <1>4, <1>5, <1>8
<1> QED
  BY <1>7, <1>8

\* A subscription at the start.
StartObject(lim, phase) ==
    [NoSub EXCEPT !.exists = TRUE, !.lim = lim, !.fin = TRUE, !.phase = phase]

LEMMA StartSub ==
    ASSUME NEW lim \in [Models -> Int], NEW phase \in Phases
    PROVE  LET o == StartObject(lim, phase)
           IN  /\ o \in Subscription /\ o.exists /\ o.lim = lim /\ o.rev = 0
               /\ ~o.deleting /\ o.fin
<1> USE Types DEF StartObject
<1> DEFINE o == StartObject(lim, phase)
<1>1. o \in Subscription
  BY DEF Subscription
<1>2. o.exists /\ o.lim = lim /\ o.rev = 0 /\ ~o.deleting /\ o.fin
  BY DEF NoSub
<1> QED
  BY <1>1, <1>2

\* The facts of Init: what is there was reconciled.
LEMMA InitFacts ==
    ASSUME Init
    PROVE  /\ subs \in [Subs -> Subscription] /\ trlp \in [Models -> Policy]
           /\ \A s \in Subs : /\ subs[s].rev = 0 /\ ~subs[s].deleting
                              /\ subs[s].fin <=> subs[s].exists
                              /\ subs[s].exists => subs[s].lim \in Specs
           /\ \A m \in Models : /\ trlp[m].owner <= 1 /\ trlp[m].managed
                                /\ trlp[m].exists => trlp[m].owner = 1
                                /\ ~trlp[m].edited
           /\ \A m \in Models, s \in Subs : subs[s].exists /\ subs[s].lim[m] > 0
                => <<s, subs[s].lim[m]>> \in trlp[m].limits
<1> USE Types
<1> DEFINE Starts == {lim \in Specs : \A m \in Models : lim[m] >= 0} \cup {NoSub.lim}
           refs(start, s) == {m \in Models : start[s][m] # 0}
           ready(start, s) == {m \in refs(start, s) : Built(start, m).exists}
           phase(start, s) == deriveFinalPhase(refs(start, s), refs(start, s), ready(start, s))
<1>1. PICK start \in [Subs -> Starts] :
         /\ subs = [s \in Subs |->
                      IF start[s] = NoSub.lim THEN NoSub
                      ELSE [NoSub EXCEPT !.exists = TRUE, !.lim = start[s], !.fin = TRUE,
                              !.phase = phase(start, s)]]
         /\ trlp = [m \in Models |-> Built(start, m)]
  BY DEF Init
<1> HIDE DEF phase
<1>2. NoSub.lim \in [Models -> Int] /\ Starts \subseteq [Models -> Int]
  <2>1. NoSub.lim \in [Models -> Int]
    BY DEF Subscription
  <2> QED
    BY <2>1, ControllerAssumption
<1>3. start \in [Subs -> [Models -> Int]]
  BY <1>2
<1>4. \A s \in Subs : start[s] # NoSub.lim => start[s] \in Specs
  OBVIOUS
<1>5. ASSUME NEW s \in Subs
      PROVE  /\ subs[s] \in Subscription
             /\ \/ start[s] = NoSub.lim /\ subs[s] = NoSub
                \/ /\ subs[s].exists /\ subs[s].lim = start[s] /\ subs[s].rev = 0
                   /\ ~subs[s].deleting /\ subs[s].fin /\ start[s] \in Specs
  <2>1. CASE start[s] = NoSub.lim
    BY <1>1, <2>1
  <2>2. CASE start[s] # NoSub.lim
    <3>1. subs[s] = StartObject(start[s], phase(start, s))
      BY <1>1, <2>2 DEF StartObject
    <3>2. phase(start, s) \in Phases /\ start[s] \in [Models -> Int]
      BY <1>3, PhaseType DEF phase
    <3>3. /\ subs[s] \in Subscription /\ subs[s].exists /\ subs[s].lim = start[s]
          /\ subs[s].rev = 0 /\ ~subs[s].deleting /\ subs[s].fin
      BY <3>1, <3>2, StartSub
    <3> QED
      BY <1>4, <2>2, <3>3
  <2> QED
    BY <2>1, <2>2
<1>6. subs \in [Subs -> Subscription]
  BY <1>1, <1>5
<1>7. /\ trlp \in [Models -> Policy]
      /\ \A m \in Models : trlp[m] = Built(start, m)
  BY <1>1, <1>3, BuiltPolicy
<1>8. \A s \in Subs : /\ subs[s].rev = 0 /\ ~subs[s].deleting
                      /\ subs[s].fin <=> subs[s].exists
                      /\ subs[s].exists => subs[s].lim \in Specs /\ subs[s].lim = start[s]
  BY <1>5 DEF WellFormed
<1> QED
  BY <1>3, <1>6, <1>7, <1>8, BuiltPolicy

LEMMA InitInv ==
    ASSUME Init
    PROVE  IInv
<1> USE Types, InitFacts
<1>1. /\ cache = subs /\ model = [m \in Models |-> [st |-> "live", route |-> 1]]
      /\ modelCache = model /\ trlpEvents = {} /\ queue = {} /\ worker = Idle /\ used = 0
      /\ unanswered = {}
  BY DEF Init
<1>2. TypeOK
  BY <1>1, ControllerAssumption DEF TypeOK, Model
<1>3. FreshInv
  BY <1>1 DEF FreshInv
<1>4. SubInv
  BY <1>1 DEF SubInv, WellFormed, Marked
<1>5. WorkerInv /\ PolicyInv
  BY <1>1 DEF WorkerInv, PolicyInv
<1>6. CopyInv /\ CleanInv
  BY <1>1 DEF CopyInv, CleanInv
<1> QED
  BY <1>2, <1>3, <1>4, <1>5, <1>6 DEF IInv

LEMMA NextInv ==
    ASSUME IInv, [Next]_vars
    PROVE  IInv'
<1>0. Bookkeeping
  BY Used DEF IInv
<1>1. CASE WorkerStep
  <2>1. ASSUME NEW m \in Models, AlreadyOwned(m) PROVE IInv'
    BY <1>0, <2>1, FailedStep DEF AlreadyOwned
  <2> QED
    BY <1>1, <2>1, ReconcileStep, FinalizerStep, RebuildStep, CleanupStep, HealthStep, ReleaseStep
    DEF WorkerStep
<1>2. CASE Watches
  <2>1. ASSUME NEW m \in Models, WatchTRLP(m) PROVE IInv'
    <3>1. /\ UNCHANGED <<subs, cache, model, modelCache, trlp, worker>>
          /\ trlpEvents' \in SUBSET Models
      BY <2>1 DEF WatchTRLP, IInv, TypeOK
    <3>2. queue' \in SUBSET Subs
      BY <2>1 DEF WatchTRLP, IInv, TypeOK, mapGeneratedTRLPToParent, findAllSubscriptionsForModel
    <3> QED
      BY <1>0, <3>1, <3>2, StillStep
  <2> QED
    BY <1>2, <2>1, WatchSubscriptionStep, WatchModelStep DEF Watches
<1>3. CASE Cluster
  BY <1>0, <1>3, ModelRefDeletionStep, EnvironmentStep DEF Cluster
<1>4. CASE Disturbance
  <2>1. ASSUME NEW s \in Subs, scanForDuplicatePriority(s) PROVE IInv'
    BY <1>0, <2>1, ScanWrite, LiveWriteStep DEF scanForDuplicatePriority, IInv, TypeOK
  <2> QED
    BY <1>0, <1>4, <2>1, ApplyStep, DeleteStep, ChangeRouteStep, ChangeModelStep,
       EnvironmentStep, CallFailsStep, RestartStep DEF Disturbance
<1>5. CASE UNCHANGED vars
  BY <1>0, <1>5, StillStep DEF vars, IInv, TypeOK
<1> QED
  BY <1>1, <1>2, <1>3, <1>4, <1>5 DEF Next

LEMMA SpecInv == Spec => []IInv
<1> QED
  BY InitInv, NextInv, PTL DEF Spec

\* The variables keep their types, whatever the worker, the watches and the
\* environment do.
THEOREM TypeCorrect == Spec => []TypeOK
<1>1. IInv => TypeOK
  BY DEF IInv
<1> QED
  BY <1>1, SpecInv, PTL

\* A step that takes the finalizer of a subscription away, handleDeletion's
\* last, finds no managed policy with a limit of it: another reconcile of the
\* same model cannot have put it back, since the deletion is refused unless the
\* copy it started from is the current one.
THEOREM CleanDeletion == Spec => DeletionIsClean
<1>1. ASSUME IInv, [Next]_vars
      PROVE  [\A s \in Subs, m \in Models :
                /\ subs[s].fin /\ ~subs'[s].exists
                /\ trlp[m].exists /\ ~trlp[m].opted /\ trlp[m].owner = model[m].route
                => \A l \in trlp[m].limits : l[1] # s]_vars
  <2>1. SUFFICES ASSUME NEW s \in Subs, NEW m \in Models, subs[s].fin, ~subs'[s].exists
                 PROVE  Clean(m, s)
    BY DEF Clean
  <2>2. subs[s].exists /\ TypeOK
    BY <1>1, <2>1 DEF IInv, SubInv, WellFormed
  <2>3. ASSUME NEW x \in Subs, LiveWrite(x) PROVE FALSE
    BY <2>1, <2>2, <2>3 DEF LiveWrite
  <2>4. subs' # subs
    BY <2>1, <2>2
  <2>5. ASSUME RemoveFinalizer PROVE Clean(m, s)
    <3>1. Current /\ subs' = [subs EXCEPT ![worker.s] = NoSub] /\ worker.pc = "drop"
      BY <2>4, <2>5 DEF RemoveFinalizer
    <3>2. s = worker.s
      BY <2>1, <2>2, <3>1 DEF TypeOK
    <3> QED
      BY <1>1, <3>1, <3>2 DEF IInv, CleanInv, WorkerInv
  <2>6. CASE WorkerStep
    <3>1. CASE AddFinalizer
      <4>1. Current
        BY <2>4, <3>1 DEF AddFinalizer
      <4> QED
        BY <1>1, <2>3, <3>1, <4>1, FinalizerWrite, UsedType DEF IInv, WorkerInv, AddFinalizer
    <3>2. CASE \E n \in Models : AlreadyOwned(n)
      BY <1>1, <2>2, <2>3, <2>4, <3>2, StatusWrite, UsedType
      DEF AlreadyOwned, ReconcileFailed, IInv, WorkerInv, Phases
    <3>3. CASE CheckHealth
      BY <1>1, <2>2, <2>3, <2>4, <3>3, StatusWrite, PhaseType, UsedType
      DEF CheckHealth, IInv, WorkerInv
    <3> QED
      BY <2>4, <2>5, <2>6, <3>1, <3>2, <3>3
      DEF WorkerStep, Reconcile, reconcileTRLPForModel, cleanupStaleTRLPs
  <2>7. CASE Watches \/ Cluster
    BY <2>4, <2>7 DEF Watches, WatchSubscription, WatchModel, WatchTRLP, Cluster,
       ModelRefDeletion, CollectTRLP, AcceptTRLP
  <2>8. CASE Disturbance
    <3>1. ASSUME NEW x \in Subs, NEW lim \in Specs, ApplySubscription(x, lim) PROVE FALSE
      BY <2>1, <2>2, <3>1, ApplyWrite
    <3>2. ASSUME NEW x \in Subs, DeleteSubscription(x) PROVE FALSE
      BY <2>1, <2>2, <3>2, DeleteWrite
    <3>3. ASSUME NEW x \in Subs, scanForDuplicatePriority(x) PROVE FALSE
      BY <2>2, <2>3, <3>3, ScanWrite
    <3>4. CASE CallFails
      BY <1>1, <2>2, <2>3, <2>4, <3>4, StatusWrite, UsedType
      DEF CallFails, ReconcileFailed, Requeue, IInv, WorkerInv, Phases
    <3> QED
      BY <2>4, <2>8, <3>1, <3>2, <3>3, <3>4 DEF Disturbance, ChangeRoute, ChangeModel,
         DeleteTRLP, EditTRLP, OptOut, Restart
  <2>9. CASE UNCHANGED vars
    BY <2>4, <2>9 DEF vars
  <2> QED
    BY <1>1, <2>6, <2>7, <2>8, <2>9 DEF Next
<1> QED
  BY <1>1, SpecInv, PTL DEF Spec, DeletionIsClean
-----------------------------------------------------------------------------
(* Every action keeps KInv. *)

\* A write keeps version and spec together, or takes a new version.
LEMMA VersionKept ==
    ASSUME IInv, VersionInv, UNCHANGED cache,
           \A s \in Subs :
               \/ subs'[s] = subs[s]
               \/ ~subs'[s].exists
               \/ /\ subs[s].exists
                  /\ subs'[s].rev = subs[s].rev /\ subs'[s].lim = subs[s].lim
               \/ subs'[s].rev > used
    PROVE  VersionInv'
<1>1. ASSUME NEW s \in Subs, subs'[s].rev > used PROVE subs'[s].rev # cache[s].rev
  BY <1>1, UsedType DEF IInv, FreshInv
<1> QED
  BY <1>1 DEF VersionInv

\* Whatever the worker does not rebuild, it either still has before it or puts
\* back into the queue.
LEMMA WorkerDuty ==
    ASSUME IInv, KInv, VersionInv',
           UNCHANGED <<cache, modelCache, trlp, trlpEvents, unanswered>>, queue \subseteq queue',
           \/ worker' = worker
           \/ worker.s \in queue'
           \/ worker.pc \in {"idle", "health", "drop"}
    PROVE  KInv'
<1>1. ASSUME NEW m \in Models, NEW s \in Subs PROVE Duty(m, s)'
  <2>1. InStep(m, s) => InStep(m, s)'
    BY DEF InStep, Asks
  <2>2. InProgress(m, s) => InProgress(m, s)' \/ s \in queue'
    BY DEF InProgress
  <2>3. Duty(m, s)
    BY DEF KInv, DutyInv
  <2> QED
    BY <2>1, <2>2, <2>3 DEF Duty
<1> QED
  BY <1>1 DEF KInv, DutyInv

LEMMA FailedDuty ==
    ASSUME IInv, KInv, ReconcileFailed, worker.pc # "idle",
           UNCHANGED <<cache, modelCache, trlp, trlpEvents, unanswered>>
    PROVE  KInv'
<1>1. worker.s \in queue' /\ queue \subseteq queue'
  BY DEF ReconcileFailed, Requeue
<1>2. VersionInv'
  <2>1. CASE subs' = subs
    BY <2>1, VersionKept DEF KInv
  <2>2. CASE subs' # subs
    <3>1. ~worker.obj.deleting /\ updateStatus("Failed") /\ worker.obj.exists
      BY <2>2 DEF ReconcileFailed, IInv, WorkerInv
    <3>2. LiveWrite(worker.s) /\ worker.s \in Subs
      BY <2>2, <3>1, StatusWrite, UsedType DEF Phases, IInv
    <3> QED
      BY <3>2, VersionKept DEF KInv, LiveWrite
  <2> QED
    BY <2>1, <2>2
<1> QED
  BY <1>1, <1>2, WorkerDuty

\* The reconcile of a subscription that asks for m comes to m.
LEMMA ReconcileDuty ==
    ASSUME IInv, KInv, NEW s \in Subs, Reconcile(s)
    PROVE  KInv'
<1> USE Types, UsedType DEF IInv, KInv
<1>0. /\ UNCHANGED <<subs, cache, modelCache, trlp, trlpEvents, unanswered>>
      /\ worker.pc = "idle" /\ queue' = queue \ {s}
  BY DEF Reconcile
<1>1. VersionInv'
  BY <1>0, VersionKept
<1>2. ASSUME NEW m \in Models, NEW x \in Subs PROVE Duty(m, x)'
  <2>1. InStep(m, x) => InStep(m, x)'
    BY <1>0 DEF InStep, Asks
  <2>2. ~InProgress(m, x)
    BY <1>0 DEF InProgress
  <2>3. CASE x # s
    BY <1>0, <2>1, <2>2, <2>3 DEF DutyInv, Duty
  <2>4. CASE x = s /\ ~Asks(m, s)
    BY <1>0, <2>4 DEF Duty, InStep, Asks
  <2>5. CASE x = s /\ Asks(m, s)
    <3>1. /\ cache[s].exists /\ ~cache[s].deleting /\ modelCache[m].st = "live"
          /\ cache[s].lim[m] # 0 /\ m \in Refs(cache[s])
      BY <2>5 DEF Asks, Refs
    <3>2. /\ worker'.s = s /\ worker'.obj = cache[s]
          /\ worker'.pc = "finalizer" \/ (worker'.pc = "models" /\ m \in worker'.todo)
      BY <3>1, StartWorker
    <3> QED
      BY <2>5, <3>1, <3>2 DEF Duty, InProgress
  <2> QED
    BY <2>3, <2>4, <2>5
<1> QED
  BY <1>1, <1>2 DEF DutyInv

LEMMA FinalizerDuty ==
    ASSUME IInv, KInv, AddFinalizer
    PROVE  KInv'
<1> USE Types, UsedType DEF IInv, KInv
<1>0. /\ UNCHANGED <<cache, modelCache, trlp, trlpEvents, unanswered>>
      /\ worker.pc = "finalizer" /\ worker.obj.exists /\ ~worker.obj.deleting
  BY DEF AddFinalizer, WorkerInv
<1>1. CASE ~Current
  <2>1. worker.s \in queue' /\ queue \subseteq queue' /\ UNCHANGED subs
    BY <1>1 DEF AddFinalizer, Requeue
  <2> QED
    BY <1>0, <2>1, VersionKept, WorkerDuty
<1>2. CASE Current
  <2>0. /\ LiveWrite(worker.s) /\ worker'.pc = "models" /\ worker'.s = worker.s
        /\ worker'.obj = subs'[worker.s] /\ queue' = queue
        /\ \/ worker'.todo = Refs(worker'.obj)
           \/ worker'.todo = {} /\ \A m \in Refs(worker'.obj) : modelCache[m].st = "none"
    BY <1>0, <1>2, FinalizerWrite
  <2>1. VersionInv'
    BY <1>0, <2>0, VersionKept DEF LiveWrite
  <2>2. worker'.obj.lim = worker.obj.lim
    BY <1>2, <2>0 DEF LiveWrite, Current
  <2>3. ASSUME NEW m \in Models, NEW s \in Subs PROVE Duty(m, s)'
    <3>1. InStep(m, s) => InStep(m, s)'
      BY <1>0 DEF InStep, Asks
    <3>2. ASSUME InProgress(m, s) PROVE InProgress(m, s)' \/ InStep(m, s)'
      <4>1. m \in Refs(worker'.obj) /\ worker.s = s /\ worker'.obj.lim[m] # 0
        BY <2>2, <3>2 DEF InProgress, Refs
      <4>2. CASE m \in worker'.todo
        BY <2>0, <4>1, <4>2 DEF InProgress
      <4>3. CASE modelCache[m].st = "none"
        BY <1>0, <4>3 DEF InStep, Asks
      <4> QED
        BY <2>0, <4>1, <4>2, <4>3
    <3> QED
      BY <1>0, <2>0, <3>1, <3>2 DEF DutyInv, Duty
  <2> QED
    BY <2>1, <2>3 DEF DutyInv
<1> QED
  BY <1>1, <1>2

\* Whatever reconcileTRLPForModel does, its model is in step.
LEMMA RebuildDuty ==
    ASSUME IInv, KInv, NEW m \in Models, reconcileTRLPForModel(m)
    PROVE  KInv'
<1> USE Types, UsedType DEF IInv, KInv
<1>0. /\ UNCHANGED <<subs, cache, modelCache, queue>>
      /\ worker.pc = "models" /\ m \in worker.todo
      /\ worker' = [worker EXCEPT !.todo = @ \ {m}]
      /\ unanswered' = unanswered \ {m}
  BY DEF reconcileTRLPForModel
<1>1. /\ worker'.pc = "models" /\ worker'.s = worker.s
      /\ worker'.obj = worker.obj /\ worker'.todo = worker.todo \ {m}
  BY <1>0 DEF TypeOK, Worker
<1>2. /\ \A n \in Models : n # m => trlp'[n] = trlp[n]
      /\ trlpEvents \subseteq trlpEvents'
  BY RebuildEffect
<1>3. VersionInv'
  BY <1>0, VersionKept
<1>4. ASSUME NEW n \in Models, n # m, NEW s \in Subs PROVE Duty(n, s)'
  <2>1. InStep(n, s) => InStep(n, s)'
    BY <1>0, <1>2, <1>4 DEF InStep, Asks
  <2>2. InProgress(n, s) => InProgress(n, s)'
    BY <1>0, <1>1, <1>4 DEF InProgress
  <2> QED
    BY <1>0, <1>2, <1>4, <2>1, <2>2 DEF DutyInv, Duty
<1>5. ASSUME NEW s \in Subs PROVE InStep(m, s)'
  <2>1. SUFFICES ASSUME Asks(m, s)'
                 PROVE  <<s, cache[s].lim[m]>> \in trlp'[m].limits /\ ~trlp'[m].edited
    BY <1>0 DEF InStep
  <2>2. /\ modelCache[m].st = "live" /\ modelCache[m].route # 0 /\ ~trlp'[m].opted
        /\ s \in findAllSubscriptionsForModel(m) /\ cache[s].lim[m] > 0
    BY <1>0, <2>1 DEF Asks, findAllSubscriptionsForModel
  <2>3. <<s, cache[s].lim[m]>> \in Wanted(m)
    BY <2>2 DEF Wanted, validateTokenRateLimit
  <2>4. ~RouteMissing(m)
    BY <2>2 DEF RouteMissing
  <2>5. trlp' = trlp => trlp[m].managed \/ ~trlp[m].exists
    BY <2>2 DEF PolicyInv
  <2> QED
    BY <2>3, <2>4, <2>5, RebuildEffect
<1> QED
  BY <1>3, <1>4, <1>5 DEF DutyInv, Duty

\* A policy that changes is reported.
LEMMA PolicyDuty ==
    ASSUME IInv, KInv, PoliciesKept, UNCHANGED <<subs, cache, modelCache, queue, unanswered>>,
           worker' = worker \/ (worker.pc = "models" /\ worker.todo = {})
    PROVE  KInv'
<1> USE UsedType DEF IInv, KInv
<1>1. VersionInv'
  BY VersionKept
<1>2. ASSUME NEW m \in Models, NEW s \in Subs PROVE Duty(m, s)'
  <2>1. InStep(m, s) => InStep(m, s)' \/ m \in trlpEvents'
    BY DEF InStep, Asks, PoliciesKept
  <2>2. InProgress(m, s) => InProgress(m, s)'
    BY DEF InProgress
  <2> QED
    BY <2>1, <2>2 DEF DutyInv, Duty, PoliciesKept
<1> QED
  BY <1>1, <1>2 DEF DutyInv

LEMMA CleanupDuty ==
    ASSUME IInv, KInv, cleanupStaleTRLPs
    PROVE  KInv'
<1>1. PoliciesKept
  BY DeletionKeeps DEF cleanupStaleTRLPs, StaleTRLPs, IInv
<1> QED
  BY <1>1, PolicyDuty DEF cleanupStaleTRLPs

LEMMA HealthDuty ==
    ASSUME IInv, KInv, CheckHealth
    PROVE  KInv'
<1> USE UsedType DEF IInv, KInv
<1>0. /\ UNCHANGED <<cache, modelCache, trlp, trlpEvents, queue, unanswered>>
      /\ worker.pc = "health" /\ worker.obj.exists /\ ~worker.obj.deleting
  BY DEF CheckHealth, WorkerInv
<1>1. PICK phase \in Phases : updateStatus(phase)
  BY PhaseType DEF CheckHealth
<1>2. subs' = subs \/ LiveWrite(worker.s)
  BY <1>0, <1>1, StatusWrite
<1>3. VersionInv'
  BY <1>0, <1>2, VersionKept DEF LiveWrite
<1> QED
  BY <1>0, <1>3, WorkerDuty

LEMMA ReleaseDuty ==
    ASSUME IInv, KInv, RemoveFinalizer
    PROVE  KInv'
<1> USE Types, UsedType DEF IInv, KInv
<1>0. /\ UNCHANGED <<cache, modelCache, trlp, trlpEvents, unanswered>>
      /\ worker.pc = "drop" /\ queue \subseteq queue'
      /\ subs' = subs \/ subs' = [subs EXCEPT ![worker.s] = NoSub]
  BY DEF RemoveFinalizer, Requeue
<1>1. VersionInv'
  BY <1>0, VersionKept DEF TypeOK
<1> QED
  BY <1>0, <1>1, WorkerDuty

\* The cached copy of s changes.  An event that enqueues nothing changes
\* neither the spec nor the deletion mark.
LEMMA WatchSubscriptionDuty ==
    ASSUME IInv, KInv, NEW s \in Subs, WatchSubscription(s)
    PROVE  KInv'
<1> USE Types, UsedType DEF IInv, KInv
<1>0. /\ UNCHANGED <<subs, modelCache, trlp, trlpEvents, worker, unanswered>>
      /\ cache' = [cache EXCEPT ![s] = subs[s]] /\ queue \subseteq queue'
      /\ Relevant(cache[s], subs[s]) => s \in queue'
  BY DEF WatchSubscription
<1>1. /\ cache'[s] = subs[s]
      /\ \A x \in Subs : x # s => cache'[x] = cache[x]
  BY <1>0 DEF TypeOK
<1>2. VersionInv'
  BY <1>0, <1>1 DEF VersionInv
<1>3. ASSUME NEW m \in Models, NEW x \in Subs PROVE Duty(m, x)'
  <2>1. InProgress(m, x) => InProgress(m, x)'
    BY <1>0 DEF InProgress
  <2>2. CASE x # s \/ ~Asks(m, s)'
    <3>1. InStep(m, x) => InStep(m, x)'
      BY <1>0, <1>1, <2>2 DEF InStep, Asks
    <3> QED
      BY <1>0, <2>1, <3>1 DEF DutyInv, Duty
  <2>3. CASE x = s /\ Relevant(cache[s], subs[s])
    BY <1>0, <2>3 DEF Duty
  <2>4. CASE x = s /\ Asks(m, s)' /\ ~Relevant(cache[s], subs[s])
    <3>1. subs[s].exists /\ ~subs[s].deleting
      BY <1>1, <2>4 DEF Asks
    <3>2. cache[s].exists /\ cache[s].rev = subs[s].rev
      BY <2>4, <3>1 DEF Relevant, TypeOK, Subscription
    <3>3. ~cache[s].deleting /\ cache[s].lim = subs[s].lim
      BY <3>1, <3>2 DEF SubInv, Marked, VersionInv
    <3>4. InStep(m, s) => InStep(m, s)'
      BY <1>0, <1>1, <3>1, <3>2, <3>3 DEF InStep, Asks
    <3> QED
      BY <1>0, <2>1, <2>4, <3>4 DEF DutyInv, Duty
  <2> QED
    BY <2>2, <2>3, <2>4
<1> QED
  BY <1>2, <1>3 DEF DutyInv

\* All who ask for the model are enqueued.
LEMMA WatchModelDuty ==
    ASSUME IInv, KInv, NEW m \in Models, WatchModel(m)
    PROVE  KInv'
<1> USE UsedType DEF IInv, KInv
<1>0. /\ UNCHANGED <<subs, cache, trlp, trlpEvents, worker>>
      /\ modelCache' = [modelCache EXCEPT ![m] = model[m]] /\ queue \subseteq queue'
      /\ unanswered' = unanswered \ {m}
      /\ \/ model[m].st = "none"
         \/ \A s \in Subs : cache[s].exists /\ cache[s].lim[m] # 0 => s \in queue'
  BY DEF WatchModel
<1>1. /\ modelCache'[m] = model[m]
      /\ \A n \in Models : n # m => modelCache'[n] = modelCache[n]
  BY <1>0 DEF TypeOK
<1>2. VersionInv'
  BY <1>0, VersionKept
<1>3. ASSUME NEW n \in Models, n # m, NEW s \in Subs PROVE Duty(n, s)'
  <2>1. InStep(n, s) => InStep(n, s)'
    BY <1>0, <1>1, <1>3 DEF InStep, Asks
  <2>2. InProgress(n, s) => InProgress(n, s)'
    BY <1>0 DEF InProgress
  <2> QED
    BY <1>0, <1>3, <2>1, <2>2 DEF DutyInv, Duty
<1>4. ASSUME NEW s \in Subs PROVE Duty(m, s)'
  <2>1. CASE ~Asks(m, s)'
    BY <2>1 DEF Duty, InStep
  <2>2. CASE Asks(m, s)'
    <3>1. model[m].st # "none" /\ cache[s].exists /\ cache[s].lim[m] # 0
      BY <1>0, <1>1, <2>2 DEF Asks
    <3> QED
      BY <1>0, <3>1 DEF Duty
  <2> QED
    BY <2>1, <2>2
<1> QED
  BY <1>2, <1>3, <1>4 DEF DutyInv

\* An event that wakes nobody is of a model that nobody asks for.
LEMMA WatchTRLPDuty ==
    ASSUME IInv, KInv, NEW m \in Models, WatchTRLP(m)
    PROVE  KInv'
<1> USE UsedType DEF IInv, KInv
<1>0. /\ UNCHANGED <<subs, cache, modelCache, trlp, worker>>
      /\ trlpEvents' = trlpEvents \ {m} /\ queue \subseteq queue'
      /\ unanswered \subseteq unanswered'
      /\ findAllSubscriptionsForModel(m) = {} \/ m \in unanswered'
  BY DEF WatchTRLP, mapGeneratedTRLPToParent
<1>1. VersionInv'
  BY <1>0, VersionKept
<1>2. ASSUME NEW n \in Models, NEW s \in Subs PROVE Duty(n, s)'
  <2>1. InStep(n, s) => InStep(n, s)'
    BY <1>0 DEF InStep, Asks
  <2>2. InProgress(n, s) => InProgress(n, s)'
    BY <1>0 DEF InProgress
  <2>3. findAllSubscriptionsForModel(m) = {} => InStep(m, s)'
    BY <1>0 DEF InStep, Asks, findAllSubscriptionsForModel
  <2> QED
    BY <1>0, <2>1, <2>2, <2>3 DEF DutyInv, Duty
<1> QED
  BY <1>1, <1>2 DEF DutyInv

LEMMA CallFailsDuty ==
    ASSUME IInv, KInv, CallFails
    PROVE  KInv'
<1>0. UNCHANGED <<cache, modelCache, trlp, trlpEvents, unanswered>>
      /\ worker.pc \in {"finalizer", "models", "health", "drop"}
  BY DEF CallFails
<1>1. CASE worker.pc \in {"finalizer", "health"}
  <2>1. /\ UNCHANGED subs /\ queue \subseteq queue'
        /\ worker.pc = "health" \/ worker.s \in queue'
    BY <1>1 DEF CallFails, Requeue
  <2>2. VersionInv'
    BY <1>0, <2>1, VersionKept DEF KInv
  <2> QED
    BY <1>0, <2>1, <2>2, WorkerDuty
<1>2. CASE worker.pc \in {"models", "drop"}
  <2>1. ReconcileFailed
    BY <1>2 DEF CallFails
  <2> QED
    BY <1>0, <1>2, <2>1, FailedDuty
<1> QED
  BY <1>0, <1>1, <1>2

LEMMA RestartDuty ==
    ASSUME IInv, KInv, Restart
    PROVE  KInv'
<1>0. cache' = subs /\ UNCHANGED subs /\ queue' = {s \in Subs : subs[s].exists}
  BY DEF Restart
<1>1. VersionInv'
  BY <1>0 DEF VersionInv
<1>2. ASSUME NEW m \in Models, NEW s \in Subs PROVE Duty(m, s)'
  BY <1>0 DEF Duty, InStep, Asks
<1> QED
  BY <1>1, <1>2 DEF KInv, DutyInv

LEMMA InitDuty ==
    ASSUME Init
    PROVE  KInv
<1>1. cache = subs
  BY DEF Init
<1>2. VersionInv
  BY <1>1 DEF VersionInv
<1>3. \A m \in Models, s \in Subs : InStep(m, s)
  BY <1>1, InitFacts DEF InStep, Asks
<1> QED
  BY <1>2, <1>3 DEF KInv, DutyInv, Duty

LEMMA NextDuty ==
    ASSUME IInv, KInv, [Next]_vars
    PROVE  KInv'
<1>0. ASSUME VersionInv',
             UNCHANGED <<cache, modelCache, trlp, trlpEvents, queue, worker, unanswered>>
      PROVE  KInv'
  BY <1>0, WorkerDuty
<1>1. CASE UNCHANGED vars
  BY <1>0, <1>1, VersionKept DEF vars, KInv
<1>2. CASE WorkerStep
  <2>1. ASSUME NEW m \in Models, AlreadyOwned(m) PROVE KInv'
    BY <2>1, FailedDuty DEF AlreadyOwned
  <2> QED
    BY <1>2, <2>1, ReconcileDuty, FinalizerDuty, RebuildDuty, CleanupDuty, HealthDuty, ReleaseDuty
    DEF WorkerStep
<1>3. CASE Watches
  BY <1>3, WatchSubscriptionDuty, WatchModelDuty, WatchTRLPDuty DEF Watches
<1>4. ASSUME NEW m \in Models,
             \/ ModelRefDeletion(m) \/ CollectTRLP(m) \/ AcceptTRLP(m) \/ DeleteTRLP(m)
             \/ EditTRLP(m) \/ OptOut(m) \/ ChangeRoute(m) \/ ChangeModel(m)
      PROVE  KInv'
  <2>1. UNCHANGED <<subs, cache, modelCache, worker, queue, unanswered>>
    BY <1>4 DEF ModelRefDeletion, CollectTRLP, AcceptTRLP, DeleteTRLP, EditTRLP, OptOut,
       ChangeRoute, ChangeModel
  <2>2. PoliciesKept
    BY <1>4, DeletionKeeps, NothingKept, EnvironmentKeeps
    DEF ModelRefDeletion, ChangeRoute, ChangeModel, IInv
  <2> QED
    BY <2>1, <2>2, PolicyDuty
<1>5. CASE Cluster
  BY <1>4, <1>5 DEF Cluster
<1>6. CASE Disturbance
  <2>1. ASSUME NEW s \in Subs, NEW lim \in Specs, ApplySubscription(s, lim) PROVE KInv'
    <3>1. \A x \in Subs : subs'[x] = subs[x] \/ subs'[x].rev > used
      BY <2>1, ApplyWrite, UsedType DEF IInv
    <3> QED
      BY <1>0, <2>1, <3>1, VersionKept DEF ApplySubscription, KInv
  <2>2. ASSUME NEW s \in Subs, DeleteSubscription(s) PROVE KInv'
    <3>1. \A x \in Subs :
            \/ subs'[x] = subs[x] \/ ~subs'[x].exists
            \/ subs[x].exists /\ subs'[x].rev = subs[x].rev /\ subs'[x].lim = subs[x].lim
      BY <2>2, DeleteWrite, Types DEF IInv
    <3> QED
      BY <1>0, <2>2, <3>1, VersionKept DEF DeleteSubscription, KInv
  <2>3. ASSUME NEW s \in Subs, scanForDuplicatePriority(s) PROVE KInv'
    <3>1. LiveWrite(s)
      BY <2>3, ScanWrite DEF IInv
    <3> QED
      BY <1>0, <2>3, <3>1, VersionKept DEF scanForDuplicatePriority, LiveWrite, KInv
  <2> QED
    BY <1>4, <1>6, <2>1, <2>2, <2>3, CallFailsDuty, RestartDuty DEF Disturbance
<1> QED
  BY <1>1, <1>2, <1>3, <1>5, <1>6 DEF Next

\* The limits converge, whatever refs the subscriptions have, drop and take up,
\* whichever of them and of the models are deleted, and whatever conflicts,
\* failures, restarts, late events and edits happen: when nothing is left to do
\* the policy of a served model holds the current limits of all its
\* subscriptions and no manual edit, unless the code has lost an event of it.
THEOREM LimitsAreEnforced == Spec => []LimitsEnforced
<1>1. Init => IInv /\ KInv
  BY InitInv, InitDuty
<1>2. IInv /\ KInv /\ [Next]_vars => IInv' /\ KInv'
  BY NextInv, NextDuty
<1>3. ASSUME IInv, KInv PROVE LimitsEnforced
  <2>1. SUFFICES ASSUME Quiet, NEW m \in Models \ unanswered, NEW s \in Subs, Serving(m),
                        subs[s].exists, ~subs[s].deleting, subs[s].lim[m] > 0
                 PROVE  <<s, subs[s].lim[m]>> \in trlp[m].limits /\ ~trlp[m].edited
    BY DEF LimitsEnforced
  <2>2. InStep(m, s)
    BY <1>3, <2>1 DEF KInv, DutyInv, Duty, Quiet, InProgress
  <2> QED
    BY <2>1, <2>2 DEF InStep, Asks, Quiet, Serving
<1> QED
  BY <1>1, <1>2, <1>3, PTL DEF Spec
=============================================================================
