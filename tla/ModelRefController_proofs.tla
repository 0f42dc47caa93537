--------------------- MODULE ModelRefController_proofs ----------------------
(***************************************************************************)
(* Proofs about ModelRefController and the ExternalModel reconciler that   *)
(* is composed with it, for any number of disturbances of any kind.        *)
(*                                                                         *)
(* Both reconcilers act on copies of objects that may have been deleted    *)
(* and created again.  What keeps them right is that uids and versions are *)
(* never used twice (ExtFresh, RefFresh), so that a copy is either of the  *)
(* current object or of one that is gone: an old reconcile writes objects  *)
(* that the new ExternalModel does not own (OwnerInv), and a MaaSModelRef  *)
(* does not become the copy that a deletion works on (RefInv).             *)
(***************************************************************************)
EXTENDS ModelRefController, TLAPS

\* Whatever exists has a uid and a version that were handed out before.
ExtFresh ==
    /\ ext.uid <= used + 1 /\ extCache.uid <= used + 1 /\ extWorker.cr.uid <= used + 1
    /\ ext.rev <= used + 1 /\ extCache.rev <= used + 1 /\ extWorker.cr.rev <= used + 1
    /\ \A o \in Objects : obj[o].owner <= used + 1

RefFresh == ref.rev <= used + 1 /\ refCache.rev <= used + 1 /\ worker.obj.rev <= used + 1

\* The ExternalModel is there, and stays for now.
ExtLive == ext.uid # 0 /\ ~ext.deleting

\* The reconcile in progress is of the ExternalModel that there is now.
ExtWorkerCurrent == extWorker.step > 0 /\ extWorker.cr.uid = ext.uid

\* Only a reconcile that has seen the current ExternalModel makes objects for
\* it, and a reconcile of a predecessor ends before there are any.
OwnerInv ==
    /\ extWorker.step > 0 => extWorker.cr.uid # 0
    /\ ext.uid # 0 /\ ExtWorkerCurrent => extCache.uid = ext.uid
    /\ \A o \in Objects : ext.uid # 0 /\ obj[o].owner = ext.uid =>
         extCache.uid = ext.uid /\ (extWorker.step > 0 => extWorker.cr.uid = ext.uid)

\* What the reconcile has made so far is there while it goes on.
ProgressInv ==
    ExtLive /\ ExtWorkerCurrent =>
        /\ extWorker.step > 1 => obj["Service"].owner = ext.uid
        /\ extWorker.step > 2 => obj["ServiceEntry"].owner = ext.uid

\* Object o is what the current ExternalModel asks for.
UpToDate(o) ==
    IF Desired(o, ext) THEN obj[o].owner = ext.uid /\ obj[o].rev = ext.rev
    ELSE obj[o] = NoObject

\* The objects that the reconcile in progress, or the last one, has applied.
Applied == {o \in Objects : extWorker.step = 0 \/ \E i \in 1 .. 4 : i < extWorker.step /\ Order[i] = o}

\* Without a request, the reconcile in progress is one of the cached version,
\* and when that is the current one, what it has applied is up to date.
ConvergeInv ==
    /\ extWorker.step > 0 /\ ~extQueued => extWorker.cr = extCache
    /\ ExtLive /\ ~extQueued /\ extCache = ext => \A o \in Applied : UpToDate(o)

\* A deletion is never taken back: a MaaSModelRef that has the version of a
\* deleted copy is deleted.  The deletion in progress has deleted the policies
\* of the kinds it is done with, unless it will be refused.
RefInv ==
    /\ ref.deleting => ref.exists
    /\ refCache.deleting /\ ref.exists /\ ref.rev = refCache.rev => ref.deleting
    /\ worker.obj.deleting /\ ref.exists /\ ref.rev = worker.obj.rev => ref.deleting
    /\ worker.pc \in Policies \cup {"drop"} => worker.obj.deleting /\ worker.obj.exists
    /\ worker.pc \in {"TokenRateLimitPolicy", "drop"} /\ Current => pol["AuthPolicy"] # "managed"
    /\ worker.pc = "drop" /\ Current => pol["TokenRateLimitPolicy"] # "managed"

ExtInv == ExtTypeOK /\ ExtFresh /\ OwnerInv /\ ProgressInv /\ ConvergeInv /\ BackendBeforeRoute
RefTypeOK ==
    /\ kind \in {"LLMInferenceService", "ExternalModel"}
    /\ ref \in Ref /\ refCache \in Ref
    /\ llm \in LLM /\ llmCache \in LLM
    /\ pol \in [Policies -> PolicyStates]
    /\ queued \in BOOLEAN /\ stale \in BOOLEAN
    /\ worker \in Worker

IInv == ExtInv /\ RefTypeOK /\ RefFresh /\ RefInv
-----------------------------------------------------------------------------
(* Operators. *)

LEMMA Types ==
    /\ NoCR \in CR /\ NoCR.uid = 0 /\ NoCR.rev = 0 /\ NoCR.deleting = FALSE
    /\ NoObject \in Object /\ NoObject.owner = 0
    /\ ExtIdle \in ExtWorker /\ ExtIdle.step = 0 /\ ExtIdle.cr = NoCR
    /\ Cached \subseteq Objects
BY DEF NoCR, CR, NoObject, Object, ExtIdle, ExtWorker, Cached, Objects

LEMMA OrderFacts ==
    /\ Len(Order) = 4
    /\ Order[1] = "Service" /\ Order[2] = "ServiceEntry"
    /\ Order[3] = "DestinationRule" /\ Order[4] = "HTTPRoute"
    /\ \A i \in 1 .. 4 : Order[i] \in Objects
    /\ \A o \in Objects : \E i \in 1 .. 4 : Order[i] = o
<1>1. Len(Order) = 4
  BY DEF Order
<1>2. /\ Order[1] = "Service" /\ Order[2] = "ServiceEntry"
      /\ Order[3] = "DestinationRule" /\ Order[4] = "HTTPRoute"
  BY DEF Order
<1>3. \A i \in 1 .. 4 : i = 1 \/ i = 2 \/ i = 3 \/ i = 4
  OBVIOUS
<1>4. \A i \in 1 .. 4 : Order[i] \in Objects
  BY <1>2, <1>3 DEF Objects
<1>5. \A o \in Objects : \E i \in 1 .. 4 : Order[i] = o
  BY <1>2 DEF Objects
<1> QED
  BY <1>1, <1>2, <1>4, <1>5

\* An object that is written belongs to the ExternalModel that was read.
LEMMA PutType ==
    ASSUME ExtTypeOK, NEW o \in Objects, NEW cr \in CR, cr.uid # 0
    PROVE  /\ Put(o, cr) \in Object
           /\ Put(o, cr).owner = cr.uid /\ Put(o, cr).rev = cr.rev
<1>1. Seen(o) \in Object
  BY Types DEF ExtTypeOK, Seen
<1> QED
  BY <1>1 DEF Put, Object, CR

\* What has been applied grows by one object with every step.
LEMMA AppliedGrows ==
    ASSUME ExtTypeOK, extWorker.step > 0, ExtProceed
    PROVE  \A o \in Applied' : o = Order[extWorker.step] \/ o \in Applied
<1> USE OrderFacts
<1>1. extWorker.step \in 1 .. 4
  BY DEF ExtTypeOK, ExtWorker
<1> SUFFICES ASSUME NEW o \in Applied', o # Order[extWorker.step]
             PROVE  o \in Applied
  OBVIOUS
<1>2. o \in Objects
  BY DEF Applied
<1>3. PICK i \in 1 .. 4 : Order[i] = o
  BY <1>2
<1>4. CASE extWorker.step = 4
  <2>1. i < 4
    BY <1>3, <1>4
  <2> QED
    BY <1>2, <1>3, <1>4, <2>1 DEF Applied
<1>5. CASE extWorker.step # 4
  <2>1. extWorker'.step = extWorker.step + 1
    BY <1>1, <1>5 DEF ExtProceed, ExtTypeOK, ExtWorker
  <2>2. extWorker'.step # 0
    BY <1>1, <2>1
  <2>3. PICK j \in 1 .. 4 : j < extWorker'.step /\ Order[j] = o
    BY <2>2 DEF Applied
  <2>4. j < extWorker.step
    BY <1>1, <2>1, <2>3
  <2> QED
    BY <1>2, <2>3, <2>4 DEF Applied
<1> QED
  BY <1>4, <1>5

\* The variables that ExternalModel shares with the MaaSModelRef's steps.
ExtFrame ==
    /\ UNCHANGED <<ext, extCache, obj, extQueued, extWorker>>
    /\ objCache' \in [Cached -> Object]

LEMMA UsedGrows ==
    ASSUME ExtTypeOK, [Next]_vars
    PROVE  used' \in 0 .. MaxDisturbances /\ used' >= used
<1> USE DisturbanceAssumption DEF ExtTypeOK, Disturb
<1>0. ASSUME NEW k, Disturb(k) PROVE used' \in 0 .. MaxDisturbances /\ used' >= used
  BY <1>0
<1>1. CASE Reconcile \/ AddFinalizer \/ UpdateStatus \/ DeletePolicies \/ RemoveFinalizer
  BY <1>1 DEF Reconcile, AddFinalizer, UpdateStatus, DeletePolicies, RemoveFinalizer
<1>2. CASE WatchRef \/ WatchLLMISvc \/ WatchLLMRoute \/ WatchExternalRoute \/ GeneratePolicies
  BY <1>2 DEF WatchRef, WatchLLMISvc, WatchLLMRoute, WatchExternalRoute, WatchObject,
              GeneratePolicies
<1>3. CASE Disturbance
  BY <1>0, <1>3 DEF Disturbance, ApplyRef, DeleteRef, ChangeBackend, OptOut, CallFails, Restart
<1>4. CASE ExtWorkerStep \/ Collector \/ AcceptRoute \/ WatchExternal \/ WatchObject("Service")
  <2>1. used' = used
    BY <1>4, Zenon DEF ExtWorkerStep, ReconcileExternal, Apply, Collector, CollectExternal,
                CollectObject, AcceptRoute, WatchExternal, WatchObject
  <2> QED
    BY <2>1
<1>5. CASE ExtDisturbance
  BY <1>0, <1>5 DEF ExtDisturbance, ApplyExternal, DeleteExternal, RejectRoute, ExtCallFails
<1>6. CASE UNCHANGED vars
  BY <1>6 DEF vars
<1> QED
  BY <1>1, <1>2, <1>3, <1>4, <1>5, <1>6 DEF Next, WorkerStep, Watches, Alone
-----------------------------------------------------------------------------
(* ExternalModel: every action keeps ExtInv. *)

LEMMA ExtInit_ExtInv ==
    ASSUME ExtInit
    PROVE  ExtInv
<1> USE DisturbanceAssumption, Types
<1>1. /\ ext \in CR /\ ext.uid <= 1 /\ ext.rev <= 1
      /\ obj \in [Objects -> Object]
      /\ \A o \in Objects : obj[o].owner <= 1 /\ (obj[o].owner = 0 => obj[o] = NoObject)
      /\ ext.uid # 0 => \A o \in Objects : obj[o].owner = ext.uid /\ obj[o].rev = ext.rev
      /\ ext.tls = "on"
  <2>1. CASE ext = NoCR /\ obj = [o \in Objects |-> NoObject]
    <3>1. ext.tls = "on"
      BY <2>1 DEF NoCR
    <3> QED
      BY <2>1, <3>1
  <2>2. CASE /\ ext = [NoCR EXCEPT !.uid = 1, !.rev = 1]
             /\ obj = [o \in Objects |-> [owner |-> 1, rev |-> 1, accepted |-> o = "HTTPRoute"]]
    <3>1. ext = [uid |-> 1, rev |-> 1, tls |-> "on", deleting |-> FALSE]
      BY <2>2 DEF NoCR
    <3>2. obj \in [Objects -> Object]
      BY <2>2, Zenon DEF Object
    <3>3. \A o \in Objects : obj[o].owner = 1 /\ obj[o].rev = 1
      BY <2>2
    <3> QED
      BY <3>1, <3>2, <3>3 DEF CR
  <2> QED
    BY <2>1, <2>2 DEF ExtInit
<1>2. /\ extCache = ext /\ objCache = [o \in Cached |-> obj[o]] /\ ~extQueued
      /\ extQueued \in BOOLEAN /\ extWorker = ExtIdle /\ used = 0
  BY DEF ExtInit
<1>3. ExtTypeOK
  BY <1>1, <1>2 DEF ExtTypeOK
<1>4. ExtFresh
  BY <1>1, <1>2 DEF ExtFresh
<1>5. OwnerInv /\ ProgressInv
  BY <1>1, <1>2 DEF OwnerInv, ProgressInv, ExtWorkerCurrent
<1>6. ConvergeInv
  BY <1>1, <1>2 DEF ConvergeInv, ExtLive, UpToDate, Applied, Desired
<1>7. BackendBeforeRoute
  BY <1>1, <1>2 DEF BackendBeforeRoute, Objects
<1> QED
  BY <1>3, <1>4, <1>5, <1>6, <1>7 DEF ExtInv

LEMMA ExtFrameStep ==
    ASSUME ExtInv, ExtFrame, used' \in 0 .. MaxDisturbances, used' >= used
    PROVE  ExtInv'
<1> USE DisturbanceAssumption DEF ExtInv, ExtFrame
<1>1. ExtTypeOK'
  BY DEF ExtTypeOK
<1>2. ExtFresh'
  BY DEF ExtFresh, ExtTypeOK, CR, Object, ExtWorker
<1>3. OwnerInv' /\ ProgressInv' /\ BackendBeforeRoute'
  BY DEF OwnerInv, ProgressInv, ExtLive, ExtWorkerCurrent, BackendBeforeRoute
<1>4. ConvergeInv'
  BY DEF ConvergeInv, ExtLive, UpToDate, Applied
<1> QED
  BY <1>1, <1>2, <1>3, <1>4

LEMMA ReconcileExternalStep ==
    ASSUME ExtInv, ReconcileExternal
    PROVE  ExtInv'
<1> USE DisturbanceAssumption, Types DEF ExtInv
<1>1. CASE extWorker' = ExtIdle /\ (extQueued' \/ extCache.uid = 0 \/ extCache.deleting)
  <2> USE <1>1 DEF ReconcileExternal
  <2>1. ExtTypeOK'
    BY DEF ExtTypeOK
  <2>2. ExtFresh'
    BY DEF ExtFresh, ExtTypeOK
  <2>3. OwnerInv' /\ ProgressInv' /\ BackendBeforeRoute'
    BY DEF OwnerInv, ProgressInv, ExtWorkerCurrent, BackendBeforeRoute
  <2>4. ConvergeInv'
    BY DEF ConvergeInv, ExtLive
  <2> QED
    BY <2>1, <2>2, <2>3, <2>4
<1>2. CASE /\ extCache.uid # 0 /\ ~extCache.deleting /\ ~extQueued'
           /\ extWorker' = [step |-> 1, cr |-> extCache]
  <2>0. UNCHANGED <<ext, extCache, obj, objCache, used>>
    BY DEF ReconcileExternal
  <2> USE <1>2, <2>0
  <2>1. ExtTypeOK'
    BY DEF ExtTypeOK, ExtWorker, ReconcileExternal
  <2>2. ExtFresh'
    BY DEF ExtFresh, ExtTypeOK
  <2>3. OwnerInv' /\ ProgressInv' /\ BackendBeforeRoute'
    BY DEF OwnerInv, ProgressInv, ExtWorkerCurrent, BackendBeforeRoute
  <2>4. Applied' = {}
    BY DEF Applied
  <2>5. ConvergeInv'
    BY <2>4 DEF ConvergeInv
  <2> QED
    BY <2>1, <2>2, <2>3, <2>5
<1> QED
  BY <1>1, <1>2 DEF ReconcileExternal

\* A write changes the object whose turn it is, and only for the owner that
\* was read.
LEMMA ApplyStep ==
    ASSUME ExtInv, Apply
    PROVE  ExtInv'
<1> USE DisturbanceAssumption, Types DEF ExtInv
<1> DEFINE s == extWorker.step
           cr == extWorker.cr
           o == Order[s]
<1>0. /\ s \in 1 .. 4 /\ cr \in CR /\ cr.uid # 0 /\ o \in Objects
      /\ UNCHANGED <<ext, extCache, objCache, used>>
  BY OrderFacts DEF Apply, ExtTypeOK, ExtWorker, OwnerInv
<1>1. CASE /\ obj' = [obj EXCEPT ![o] = IF Desired(o, cr) THEN Put(o, cr) ELSE NoObject]
           /\ ExtProceed
  <2> DEFINE x == IF Desired(o, cr) THEN Put(o, cr) ELSE NoObject
  <2>1. /\ x \in Object
        /\ Desired(o, cr) => x.owner = cr.uid /\ x.rev = cr.rev
        /\ ~Desired(o, cr) => x = NoObject
    BY <1>0, PutType
  <2>2. /\ obj' \in [Objects -> Object] /\ obj'[o] = x
        /\ \A p \in Objects : p # o => obj'[p] = obj[p]
    BY <1>0, <1>1, <2>1 DEF ExtTypeOK
  <2>3. /\ extWorker' \in ExtWorker /\ UNCHANGED extQueued
        /\ \/ extWorker'.step = 0 /\ extWorker'.cr = NoCR /\ s = 4
           \/ extWorker'.step = s + 1 /\ extWorker'.cr = cr /\ s < 4
    BY <1>0, <1>1, OrderFacts DEF ExtProceed, ExtTypeOK, ExtWorker
  <2>4. o # "DestinationRule" => Desired(o, cr)
    BY DEF Desired
  <2> HIDE DEF x, s, cr, o
  <2>5. ExtTypeOK'
    BY <1>0, <2>1, <2>2, <2>3 DEF ExtTypeOK, CR
  <2>6. ExtFresh'
    <3>1. x.owner <= used + 1
      BY <2>1 DEF ExtFresh, cr, ExtTypeOK
    <3> QED
      BY <1>0, <2>2, <2>3, <3>1 DEF ExtFresh, ExtTypeOK, cr
  <2>7. OwnerInv'
    <3>1. ext.uid # 0 /\ cr.uid = ext.uid => extCache.uid = ext.uid
      BY <1>0 DEF OwnerInv, ExtWorkerCurrent, cr, s
    <3>2. ASSUME NEW p \in Objects, ext.uid # 0, obj'[p].owner = ext.uid
          PROVE  cr.uid = ext.uid
      <4>1. CASE p = o
        BY <2>1, <2>2, <3>2, <4>1
      <4>2. CASE p # o
        BY <1>0, <2>2, <3>2, <4>2 DEF OwnerInv, cr, s
      <4> QED
        BY <4>1, <4>2
    <3> QED
      BY <1>0, <2>3, <3>1, <3>2 DEF OwnerInv, ExtWorkerCurrent
  <2>8. ASSUME ExtLive, cr.uid = ext.uid
        PROVE  /\ s >= 1 => obj'["Service"].owner = ext.uid
               /\ s >= 2 => obj'["ServiceEntry"].owner = ext.uid
    <3>1. /\ s > 1 => obj["Service"].owner = ext.uid
          /\ s > 2 => obj["ServiceEntry"].owner = ext.uid
      BY <1>0, <2>8 DEF ProgressInv, ExtWorkerCurrent, s, cr
    <3>2. /\ s = 1 => o = "Service"
          /\ s = 2 => o = "ServiceEntry"
          /\ s > 2 => o # "Service" /\ o # "ServiceEntry"
          /\ s = 2 => o # "Service"
      BY <1>0, OrderFacts DEF o
    <3>3. "Service" \in Objects /\ "ServiceEntry" \in Objects
      BY DEF Objects
    <3> QED
      BY <1>0, <2>1, <2>2, <2>4, <2>8, <3>1, <3>2, <3>3
  <2>9. ProgressInv'
    BY <1>0, <2>3, <2>8 DEF ProgressInv, ExtLive, ExtWorkerCurrent
  <2>10. BackendBeforeRoute'
    <3> SUFFICES ASSUME ExtLive, obj'["HTTPRoute"].owner = ext.uid
                 PROVE  obj'["Service"].owner = ext.uid /\ obj'["ServiceEntry"].owner = ext.uid
      BY <1>0 DEF BackendBeforeRoute, ExtLive
    <3>1. \A p \in {"HTTPRoute", "Service", "ServiceEntry"} : p \in Objects
      BY DEF Objects
    <3>2. cr.uid = ext.uid
      <4>1. CASE o = "HTTPRoute"
        BY <2>1, <2>2, <4>1 DEF ExtLive
      <4>2. CASE o # "HTTPRoute"
        BY <1>0, <2>2, <3>1, <4>2 DEF OwnerInv, ExtLive, cr, s
      <4> QED
        BY <4>1, <4>2
    <3>3. CASE s >= 2
      BY <1>0, <2>8, <3>2, <3>3
    <3>4. CASE s = 1
      <4>1. o = "Service"
        BY <3>4, OrderFacts DEF o
      <4>2. obj["HTTPRoute"].owner = ext.uid
        BY <2>2, <3>1, <4>1
      <4>3. obj["ServiceEntry"].owner = ext.uid
        BY <4>2 DEF BackendBeforeRoute, ExtLive
      <4> QED
        BY <2>2, <2>8, <3>1, <3>2, <3>4, <4>1, <4>3
    <3> QED
      BY <1>0, <3>3, <3>4
  <2>11. ConvergeInv'
    <3>1. extWorker'.step > 0 /\ ~extQueued' => extWorker'.cr = extCache'
      BY <1>0, <2>3 DEF ConvergeInv, cr, s
    <3> SUFFICES ASSUME ExtLive, ~extQueued, extCache = ext, NEW p \in Applied'
                 PROVE  UpToDate(p)'
      BY <1>0, <2>3, <3>1 DEF ConvergeInv, ExtLive
    <3>2. cr = ext
      BY <1>0 DEF ConvergeInv, cr, s
    <3>3. p \in Objects
      BY DEF Applied
    <3>4. CASE p = o
      BY <1>0, <2>1, <2>2, <3>2, <3>4 DEF UpToDate, Desired
    <3>5. CASE p # o
      <4>1. p \in Applied
        BY <1>0, <1>1, <3>5, AppliedGrows DEF o, s
      <4>2. UpToDate(p)
        BY <4>1 DEF ConvergeInv
      <4> QED
        BY <1>0, <2>2, <3>3, <3>5, <4>2 DEF UpToDate
    <3> QED
      BY <3>4, <3>5
  <2> QED
    BY <2>5, <2>6, <2>7, <2>9, <2>10, <2>11
<1>2. CASE ExtRequeue /\ UNCHANGED obj
  <2> USE <1>0, <1>2 DEF ExtRequeue
  <2>1. ExtTypeOK' /\ ExtFresh'
    BY DEF ExtTypeOK, ExtFresh
  <2>2. OwnerInv' /\ ProgressInv' /\ BackendBeforeRoute' /\ ConvergeInv'
    BY DEF OwnerInv, ProgressInv, ExtWorkerCurrent, BackendBeforeRoute, ConvergeInv
  <2> QED
    BY <2>1, <2>2
<1> QED
  BY <1>1, <1>2 DEF Apply

LEMMA WatchExternalStep ==
    ASSUME ExtInv, WatchExternal
    PROVE  ExtInv'
<1> USE DEF ExtInv, WatchExternal
<1>1. ExtTypeOK' /\ ExtFresh'
  BY DEF ExtTypeOK, ExtFresh
<1>2. OwnerInv' /\ ProgressInv' /\ BackendBeforeRoute' /\ ConvergeInv'
  BY DEF OwnerInv, ProgressInv, ExtLive, ExtWorkerCurrent, BackendBeforeRoute, ConvergeInv
<1> QED
  BY <1>1, <1>2

\* A new ExternalModel has a uid that nothing bears, an edited one a version
\* that nobody has seen.
LEMMA ApplyExternalStep ==
    ASSUME ExtInv, NEW tls \in {"on", "off", "bad"}, ApplyExternal(tls)
    PROVE  ExtInv'
<1> USE DisturbanceAssumption DEF ExtInv
<1>1. /\ ext' \in CR /\ ext'.rev = used + 2 /\ ~ext.deleting /\ ~ext'.deleting
      /\ IF ext.uid = 0 THEN ext'.uid = used + 2 ELSE ext'.uid = ext.uid
      /\ UNCHANGED <<extCache, obj, objCache, extQueued, extWorker>>
      /\ used \in Nat /\ used' = used + 1 /\ used' \in 0 .. MaxDisturbances
  <2>1. /\ used \in Nat /\ used' = used + 1 /\ used' \in 0 .. MaxDisturbances
        /\ ~ext.deleting /\ ext \in CR
        /\ UNCHANGED <<extCache, obj, objCache, extQueued, extWorker>>
    BY DEF ApplyExternal, Disturb, ExtTypeOK
  <2>2. ext' = [ext EXCEPT !.uid = IF @ = 0 THEN used + 2 ELSE @, !.rev = used + 2, !.tls = tls]
    BY DEF ApplyExternal
  <2>3. ext' = [uid |-> IF ext.uid = 0 THEN used + 2 ELSE ext.uid, rev |-> used + 2,
                tls |-> tls, deleting |-> ext.deleting]
    BY <2>1, <2>2 DEF CR
  <2> QED
    BY <2>1, <2>3 DEF CR
<1>2. ExtTypeOK'
  BY <1>1 DEF ExtTypeOK
<1>3. /\ extCache.uid \in Nat /\ extCache.rev \in Nat /\ extWorker.cr.uid \in Nat
      /\ extWorker.cr.rev \in Nat /\ ext.uid \in Nat /\ \A o \in Objects : obj[o].owner \in Nat
  BY DEF ExtTypeOK, CR, Object, ExtWorker
<1>4. ExtFresh'
  BY <1>1, <1>3 DEF ExtFresh
<1>5. extCache.uid # used + 2 /\ extCache.rev # used + 2 /\ extWorker.cr.uid # used + 2
  BY <1>1, <1>3 DEF ExtFresh
<1>6. \A o \in Objects : obj[o].owner # used + 2
  BY <1>1, <1>3 DEF ExtFresh
<1>7. OwnerInv'
  BY <1>1, <1>5, <1>6 DEF OwnerInv, ExtWorkerCurrent
<1>8. ProgressInv'
  BY <1>1, <1>5 DEF ProgressInv, ExtLive, ExtWorkerCurrent
<1>9. BackendBeforeRoute'
  BY <1>1, <1>6 DEF BackendBeforeRoute, Objects
<1>10. ConvergeInv'
  BY <1>1, <1>5 DEF ConvergeInv
<1> QED
  BY <1>2, <1>4, <1>7, <1>8, <1>9, <1>10

\* A deleted ExternalModel owes nothing.
LEMMA ExtGoesStep ==
    ASSUME ExtInv, used' \in 0 .. MaxDisturbances, used' >= used, ext' \in CR, ext'.rev <= ext.rev,
           ext'.uid = 0 \/ (ext'.uid = ext.uid /\ ext'.deleting),
           UNCHANGED <<extCache, obj, objCache, extQueued, extWorker>>
    PROVE  ExtInv'
<1> USE DEF ExtInv
<1>1. ExtTypeOK'
  BY DEF ExtTypeOK
<1>2. ExtFresh'
  BY DisturbanceAssumption DEF ExtFresh, ExtTypeOK, CR, ExtWorker, Object
<1>3. OwnerInv' /\ ProgressInv' /\ BackendBeforeRoute' /\ ConvergeInv'
  BY DEF OwnerInv, ProgressInv, ExtLive, ExtWorkerCurrent, BackendBeforeRoute, ConvergeInv
<1> QED
  BY <1>1, <1>2, <1>3

\* Collecting an object takes nothing from an ExternalModel that stays.
LEMMA CollectObjectStep ==
    ASSUME ExtInv, NEW o \in Objects, CollectObject(o)
    PROVE  ExtInv'
<1> USE DisturbanceAssumption, Types DEF ExtInv
<1>1. /\ obj' \in [Objects -> Object] /\ obj'[o] = NoObject
      /\ \A p \in Objects : p # o => obj'[p] = obj[p]
      /\ ExtLive => obj[o].owner # ext.uid
      /\ obj[o].owner # 0
      /\ UNCHANGED <<ext, extCache, objCache, extQueued, extWorker, used>>
  BY DEF CollectObject, Garbage, ExtTypeOK, ExtLive
<1>2. ExtTypeOK'
  BY <1>1 DEF ExtTypeOK
<1>3. ExtFresh'
  BY <1>1 DEF ExtFresh, ExtTypeOK
<1>4. \A p \in Objects : ext.uid # 0 /\ obj'[p].owner = ext.uid => obj[p].owner = ext.uid
  BY <1>1
<1>5. \A p \in Objects : ExtLive /\ obj[p].owner = ext.uid => obj'[p].owner = ext.uid
  BY <1>1
<1>6. OwnerInv'
  BY <1>1, <1>4 DEF OwnerInv, ExtWorkerCurrent
<1>7. ProgressInv'
  BY <1>1, <1>5 DEF ProgressInv, ExtLive, ExtWorkerCurrent, Objects
<1>8. BackendBeforeRoute'
  BY <1>1, <1>4, <1>5 DEF BackendBeforeRoute, ExtLive, Objects
<1>9. ConvergeInv'
  <2> SUFFICES ASSUME ExtLive, ~extQueued, extCache = ext, NEW p \in Applied
               PROVE  UpToDate(p)'
    BY <1>1 DEF ConvergeInv, ExtLive, Applied
  <2>1. p \in Objects /\ UpToDate(p)
    BY DEF ConvergeInv, Applied
  <2> QED
    BY <1>1, <2>1 DEF UpToDate
<1> QED
  BY <1>2, <1>3, <1>6, <1>7, <1>8, <1>9

\* The gateway's word on a route is not the reconciler's business.
LEMMA SetAcceptedStep ==
    ASSUME ExtInv, NEW yes \in BOOLEAN, SetAccepted(yes),
           used' \in 0 .. MaxDisturbances, used' >= used
    PROVE  ExtInv'
<1> USE DisturbanceAssumption, Types DEF ExtInv
<1>1. /\ UNCHANGED <<ext, extCache, objCache, extQueued, extWorker>>
      /\ obj' = [obj EXCEPT !["HTTPRoute"].accepted = yes]
      /\ obj["HTTPRoute"].owner # 0 /\ "HTTPRoute" \in Objects
      /\ obj \in [Objects -> Object]
  BY DEF SetAccepted, Objects, ExtTypeOK
<1>2. /\ obj' \in [Objects -> Object]
      /\ \A o \in Objects : /\ obj'[o].owner = obj[o].owner /\ obj'[o].rev = obj[o].rev
                            /\ o # "HTTPRoute" => obj'[o] = obj[o]
  BY <1>1 DEF Object
<1>3. ExtTypeOK'
  BY <1>1, <1>2 DEF ExtTypeOK
<1>4. ExtFresh'
  BY <1>1, <1>2 DEF ExtFresh, ExtTypeOK, CR, Object, ExtWorker
<1>5. OwnerInv'
  BY <1>1, <1>2 DEF OwnerInv, ExtWorkerCurrent
<1>6. ProgressInv' /\ BackendBeforeRoute'
  BY <1>1, <1>2 DEF ProgressInv, ExtLive, ExtWorkerCurrent, BackendBeforeRoute, Objects
<1>7. ConvergeInv'
  <2> SUFFICES ASSUME ExtLive, ~extQueued, extCache = ext, NEW p \in Applied
               PROVE  UpToDate(p)'
    BY <1>1 DEF ConvergeInv, ExtLive, Applied
  <2>1. p \in Objects /\ UpToDate(p)
    BY DEF ConvergeInv, Applied
  <2> QED
    BY <1>1, <1>2, <2>1 DEF UpToDate, Desired
<1> QED
  BY <1>3, <1>4, <1>5, <1>6, <1>7

LEMMA ExtCallFailsStep ==
    ASSUME ExtInv, ExtCallFails
    PROVE  ExtInv'
<1> USE DisturbanceAssumption, Types DEF ExtInv
<1>1. /\ UNCHANGED <<ext, extCache, obj, objCache>> /\ extQueued' = TRUE /\ extWorker' = ExtIdle
      /\ used \in Nat /\ used' = used + 1 /\ used' \in 0 .. MaxDisturbances
  BY DEF ExtCallFails, Disturb, ExtTypeOK, ExtRequeue
<1>2. ExtTypeOK'
  BY <1>1 DEF ExtTypeOK
<1>3. ExtFresh'
  BY <1>1 DEF ExtFresh, ExtTypeOK, CR, Object
<1>4. OwnerInv' /\ ProgressInv' /\ BackendBeforeRoute' /\ ConvergeInv'
  BY <1>1 DEF OwnerInv, ProgressInv, ExtWorkerCurrent, BackendBeforeRoute, ConvergeInv
<1> QED
  BY <1>2, <1>3, <1>4

\* A restart asks for a reconcile of every ExternalModel.
LEMMA ExtRestartStep ==
    ASSUME ExtInv, Restart
    PROVE  ExtInv'
<1> USE DisturbanceAssumption, Types DEF ExtInv
<1>1. /\ UNCHANGED <<ext, obj>> /\ extCache' = ext /\ objCache' = [o \in Cached |-> obj[o]]
      /\ extWorker' = ExtIdle /\ extQueued' = (ext.uid # 0)
      /\ used \in Nat /\ used' = used + 1 /\ used' \in 0 .. MaxDisturbances
  BY DEF Restart, Disturb, ExtTypeOK
<1>2. ExtTypeOK'
  BY <1>1 DEF ExtTypeOK
<1>3. ExtFresh'
  BY <1>1 DEF ExtFresh, ExtTypeOK, CR, Object
<1>4. OwnerInv' /\ ProgressInv' /\ BackendBeforeRoute'
  BY <1>1 DEF OwnerInv, ProgressInv, ExtWorkerCurrent, BackendBeforeRoute
<1>5. ConvergeInv'
  <2>1. ext'.uid # 0 => extQueued'
    BY <1>1
  <2> QED
    BY <1>1, <2>1 DEF ConvergeInv, ExtLive
<1> QED
  BY <1>2, <1>3, <1>4, <1>5

LEMMA ExtNext_ExtInv ==
    ASSUME ExtInv, [Next]_vars
    PROVE  ExtInv'
<1> USE DEF ExtInv
<1>0. used' \in 0 .. MaxDisturbances /\ used' >= used
  BY UsedGrows
<1>1. CASE Reconcile \/ AddFinalizer \/ UpdateStatus \/ DeletePolicies \/ RemoveFinalizer
  <2>1. UNCHANGED extVars
    BY <1>1 DEF Reconcile, AddFinalizer, UpdateStatus, DeletePolicies, RemoveFinalizer
  <2> QED
    BY <1>0, <2>1, ExtFrameStep DEF ExtFrame, extVars, ExtTypeOK
<1>2. CASE WatchRef \/ WatchLLMISvc \/ WatchLLMRoute \/ GeneratePolicies
  <2>1. UNCHANGED extVars
    BY <1>2 DEF WatchRef, WatchLLMISvc, WatchLLMRoute, GeneratePolicies
  <2> QED
    BY <1>0, <2>1, ExtFrameStep DEF ExtFrame, extVars, ExtTypeOK
<1>3. ASSUME NEW o \in Cached, WatchObject(o)
      PROVE  ExtInv'
  <2>1. ExtFrame
    BY <1>3, Types DEF ExtFrame, WatchObject, ExtTypeOK
  <2> QED
    BY <1>0, <2>1, ExtFrameStep
<1>4. CASE WatchExternalRoute
  BY <1>3, <1>4 DEF WatchExternalRoute, Cached
<1>5. CASE WatchObject("Service")
  BY <1>3, <1>5 DEF Cached
<1>6. CASE Disturbance
  <2>1. CASE ~Restart
    <3>1. UNCHANGED extVars
      BY <1>6, <2>1 DEF Disturbance, ApplyRef, DeleteRef, ChangeBackend, OptOut, CallFails
    <3> QED
      BY <1>0, <3>1, ExtFrameStep DEF ExtFrame, extVars, ExtTypeOK
  <2> QED
    BY <2>1, ExtRestartStep
<1>7. CASE ExtWorkerStep
  BY <1>7, ReconcileExternalStep, ApplyStep DEF ExtWorkerStep
<1>8. CASE CollectExternal
  <2>1. /\ ext' \in CR /\ ext'.rev <= ext.rev /\ ext'.uid = 0
        /\ UNCHANGED <<extCache, obj, objCache, extQueued, extWorker>>
    BY <1>8, Types DEF CollectExternal, ExtTypeOK, CR
  <2> QED
    BY <1>0, <2>1, ExtGoesStep
<1>9. ASSUME NEW foreground \in BOOLEAN, DeleteExternal(foreground)
      PROVE  ExtInv'
  <2>1. /\ ext' \in CR /\ ext'.rev <= ext.rev
        /\ ext'.uid = 0 \/ (ext'.uid = ext.uid /\ ext'.deleting)
        /\ UNCHANGED <<extCache, obj, objCache, extQueued, extWorker>>
    <3>1. CASE foreground
      <4>1. ext' = [uid |-> ext.uid, rev |-> ext.rev, tls |-> ext.tls, deleting |-> TRUE]
        BY <1>9, <3>1 DEF DeleteExternal, ExtTypeOK, CR
      <4>2. UNCHANGED <<extCache, obj, objCache, extQueued, extWorker>>
        BY <1>9 DEF DeleteExternal
      <4>3. ext' \in CR /\ ext'.rev <= ext.rev
        BY <4>1 DEF ExtTypeOK, CR
      <4>4. ext'.uid = ext.uid /\ ext'.deleting
        BY <4>1
      <4> QED
        BY <4>2, <4>3, <4>4
    <3>2. CASE ~foreground
      BY <1>9, <3>2, Types DEF DeleteExternal, ExtTypeOK, CR
    <3> QED
      BY <3>1, <3>2
  <2> QED
    BY <1>0, <2>1, ExtGoesStep
<1>10. CASE AcceptRoute \/ RejectRoute
  BY <1>0, <1>10, SetAcceptedStep DEF AcceptRoute, RejectRoute
<1>11. CASE Collector
  BY <1>8, <1>11, CollectObjectStep DEF Collector
<1>12. CASE ExtDisturbance
  BY <1>9, <1>10, <1>12, ApplyExternalStep, ExtCallFailsStep DEF ExtDisturbance
<1>13. CASE UNCHANGED vars
  BY <1>0, <1>13, ExtFrameStep DEF ExtFrame, vars, extVars, ExtTypeOK
<1> QED
  BY <1>1, <1>2, <1>4, <1>5, <1>6, <1>7, <1>10, <1>11, <1>12, <1>13, WatchExternalStep
     DEF Next, WorkerStep, Watches, Alone
-----------------------------------------------------------------------------
(* The MaaSModelRef: every action keeps the rest of IInv. *)

LEMMA RefTypes ==
    /\ NoStatus \in Status
    /\ NoRef \in Ref /\ NoRef.rev = 0 /\ NoRef.exists = FALSE /\ NoRef.deleting = FALSE
    /\ NoLLM \in LLM
    /\ Idle \in Worker /\ Idle.pc = "idle" /\ Idle.obj = NoRef
<1>1. NoStatus \in Status
  BY DEF NoStatus, Status
<1>2. NoRef \in Ref /\ NoRef.rev = 0 /\ NoRef.exists = FALSE /\ NoRef.deleting = FALSE
  BY <1>1 DEF NoRef, Ref
<1>3. NoLLM \in LLM
  BY DEF NoLLM, LLM
<1>4. Idle \in Worker /\ Idle.pc = "idle" /\ Idle.obj = NoRef
  BY <1>2 DEF Idle, Worker
<1> QED
  BY <1>1, <1>2, <1>3, <1>4

\* The parts of a MaaSModelRef that a status write leaves alone.
SameRef(r, s) ==
    r.exists = s.exists /\ r.rev = s.rev /\ r.override = s.override /\ r.deleting = s.deleting
    /\ r.fin = s.fin

LEMMA SetStatus ==
    ASSUME NEW r \in Ref, NEW st \in Status
    PROVE  [r EXCEPT !.st = st] \in Ref /\ SameRef([r EXCEPT !.st = st], r)
BY DEF Ref, SameRef

\* Whatever the caches hold, Reconcile makes a status of it.
LEMMA OutcomeType ==
    ASSUME ExtTypeOK, RefTypeOK, NEW o \in Ref
    PROVE  Outcome(o).st \in Status /\ Outcome(o).err \in BOOLEAN
<1> DEFINE r == ReconcileRoute(o.st)
<1>0. o.st \in Status /\ o.rev \in Nat
  BY DEF Ref
<1>1. r.st \in Status
  <2>1. CASE kind = "LLMInferenceService"
    <3>1. llmCache.route \in {"none", "ours", "other"}
      BY DEF RefTypeOK, LLM
    <3>2. validateLLMISvcHTTPRoute(o.st).st \in Status
      BY <1>0, <3>1 DEF validateLLMISvcHTTPRoute, Status
    <3> QED
      BY <2>1, <3>2 DEF ReconcileRoute
  <2>2. CASE kind # "LLMInferenceService"
    <3>1. externalReconcileRoute(o.st).st \in Status
      BY <1>0 DEF externalReconcileRoute, Status
    <3> QED
      BY <2>2, <3>1 DEF ReconcileRoute
  <2> QED
    BY <2>1, <2>2
<1> DEFINE end(phase, endpoint, err) ==
             [st |-> [r.st EXCEPT !.phase = phase, !.endpoint = endpoint, !.gen = o.rev],
              err |-> err]
<1>2. ASSUME NEW phase \in {"", "Ready", "Pending", "Failed"},
             NEW endpoint \in {"", "url", "override"}, NEW err \in BOOLEAN
      PROVE  end(phase, endpoint, err).st \in Status /\ end(phase, endpoint, err).err \in BOOLEAN
  <2> HIDE DEF r
  <2> QED
    BY <1>0, <1>1 DEF Status
<1>3. r.st.endpoint \in {"", "url", "override"}
  BY <1>1 DEF Status
<1>4. \/ Outcome(o) = end("Pending", "", FALSE)
      \/ Outcome(o) = end("Failed", r.st.endpoint, TRUE)
      \/ Outcome(o) = end("Failed", "", TRUE)
      \/ Outcome(o) = end("Ready", "override", FALSE)
      \/ Outcome(o) = end("Ready", "url", FALSE)
  BY DEF Outcome
<1> HIDE DEF end, r
<1> QED
  BY <1>2, <1>3, <1>4

RestInv == RefTypeOK /\ RefFresh /\ RefInv

\* A step that only writes the status of the MaaSModelRef, if anything, and
\* leaves an idle worker.
LEMMA EndStep ==
    ASSUME RestInv, used \in Nat, used' \in Nat, used' >= used, worker' = Idle,
           queued' \in BOOLEAN, stale' \in BOOLEAN, ref' \in Ref, SameRef(ref', ref),
           UNCHANGED <<kind, refCache, llm, llmCache, pol>>
    PROVE  RestInv'
<1> USE RefTypes DEF RestInv
<1>1. RefTypeOK'
  BY DEF RefTypeOK
<1>2. RefFresh'
  BY DEF RefFresh, RefTypeOK, Ref, SameRef
<1>3. RefInv'
  <2>1. worker'.pc \notin Policies \cup {"drop"}
    BY DEF Policies
  <2>2. "TokenRateLimitPolicy" \in Policies
    BY DEF Policies
  <2> QED
    BY <2>1, <2>2 DEF RefInv, SameRef
<1> QED
  BY <1>1, <1>2, <1>3

\* A step that leaves the MaaSModelRef, its copies and its policies alone.
LEMMA RefFrameStep ==
    ASSUME RestInv, used \in Nat, used' \in Nat, used' >= used, llm' \in LLM, llmCache' \in LLM,
           queued' \in BOOLEAN, UNCHANGED <<kind, ref, refCache, pol, worker, stale>>
    PROVE  RestInv'
<1> USE DEF RestInv
<1>1. RefTypeOK'
  BY DEF RefTypeOK
<1>2. RefFresh'
  BY DEF RefFresh, RefTypeOK, Ref, Worker
<1>3. RefInv'
  BY DEF RefInv, Current
<1> QED
  BY <1>1, <1>2, <1>3

LEMMA ReconcileStep ==
    ASSUME RestInv, used \in Nat, Reconcile
    PROVE  RestInv'
<1> USE RefTypes DEF RestInv
<1>1. /\ queued' = FALSE /\ UNCHANGED <<used, kind, ref, refCache, llm, llmCache, pol, stale>>
      /\ refCache \in Ref
  BY DEF Reconcile, RefTypeOK
<1>2. \/ worker' = Idle
      \/ worker' = [pc |-> "AuthPolicy", obj |-> refCache] /\ refCache.exists /\ refCache.deleting
      \/ worker' = [pc |-> "finalizer", obj |-> refCache]
      \/ worker' = [pc |-> "status", obj |-> refCache]
  BY DEF Reconcile
<1>3. worker' \in Worker
  BY <1>1, <1>2 DEF Worker, Policies
<1>4. RefTypeOK'
  BY <1>1, <1>3 DEF RefTypeOK
<1>5. RefFresh'
  BY <1>1, <1>2 DEF RefFresh
<1>6. RefInv'
  BY <1>1, <1>2 DEF RefInv, Policies
<1> QED
  BY <1>4, <1>5, <1>6

LEMMA AddFinalizerStep ==
    ASSUME RestInv, used \in Nat, AddFinalizer
    PROVE  RestInv'
<1> USE RefTypes DEF RestInv
<1> DEFINE o == [worker.obj EXCEPT !.fin = TRUE]
<1>1. UNCHANGED <<used, kind, refCache, llm, llmCache, pol, stale>>
  BY DEF AddFinalizer
<1>2. CASE ~Current /\ Requeue /\ UNCHANGED ref
  BY <1>1, <1>2, EndStep DEF Requeue, RefTypeOK, SameRef
<1>3. CASE Current /\ ref' = o /\ worker' = [pc |-> "status", obj |-> o] /\ UNCHANGED queued
  <2>1. worker.obj \in Ref
    BY DEF RefTypeOK, Worker
  <2>2. o \in Ref /\ o.exists = ref.exists /\ o.rev = ref.rev /\ o.deleting = ref.deleting
    BY <1>3, <2>1 DEF Current, Ref
  <2> HIDE DEF o
  <2>3. worker' \in Worker
    BY <1>3, <2>2 DEF Worker
  <2>4. RefTypeOK'
    BY <1>1, <1>3, <2>2, <2>3 DEF RefTypeOK
  <2>5. RefFresh'
    BY <1>1, <1>3, <2>2 DEF RefFresh
  <2>6. RefInv'
    BY <1>1, <1>3, <2>2 DEF RefInv, Policies
  <2> QED
    BY <2>4, <2>5, <2>6
<1> QED
  BY <1>2, <1>3 DEF AddFinalizer

LEMMA UpdateStatusStep ==
    ASSUME ExtTypeOK, RestInv, used \in Nat, UpdateStatus
    PROVE  RestInv'
<1> USE RefTypes DEF RestInv
<1> DEFINE out == Outcome(worker.obj)
<1>1. out.st \in Status /\ out.err \in BOOLEAN
  BY OutcomeType DEF RefTypeOK, Worker
<1>2. ref \in Ref /\ [ref EXCEPT !.st = out.st] \in Ref /\ SameRef([ref EXCEPT !.st = out.st], ref)
  BY <1>1, SetStatus DEF RefTypeOK
<1> HIDE DEF out
<1>3. /\ UNCHANGED <<used, kind, refCache, llm, llmCache, pol>>
      /\ worker' = Idle /\ queued' \in BOOLEAN
      /\ stale' \in BOOLEAN
      /\ ref' = [ref EXCEPT !.st = out.st] \/ ref' = ref
  BY DEF UpdateStatus, Requeue, RefTypeOK, out
<1>4. ref' \in Ref /\ SameRef(ref', ref)
  BY <1>2, <1>3 DEF SameRef
<1> QED
  BY <1>3, <1>4, EndStep

\* A kind of policies is done with once none of it is managed.
LEMMA DeletePoliciesStep ==
    ASSUME RestInv, used \in Nat, DeletePolicies
    PROVE  RestInv'
<1> USE RefTypes DEF RestInv
<1> DEFINE k == worker.pc
<1>1. /\ UNCHANGED <<used, kind, ref, refCache, llm, llmCache, queued, stale>>
      /\ k \in Policies /\ worker \in Worker /\ pol \in [Policies -> PolicyStates]
      /\ pol' = [pol EXCEPT ![k] = IF Deletable(k) THEN "none" ELSE @]
      /\ worker' = [worker EXCEPT !.pc = IF k = "AuthPolicy" THEN "TokenRateLimitPolicy"
                                         ELSE "drop"]
  BY DEF DeletePolicies, RefTypeOK
<1>2. /\ worker' \in Worker /\ worker'.obj = worker.obj
      /\ worker'.pc = IF k = "AuthPolicy" THEN "TokenRateLimitPolicy" ELSE "drop"
  BY <1>1 DEF Worker, Policies
<1>3. /\ pol' \in [Policies -> PolicyStates]
      /\ pol'[k] # "managed"
      /\ \A q \in Policies : q # k => pol'[q] = pol[q]
  BY <1>1 DEF PolicyStates, Deletable
<1>4. RefTypeOK'
  BY <1>1, <1>2, <1>3 DEF RefTypeOK
<1>5. RefFresh'
  BY <1>1, <1>2 DEF RefFresh
<1>6. RefInv'
  <2>1. k = "AuthPolicy" \/ k = "TokenRateLimitPolicy"
    BY <1>1 DEF Policies
  <2> QED
    BY <1>1, <1>2, <1>3, <2>1 DEF RefInv, Current, Policies
<1> QED
  BY <1>4, <1>5, <1>6

LEMMA RemoveFinalizerStep ==
    ASSUME RestInv, used \in Nat, RemoveFinalizer
    PROVE  RestInv'
<1> USE RefTypes DEF RestInv
<1>1. UNCHANGED <<used, kind, refCache, llm, llmCache, pol, stale>> /\ worker' = Idle
      /\ queued' \in BOOLEAN
  BY DEF RemoveFinalizer, Requeue, RefTypeOK
<1>2. CASE UNCHANGED ref
  BY <1>1, <1>2, EndStep DEF RefTypeOK, SameRef
<1>3. CASE ref' = NoRef
  <2>1. RefTypeOK'
    BY <1>1, <1>3 DEF RefTypeOK
  <2>2. RefFresh'
    BY <1>1, <1>3 DEF RefFresh
  <2>3. RefInv'
    BY <1>1, <1>3 DEF RefInv, Policies
  <2> QED
    BY <2>1, <2>2, <2>3
<1> QED
  BY <1>2, <1>3 DEF RemoveFinalizer

LEMMA WatchRefStep ==
    ASSUME RestInv, WatchRef
    PROVE  RestInv'
<1> USE DEF RestInv
<1>1. /\ refCache' = ref /\ queued' \in BOOLEAN
      /\ UNCHANGED <<used, kind, ref, llm, llmCache, pol, worker, stale>>
  BY DEF WatchRef, RefTypeOK
<1>2. RefTypeOK' /\ RefFresh'
  BY <1>1 DEF RefTypeOK, RefFresh
<1>3. RefInv'
  BY <1>1 DEF RefInv, Current
<1> QED
  BY <1>2, <1>3

\* A created or edited MaaSModelRef has a version that no copy has.
LEMMA ApplyRefStep ==
    ASSUME RestInv, used \in Nat, ApplyRef
    PROVE  RestInv'
<1> USE DEF RestInv
<1>1. /\ used' = used + 1 /\ ref \in Ref
      /\ ref' = [ref EXCEPT !.exists = TRUE, !.rev = used + 2, !.override = ~@]
      /\ UNCHANGED <<kind, refCache, llm, llmCache, pol, queued, worker, stale>>
  BY DEF ApplyRef, Disturb, RefTypeOK
<1>2. ref' \in Ref /\ ref'.rev = used + 2 /\ ref'.exists = TRUE
  <2> DEFINE b == ~ref.override
  <2>1. b \in BOOLEAN
    OBVIOUS
  <2>2. ref' = [ref EXCEPT !.exists = TRUE, !.rev = used + 2, !.override = b]
    BY <1>1, Zenon
  <2> HIDE DEF b
  <2>3. ref' = [exists |-> TRUE, rev |-> used + 2, override |-> b, deleting |-> ref.deleting,
                fin |-> ref.fin, st |-> ref.st]
    BY <1>1, <2>2, Zenon DEF Ref
  <2>4. ref' \in Ref
    <3>1. used + 2 \in Nat /\ ref.deleting \in BOOLEAN /\ ref.fin \in BOOLEAN /\ ref.st \in Status
      BY <1>1 DEF Ref
    <3> QED
      BY <2>1, <2>3, <3>1 DEF Ref
  <2> QED
    BY <2>3, <2>4
<1>3. RefTypeOK'
  BY <1>1, <1>2 DEF RefTypeOK
<1>4. refCache.rev \in Nat /\ worker.obj.rev \in Nat
  BY DEF RefTypeOK, Ref, Worker
<1>5. RefFresh'
  BY <1>1, <1>2, <1>4 DEF RefFresh
<1>6. ref'.rev # refCache.rev /\ ref'.rev # worker.obj.rev
  BY <1>2, <1>4 DEF RefFresh
<1>7. RefInv'
  BY <1>1, <1>2, <1>6 DEF RefInv, Current
<1> QED
  BY <1>3, <1>5, <1>7

\* A deletion does not make the MaaSModelRef what a deletion in progress has
\* read: that one was deleted already.
LEMMA DeleteRefStep ==
    ASSUME RestInv, used \in Nat, DeleteRef
    PROVE  RestInv'
<1> USE RefTypes DEF RestInv
<1>1. /\ used' = used + 1 /\ ref \in Ref /\ ref.exists /\ ~ref.deleting
      /\ UNCHANGED <<kind, refCache, llm, llmCache, pol, queued, worker, stale>>
  BY DEF DeleteRef, Disturb, RefTypeOK
<1>2. /\ ref' \in Ref
      /\ ref' = NoRef \/ (ref'.deleting /\ ref'.rev = ref.rev /\ ref'.exists = ref.exists)
  <2>1. CASE ref' = [ref EXCEPT !.deleting = TRUE]
    <3>1. ref' \in Ref
      BY <1>1, <2>1 DEF Ref
    <3>2. ref'.deleting /\ ref'.rev = ref.rev /\ ref'.exists = ref.exists
      BY <1>1, <2>1 DEF Ref
    <3> QED
      BY <3>1, <3>2
  <2> QED
    BY <2>1 DEF DeleteRef
<1>3. RefTypeOK'
  BY <1>1, <1>2 DEF RefTypeOK
<1>4. RefFresh'
  <2>1. ref'.rev = 0 \/ ref'.rev = ref.rev
    BY <1>2
  <2>2. ref.rev \in Nat /\ refCache.rev \in Nat /\ worker.obj.rev \in Nat
    BY DEF RefTypeOK, Ref, Worker
  <2> QED
    BY <1>1, <2>1, <2>2 DEF RefFresh
<1>5. worker.pc \in Policies \cup {"drop"} => ~Current'
  <2> SUFFICES ASSUME worker.obj.deleting, worker.obj.exists, ref' = worker.obj
               PROVE  FALSE
    BY <1>1 DEF RefInv, Current
  <2>1. ref'.rev = ref.rev
    BY <1>2
  <2> QED
    BY <1>1, <2>1 DEF RefInv
<1>6. RefInv'
  BY <1>1, <1>2, <1>5 DEF RefInv, Policies
<1> QED
  BY <1>3, <1>4, <1>6

\* Policies generated for a deleted MaaSModelRef are late.
LEMMA GeneratePoliciesStep ==
    ASSUME RestInv, GeneratePolicies
    PROVE  RestInv'
<1> USE DEF RestInv
<1>1. /\ UNCHANGED <<used, kind, ref, refCache, llm, llmCache, queued, worker, stale>>
      /\ pol \in [Policies -> PolicyStates]
      /\ pol' = [k \in Policies |-> IF pol[k] # "none" THEN pol[k]
                                   ELSE IF ref.deleting THEN "late" ELSE "managed"]
  BY DEF GeneratePolicies, RefTypeOK
<1>2. /\ pol' \in [Policies -> PolicyStates]
      /\ \A k \in Policies : ref.deleting /\ pol[k] # "managed" => pol'[k] # "managed"
  BY <1>1 DEF PolicyStates
<1>3. RefTypeOK' /\ RefFresh'
  BY <1>1, <1>2 DEF RefTypeOK, RefFresh
<1>4. worker.pc \in Policies \cup {"drop"} /\ Current => ref.deleting
  BY DEF RefInv, Current
<1>5. RefInv'
  BY <1>1, <1>2, <1>4 DEF RefInv, Current, Policies
<1> QED
  BY <1>3, <1>5

LEMMA OptOutStep ==
    ASSUME RestInv, used \in Nat, NEW k \in Policies, OptOut(k)
    PROVE  RestInv'
<1> USE DEF RestInv
<1>1. /\ UNCHANGED <<kind, ref, refCache, llm, llmCache, queued, worker, stale>>
      /\ used' = used + 1
      /\ pol \in [Policies -> PolicyStates] /\ pol' = [pol EXCEPT ![k] = "optout"]
  BY DEF OptOut, Disturb, RefTypeOK
<1>2. /\ pol' \in [Policies -> PolicyStates]
      /\ \A q \in Policies : pol[q] # "managed" => pol'[q] # "managed"
  BY <1>1 DEF PolicyStates
<1>3. RefTypeOK' /\ RefFresh'
  BY <1>1, <1>2 DEF RefTypeOK, RefFresh, Ref, Worker
<1>4. RefInv'
  BY <1>1, <1>2 DEF RefInv, Current, Policies
<1> QED
  BY <1>3, <1>4

LEMMA CallFailsStep ==
    ASSUME ExtTypeOK, RestInv, used \in Nat, CallFails
    PROVE  RestInv'
<1> USE RefTypes DEF RestInv
<1> DEFINE out == Outcome(worker.obj)
           st == [out.st EXCEPT !.phase = "Failed", !.endpoint = ""]
<1>1. out.st \in Status
  BY OutcomeType DEF RefTypeOK, Worker
<1>2. st \in Status
  BY <1>1 DEF Status
<1> HIDE DEF st
<1>3. ref \in Ref /\ [ref EXCEPT !.st = st] \in Ref /\ SameRef([ref EXCEPT !.st = st], ref)
  BY <1>2, SetStatus DEF RefTypeOK
<1>4. /\ UNCHANGED <<kind, refCache, llm, llmCache, pol>> /\ used' = used + 1
      /\ worker' = Idle /\ queued' \in BOOLEAN /\ stale' \in BOOLEAN
      /\ ref' = [ref EXCEPT !.st = st] \/ ref' = ref
  BY DEF CallFails, Disturb, Requeue, RefTypeOK, st
<1>5. ref' \in Ref /\ SameRef(ref', ref)
  BY <1>3, <1>4 DEF SameRef
<1> QED
  BY <1>4, <1>5, EndStep

LEMMA RestartStep ==
    ASSUME RestInv, used \in Nat, Restart
    PROVE  RestInv'
<1> USE RefTypes DEF RestInv
<1>1. /\ refCache' = ref /\ llmCache' = llm /\ worker' = Idle /\ queued' \in BOOLEAN
      /\ UNCHANGED <<kind, ref, llm, pol, stale>> /\ used' = used + 1
  BY DEF Restart, Disturb, RefTypeOK, Ref
<1>2. RefTypeOK'
  BY <1>1 DEF RefTypeOK
<1>3. RefFresh'
  BY <1>1 DEF RefFresh, RefTypeOK, Ref
<1>4. RefInv'
  BY <1>1 DEF RefInv, Policies
<1> QED
  BY <1>2, <1>3, <1>4

LEMMA RefNext_RestInv ==
    ASSUME ExtInv, RestInv, [Next]_vars
    PROVE  RestInv'
<1> USE DEF RestInv
<1>0. ExtTypeOK /\ used \in Nat /\ used' \in Nat /\ used' >= used
  BY UsedGrows, DisturbanceAssumption DEF ExtInv, ExtTypeOK
<1>1. CASE WorkerStep
  BY <1>0, <1>1, ReconcileStep, AddFinalizerStep, UpdateStatusStep, DeletePoliciesStep,
     RemoveFinalizerStep DEF WorkerStep
<1>2. CASE WatchLLMISvc \/ WatchLLMRoute \/ WatchExternalRoute
  <2>1. llmCache' \in LLM /\ llm' = llm /\ queued' \in BOOLEAN
        /\ UNCHANGED <<kind, ref, refCache, pol, worker, stale>>
    BY <1>2 DEF WatchLLMISvc, WatchLLMRoute, WatchExternalRoute, RouteEvent, RefTypeOK, LLM, Ref
  <2> QED
    BY <1>0, <2>1, RefFrameStep DEF RefTypeOK
<1>3. CASE Watches
  BY <1>2, <1>3, WatchRefStep DEF Watches
<1>4. ASSUME NEW new \in LLM, ChangeBackend(new)
      PROVE  RestInv'
  <2>1. llm' \in LLM /\ UNCHANGED <<kind, ref, refCache, llmCache, pol, queued, worker, stale>>
    BY <1>4 DEF ChangeBackend
  <2> QED
    BY <1>0, <2>1, RefFrameStep DEF RefTypeOK
<1>5. CASE Disturbance
  BY <1>0, <1>4, <1>5, ApplyRefStep, DeleteRefStep, OptOutStep, CallFailsStep, RestartStep
     DEF Disturbance
<1>6. CASE GeneratePolicies
  BY <1>6, GeneratePoliciesStep
<1>7. CASE UNCHANGED refVars
  BY <1>0, <1>7, RefFrameStep DEF refVars, RefTypeOK
<1> QED
  BY <1>1, <1>3, <1>5, <1>6, <1>7 DEF Next, Alone, vars
-----------------------------------------------------------------------------
(* Theorems. *)

LEMMA Init_IInv == Init => IInv
<1> SUFFICES ASSUME Init PROVE IInv
  OBVIOUS
<1> USE RefTypes
<1>1. ExtInv /\ used = 0
  BY ExtInit_ExtInv DEF Init, ExtInit
<1>2. ref \in Ref /\ ref.rev = 1 /\ ~ref.deleting
  BY DEF Init, NoRef, Ref
<1>3. RefTypeOK
  BY <1>2 DEF Init, RefTypeOK, PolicyStates
<1>4. RefFresh
  BY <1>1, <1>2 DEF Init, RefFresh
<1>5. RefInv
  BY DEF Init, RefInv, Policies
<1> QED
  BY <1>1, <1>3, <1>4, <1>5 DEF IInv

LEMMA Next_IInv == IInv /\ [Next]_vars => IInv'
  BY ExtNext_ExtInv, RefNext_RestInv DEF IInv, RestInv

LEMMA Inductive == Spec => []IInv
  BY Init_IInv, Next_IInv, PTL DEF Spec

\* The objects, copies and requests of both reconcilers keep their types, and
\* an object without an owner has no content, for any number of disturbances.
THEOREM TypeCorrect == Spec => []TypeOK
<1>1. IInv => TypeOK
  BY DEF IInv, ExtInv, RefTypeOK, TypeOK
<1> QED
  BY <1>1, Inductive, PTL

\* Reconcile of an ExternalModel applies the Service and the ServiceEntry
\* before the HTTPRoute, from copies that may be old: whatever is deleted,
\* created again and collected meanwhile, a route of the current ExternalModel
\* has both.
THEOREM RouteHasBackend == Spec => []BackendBeforeRoute
<1>1. IInv => BackendBeforeRoute
  BY DEF IInv, ExtInv
<1> QED
  BY <1>1, Inductive, PTL

\* With no watch on the objects it keeps and no finalizer, Reconcile of an
\* ExternalModel still leaves exactly what the current version asks for when
\* no request, no reconcile and no garbage is left.
THEOREM ExternalModelConverges == Spec => []ExternalConverges
<1>1. IInv => ExternalConverges
  <2> SUFFICES ASSUME IInv, ExtQuiet, NEW o \in Objects
               PROVE  IF ext.uid # 0 /\ (o = "DestinationRule" => ext.tls = "on")
                      THEN obj[o].owner = ext.uid /\ obj[o].rev = ext.rev
                      ELSE obj[o] = NoObject
    BY DEF ExternalConverges
  <2>1. CASE ext.uid # 0
    <3>1. ExtLive /\ ~extQueued /\ extCache = ext /\ extWorker.step = 0
      BY <2>1, Types DEF ExtQuiet, ExtLive
    <3>2. UpToDate(o)
      BY <3>1 DEF IInv, ExtInv, ConvergeInv, Applied
    <3> QED
      BY <2>1, <3>2 DEF UpToDate, Desired
  <2>2. CASE ext.uid = 0
    <3>1. obj[o].owner = 0
      BY <2>2 DEF ExtQuiet, Garbage
    <3> QED
      BY <2>2, <3>1 DEF IInv, ExtInv, ExtTypeOK
  <2> QED
    BY <2>1, <2>2
<1> QED
  BY <1>1, Inductive, PTL

\* handleDeletion deletes the policies of both kinds before it removes the
\* finalizer, in calls that may fail, conflict or be cut off by a restart:
\* no MaaSModelRef goes while a policy generated before its deletion is still
\* managed.
THEOREM CleanDeletion == Spec => DeletionIsClean
<1>1. ASSUME IInv, [Next]_vars, ref.deleting, ~ref'.exists
      PROVE  \A k \in Policies : pol[k] # "managed"
  <2>0. ref.exists /\ ref \in Ref /\ worker \in Worker
    BY <1>1 DEF IInv, RefInv, RefTypeOK
  <2>1. CASE RemoveFinalizer
    <3>1. worker.pc = "drop" /\ (Current \/ UNCHANGED ref)
      BY <2>1 DEF RemoveFinalizer
    <3>2. CASE Current
      BY <1>1, <3>1, <3>2 DEF IInv, RefInv, Policies
    <3> QED
      BY <1>1, <2>0, <3>1, <3>2
  <2>2. CASE AddFinalizer
    BY <1>1, <2>0, <2>2 DEF AddFinalizer, Current, Worker, Ref
  <2>3. CASE UpdateStatus \/ CallFails
    BY <1>1, <2>0, <2>3 DEF UpdateStatus, CallFails, Ref
  <2>4. CASE ApplyRef \/ DeleteRef
    BY <1>1, <2>0, <2>4 DEF ApplyRef, DeleteRef, Ref
  <2>5. CASE Reconcile \/ DeletePolicies \/ Watches \/ GeneratePolicies
    BY <1>1, <2>0, <2>5 DEF Reconcile, DeletePolicies, Watches, WatchRef, WatchLLMISvc,
                            WatchLLMRoute, WatchExternalRoute, GeneratePolicies
  <2>6. CASE Restart \/ (\E new \in LLM : ChangeBackend(new)) \/ \E k \in Policies : OptOut(k)
    BY <1>1, <2>0, <2>6 DEF Restart, ChangeBackend, OptOut
  <2>7. CASE UNCHANGED refVars
    BY <1>1, <2>0, <2>7 DEF refVars
  <2> QED
    BY <1>1, <2>1, <2>2, <2>3, <2>4, <2>5, <2>6, <2>7
       DEF Next, WorkerStep, Disturbance, Alone, vars
<1> QED
  BY <1>1, Inductive, PTL DEF Spec, DeletionIsClean
=============================================================================
