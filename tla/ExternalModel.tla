--------------------------- MODULE ExternalModel ----------------------------
(***************************************************************************)
(* The ExternalModel reconciler of maas-controller.  For an ExternalModel  *)
(* it keeps four objects: a Service, an Istio ServiceEntry, a              *)
(* DestinationRule when TLS is on, and the HTTPRoute.  Service and         *)
(* HTTPRoute are read from the informers' caches, the two unstructured     *)
(* objects from the API server.  Nothing of it cleans up: the objects are  *)
(* owned by the ExternalModel, and Kubernetes collects them.               *)
(*                                                                         *)
(* ExternalModels do not interact, so there is one of them.  What its spec *)
(* and annotations say, the endpoint and the port included, is one version *)
(* number; the TLS annotation may be invalid (so may the port).  The API   *)
(* server fills in fields of the Service that buildService leaves out, so  *)
(* applyService always finds a difference and writes.                      *)
(***************************************************************************)
EXTENDS Integers, Sequences

CONSTANTS
    Kinds,              \* the disturbances that happen, see Disturb
    MaxDisturbances     \* bound: how many of them

ASSUME DisturbanceAssumption == MaxDisturbances \in Nat

VARIABLES
    ext,            \* the ExternalModel at the API server
    extCache,       \* the informer's copy of it
    obj,            \* obj[o]: the object o that is kept for it
    objCache,       \* objCache[o]: the informer's copy of it
    extQueued,      \* a reconcile is requested
    extWorker,      \* the reconcile in progress
    used            \* disturbances so far; also the source of fresh numbers

extVars == <<ext, extCache, obj, objCache, extQueued, extWorker>>
-----------------------------------------------------------------------------
Objects == {"Service", "ServiceEntry", "DestinationRule", "HTTPRoute"}
Cached == {"Service", "HTTPRoute"}

\* uid 0 stands for no ExternalModel.
CR == [uid : Nat, rev : Nat, tls : {"on", "off", "bad"}, deleting : BOOLEAN]
NoCR == [uid |-> 0, rev |-> 0, tls |-> "on", deleting |-> FALSE]

\* owner is the uid of the ExternalModel, 0 when there is no object; rev the
\* version it was built from.  accepted is the gateway's word on a route.
Object == [owner : Nat, rev : Nat, accepted : BOOLEAN]
NoObject == [owner |-> 0, rev |-> 0, accepted |-> FALSE]

\* step counts through Order; 0 stands for idle.
ExtWorker == [step : 0 .. 4, cr : CR]
ExtIdle == [step |-> 0, cr |-> NoCR]

\* Faulty: the route is there before what it routes to.
RouteFirst == <<"HTTPRoute", "Service", "ServiceEntry", "DestinationRule">>

\* The order in which Reconcile applies the objects.
Order == <<"Service", "ServiceEntry", "DestinationRule", "HTTPRoute">>
-----------------------------------------------------------------------------
(* The worker. *)

\* Reconcile up to the first object.  An ExternalModel that is gone or being
\* deleted is left to the garbage collector; for annotations that getTLSInfo
\* refuses the error puts the request back.
ReconcileExternal ==
    /\ extWorker.step = 0
    /\ extQueued
    /\ LET ignored == extCache.uid = 0 \/ extCache.deleting
           invalid == ~ignored /\ extCache.tls = "bad" IN
       /\ extQueued' = invalid
       /\ extWorker' = IF ignored \/ invalid THEN ExtIdle
                       ELSE [step |-> 1, cr |-> extCache]
    /\ UNCHANGED <<ext, extCache, obj, objCache, used>>

ExtRequeue == extQueued' = TRUE /\ extWorker' = ExtIdle

ExtProceed ==
    /\ extWorker' = IF extWorker.step = Len(Order) THEN ExtIdle
                    ELSE [extWorker EXCEPT !.step = @ + 1]
    /\ UNCHANGED extQueued

Seen(o) == IF o \in Cached THEN objCache[o] ELSE obj[o]

\* Faulty: the owner reference is forgotten.
PutUnowned(o, cr) == [owner |-> 0, rev |-> cr.rev, accepted |-> Seen(o).accepted]

\* The object as built from the ExternalModel, with its owner; an update keeps
\* the status.
Put(o, cr) == [owner |-> cr.uid, rev |-> cr.rev, accepted |-> Seen(o).accepted]

\* Faulty: a DestinationRule is never taken away.
DesiredAlways(o, cr) == TRUE

\* A DestinationRule is wanted with TLS only; a stale one is deleted.
Desired(o, cr) == o = "DestinationRule" => cr.tls = "on"

\* applyService, applyUnstructured, deleteIfExists or applyHTTPRoute.  The
\* API server refuses to create what is there, and to update what is gone or
\* not the version that was read.
Apply ==
    LET o == Order[extWorker.step] IN
    /\ extWorker.step > 0
    /\ \/ /\ Seen(o) = obj[o]
          /\ obj' = [obj EXCEPT ![o] = IF Desired(o, extWorker.cr) THEN Put(o, extWorker.cr)
                                       ELSE NoObject]
          /\ ExtProceed
       \/ /\ Seen(o) # obj[o]
          /\ ExtRequeue
          /\ UNCHANGED obj
    /\ UNCHANGED <<ext, extCache, objCache, used>>

\* For() without predicates: every change of the ExternalModel.
WatchExternal ==
    /\ extCache # ext
    /\ extCache' = ext
    /\ extQueued' = TRUE
    /\ UNCHANGED <<ext, obj, objCache, extWorker, used>>

\* The reconciler does not watch what it keeps; only the cache changes.
WatchObject(o) ==
    /\ objCache[o] # obj[o]
    /\ objCache' = [objCache EXCEPT ![o] = obj[o]]
    /\ UNCHANGED <<ext, extCache, obj, extQueued, extWorker, used>>
-----------------------------------------------------------------------------
(* The environment. *)

\* One of the things that happen MaxDisturbances times at most.
Disturb(kind) ==
    /\ kind \in Kinds
    /\ used < MaxDisturbances
    /\ used' = used + 1

\* kubectl apply: create, or edit the TLS annotation and whatever else.  The
\* version at the start is 1.
ApplyExternal(tls) ==
    /\ Disturb("external")
    /\ ~ext.deleting
    /\ IF ext.uid = 0 THEN tls = "on" ELSE tls # ext.tls
    /\ ext' = [ext EXCEPT !.uid = IF @ = 0 THEN used + 2 ELSE @, !.rev = used + 2, !.tls = tls]
    /\ UNCHANGED <<extCache, obj, objCache, extQueued, extWorker>>

\* kubectl delete, in the background or in the foreground: then the objects
\* go first.
DeleteExternal(foreground) ==
    /\ Disturb("external")
    /\ ext.uid # 0 /\ ~ext.deleting
    /\ ext' = IF foreground THEN [ext EXCEPT !.deleting = TRUE] ELSE NoCR
    /\ UNCHANGED <<extCache, obj, objCache, extQueued, extWorker>>

Garbage(o) == obj[o].owner # 0 /\ (obj[o].owner # ext.uid \/ ext.deleting)

CollectObject(o) ==
    /\ Garbage(o)
    /\ obj' = [obj EXCEPT ![o] = NoObject]
    /\ UNCHANGED <<ext, extCache, objCache, extQueued, extWorker, used>>

CollectExternal ==
    /\ ext.deleting /\ \A o \in Objects : obj[o].owner # ext.uid
    /\ ext' = NoCR
    /\ UNCHANGED <<extCache, obj, objCache, extQueued, extWorker, used>>

\* The gateway accepts the route, or no longer does.
SetAccepted(yes) ==
    /\ obj["HTTPRoute"].owner # 0 /\ obj["HTTPRoute"].accepted # yes
    /\ obj' = [obj EXCEPT !["HTTPRoute"].accepted = yes]
    /\ UNCHANGED <<ext, extCache, objCache, extQueued, extWorker>>
AcceptRoute == SetAccepted(TRUE) /\ UNCHANGED used
RejectRoute == SetAccepted(FALSE) /\ Disturb("gateway")

\* A call of the worker fails.
ExtCallFails ==
    /\ Disturb("failure")
    /\ extWorker.step > 0
    /\ ExtRequeue
    /\ UNCHANGED <<ext, extCache, obj, objCache>>
-----------------------------------------------------------------------------
\* There is no ExternalModel, or one that has been reconciled.
ExtInit ==
    /\ \/ ext = NoCR /\ obj = [o \in Objects |-> NoObject]
       \/ /\ ext = [NoCR EXCEPT !.uid = 1, !.rev = 1]
          /\ obj = [o \in Objects |-> [owner |-> 1, rev |-> 1, accepted |-> o = "HTTPRoute"]]
    /\ extCache = ext
    /\ objCache = [o \in Cached |-> obj[o]]
    /\ extQueued = FALSE
    /\ extWorker = ExtIdle
    /\ used = 0

ExtWorkerStep == ReconcileExternal \/ Apply
Collector == CollectExternal \/ \E o \in Objects : CollectObject(o)

ExtDisturbance ==
    \/ \E tls \in {"on", "off", "bad"} : ApplyExternal(tls)
    \/ \E foreground \in BOOLEAN : DeleteExternal(foreground)
    \/ RejectRoute
    \/ ExtCallFails
-----------------------------------------------------------------------------
(* Properties. *)

ExtTypeOK ==
    /\ ext \in CR /\ extCache \in CR
    /\ obj \in [Objects -> Object] /\ objCache \in [Cached -> Object]
    /\ \A o \in Objects : obj[o].owner = 0 => obj[o] = NoObject
    /\ extQueued \in BOOLEAN
    /\ extWorker \in ExtWorker
    /\ used \in 0 .. MaxDisturbances

ExtQuiet ==
    /\ extWorker = ExtIdle /\ ~extQueued
    /\ extCache = ext /\ ~ext.deleting
    /\ \A o \in Objects : ~Garbage(o)

\* The reconciler converges although it has no finalizer and watches none of
\* its objects: when all is quiet there is what the current ExternalModel asks
\* for, through edits, TLS switched off and on, lagging caches, failures,
\* restarts, and a deletion followed by a new ExternalModel of the same name
\* whose predecessor's objects are still being collected.
ExternalConverges ==
    ExtQuiet => \A o \in Objects :
        IF ext.uid # 0 /\ (o = "DestinationRule" => ext.tls = "on")
        THEN obj[o].owner = ext.uid /\ obj[o].rev = ext.rev
        ELSE obj[o] = NoObject

\* The steps of Reconcile are ordered so that a route of the current
\* ExternalModel never points at a Service that is missing, or that belongs to
\* its predecessor and is about to be collected.
BackendBeforeRoute ==
    ext.uid # 0 /\ ~ext.deleting /\ obj["HTTPRoute"].owner = ext.uid
    => \A o \in {"Service", "ServiceEntry"} : obj[o].owner = ext.uid
=============================================================================
