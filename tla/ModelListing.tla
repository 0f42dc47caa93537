---------------------------- MODULE ModelListing ----------------------------
(***************************************************************************)
(* GET /v1/models of maas-api.  The handler picks the subscriptions of the *)
(* request, takes the MaaSModelRefs from the informer's cache and asks, one*)
(* subscription after the other, every model's own /v1/models through the  *)
(* gateway with the caller's credentials: what the gateway lets through is *)
(* listed.  The probes of one subscription run concurrently, at most Limit *)
(* at a time, are retried with a back-off, and end with the deadline of    *)
(* that subscription's check.  The policies at the gateway and the         *)
(* MaaSModelRefs change while the probes run.                              *)
(*                                                                         *)
(* Time is counted in units that are short against the deadline.  The      *)
(* subscription selector (see SubscriptionSelector) gives the set mine; it *)
(* and the lister are always configured (cmd/main.go).  The id, URL and    *)
(* owner of an entry are those of its model and the id of the entry.       *)
(***************************************************************************)
EXTENDS Integers, FiniteSets

CONSTANTS
    Models,         \* MaaSModelRefs; also their names
    External,       \* those of kind ExternalModel
    Subs,           \* subscriptions
    ModelRefs,      \* ModelRefs[s]: the models subscription s refers to
    Bodies,         \* bodies of a 2xx answer: [data, ids], see Body
    NoSub,          \* no subscription header
    NoId,           \* the id of an item without one
    Limit,          \* maxDiscoveryConcurrency
    Steps,          \* attempts of fetchModelsWithRetry
    Timeout,        \* accessCheckTimeout
    MaxChanges      \* bound: changes of policies and of MaaSModelRefs

\* The ids of the entries: names of models and names that backends report.
Ids == (Models \cup UNION {b.ids : b \in Bodies}) \ {NoId}

ASSUME ListingAssumption ==
    /\ Models # {} /\ External \subseteq Models
    /\ Subs # {} /\ IsFiniteSet(Subs)
    /\ ModelRefs \in [Subs -> SUBSET Models]
    /\ NoSub \notin Subs /\ NoId \notin Models
    /\ \A b \in Bodies : b.data \in {"null", "list"} /\ IsFiniteSet(b.ids)
    /\ Limit \in Nat \ {0} /\ Steps \in Nat \ {0} /\ Timeout \in Nat \ {0}
    /\ MaxChanges \in Nat

VARIABLES
    req,            \* the request: its credentials and subscription header
    mine,           \* the subscriptions the selector finds for the caller
    refs,           \* refs[m]: the MaaSModelRef in the informer's cache
    grants,         \* <<m, s>> that the gateway admits
    list,           \* the models as listed at the start of the request
    use,            \* subscriptionsToUse, those not yet checked
    cur,            \* the subscription being checked, with its deadline
    loop,           \* models the loop of FilterModelsByAccess has yet to take
    probe,          \* probe[m]: the goroutine of the model
    out,            \* entries found for the subscription being checked
    found,          \* modelsByKey: for every entry the subscriptions it has
    now,            \* the clock
    changes,        \* changes so far
    reply,          \* the reply
    answers         \* history: the probes a backend answered with 2xx or 405

vars == <<req, mine, refs, grants, list, use, cur, loop, probe, out, found,
          now, changes, reply, answers>>

\* An entry of the listing: a model and the id it is listed under.
Keys == Models \X Ids
Ref == [url : BOOLEAN, ready : BOOLEAN]
Idle == [pc |-> "none", left |-> 0]
Probe == [pc : {"none", "wait", "backoff", "done"}, left : 0 .. Steps]
NoCheck == [sub |-> NoSub, deadline |-> 0]
NoReply == [code |-> 0, subs |-> {}, at |-> 0]
NoBody == [data |-> "null", ids |-> {}]
Answer == [model : Models, sub : Subs, code : {"2xx", "405"}, body : Bodies \cup {NoBody}, at : Nat]
-----------------------------------------------------------------------------
(* Picking the subscriptions. *)

\* The code of an early reply, 200 to go on.
extractAndValidateAuth(auth, header) ==
    CASE auth = "none" -> 401
      [] auth = "key" /\ header = NoSub -> 403
      [] OTHER -> 200

returnAllModels == req.auth # "key" /\ req.header = NoSub

\* What selectSubscriptionsForListing yields: all subscriptions of the caller
\* or the one of the header; without a name the selector takes the only one.
Selected ==
    CASE returnAllModels -> mine
      [] req.header # NoSub -> mine \cap {req.header}
      [] OTHER -> IF Cardinality(mine) = 1 THEN mine ELSE {}

Reply(code, subs) ==
    reply' = [code |-> code, subs |-> subs, at |-> now]

\* The request is refused: no credentials, a key without a subscription, or
\* a subscription that the selector refuses.
Refuse ==
    /\ reply.code = 0 /\ cur = NoCheck /\ list = {}
    /\ LET code == extractAndValidateAuth(req.auth, req.header) IN
         \/ code # 200 /\ Reply(code, {})
         \/ /\ code = 200 /\ ~returnAllModels /\ Selected = {}
            /\ Reply(403, {})
    /\ UNCHANGED <<req, mine, refs, grants, list, use, cur, loop, probe, out,
                   found, now, changes, answers>>

\* The selector or the lister fails.
ListFails ==
    /\ reply.code = 0 /\ cur = NoCheck /\ list = {}
    /\ extractAndValidateAuth(req.auth, req.header) = 200
    /\ Reply(500, {})
    /\ UNCHANGED <<req, mine, refs, grants, list, use, cur, loop, probe, out,
                   found, now, changes, answers>>

\* The models of the cache, as ListFromMaaSModelRefLister converts them.
Listed == {[model |-> m, ref |-> refs[m]] : m \in Models}

\* The request goes on with the subscriptions and a snapshot of the models;
\* a caller without subscriptions gets an empty list.
ListLLMs ==
    /\ reply.code = 0 /\ cur = NoCheck /\ list = {}
    /\ extractAndValidateAuth(req.auth, req.header) = 200
    /\ returnAllModels \/ Selected # {}
    /\ use' = Selected
    /\ list' = Listed
    /\ IF Selected = {} THEN Reply(200, {}) ELSE UNCHANGED reply
    /\ UNCHANGED <<req, mine, refs, grants, cur, loop, probe, out, found, now,
                   changes, answers>>
-----------------------------------------------------------------------------
(* Checking one subscription. *)

\* filterModelsBySubscription: a subscription without refs is not filtered.
filterModelsBySubscription(s) ==
    IF ModelRefs[s] = {} THEN list ELSE {l \in list : l.model \in ModelRefs[s]}

\* Faulty: every attempt has the whole time.
DeadlinePerAttempt == now + Steps * Timeout

\* The deadline of the check of one subscription.
Deadline == now + Timeout

\* The next subscription is checked; its check has a deadline of its own.
StartCheck ==
    /\ reply.code = 0 /\ cur = NoCheck
    /\ \E s \in use :
         /\ use' = use \ {s}
         /\ cur' = [sub |-> s, deadline |-> Deadline]
         /\ loop' = filterModelsBySubscription(s)
    /\ out' = {}
    /\ probe' = [m \in Models |-> Idle]
    /\ UNCHANGED <<req, mine, refs, grants, list, found, now, changes, reply, answers>>

Running == {m \in Models : probe[m].pc \in {"wait", "backoff"}}

\* Faulty: one goroutine too many.
SlotAlmostFree == Cardinality(Running) <= Limit

\* A slot of the channel that bounds the concurrency.
SlotFree == Cardinality(Running) < Limit

\* A model is taken off the loop: an external one is listed without a probe
\* when it is ready, one without a URL is left out.
TakeUnprobed(l) ==
    /\ l \in loop
    /\ l.model \in External \/ ~l.ref.url
    /\ loop' = loop \ {l}
    /\ out' = IF l.model \in External /\ l.ref.ready
              THEN out \cup {<<l.model, l.model>>} ELSE out
    /\ UNCHANGED <<req, mine, refs, grants, list, use, cur, probe, found, now,
                   changes, reply, answers>>

\* A model gets a goroutine once fewer than Limit run; the goroutine sends
\* its first probe, or ends at once when the deadline has passed.
Launch(l) ==
    /\ l \in loop
    /\ l.model \notin External /\ l.ref.url
    /\ SlotFree
    /\ loop' = loop \ {l}
    /\ \/ now < cur.deadline /\ probe' = [probe EXCEPT ![l.model] = [pc |-> "wait", left |-> Steps]]
       \/ now = cur.deadline /\ probe' = [probe EXCEPT ![l.model].pc = "done"]
    /\ UNCHANGED <<req, mine, refs, grants, list, use, cur, out, found, now,
                   changes, reply, answers>>

\* discoveredToModels: the ids of the items that have one, else the model's.
discoveredToModels(m, ids) == IF ids \subseteq {NoId} THEN {m} ELSE ids \ {NoId}

\* Faulty: whatever is no refusal grants.
FailOpen(m, code, body) == IF code = "denied" THEN {} ELSE discoveredToModels(m, body.ids)

\* fetchModels: the ids that the caller gets from one answer.  A body without
\* data yields a nil slice, which fetchModelsWithRetry's caller takes for a
\* refusal.
fetchModels(m, code, body) ==
    CASE code = "405" -> {m}
      [] code = "2xx" /\ body.data = "list" -> discoveredToModels(m, body.ids)
      [] OTHER -> {}

\* The answers the gateway and the backend give: a refusal for <<m, s>> not
\* granted, else what the backend has; errors and 404 come in both cases.
Codes(m) == {"denied", "error"} \cup
            IF <<m, cur.sub>> \in grants THEN {"2xx", "405"} ELSE {}

\* An answer arrives: 2xx and 405 grant, 401, 403 and 404 refuse, any other
\* one and a body that cannot be parsed is retried while attempts are left.
ProbeAnswered(m, code, body) ==
    /\ probe[m].pc = "wait"
    /\ code \in Codes(m)
    /\ body \in IF code = "2xx" THEN Bodies ELSE {NoBody}
    /\ probe' = [probe EXCEPT ![m] =
                   IF code = "error" /\ @.left > 1
                   THEN [pc |-> "backoff", left |-> @.left - 1]
                   ELSE [@ EXCEPT !.pc = "done"]]
    /\ out' = out \cup ({m} \X fetchModels(m, code, body))
    /\ answers' = IF code \notin {"2xx", "405"} THEN answers
                  ELSE answers \cup {[model |-> m, sub |-> cur.sub, code |-> code,
                                       body |-> body, at |-> now]}
    /\ UNCHANGED <<req, mine, refs, grants, list, use, cur, loop, found, now,
                   changes, reply>>

\* After the back-off the probe is sent again.
Retry(m) ==
    /\ probe[m].pc = "backoff"
    /\ now < cur.deadline
    /\ probe' = [probe EXCEPT ![m].pc = "wait"]
    /\ UNCHANGED <<req, mine, refs, grants, list, use, cur, loop, out, found,
                   now, changes, reply, answers>>

\* Faulty: the HTTP client knows no deadline.
WaitForever(m) == probe[m].pc = "backoff" /\ now = cur.deadline

\* The context of the goroutine is done.
Expired(m) == probe[m].pc \in {"wait", "backoff"} /\ now = cur.deadline

\* The deadline ends a pending call or back-off: nothing is listed.
DeadlineExceeded(m) ==
    /\ Expired(m)
    /\ probe' = [probe EXCEPT ![m].pc = "done"]
    /\ UNCHANGED <<req, mine, refs, grants, list, use, cur, loop, out, found,
                   now, changes, reply, answers>>

\* addSubscriptionIfNew
addSubscriptionIfNew(subs, s) == subs \cup {s}

\* All goroutines have ended: the entries are merged into modelsByKey.
aggregateModelsFromSubscriptions ==
    /\ cur # NoCheck /\ loop = {} /\ Running = {}
    /\ found' = [k \in Keys |-> IF k \in out THEN addSubscriptionIfNew(found[k], cur.sub)
                                ELSE found[k]]
    /\ cur' = NoCheck
    /\ UNCHANGED <<req, mine, refs, grants, list, use, loop, probe, out, now,
                   changes, reply, answers>>

\* All subscriptions are checked: the reply, with the time of the check.
SendReply ==
    /\ reply.code = 0 /\ cur = NoCheck /\ list # {} /\ use = {}
    /\ Reply(200, UNION {found[k] : k \in Keys})
    /\ UNCHANGED <<req, mine, refs, grants, list, use, cur, loop, probe, out,
                   found, now, changes, answers>>
-----------------------------------------------------------------------------
(* The environment. *)

\* Time passes; whatever the deadline ends has ended when it goes on.
Tick ==
    /\ cur # NoCheck
    /\ now < cur.deadline
    /\ now' = now + 1
    /\ UNCHANGED <<req, mine, refs, grants, list, use, cur, loop, probe, out,
                   found, changes, reply, answers>>

\* A policy change reaches the gateway.
ChangePolicy(m, s) ==
    /\ reply.code = 0 /\ changes < MaxChanges
    /\ changes' = changes + 1
    /\ grants' = IF <<m, s>> \in grants THEN grants \ {<<m, s>>} ELSE grants \cup {<<m, s>>}
    /\ UNCHANGED <<req, mine, refs, list, use, cur, loop, probe, out, found,
                   now, reply, answers>>

\* The status of a MaaSModelRef changes in the cache.
ChangeRef(m, r) ==
    /\ reply.code = 0 /\ changes < MaxChanges /\ r # refs[m]
    /\ changes' = changes + 1
    /\ refs' = [refs EXCEPT ![m] = r]
    /\ UNCHANGED <<req, mine, grants, list, use, cur, loop, probe, out, found,
                   now, reply, answers>>
-----------------------------------------------------------------------------
Init ==
    /\ req \in [auth : {"none", "key", "token"}, header : Subs \cup {NoSub}]
    /\ mine \in SUBSET Subs
    /\ refs = [m \in Models |-> [url |-> TRUE, ready |-> TRUE]]
    /\ grants = Models \X mine
    /\ list = {} /\ use = {} /\ cur = NoCheck /\ loop = {} /\ out = {}
    /\ probe = [m \in Models |-> Idle]
    /\ found = [k \in Keys |-> {}]
    /\ now = 0 /\ changes = 0
    /\ reply = NoReply
    /\ answers = {}

Handler == Refuse \/ ListFails \/ ListLLMs \/ StartCheck
           \/ aggregateModelsFromSubscriptions \/ SendReply
Loop == \E l \in loop : TakeUnprobed(l) \/ Launch(l)
Goroutine(m) == Retry(m) \/ DeadlineExceeded(m)

Next ==
    \/ Handler \/ Loop \/ Tick
    \/ \E m \in Models : Goroutine(m)
    \/ \E m \in Models, code \in {"2xx", "405", "denied", "error"}, body \in Bodies \cup {NoBody} :
         ProbeAnswered(m, code, body)
    \/ \E m \in Models, s \in Subs : ChangePolicy(m, s)
    \/ \E m \in Models, r \in Ref : ChangeRef(m, r)

Spec == Init /\ [][Next]_vars

\* The handler and its goroutines run, and time passes; no fairness of the
\* backends, which may never answer.
FairSpec ==
    /\ Spec
    /\ WF_vars(Handler) /\ WF_vars(Loop) /\ WF_vars(Tick)
    /\ \A m \in Models : WF_vars(Goroutine(m))
-----------------------------------------------------------------------------
(* Properties. *)

\* The variables keep their types, and no more than Limit probes run.
TypeOK ==
    /\ req \in [auth : {"none", "key", "token"}, header : Subs \cup {NoSub}]
    /\ mine \in SUBSET Subs
    /\ refs \in [Models -> Ref]
    /\ grants \in SUBSET (Models \X Subs)
    /\ list \in SUBSET [model : Models, ref : Ref]
    /\ loop \in SUBSET list
    /\ use \in SUBSET Subs
    /\ cur \in [sub : Subs \cup {NoSub}, deadline : Nat]
    /\ probe \in [Models -> Probe]
    /\ Cardinality(Running) <= Limit
    /\ out \in SUBSET Keys
    /\ found \in [Keys -> SUBSET Subs]
    /\ now \in Nat
    /\ changes \in 0 .. MaxChanges
    /\ reply \in [code : {0, 200, 401, 403, 500}, subs : SUBSET Subs, at : Nat]
    /\ answers \in SUBSET Answer

\* The answer a lists entry k: a 405 lists the model, a list of models those
\* that it names, or the model when it names none.  A 2xx answer without data
\* lists nothing, although "2xx or 405 -> include" (FilterModelsByAccess).
Lists(a, k) ==
    /\ a.model = k[1]
    /\ \/ a.code = "405" /\ k[2] = k[1]
       \/ a.code = "2xx" /\ a.body.data = "list" /\ k[2] \in a.body.ids
       \/ /\ a.code = "2xx" /\ a.body.data = "list" /\ k[2] = k[1]
          /\ \A id \in a.body.ids : id = NoId

\* The subscriptions that vouch for an entry: an external model is listed on
\* the strength of its status, any other because its backend answered a probe
\* made with that subscription and listed it.
Vouched(k) ==
    {s \in Subs :
       \/ \E a \in answers : a.sub = s /\ Lists(a, k)
       \/ /\ k[1] \in External /\ k[2] = k[1]
          /\ s \in Selected
          /\ \E l \in list : l.model = k[1] /\ l.ref.ready
          /\ ModelRefs[s] = {} \/ k[1] \in ModelRefs[s]}

\* FilterModelsByAccess fails closed and aggregateModelsFromSubscriptions
\* loses nothing: whatever timeouts, retries and orders of the probes, a
\* reply lists an entry with exactly the subscriptions that vouch for it.  A
\* backend that grants access with "data": null is left out of the listing.
ListingExact == reply.code = 200 => \A k \in Keys : found[k] = Vouched(k)

\* The deadlines bound how old a grant is when the reply says it was checked.
\* The bound is one accessCheckTimeout for every subscription of the request,
\* not the one in total of which Config.AccessCheckTimeoutSeconds speaks:
\* aggregateModelsFromSubscriptions starts a new deadline for each.
GrantsAreFresh ==
    reply.code = 200 =>
        \A a \in answers : reply.at - a.at <= Timeout * Cardinality(Selected)

\* Every request is answered, even when no backend ever answers a probe.
EveryRequestAnswered == <>(reply.code # 0)
=============================================================================
