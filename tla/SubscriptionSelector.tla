------------------------ MODULE SubscriptionSelector ------------------------
(***************************************************************************)
(* Subscription selection in maas-api (internal/subscription).  The        *)
(* selector keeps no state of its own: every answer is computed from the   *)
(* informer's copy of the MaaSSubscriptions of one namespace, which the    *)
(* events of the API server change between two calls.                      *)
(*                                                                         *)
(* A model is a [ns, name] record, a model ref a [model, limits] record    *)
(* with the token limits of the ref.  Display texts, labels and billing    *)
(* data are left out, and so is the namespace of the subscriptions: there  *)
(* is one, so "namespace/name" and the bare name select the same object.   *)
(***************************************************************************)
EXTENDS Integers, FiniteSets, Sequences, FiniteSetsExt

CONSTANTS
    Names,          \* names of MaaSSubscriptions: numbers, in name order
    Users, Groups,  \* who may own or use a subscription
    Models,         \* the models there are
    RefLists,       \* values of spec.modelRefs that are applied
    Priorities      \* values of spec.priority that are applied

\* NoModel is the empty requestedModel, which no object can have as a name.
NoModel == [ns |-> "", name |-> ""]

ASSUME SelectorAssumption ==
    /\ Names \subseteq Nat
    /\ NoModel \notin Models /\ \A m \in Models : DOMAIN m = {"ns", "name"}
    /\ RefLists \subseteq Seq([model: Models, limits: SUBSET Nat])
    /\ \A refs \in RefLists : \A i, j \in DOMAIN refs :
         IsFiniteSet(refs[i].limits) /\ (refs[i].model = refs[j].model => i = j)
    /\ Priorities \subseteq Nat

VARIABLE subs       \* subs[n], n in DOMAIN subs: the cached MaaSSubscription n

vars == subs

Phases == {"", "Pending", "Active", "Degraded", "Failed"}

\* A caller: the username and the groups of its token or key.
Callers == [username: Users, groups: SUBSET Groups]
-----------------------------------------------------------------------------
(* selector.go *)

\* A caller is a username and the set of groups of its token or key.
userHasAccess(s, q) == q.username \in s.users \/ s.groups \cap q.groups # {}

\* The largest limit of any model ref (parseSubscription).
MaxLimit(s) == Max({0} \cup UNION {s.refs[i].limits : i \in DOMAIN s.refs})

subscriptionIncludesModel(s, m) == \E i \in DOMAIN s.refs : s.refs[i].model = m

\* Faulty: a missing rate-limit status passes.
InferenceHealthyIfMissing(s, m) ==
    LET hits == {i \in DOMAIN s.statuses : s.statuses[i].model.name = m.name}
    IN  \/ s.phase = "Active"
        \/ s.phase = "Degraded" /\ (hits = {} \/ s.statuses[Min(hits)].ready)

\* Inference on model m; every refusal is a ModelUnhealthyError.  The status
\* list is searched by model name, the first hit decides.
InferenceHealthy(s, m) ==
    LET limited == \E i \in DOMAIN s.refs : s.refs[i].model = m /\ s.refs[i].limits # {}
        hits == {i \in DOMAIN s.statuses : s.statuses[i].model.name = m.name}
    IN  \/ s.phase = "Active"
        \/ /\ s.phase = "Degraded"
           /\ \/ ~limited
              \/ hits # {} /\ s.statuses[Min(hits)].ready

\* Key creation asks without a model: "" and Failed are refused, nothing else.
MintHealthy(s) == s.phase \notin {"", "Failed"}

\* Without a model the check is that of key creation.
checkModelHealth(s, m) == IF m = NoModel THEN MintHealthy(s) ELSE InferenceHealthy(s, m)

\* sortSubscriptionsByPriority: priority desc, maxLimit desc, name asc.
SortsBefore(a, b) ==
    \/ subs[a].priority > subs[b].priority
    \/ /\ subs[a].priority = subs[b].priority
       /\ \/ MaxLimit(subs[a]) > MaxLimit(subs[b])
          \/ MaxLimit(subs[a]) = MaxLimit(subs[b]) /\ a < b

Accessible(q) == {n \in DOMAIN subs : userHasAccess(subs[n], q)}

Ok(n) == [name |-> n, error |-> ""]
Refuse(e) == [name |-> -1, error |-> e]

\* What follows once subscription n is the one meant.
Vet(n, q, m) ==
    IF ~userHasAccess(subs[n], q) THEN Refuse("access_denied")
    ELSE IF m # NoModel /\ ~subscriptionIncludesModel(subs[n], m)
         THEN Refuse("model_not_in_subscription")
    ELSE IF ~checkModelHealth(subs[n], m) THEN Refuse("model_unhealthy")
    ELSE Ok(n)

\* Select with a requested subscription.
SelectNamed(n, q, m) == IF n \in DOMAIN subs THEN Vet(n, q, m) ELSE Refuse("not_found")

\* Select without one: only a user with a single candidate is served.
SelectAuto(q, m) ==
    LET c == {n \in Accessible(q) : m = NoModel \/ subscriptionIncludesModel(subs[n], m)}
    IN  CASE c = {} -> Refuse("not_found")
          [] Cardinality(c) = 1 -> Vet(CHOOSE n \in c : TRUE, q, m)
          [] OTHER -> Refuse("multiple_subscriptions")

\* Faulty: the list is not filtered by access.
SelectHighestOfAll(q) ==
    IF Accessible(q) = {} THEN Refuse("not_found")
    ELSE Ok(CHOOSE n \in DOMAIN subs : \A o \in DOMAIN subs \ {n} : SortsBefore(n, o))

SelectHighestPriority(q) ==
    IF Accessible(q) = {} THEN Refuse("not_found")
    ELSE Ok(CHOOSE n \in Accessible(q) : \A o \in Accessible(q) \ {n} : SortsBefore(n, o))

\* The gateway's subscription-valid rule on a selector's answer.
SubscriptionValid(r) ==
    /\ r.error = ""
    /\ subs[r.name].phase \in {"Active", "Degraded"}
    /\ ~subs[r.name].deleting

Inferable(n, q, m) == SubscriptionValid(SelectNamed(n, q, m))

\* Faulty: degraded subscriptions are hidden.
GetAllActive(q) == {n \in Accessible(q) : subs[n].phase = "Active" /\ ~subs[n].deleting}

GetAllAccessible(q) ==
    {n \in Accessible(q) : subs[n].phase \in {"Active", "Degraded"} /\ ~subs[n].deleting}

\* GET /v1/model/:model-id/subscriptions matches the bare model name.
ListAccessibleForModel(q, name) ==
    {n \in Accessible(q) : \E i \in DOMAIN subs[n].refs : subs[n].refs[i].model.name = name}

\* Service.CreateAPIKey's choice; -1 stands for no requested subscription.
MintSubscription(q, n) ==
    IF n = -1 THEN SelectHighestPriority(q) ELSE SelectNamed(n, q, NoModel)
-----------------------------------------------------------------------------
(* What changes the cache. *)

\* An admin creates or edits a subscription; an edit keeps the status.
Apply(n, users, groups, priority, refs) ==
    LET old == IF n \in DOMAIN subs THEN subs[n]
               ELSE [phase |-> "", statuses |-> <<>>, deleting |-> FALSE]
        new == [users |-> users, groups |-> groups, priority |-> priority, refs |-> refs,
                phase |-> old.phase, statuses |-> old.statuses, deleting |-> old.deleting]
    IN  /\ users \cup groups # {}
        /\ subs' = [k \in DOMAIN subs \cup {n} |-> IF k = n THEN new ELSE subs[k]]

\* The controller writes the status: a phase, and one rate-limit status per
\* model ref, in their order.  Active needs all of them ready.
WriteStatus(n, phase, ready) ==
    /\ n \in DOMAIN subs
    /\ ready \subseteq DOMAIN subs[n].refs
    /\ phase = "Active" => ready = DOMAIN subs[n].refs
    /\ subs' = [subs EXCEPT
         ![n].phase = phase,
         ![n].statuses = [i \in DOMAIN subs[n].refs |->
                            [model |-> subs[n].refs[i].model, ready |-> i \in ready]]]

\* Faulty: a phase the selector does not know.
WriteError(n) ==
    /\ n \in DOMAIN subs
    /\ subs' = [subs EXCEPT ![n].phase = "Error"]

\* A reconcile that fails writes Failed and leaves the rate-limit statuses.
WriteFailed(n) ==
    /\ n \in DOMAIN subs
    /\ subs' = [subs EXCEPT ![n].phase = "Failed"]

\* kubectl delete sets the deletion timestamp; the object goes when the
\* controller drops its finalizer.
Delete(n) ==
    /\ n \in DOMAIN subs
    /\ IF subs[n].deleting
       THEN subs' = [k \in DOMAIN subs \ {n} |-> subs[k]]
       ELSE subs' = [subs EXCEPT ![n].deleting = TRUE]

Init == subs = [n \in {} |-> 0]

Next ==
    \E n \in Names :
        \/ \E users \in SUBSET Users, groups \in SUBSET Groups,
              priority \in Priorities, refs \in RefLists : Apply(n, users, groups, priority, refs)
        \/ \E phase \in {"Active", "Degraded", "Failed"}, ready \in SUBSET (1 .. Cardinality(Models)) :
              WriteStatus(n, phase, ready)
        \/ WriteFailed(n)
        \/ Delete(n)

Spec == Init /\ [][Next]_vars
-----------------------------------------------------------------------------
(* Properties. *)

\* The variables keep their types.
TypeOK ==
    /\ DOMAIN subs \subseteq Names
    /\ \A n \in DOMAIN subs :
         subs[n] \in [users: SUBSET Users, groups: SUBSET Groups, priority: Priorities,
                      refs: RefLists, phase: Phases, deleting: BOOLEAN,
                      statuses: Seq([model: Models, ready: BOOLEAN])]

\* SelectHighestPriority does not depend on the order of the lister (a walk
\* over a hash map): one accessible subscription sorts before all others.
SelectionDeterministic ==
    \A q \in Callers : Accessible(q) # {} =>
        Cardinality({n \in Accessible(q) :
                       \A o \in Accessible(q) \ {n} : SortsBefore(n, o)}) = 1

\* The gateway lets a user infer on m through n only while GET
\* /v1/subscriptions and GET /v1/model/:id/subscriptions show n to that user.
InferableIsListed ==
    \A q \in Callers, n \in Names, m \in Models :
        Inferable(n, q, m) =>
            n \in GetAllAccessible(q) /\ n \in ListAccessibleForModel(q, m.name)

\* A degraded subscription serves a model with limits only while that model's
\* own rate-limit policy is ready, also after an edit under an old status.  The
\* statuses are searched by name, so this needs a name no other model has.
DegradedNeedsOwnRateLimit ==
    \A q \in Callers, n \in DOMAIN subs, m \in Models :
        LET s == subs[n] IN
        /\ \A o \in Models \ {m} : o.name # m.name
        /\ Inferable(n, q, m)
        /\ s.phase = "Degraded"
        /\ \E i \in DOMAIN s.refs : s.refs[i].model = m /\ s.refs[i].limits # {}
        => \E i \in DOMAIN s.statuses : s.statuses[i] = [model |-> m, ready |-> TRUE]

\* Where naming no subscription agrees with naming one, and where it does not.
\* What auto-selection answers, naming the subscription answers too, and the
\* choice was the only one.  A key that is created without a name is bound to
\* the first, in the order of priority, of all subscriptions of the user,
\* whatever its phase.  Naming that same one is refused exactly when it is
\* Failed or unreconciled, so leaving the name out gets round the rule "block
\* Failed/unreconciled" of checkModelHealth: SelectHighestPriority skips it.
UnnamedAgainstNamed ==
    \A q \in Callers :
        /\ \A m \in Models \cup {NoModel} :
             LET auto == SelectAuto(q, m) IN
             auto.error = "" =>
                 /\ SelectNamed(auto.name, q, m) = auto
                 /\ \A n \in DOMAIN subs :
                      SelectNamed(n, q, m).error = "" => n = auto.name
        /\ LET r == MintSubscription(q, -1) IN
           (\E n \in DOMAIN subs : userHasAccess(subs[n], q)) =>
               /\ r.error = ""
               /\ \A n \in DOMAIN subs \ {r.name} :
                    userHasAccess(subs[n], q) => SortsBefore(r.name, n)
               /\ MintSubscription(q, r.name) =
                    IF subs[r.name].phase \in {"", "Failed"} THEN Refuse("model_unhealthy") ELSE r
=============================================================================
