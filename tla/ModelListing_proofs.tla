------------------------ MODULE ModelListing_proofs -------------------------
(***************************************************************************)
(* Proofs about ModelListing: what a listing shows and how old it is, for  *)
(* any number of models, subscriptions, slots and attempts and any timeout.*)
(*                                                                         *)
(* found grows by one subscription at a time, so a reply is exact if what  *)
(* has been merged so far is exact for the subscriptions that were checked *)
(* (FoundInv), and if the check in progress has found exactly what it has  *)
(* been told so far (OutInv).  That no answer is counted for a check that  *)
(* has ended rests on ControlInv: a check ends after its goroutines.       *)
(***************************************************************************)
EXTENDS ModelListing, FiniteSetTheorems, TLAPS

\* The backend of k[1] answered a probe made with s and listed k.
Answered(k, s) == \E a \in answers : a.sub = s /\ Lists(a, k)

\* An external model that the check of s lists unprobed.
Unprobed(k, s) ==
    /\ k[1] \in External /\ k[2] = k[1]
    /\ s \in Selected
    /\ \E l \in list : l.model = k[1] /\ l.ref.ready
    /\ ModelRefs[s] = {} \/ k[1] \in ModelRefs[s]

\* The subscriptions whose check has ended.
Checked == {s \in Selected : s \notin use /\ s # cur.sub}

\* What the types rest on: a check is one of a subscription, and has finitely
\* many goroutines.
CheckInv == IsFiniteSet(Running) /\ (cur # NoCheck => cur.sub \in Subs)

\* Where the request is: nothing happens before the models are listed, probes
\* belong to the check in progress, and a reply ends it all.
ControlInv ==
    /\ use \subseteq Selected
    /\ list = {} => use = {} /\ cur = NoCheck /\ answers = {} /\ \A k \in Keys : found[k] = {}
    /\ cur = NoCheck => Running = {} /\ loop = {}
    /\ cur # NoCheck => cur.sub \in Selected \ use
    /\ reply.code = 200 => cur = NoCheck /\ use = {}

\* A listed model has one entry, and the loop of a check goes through the
\* models that its subscription refers to.
LoopInv ==
    /\ \A l1, l2 \in list : l1.model = l2.model => l1 = l2
    /\ cur # NoCheck =>
         \A l \in loop : ModelRefs[cur.sub] = {} \/ l.model \in ModelRefs[cur.sub]

\* An answer belongs to a check that was begun.
AnswersInv == \A a \in answers : a.sub \in Selected /\ a.sub \notin use

FoundInv ==
    \A k \in Keys, s \in Subs :
        s \in found[k] <=> s \in Checked /\ (Answered(k, s) \/ Unprobed(k, s))

OutInv ==
    cur # NoCheck => \A k \in Keys :
        k \in out <=> \/ Answered(k, cur.sub)
                      \/ Unprobed(k, cur.sub) /\ \A l \in loop : l.model # k[1]

\* Every check that was begun has used up at most one timeout.
TimeInv ==
    LET begun == Cardinality(Selected) - Cardinality(use) IN
    /\ list = {} => now = 0
    /\ list # {} => now <= Timeout * begun
    /\ cur # NoCheck => now <= cur.deadline /\ cur.deadline <= Timeout * begun
    /\ reply.at <= now

IInv == TypeOK /\ CheckInv /\ ControlInv /\ LoopInv /\ AnswersInv /\ FoundInv /\ OutInv /\ TimeInv
-----------------------------------------------------------------------------
(* Operators. *)

LEMMA SelectedType ==
    ASSUME TypeOK
    PROVE  Selected \subseteq Subs /\ IsFiniteSet(Selected)
<1>1. mine \subseteq Subs
  BY DEF TypeOK
<1>2. Selected \subseteq Subs
  BY <1>1 DEF Selected
<1> QED
  BY <1>2, ListingAssumption, FS_Subset

LEMMA SelectedFixed ==
    ASSUME UNCHANGED <<req, mine>>
    PROVE  Selected' = Selected
BY DEF Selected, returnAllModels

LEMMA FetchType ==
    ASSUME NEW m \in Models, NEW code, NEW body \in Bodies \cup {NoBody}
    PROVE  fetchModels(m, code, body) \subseteq Ids
<1>1. m \in Ids
  BY ListingAssumption DEF Ids
<1>2. body.ids \ {NoId} \subseteq Ids
  BY DEF Ids, NoBody
<1> QED
  BY <1>1, <1>2 DEF fetchModels, discoveredToModels

\* The code takes from an answer what the answer lists.
LEMMA ListLemma ==
    ASSUME NEW m \in Models, NEW code \in {"2xx", "405"}, NEW body \in Bodies \cup {NoBody},
           NEW s, NEW at, NEW k \in Keys
    PROVE  Lists([model |-> m, sub |-> s, code |-> code, body |-> body, at |-> at], k)
             <=> k[1] = m /\ k[2] \in fetchModels(m, code, body)
<1>1. k[2] # NoId
  BY DEF Keys, Ids
<1>2. CASE code = "405"
  BY <1>2 DEF Lists, fetchModels
<1>3. CASE code = "2xx" /\ body.data # "list"
  BY <1>3 DEF Lists, fetchModels
<1>4. CASE code = "2xx" /\ body.data = "list"
  <2>1. fetchModels(m, code, body) = discoveredToModels(m, body.ids)
    BY <1>4 DEF fetchModels
  <2>2. k[1] = m => (k[2] \in discoveredToModels(m, body.ids)
                       <=> k[2] \in body.ids \/ (k[2] = m /\ \A id \in body.ids : id = NoId))
    BY <1>1 DEF discoveredToModels
  <2> QED
    BY <1>4, <2>1, <2>2 DEF Lists
<1> QED
  BY <1>2, <1>3, <1>4

LEMMA IdleType == Idle \in Probe /\ Idle.pc = "none"
BY ListingAssumption DEF Idle, Probe

\* A probe that stops running.
LEMMA FewerRunning ==
    ASSUME NEW S, IsFiniteSet(S), Cardinality(S) <= Limit, NEW T \in SUBSET S
    PROVE  IsFiniteSet(T) /\ Cardinality(T) <= Limit
<1>1. IsFiniteSet(T) /\ Cardinality(T) <= Cardinality(S)
  BY FS_Subset
<1>2. Cardinality(T) \in Nat /\ Cardinality(S) \in Nat /\ Limit \in Nat
  BY <1>1, FS_CardinalityType, ListingAssumption
<1> QED
  BY <1>1, <1>2

\* A probe that starts needs a slot.
LEMMA OneMoreRunning ==
    ASSUME NEW S, IsFiniteSet(S), Cardinality(S) < Limit, NEW m
    PROVE  IsFiniteSet(S \cup {m}) /\ Cardinality(S \cup {m}) <= Limit
<1>1. /\ IsFiniteSet(S \cup {m})
      /\ Cardinality(S \cup {m}) = Cardinality(S) \/ Cardinality(S \cup {m}) = Cardinality(S) + 1
  BY FS_AddElement
<1>2. Cardinality(S) \in Nat /\ Limit \in Nat
  BY FS_CardinalityType, ListingAssumption
<1> QED
  BY <1>1, <1>2
-----------------------------------------------------------------------------
(* Types and the limit of goroutines. *)

LEMMA TypeInit == Init => TypeOK /\ CheckInv
<1> SUFFICES ASSUME Init PROVE TypeOK /\ CheckInv
  OBVIOUS
<1>1. Running = {}
  BY IdleType DEF Init, Running
<1>2. IsFiniteSet(Running) /\ Cardinality(Running) = 0
  BY <1>1, FS_EmptySet
<1>3. req \in [auth : {"none", "key", "token"}, header : Subs \cup {NoSub}] /\ mine \in SUBSET Subs
  BY DEF Init
<1>4. refs \in [Models -> Ref] /\ grants \in SUBSET (Models \X Subs)
  BY DEF Init, Ref
<1>5. cur \in [sub : Subs \cup {NoSub}, deadline : Nat]
  BY DEF Init, NoCheck
<1>6. probe \in [Models -> Probe]
  BY IdleType DEF Init
<1>7. reply \in [code : {0, 200, 401, 403, 500}, subs : SUBSET Subs, at : Nat]
  BY DEF Init, NoReply
<1> QED
  BY <1>2, <1>3, <1>4, <1>5, <1>6, <1>7, ListingAssumption DEF TypeOK, CheckInv, Init

\* What the types ask of the goroutines.
ProbesOK == probe \in [Models -> Probe] /\ IsFiniteSet(Running) /\ Cardinality(Running) <= Limit

LEMMA ProbesStep == TypeOK /\ CheckInv /\ [Next]_vars => ProbesOK'
<1> SUFFICES ASSUME TypeOK, CheckInv, [Next]_vars PROVE ProbesOK'
  OBVIOUS
<1> USE ListingAssumption
<1>0. probe \in [Models -> Probe] /\ IsFiniteSet(Running) /\ Cardinality(Running) <= Limit
  BY DEF TypeOK, CheckInv
<1>1. ASSUME UNCHANGED probe PROVE ProbesOK'
  BY <1>0, <1>1 DEF ProbesOK, Running
<1>2. ASSUME probe' = [m \in Models |-> Idle] PROVE ProbesOK'
  <2>1. Running' = {} /\ probe' \in [Models -> Probe]
    BY <1>2, IdleType DEF Running
  <2> QED
    BY <1>0, <2>1, FewerRunning DEF ProbesOK
\* A goroutine whose last state is x.
<1>3. ASSUME NEW m \in Models, NEW x \in Probe, probe' = [probe EXCEPT ![m] = x],
             m \in Running \/ x.pc = "done"
      PROVE  ProbesOK'
  <2>1. probe' \in [Models -> Probe]
    BY <1>0, <1>3
  <2>2. Running' \subseteq Running
    BY <1>0, <1>3 DEF Running
  <2> QED
    BY <1>0, <2>1, <2>2, FewerRunning DEF ProbesOK
<1>4. ASSUME NEW l \in loop, Launch(l) PROVE ProbesOK'
  <2>1. l.model \in Models
    BY DEF TypeOK
  <2>2. CASE probe' = [probe EXCEPT ![l.model] = [pc |-> "wait", left |-> Steps]]
    <3>1. probe' \in [Models -> Probe]
      BY <1>0, <2>1, <2>2 DEF Probe
    <3>2. Running' = Running \cup {l.model}
      BY <1>0, <2>1, <2>2 DEF Running
    <3>3. Cardinality(Running) < Limit
      BY <1>4 DEF Launch, SlotFree
    <3> QED
      BY <1>0, <3>1, <3>2, <3>3, OneMoreRunning DEF ProbesOK
  <2>3. CASE probe' = [probe EXCEPT ![l.model].pc = "done"]
    <3> DEFINE x == [probe[l.model] EXCEPT !.pc = "done"]
    <3>1. x \in Probe /\ x.pc = "done" /\ probe' = [probe EXCEPT ![l.model] = x]
      BY <1>0, <2>1, <2>3 DEF Probe
    <3> QED
      BY <1>3, <2>1, <3>1
  <2> QED
    BY <1>4, <2>2, <2>3 DEF Launch
<1>5. ASSUME NEW m \in Models, NEW code, NEW body, ProbeAnswered(m, code, body) PROVE ProbesOK'
  <2> DEFINE x == IF code = "error" /\ probe[m].left > 1
                  THEN [pc |-> "backoff", left |-> probe[m].left - 1]
                  ELSE [probe[m] EXCEPT !.pc = "done"]
  <2>1. probe[m] \in Probe /\ m \in Running /\ probe' = [probe EXCEPT ![m] = x]
    BY <1>0, <1>5 DEF ProbeAnswered, Running
  <2>2. x \in Probe
    BY <2>1 DEF Probe
  <2> QED
    BY <1>3, <2>1, <2>2
<1>6. ASSUME NEW m \in Models, Goroutine(m) PROVE ProbesOK'
  <2>1. PICK p \in {"wait", "done"} : probe' = [probe EXCEPT ![m].pc = p]
    BY <1>6 DEF Goroutine, Retry, DeadlineExceeded
  <2> DEFINE x == [probe[m] EXCEPT !.pc = p]
  <2>2. x \in Probe /\ m \in Running /\ probe' = [probe EXCEPT ![m] = x]
    BY <1>0, <1>6, <2>1 DEF Probe, Running, Goroutine, Retry, DeadlineExceeded, Expired
  <2> QED
    BY <1>3, <2>2
<1>7. CASE StartCheck
  BY <1>2, <1>7 DEF StartCheck
<1>8. CASE Handler
  BY <1>1, <1>7, <1>8 DEF Handler, Refuse, ListFails, ListLLMs, aggregateModelsFromSubscriptions, SendReply
<1>9. CASE Loop
  BY <1>1, <1>4, <1>9 DEF Loop, TakeUnprobed
<1> QED
  BY <1>1, <1>5, <1>6, <1>8, <1>9 DEF Next, vars, Tick, ChangePolicy, ChangeRef

LEMMA TypeStep == TypeOK /\ CheckInv /\ [Next]_vars => TypeOK' /\ CheckInv'
<1> SUFFICES ASSUME TypeOK, CheckInv, [Next]_vars PROVE TypeOK' /\ CheckInv'
  OBVIOUS
<1> USE ListingAssumption
<1>0. ProbesOK'
  BY ProbesStep
<1>1. CASE Refuse
  <2>1. reply' \in [code : {0, 200, 401, 403, 500}, subs : SUBSET Subs, at : Nat]
    <3>1. extractAndValidateAuth(req.auth, req.header) \in {200, 401, 403}
      BY DEF extractAndValidateAuth
    <3> QED
      BY <1>1, <3>1 DEF Refuse, Reply, TypeOK
  <2> QED
    BY <1>0, <1>1, <2>1 DEF Refuse, TypeOK, ProbesOK, CheckInv
<1>2. CASE ListFails
  <2>1. reply' \in [code : {0, 200, 401, 403, 500}, subs : SUBSET Subs, at : Nat]
    BY <1>2 DEF ListFails, Reply, TypeOK
  <2> QED
    BY <1>0, <1>2, <2>1 DEF ListFails, TypeOK, ProbesOK, CheckInv
<1>3. CASE ListLLMs
  <2>1. reply' \in [code : {0, 200, 401, 403, 500}, subs : SUBSET Subs, at : Nat]
    BY <1>3 DEF ListLLMs, Reply, TypeOK
  <2>2. use' \subseteq Subs
    BY <1>3, SelectedType DEF ListLLMs
  <2>3. list' \in SUBSET [model : Models, ref : Ref] /\ loop' \subseteq list'
    BY <1>3 DEF ListLLMs, Listed, TypeOK
  <2> QED
    BY <1>0, <1>3, <2>1, <2>2, <2>3 DEF ListLLMs, TypeOK, ProbesOK, CheckInv
<1>4. CASE StartCheck
  <2>1. PICK s \in use : /\ use' = use \ {s}
                         /\ cur' = [sub |-> s, deadline |-> Deadline]
                         /\ loop' = filterModelsBySubscription(s)
    BY <1>4 DEF StartCheck
  <2>2. cur' \in [sub : Subs \cup {NoSub}, deadline : Nat]
    BY <2>1 DEF TypeOK, Deadline
  <2>3. loop' \subseteq list
    BY <2>1 DEF filterModelsBySubscription
  <2> QED
    BY <1>0, <1>4, <2>1, <2>2, <2>3 DEF StartCheck, TypeOK, ProbesOK, CheckInv
<1>5. CASE aggregateModelsFromSubscriptions
  <2>1. cur.sub \in Subs
    BY <1>5 DEF aggregateModelsFromSubscriptions, CheckInv
  <2>2. found' \in [Keys -> SUBSET Subs]
    BY <1>5, <2>1 DEF aggregateModelsFromSubscriptions, TypeOK, addSubscriptionIfNew
  <2>3. cur' \in [sub : Subs \cup {NoSub}, deadline : Nat]
    BY <1>5 DEF aggregateModelsFromSubscriptions, NoCheck
  <2> QED
    BY <1>0, <1>5, <2>2, <2>3 DEF aggregateModelsFromSubscriptions, TypeOK, ProbesOK, CheckInv
<1>6. CASE SendReply
  <2>1. reply' \in [code : {0, 200, 401, 403, 500}, subs : SUBSET Subs, at : Nat]
    BY <1>6 DEF SendReply, Reply, TypeOK
  <2> QED
    BY <1>0, <1>6, <2>1 DEF SendReply, TypeOK, ProbesOK, CheckInv
<1>7. ASSUME NEW l \in loop, TakeUnprobed(l) PROVE TypeOK' /\ CheckInv'
  <2>1. <<l.model, l.model>> \in Keys
    BY DEF TypeOK, Keys, Ids
  <2>2. out' \in SUBSET Keys
    BY <1>7, <2>1 DEF TakeUnprobed, TypeOK
  <2> QED
    BY <1>0, <1>7, <2>2 DEF TakeUnprobed, TypeOK, ProbesOK, CheckInv
<1>8. ASSUME NEW l \in loop, Launch(l) PROVE TypeOK' /\ CheckInv'
  BY <1>0, <1>8 DEF Launch, TypeOK, ProbesOK, CheckInv
<1>9. ASSUME NEW m \in Models, NEW code, NEW body \in Bodies \cup {NoBody}, ProbeAnswered(m, code, body)
      PROVE  TypeOK' /\ CheckInv'
  <2> DEFINE G == fetchModels(m, code, body)
  <2>1. {m} \X G \subseteq Keys
    BY FetchType DEF Keys
  <2>2. out' \in SUBSET Keys
    BY <1>9, <2>1 DEF ProbeAnswered, TypeOK
  <2>3. code \in {"2xx", "405"} => cur.sub \in Subs
    BY <1>9 DEF ProbeAnswered, TypeOK, Codes
  <2>4. answers' \in SUBSET Answer
    BY <1>9, <2>3 DEF ProbeAnswered, TypeOK, Answer
  <2> QED
    BY <1>0, <1>9, <2>2, <2>4 DEF ProbeAnswered, TypeOK, ProbesOK, CheckInv
<1>10. ASSUME NEW m \in Models, Goroutine(m) PROVE TypeOK' /\ CheckInv'
  BY <1>0, <1>10 DEF Goroutine, Retry, DeadlineExceeded, TypeOK, ProbesOK, CheckInv
<1>11. CASE Tick
  BY <1>0, <1>11 DEF Tick, TypeOK, ProbesOK, CheckInv
<1>12. ASSUME NEW m \in Models, NEW s \in Subs, ChangePolicy(m, s) PROVE TypeOK' /\ CheckInv'
  BY <1>0, <1>12 DEF ChangePolicy, TypeOK, ProbesOK, CheckInv
<1>13. ASSUME NEW m \in Models, NEW r \in Ref, ChangeRef(m, r) PROVE TypeOK' /\ CheckInv'
  BY <1>0, <1>13 DEF ChangeRef, TypeOK, ProbesOK, CheckInv
<1>14. CASE UNCHANGED vars
  BY <1>0, <1>14 DEF vars, TypeOK, ProbesOK, CheckInv
<1> QED
  BY <1>1, <1>2, <1>3, <1>4, <1>5, <1>6, <1>7, <1>8, <1>9, <1>10, <1>11, <1>12, <1>13, <1>14
     DEF Next, Handler, Loop
-----------------------------------------------------------------------------
(* The inductive invariant, part by part. *)

LEMMA Fixed == [Next]_vars => Selected' = Selected
<1> SUFFICES ASSUME [Next]_vars PROVE UNCHANGED <<req, mine>>
  BY SelectedFixed
<1> QED
  BY DEF Next, vars, Handler, Refuse, ListFails, ListLLMs, StartCheck,
         aggregateModelsFromSubscriptions, SendReply, Loop, TakeUnprobed, Launch, Tick,
         Goroutine, Retry, DeadlineExceeded, ProbeAnswered, ChangePolicy, ChangeRef

LEMMA InitInv == Init => IInv
<1> SUFFICES ASSUME Init PROVE IInv
  OBVIOUS
<1>1. TypeOK /\ CheckInv
  BY TypeInit
<1>2. Running = {}
  BY IdleType DEF Init, Running
<1>3. ControlInv
  BY <1>2 DEF Init, ControlInv, NoReply
<1>4. LoopInv /\ AnswersInv /\ OutInv
  BY DEF Init, LoopInv, AnswersInv, OutInv
<1>5. FoundInv
  BY DEF Init, FoundInv, Answered, Unprobed
<1>6. TimeInv
  BY DEF Init, TimeInv, NoReply
<1> QED
  BY <1>1, <1>3, <1>4, <1>5, <1>6 DEF IInv

LEMMA ControlStep == IInv /\ [Next]_vars => ControlInv'
<1> SUFFICES ASSUME IInv, [Next]_vars PROVE ControlInv'
  OBVIOUS
<1>0. Selected' = Selected /\ TypeOK /\ ControlInv /\ CheckInv /\ ListingAssumption
  BY Fixed, ListingAssumption DEF IInv
<1>a. ASSUME UNCHANGED <<list, use, cur, answers, found>>, Running' \subseteq Running,
             loop' \subseteq loop,
             reply'.code = 200 => reply.code = 200
      PROVE  ControlInv'
  BY <1>0, <1>a DEF ControlInv
<1>b. UNCHANGED probe => Running' = Running
  BY DEF Running
<1>1. CASE Refuse \/ ListFails
  <2>1. reply'.code # 200
    BY <1>1 DEF Refuse, ListFails, Reply
  <2> QED
    BY <1>a, <1>b, <1>1, <2>1 DEF Refuse, ListFails
<1>2. CASE ListLLMs
  <2>1. list' # {}
    <3>1. PICK m \in Models : TRUE
      BY <1>0
    <3>2. [model |-> m, ref |-> refs[m]] \in list'
      BY <1>2, <3>1 DEF ListLLMs, Listed
    <3> QED
      BY <3>2
  <2>2. reply'.code = 200 => use' = {}
    BY <1>0, <1>2 DEF ListLLMs, Reply
  <2> QED
    BY <1>0, <1>b, <1>2, <2>1, <2>2 DEF ListLLMs, ControlInv
<1>3. CASE StartCheck
  <2>1. PICK s \in use : use' = use \ {s} /\ cur' = [sub |-> s, deadline |-> Deadline]
    BY <1>3 DEF StartCheck
  <2>2. cur' # NoCheck /\ cur'.sub = s
    BY <1>0, <2>1 DEF NoCheck, TypeOK
  <2>3. reply'.code # 200 /\ list' # {}
    BY <1>0, <1>3, <2>1 DEF StartCheck, ControlInv
  <2> QED
    BY <1>0, <1>3, <2>1, <2>2, <2>3 DEF StartCheck, ControlInv
<1>4. CASE aggregateModelsFromSubscriptions
  BY <1>0, <1>b, <1>4 DEF aggregateModelsFromSubscriptions, ControlInv
<1>5. CASE SendReply
  BY <1>0, <1>b, <1>5 DEF SendReply, ControlInv
<1>6. ASSUME NEW l \in loop, TakeUnprobed(l) PROVE ControlInv'
  BY <1>a, <1>b, <1>6 DEF TakeUnprobed
<1>7. ASSUME NEW l \in loop, Launch(l) PROVE ControlInv'
  <2>1. cur # NoCheck
    BY <1>0, <1>7 DEF Launch, ControlInv, LoopInv, TypeOK
  <2> QED
    BY <1>0, <1>7, <2>1 DEF Launch, ControlInv
<1>8. ASSUME NEW m \in Models, NEW code, NEW body, ProbeAnswered(m, code, body) PROVE ControlInv'
  <2>1. m \in Running /\ Running' \subseteq Running /\ cur # NoCheck
    BY <1>0, <1>8 DEF ProbeAnswered, Running, TypeOK, ControlInv
  <2> QED
    BY <1>0, <1>8, <2>1 DEF ProbeAnswered, ControlInv
<1>9. ASSUME NEW m \in Models, Goroutine(m) PROVE ControlInv'
  <2>1. Running' \subseteq Running
    BY <1>0, <1>9 DEF Goroutine, Retry, DeadlineExceeded, Expired, Running, TypeOK
  <2> QED
    BY <1>a, <1>9, <2>1 DEF Goroutine, Retry, DeadlineExceeded
<1>10. CASE Tick \/ UNCHANGED vars
  BY <1>a, <1>b, <1>10 DEF Tick, vars
<1>11. ASSUME NEW m \in Models, NEW s \in Subs, ChangePolicy(m, s) PROVE ControlInv'
  BY <1>a, <1>b, <1>11 DEF ChangePolicy
<1>12. ASSUME NEW m \in Models, NEW r \in Ref, ChangeRef(m, r) PROVE ControlInv'
  BY <1>a, <1>b, <1>12 DEF ChangeRef
<1> QED
  BY <1>1, <1>2, <1>3, <1>4, <1>5, <1>6, <1>7, <1>8, <1>9, <1>10, <1>11, <1>12
     DEF Next, Handler, Loop

LEMMA LoopStep == IInv /\ [Next]_vars => LoopInv' /\ AnswersInv'
<1> SUFFICES ASSUME IInv, [Next]_vars PROVE LoopInv' /\ AnswersInv'
  OBVIOUS
<1>0. Selected' = Selected /\ TypeOK /\ ControlInv /\ LoopInv /\ AnswersInv
  BY Fixed DEF IInv
<1>a. ASSUME UNCHANGED <<list, use, cur, answers>>, loop' \subseteq loop
      PROVE  LoopInv' /\ AnswersInv'
  BY <1>0, <1>a DEF LoopInv, AnswersInv
<1>1. CASE Refuse \/ ListFails \/ SendReply
  BY <1>a, <1>1 DEF Refuse, ListFails, SendReply
<1>2. CASE ListLLMs
  <2>1. answers' = {} /\ cur' = NoCheck
    BY <1>0, <1>2 DEF ListLLMs, ControlInv
  <2>2. \A l1, l2 \in list' : l1.model = l2.model => l1 = l2
    BY <1>2 DEF ListLLMs, Listed
  <2> QED
    BY <2>1, <2>2 DEF LoopInv, AnswersInv
<1>3. CASE StartCheck
  <2>1. PICK s \in use : /\ use' = use \ {s}
                         /\ cur' = [sub |-> s, deadline |-> Deadline]
                         /\ loop' = filterModelsBySubscription(s)
    BY <1>3 DEF StartCheck
  <2>2. \A l \in loop' : ModelRefs[s] = {} \/ l.model \in ModelRefs[s]
    BY <2>1 DEF filterModelsBySubscription
  <2> QED
    BY <1>0, <1>3, <2>1, <2>2 DEF StartCheck, LoopInv, AnswersInv
<1>4. CASE aggregateModelsFromSubscriptions
  BY <1>0, <1>4 DEF aggregateModelsFromSubscriptions, LoopInv, AnswersInv
<1>5. CASE Loop
  BY <1>a, <1>5 DEF Loop, TakeUnprobed, Launch
<1>6. ASSUME NEW m \in Models, NEW code, NEW body, ProbeAnswered(m, code, body)
      PROVE  LoopInv' /\ AnswersInv'
  <2>1. cur # NoCheck
    BY <1>0, <1>6 DEF ProbeAnswered, Running, ControlInv
  <2>2. \A a \in answers' \ answers : a.sub = cur.sub
    BY <1>6 DEF ProbeAnswered
  <2> QED
    BY <1>0, <1>6, <2>1, <2>2 DEF ProbeAnswered, LoopInv, AnswersInv, ControlInv
<1>7. ASSUME NEW m \in Models, Goroutine(m) PROVE LoopInv' /\ AnswersInv'
  BY <1>a, <1>7 DEF Goroutine, Retry, DeadlineExceeded
<1>8. CASE Tick \/ UNCHANGED vars
  BY <1>a, <1>8 DEF Tick, vars
<1>9. ASSUME NEW m \in Models, NEW s \in Subs, ChangePolicy(m, s) PROVE LoopInv' /\ AnswersInv'
  BY <1>a, <1>9 DEF ChangePolicy
<1>10. ASSUME NEW m \in Models, NEW r \in Ref, ChangeRef(m, r) PROVE LoopInv' /\ AnswersInv'
  BY <1>a, <1>10 DEF ChangeRef
<1> QED
  BY <1>1, <1>2, <1>3, <1>4, <1>5, <1>6, <1>7, <1>8, <1>9, <1>10 DEF Next, Handler

\* Nothing has answered yet for a subscription that is still to be checked.
LEMMA FoundStep == IInv /\ [Next]_vars => FoundInv'
<1> SUFFICES ASSUME IInv, [Next]_vars PROVE FoundInv'
  OBVIOUS
<1>0. Selected' = Selected /\ TypeOK /\ CheckInv /\ ControlInv /\ AnswersInv /\ FoundInv /\ OutInv
  BY Fixed DEF IInv
<1>a. ASSUME UNCHANGED <<list, use, cur, answers, found>> PROVE FoundInv'
  BY <1>0, <1>a DEF FoundInv, Checked, Answered, Unprobed
<1>1. CASE Refuse \/ ListFails \/ SendReply
  BY <1>a, <1>1 DEF Refuse, ListFails, SendReply
<1>2. CASE ListLLMs
  <2>1. Checked' = {}
    BY <1>0, <1>2 DEF ListLLMs, Checked
  <2>2. \A k \in Keys : found'[k] = {}
    BY <1>0, <1>2 DEF ListLLMs, ControlInv
  <2> QED
    BY <2>1, <2>2 DEF FoundInv
<1>3. CASE StartCheck
  <2>1. PICK s \in use : use' = use \ {s} /\ cur' = [sub |-> s, deadline |-> Deadline]
    BY <1>3 DEF StartCheck
  <2>2. Checked' = Checked
    <3>1. cur.sub \notin Subs
      BY <1>3, ListingAssumption DEF StartCheck, NoCheck
    <3> QED
      BY <1>0, <2>1, <3>1, SelectedType DEF Checked, ControlInv
  <2>3. UNCHANGED <<list, answers, found>>
    BY <1>3 DEF StartCheck
  <2> QED
    BY <1>0, <2>2, <2>3 DEF FoundInv, Answered, Unprobed
<1>4. CASE aggregateModelsFromSubscriptions
  <2>1. cur # NoCheck /\ loop = {} /\ UNCHANGED <<list, answers>>
    BY <1>4 DEF aggregateModelsFromSubscriptions
  <2>2. Checked' = Checked \cup {cur.sub} /\ cur.sub \notin Checked
    <3>1. cur'.sub \notin Subs /\ use' = use
      BY <1>4, ListingAssumption DEF aggregateModelsFromSubscriptions, NoCheck
    <3> QED
      BY <1>0, <2>1, <3>1, SelectedType DEF Checked, ControlInv
  <2>3. \A k \in Keys : k \in out <=> Answered(k, cur.sub) \/ Unprobed(k, cur.sub)
    BY <1>0, <2>1 DEF OutInv
  <2>4. \A k \in Keys, s \in Subs : s \in found'[k] <=> s \in found[k] \/ (k \in out /\ s = cur.sub)
    BY <1>0, <1>4 DEF aggregateModelsFromSubscriptions, addSubscriptionIfNew, TypeOK
  <2>5. \A k \in Keys, s \in Subs : /\ Answered(k, s)' <=> Answered(k, s)
                                    /\ Unprobed(k, s)' <=> Unprobed(k, s)
    BY <1>0, <2>1 DEF Answered, Unprobed
  <2> QED
    BY <1>0, <2>2, <2>3, <2>4, <2>5 DEF FoundInv
<1>5. CASE Loop
  BY <1>a, <1>5 DEF Loop, TakeUnprobed, Launch
<1>6. ASSUME NEW m \in Models, NEW code, NEW body, ProbeAnswered(m, code, body) PROVE FoundInv'
  <2>1. Checked' = Checked /\ cur.sub \notin Checked /\ UNCHANGED <<list, found>>
    BY <1>0, <1>6 DEF ProbeAnswered, Checked
  <2>2. answers \subseteq answers' /\ \A a \in answers' \ answers : a.sub = cur.sub
    BY <1>6 DEF ProbeAnswered
  <2>3. \A k \in Keys, s \in Checked : Answered(k, s)' <=> Answered(k, s)
    BY <2>1, <2>2 DEF Answered
  <2>4. \A k \in Keys, s \in Subs : Unprobed(k, s)' <=> Unprobed(k, s)
    BY <1>0, <2>1 DEF Unprobed
  <2> QED
    BY <1>0, <2>1, <2>3, <2>4 DEF FoundInv
<1>7. ASSUME NEW m \in Models, Goroutine(m) PROVE FoundInv'
  BY <1>a, <1>7 DEF Goroutine, Retry, DeadlineExceeded
<1>8. CASE Tick \/ UNCHANGED vars
  BY <1>a, <1>8 DEF Tick, vars
<1>9. ASSUME NEW m \in Models, NEW s \in Subs, ChangePolicy(m, s) PROVE FoundInv'
  BY <1>a, <1>9 DEF ChangePolicy
<1>10. ASSUME NEW m \in Models, NEW r \in Ref, ChangeRef(m, r) PROVE FoundInv'
  BY <1>a, <1>10 DEF ChangeRef
<1> QED
  BY <1>1, <1>2, <1>3, <1>4, <1>5, <1>6, <1>7, <1>8, <1>9, <1>10 DEF Next, Handler

LEMMA OutStep == IInv /\ [Next]_vars => OutInv'
<1> SUFFICES ASSUME IInv, [Next]_vars PROVE OutInv'
  OBVIOUS
<1>0. Selected' = Selected /\ TypeOK /\ ControlInv /\ LoopInv /\ AnswersInv /\ OutInv
  BY Fixed DEF IInv
<1>a. ASSUME UNCHANGED <<list, cur, loop, out, answers>> PROVE OutInv'
  BY <1>0, <1>a DEF OutInv, Answered, Unprobed
<1>1. CASE Refuse \/ ListFails \/ SendReply
  BY <1>a, <1>1 DEF Refuse, ListFails, SendReply
<1>2. CASE ListLLMs \/ aggregateModelsFromSubscriptions
  BY <1>2 DEF ListLLMs, aggregateModelsFromSubscriptions, OutInv
<1>3. CASE StartCheck
  <2>1. PICK s \in use : /\ use' = use \ {s}
                         /\ cur' = [sub |-> s, deadline |-> Deadline]
                         /\ loop' = filterModelsBySubscription(s)
    BY <1>3 DEF StartCheck
  <2>2. UNCHANGED <<list, answers>> /\ out' = {}
    BY <1>3 DEF StartCheck
  <2>3. \A k \in Keys : ~Answered(k, s)'
    BY <1>0, <2>1, <2>2 DEF Answered, AnswersInv
  <2>4. \A k \in Keys : Unprobed(k, s)' => \E l \in loop' : l.model = k[1]
    BY <2>1, <2>2 DEF Unprobed, filterModelsBySubscription
  <2> QED
    BY <2>1, <2>2, <2>3, <2>4 DEF OutInv
\* The loop takes l: what Unprobed says of its model decides.
<1>4. ASSUME NEW l \in loop, loop' = loop \ {l}, UNCHANGED <<list, cur, answers>>, cur # NoCheck,
             \A k \in Keys : k \in out' <=> k \in out \/ (k[1] = l.model /\ Unprobed(k, cur.sub))
      PROVE  OutInv'
  <2>1. \A k \in Keys : /\ Answered(k, cur.sub)' <=> Answered(k, cur.sub)
                        /\ Unprobed(k, cur.sub)' <=> Unprobed(k, cur.sub)
    BY <1>0, <1>4 DEF Answered, Unprobed
  <2>2. \A x \in loop : x \in list
    BY <1>0 DEF TypeOK
  <2>3. \A k \in Keys : (\A x \in loop' : x.model # k[1]) <=>
                        k[1] = l.model \/ \A x \in loop : x.model # k[1]
    BY <1>0, <1>4, <2>2 DEF LoopInv
  <2> QED
    BY <1>0, <1>4, <2>1, <2>3 DEF OutInv
<1>b. ASSUME NEW l \in loop PROVE cur # NoCheck
  BY <1>0, <1>b DEF ControlInv
<1>5. ASSUME NEW l \in loop, TakeUnprobed(l) PROVE OutInv'
  <2>1. \A k \in Keys : k[1] = l.model =>
           (Unprobed(k, cur.sub) <=> l.model \in External /\ k[2] = k[1] /\ l.ref.ready)
    <3>1. l \in list /\ cur.sub \in Selected /\ (ModelRefs[cur.sub] = {} \/ l.model \in ModelRefs[cur.sub])
      BY <1>0, <1>b DEF TypeOK, ControlInv, LoopInv
    <3>2. (\E x \in list : x.model = l.model /\ x.ref.ready) <=> l.ref.ready
      BY <1>0, <3>1 DEF LoopInv
    <3> QED
      BY <3>1, <3>2 DEF Unprobed
  <2>2. \A k \in Keys : k = <<l.model, l.model>> <=> k[1] = l.model /\ k[2] = k[1]
    BY DEF Keys
  <2>3. \A k \in Keys : k \in out' <=> k \in out \/ (k[1] = l.model /\ Unprobed(k, cur.sub))
    BY <1>5, <2>1, <2>2 DEF TakeUnprobed
  <2> QED
    BY <1>4, <1>5, <1>b, <2>3 DEF TakeUnprobed
<1>6. ASSUME NEW l \in loop, Launch(l) PROVE OutInv'
  <2>1. \A k \in Keys : k[1] = l.model => ~Unprobed(k, cur.sub)
    BY <1>6 DEF Launch, Unprobed
  <2> QED
    BY <1>4, <1>6, <1>b, <2>1 DEF Launch
<1>7. ASSUME NEW m \in Models, NEW code, NEW body \in Bodies \cup {NoBody}, ProbeAnswered(m, code, body)
      PROVE  OutInv'
  <2> DEFINE G == fetchModels(m, code, body)
  <2>1. UNCHANGED <<list, cur, loop>> /\ cur # NoCheck
    BY <1>0, <1>7 DEF ProbeAnswered, Running, ControlInv
  <2>2. \A k \in Keys : k \in out' <=> k \in out \/ (k[1] = m /\ k[2] \in G)
    BY <1>7 DEF ProbeAnswered, Keys
  <2>3. \A k \in Keys : Answered(k, cur.sub)' <=> Answered(k, cur.sub) \/ (k[1] = m /\ k[2] \in G)
    <3> DEFINE new == [model |-> m, sub |-> cur.sub, code |-> code, body |-> body, at |-> now]
    <3>1. ASSUME NEW k \in Keys, code \in {"2xx", "405"}
          PROVE  Lists(new, k) <=> k[1] = m /\ k[2] \in G
      BY <3>1, ListLemma
    <3>2. CASE code \in {"2xx", "405"}
      <4>1. answers' = answers \cup {new} /\ new.sub = cur.sub
        BY <1>7, <3>2 DEF ProbeAnswered
      <4> QED
        BY <2>1, <3>1, <3>2, <4>1 DEF Answered
    <3>3. CASE code \notin {"2xx", "405"}
      <4>1. answers' = answers /\ G = {}
        BY <1>7, <3>3 DEF ProbeAnswered, fetchModels
      <4> QED
        BY <2>1, <4>1 DEF Answered
    <3> QED
      BY <3>2, <3>3
  <2>4. \A k \in Keys : Unprobed(k, cur.sub)' <=> Unprobed(k, cur.sub)
    BY <1>0, <2>1 DEF Unprobed
  <2> QED
    BY <1>0, <2>1, <2>2, <2>3, <2>4 DEF OutInv
<1>8. ASSUME NEW m \in Models, Goroutine(m) PROVE OutInv'
  BY <1>a, <1>8 DEF Goroutine, Retry, DeadlineExceeded
<1>9. CASE Tick \/ UNCHANGED vars
  BY <1>a, <1>9 DEF Tick, vars
<1>10. ASSUME NEW m \in Models, NEW s \in Subs, ChangePolicy(m, s) PROVE OutInv'
  BY <1>a, <1>10 DEF ChangePolicy
<1>11. ASSUME NEW m \in Models, NEW r \in Ref, ChangeRef(m, r) PROVE OutInv'
  BY <1>a, <1>11 DEF ChangeRef
<1> QED
  BY <1>1, <1>2, <1>3, <1>5, <1>6, <1>7, <1>8, <1>9, <1>10, <1>11 DEF Next, Handler, Loop

LEMMA TimeStep == IInv /\ [Next]_vars => TimeInv'
<1> SUFFICES ASSUME IInv, [Next]_vars PROVE TimeInv'
  OBVIOUS
<1> DEFINE begun == Cardinality(Selected) - Cardinality(use)
<1>0. Selected' = Selected /\ TypeOK /\ ControlInv /\ TimeInv
  BY Fixed DEF IInv
<1>1. /\ Cardinality(Selected) \in Nat /\ Cardinality(use) \in Nat
      /\ Cardinality(use) <= Cardinality(Selected)
      /\ IsFiniteSet(use)
  BY <1>0, SelectedType, FS_Subset, FS_CardinalityType DEF ControlInv
<1>2. Timeout \in Nat \ {0} /\ now \in Nat /\ cur.deadline \in Nat /\ reply.at \in Nat
  BY <1>0, ListingAssumption DEF TypeOK
<1>a. ASSUME UNCHANGED <<list, use, cur, now>>, reply'.at \in {reply.at, now} PROVE TimeInv'
  BY <1>0, <1>2, <1>a DEF TimeInv
<1>3. CASE Refuse \/ ListFails \/ SendReply
  BY <1>a, <1>3 DEF Refuse, ListFails, SendReply, Reply
<1>4. CASE ListLLMs
  <2>1. now' = 0 /\ cur' = NoCheck /\ use' = Selected
    BY <1>0, <1>4 DEF ListLLMs, TimeInv
  <2>2. reply'.at <= now'
    BY <1>0, <1>2, <1>4 DEF ListLLMs, Reply, TimeInv
  <2>3. Timeout * (Cardinality(Selected') - Cardinality(use')) = 0
    BY <1>0, <1>1, <1>2, <2>1
  <2> QED
    BY <2>1, <2>2, <2>3 DEF TimeInv
<1>5. CASE StartCheck
  <2>1. PICK s \in use : use' = use \ {s} /\ cur' = [sub |-> s, deadline |-> Deadline]
    BY <1>5 DEF StartCheck
  <2>2. Cardinality(use') = Cardinality(use) - 1
    BY <1>1, <2>1, FS_RemoveElement
  <2>3. UNCHANGED <<list, now, reply>> /\ list # {}
    BY <1>0, <1>5, <2>1 DEF StartCheck, ControlInv
  <2>4. Timeout * (Cardinality(Selected') - Cardinality(use')) = Timeout * begun + Timeout
    <3>1. \A b \in Nat : Timeout * (b + 1) = Timeout * b + Timeout
      BY <1>2
    <3>2. begun \in Nat /\ Cardinality(Selected') - Cardinality(use') = begun + 1
      BY <1>0, <1>1, <2>2
    <3> QED
      BY <3>1, <3>2
  <2>5. now <= Timeout * begun /\ Timeout * begun \in Nat
    <3>1. begun \in Nat
      BY <1>1
    <3> QED
      BY <1>0, <1>2, <2>3, <3>1 DEF TimeInv
  <2>6. cur'.deadline = now + Timeout
    BY <2>1 DEF Deadline
  <2> QED
    BY <1>0, <1>2, <2>3, <2>4, <2>5, <2>6 DEF TimeInv
<1>6. CASE aggregateModelsFromSubscriptions
  BY <1>0, <1>2, <1>6 DEF aggregateModelsFromSubscriptions, TimeInv
<1>7. CASE Loop
  BY <1>a, <1>7 DEF Loop, TakeUnprobed, Launch
<1>8. CASE Tick
  <2>1. list # {} /\ now + 1 <= cur.deadline
    BY <1>0, <1>2, <1>8 DEF Tick, ControlInv
  <2>2. Timeout * begun \in Nat
    BY <1>1, <1>2
  <2> QED
    BY <1>0, <1>2, <1>8, <2>1, <2>2 DEF Tick, TimeInv
<1>9. ASSUME NEW m \in Models, NEW code, NEW body, ProbeAnswered(m, code, body) PROVE TimeInv'
  BY <1>a, <1>9 DEF ProbeAnswered
<1>10. ASSUME NEW m \in Models, Goroutine(m) PROVE TimeInv'
  BY <1>a, <1>10 DEF Goroutine, Retry, DeadlineExceeded
<1>11. ASSUME NEW m \in Models, NEW s \in Subs, ChangePolicy(m, s) PROVE TimeInv'
  BY <1>a, <1>11 DEF ChangePolicy
<1>12. ASSUME NEW m \in Models, NEW r \in Ref, ChangeRef(m, r) PROVE TimeInv'
  BY <1>a, <1>12 DEF ChangeRef
<1>13. CASE UNCHANGED vars
  BY <1>a, <1>13 DEF vars
<1> QED
  BY <1>3, <1>4, <1>5, <1>6, <1>7, <1>8, <1>9, <1>10, <1>11, <1>12, <1>13 DEF Next, Handler
-----------------------------------------------------------------------------
(* The theorems. *)

LEMMA Invariance == Spec => []IInv
<1>1. IInv /\ [Next]_vars => IInv'
  BY TypeStep, ControlStep, LoopStep, FoundStep, OutStep, TimeStep DEF IInv
<1> QED
  BY InitInv, <1>1, PTL DEF Spec

\* The request and its goroutines keep their types, and never more than Limit
\* of FilterModelsByAccess's goroutines run.
THEOREM TypeCorrect == Spec => []TypeOK
<1>1. IInv => TypeOK
  BY DEF IInv
<1> QED
  BY Invariance, <1>1, PTL

\* GET /v1/models fails closed and loses nothing: an entry is listed with
\* exactly the subscriptions that vouch for it, whatever timeouts, retries and
\* orders of the probes.
THEOREM ListingIsExact == Spec => []ListingExact
<1>1. ASSUME IInv PROVE ListingExact
  <2> SUFFICES ASSUME reply.code = 200, NEW k \in Keys PROVE found[k] = Vouched(k)
    BY DEF ListingExact
  <2>1. cur = NoCheck /\ use = {} /\ found[k] \subseteq Subs
    BY <1>1 DEF IInv, ControlInv, TypeOK
  <2>2. Checked = Selected /\ Selected \subseteq Subs
    BY <1>1, <2>1, SelectedType, ListingAssumption DEF Checked, NoCheck, IInv
  <2>3. \A s \in Subs : Answered(k, s) \/ Unprobed(k, s) => s \in Selected
    BY <1>1 DEF IInv, AnswersInv, Answered, Unprobed
  <2>4. \A s \in Subs : s \in found[k] <=> Answered(k, s) \/ Unprobed(k, s)
    BY <1>1, <2>2, <2>3 DEF IInv, FoundInv
  <2>5. \A s \in Subs : s \in Vouched(k) <=> Answered(k, s) \/ Unprobed(k, s)
    BY DEF Vouched, Answered, Unprobed
  <2> QED
    BY <2>1, <2>4, <2>5 DEF Vouched
<1> QED
  BY Invariance, <1>1, PTL

\* A grant that a reply rests on is no older than one accessCheckTimeout per
\* subscription that the request checked.
THEOREM GrantsFresh == Spec => []GrantsAreFresh
<1>1. ASSUME IInv PROVE GrantsAreFresh
  <2> SUFFICES ASSUME reply.code = 200, NEW a \in answers
               PROVE  reply.at - a.at <= Timeout * Cardinality(Selected)
    BY DEF GrantsAreFresh
  <2>1. use = {} /\ list # {}
    BY <1>1 DEF IInv, ControlInv
  <2>2. Cardinality(use) = 0 /\ Cardinality(Selected) \in Nat
    BY <1>1, <2>1, FS_EmptySet, SelectedType, FS_CardinalityType DEF IInv
  <2>3. reply.at \in Nat /\ a.at \in Nat /\ now \in Nat /\ Timeout \in Nat
    BY <1>1, ListingAssumption DEF IInv, TypeOK, Answer
  <2>4. reply.at <= now /\ now <= Timeout * (Cardinality(Selected) - Cardinality(use))
    BY <1>1, <2>1 DEF IInv, TimeInv
  <2>5. Timeout * (Cardinality(Selected) - Cardinality(use)) = Timeout * Cardinality(Selected)
    BY <2>2
  <2>6. Timeout * Cardinality(Selected) \in Nat
    BY <2>2, <2>3
  <2> QED
    BY <2>3, <2>4, <2>5, <2>6
<1> QED
  BY Invariance, <1>1, PTL
=============================================================================
