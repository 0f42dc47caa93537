---------------------- MODULE SubscriptionSelector_proofs -------------------
(***************************************************************************)
(* Proofs about SubscriptionSelector, for any names, users, groups, models *)
(* and model refs.                                                         *)
(*                                                                         *)
(* The selector is a function of the cache, so its properties follow from  *)
(* the types of the cached objects; only SelectHighestPriority needs more: *)
(* the cache is finite, and the order of sortSubscriptionsByPriority is    *)
(* strict and total on it.                                                 *)
(***************************************************************************)
EXTENDS SubscriptionSelector, FiniteSetTheorems, WellFoundedInduction, TLAPS

Subscription == [users: SUBSET Users, groups: SUBSET Groups, priority: Priorities,
                 refs: RefLists, phase: Phases, deleting: BOOLEAN,
                 statuses: Seq([model: Models, ready: BOOLEAN])]

IInv ==
    /\ IsFiniteSet(DOMAIN subs)
    /\ DOMAIN subs \subseteq Names
    /\ subs \in [DOMAIN subs -> Subscription]
-----------------------------------------------------------------------------
(* Orders. *)

Total(R, S) == \A a, b \in S : a # b => <<a, b>> \in R \/ <<b, a>> \in R

\* Of a finite set, every strict total order has a first element.
LEMMA FirstExists ==
    \A S, R :
        IsFiniteSet(S) /\ S # {} /\ Total(R, S) /\ IsTransitivelyClosedOn(R, S)
        => \E n \in S : \A o \in S \ {n} : <<n, o>> \in R
<1> SUFFICES ASSUME NEW S, NEW R, IsFiniteSet(S), S # {}, Total(R, S),
                    IsTransitivelyClosedOn(R, S)
             PROVE  \E n \in S : \A o \in S \ {n} : <<n, o>> \in R
  OBVIOUS
<1> USE DEF Total, IsTransitivelyClosedOn
<1> DEFINE First(T) == \E n \in T : \A o \in T \ {n} : <<n, o>> \in R
           Bad == {T \in SUBSET S : T # {} /\ ~First(T)}
<1> SUFFICES ASSUME ~First(S) PROVE FALSE
  OBVIOUS
<1>1. IsWellFoundedOn(StrictSubsetOrdering(S), SUBSET S)
  <2>1. FiniteSubsetsOf(S) = SUBSET S
    BY FS_FiniteSubsetsOfFinite
  <2>2. IsWellFoundedOn(StrictSubsetOrdering(S), FiniteSubsetsOf(S))
    BY FS_StrictSubsetOrderingWellFounded, Zenon
  <2> QED
    BY <2>1, <2>2, Zenon
<1>2. S \in Bad
  OBVIOUS
<1>3. PICK T \in Bad : \A U \in Bad : ~(<<U, T>> \in StrictSubsetOrdering(S))
  <2>1. Bad \subseteq SUBSET S /\ Bad # {}
    BY <1>2
  <2> HIDE DEF Bad
  <2> QED
    BY <1>1, <2>1, WFMin
<1>4. PICK x \in T : TRUE
  OBVIOUS
<1>5. T \ {x} \notin Bad
  <2>1. <<T \ {x}, T>> \in StrictSubsetOrdering(S)
    <3>1. T \in SUBSET S /\ T \ {x} \in SUBSET S /\ T \ {x} \subseteq T /\ T \ {x} # T
      BY <1>4
    <3> QED
      BY <3>1 DEF StrictSubsetOrdering
  <2> HIDE DEF Bad
  <2> QED
    BY <1>3, <2>1
<1>6. CASE T = {x}
  BY <1>6
<1>7. CASE T # {x}
  <2>1. T \ {x} # {}
    BY <1>4, <1>7
  <2>2. PICK n \in T \ {x} : \A o \in (T \ {x}) \ {n} : <<n, o>> \in R
    BY <1>5, <2>1
  <2>3. CASE <<n, x>> \in R
    BY <2>2, <2>3
  <2>4. CASE <<x, n>> \in R
    BY <1>4, <2>2, <2>4
  <2> QED
    BY <1>4, <2>2, <2>3, <2>4
<1> QED
  BY <1>6, <1>7

LEMMA MaxOfNats ==
    ASSUME NEW S, S \subseteq Nat, IsFiniteSet(S), S # {}
    PROVE  Max(S) \in S /\ \A x \in S : Max(S) >= x
<1> DEFINE R == {p \in S \X S : p[1] > p[2]}
<1>1. \A a, b \in S : <<a, b>> \in R <=> a > b
  OBVIOUS
<1>2. Total(R, S)
  BY <1>1 DEF Total
<1>3. IsTransitivelyClosedOn(R, S)
  BY <1>1 DEF IsTransitivelyClosedOn
<1> HIDE DEF R
<1>4. \E n \in S : \A o \in S \ {n} : <<n, o>> \in R
  BY <1>2, <1>3, FirstExists, Zenon
<1>5. PICK n \in S : \A o \in S \ {n} : <<n, o>> \in R
  BY <1>4
<1>6. ASSUME NEW o \in S PROVE n >= o
  <2>1. CASE o = n
    BY <2>1
  <2>2. CASE o # n
    <3>1. <<n, o>> \in R
      BY <1>5, <2>2
    <3> QED
      BY <1>1, <3>1
  <2> QED
    BY <2>1, <2>2
<1> QED
  BY <1>6, Zenon DEF Max

LEMMA MinOfNats ==
    ASSUME NEW S, S \subseteq Nat, S # {}
    PROVE  Min(S) \in S /\ \A x \in S : Min(S) <= x
<1> PICK top \in S : TRUE
  OBVIOUS
<1> DEFINE T == S \cap 0 .. top
           R == {p \in T \X T : p[1] < p[2]}
<1>1. T # {} /\ T \subseteq Nat
  OBVIOUS
<1>2. IsFiniteSet(T)
  <2>1. IsFiniteSet(0 .. top)
    BY FS_Interval
  <2> QED
    BY <2>1, FS_Subset
<1>3. \A a, b \in T : <<a, b>> \in R <=> a < b
  OBVIOUS
<1>4. Total(R, T)
  BY <1>1, <1>3 DEF Total
<1>5. IsTransitivelyClosedOn(R, T)
  BY <1>1, <1>3 DEF IsTransitivelyClosedOn
<1>6. \E n \in T : \A o \in T \ {n} : <<n, o>> \in R
  <2> HIDE DEF T, R
  <2> QED
    BY <1>1, <1>2, <1>4, <1>5, FirstExists, Zenon
<1>7. PICK n \in T : \A o \in T \ {n} : <<n, o>> \in R
  BY <1>6
<1>8. ASSUME NEW o \in T PROVE n <= o
  <2> HIDE DEF T, R
  <2>1. CASE o = n
    BY <1>1, <2>1
  <2>2. CASE o # n
    <3>1. <<n, o>> \in R
      BY <1>7, <2>2
    <3> QED
      BY <1>1, <1>3, <3>1
  <2> QED
    BY <2>1, <2>2
<1>9. n \in S /\ \A o \in S : n <= o
  BY <1>1, <1>8
<1> QED
  BY <1>9, Zenon DEF Min

LEMMA IsASeq ==
    ASSUME NEW T, NEW n \in Nat, NEW f \in [1 .. n -> T]
    PROVE  f \in Seq(T)
OBVIOUS

LEMMA SeqElement ==
    ASSUME NEW T, NEW q \in Seq(T), NEW i \in DOMAIN q
    PROVE  q[i] \in T
OBVIOUS

\* parseSubscription finds a maximum, of no limits too.
LEMMA MaxLimitType ==
    ASSUME NEW s \in Subscription
    PROVE  MaxLimit(s) \in Nat
<1> DEFINE L == {s.refs[i].limits : i \in DOMAIN s.refs}
           f == [i \in DOMAIN s.refs |-> s.refs[i].limits]
<1>1. s.refs \in Seq([model: Models, limits: SUBSET Nat])
  BY SelectorAssumption DEF Subscription
<1>2. s.refs \in RefLists
  BY DEF Subscription
<1>3. IsFiniteSet(DOMAIN s.refs)
  <2>1. DOMAIN s.refs = 1 .. Len(s.refs) /\ Len(s.refs) \in Nat
    BY <1>1
  <2> QED
    BY <2>1, FS_Interval
<1>4. f \in Surjection(DOMAIN s.refs, L)
  BY DEF Surjection
<1>5. IsFiniteSet(L)
  <2> HIDE DEF L, f
  <2> QED
    BY <1>3, <1>4, FS_Surjection
<1>6. \A T \in L : IsFiniteSet(T) /\ T \subseteq Nat
  <2> TAKE T \in L
  <2>1. PICK i \in DOMAIN s.refs : T = s.refs[i].limits
    OBVIOUS
  <2>2. IsFiniteSet(s.refs[i].limits)
    BY <1>2, <2>1, SelectorAssumption
  <2>3. s.refs[i] \in [model: Models, limits: SUBSET Nat]
    BY <1>1, <2>1, SeqElement
  <2> QED
    BY <2>1, <2>2, <2>3
<1>7. IsFiniteSet(UNION L)
  <2> HIDE DEF L
  <2> QED
    BY <1>5, <1>6, FS_UNION
<1>8. UNION L \subseteq Nat
  <2> HIDE DEF L
  <2> QED
    BY <1>6
<1>9. IsFiniteSet({0} \cup UNION L)
  <2> HIDE DEF L
  <2> QED
    BY <1>7, FS_Singleton, FS_Union
<1>10. Max({0} \cup UNION L) \in Nat
  <2> HIDE DEF L
  <2> QED
    BY <1>8, <1>9, MaxOfNats
<1> QED
  BY <1>10 DEF MaxLimit
-----------------------------------------------------------------------------
(* The cache. *)

\* One object of the cache changes, or is new.
LEMMA Replace ==
    ASSUME IInv, NEW n \in Names, NEW s \in Subscription,
           subs' = [k \in DOMAIN subs \cup {n} |-> IF k = n THEN s ELSE subs[k]]
    PROVE  IInv'
<1>1. DOMAIN subs' = DOMAIN subs \cup {n}
  OBVIOUS
<1>2. IsFiniteSet(DOMAIN subs')
  BY <1>1, FS_AddElement DEF IInv
<1>3. \A k \in DOMAIN subs' : subs'[k] \in Subscription
  BY <1>1 DEF IInv
<1>4. subs' \in [DOMAIN subs' -> Subscription]
  BY <1>1, <1>3
<1> QED
  BY <1>1, <1>2, <1>4 DEF IInv

LEMMA ReplaceExcept ==
    ASSUME IInv, NEW n \in DOMAIN subs, NEW s \in Subscription, subs' = [subs EXCEPT ![n] = s]
    PROVE  IInv'
<1>1. DOMAIN subs' = DOMAIN subs
  OBVIOUS
<1> QED
  BY <1>1 DEF IInv

LEMMA Next_IInv == IInv /\ [Next]_vars => IInv'
<1> SUFFICES ASSUME IInv, [Next]_vars PROVE IInv'
  OBVIOUS
<1>1. CASE UNCHANGED vars
  BY <1>1 DEF IInv, vars
<1>2. ASSUME NEW n \in Names, NEW users \in SUBSET Users, NEW groups \in SUBSET Groups,
             NEW priority \in Priorities, NEW refs \in RefLists,
             Apply(n, users, groups, priority, refs)
      PROVE  IInv'
  <2> DEFINE old == IF n \in DOMAIN subs THEN subs[n]
                    ELSE [phase |-> "", statuses |-> <<>>, deleting |-> FALSE]
             new == [users |-> users, groups |-> groups, priority |-> priority, refs |-> refs,
                     phase |-> old.phase, statuses |-> old.statuses, deleting |-> old.deleting]
  <2>1. /\ old.phase \in Phases /\ old.deleting \in BOOLEAN
        /\ old.statuses \in Seq([model: Models, ready: BOOLEAN])
    <3>1. CASE n \in DOMAIN subs
      <4>1. old = subs[n] /\ subs[n] \in Subscription
        BY <3>1 DEF IInv
      <4> QED
        BY <4>1 DEF Subscription
    <3>2. CASE n \notin DOMAIN subs
      <4>1. old = [phase |-> "", statuses |-> <<>>, deleting |-> FALSE]
        BY <3>2
      <4>2. <<>> \in Seq([model: Models, ready: BOOLEAN])
        OBVIOUS
      <4> HIDE DEF old
      <4> QED
        BY <4>1, <4>2 DEF Phases
    <3> QED
      BY <3>1, <3>2
  <2> HIDE DEF old
  <2>2. new \in Subscription
    BY <2>1 DEF Subscription
  <2>3. subs' = [k \in DOMAIN subs \cup {n} |-> IF k = n THEN new ELSE subs[k]]
    BY <1>2 DEF Apply, old
  <2> HIDE DEF new
  <2> QED
    BY <2>2, <2>3, Replace
<1>3. ASSUME NEW n \in Names, NEW phase \in {"Active", "Degraded", "Failed"}, NEW ready,
             WriteStatus(n, phase, ready)
      PROVE  IInv'
  <2> DEFINE st == [i \in DOMAIN subs[n].refs |->
                      [model |-> subs[n].refs[i].model, ready |-> i \in ready]]
             new == [subs[n] EXCEPT !.phase = phase, !.statuses = st]
  <2>1. n \in DOMAIN subs /\ subs[n] \in Subscription
    BY <1>3 DEF WriteStatus, IInv
  <2>2. subs[n].refs \in Seq([model: Models, limits: SUBSET Nat])
    BY <2>1, SelectorAssumption DEF Subscription
  <2>3. st \in Seq([model: Models, ready: BOOLEAN])
    <3>1. \A i \in DOMAIN subs[n].refs : subs[n].refs[i] \in [model: Models, limits: SUBSET Nat]
      BY <2>2, SeqElement
    <3>2. ASSUME NEW i \in DOMAIN st PROVE st[i] \in [model: Models, ready: BOOLEAN]
      <4>1. st[i] = [model |-> subs[n].refs[i].model, ready |-> i \in ready]
        OBVIOUS
      <4>2. (i \in ready) \in BOOLEAN /\ subs[n].refs[i].model \in Models
        BY <3>1
      <4> DEFINE b == i \in ready
      <4> HIDE DEF st, b
      <4> QED
        BY <4>1, <4>2 DEF b
    <3>3. DOMAIN st = 1 .. Len(subs[n].refs) /\ Len(subs[n].refs) \in Nat
      BY <2>2
    <3>4. st \in [1 .. Len(subs[n].refs) -> [model: Models, ready: BOOLEAN]]
      BY <3>2, <3>3
    <3> HIDE DEF st
    <3> QED
      BY <3>3, <3>4, IsASeq
  <2> HIDE DEF st
  <2>4. new \in Subscription
    BY <2>1, <2>3 DEF Subscription, Phases
  <2>5. subs' = [subs EXCEPT ![n] = new]
    BY <1>3 DEF WriteStatus, st
  <2> HIDE DEF new
  <2> QED
    BY <2>1, <2>4, <2>5, ReplaceExcept
<1>4. ASSUME NEW n \in Names, WriteFailed(n)
      PROVE  IInv'
  <2> DEFINE new == [subs[n] EXCEPT !.phase = "Failed"]
  <2>1. n \in DOMAIN subs /\ subs[n] \in Subscription /\ subs' = [subs EXCEPT ![n] = new]
    BY <1>4 DEF WriteFailed, IInv
  <2>2. new \in Subscription
    BY <2>1 DEF Subscription, Phases
  <2> HIDE DEF new
  <2> QED
    BY <2>1, <2>2, ReplaceExcept
<1>5. ASSUME NEW n \in Names, Delete(n)
      PROVE  IInv'
  <2>1. CASE subs[n].deleting
    <3>1. subs' = [k \in DOMAIN subs \ {n} |-> subs[k]]
      BY <1>5, <2>1 DEF Delete
    <3>2. DOMAIN subs' = DOMAIN subs \ {n}
      BY <3>1
    <3>3. IsFiniteSet(DOMAIN subs')
      BY <3>2, FS_RemoveElement DEF IInv
    <3>4. subs' \in [DOMAIN subs' -> Subscription]
      BY <3>1, <3>2 DEF IInv
    <3> QED
      BY <3>2, <3>3, <3>4 DEF IInv
  <2>2. CASE ~subs[n].deleting
    <3> DEFINE new == [subs[n] EXCEPT !.deleting = TRUE]
    <3>1. n \in DOMAIN subs /\ subs[n] \in Subscription /\ subs' = [subs EXCEPT ![n] = new]
      BY <1>5, <2>2 DEF Delete, IInv
    <3>2. new \in Subscription
      BY <3>1 DEF Subscription
    <3> HIDE DEF new
    <3> QED
      BY <3>1, <3>2, ReplaceExcept
  <2> QED
    BY <2>1, <2>2
<1> QED
  BY <1>1, <1>2, <1>3, <1>4, <1>5 DEF Next

LEMMA Inductive == Spec => []IInv
<1>1. Init => IInv
  <2> SUFFICES ASSUME Init PROVE IInv
    OBVIOUS
  <2>1. DOMAIN subs = {}
    BY DEF Init
  <2> QED
    BY <2>1, FS_EmptySet DEF Init, IInv
<1> QED
  BY <1>1, Next_IInv, PTL DEF Spec
-----------------------------------------------------------------------------
(* The selector. *)

\* What Select answers for a subscription by name.
LEMMA NamedOk ==
    ASSUME NEW n, NEW q, NEW m, SelectNamed(n, q, m).error = ""
    PROVE  /\ n \in DOMAIN subs /\ userHasAccess(subs[n], q)
           /\ m # NoModel => subscriptionIncludesModel(subs[n], m)
           /\ checkModelHealth(subs[n], m)
           /\ SelectNamed(n, q, m) = Ok(n) /\ Ok(n).name = n
BY DEF SelectNamed, Vet, Ok, Refuse

\* Names that the gateway accepts.
LEMMA InferableOk ==
    ASSUME NEW n, NEW q, NEW m \in Models, Inferable(n, q, m)
    PROVE  /\ n \in DOMAIN subs /\ userHasAccess(subs[n], q)
           /\ subscriptionIncludesModel(subs[n], m)
           /\ InferenceHealthy(subs[n], m)
           /\ subs[n].phase \in {"Active", "Degraded"} /\ ~subs[n].deleting
<1>1. m # NoModel
  BY SelectorAssumption
<1>2. SelectNamed(n, q, m).error = ""
  BY DEF Inferable, SubscriptionValid
<1>3. SelectNamed(n, q, m).name = n
  BY <1>2, NamedOk
<1>4. checkModelHealth(subs[n], m)
  BY <1>2, NamedOk
<1> QED
  BY <1>1, <1>2, <1>3, <1>4, NamedOk DEF Inferable, SubscriptionValid, checkModelHealth

\* The order of sortSubscriptionsByPriority is a strict total one.
LEMMA SortsBeforeOrder ==
    ASSUME IInv
    PROVE  /\ \A a, b \in DOMAIN subs : a # b => SortsBefore(a, b) \/ SortsBefore(b, a)
           /\ \A a, b, c \in DOMAIN subs : SortsBefore(a, b) /\ SortsBefore(b, c) => SortsBefore(a, c)
           /\ \A a, b \in DOMAIN subs : ~(SortsBefore(a, b) /\ SortsBefore(b, a))
<1>1. \A a \in DOMAIN subs : a \in Nat /\ subs[a].priority \in Nat /\ MaxLimit(subs[a]) \in Nat
  <2> TAKE a \in DOMAIN subs
  <2>1. subs[a] \in Subscription /\ a \in Nat
    BY SelectorAssumption DEF IInv
  <2> QED
    BY <2>1, MaxLimitType, SelectorAssumption DEF Subscription
<1>2. \A a, b \in DOMAIN subs : a # b => SortsBefore(a, b) \/ SortsBefore(b, a)
  BY <1>1 DEF SortsBefore
<1>3. \A a, b, c \in DOMAIN subs : SortsBefore(a, b) /\ SortsBefore(b, c) => SortsBefore(a, c)
  BY <1>1 DEF SortsBefore
<1>4. \A a, b \in DOMAIN subs : ~(SortsBefore(a, b) /\ SortsBefore(b, a))
  BY <1>1 DEF SortsBefore
<1> QED
  BY <1>2, <1>3, <1>4

LEMMA FirstAccessible ==
    ASSUME IInv, NEW q, Accessible(q) # {}
    PROVE  \E n \in Accessible(q) : \A o \in Accessible(q) \ {n} : SortsBefore(n, o)
<1> DEFINE A == Accessible(q)
           R == {p \in A \X A : SortsBefore(p[1], p[2])}
<1>1. A \subseteq DOMAIN subs
  BY DEF Accessible
<1>2. IsFiniteSet(A)
  BY <1>1, FS_Subset DEF IInv
<1>3. ASSUME NEW a \in A, NEW b \in A PROVE <<a, b>> \in R <=> SortsBefore(a, b)
  BY <1>3, Zenon
<1> HIDE DEF A, R
<1>4. Total(R, A)
  BY <1>1, <1>3, SortsBeforeOrder DEF Total
<1>5. IsTransitivelyClosedOn(R, A)
  BY <1>1, <1>3, SortsBeforeOrder DEF IsTransitivelyClosedOn
<1>6. \E n \in A : \A o \in A \ {n} : <<n, o>> \in R
  BY <1>2, <1>4, <1>5, FirstExists, Zenon DEF A
<1>7. \E n \in A : \A o \in A \ {n} : SortsBefore(n, o)
  BY <1>3, <1>6
<1> QED
  BY <1>7 DEF A
-----------------------------------------------------------------------------
(* Theorems. *)

\* The cached objects keep their types through every event of the informer.
THEOREM TypeCorrect == Spec => []TypeOK
<1>1. IInv => TypeOK
  BY DEF IInv, TypeOK, Subscription
<1> QED
  BY <1>1, Inductive, PTL

\* sortSubscriptionsByPriority leaves nothing to the order of the lister: of
\* any number of accessible subscriptions exactly one is first.
THEOREM SelectionIsDeterministic == Spec => []SelectionDeterministic
<1>1. ASSUME IInv, NEW q \in Callers, Accessible(q) # {}
      PROVE  Cardinality({n \in Accessible(q) :
                            \A o \in Accessible(q) \ {n} : SortsBefore(n, o)}) = 1
  <2> DEFINE F == {n \in Accessible(q) : \A o \in Accessible(q) \ {n} : SortsBefore(n, o)}
  <2>1. PICK n \in Accessible(q) : \A o \in Accessible(q) \ {n} : SortsBefore(n, o)
    BY <1>1, FirstAccessible
  <2>2. \A k \in F : k = n
    <3> TAKE k \in F
    <3>1. k \in DOMAIN subs /\ n \in DOMAIN subs
      BY DEF Accessible
    <3> QED
      BY <1>1, <2>1, <3>1, SortsBeforeOrder
  <2>3. F = {n}
    BY <2>1, <2>2
  <2> QED
    BY <2>3, FS_Singleton
<1>2. IInv => SelectionDeterministic
  BY <1>1 DEF SelectionDeterministic
<1> QED
  BY <1>2, Inductive, PTL

\* Select for inference, GetAllAccessible and ListAccessibleForModel agree:
\* what a user can infer through is shown to that user.
THEOREM InferenceIsListed == Spec => []InferableIsListed
<1>1. ASSUME NEW q \in Callers, NEW n \in Names, NEW m \in Models, Inferable(n, q, m)
      PROVE  n \in GetAllAccessible(q) /\ n \in ListAccessibleForModel(q, m.name)
  <2>1. n \in Accessible(q)
    BY <1>1, InferableOk DEF Accessible
  <2>2. PICK i \in DOMAIN subs[n].refs : subs[n].refs[i].model = m
    BY <1>1, InferableOk DEF subscriptionIncludesModel
  <2> QED
    BY <1>1, <2>1, <2>2, InferableOk DEF GetAllAccessible, ListAccessibleForModel
<1>2. InferableIsListed
  BY <1>1 DEF InferableIsListed
<1> QED
  BY <1>2, PTL

\* checkModelHealth searches the statuses by name and takes the first hit; for
\* a name that one model has, that is the status of this model, whatever spec
\* the statuses were written for.
THEOREM DegradedIsRateLimited == Spec => []DegradedNeedsOwnRateLimit
<1>1. ASSUME IInv, NEW q \in Callers, NEW n \in DOMAIN subs, NEW m \in Models,
             \A o \in Models \ {m} : o.name # m.name,
             Inferable(n, q, m), subs[n].phase = "Degraded",
             \E i \in DOMAIN subs[n].refs : subs[n].refs[i].model = m /\ subs[n].refs[i].limits # {}
      PROVE  \E i \in DOMAIN subs[n].statuses :
                subs[n].statuses[i] = [model |-> m, ready |-> TRUE]
  <2> DEFINE st == subs[n].statuses
             hits == {i \in DOMAIN st : st[i].model.name = m.name}
  <2>1. hits # {} /\ st[Min(hits)].ready
    <3>1. InferenceHealthy(subs[n], m)
      BY <1>1, InferableOk
    <3> QED
      BY <1>1, <3>1 DEF InferenceHealthy
  <2>2. st \in Seq([model: Models, ready: BOOLEAN])
    BY <1>1 DEF IInv, Subscription
  <2>3. hits \subseteq Nat
    BY <2>2
  <2>4. Min(hits) \in hits
    BY <2>1, <2>3, MinOfNats
  <2>5. st[Min(hits)] \in [model: Models, ready: BOOLEAN]
    BY <2>2, <2>4, SeqElement
  <2>6. st[Min(hits)].model = m
    BY <1>1, <2>4, <2>5
  <2>7. st[Min(hits)] = [model |-> m, ready |-> TRUE]
    BY <2>1, <2>5, <2>6
  <2> QED
    BY <2>4, <2>7
<1>2. IInv => DegradedNeedsOwnRateLimit
  BY <1>1 DEF DegradedNeedsOwnRateLimit
<1> QED
  BY <1>2, Inductive, PTL

\* Select without a name makes no choice that Select by name would not bear
\* out.  SelectHighestPriority does: it takes the first of all subscriptions of
\* the user, and when that one is Failed or unreconciled, and only then, naming
\* it is refused.
THEOREM UnnamedSelection == Spec => []UnnamedAgainstNamed
<1>1. ASSUME IInv, NEW q \in Callers, NEW m \in Models \cup {NoModel}, SelectAuto(q, m).error = ""
      PROVE  /\ SelectNamed(SelectAuto(q, m).name, q, m) = SelectAuto(q, m)
             /\ \A n \in DOMAIN subs :
                  SelectNamed(n, q, m).error = "" => n = SelectAuto(q, m).name
  <2> DEFINE c == {n \in Accessible(q) : m = NoModel \/ subscriptionIncludesModel(subs[n], m)}
  <2>1. IsFiniteSet(c)
    <3>1. c \subseteq DOMAIN subs
      BY DEF Accessible
    <3> QED
      BY <1>1, <3>1, FS_Subset DEF IInv
  <2>2. c # {} /\ Cardinality(c) = 1
    <3>1. CASE c = {}
      <4>1. Cardinality(c) # 1
        BY <3>1, FS_EmptySet
      <4>2. SelectAuto(q, m) = Refuse("not_found")
        BY <3>1, <4>1 DEF SelectAuto
      <4> QED
        BY <1>1, <4>2 DEF Refuse
    <3>2. CASE c # {} /\ Cardinality(c) # 1
      <4>1. SelectAuto(q, m) = Refuse("multiple_subscriptions")
        BY <3>2 DEF SelectAuto
      <4> QED
        BY <1>1, <4>1 DEF Refuse
    <3> QED
      BY <3>1, <3>2
  <2>3. PICK x : c = {x}
    BY <2>1, <2>2, FS_Singleton
  <2>4. (CHOOSE n \in c : TRUE) = x
    BY <2>3
  <2>5. SelectAuto(q, m) = Vet(x, q, m)
    BY <2>2, <2>4 DEF SelectAuto
  <2>6. x \in DOMAIN subs
    BY <2>3 DEF Accessible
  <2>7. SelectNamed(x, q, m) = SelectAuto(q, m)
    BY <2>5, <2>6 DEF SelectNamed
  <2>8. SelectAuto(q, m).name = x
    BY <1>1, <2>7, NamedOk
  <2>9. ASSUME NEW n \in DOMAIN subs, SelectNamed(n, q, m).error = ""
        PROVE  n = x
    <3>1. n \in c
      BY <2>9, NamedOk DEF Accessible
    <3> QED
      BY <2>3, <3>1
  <2> QED
    BY <2>7, <2>8, <2>9
<1>2. ASSUME IInv, NEW q \in Callers, \E n \in DOMAIN subs : userHasAccess(subs[n], q)
      PROVE  LET r == MintSubscription(q, -1) IN
             /\ r.error = ""
             /\ \A n \in DOMAIN subs \ {r.name} :
                  userHasAccess(subs[n], q) => SortsBefore(r.name, n)
             /\ MintSubscription(q, r.name) =
                  IF subs[r.name].phase \in {"", "Failed"} THEN Refuse("model_unhealthy") ELSE r
  <2> DEFINE first == CHOOSE n \in Accessible(q) : \A o \in Accessible(q) \ {n} : SortsBefore(n, o)
  <2>1. Accessible(q) # {} /\ MintSubscription(q, -1) = Ok(first)
    BY <1>2 DEF MintSubscription, SelectHighestPriority, Accessible
  <2>2. first \in Accessible(q) /\ \A o \in Accessible(q) \ {first} : SortsBefore(first, o)
    BY <1>2, <2>1, FirstAccessible
  <2> HIDE DEF first
  <2>3. \A n \in DOMAIN subs : n \in Nat /\ n # -1
    <3>1. DOMAIN subs \subseteq Nat
      BY <1>2, SelectorAssumption DEF IInv
    <3> QED
      BY <3>1
  <2>4. first \in DOMAIN subs /\ userHasAccess(subs[first], q)
    BY <2>2 DEF Accessible
  <2>5. MintSubscription(q, first) =
          IF subs[first].phase \in {"", "Failed"} THEN Refuse("model_unhealthy") ELSE Ok(first)
    BY <2>3, <2>4 DEF MintSubscription, SelectNamed, Vet, checkModelHealth, MintHealthy
  <2>6. \A n \in DOMAIN subs \ {first} : userHasAccess(subs[n], q) => SortsBefore(first, n)
    BY <2>2 DEF Accessible
  <2>7. Ok(first).name = first /\ Ok(first).error = ""
    BY DEF Ok
  <2>8. MintSubscription(q, -1).name = first /\ MintSubscription(q, -1).error = ""
    BY <2>1, <2>7, Zenon
  <2> QED
    BY <2>1, <2>5, <2>6, <2>8
<1>3. IInv => UnnamedAgainstNamed
  BY <1>1, <1>2 DEF UnnamedAgainstNamed
<1> QED
  BY <1>3, Inductive, PTL
=============================================================================
