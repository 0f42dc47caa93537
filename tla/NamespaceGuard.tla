--------------------------- MODULE NamespaceGuard ---------------------------
(***************************************************************************)
(* The subscription namespace and the part of maas-controller's main that  *)
(* looks after it.  ensureSubscriptionNamespaceWithClient runs once before *)
(* the manager is made, where an error ends the process, and then from     *)
(* subscriptionNamespaceMonitor at every tick, where an error is logged.   *)
(* Every call of it to the API server is a step; in between others delete  *)
(* and create the namespace.                                               *)
(*                                                                         *)
(* A process that ends is started again by Kubernetes.  An empty phase of  *)
(* the namespace counts as Active, in the code too.                        *)
(***************************************************************************)
EXTENDS Integers

CONSTANTS
    Kinds,              \* the disturbances that happen, see Disturb
    MaxDisturbances,    \* bound: how many of them
    Steps               \* wait.Backoff's Steps: how often Create is tried

ASSUME GuardAssumption == MaxDisturbances \in Nat /\ Steps \in Nat \ {0}

VARIABLES
    ns,         \* the namespace
    perm,       \* the service account's verbs on namespaces: get and create
                \* ("full"), "get" or "none"
    mgr,        \* before or after mgr.Start
    guard,      \* the call of ensureSubscriptionNamespaceWithClient
    used        \* disturbances so far; also the source of fresh numbers

guardVars == <<ns, perm, mgr, guard>>
-----------------------------------------------------------------------------
\* tries counts down the attempts to create the namespace.
Guard == [pc : {"idle", "poll", "final", "create", "recheck"}, tries : 1 .. Steps]
GuardIdle == [pc |-> "idle", tries |-> Steps]

GuardInit ==
    /\ ns \in {"absent", "active"}
    /\ perm = "full"
    /\ mgr = "starting"
    /\ guard = GuardIdle
    /\ used = 0

\* A disturbance of the kind k may happen, and is counted.
Disturb(k) ==
    /\ k \in Kinds
    /\ used < MaxDisturbances
    /\ used' = used + 1
-----------------------------------------------------------------------------
\* The call returns.  main goes on to start the manager or exits, and then
\* starts anew; the monitor goes on either way.
Return(ok) ==
    /\ guard' = GuardIdle
    /\ mgr' = IF ok THEN "running" ELSE mgr

\* Whether the namespace is there or cannot be seen, which the code takes for
\* managed by somebody else.
Satisfied == perm = "none" \/ ns = "active"

Goto(pc) == guard' = [pc |-> pc, tries |-> Steps] /\ UNCHANGED mgr

\* The first Get, of main and of each tick.
EnsureSubscriptionNamespace ==
    /\ guard.pc = "idle"
    /\ \/ Satisfied /\ Return(TRUE)
       \/ ~Satisfied /\ ns = "terminating" /\ Goto("poll")
       \/ ~Satisfied /\ ns = "absent" /\ Goto("create")
    /\ UNCHANGED <<ns, perm, used>>

\* Faulty: the poll's time-out is no error.
PollIgnoresTimeout ==
    /\ guard.pc = "poll"
    /\ \/ (ns # "terminating" \/ perm = "none") /\ Goto("final")
       \/ ns = "terminating" /\ Return(TRUE)
    /\ UNCHANGED <<ns, perm, used>>

\* PollUntilContextTimeout: it ends when the namespace is gone, back or no
\* longer to be seen, or after 90 seconds, which is any time.
PollTermination ==
    /\ guard.pc = "poll"
    /\ \/ (ns # "terminating" \/ perm = "none") /\ Goto("final")
       \/ ns = "terminating" /\ Return(FALSE)
    /\ UNCHANGED <<ns, perm, used>>

resolveNamespaceAfterTerminationWait ==
    /\ guard.pc = "final"
    /\ \/ Satisfied /\ Return(TRUE)
       \/ ~Satisfied /\ ns = "absent" /\ Goto("create")
       \/ ~Satisfied /\ ns = "terminating" /\ Return(FALSE)
    /\ UNCHANGED <<ns, perm, used>>

\* Faulty: one attempt too many.
RetryOnceMore ==
    \/ guard.tries = 0 /\ Return(FALSE)
    \/ guard.tries > 0 /\ guard' = [pc |-> "create", tries |-> guard.tries - 1] /\ UNCHANGED mgr

\* ExponentialBackoffWithContext: the next attempt, or none is left.
Retry ==
    \/ guard.tries = 1 /\ Return(FALSE)
    \/ guard.tries > 1 /\ guard' = [pc |-> "create", tries |-> guard.tries - 1] /\ UNCHANGED mgr

\* Create is forbidden, successful or AlreadyExists.
CreateNamespace ==
    /\ guard.pc = "create"
    /\ \/ perm # "full" /\ Return(FALSE) /\ UNCHANGED ns
       \/ perm = "full" /\ ns = "absent" /\ ns' = "active" /\ Return(TRUE)
       \/ perm = "full" /\ ns # "absent"
          /\ guard' = [guard EXCEPT !.pc = "recheck"] /\ UNCHANGED <<ns, mgr>>
    /\ UNCHANGED <<perm, used>>

\* AlreadyExists only proves that the name is taken.
RecheckNamespace ==
    /\ guard.pc = "recheck"
    /\ \/ ns = "active" /\ perm # "none" /\ Return(TRUE)
       \/ (ns # "active" \/ perm = "none") /\ Retry
    /\ UNCHANGED <<ns, perm, used>>

\* A call fails for another reason: only Create, and the Get after it, are
\* tried again.
GuardCallFails ==
    /\ Disturb("failure")
    /\ \/ guard.pc = "idle" /\ mgr = "starting" /\ Return(FALSE)
       \/ guard.pc \in {"poll", "final"} /\ Return(FALSE)
       \/ guard.pc \in {"create", "recheck"} /\ Retry
    /\ UNCHANGED <<ns, perm>>

GuardStep ==
    \/ EnsureSubscriptionNamespace \/ PollTermination
    \/ resolveNamespaceAfterTerminationWait \/ CreateNamespace \/ RecheckNamespace

\* The operator creates the namespace.
OperatorCreatesNamespace ==
    /\ Disturb("namespace")
    /\ ns = "absent"
    /\ ns' = "active"
    /\ UNCHANGED <<perm, mgr, guard>>

\* An administrator changes the role of the service account.
ChangePermission(new) ==
    /\ Disturb("permission")
    /\ perm' = new /\ new # perm
    /\ UNCHANGED <<ns, mgr, guard>>
-----------------------------------------------------------------------------
(* Properties. *)

GuardTypeOK ==
    /\ ns \in {"absent", "active", "terminating"}
    /\ perm \in {"full", "get", "none"}
    /\ mgr \in {"starting", "running"}
    /\ guard \in Guard
    /\ used \in 0 .. MaxDisturbances
=============================================================================
