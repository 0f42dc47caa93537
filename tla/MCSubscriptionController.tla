---------------------- MODULE MCSubscriptionController ----------------------
(* Values of spec.modelRefs for the instances of SubscriptionController.    *)
EXTENDS SubscriptionController, TLC

CONSTANTS chat, code, gold, free

Lim(a, b) == (chat :> a) @@ (code :> b)

\* Two models: the ref to chat comes and goes.
Moving == {Lim(1, 1), Lim(0, 1)}

\* One model: its limits may become invalid, the ref stays.
Kept == {chat :> 1, chat :> -1}

Symmetry == Permutations({gold, free})
=============================================================================
