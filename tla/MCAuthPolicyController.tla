----------------------- MODULE MCAuthPolicyController -----------------------
(* Specs for the instances of AuthPolicyController.                         *)
EXTENDS AuthPolicyController, TLC

CONSTANTS chat, code, p1, p2

Grant(refs, subject) == [refs |-> refs, subjects |-> {subject}]

\* The ref moves between two models, the subject changes and may be unsafe.
TwoModelSpecs == {Grant({chat}, "alice"), Grant({code}, "bob"), Grant({chat}, "quote")}

\* One model.
OneModelSpecs == {Grant({chat}, "alice"), Grant({chat}, "bob")}

\* Two models, of which a policy refers to one.
MovingSpecs == {Grant({chat}, "alice"), Grant({code}, "bob")}

Symmetry == Permutations({p1, p2})
=============================================================================
