----------------------------- MODULE MCApiKeys -----------------------------
(* Small instances of ApiKeys.  One clock unit is 30 minutes.               *)
EXTENDS ApiKeys

CONSTANTS k1, t1, t2
=============================================================================
