--------------------------- MODULE MCGatewayAuth ---------------------------
(* One key, two concurrent requests, TTLs longer than one clock unit.       *)
EXTENDS GatewayAuth, TLC

CONSTANTS t1, t2
Symmetry == Permutations({t1, t2})
=============================================================================
