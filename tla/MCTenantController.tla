------------------------ MODULE MCTenantController --------------------------
(* Instances of TenantController. *)
EXTENDS TenantController
=============================================================================
