------------------------ MODULE MCModelRefController ------------------------
(* The instance of ModelRefController that TLC checks.                      *)
EXTENDS ModelRefController
=============================================================================
