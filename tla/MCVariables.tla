---------------------------- MODULE MCVariables ----------------------------
(* The instance of Variables that TLC checks.                              *)
EXTENDS Variables
=============================================================================
