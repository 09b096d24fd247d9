------------------------------ MODULE MCEngine ------------------------------
(* TLC instance of Engine. *)
EXTENDS Engine
=============================================================================
