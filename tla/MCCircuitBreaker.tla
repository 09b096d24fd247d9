-------------------------- MODULE MCCircuitBreaker --------------------------
(* TLC instance of CircuitBreaker. *)
EXTENDS CircuitBreaker, TLC

Symmetry == Permutations(Callers)
=============================================================================
