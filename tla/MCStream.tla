------------------------------ MODULE MCStream ------------------------------
(* TLC instance of Stream: a run with two tools that publish concurrently. *)
EXTENDS Stream

CONSTANTS main, t1, t2

MCCount == [g \in Goroutines |-> IF g = main THEN 2 ELSE 1]
=============================================================================
