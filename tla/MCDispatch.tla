----------------------------- MODULE MCDispatch -----------------------------
(***************************************************************************)
(* TLC instance of Dispatch: r1 and r2 race with one idempotency key on    *)
(* agent a1; r3 has no key and continues the conversation r1 opens, for    *)
(* the same agent or, wrongly, for another, or opens one of its own.       *)
(***************************************************************************)
EXTENDS Dispatch, TLC

CONSTANTS r1, r2, r3, a1, a2

MCKeyOf    == [r \in Requests |-> IF r = r3 THEN None ELSE "k"]
MCConvOf   == [r \in Requests |-> IF r = r3 THEN r1 ELSE None]
NewConvs   == [r \in Requests |-> None]
OneAgent   == [r \in Requests |-> a1]
OtherAgent == [r \in Requests |-> IF r = r3 THEN a2 ELSE a1]

Symmetry == Permutations(Workers)
=============================================================================
