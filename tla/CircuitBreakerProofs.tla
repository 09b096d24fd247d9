------------------------ MODULE CircuitBreakerProofs ------------------------
(***************************************************************************)
(* Proofs that the circuit breaker's invariants hold for every set of      *)
(* callers, every threshold and every reset timeout.                       *)
(***************************************************************************)
EXTENDS CircuitBreaker, FiniteSetTheorems, TLAPS

(***************************************************************************)
(* The set of calls in flight is finite, and admitting or reporting a call *)
(* changes its size by one.                                                *)
(***************************************************************************)
LEMMA CallingFinite ==
    /\ IsFiniteSet(Calling)
    /\ Cardinality(Calling) \in Nat
    /\ Cardinality(Callers) \in Nat
    /\ Cardinality(Calling) <= Cardinality(Callers)
<1>1. Calling \subseteq Callers
  BY DEF Calling
<1>2. QED
  BY <1>1, CallersAssumption, FS_Subset, FS_CardinalityType

LEMMA CallingAfterReport ==
    ASSUME TypeOK, NEW c \in Callers, Report(c)
    PROVE  Cardinality(Calling') = Cardinality(Calling) - 1
<1>1. c \in Calling /\ Calling' = Calling \ {c}
  BY DEF TypeOK, Report, Calling
<1>2. QED
  BY <1>1, CallingFinite, FS_RemoveElement

LEMMA CallingAfterReturn ==
    ASSUME TypeOK, NEW c \in Callers, NEW p \in {"idle", "refused"},
           caller[c] # "calling", caller' = [caller EXCEPT ![c] = p]
    PROVE  Calling' = Calling
BY DEF TypeOK, Calling

(* The breaker's state stays in its types (breaker.go 11-51). *)
THEOREM BreakerTypeOK == Spec => []TypeOK
<1>1. Init => TypeOK
  BY PolicyAssumption DEF Init, TypeOK, Zero
<1>2. TypeOK /\ [Next]_vars => TypeOK'
  BY PolicyAssumption
     DEF TypeOK, Next, vars, Tick, Allow, AllowClosed, AllowReset, AllowRefused,
         Admit, Refuse, Report, Success, Failure, NextExecution, Open, Cooled, Zero
<1>3. QED
  BY <1>1, <1>2, PTL DEF Spec

(***************************************************************************)
(* The breaker is open exactly when the failure count has reached the      *)
(* threshold, in every interleaving of Allow, Success and Failure.         *)
(***************************************************************************)
THEOREM BreakerOpenIffThreshold == Spec => []OpenIffThreshold
<1>1. Init => OpenIffThreshold
  BY PolicyAssumption DEF Init, OpenIffThreshold, Open, Zero
<1>2. TypeOK /\ OpenIffThreshold /\ [Next]_vars => OpenIffThreshold'
  BY PolicyAssumption
     DEF TypeOK, OpenIffThreshold, Next, vars, Tick, Allow, AllowClosed, AllowReset,
         AllowRefused, Refuse, Success, Failure, NextExecution, Open, Cooled, Zero
<1>3. QED
  BY <1>1, <1>2, BreakerTypeOK, PTL DEF Spec

(***************************************************************************)
(* Late failures overshoot the threshold by no more than the calls that    *)
(* were in flight: a closed breaker is below the threshold with at most    *)
(* every caller in flight, and an open one admits nobody.                  *)
(***************************************************************************)
THEOREM BreakerOvershootBounded == Spec => []OvershootBounded
<1>1. Init => OvershootBounded
  <2> SUFFICES ASSUME Init PROVE OvershootBounded
    OBVIOUS
  <2>1. Calling = {}
    BY DEF Init, Calling
  <2>2. QED
    BY <2>1, FS_EmptySet, CallingFinite, PolicyAssumption DEF Init, OvershootBounded
<1>2. TypeOK /\ OpenIffThreshold /\ OvershootBounded /\ [Next]_vars => OvershootBounded'
  <2> SUFFICES ASSUME TypeOK, OpenIffThreshold, OvershootBounded, [Next]_vars
               PROVE  OvershootBounded'
    OBVIOUS
  <2>0. /\ Cardinality(Callers) \in Nat /\ Cardinality(Calling) \in Nat
        /\ Cardinality(Calling') \in Nat
        /\ Cardinality(Calling') <= Cardinality(Callers)
    <3>1. Calling' \subseteq Callers
      BY DEF Calling
    <3>2. QED
      BY <3>1, CallingFinite, CallersAssumption, FS_Subset, FS_CardinalityType
  <2>1. ASSUME NEW c \in Callers, Allow(c) PROVE OvershootBounded'
    <3>1. CASE AllowClosed(c)
      BY <2>0, <3>1, PolicyAssumption
         DEF AllowClosed, OvershootBounded, OpenIffThreshold, TypeOK
    <3>2. CASE AllowReset(c)
      BY <2>0, <3>2, PolicyAssumption DEF AllowReset, OvershootBounded
    <3>3. CASE AllowRefused(c)
      BY <2>0, <2>1, <3>3, CallingAfterReturn
         DEF Allow, AllowRefused, Refuse, OvershootBounded
    <3>4. QED
      BY <2>1, <3>1, <3>2, <3>3 DEF Allow
  <2>2. ASSUME NEW c \in Callers, Success(c) PROVE OvershootBounded'
    BY <2>0, <2>2, PolicyAssumption DEF Success, OvershootBounded
  <2>3. ASSUME NEW c \in Callers, Failure(c) PROVE OvershootBounded'
    <3>1. Cardinality(Calling') = Cardinality(Calling) - 1
      BY <2>3, CallingAfterReport DEF Failure
    <3>2. failures' = failures + 1
      BY <2>3 DEF Failure
    <3>3. QED
      BY <2>0, <3>1, <3>2, PolicyAssumption DEF OvershootBounded, TypeOK
  <2>4. ASSUME NEW c \in Callers, NextExecution(c) PROVE OvershootBounded'
    BY <2>0, <2>4, CallingAfterReturn DEF NextExecution, OvershootBounded
  <2>5. CASE Tick \/ UNCHANGED vars
    BY <2>5 DEF Tick, vars, Calling, OvershootBounded
  <2>6. QED
    BY <2>1, <2>2, <2>3, <2>4, <2>5 DEF Next
<1>3. QED
  BY <1>1, <1>2, BreakerTypeOK, BreakerOpenIffThreshold, PTL DEF Spec
=============================================================================
