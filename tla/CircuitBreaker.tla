--------------------------- MODULE CircuitBreaker ---------------------------
(***************************************************************************)
(* reliability.CircuitBreaker, shared by every execution a process runs.   *)
(* Engine.Execute asks Allow before each LLM call and reports the call     *)
(* with Success or Failure when it returns, possibly much later and after  *)
(* other executions have opened or reset the breaker.  Each method runs    *)
(* under the breaker's mutex, so each is one step.                         *)
(*                                                                         *)
(* Time is kept as an age: sinceOpened is time.Since(openedAt), which is   *)
(* all the code ever asks of the clock.  It saturates at ResetTimeout,     *)
(* where the code's >= stops telling ages apart, so no bound on the clock  *)
(* is needed.  Zero stands for the zero time (openedAt.IsZero()).          *)
(***************************************************************************)
EXTENDS Integers, FiniteSets

CONSTANTS Callers,       \* the executions that share the breaker
          Threshold,     \* failureThreshold
          ResetTimeout   \* resetTimeout, in clock ticks

ASSUME CallersAssumption == IsFiniteSet(Callers)
ASSUME PolicyAssumption  == Threshold \in Nat \ {0} /\ ResetTimeout \in Nat \ {0}

VARIABLES failures,      \* consecutive failures counted
          sinceOpened,   \* age of openedAt, or Zero
          caller         \* what each execution is doing with the breaker

vars == <<failures, sinceOpened, caller>>

Zero    == -1
Open    == sinceOpened # Zero
Cooled  == sinceOpened = ResetTimeout
Calling == {c \in Callers : caller[c] = "calling"}

Init == failures = 0 /\ sinceOpened = Zero /\ caller = [c \in Callers |-> "idle"]

-----------------------------------------------------------------------------
(***************************************************************************)
(* Allow: a closed breaker admits; an open one is reset by the first       *)
(* caller to come after the cooldown, and refuses until then.  The reset   *)
(* is complete: there is no half-open probe, every later caller is let in. *)
(***************************************************************************)
Admit(c)  == caller' = [caller EXCEPT ![c] = "calling"]

Refuse(c) == Open /\ ~Cooled /\ caller' = [caller EXCEPT ![c] = "refused"]

AllowClosed(c) == ~Open /\ Admit(c) /\ UNCHANGED <<failures, sinceOpened>>

\* Fault variant: the cooldown reset forgets the failure count.
ResetKeepsFailures(c) == Cooled /\ Admit(c) /\ sinceOpened' = Zero /\ UNCHANGED failures

AllowReset(c) == Cooled /\ Admit(c) /\ sinceOpened' = Zero /\ failures' = 0

\* Fault variant: a refused caller restarts the cooldown.
RefusalRearms(c) == Refuse(c) /\ sinceOpened' = 0 /\ UNCHANGED failures

AllowRefused(c) == Refuse(c) /\ UNCHANGED <<failures, sinceOpened>>

Allow(c) == caller[c] = "idle" /\ (AllowClosed(c) \/ AllowReset(c) \/ AllowRefused(c))

Report(c) == caller[c] = "calling" /\ caller' = [caller EXCEPT ![c] = "idle"]

Success(c) == Report(c) /\ failures' = 0 /\ sinceOpened' = Zero

\* Fault variant: the threshold is compared with > instead of >=.
FailureOffByOne(c) ==
    /\ Report(c)
    /\ failures' = failures + 1
    /\ sinceOpened' = IF failures' > Threshold THEN 0 ELSE sinceOpened

\* Also for a call admitted before the breaker opened: openedAt moves forward.
Failure(c) ==
    /\ Report(c)
    /\ failures' = failures + 1
    /\ sinceOpened' = IF failures' >= Threshold THEN 0 ELSE sinceOpened

\* The refused execution has failed with ErrCircuitOpen; its worker takes another.
NextExecution(c) ==
    /\ caller[c] = "refused"
    /\ caller' = [caller EXCEPT ![c] = "idle"]
    /\ UNCHANGED <<failures, sinceOpened>>

Tick == Open /\ ~Cooled /\ sinceOpened' = sinceOpened + 1 /\ UNCHANGED <<failures, caller>>

Next ==
    \/ Tick
    \/ \E c \in Callers : Allow(c) \/ Success(c) \/ Failure(c) \/ NextExecution(c)

Spec     == Init /\ [][Next]_vars
FairSpec == Spec /\ WF_vars(Tick)

-----------------------------------------------------------------------------
(* Type invariant. *)
TypeOK ==
    /\ failures \in Nat
    /\ sinceOpened \in {Zero} \cup 0..ResetTimeout
    /\ caller \in [Callers -> {"idle", "calling", "refused"}]

(***************************************************************************)
(* openedAt and failures never disagree: the breaker is open exactly when  *)
(* the count has reached the threshold, whatever mix of late successes,    *)
(* late failures and resets the callers produce (breaker.go 23-51).        *)
(***************************************************************************)
OpenIffThreshold == Open <=> failures >= Threshold

(***************************************************************************)
(* The count overshoots the threshold only by calls that were already in   *)
(* flight: late failures, each of which also restarts the cooldown         *)
(* (Failure, breaker.go 44-51), are bounded by the number of executions.   *)
(***************************************************************************)
OvershootBounded ==
    failures + Cardinality(Calling) <= Threshold - 1 + Cardinality(Callers)

(***************************************************************************)
(* An open breaker always becomes admissible again if only time passes:    *)
(* late failures can postpone the end of the cooldown, never forever.      *)
(***************************************************************************)
Recovers == Open ~> (Cooled \/ ~Open)
===========================================================================
