---------------------------- MODULE EngineProofs ----------------------------
(***************************************************************************)
(* Proofs about Engine for every step limit, attempt limit and number of   *)
(* tool calls, with either store.                                          *)
(***************************************************************************)
EXTENDS Engine, FiniteSetTheorems, TLAPS

(***************************************************************************)
(* The loop counters stay in their ranges because of where the run is: the *)
(* step limit is tested at the head of the loop, the attempt limit before  *)
(* each backoff.                                                           *)
(***************************************************************************)
InLoop == {"call", "backoff", "step", "answer", "assistant", "tools", "results"}

Bounds ==
    /\ pc \in InLoop => stepNumber < MaxSteps
    /\ pc \in {"call", "backoff"} => attempt >= 1
    /\ pc = "backoff" => attempt < MaxAttempts

TypeInv == TypeOK /\ Bounds

(* Storing a message and publishing an event keep both logs in their types. *)
LEMMA MessageType ==
    ASSUME NEW m \in Messages, NEW next, conversation \in Seq(Messages), AppendMessage(m, next)
    PROVE  /\ conversation' \in Seq(Messages)
           /\ (pc' = next /\ cause' = cause) \/ (pc' = "failing" /\ cause' \in {"failed", "canceled"})
BY DEF AppendMessage, Goto, Fail, StoreError

LEMMA EventType ==
    ASSUME NEW e \in EventTypes, events \in Seq(EventTypes), Publish(e)
    PROVE  events' \in Seq(EventTypes)
BY DEF Publish

LEMMA TypeStep == ASSUME TypeInv, [Next]_vars PROVE TypeInv'
<1> USE PolicyAssumption
<1> USE DEF TypeInv, TypeOK, Bounds, InLoop, main, backoff, tools, Stored, Goto, Fail, StoreError,
            Errors, Ended, Active, CallIds
<1>1. CASE MarkRunning
  BY <1>1 DEF MarkRunning
<1>2. CASE PublishStarted
  BY <1>2, EventType DEF PublishStarted, EventTypes
<1>3. CASE ListMessages
  BY <1>3 DEF ListMessages
<1>4. CASE AppendUser
  <2>1. <<"user", 0>> \in Messages
    BY <1>4 DEF AppendUser, Messages
  <2>2. /\ conversation' \in Seq(Messages)
        /\ \/ pc' = "loop" /\ cause' = cause
           \/ pc' = "failing" /\ cause' \in {"failed", "canceled"}
    BY <1>4, <2>1, MessageType DEF AppendUser
  <2>3. QED
    BY <1>4, <2>2 DEF AppendUser
<1>5. CASE StopLoop
  BY <1>5 DEF StopLoop
<1>6. CASE BeginCall
  BY <1>6, EventType DEF BeginCall, EventTypes
<1>7. ASSUME NEW n \in Answers, CallAnswers(n) PROVE TypeInv'
  BY <1>7 DEF Answers, CallAnswers, SettleCall
<1>8. CASE CallErrors
  BY <1>8 DEF CallErrors
<1>9. CASE Backoff
  <2>1. delay' \in Nat /\ attempt' = attempt + 1
    BY <1>9 DEF Backoff
  <2>2. waited' \in Nat
    <3>1. PICK j \in Jitter(Cap(delay)) : waited' = waited + Cap(delay) + j
      BY <1>9 DEF Backoff
    <3>2. Cap(delay) \in Nat /\ j \in Nat
      BY <3>1 DEF Cap, Jitter
    <3>3. QED
      BY <3>1, <3>2
  <2>3. QED
    BY <1>9, <2>1, <2>2 DEF Backoff
<1>10. ASSUME NEW k \in {"failed", "canceled"}, CallFails(k) PROVE TypeInv'
  BY <1>10 DEF CallFails, CallEnds, CompleteErrors, SettleCall
<1>11. CASE StoreStep
  BY <1>11 DEF StoreStep
<1>12. CASE AppendAnswer
  <2>1. <<"assistant", 0>> \in Messages
    BY <1>12 DEF AppendAnswer, Messages
  <2>2. /\ conversation' \in Seq(Messages)
        /\ \/ pc' = "succeeding" /\ cause' = cause
           \/ pc' = "failing" /\ cause' \in {"failed", "canceled"}
    BY <1>12, <2>1, MessageType DEF AppendAnswer
  <2>3. QED
    BY <1>12, <2>2 DEF AppendAnswer
<1>13. CASE AppendAssistant
  <2>1. <<"assistant", calls>> \in Messages
    BY <1>13 DEF AppendAssistant, Messages
  <2>2. /\ conversation' \in Seq(Messages)
        /\ \/ pc' = "tools" /\ cause' = cause
           \/ pc' = "failing" /\ cause' \in {"failed", "canceled"}
    BY <1>13, <2>1, MessageType DEF AppendAssistant
  <2>3. QED
    BY <1>13, <2>2 DEF AppendAssistant
<1>14. CASE JoinTools
  BY <1>14 DEF JoinTools, FirstError
<1>15. CASE AppendResult
  <2>1. <<"tool", appended'>> \in Messages
    BY <1>15 DEF AppendResult, Messages
  <2>2. /\ conversation' \in Seq(Messages)
        /\ \/ pc' = "results" /\ cause' = cause
           \/ pc' = "failing" /\ cause' \in {"failed", "canceled"}
    BY <1>15, <2>1, MessageType DEF AppendResult
  <2>3. QED
    BY <1>15, <2>2 DEF AppendResult
<1>16. CASE NextStep
  BY <1>16 DEF NextStep
<1>17. CASE Settle
  BY <1>17 DEF Settle, FinalStatus
<1>18. CASE PublishOutcome
  <2>1. events' \in Seq(EventTypes)
    BY <1>18, EventType DEF PublishOutcome, EventTypes
  <2>2. QED
    BY <1>18, <2>1 DEF PublishOutcome
<1>19. CASE Cancel
  BY <1>19 DEF Cancel
<1>20. ASSUME NEW i \in CallIds, Tool(i) PROVE TypeInv'
  <2>1. events' \in Seq(EventTypes)
    BY <1>20, EventType DEF Tool, ToolStart, ToolReturns, ExecuteOutcomes, ToolFailed, ToolCompleted, EventTypes
  <2>2. tool' \in [CallIds -> Active \cup Ended]
    BY <1>20 DEF Tool, ToolStart, ToolReturns, ExecuteOutcomes, ToolFailed, ToolCompleted, ToolStep
  <2>3. UNCHANGED <<main, pc, cause, ctxDone, row, conversation>>
    BY <1>20 DEF Tool, ToolStart, ToolReturns, ExecuteOutcomes, ToolFailed, ToolCompleted, ToolStep
  <2>4. toolSteps' \in Nat
    BY <1>20 DEF Tool, ToolStart, ToolReturns, ExecuteOutcomes, ToolFailed, ToolCompleted
  <2>5. QED
    BY <2>1, <2>2, <2>3, <2>4
<1>21. CASE Returned
  BY <1>21 DEF Returned, vars
<1>22. CASE UNCHANGED vars
  BY <1>22 DEF vars
<1>23. QED
  BY <1>1, <1>2, <1>3, <1>4, <1>5, <1>6, <1>7, <1>8, <1>9, <1>10, <1>11,
     <1>12, <1>13, <1>14, <1>15, <1>16, <1>17, <1>18, <1>19, <1>20, <1>21, <1>22 DEF Next, Execute

LEMMA InitType == ASSUME Init PROVE TypeInv
<1>1. events \in Seq(EventTypes) /\ conversation \in Seq(Messages)
  BY DEF Init
<1>2. tool \in [CallIds -> Active \cup Ended]
  BY DEF Init, Ended
<1>3. ctxDone \in BOOLEAN
  BY DEF Init
<1>4. /\ stepNumber \in 0..MaxSteps /\ attempt \in 0..MaxAttempts
      /\ calls \in 0..MaxCalls /\ appended \in 0..MaxCalls
      /\ delay \in Nat /\ waited \in Nat /\ llmSteps \in Nat /\ toolSteps \in Nat
      /\ retries \in Nat /\ operations \in Nat /\ admitted \in Nat /\ reported \in Nat
  BY PolicyAssumption DEF Init
<1>5. Bounds
  BY DEF Init, Bounds, InLoop
<1>6. pc = "start" /\ row = "queued" /\ cause = "none"
  BY DEF Init
<1>7. QED
  BY <1>1, <1>2, <1>3, <1>4, <1>5, <1>6 DEF TypeInv, TypeOK

(* The run's state stays in its types. *)
THEOREM EngineTypeOK == Spec => []TypeOK
<1>1. Init => TypeInv
  BY InitType
<1>2. TypeInv /\ [Next]_vars => TypeInv'
  BY TypeStep
<1>3. TypeInv => TypeOK
  BY DEF TypeInv
<1>4. QED
  BY <1>1, <1>2, <1>3, PTL DEF Spec

-----------------------------------------------------------------------------
LEMMA JoinedStep == ASSUME TypeOK, ToolsJoined, [Next]_vars PROVE ToolsJoined'
<1> USE DEF TypeOK, ToolsJoined, main, backoff, tools, Goto, Fail, StoreError, Ended
<1>1. CASE MarkRunning
  BY <1>1 DEF MarkRunning
<1>2. CASE PublishStarted
  BY <1>2 DEF PublishStarted, Publish
<1>3. CASE ListMessages
  BY <1>3 DEF ListMessages
<1>4. CASE AppendUser
  BY <1>4 DEF AppendUser, AppendMessage
<1>5. CASE StopLoop
  BY <1>5 DEF StopLoop
<1>6. CASE BeginCall
  BY <1>6 DEF BeginCall, Publish
<1>7. ASSUME NEW n \in Answers, CallAnswers(n) PROVE ToolsJoined'
  BY <1>7 DEF Answers, CallAnswers, SettleCall
<1>8. CASE CallErrors
  BY <1>8 DEF CallErrors
<1>9. CASE Backoff
  BY <1>9 DEF Backoff
<1>10. ASSUME NEW k \in {"failed", "canceled"}, CallFails(k) PROVE ToolsJoined'
  BY <1>10 DEF CallFails, CallEnds, CompleteErrors, SettleCall
<1>11. CASE StoreStep
  BY <1>11 DEF StoreStep
<1>12. CASE AppendAnswer
  BY <1>12 DEF AppendAnswer, AppendMessage
<1>13. CASE AppendAssistant
  BY <1>13 DEF AppendAssistant, AppendMessage
<1>14. CASE JoinTools
  BY <1>14 DEF JoinTools, FirstError
<1>15. CASE AppendResult
  BY <1>15 DEF AppendResult, AppendMessage
<1>16. CASE NextStep
  BY <1>16 DEF NextStep
<1>17. CASE Settle
  BY <1>17 DEF Settle, FinalStatus
<1>18. CASE PublishOutcome
  BY <1>18 DEF PublishOutcome, Publish
<1>19. CASE Cancel
  BY <1>19 DEF Cancel
<1>20. ASSUME NEW i \in CallIds, Tool(i) PROVE ToolsJoined'
  BY <1>20 DEF Tool, ToolStart, ToolReturns, ExecuteOutcomes, ToolFailed, ToolCompleted, ToolStep, Publish
<1>21. CASE Returned
  BY <1>21 DEF Returned, vars
<1>22. CASE UNCHANGED vars
  BY <1>22 DEF vars
<1>23. QED
  BY <1>1, <1>2, <1>3, <1>4, <1>5, <1>6, <1>7, <1>8, <1>9, <1>10, <1>11,
     <1>12, <1>13, <1>14, <1>15, <1>16, <1>17, <1>18, <1>19, <1>20, <1>21, <1>22 DEF Next, Execute

(***************************************************************************)
(* No goroutine of executeTools outlives the tool step that started it,    *)
(* for any number of calls.                                                *)
(***************************************************************************)
THEOREM EngineToolsJoined == Spec => []ToolsJoined
<1>1. Init => ToolsJoined
  BY DEF Init, ToolsJoined, Ended
<1>2. TypeOK /\ ToolsJoined /\ [Next]_vars => ToolsJoined'
  BY JoinedStep
<1>3. QED
  BY <1>1, <1>2, EngineTypeOK, PTL DEF Spec

-----------------------------------------------------------------------------
(***************************************************************************)
(* The counts while a call is being retried: all but the last of this      *)
(* step's provider calls are not yet in RetryCount.                        *)
(***************************************************************************)
Counted ==
    /\ VerdictsBalanced /\ RetriesCounted
    /\ pc = "call" => operations = retries + admitted + attempt - 2
    /\ pc = "backoff" => operations = retries + admitted + attempt - 1

LEMMA CountStep == ASSUME TypeInv, Counted, [Next]_vars PROVE Counted'
<1> USE DEF TypeInv, TypeOK, Bounds, Counted, VerdictsBalanced, RetriesCounted, main, backoff, tools, Goto, Fail
<1>1. CASE MarkRunning
  BY <1>1 DEF MarkRunning
<1>2. CASE PublishStarted
  BY <1>2 DEF PublishStarted, Publish
<1>3. CASE ListMessages
  BY <1>3 DEF ListMessages
<1>4. CASE AppendUser
  BY <1>4 DEF AppendUser, AppendMessage
<1>5. CASE StopLoop
  BY <1>5 DEF StopLoop
<1>6. CASE BeginCall
  BY <1>6 DEF BeginCall, Publish
<1>7. ASSUME NEW n \in Answers, CallAnswers(n) PROVE Counted'
  BY <1>7 DEF Answers, CallAnswers, SettleCall
<1>8. CASE CallErrors
  BY <1>8 DEF CallErrors
<1>9. CASE Backoff
  BY <1>9 DEF Backoff
<1>10. ASSUME NEW k \in {"failed", "canceled"}, CallFails(k) PROVE Counted'
  BY <1>10 DEF CallFails, CallEnds, CompleteErrors, SettleCall
<1>11. CASE StoreStep
  BY <1>11 DEF StoreStep
<1>12. CASE AppendAnswer
  BY <1>12 DEF AppendAnswer, AppendMessage
<1>13. CASE AppendAssistant
  BY <1>13 DEF AppendAssistant, AppendMessage
<1>14. CASE JoinTools
  BY <1>14 DEF JoinTools, FirstError
<1>15. CASE AppendResult
  BY <1>15 DEF AppendResult, AppendMessage
<1>16. CASE NextStep
  BY <1>16 DEF NextStep
<1>17. CASE Settle
  BY <1>17 DEF Settle, FinalStatus
<1>18. CASE PublishOutcome
  BY <1>18 DEF PublishOutcome, Publish
<1>19. CASE Cancel
  BY <1>19 DEF Cancel
<1>20. ASSUME NEW i \in CallIds, Tool(i) PROVE Counted'
  BY <1>20 DEF Tool, ToolStart, ToolReturns, ExecuteOutcomes, ToolFailed, ToolCompleted, ToolStep, Publish
<1>21. CASE Returned
  BY <1>21 DEF Returned, vars
<1>22. CASE UNCHANGED vars
  BY <1>22 DEF vars
<1>23. QED
  BY <1>1, <1>2, <1>3, <1>4, <1>5, <1>6, <1>7, <1>8, <1>9, <1>10, <1>11,
     <1>12, <1>13, <1>14, <1>15, <1>16, <1>17, <1>18, <1>19, <1>20, <1>21, <1>22 DEF Next, Execute

LEMMA CountInvariant == Spec => []Counted
<1>1. Init => TypeInv /\ Counted
  <2> SUFFICES ASSUME Init PROVE TypeInv /\ Counted
    OBVIOUS
  <2>1. pc = "start" /\ operations = 0 /\ admitted = 0 /\ reported = 0 /\ retries = 0
    BY DEF Init
  <2>2. Counted
    BY <2>1 DEF Counted, VerdictsBalanced, RetriesCounted
  <2>3. QED
    BY <2>2, InitType
<1>2. TypeInv /\ Counted /\ [Next]_vars => (TypeInv /\ Counted)'
  BY TypeStep, CountStep
<1>3. QED
  BY <1>1, <1>2, PTL DEF Spec

(* The breaker hears of every call it admitted, exactly once. *)
THEOREM EngineVerdictsBalanced == Spec => []VerdictsBalanced
<1>1. Counted => VerdictsBalanced
  BY DEF Counted
<1>2. QED
  BY <1>1, CountInvariant, PTL

(* RetryCount is the number of provider calls beyond the first of each step. *)
THEOREM EngineRetriesCounted == Spec => []RetriesCounted
<1>1. Counted => RetriesCounted
  BY DEF Counted
<1>2. QED
  BY <1>1, CountInvariant, PTL

-----------------------------------------------------------------------------
(***************************************************************************)
(* Why a final status is what it is: an answer is stored before succeed is *)
(* reached and nothing is stored after it, and every error that says       *)
(* cancelled comes from the cancelled context.                             *)
(***************************************************************************)
Answered == Len(conversation) > 0 /\ conversation[Len(conversation)] = <<"assistant", 0>>

Reasons ==
    /\ pc = "succeeding" => Answered
    /\ row = "succeeded" => Answered /\ pc \in {"completed", "returned"}
    /\ row = "cancelled" => ctxDone
    /\ cause = "canceled" => ctxDone
    /\ \A i \in CallIds : tool[i] \in {"interrupted", "canceled"} => ctxDone

LEMMA ReasonStep == ASSUME TypeOK, ToolsJoined, Reasons, [Next]_vars PROVE Reasons'
<1> USE DEF TypeOK, Reasons, Answered, main, backoff, tools, Goto, Fail, StoreError, Errors, Written
<1>1. CASE MarkRunning
  BY <1>1 DEF MarkRunning
<1>2. CASE PublishStarted
  BY <1>2 DEF PublishStarted, Publish
<1>3. CASE ListMessages
  BY <1>3 DEF ListMessages
<1>4. CASE AppendUser
  BY <1>4 DEF AppendUser, AppendMessage
<1>5. CASE StopLoop
  BY <1>5 DEF StopLoop
<1>6. CASE BeginCall
  BY <1>6 DEF BeginCall, Publish
<1>7. ASSUME NEW n \in Answers, CallAnswers(n) PROVE Reasons'
  BY <1>7 DEF Answers, CallAnswers, SettleCall
<1>8. CASE CallErrors
  BY <1>8 DEF CallErrors
<1>9. CASE Backoff
  BY <1>9 DEF Backoff
<1>10. ASSUME NEW k \in {"failed", "canceled"}, CallFails(k) PROVE Reasons'
  BY <1>10 DEF CallFails, CallEnds, CompleteErrors, SettleCall
<1>11. CASE StoreStep
  BY <1>11 DEF StoreStep
<1>12. CASE AppendAnswer
  BY <1>12 DEF AppendAnswer, AppendMessage
<1>13. CASE AppendAssistant
  BY <1>13 DEF AppendAssistant, AppendMessage
<1>14. CASE JoinTools
  BY <1>14 DEF JoinTools, FirstError
<1>15. CASE AppendResult
  BY <1>15 DEF AppendResult, AppendMessage
<1>16. CASE NextStep
  BY <1>16 DEF NextStep
<1>17. CASE Settle
  BY <1>17 DEF Settle, FinalStatus
<1>18. CASE PublishOutcome
  BY <1>18 DEF PublishOutcome, Publish
<1>19. CASE Cancel
  BY <1>19 DEF Cancel
<1>20. ASSUME NEW i \in CallIds, Tool(i) PROVE Reasons'
  BY <1>20 DEF Tool, ToolStart, ToolReturns, ExecuteOutcomes, ToolFailed, ToolCompleted, ToolStep, Publish
<1>21. CASE Returned
  BY <1>21 DEF Returned, vars
<1>22. CASE UNCHANGED vars
  BY <1>22 DEF vars
<1>23. QED
  BY <1>1, <1>2, <1>3, <1>4, <1>5, <1>6, <1>7, <1>8, <1>9, <1>10, <1>11,
     <1>12, <1>13, <1>14, <1>15, <1>16, <1>17, <1>18, <1>19, <1>20, <1>21, <1>22 DEF Next, Execute

(***************************************************************************)
(* A run that is recorded as succeeded has its answer stored as the last   *)
(* message; one recorded as cancelled was cancelled.                       *)
(***************************************************************************)
THEOREM EngineStatusJustified == Spec => []StatusJustified
<1>1. Init => Reasons
  BY DEF Init, Reasons
<1>2. TypeOK /\ ToolsJoined /\ Reasons /\ [Next]_vars => Reasons'
  BY ReasonStep
<1>3. Reasons => StatusJustified
  BY DEF Reasons, Answered, StatusJustified
<1>4. QED
  BY <1>1, <1>2, <1>3, EngineTypeOK, EngineToolsJoined, PTL DEF Spec
-----------------------------------------------------------------------------
(***************************************************************************)
(* The delay before a retry is at least the base delay, doubled or not, so *)
(* the cap and the jitter leave what is waited between the two bounds.     *)
(***************************************************************************)
Retrying == pc \in {"call", "backoff"}

BackoffInv == BackoffBounded /\ (Retrying => delay >= BaseDelay)

(* One factor more of a bound on what was waited. *)
LEMMA OneMore ==
    ASSUME NEW a \in Nat, NEW k \in Nat
    PROVE  ((a + 1) - 1) * k = (a - 1) * k + k
OBVIOUS

LEMMA ProductNat == ASSUME NEW a \in Nat, NEW k \in Nat PROVE a * k \in Nat
OBVIOUS

(* Only these three steps are taken while a call is retried or lead to it. *)
LEMMA RetryFrame ==
    ASSUME TypeOK, [Next]_vars, ~BeginCall, ~CallErrors, ~Backoff
    PROVE  Retrying' => Retrying /\ UNCHANGED backoff
<1> USE DEF TypeOK, Retrying, main, backoff, Goto, Fail
<1>1. CASE MarkRunning
  BY <1>1 DEF MarkRunning
<1>2. CASE PublishStarted
  BY <1>2 DEF PublishStarted
<1>3. CASE ListMessages
  BY <1>3 DEF ListMessages
<1>4. CASE AppendUser \/ AppendAnswer \/ AppendAssistant \/ AppendResult
  BY <1>4 DEF AppendUser, AppendAnswer, AppendAssistant, AppendResult, AppendMessage
<1>5. CASE StopLoop
  BY <1>5 DEF StopLoop
<1>6. ASSUME NEW n \in Answers, CallAnswers(n) PROVE ~Retrying'
  BY <1>6 DEF CallAnswers
<1>7. ASSUME NEW k \in {"failed", "canceled"}, CallFails(k) PROVE ~Retrying'
  BY <1>7 DEF CallFails
<1>8. CASE StoreStep
  BY <1>8 DEF StoreStep
<1>9. CASE JoinTools
  BY <1>9 DEF JoinTools
<1>10. CASE NextStep
  BY <1>10 DEF NextStep
<1>11. CASE Settle
  BY <1>11 DEF Settle
<1>12. CASE PublishOutcome
  BY <1>12 DEF PublishOutcome
<1>13. CASE Cancel
  BY <1>13 DEF Cancel
<1>14. ASSUME NEW i \in CallIds, Tool(i) PROVE UNCHANGED <<pc, backoff>>
  BY <1>14 DEF Tool, ToolStart, ToolReturns, ExecuteOutcomes, ToolFailed, ToolCompleted, ToolStep
<1>15. CASE UNCHANGED vars
  BY <1>15 DEF vars
<1>16. QED
  BY <1>1, <1>2, <1>3, <1>4, <1>5, <1>6, <1>7, <1>8, <1>9, <1>10, <1>11, <1>12, <1>13, <1>14,
     <1>15 DEF Next, Execute, Returned

LEMMA BackoffStep == ASSUME TypeInv, BackoffInv, [Next]_vars PROVE BackoffInv'
<1> DEFINE Least == Cap(BaseDelay)
           Most  == MaxDelay + MaxDelay \div 2
<1> USE PolicyAssumption
<1> USE DEF TypeInv, TypeOK, BackoffInv, BackoffBounded, Retrying
<1>0. Least \in Nat /\ Most \in Nat
  BY DEF Cap
<1>1. CASE BeginCall
  <2>1. attempt' = 1 /\ waited' = 0 /\ delay' = BaseDelay
    BY <1>1 DEF BeginCall
  <2>2. (attempt' - 1) * Least = 0 /\ (attempt' - 1) * Most = 0
    BY <1>0, <2>1
  <2>3. QED
    BY <2>1, <2>2
<1>2. CASE CallErrors
  BY <1>2 DEF CallErrors, Goto, backoff
<1>3. CASE Backoff
  <2>1. pc = "backoff" /\ attempt' = attempt + 1 /\ delay' = 2 * delay /\ delay >= BaseDelay
    BY <1>3 DEF Backoff
  <2>2. PICK j \in Jitter(Cap(delay)) : waited' = waited + Cap(delay) + j
    BY <1>3 DEF Backoff
  <2>3. Cap(delay) \in Nat /\ Cap(delay) <= MaxDelay /\ Cap(delay) >= Least
    BY <2>1 DEF Cap
  <2>4. j \in Nat /\ Cap(delay) + j <= Most
    BY <2>2, <2>3 DEF Jitter
  <2>5. /\ (attempt' - 1) * Least = (attempt - 1) * Least + Least
        /\ (attempt' - 1) * Most = (attempt - 1) * Most + Most
    BY <1>0, <2>1, OneMore
  <2>6. (attempt - 1) * Least \in Nat /\ (attempt - 1) * Most \in Nat
    <3>1. attempt - 1 \in Nat
      BY <2>1 DEF Bounds
    <3> HIDE DEF Least, Most
    <3>2. QED
      BY <1>0, <3>1, ProductNat
  <2>7. waited >= (attempt - 1) * Least /\ waited <= (attempt - 1) * Most
    BY <2>1
  <2>8. waited' >= (attempt' - 1) * Least /\ waited' <= (attempt' - 1) * Most
    <3> HIDE DEF Least, Most
    <3>1. QED
      BY <1>0, <2>2, <2>3, <2>4, <2>5, <2>6, <2>7
  <2>9. QED
    BY <2>1, <2>8
<1>4. CASE ~BeginCall /\ ~CallErrors /\ ~Backoff
  <2>1. Retrying' => Retrying /\ UNCHANGED backoff
    BY <1>4, RetryFrame
  <2>2. QED
    BY <2>1 DEF backoff
<1>5. QED
  BY <1>1, <1>2, <1>3, <1>4

(***************************************************************************)
(* Retries back off for at least the base delay each, and for at most half *)
(* as long again as the maximum, for every policy.                         *)
(***************************************************************************)
THEOREM EngineBackoffBounded == Spec => []BackoffBounded
<1>1. Init => TypeInv /\ BackoffInv
  <2> SUFFICES ASSUME Init PROVE TypeInv /\ BackoffInv
    OBVIOUS
  <2>1. BackoffInv
    BY DEF Init, BackoffInv, BackoffBounded, Retrying
  <2>2. QED
    BY <2>1, InitType
<1>2. TypeInv /\ BackoffInv /\ [Next]_vars => (TypeInv /\ BackoffInv)'
  BY TypeStep, BackoffStep
<1>3. BackoffInv => BackoffBounded
  BY DEF BackoffInv
<1>4. QED
  BY <1>1, <1>2, <1>3, PTL DEF Spec

-----------------------------------------------------------------------------
(***************************************************************************)
(* The refinement of ExecutionRun.  What is stored and announced follows   *)
(* from where Execute stands; a tool goroutine can publish only while it   *)
(* is waited for.                                                          *)
(***************************************************************************)
Inside == {"history", "user", "loop", "call", "backoff", "step", "answer", "assistant", "tools",
           "results", "succeeding", "failing"}

Phases ==
    /\ pc = "start" => row = "queued" /\ Announced = "nothing"
    /\ pc = "started" => row = "running" /\ Announced = "nothing"
    /\ pc \in Inside => row = "running" /\ Announced = "started"
    /\ pc = "completed" => row = "succeeded" /\ Announced = "started"
    /\ pc = "failed" => row \in {"failed", "cancelled"} /\ Announced = "started"

LEMMA AnnouncedStep ==
    ASSUME TypeOK, NEW e \in EventTypes, Publish(e)
    PROVE  Announced' = IF e = "agent.completed" THEN "completed"
                        ELSE IF e = "agent.failed" THEN "failed" ELSE "started"
<1>1. events \in Seq(EventTypes) /\ events' = Append(events, e)
  BY DEF TypeOK, Publish
<1>2. events' # << >> /\ events'[Len(events')] = e
  BY <1>1
<1>3. QED
  BY <1>2 DEF Announced

LEMMA AnnouncedSame == ASSUME UNCHANGED events PROVE Announced' = Announced
BY DEF Announced

\* A step between the first and the last announcement, which nobody outside can see.
Unseen == pc \in Inside /\ pc' \in Inside /\ row' = row /\ Announced' = Announced

LEMMA UnseenStep ==
    ASSUME TypeOK, ToolsJoined, Phases, [Next]_vars,
           ~MarkRunning, ~PublishStarted, ~Settle, ~PublishOutcome, ~UNCHANGED <<pc, row, Announced>>
    PROVE  Unseen
<1> USE DEF Inside, main, backoff, tools, Goto, Fail
<1>1. CASE ListMessages
  BY <1>1, AnnouncedSame DEF ListMessages, Unseen
<1>2. CASE AppendUser \/ AppendAnswer \/ AppendAssistant \/ AppendResult
  BY <1>2, AnnouncedSame DEF AppendUser, AppendAnswer, AppendAssistant, AppendResult, AppendMessage, Unseen
<1>3. CASE StopLoop
  BY <1>3, AnnouncedSame DEF StopLoop, Unseen
<1>4. CASE BeginCall
  <2>1. Announced' = "started"
    BY <1>4, AnnouncedStep DEF BeginCall, EventTypes
  <2>2. QED
    BY <1>4, <2>1 DEF BeginCall, Phases, Unseen
<1>5. ASSUME NEW n \in Answers, CallAnswers(n) PROVE Unseen
  BY <1>5, AnnouncedSame DEF CallAnswers, Unseen
<1>6. CASE CallErrors
  BY <1>6, AnnouncedSame DEF CallErrors, Unseen
<1>7. CASE Backoff
  BY <1>7, AnnouncedSame DEF Backoff, Unseen
<1>8. ASSUME NEW k \in {"failed", "canceled"}, CallFails(k) PROVE Unseen
  BY <1>8, AnnouncedSame DEF CallFails, CallEnds, Unseen
<1>9. CASE StoreStep
  BY <1>9, AnnouncedSame DEF StoreStep, Unseen
<1>10. CASE JoinTools
  BY <1>10, AnnouncedSame DEF JoinTools, Unseen
<1>11. CASE NextStep
  BY <1>11, AnnouncedSame DEF NextStep, Unseen
<1>12. CASE Cancel \/ Returned \/ UNCHANGED vars
  BY <1>12, AnnouncedSame DEF Cancel, Returned, vars
<1>13. ASSUME NEW i \in CallIds, Tool(i) PROVE Unseen
  <2>1. pc = "tools" /\ UNCHANGED <<pc, row>>
    BY <1>13 DEF Tool, ToolStart, ToolReturns, ToolFailed, ToolCompleted, ToolStep, ToolsJoined, Ended
  <2>2. CASE UNCHANGED events
    BY <2>1, <2>2, AnnouncedSame DEF Unseen
  <2>3. CASE Publish("tool.started") \/ Publish("tool.failed") \/ Publish("tool.completed")
    <3>1. Announced' = "started"
      BY <2>3, AnnouncedStep DEF EventTypes
    <3>2. QED
      BY <2>1, <3>1 DEF Phases, Unseen
  <2>4. QED
    BY <1>13, <2>2, <2>3 DEF Tool, ToolStart, ToolReturns, ToolFailed, ToolCompleted
<1>14. QED
  BY <1>1, <1>2, <1>3, <1>4, <1>5, <1>6, <1>7, <1>8, <1>9, <1>10, <1>11, <1>12, <1>13 DEF Next, Execute

LEMMA PhaseStep == ASSUME TypeOK, ToolsJoined, Phases, [Next]_vars PROVE Phases'
<1> USE DEF Phases, Inside, Goto
<1>1. CASE MarkRunning
  BY <1>1, AnnouncedSame DEF MarkRunning, Written
<1>2. CASE PublishStarted
  <2>1. Announced' = "started"
    BY <1>2, AnnouncedStep DEF PublishStarted, EventTypes
  <2>2. QED
    BY <1>2, <2>1 DEF PublishStarted
<1>3. CASE Settle
  BY <1>3, AnnouncedSame DEF Settle, FinalStatus, Written
<1>4. CASE PublishOutcome
  BY <1>4 DEF PublishOutcome
<1>5. CASE UNCHANGED <<pc, row, Announced>>
  BY <1>5
<1>6. CASE Unseen
  BY <1>6 DEF Unseen
<1>7. QED
  BY <1>1, <1>2, <1>3, <1>4, <1>5, <1>6, UnseenStep

LEMMA RunStep == ASSUME TypeOK, ToolsJoined, Phases, [Next]_vars PROVE [Run!Next]_(Run!vars)
<1> USE DEF Phases, Inside, Goto, Run!Next, Run!vars
<1>1. CASE MarkRunning
  BY <1>1, AnnouncedSame DEF MarkRunning, Written, Run!Begin
<1>2. CASE PublishStarted
  <2>1. Announced' = "started"
    BY <1>2, AnnouncedStep DEF PublishStarted, EventTypes
  <2>2. Run!Announce("started")
    BY <1>2, <2>1 DEF PublishStarted, Run!Announce
  <2>3. QED
    BY <1>2, <2>2 DEF PublishStarted
<1>3. CASE Settle
  <2>1. Announced' = Announced /\ Announced = "started" /\ row = "running" /\ pc # "returned"
    BY <1>3, AnnouncedSame DEF Settle
  <2>2. PICK o \in StoreOutcomes : row' = IF Written(o) THEN FinalStatus ELSE row
    BY <1>3 DEF Settle
  <2>3. CASE Written(o)
    <3>1. FinalStatus \in {"succeeded", "failed", "cancelled"} /\ row' = FinalStatus
      BY <2>2, <2>3 DEF FinalStatus
    <3>2. Run!Settle(FinalStatus)
      BY <2>1, <3>1 DEF Run!Settle
    <3>3. QED
      BY <2>1, <3>1, <3>2
  <2>4. CASE ~Written(o)
    BY <1>3, <2>1, <2>2, <2>4 DEF Settle, Written
  <2>5. QED
    BY <2>3, <2>4
<1>4. CASE PublishOutcome
  <2>1. CASE pc = "completed" /\ Publish("agent.completed")
    <3>1. Announced' = "completed"
      BY <2>1, AnnouncedStep DEF EventTypes
    <3>2. Run!Announce("completed")
      BY <1>4, <2>1, <3>1 DEF PublishOutcome, Run!Announce
    <3>3. QED
      BY <1>4, <2>1, <3>2 DEF PublishOutcome
  <2>2. CASE pc = "failed" /\ Publish("agent.failed")
    <3>1. Announced' = "failed"
      BY <2>2, AnnouncedStep DEF EventTypes
    <3>2. Run!Announce("failed")
      BY <1>4, <2>2, <3>1 DEF PublishOutcome, Run!Announce
    <3>3. QED
      BY <1>4, <2>2, <3>2 DEF PublishOutcome
  <2>3. QED
    BY <1>4, <2>1, <2>2 DEF PublishOutcome
<1>5. CASE UNCHANGED <<pc, row, Announced>>
  BY <1>5
<1>6. CASE Unseen
  BY <1>6 DEF Unseen
<1>7. QED
  BY <1>1, <1>2, <1>3, <1>4, <1>5, <1>6, UnseenStep

(***************************************************************************)
(* Execute implements ExecutionRun: the row takes one final status, which  *)
(* is stored before it is announced, and nothing follows the return.       *)
(***************************************************************************)
THEOREM EngineImplementsRun == Spec => ImplementsRun
<1>1. Init => Phases /\ Run!Init
  BY DEF Init, Phases, Inside, Announced, Run!Init
<1>2. TypeOK /\ ToolsJoined /\ Phases /\ [Next]_vars => Phases' /\ [Run!Next]_(Run!vars)
  BY PhaseStep, RunStep
<1>3. QED
  BY <1>1, <1>2, EngineTypeOK, EngineToolsJoined, PTL DEF Spec, ImplementsRun, Run!Spec
-----------------------------------------------------------------------------
(***************************************************************************)
(* The conversation.  Where Execute stands says how the conversation ends: *)
(* at the head of the loop with a whole round, while results are stored    *)
(* with the assistant message and as many results as were stored.  What    *)
(* was stored earlier stays in its place.                                  *)
(***************************************************************************)
Placed(c, j) ==
    /\ c[j][1] = "user" <=> j = 1
    /\ c[j][1] = "tool" =>
           /\ c[j][2] < j /\ c[j - c[j][2]][1] = "assistant" /\ c[j - c[j][2]][2] >= c[j][2]
           /\ c[j][2] > 1 => c[j-1] = <<"tool", c[j][2] - 1>>
    /\ c[j][1] = "assistant" /\ j > 2 =>
           c[j-1][1] = "tool" /\ c[j - 1 - c[j-1][2]] = <<"assistant", c[j-1][2]>>

WellPlaced(c) == \A j \in 1..Len(c) : Placed(c, j)

RoundEnds(c) ==
    /\ Len(c) >= 1
    /\ Len(c) > 1 =>
           /\ c[Len(c)][1] = "tool" /\ c[Len(c)][2] \in 1..Len(c)-1
           /\ c[Len(c) - c[Len(c)][2]] = <<"assistant", c[Len(c)][2]>>

RoundOpen(c, n, k) ==
    /\ k <= n /\ Len(c) - k >= 2
    /\ c[Len(c) - k] = <<"assistant", n>>
    /\ k > 0 => c[Len(c)] = <<"tool", k>>

BeforeUser == {"start", "started", "history", "user"}
RoundHead  == {"loop", "call", "backoff", "step", "answer", "assistant"}

Rounds ==
    /\ pc \in BeforeUser => conversation = << >>
    /\ pc \in RoundHead => RoundEnds(conversation)
    /\ pc \in {"assistant", "tools", "results"} => calls >= 1
    /\ pc = "tools" => RoundOpen(conversation, calls, 0)
    /\ pc = "results" => RoundOpen(conversation, calls, appended)

LEMMA GrammarIsWellPlaced == ConversationGrammar <=> WellPlaced(conversation)
BY Zenon DEF ConversationGrammar, WellPlaced, Placed

(* A stored message disturbs none of those before it. *)
LEMMA EarlierPlaced ==
    ASSUME NEW c \in Seq(Messages), NEW m \in Messages, WellPlaced(c), NEW j \in 1..Len(c)
    PROVE  Placed(Append(c, m), j)
<1> DEFINE d == Append(c, m)
<1>1. \A i \in 1..Len(c) : d[i] = c[i]
  OBVIOUS
<1>2. \A i \in 1..Len(c) : c[i][1] \in {"user", "assistant", "tool"} /\ c[i][2] \in Nat
  BY PolicyAssumption DEF Messages
<1>3. Len(c) \in Nat
  OBVIOUS
<1>4. Placed(c, j)
  BY DEF WellPlaced
<1> HIDE DEF d
<1>5. (d[j][1] = "user" <=> j = 1) /\ d[j] = c[j]
  BY <1>1, <1>4 DEF Placed
<1>6. ASSUME c[j][1] = "tool"
      PROVE  /\ d[j][2] < j /\ d[j - d[j][2]][1] = "assistant" /\ d[j - d[j][2]][2] >= d[j][2]
             /\ d[j][2] > 1 => d[j-1] = <<"tool", d[j][2] - 1>>
  <2>1. c[j][2] < j /\ c[j][2] \in Nat
    BY <1>2, <1>4, <1>6 DEF Placed
  <2>2. j - c[j][2] \in 1..Len(c) /\ (c[j][2] > 1 => j - 1 \in 1..Len(c))
    BY <1>3, <2>1
  <2>3. QED
    BY <1>1, <1>4, <1>5, <1>6, <2>2 DEF Placed
<1>7. ASSUME c[j][1] = "assistant", j > 2
      PROVE  d[j-1][1] = "tool" /\ d[j - 1 - d[j-1][2]] = <<"assistant", d[j-1][2]>>
  <2>1. j - 1 \in 1..Len(c) /\ c[j-1][1] = "tool"
    BY <1>3, <1>4, <1>7 DEF Placed
  <2>2. Placed(c, j - 1)
    BY <2>1 DEF WellPlaced
  <2>3. c[j-1][2] < j - 1 /\ c[j-1][2] \in Nat
    BY <1>2, <2>1, <2>2 DEF Placed
  <2>4. j - 1 - c[j-1][2] \in 1..Len(c)
    BY <1>3, <2>3
  <2>5. QED
    BY <1>1, <1>4, <1>7, <2>1, <2>4 DEF Placed
<1>8. QED
  BY <1>5, <1>6, <1>7 DEF Placed, d

LEMMA MessageFits ==
    ASSUME NEW c \in Seq(Messages), NEW m \in Messages, WellPlaced(c),
           Placed(Append(c, m), Len(c) + 1)
    PROVE  WellPlaced(Append(c, m))
<1>1. Append(c, m) \in Seq(Messages) /\ Len(Append(c, m)) = Len(c) + 1
  OBVIOUS
<1>2. \A j \in 1..Len(c) + 1 : j = Len(c) + 1 \/ j \in 1..Len(c)
  OBVIOUS
<1>3. QED
  BY <1>1, <1>2, EarlierPlaced DEF WellPlaced

(* The question, an assistant message after a round, a result in its turn. *)
LEMMA UserFits ==
    ASSUME NEW m \in Messages, m = <<"user", 0>>
    PROVE  WellPlaced(Append(<< >>, m)) /\ RoundEnds(Append(<< >>, m))
<1>1. Append(<< >>, m) = <<m>>
  OBVIOUS
<1>2. Len(<<m>>) = 1 /\ <<m>>[1] = m
  OBVIOUS
<1>3. Placed(<<m>>, 1)
  BY <1>2 DEF Placed
<1>4. QED
  BY <1>1, <1>2, <1>3 DEF WellPlaced, RoundEnds

LEMMA AssistantFits ==
    ASSUME NEW c \in Seq(Messages), NEW n \in 0..MaxCalls, WellPlaced(c), RoundEnds(c)
    PROVE  WellPlaced(Append(c, <<"assistant", n>>)) /\ RoundOpen(Append(c, <<"assistant", n>>), n, 0)
<1> DEFINE m == <<"assistant", n>>
           d == Append(c, m)
<1>1. m \in Messages
  BY DEF Messages
<1>2. Len(d) = Len(c) + 1 /\ Len(c) \in Nat /\ d[Len(c) + 1] = m /\ \A i \in 1..Len(c) : d[i] = c[i]
  OBVIOUS
<1>3. m[1] = "assistant" /\ m[2] = n
  OBVIOUS
<1>0. Len(c) \in Nat /\ Len(c) >= 1
  BY DEF RoundEnds
<1> HIDE DEF d, m
<1>4. Placed(d, Len(c) + 1)
  <2>1. CASE Len(c) > 1
    <3> DEFINE k == c[Len(c)][2]
    <3>1. k \in 1..Len(c)-1 /\ c[Len(c)][1] = "tool" /\ c[Len(c) - k] = <<"assistant", k>>
      BY <2>1 DEF RoundEnds
    <3>2. d[Len(c)] = c[Len(c)] /\ d[Len(c) - k] = c[Len(c) - k]
      BY <1>2, <2>1, <3>1
    <3> DEFINE j == Len(c) + 1
    <3>3. /\ d[j][1] = "assistant" /\ j # 1
          /\ d[j-1][1] = "tool" /\ d[j - 1 - d[j-1][2]] = <<"assistant", d[j-1][2]>>
      <4>1. j - 1 = Len(c) /\ j # 1
        BY <1>0
      <4>2. d[j-1][2] = k /\ d[j-1][1] = "tool" /\ d[j - 1 - k] = <<"assistant", k>>
        BY <3>1, <3>2, <4>1
      <4>3. QED
        BY <1>2, <1>3, <4>1, <4>2
    <3> HIDE DEF j
    <3>4. Placed(d, j)
      BY <3>3 DEF Placed
    <3>5. QED
      BY <3>4 DEF j
  <2>2. CASE Len(c) = 1
    BY <1>2, <1>3, <2>2 DEF Placed
  <2>3. \A x \in Nat : x >= 1 => x > 1 \/ x = 1
    OBVIOUS
  <2>4. QED
    BY <1>0, <2>1, <2>2, <2>3
<1>5. WellPlaced(d)
  BY <1>1, <1>4, MessageFits DEF d
<1>6. RoundOpen(d, n, 0)
  BY <1>2 DEF RoundOpen, RoundEnds, m
<1>7. QED
  BY <1>5, <1>6 DEF d, m

LEMMA ResultFits ==
    ASSUME NEW c \in Seq(Messages), NEW n \in 0..MaxCalls, NEW k \in 0..MaxCalls, k < n,
           WellPlaced(c), RoundOpen(c, n, k)
    PROVE  WellPlaced(Append(c, <<"tool", k + 1>>)) /\ RoundOpen(Append(c, <<"tool", k + 1>>), n, k + 1)
<1> USE PolicyAssumption
<1> DEFINE m == <<"tool", k + 1>>
           d == Append(c, m)
<1>1. m \in Messages
  BY DEF Messages
<1>2. Len(d) = Len(c) + 1 /\ Len(c) \in Nat /\ d[Len(c) + 1] = m /\ \A i \in 1..Len(c) : d[i] = c[i]
  OBVIOUS
<1>3. m[1] = "tool" /\ m[2] = k + 1
  OBVIOUS
<1> HIDE DEF d, m
<1>4. Len(c) - k \in 1..Len(c) /\ Len(c) \in 1..Len(c) /\ (Len(c) + 1) - (k + 1) = Len(c) - k
  BY <1>2 DEF RoundOpen
<1>5. d[Len(c) - k] = <<"assistant", n>> /\ (k > 0 => d[Len(c)] = <<"tool", k>>)
  BY <1>2, <1>4 DEF RoundOpen
<1>6. Placed(d, Len(c) + 1)
  BY <1>2, <1>3, <1>4, <1>5 DEF Placed
<1>7. WellPlaced(d)
  BY <1>1, <1>6, MessageFits DEF d
<1>8. RoundOpen(d, n, k + 1)
  <2>1. Len(d) - (k + 1) = Len(c) - k /\ Len(c) - k >= 2
    BY <1>2, <1>4 DEF RoundOpen
  <2>2. QED
    BY <1>2, <1>5, <2>1 DEF RoundOpen, m
<1>9. QED
  BY <1>7, <1>8 DEF d, m

(* A round whose results are all stored ends it. *)
LEMMA RoundCloses ==
    ASSUME NEW c \in Seq(Messages), NEW n \in Nat, n >= 1, RoundOpen(c, n, n)
    PROVE  RoundEnds(c)
<1>1. c[Len(c)] = <<"tool", n>> /\ c[Len(c) - n] = <<"assistant", n>> /\ Len(c) - n >= 2 /\ Len(c) \in Nat
  BY DEF RoundOpen
<1>2. c[Len(c)][1] = "tool" /\ c[Len(c)][2] = n
  BY <1>1
<1>3. QED
  BY <1>1, <1>2 DEF RoundEnds

(* What AppendMessage may leave behind. *)
LEMMA MessageStored ==
    ASSUME NEW m, NEW next, AppendMessage(m, next)
    PROVE  \/ conversation' = Append(conversation, m) /\ pc' \in {next, "failing"}
           \/ conversation' = conversation /\ pc' = "failing"
BY DEF AppendMessage, Written, Goto, Fail

RoundsInv == WellPlaced(conversation) /\ Rounds

LEMMA RoundStep == ASSUME TypeOK, RoundsInv, [Next]_vars PROVE RoundsInv'
<1> USE DEF TypeOK, RoundsInv, Rounds, BeforeUser, RoundHead, Goto, Fail
<1>1. CASE MarkRunning \/ PublishStarted \/ ListMessages
  BY <1>1 DEF MarkRunning, PublishStarted, ListMessages, Publish
<1>2. CASE AppendUser
  <2>1. <<"user", 0>> \in Messages
    BY PolicyAssumption DEF Messages
  <2>2. conversation = << >> /\ AppendMessage(<<"user", 0>>, "loop")
    BY <1>2 DEF AppendUser
  <2>3. WellPlaced(Append(conversation, <<"user", 0>>)) /\ RoundEnds(Append(conversation, <<"user", 0>>))
    BY <2>1, <2>2, UserFits
  <2>4. QED
    BY <2>2, <2>3, MessageStored
<1>3. CASE StopLoop \/ BeginCall \/ CallErrors \/ Backoff
  BY <1>3 DEF StopLoop, BeginCall, CallErrors, Backoff, main, backoff
<1>4. ASSUME NEW n \in Answers, CallAnswers(n) PROVE RoundsInv'
  BY <1>4 DEF CallAnswers
<1>5. ASSUME NEW k \in {"failed", "canceled"}, CallFails(k) PROVE RoundsInv'
  BY <1>5 DEF CallFails
<1>6. CASE StoreStep
  BY <1>6 DEF StoreStep
<1>7. CASE AppendAnswer
  <2>1. /\ WellPlaced(Append(conversation, <<"assistant", 0>>))
        /\ AppendMessage(<<"assistant", 0>>, "succeeding")
    BY <1>7, PolicyAssumption, AssistantFits DEF AppendAnswer
  <2>2. QED
    BY <2>1, MessageStored
<1>8. CASE AppendAssistant
  <2>1. /\ WellPlaced(Append(conversation, <<"assistant", calls>>))
        /\ RoundOpen(Append(conversation, <<"assistant", calls>>), calls, 0)
        /\ AppendMessage(<<"assistant", calls>>, "tools")
    BY <1>8, AssistantFits DEF AppendAssistant
  <2>2. calls >= 1 /\ calls' = calls
    BY <1>8 DEF AppendAssistant, main
  <2>3. QED
    BY <2>1, <2>2, MessageStored
<1>9. CASE JoinTools
  BY <1>9 DEF JoinTools
<1>10. CASE AppendResult
  <2>1. /\ pc = "results" /\ appended < calls /\ appended' = appended + 1 /\ calls' = calls
        /\ AppendMessage(<<"tool", appended + 1>>, "results")
    BY <1>10 DEF AppendResult
  <2>2. /\ WellPlaced(Append(conversation, <<"tool", appended + 1>>))
        /\ RoundOpen(Append(conversation, <<"tool", appended + 1>>), calls, appended + 1)
    BY <2>1, ResultFits
  <2>3. QED
    BY <2>1, <2>2, MessageStored
<1>11. CASE NextStep
  <2>1. RoundEnds(conversation)
    BY <1>11, RoundCloses, PolicyAssumption DEF NextStep
  <2>2. QED
    BY <1>11, <2>1 DEF NextStep
<1>12. CASE Settle \/ PublishOutcome
  BY <1>12 DEF Settle, PublishOutcome
<1>13. CASE Cancel
  BY <1>13 DEF Cancel, main
<1>14. ASSUME NEW i \in CallIds, Tool(i) PROVE RoundsInv'
  BY <1>14 DEF Tool, ToolStart, ToolReturns, ToolFailed, ToolCompleted, ToolStep, main
<1>15. CASE Returned \/ UNCHANGED vars
  BY <1>15 DEF Returned, vars
<1>16. QED
  BY <1>1, <1>2, <1>3, <1>4, <1>5, <1>6, <1>7, <1>8, <1>9, <1>10, <1>11, <1>12, <1>13, <1>14,
     <1>15 DEF Next, Execute

(***************************************************************************)
(* The stored conversation has the shape the LLM is promised: every result *)
(* follows its call, in the order of the calls, for any number of steps    *)
(* and calls and whatever the store does.                                  *)
(***************************************************************************)
THEOREM EngineConversationGrammar == Spec => []ConversationGrammar
<1>1. Init => RoundsInv
  BY DEF Init, RoundsInv, WellPlaced, Rounds, RoundHead
<1>2. TypeOK /\ RoundsInv /\ [Next]_vars => RoundsInv'
  BY RoundStep
<1>3. RoundsInv => ConversationGrammar
  BY GrammarIsWellPlaced DEF RoundsInv
<1>4. QED
  BY <1>1, <1>2, <1>3, EngineTypeOK, PTL DEF Spec
-----------------------------------------------------------------------------
(***************************************************************************)
(* The trace.  The LLM steps keep up with the calls the breaker admitted;  *)
(* the tool steps with the results, of which those of the step under way   *)
(* are first tools that are done and then messages being stored.  A run    *)
(* with a failed tool does not get past its tool step.                     *)
(***************************************************************************)
ToolMessages(c)    == {j \in 1..Len(c) : c[j][1] = "tool"}
CompletedEvents(s) == {i \in 1..Len(s) : s[i] = "tool.completed"}

DoneCalls == {i \in 1..calls : tool[i] = "done"}
Unharmed  == \A i \in CallIds : tool[i] \notin {"error", "interrupted", "failed", "canceled"}
Outside   == BeforeUser \cup {"loop", "call", "backoff", "step", "answer", "assistant", "succeeding"}

LLMTraced ==
    /\ pc \in (Outside \cup {"tools", "results"}) \ {"call", "backoff", "step"} => llmSteps = admitted
    /\ pc \in {"call", "backoff", "step"} => llmSteps + 1 = admitted
    /\ row = "succeeded" => llmSteps = admitted

ToolsTraced ==
    /\ pc \in Outside => toolSteps = Results
    /\ pc = "tools" => \A i \in CallIds : i > calls => tool[i] = "done"
    /\ pc = "tools" /\ Unharmed => toolSteps = Results + Cardinality(DoneCalls)
    /\ pc = "results" => toolSteps + appended = Results + calls
    /\ row = "succeeded" => toolSteps = Results

(* The counts when a message is stored, an event published, a tool done. *)
LEMMA CountOne ==
    ASSUME NEW n \in Nat, NEW S \in SUBSET (1..n), NEW x, x \notin S
    PROVE  Cardinality(S) \in Nat /\ Cardinality(S \cup {x}) = Cardinality(S) + 1
<1>1. IsFiniteSet(1..n)
  BY FS_Interval
<1>2. IsFiniteSet(S)
  BY <1>1, FS_Subset
<1>3. QED
  BY <1>2, FS_AddElement, FS_CardinalityType

LEMMA ResultsStep ==
    ASSUME conversation \in Seq(Messages), NEW m \in Messages, conversation' = Append(conversation, m)
    PROVE  Results \in Nat /\ Results' = IF m[1] = "tool" THEN Results + 1 ELSE Results
<1> DEFINE n == Len(conversation)
           S == ToolMessages(conversation)
<1>1. n \in Nat /\ S \in SUBSET (1..n) /\ n + 1 \notin S
  BY DEF ToolMessages
<1>2. Len(conversation') = n + 1 /\ conversation'[n + 1] = m /\ \A j \in 1..n : conversation'[j] = conversation[j]
  OBVIOUS
<1>3. 1..(n + 1) = (1..n) \cup {n + 1}
  BY <1>1
<1>4. ToolMessages(conversation') = IF m[1] = "tool" THEN S \cup {n + 1} ELSE S
  <2> HIDE DEF n
  <2>1. QED
    BY <1>1, <1>2, <1>3 DEF ToolMessages, n
<1>5. Cardinality(S) \in Nat /\ Cardinality(S \cup {n + 1}) = Cardinality(S) + 1
  <2> HIDE DEF n, S
  <2>1. QED
    BY <1>1, CountOne
<1>6. Results = Cardinality(S) /\ Results' = Cardinality(ToolMessages(conversation'))
  BY DEF Results, ToolMessages
<1>7. QED
  BY <1>4, <1>5, <1>6

LEMMA ResultsType == ASSUME conversation \in Seq(Messages) PROVE Results \in Nat
<1>1. IsFiniteSet(1..Len(conversation))
  BY FS_Interval
<1>2. {j \in 1..Len(conversation) : conversation[j][1] = "tool"} \in SUBSET (1..Len(conversation))
  OBVIOUS
<1>3. QED
  BY <1>1, <1>2, FS_Subset, FS_CardinalityType DEF Results

LEMMA ResultsSame == ASSUME UNCHANGED conversation PROVE Results' = Results
BY DEF Results

LEMMA CompletionsStep ==
    ASSUME events \in Seq(EventTypes), NEW e \in EventTypes, Publish(e)
    PROVE  /\ Completions \in Nat
           /\ Completions' = IF e = "tool.completed" THEN Completions + 1 ELSE Completions
<1> DEFINE n == Len(events)
           S == CompletedEvents(events)
<1>1. n \in Nat /\ S \in SUBSET (1..n) /\ n + 1 \notin S
  BY DEF CompletedEvents
<1>2. Len(events') = n + 1 /\ events'[n + 1] = e /\ \A j \in 1..n : events'[j] = events[j]
  BY DEF Publish
<1>3. 1..(n + 1) = (1..n) \cup {n + 1}
  BY <1>1
<1>4. CompletedEvents(events') = IF e = "tool.completed" THEN S \cup {n + 1} ELSE S
  <2> HIDE DEF n
  <2>1. QED
    BY <1>1, <1>2, <1>3 DEF CompletedEvents, n
<1>5. Cardinality(S) \in Nat /\ Cardinality(S \cup {n + 1}) = Cardinality(S) + 1
  <2> HIDE DEF n, S
  <2>1. QED
    BY <1>1, CountOne
<1>6. Completions = Cardinality(S) /\ Completions' = Cardinality(CompletedEvents(events'))
  BY DEF Completions, CompletedEvents
<1>7. QED
  BY <1>4, <1>5, <1>6

LEMMA CompletionsSame == ASSUME UNCHANGED events PROVE Completions' = Completions
BY DEF Completions

(* A tool.completed event follows its stored step. *)
LEMMA CompletionsTracedStep ==
    ASSUME TypeOK, Completions <= toolSteps, [Next]_vars
    PROVE  (Completions <= toolSteps)'
<1> USE DEF main, backoff, tools
<1>0. events \in Seq(EventTypes) /\ toolSteps \in Nat
  BY DEF TypeOK
<1>1. CASE UNCHANGED <<events, toolSteps>>
  BY <1>1, CompletionsSame
<1>2. ASSUME NEW e \in EventTypes \ {"tool.completed"}, Publish(e), toolSteps' \in {toolSteps, toolSteps + 1}
      PROVE  (Completions <= toolSteps)'
  <2>1. Completions \in Nat /\ Completions' = Completions
    BY <1>0, <1>2, CompletionsStep
  <2>2. QED
    BY <1>0, <1>2, <2>1
<1>3. CASE MarkRunning \/ ListMessages \/ AppendUser \/ StopLoop \/ CallErrors \/ Backoff \/ StoreStep
  BY <1>1, <1>3 DEF MarkRunning, ListMessages, AppendUser, StopLoop, CallErrors, Backoff, StoreStep
<1>4. CASE AppendAnswer \/ AppendAssistant \/ JoinTools \/ AppendResult \/ NextStep \/ Settle \/ Cancel
  BY <1>1, <1>4 DEF AppendAnswer, AppendAssistant, JoinTools, AppendResult, NextStep, Settle, Cancel
<1>5. CASE \/ \E n \in Answers : CallAnswers(n)
           \/ \E k \in {"failed", "canceled"} : CallFails(k)
           \/ Returned \/ UNCHANGED vars
  BY <1>1, <1>5 DEF CallAnswers, CallFails, Returned, vars
<1>6. CASE PublishStarted \/ BeginCall \/ PublishOutcome
  BY <1>2, <1>6 DEF PublishStarted, BeginCall, PublishOutcome, EventTypes
<1>7. ASSUME NEW i \in CallIds, Tool(i) PROVE (Completions <= toolSteps)'
  <2>1. CASE ToolStart(i) \/ ToolReturns(i)
    BY <1>1, <1>2, <2>1 DEF ToolStart, ToolReturns, EventTypes
  <2>2. CASE ToolFailed(i)
    BY <1>2, <2>2 DEF ToolFailed, Stored, EventTypes
  <2>3. CASE ToolCompleted(i)
    <3>1. PICK o \in StoreOutcomes :
              /\ toolSteps' = Stored(toolSteps, o)
              /\ IF o = "ok" THEN Publish("tool.completed") ELSE UNCHANGED events
      BY <2>3 DEF ToolCompleted
    <3>2. CASE o = "ok"
      <4>1. toolSteps' = toolSteps + 1 /\ Publish("tool.completed")
        BY <3>1, <3>2 DEF Stored, Written
      <4>2. Completions \in Nat /\ Completions' = Completions + 1
        BY <1>0, <4>1, CompletionsStep DEF EventTypes
      <4>3. QED
        BY <1>0, <4>1, <4>2
    <3>3. CASE o # "ok"
      <4>1. toolSteps' >= toolSteps /\ toolSteps' \in Nat /\ UNCHANGED events
        BY <1>0, <3>1, <3>3 DEF Stored
      <4>2. Completions \in Nat
        <5>1. IsFiniteSet(1..Len(events))
          BY <1>0, FS_Interval
        <5>2. {j \in 1..Len(events) : events[j] = "tool.completed"} \in SUBSET (1..Len(events))
          OBVIOUS
        <5>3. QED
          BY <5>1, <5>2, FS_Subset, FS_CardinalityType DEF Completions
      <4>3. QED
        BY <1>0, <4>1, <4>2, CompletionsSame
    <3>4. QED
      BY <3>2, <3>3
  <2>4. QED
    BY <1>7, <2>1, <2>2, <2>3 DEF Tool
<1>8. QED
  BY <1>3, <1>4, <1>5, <1>6, <1>7 DEF Next, Execute

LEMMA LLMTracedStep == ASSUME TypeOK, Reasons, LLMTraced, [Next]_vars PROVE LLMTraced'
<1> USE DEF TypeOK, LLMTraced, Outside, BeforeUser, main, Goto, Fail
<1>1. CASE MarkRunning \/ PublishStarted \/ ListMessages
  BY <1>1 DEF MarkRunning, PublishStarted, ListMessages
<1>2. CASE AppendUser \/ AppendAnswer \/ AppendAssistant \/ AppendResult
  BY <1>2 DEF AppendUser, AppendAnswer, AppendAssistant, AppendResult, AppendMessage
<1>3. CASE StopLoop \/ CallErrors \/ Backoff \/ JoinTools \/ NextStep
  BY <1>3 DEF StopLoop, CallErrors, Backoff, JoinTools, NextStep
<1>4. CASE BeginCall
  BY <1>4 DEF BeginCall, Reasons
<1>5. ASSUME NEW n \in Answers, CallAnswers(n) PROVE LLMTraced'
  BY <1>5 DEF CallAnswers, Reasons
<1>6. ASSUME NEW k \in {"failed", "canceled"}, CallFails(k) PROVE LLMTraced'
  BY <1>6 DEF CallFails, CallEnds, Reasons
<1>7. CASE StoreStep
  BY <1>7 DEF StoreStep, Stored, Written, Reasons
<1>8. CASE Settle
  BY <1>8 DEF Settle, FinalStatus, Reasons
<1>9. CASE PublishOutcome \/ Cancel
  BY <1>9 DEF PublishOutcome, Cancel
<1>10. ASSUME NEW i \in CallIds, Tool(i) PROVE LLMTraced'
  BY <1>10 DEF Tool, ToolStart, ToolReturns, ToolFailed, ToolCompleted, ToolStep
<1>11. CASE Returned \/ UNCHANGED vars
  BY <1>11 DEF Returned, vars
<1>12. QED
  BY <1>1, <1>2, <1>3, <1>4, <1>5, <1>6, <1>7, <1>8, <1>9, <1>10, <1>11 DEF Next, Execute

LEMMA ToolsTracedStep == ASSUME TypeOK, ToolsJoined, Reasons, ToolsTraced, [Next]_vars PROVE ToolsTraced'
<1> USE DEF ToolsTraced, Outside, BeforeUser, tools, Goto, Fail
<1>0. /\ Results \in Nat /\ toolSteps \in Nat
      /\ calls \in 0..MaxCalls /\ appended \in 0..MaxCalls /\ conversation \in Seq(Messages)
  BY ResultsType DEF TypeOK
<1>1. CASE MarkRunning \/ PublishStarted \/ ListMessages \/ StopLoop \/ BeginCall \/ CallErrors \/ Backoff
  BY <1>1, ResultsSame DEF MarkRunning, PublishStarted, ListMessages, StopLoop, BeginCall, CallErrors, Backoff
<1>2. CASE \/ \E n \in Answers : CallAnswers(n)
           \/ \E k \in {"failed", "canceled"} : CallFails(k)
           \/ StoreStep
  BY <1>2, ResultsSame DEF CallAnswers, CallFails, StoreStep, Reasons
<1>3. ASSUME NEW m \in Messages, m[1] # "tool", NEW next, AppendMessage(m, next)
      PROVE  Results' = Results /\ pc' \in {next, "failing"}
  BY <1>0, <1>3, ResultsStep, ResultsSame, MessageStored
<1>4. CASE AppendUser
  <2>1. <<"user", 0>> \in Messages
    BY PolicyAssumption DEF Messages
  <2>2. Results' = Results /\ pc' \in {"loop", "failing"}
    BY <1>3, <1>4, <2>1 DEF AppendUser
  <2>3. QED
    BY <1>4, <2>2 DEF AppendUser
<1>5. CASE AppendAnswer
  <2>1. <<"assistant", 0>> \in Messages
    BY PolicyAssumption DEF Messages
  <2>2. Results' = Results /\ pc' \in {"succeeding", "failing"}
    BY <1>3, <1>5, <2>1 DEF AppendAnswer
  <2>3. QED
    BY <1>5, <2>2 DEF AppendAnswer
<1>6. CASE AppendAssistant
  <2>1. <<"assistant", calls>> \in Messages
    BY <1>0 DEF Messages
  <2>2. Results' = Results /\ pc' \in {"tools", "failing"}
    BY <1>3, <1>6, <2>1 DEF AppendAssistant
  <2>3. pc = "assistant" /\ row' = row /\ calls' = calls /\ toolSteps' = toolSteps
    BY <1>6 DEF AppendAssistant, main
  <2>4. ASSUME pc' = "tools"
        PROVE  (\A i \in CallIds : i > calls => tool'[i] = "done") /\ Cardinality(DoneCalls') = 0
    <3>1. tool' = [i \in CallIds |-> IF i <= calls THEN "spawned" ELSE "done"]
      BY <1>6, <2>4 DEF AppendAssistant
    <3>2. DoneCalls' = {}
      BY <1>0, <2>3, <3>1, PolicyAssumption DEF DoneCalls, CallIds
    <3>3. QED
      BY <1>0, <3>1, <3>2, FS_EmptySet, PolicyAssumption DEF CallIds
  <2>5. toolSteps = Results + 0
    BY <1>0, <2>3
  <2>6. QED
    BY <2>2, <2>3, <2>4, <2>5 DEF Reasons
<1>7. CASE JoinTools
  <2>1. pc = "tools" /\ appended' = 0 /\ UNCHANGED <<row, calls, toolSteps, conversation>>
    BY <1>7 DEF JoinTools
  <2>2. CASE pc' = "failing"
    BY <2>1, <2>2 DEF Reasons
  <2>3. CASE (\A i \in CallIds : tool[i] = "done") /\ pc' = "results"
    <3>1. DoneCalls = 1..calls
      BY <1>0, <2>3, PolicyAssumption DEF DoneCalls, CallIds
    <3>2. Cardinality(DoneCalls) = calls
      BY <1>0, <3>1, FS_Interval
    <3>3. Unharmed
      BY <2>3 DEF Unharmed
    <3>4. toolSteps' + appended' = Results' + calls'
      BY <1>0, <2>1, <3>2, <3>3, ResultsSame
    <3>5. QED
      BY <2>1, <2>3, <3>4 DEF Reasons
  <2>4. QED
    BY <1>7, <2>2, <2>3 DEF JoinTools
<1>8. CASE AppendResult
  <2>1. /\ pc = "results" /\ appended' = appended + 1 /\ UNCHANGED <<row, calls, toolSteps>>
        /\ AppendMessage(<<"tool", appended + 1>>, "results") /\ appended < calls
    BY <1>8 DEF AppendResult
  <2>2. <<"tool", appended + 1>> \in Messages
    BY <1>0, <2>1, PolicyAssumption DEF Messages
  <2>3. /\ pc' \in {"results", "failing"}
        /\ pc' = "results" => conversation' = Append(conversation, <<"tool", appended + 1>>)
    BY <2>1, MessageStored
  <2>4. pc' = "results" => Results' = Results + 1
    BY <1>0, <2>2, <2>3, ResultsStep
  <2>5. QED
    BY <1>0, <2>1, <2>3, <2>4 DEF Reasons
<1>9. CASE NextStep
  BY <1>0, <1>9, ResultsSame DEF NextStep, Reasons
<1>10. CASE Settle \/ PublishOutcome \/ Cancel \/ Returned \/ UNCHANGED vars
  BY <1>10, ResultsSame DEF Settle, FinalStatus, PublishOutcome, Cancel, Returned, vars, main,
                            Reasons, Unharmed, DoneCalls
<1>11. ASSUME NEW i \in CallIds, Tool(i) PROVE ToolsTraced'
  <2>1. pc = "tools" /\ tool[i] \notin Ended
    BY <1>11 DEF Tool, ToolStart, ToolReturns, ToolFailed, ToolCompleted, ToolsJoined, Ended
  <2>2. UNCHANGED <<pc, row, calls, conversation>> /\ Results' = Results
    BY <1>11, ResultsSame DEF Tool, ToolStart, ToolReturns, ToolFailed, ToolCompleted, ToolStep, main
  <2>3. i <= calls /\ row # "succeeded"
    BY <1>0, <2>1, PolicyAssumption DEF Ended, Reasons, CallIds
  <2>4. \E t : tool' = [tool EXCEPT ![i] = t]
    BY <1>11 DEF Tool, ToolStart, ToolReturns, ToolFailed, ToolCompleted, ToolStep
  <2>5. \A j \in CallIds : j # i => tool'[j] = tool[j]
    BY <2>4 DEF TypeOK
  <2>6. \A j \in CallIds : j > calls => tool'[j] = "done"
    BY <1>0, <2>1, <2>3, <2>5, PolicyAssumption DEF CallIds
  <2>7. ASSUME Unharmed' PROVE toolSteps' = Results' + Cardinality(DoneCalls')
    <3>1. tool'[i] \notin {"error", "interrupted", "failed", "canceled"}
      BY <2>7 DEF Unharmed
    <3>2. CASE ToolStart(i) \/ ToolReturns(i)
      <4>1. tool'[i] # "done" /\ toolSteps' = toolSteps /\ tool[i] \in {"spawned", "executing"}
        BY <3>2 DEF ToolStart, ToolReturns, ToolStep, ExecuteOutcomes, TypeOK
      <4>2. Unharmed
        BY <2>5, <2>7, <4>1 DEF Unharmed
      <4>3. DoneCalls' = DoneCalls
        BY <1>0, <2>2, <2>5, <4>1, PolicyAssumption DEF DoneCalls, CallIds
      <4>4. QED
        BY <2>1, <2>2, <4>1, <4>2, <4>3
    <3>3. CASE ToolFailed(i)
      BY <3>1, <3>3 DEF ToolFailed, ToolStep, TypeOK
    <3>4. CASE ToolCompleted(i)
      <4>1. tool[i] = "ok" /\ tool'[i] = "done" /\ toolSteps' = toolSteps + 1
        BY <3>1, <3>4 DEF ToolCompleted, ToolStep, StoreError, Stored, Written, TypeOK
      <4>2. Unharmed
        BY <2>5, <2>7, <4>1 DEF Unharmed
      <4>3. DoneCalls' = DoneCalls \cup {i} /\ i \notin DoneCalls
        BY <1>0, <2>2, <2>3, <2>5, <4>1, PolicyAssumption DEF DoneCalls, CallIds
      <4>4. DoneCalls \in SUBSET (1..calls) /\ calls \in Nat
        BY <1>0, PolicyAssumption DEF DoneCalls
      <4>5. Cardinality(DoneCalls) \in Nat /\ Cardinality(DoneCalls') = Cardinality(DoneCalls) + 1
        BY <4>3, <4>4, CountOne
      <4>6. toolSteps = Results + Cardinality(DoneCalls)
        BY <2>1, <4>2
      <4>7. QED
        BY <1>0, <2>2, <4>1, <4>5, <4>6
    <3>5. QED
      BY <1>11, <3>2, <3>3, <3>4 DEF Tool
  <2>8. QED
    BY <2>1, <2>2, <2>3, <2>6, <2>7
<1>12. QED
  BY <1>1, <1>2, <1>4, <1>5, <1>6, <1>7, <1>8, <1>9, <1>10, <1>11 DEF Next, Execute

(***************************************************************************)
(* No tool.completed event without its stored step, and the trace of a     *)
(* succeeded run is complete, for any number of steps and calls and        *)
(* whatever the store does.                                                *)
(***************************************************************************)
THEOREM EngineTraceComplete == Spec => []TraceComplete
<1> DEFINE Told   == Completions <= toolSteps
           Traced == Told /\ Reasons /\ LLMTraced /\ ToolsTraced
<1>1. Init => Traced
  <2> SUFFICES ASSUME Init PROVE Traced
    OBVIOUS
  <2>1. /\ pc = "start" /\ row = "queued" /\ events = << >> /\ conversation = << >> /\ toolSteps = 0
        /\ llmSteps = 0 /\ admitted = 0
    BY DEF Init
  <2>2. Completions = 0 /\ Results = 0
    <3>1. {i \in 1..Len(events) : events[i] = "tool.completed"} = {}
      BY <2>1
    <3>2. {j \in 1..Len(conversation) : conversation[j][1] = "tool"} = {}
      BY <2>1
    <3>3. QED
      BY <3>1, <3>2, FS_EmptySet DEF Completions, Results
  <2>3. Reasons
    BY DEF Init, Reasons
  <2>4. Told
    BY <2>1, <2>2
  <2>5. LLMTraced /\ ToolsTraced
    BY <2>1, <2>2 DEF LLMTraced, ToolsTraced
  <2>6. QED
    BY <2>3, <2>4, <2>5
<1>2. TypeOK /\ ToolsJoined /\ Traced /\ [Next]_vars => Traced'
  <2> SUFFICES ASSUME TypeOK, ToolsJoined, Traced, [Next]_vars PROVE Traced'
    OBVIOUS
  <2>1. Told'
    BY CompletionsTracedStep
  <2>2. Reasons' /\ LLMTraced'
    BY ReasonStep, LLMTracedStep
  <2>3. ToolsTraced'
    BY ToolsTracedStep
  <2>4. QED
    BY <2>1, <2>2, <2>3
<1>3. Traced => TraceComplete
  BY DEF LLMTraced, ToolsTraced, TraceComplete
<1>4. QED
  BY <1>1, <1>2, <1>3, EngineTypeOK, EngineToolsJoined, PTL DEF Spec
=============================================================================
