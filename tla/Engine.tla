------------------------------- MODULE Engine -------------------------------
(***************************************************************************)
(* workflow.Engine.Execute, one run of one execution: the main goroutine,  *)
(* the goroutines of executeTools and the cancellation of the worker's     *)
(* context, which may come between any two steps.  The LLM and the tools   *)
(* answer as they like; the breaker's verdict is a choice here and its     *)
(* state the subject of CircuitBreaker.                                    *)
(*                                                                         *)
(* A message is <<role, number>>: an assistant message carries the number  *)
(* of tool calls it asks for, a tool message the index of its call.        *)
(***************************************************************************)
EXTENDS Naturals, Sequences, FiniteSets

CONSTANTS Adapter,       \* "memory" or "postgres"
          StoreErrors,   \* whether PostgreSQL calls may fail on their own
          MaxSteps,      \* maxSteps (8 in NewEngine)
          MaxAttempts,   \* retryPolicy.MaxAttempts (3 in NewEngine)
          BaseDelay, MaxDelay,   \* its delays (0.2 and 2 seconds)
          MaxCalls       \* bound: tool calls in one LLM response

ASSUME AdapterAssumption == Adapter \in {"memory", "postgres"} /\ StoreErrors \in BOOLEAN
ASSUME PolicyAssumption ==
    /\ MaxSteps \in Nat \ {0} /\ MaxAttempts \in Nat \ {0} /\ MaxCalls \in Nat
    /\ BaseDelay \in Nat \ {0} /\ MaxDelay \in Nat \ {0}

VARIABLES
    pc,             \* where the main goroutine stands
    ctxDone,        \* ctx is cancelled
    row,            \* the stored status
    events,         \* event types handed to the EventSink, in order
    conversation,   \* messages this run has stored
    stepNumber, attempt,
    delay,          \* BaseDelay << (attempt - 1)
    waited,         \* history: backoff of the call under way, 0 after it
    retries,        \* execution.RetryCount
    calls,          \* tool calls in the last response
    tool,           \* state of the goroutine of each call
    llmSteps, toolSteps,   \* trace steps stored, by type
    appended,       \* tool messages of this response already stored
    cause,          \* what fail was called with
    operations,     \* history: calls of provider.Complete
    admitted, reported   \* history: calls the breaker admitted, verdicts it was given

backoff == <<attempt, delay, waited>>
main == <<stepNumber, backoff, retries, calls, appended, llmSteps, operations, admitted, reported>>
tools == <<tool, toolSteps>>
vars == <<pc, ctxDone, row, events, conversation, stepNumber, attempt, delay, waited, retries,
          calls, tool, llmSteps, toolSteps, appended, cause, operations, admitted, reported>>

CallIds == 1..MaxCalls
Ended   == {"done", "failed", "canceled"}
Active  == {"spawned", "executing", "ok", "error", "interrupted"}

EventTypes == {"agent.started", "agent.thinking", "tool.started", "tool.completed",
               "tool.failed", "agent.completed", "agent.failed"}
Messages   == {"user", "assistant", "tool"} \X (0..MaxCalls)

Init ==
    /\ pc = "start" /\ ctxDone = FALSE /\ row = "queued"
    /\ events = << >> /\ conversation = << >>
    /\ stepNumber = 0 /\ attempt = 0 /\ delay = 0 /\ waited = 0 /\ retries = 0
    /\ llmSteps = 0 /\ toolSteps = 0
    /\ calls = 0 /\ tool = [i \in CallIds |-> "done"] /\ appended = 0
    /\ cause = "none"
    /\ operations = 0 /\ admitted = 0 /\ reported = 0

(***************************************************************************)
(* What a store call may do.  The memory store ignores its context and     *)
(* finds every row this run uses; PostgreSQL refuses calls under a         *)
(* cancelled context, and a call that fails may have been applied.         *)
(***************************************************************************)
StoreOutcomes ==
    IF Adapter = "memory" THEN {"ok"}
    ELSE (IF ctxDone THEN {} ELSE {"ok"})
         \cup (IF ctxDone \/ StoreErrors THEN {"refused", "unacknowledged"} ELSE {})

Written(o) == o # "refused"
Stored(n, o) == IF Written(o) THEN n + 1 ELSE n
StoreError == IF ctxDone THEN "canceled" ELSE "failed"

\* Err of a context derived from ctx with a deadline of its own.
Errors == {"failed"} \cup (IF ctxDone THEN {"canceled"} ELSE {})

(***************************************************************************)
(* What provider.Complete and a tool's Execute may do.  Complete answers   *)
(* with some number of tool calls, or fails: with the context's error, or  *)
(* because it got no response, a status other than 2xx, a body it cannot   *)
(* read or decode, or no choices.                                          *)
(***************************************************************************)
Answers         == 0..MaxCalls
CompleteErrors  == {"failed"} \cup Errors
ExecuteOutcomes == {"ok", "error"} \cup (IF ctxDone THEN {"interrupted"} ELSE {})

Publish(e) == events' = Append(events, e)
Goto(p)    == pc' = p /\ UNCHANGED cause
Fail(k)    == pc' = "failing" /\ cause' = k

AppendMessage(m, next) ==
    \E o \in StoreOutcomes :
        /\ conversation' = IF Written(o) THEN Append(conversation, m) ELSE conversation
        /\ IF o = "ok" THEN Goto(next) ELSE Fail(StoreError)

-----------------------------------------------------------------------------
(* Execute up to the loop. *)
MarkRunning ==
    /\ pc = "start"
    /\ \E o \in StoreOutcomes :
           /\ row' = IF Written(o) THEN "running" ELSE row
           /\ Goto(IF o = "ok" THEN "started" ELSE "returned")
    /\ UNCHANGED <<main, ctxDone, events, conversation, tools>>

PublishStarted ==
    /\ pc = "started" /\ Publish("agent.started") /\ Goto("history")
    /\ UNCHANGED <<main, ctxDone, row, conversation, tools>>

ListMessages ==
    /\ pc = "history"
    /\ \E o \in StoreOutcomes : IF o = "ok" THEN Goto("user") ELSE Fail(StoreError)
    /\ UNCHANGED <<main, ctxDone, row, events, conversation, tools>>

AppendUser ==
    /\ pc = "user" /\ AppendMessage(<<"user", 0>>, "loop")
    /\ UNCHANGED <<main, ctxDone, row, events, tools>>

(* The head of the loop: step limit, cancellation, circuit breaker. *)
StopLoop ==
    /\ pc = "loop"
    /\ \/ stepNumber = MaxSteps /\ Fail("failed")
       \/ stepNumber < MaxSteps /\ ctxDone /\ Fail("canceled")
       \/ stepNumber < MaxSteps /\ ~ctxDone /\ Fail("failed")     \* ErrCircuitOpen
    /\ UNCHANGED <<main, ctxDone, row, events, conversation, tools>>

BeginCall ==
    /\ pc = "loop" /\ stepNumber < MaxSteps /\ ~ctxDone
    /\ admitted' = admitted + 1
    /\ attempt' = 1 /\ delay' = BaseDelay /\ waited' = 0
    /\ Publish("agent.thinking") /\ Goto("call")
    /\ UNCHANGED <<ctxDone, row, conversation, tools, stepNumber, retries, calls, appended,
                   operations, reported, llmSteps>>

(***************************************************************************)
(* reliability.Retry around provider.Complete, and the verdict for the     *)
(* breaker.  An attempt may return an answer although ctx is cancelled.    *)
(***************************************************************************)
\* Fault variant: attempts are counted instead of retries.
SettleCountsAttempts(verdict) ==
    /\ retries' = retries + attempt /\ reported' = reported + verdict
    /\ waited' = 0 /\ UNCHANGED <<attempt, delay>>

SettleCall(verdict) ==
    /\ retries' = retries + attempt - 1 /\ reported' = reported + verdict
    /\ waited' = 0 /\ UNCHANGED <<attempt, delay>>

CallAnswers(n) ==
    /\ pc = "call"
    /\ operations' = operations + 1
    /\ calls' = n
    /\ SettleCall(1) /\ Goto("step")
    /\ UNCHANGED <<ctxDone, row, events, conversation, tools, stepNumber, appended, admitted, llmSteps>>

CallErrors ==
    /\ pc = "call" /\ attempt < MaxAttempts
    /\ operations' = operations + 1
    /\ Goto("backoff")
    /\ UNCHANGED <<ctxDone, row, events, conversation, tools, stepNumber, backoff, retries,
                   calls, appended, admitted, reported, llmSteps>>

\* Fault variant: the cap is not applied.
Uncapped(d) == d

Cap(d) == IF d > MaxDelay THEN MaxDelay ELSE d

\* rand.Int64N(max(d/2, 1)), added to the capped delay.
Jitter(d) == {j \in 0..d \div 2 : j = 0 \/ j < d \div 2}

Backoff ==
    /\ pc = "backoff"
    /\ attempt' = attempt + 1
    /\ delay' = 2 * delay
    /\ \E j \in Jitter(Cap(delay)) : waited' = waited + Cap(delay) + j
    /\ Goto("call")
    /\ UNCHANGED <<ctxDone, row, events, conversation, tools, stepNumber, retries, calls,
                   appended, operations, admitted, reported, llmSteps>>

\* The last attempt's error, or the context's while backing off: stepCtx is
\* done when ctx is cancelled or when the step's deadline has passed.
CallEnds(k) ==
    \/ pc = "call" /\ attempt = MaxAttempts /\ k \in CompleteErrors /\ operations' = operations + 1
    \/ pc = "backoff" /\ k \in Errors /\ UNCHANGED operations

\* Fault variant: a cancelled call is no failure of the provider.
CallFailsUnreported(k) ==
    /\ CallEnds(k)
    /\ SettleCall(IF k = "canceled" THEN 0 ELSE 1) /\ Fail(k)
    /\ \E o \in StoreOutcomes : llmSteps' = Stored(llmSteps, o)
    /\ UNCHANGED <<ctxDone, row, events, conversation, tools, stepNumber, calls, appended, admitted>>

\* The trace step of a failed call is stored if that works.
CallFails(k) ==
    /\ CallEnds(k)
    /\ SettleCall(1) /\ Fail(k)
    /\ \E o \in StoreOutcomes : llmSteps' = Stored(llmSteps, o)
    /\ UNCHANGED <<ctxDone, row, events, conversation, tools, stepNumber, calls, appended, admitted>>

\* Fault variant: the answer is returned and not added to the conversation.
StoreStepAnswers ==
    /\ pc = "step"
    /\ \E o \in StoreOutcomes :
           /\ llmSteps' = Stored(llmSteps, o)
           /\ IF o = "ok" THEN Goto(IF calls = 0 THEN "succeeding" ELSE "assistant") ELSE Fail(StoreError)
    /\ UNCHANGED <<ctxDone, row, events, conversation, tools, stepNumber, backoff, retries, calls,
                   appended, operations, admitted, reported>>

StoreStep ==
    /\ pc = "step"
    /\ \E o \in StoreOutcomes :
           /\ llmSteps' = Stored(llmSteps, o)
           /\ IF o = "ok" THEN Goto(IF calls = 0 THEN "answer" ELSE "assistant") ELSE Fail(StoreError)
    /\ UNCHANGED <<ctxDone, row, events, conversation, tools, stepNumber, backoff, retries, calls,
                   appended, operations, admitted, reported>>

AppendAnswer ==
    /\ pc = "answer" /\ AppendMessage(<<"assistant", 0>>, "succeeding")
    /\ UNCHANGED <<main, ctxDone, row, events, tools>>

AppendAssistant ==
    /\ pc = "assistant" /\ AppendMessage(<<"assistant", calls>>, "tools")
    /\ tool' = [i \in CallIds |-> IF pc' = "tools" /\ i <= calls THEN "spawned" ELSE "done"]
    /\ UNCHANGED <<main, ctxDone, row, events, toolSteps>>

-----------------------------------------------------------------------------
(* executeTool, one goroutine per call. *)
ToolStep(i, t) == tool' = [tool EXCEPT ![i] = t] /\ UNCHANGED <<main, pc, cause, ctxDone, row, conversation>>

\* Registry.Get, then the event; an unregistered tool leaves no trace at all.
ToolStart(i) ==
    /\ tool[i] = "spawned"
    /\ \/ ToolStep(i, "executing") /\ Publish("tool.started")
       \/ ToolStep(i, "failed") /\ UNCHANGED events
    /\ UNCHANGED toolSteps

ToolReturns(i) ==
    /\ tool[i] = "executing"
    /\ \/ \E o \in ExecuteOutcomes : ToolStep(i, o)
       \/ ToolStep(i, "failed")                     \* its result cannot be encoded
    /\ UNCHANGED <<events, toolSteps>>

\* The failed call's trace step, whose error is ignored, and its event.
ToolFailed(i) ==
    /\ tool[i] \in {"error", "interrupted"}
    /\ \E o \in StoreOutcomes : toolSteps' = Stored(toolSteps, o)
    /\ ToolStep(i, IF tool[i] = "interrupted" THEN "canceled" ELSE "failed")
    /\ Publish("tool.failed")

\* Fault variant: the error of AppendStep is ignored here too.
ToolCompletedUntraced(i) ==
    /\ tool[i] = "ok"
    /\ \E o \in StoreOutcomes : toolSteps' = Stored(toolSteps, o)
    /\ ToolStep(i, "done") /\ Publish("tool.completed")

ToolCompleted(i) ==
    /\ tool[i] = "ok"
    /\ \E o \in StoreOutcomes :
           /\ toolSteps' = Stored(toolSteps, o)
           /\ IF o = "ok" THEN ToolStep(i, "done") /\ Publish("tool.completed")
                          ELSE ToolStep(i, StoreError) /\ UNCHANGED events

Tool(i) == ToolStart(i) \/ ToolReturns(i) \/ ToolFailed(i) \/ ToolCompleted(i)

(* executeTools: the wait group, then the first error in the order of the calls. *)
FirstError(i) == tool[i] \in {"failed", "canceled"} /\ \A j \in 1..i-1 : tool[j] = "done"

\* Fault variant: executeTools returns on the first error without waiting.
JoinEarly ==
    /\ pc = "tools"
    /\ \/ \E i \in CallIds : tool[i] \in {"failed", "canceled"} /\ Fail(tool[i])
       \/ (\A i \in CallIds : tool[i] = "done") /\ Goto("results")
    /\ appended' = 0
    /\ UNCHANGED <<ctxDone, row, events, conversation, tools, stepNumber, backoff, retries,
                   calls, operations, admitted, reported, llmSteps>>

JoinTools ==
    /\ pc = "tools"
    /\ \A i \in CallIds : tool[i] \in Ended
    /\ \/ \E i \in CallIds : FirstError(i) /\ Fail(tool[i])
       \/ (\A i \in CallIds : tool[i] = "done") /\ Goto("results")
    /\ appended' = 0
    /\ UNCHANGED <<ctxDone, row, events, conversation, tools, stepNumber, backoff, retries,
                   calls, operations, admitted, reported, llmSteps>>

\* Fault variant: the results are stored last call first.
AppendResultReversed ==
    /\ pc = "results" /\ appended < calls
    /\ appended' = appended + 1
    /\ AppendMessage(<<"tool", calls - appended>>, "results")
    /\ UNCHANGED <<ctxDone, row, events, tools, stepNumber, backoff, retries, calls,
                   operations, admitted, reported, llmSteps>>

AppendResult ==
    /\ pc = "results" /\ appended < calls
    /\ appended' = appended + 1
    /\ AppendMessage(<<"tool", appended'>>, "results")
    /\ UNCHANGED <<ctxDone, row, events, tools, stepNumber, backoff, retries, calls,
                   operations, admitted, reported, llmSteps>>

NextStep ==
    /\ pc = "results" /\ appended = calls
    /\ stepNumber' = stepNumber + 1
    /\ Goto("loop")
    /\ UNCHANGED <<ctxDone, row, events, conversation, tools, backoff, retries, calls, appended,
                   operations, admitted, reported, llmSteps>>

-----------------------------------------------------------------------------
(* succeed and fail: the final status, then the event if it was stored. *)
FinalStatus ==
    IF pc = "succeeding" THEN "succeeded" ELSE IF cause = "canceled" THEN "cancelled" ELSE "failed"

\* Fault variant: the outcome is announced although it could not be stored.
SettleUnchecked ==
    /\ pc \in {"succeeding", "failing"}
    /\ \E o \in StoreOutcomes : row' = IF Written(o) THEN FinalStatus ELSE row
    /\ Goto(IF pc = "succeeding" THEN "completed" ELSE "failed")
    /\ UNCHANGED <<main, ctxDone, events, conversation, tools>>

\* Fault variant: the final write is repeated until it succeeds.
SettleInsists ==
    /\ pc \in {"succeeding", "failing"}
    /\ \E o \in StoreOutcomes :
           /\ row' = IF Written(o) THEN FinalStatus ELSE row
           /\ Goto(IF o # "ok" THEN pc ELSE IF pc = "succeeding" THEN "completed" ELSE "failed")
    /\ UNCHANGED <<main, ctxDone, events, conversation, tools>>

Settle ==
    /\ pc \in {"succeeding", "failing"}
    /\ \E o \in StoreOutcomes :
           /\ row' = IF Written(o) THEN FinalStatus ELSE row
           /\ Goto(IF o # "ok" THEN "returned" ELSE IF pc = "succeeding" THEN "completed" ELSE "failed")
    /\ UNCHANGED <<main, ctxDone, events, conversation, tools>>

PublishOutcome ==
    /\ \/ pc = "completed" /\ Publish("agent.completed")
       \/ pc = "failed" /\ Publish("agent.failed")
    /\ Goto("returned")
    /\ UNCHANGED <<main, ctxDone, row, conversation, tools>>

Cancel == ~ctxDone /\ ctxDone' = TRUE
          /\ UNCHANGED <<main, pc, cause, row, events, conversation, tools>>

Execute ==
    \/ MarkRunning \/ PublishStarted \/ ListMessages \/ AppendUser
    \/ StopLoop \/ BeginCall
    \/ (\E n \in Answers : CallAnswers(n)) \/ CallErrors \/ Backoff
    \/ (\E k \in {"failed", "canceled"} : CallFails(k))
    \/ StoreStep \/ AppendAnswer \/ AppendAssistant
    \/ JoinTools \/ AppendResult \/ NextStep
    \/ Settle \/ PublishOutcome

Returned == pc = "returned" /\ UNCHANGED vars

Next == Execute \/ Cancel \/ (\E i \in CallIds : Tool(i)) \/ Returned

Spec == Init /\ [][Next]_vars

\* The LLM call and every tool run under stepTimeout, so each of them returns,
\* and the Go runtime runs every goroutine that can run.
FairSpec == Spec /\ WF_vars(Execute) /\ \A i \in CallIds : WF_vars(Tool(i))

-----------------------------------------------------------------------------
(* Type invariant. *)
TypeOK ==
    /\ pc \in {"start", "started", "history", "user", "loop", "call", "backoff", "step", "answer",
                "assistant", "tools", "results", "succeeding", "failing", "completed", "failed",
                "returned"}
    /\ ctxDone \in BOOLEAN
    /\ row \in {"queued", "running", "succeeded", "failed", "cancelled"}
    /\ events \in Seq(EventTypes)
    /\ conversation \in Seq(Messages)
    /\ stepNumber \in 0..MaxSteps
    /\ attempt \in 0..MaxAttempts
    /\ calls \in 0..MaxCalls /\ appended \in 0..MaxCalls
    /\ tool \in [CallIds -> Active \cup Ended]
    /\ cause \in {"none", "failed", "canceled"}
    /\ delay \in Nat /\ waited \in Nat /\ llmSteps \in Nat /\ toolSteps \in Nat
    /\ retries \in Nat /\ operations \in Nat /\ admitted \in Nat /\ reported \in Nat

(***************************************************************************)
(* Execute moves on from a tool step only when every goroutine it started  *)
(* has ended: none writes to the store, publishes an event or touches the  *)
(* shared slices behind its back (executeTools, engine.go 177-198).        *)
(***************************************************************************)
ToolsJoined == pc # "tools" => \A i \in CallIds : tool[i] \in Ended

(***************************************************************************)
(* The stored conversation is always user, then rounds of one assistant    *)
(* message and the results of all its tool calls in call order, whatever   *)
(* order the tools ended in, then perhaps the answer; only the last round  *)
(* of a run that failed may be cut short (engine.go 76-84, 150-172).       *)
(***************************************************************************)
ConversationGrammar ==
    \A j \in 1..Len(conversation) :
        LET role == conversation[j][1]
            n    == conversation[j][2]
        IN  /\ role = "user" <=> j = 1
            /\ role = "tool" =>
                   /\ n < j /\ conversation[j-n][1] = "assistant" /\ conversation[j-n][2] >= n
                   /\ n > 1 => conversation[j-1] = <<"tool", n - 1>>
            /\ role = "assistant" /\ j > 2 =>
                   LET last == conversation[j-1]
                   IN  last[1] = "tool" /\ conversation[j-1-last[2]] = <<"assistant", last[2]>>

(***************************************************************************)
(* Every call the breaker admitted is reported to it exactly once, also    *)
(* when the call is cancelled or runs into its deadline (engine.go         *)
(* 90-137): otherwise a breaker would stay open or closed on calls it      *)
(* never hears of.                                                         *)
(***************************************************************************)
VerdictsBalanced ==
    admitted = reported + (IF pc \in {"call", "backoff"} THEN 1 ELSE 0)

(***************************************************************************)
(* execution.RetryCount is the number of provider calls beyond the first   *)
(* of each step, on the success, failure and cancellation paths of Retry   *)
(* alike (retry.go 22-42, engine.go 127-128).                              *)
(***************************************************************************)
RetriesCounted ==
    pc \notin {"call", "backoff"} => retries = operations - admitted

(***************************************************************************)
(* Retrying a call backs off before each retry, never for longer than half *)
(* as long again as MaxDelay, for the jitter is added after the cap, and   *)
(* never for less than the base delay (retry.go 31-41).                    *)
(***************************************************************************)
BackoffBounded ==
    pc \in {"call", "backoff"} =>
        /\ waited <= (attempt - 1) * (MaxDelay + MaxDelay \div 2)
        /\ waited >= (attempt - 1) * Cap(BaseDelay)

(***************************************************************************)
(* docs/architecture.md line 43 and README.md line 3: tools run "each with *)
(* its own deadline and trace step", traces are durable.  A tool.completed *)
(* event is never published without its stored step, and the trace of a    *)
(* succeeded run is complete: a step for every LLM call the breaker let    *)
(* through and for every tool result in the conversation (engine.go        *)
(* 134-147, 226-241).                                                      *)
(***************************************************************************)
Completions == Cardinality({i \in 1..Len(events) : events[i] = "tool.completed"})
Results     == Cardinality({j \in 1..Len(conversation) : conversation[j][1] = "tool"})

TraceComplete ==
    /\ Completions <= toolSteps
    /\ row = "succeeded" => llmSteps = admitted /\ toolSteps = Results

(***************************************************************************)
(* The run reports what it did: a final status other than failed says why  *)
(* (succeeded has the answer stored, cancelled saw the context cancelled). *)
(***************************************************************************)
StatusJustified ==
    /\ row = "succeeded" => conversation[Len(conversation)] = <<"assistant", 0>>
    /\ row = "cancelled" => ctxDone

(***************************************************************************)
(* Execute implements ExecutionRun: one outcome, stored before it is       *)
(* announced, and nothing after it.                                        *)
(***************************************************************************)
Announced ==
    IF events = << >> THEN "nothing"
    ELSE CASE events[Len(events)] = "agent.completed" -> "completed"
           [] events[Len(events)] = "agent.failed"    -> "failed"
           [] OTHER -> "started"

Run == INSTANCE ExecutionRun WITH announced <- Announced, returned <- pc = "returned"

ImplementsRun == Run!Spec

(***************************************************************************)
(* Every run ends, within the step limit and the attempt limit, whatever   *)
(* the LLM and the tools do and whether store calls succeed or fail        *)
(* (engine.go 86, retry.go 22). That a store call returns at all is        *)
(* assumed: the code gives none of them a deadline.                        *)
(***************************************************************************)
Terminates == <>(pc = "returned")
=============================================================================
