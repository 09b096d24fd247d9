------------------------------ MODULE Dispatch ------------------------------
(***************************************************************************)
(* The life of an execution: app.Service.StartExecution persists a queued  *)
(* row and pushes a job, worker.consume pops the job, loads the row and    *)
(* the agent and runs the engine, which marks the row running and, at the  *)
(* end, writes its final status.  Every store and queue call is a step of  *)
(* its own, so requests, workers, agent updates and deletions, shutdown,   *)
(* crashes and failing calls interleave between any two of them.           *)
(*                                                                         *)
(* A request draws its execution id and its new conversation id itself, so *)
(* the request names both.  Requests of one owner are modelled; what the   *)
(* engine does between its first and its last write is not: see Engine.    *)
(*                                                                         *)
(* gin.Context, the context StartExecution runs under, is never done: a    *)
(* handler's store and queue calls are not cut short by the client.        *)
(***************************************************************************)
EXTENDS Naturals, Sequences

CONSTANTS
    Adapter,       \* "memory" or "postgres" (main.buildStore)
    QueueKind,     \* "immediate" or "redis" (main.buildQueue)
    QueueSize,     \* capacity of the immediate queue's channel
    Requests, Agents, Workers,
    None,
    KeyOf,         \* the request's idempotency key, or None
    AgentOf,       \* the agent the request asks to run
    ConvOf,        \* the request whose conversation it continues, or None
    UuidRequests,  \* requests that bring an X-Request-ID header that is a UUID
    StoredForm,    \* requests whose path spells the agent id as PostgreSQL does
    MaxVersion,    \* bound: agents are not updated beyond this version
    Environment    \* which events outside the two loops an instance includes

Events == {"update", "delete", "cancel", "crash", "store", "push_failed",
           "push_unacknowledged", "push_repeated", "pop_lost"}

ASSUME AdapterAssumption == Adapter \in {"memory", "postgres"}
ASSUME QueueAssumption == QueueKind \in {"immediate", "redis"} /\ QueueSize \in Nat
ASSUME NoneAssumption == None \notin Requests
ASSUME RequestAssumption ==
    /\ AgentOf \in [Requests -> Agents]
    /\ ConvOf \in [Requests -> Requests \cup {None}]
    /\ DOMAIN KeyOf = Requests
    /\ UuidRequests \subseteq Requests /\ StoredForm \subseteq Requests
ASSUME EnvironmentAssumption == MaxVersion \in Nat \ {0} /\ Environment \subseteq Events

VARIABLES
    agents,     \* current version of each agent; 0 once it is deleted
    convs,      \* conversations that exist
    status,     \* executions.status, "none" where there is no row
    recorded,   \* executions.agent_version (PostgreSQL only)
    queue,      \* jobs pushed and not popped, oldest first
    unanswered, \* history: requests whose push Redis applied without an answer
    stage,      \* where each request's StartExecution stands
    answer,     \* the execution a request was answered with
    phase,      \* where each worker's loop stands
    job,        \* the job a worker holds, or None
    loaded,     \* the agent version a worker loaded
    ctxDone,    \* the workers' context is cancelled
    dropped     \* history: jobs a failed call or a crash took from the system

stores   == <<agents, convs, status, recorded>>
jobs     == <<queue, unanswered>>
requests == <<stage, answer>>
workers  == <<phase, job, loaded, ctxDone>>
vars == <<agents, convs, status, recorded, queue, unanswered, stage, answer, phase,
          job, loaded, ctxDone, dropped>>

Terminal   == {"succeeded", "failed", "cancelled"}
Statuses   == {"none", "queued", "running"} \cup Terminal
InProgress == {"key", "agent", "conversation", "create", "enqueue", "undispatched"}
Answered   == {"replayed", "accepted", "failed", "crashed"}
Holding    == {"popped", "found", "ready", "running"}

HasRow(r)  == status[r] # "none"
Deleted(r) == agents[AgentOf[r]] = 0
SameKey(r, s) == KeyOf[r] # None /\ KeyOf[s] = KeyOf[r]
ConvId(r)  == IF ConvOf[r] = None THEN r ELSE ConvOf[r]
Queued     == {queue[i] : i \in 1..Len(queue)}

Init ==
    /\ agents   = [a \in Agents |-> 1]
    /\ convs    = {}
    /\ status   = [r \in Requests |-> "none"]
    /\ recorded = [r \in Requests |-> 0]
    /\ queue    = << >>
    /\ unanswered = {}
    /\ stage    = [r \in Requests |-> "key"]
    /\ answer   = [r \in Requests |-> None]
    /\ phase    = [w \in Workers |-> "idle"]
    /\ job      = [w \in Workers |-> None]
    /\ loaded   = [w \in Workers |-> 0]
    /\ ctxDone  = FALSE
    /\ dropped  = {}

-----------------------------------------------------------------------------
(* StartExecution, one action per store or queue call. *)

At(r, s) == stage[r] = s
Goto(r, s) == stage' = [stage EXCEPT ![r] = s] /\ UNCHANGED <<answer, workers>>
Answer(r, s, x) ==
    /\ stage'  = [stage EXCEPT ![r] = s]
    /\ answer' = [answer EXCEPT ![r] = x]
    /\ UNCHANGED workers

StoreMayFail == Adapter = "postgres" /\ "store" \in Environment

LookupKey(r) ==
    /\ At(r, "key")
    /\ \/ \E s \in Requests : SameKey(r, s) /\ HasRow(s) /\ Answer(r, "replayed", s)
       \/ /\ \A s \in Requests : SameKey(r, s) => ~HasRow(s)
          /\ Goto(r, "agent")
    /\ UNCHANGED <<stores, jobs, dropped>>

GetAgent(r) ==
    /\ At(r, "agent")
    /\ Goto(r, IF Deleted(r) THEN "failed" ELSE "conversation")
    /\ UNCHANGED <<stores, jobs, dropped>>

\* Fault variant: a named conversation is not checked against the agent.
ConversationUnchecked(r) ==
    IF ConvOf[r] = None THEN Adapter = "memory" \/ ~Deleted(r) ELSE ConvOf[r] \in convs

\* conversation.AgentID != agentID compares strings.  The maps keep the id as
\* id.New made it, 32 hex digits; a UUID column gives it back with hyphens, so
\* the id CreateAgent answered with differs from the one GetConversation reads.
SameAgentId(r) ==
    /\ AgentOf[ConvOf[r]] = AgentOf[r]
    /\ Adapter = "memory" \/ r \in StoredForm

\* CreateConversation (with its foreign key), or GetConversation and the check.
ConversationAccepted(r) ==
    IF ConvOf[r] = None
    THEN Adapter = "memory" \/ ~Deleted(r)
    ELSE ConvOf[r] \in convs /\ SameAgentId(r)

Conversation(r) ==
    /\ At(r, "conversation")
    /\ \/ /\ ConversationAccepted(r)
          /\ convs' = convs \cup {ConvId(r)}
          /\ Goto(r, "create")
       \/ ~ConversationAccepted(r) /\ Goto(r, "failed") /\ UNCHANGED convs
    /\ UNCHANGED <<agents, status, recorded, jobs, dropped>>

InsertRow(r) ==
    /\ status'   = [status EXCEPT ![r] = "queued"]
    /\ recorded' = [recorded EXCEPT ![r] = IF Adapter = "postgres" THEN agents[AgentOf[r]] ELSE 0]
    /\ UNCHANGED <<agents, convs>>

\* executions.request_id is a UUID; the requestID middleware gives a request
\* without an X-Request-ID header the time in base 36, which is not one.
RequestIdValid(r) == Adapter = "postgres" => r \in UuidRequests

\* Fault variant: executions without UNIQUE (owner_id, idempotency_key).
InsertWithoutUniqueKey(r) ==
    \/ Adapter = "memory"
    \/ ~Deleted(r) /\ ConvId(r) \in convs /\ RequestIdValid(r)

\* The foreign keys, the types and NOT NULL, and UNIQUE (owner_id, idempotency_key).
InsertAccepted(r) ==
    \/ Adapter = "memory"
    \/ /\ ~Deleted(r) /\ ConvId(r) \in convs /\ RequestIdValid(r)
       /\ \A s \in Requests : SameKey(r, s) => ~HasRow(s)

\* Fault variant: an execution that could not be stored is dispatched anyway.
CreateErrorIgnored(r) ==
    /\ At(r, "create")
    /\ \/ InsertAccepted(r) /\ InsertRow(r) /\ Goto(r, "enqueue")
       \/ ~InsertAccepted(r) /\ UNCHANGED stores /\ Goto(r, "enqueue")
    /\ UNCHANGED <<jobs, dropped>>

CreateExecution(r) ==
    /\ At(r, "create")
    /\ \/ InsertAccepted(r) /\ InsertRow(r) /\ Goto(r, "enqueue")
       \/ ~InsertAccepted(r) /\ UNCHANGED stores /\ Goto(r, "failed")
    /\ UNCHANGED <<jobs, dropped>>

\* The INSERT is committed and its answer is lost: a row, and never a job.
CreateUnacknowledged(r) ==
    /\ StoreMayFail /\ At(r, "create") /\ InsertAccepted(r)
    /\ InsertRow(r) /\ Goto(r, "failed")
    /\ dropped' = dropped \cup {r}
    /\ UNCHANGED jobs

\* A store call fails and StartExecution returns the error: nothing is stored,
\* or a new conversation is, whose answer was lost.
RequestStoreError(r) ==
    /\ StoreMayFail /\ stage[r] \in {"key", "agent", "conversation", "create"}
    /\ \/ UNCHANGED convs
       \/ At(r, "conversation") /\ ConversationAccepted(r) /\ convs' = convs \cup {ConvId(r)}
    /\ Goto(r, "failed")
    /\ UNCHANGED <<agents, status, recorded, jobs, dropped>>

Push(pushed)  == queue' = queue \o pushed
Unanswered(r) == unanswered' = unanswered \cup {r}

(***************************************************************************)
(* Immediate.Enqueue blocks while the channel is full.  LPUSH may fail     *)
(* before or after Redis applied it, and the client repeats a command      *)
(* whose answer it did not get (go-redis retries up to three times).       *)
(***************************************************************************)
Enqueue(r) ==
    /\ At(r, "enqueue")
    /\ QueueKind = "immediate" => Len(queue) < QueueSize
    /\ Push(<<r>>) /\ Answer(r, "accepted", r)
    /\ UNCHANGED <<stores, unanswered, dropped>>

RedisPush(r, event) == QueueKind = "redis" /\ event \in Environment /\ At(r, "enqueue")

EnqueueRepeated(r) ==
    /\ RedisPush(r, "push_repeated")
    /\ Push(<<r, r>>) /\ Unanswered(r) /\ Answer(r, "accepted", r)
    /\ UNCHANGED <<stores, dropped>>

EnqueueFails(r) ==
    /\ \/ RedisPush(r, "push_failed") /\ UNCHANGED jobs
       \/ RedisPush(r, "push_unacknowledged") /\ Push(<<r>>) /\ Unanswered(r)
    /\ Goto(r, "undispatched")
    /\ UNCHANGED <<stores, dropped>>

SetStatus(r, s) ==
    /\ status' = [status EXCEPT ![r] = IF HasRow(r) THEN s ELSE "none"]
    /\ UNCHANGED <<agents, convs, recorded>>

\* Fault variant: the row of an undispatched execution is given no final status.
UndispatchedLeftQueued(r) ==
    At(r, "undispatched") /\ Goto(r, "failed") /\ UNCHANGED <<stores, jobs, dropped>>

\* The row is overwritten whatever it says by now; the client gets the error.
MarkUndispatched(r) ==
    At(r, "undispatched") /\ SetStatus(r, "failed") /\ Goto(r, "failed") /\ UNCHANGED <<jobs, dropped>>

\* That write fails and its error is ignored.
MarkUndispatchedError(r) ==
    /\ StoreMayFail /\ At(r, "undispatched") /\ Goto(r, "failed")
    /\ dropped' = dropped \cup {r}
    /\ UNCHANGED <<stores, jobs>>

StartExecution(r) ==
    \/ LookupKey(r) \/ GetAgent(r) \/ Conversation(r) \/ CreateExecution(r)
    \/ Enqueue(r) \/ MarkUndispatched(r)

StartExecutionFault(r) ==
    \/ CreateUnacknowledged(r) \/ RequestStoreError(r) \/ EnqueueRepeated(r)
    \/ EnqueueFails(r) \/ MarkUndispatchedError(r)

-----------------------------------------------------------------------------
(***************************************************************************)
(* worker.consume and the outer writes of Engine.Execute.  PostgreSQL      *)
(* refuses every call made under the cancelled context; the memory store   *)
(* ignores its context.                                                    *)
(***************************************************************************)
StoreWorks == Adapter = "memory" \/ ~ctxDone
StoreFails == Adapter = "postgres" /\ (ctxDone \/ "store" \in Environment)

Step(w, p) == phase' = [phase EXCEPT ![w] = p] /\ UNCHANGED <<job, loaded, ctxDone, requests>>

\* Back to the top of the loop: Redis.Dequeue under a cancelled context
\* returns Canceled at once; Immediate.Dequeue may still pick a waiting job.
Loop(w) ==
    /\ phase'  = [phase EXCEPT ![w] = IF QueueKind = "redis" /\ ctxDone THEN "stopped" ELSE "idle"]
    /\ job'    = [job EXCEPT ![w] = None]
    /\ loaded' = [loaded EXCEPT ![w] = 0]
    /\ UNCHANGED <<ctxDone, requests>>

TakeHead(w) ==
    /\ phase[w] = "idle" /\ queue # << >>
    /\ phase' = [phase EXCEPT ![w] = "popped"]
    /\ job'   = [job EXCEPT ![w] = Head(queue)]
    /\ UNCHANGED <<loaded, ctxDone, requests, stores, dropped>>

\* Fault variant: the job is read and stays in the queue.
DequeuePeeks(w) == TakeHead(w) /\ UNCHANGED jobs

\* Also once the context is cancelled: a select with both cases ready picks
\* either, and a BRPOP already waiting is not interrupted.
Dequeue(w) == TakeHead(w) /\ queue' = Tail(queue) /\ UNCHANGED unanswered

\* BRPOP takes the job off the list and its answer never arrives.
PopLost ==
    /\ QueueKind = "redis" /\ "pop_lost" \in Environment /\ queue # << >>
    /\ queue'   = Tail(queue)
    /\ dropped' = dropped \cup {Head(queue)}
    /\ UNCHANGED <<unanswered, stores, requests, workers>>

Quit(w) ==
    /\ ctxDone /\ phase[w] = "idle"
    /\ Step(w, "stopped")
    /\ UNCHANGED <<stores, jobs, dropped>>

LoadExecution(w) ==
    /\ phase[w] = "popped" /\ StoreWorks
    /\ \/ HasRow(job[w]) /\ Step(w, "found")
       \/ ~HasRow(job[w]) /\ Loop(w)
    /\ UNCHANGED <<stores, jobs, dropped>>

KeepAgent(w) ==
    /\ ~Deleted(job[w])
    /\ phase'  = [phase EXCEPT ![w] = "ready"]
    /\ loaded' = [loaded EXCEPT ![w] = agents[AgentOf[job[w]]]]
    /\ UNCHANGED <<job, ctxDone, requests>>

\* Fault variant: a worker that cannot load an agent returns from its loop.
LoadAgentReturns(w) ==
    /\ phase[w] = "found" /\ StoreWorks
    /\ \/ KeepAgent(w)
       \/ /\ Deleted(job[w])
          /\ phase' = [phase EXCEPT ![w] = "stopped"]
          /\ job'   = [job EXCEPT ![w] = None]
          /\ UNCHANGED <<loaded, ctxDone, requests>>
    /\ UNCHANGED <<stores, jobs, dropped>>

\* GetAgent: the current version, not the one the execution row records.
LoadAgent(w) ==
    /\ phase[w] = "found" /\ StoreWorks
    /\ \/ KeepAgent(w)
       \/ Deleted(job[w]) /\ Loop(w)
    /\ UNCHANGED <<stores, jobs, dropped>>

\* Execute's first write.
MarkRunning(w) ==
    /\ phase[w] = "ready" /\ StoreWorks
    /\ \/ HasRow(job[w]) /\ Step(w, "running")
       \/ ~HasRow(job[w]) /\ Loop(w)
    /\ SetStatus(job[w], "running")
    /\ UNCHANGED <<jobs, dropped>>

Ending(w, s) ==
    /\ phase[w] = "running" /\ StoreWorks
    /\ s = "cancelled" => ctxDone

\* Fault variant: a failed run is put back into the queue.
FinishRequeues(w, s) ==
    /\ Ending(w, s) /\ SetStatus(job[w], s) /\ Loop(w)
    /\ queue' = IF s = "failed" THEN Append(queue, job[w]) ELSE queue
    /\ UNCHANGED <<unanswered, dropped>>

\* Execute's last write, succeed or fail, and the way back to the loop.
Finish(w, s) ==
    /\ Ending(w, s) /\ SetStatus(job[w], s) /\ Loop(w)
    /\ UNCHANGED <<jobs, dropped>>

\* What a call that fails has done: nothing or, if it is one of the engine's
\* two writes and only its answer was lost, all it was to do.  A cancelled run
\* writes under its cancelled context, so that write never reaches the row.
LostWrite(w) ==
    \/ UNCHANGED stores
    \/ phase[w] = "ready" /\ SetStatus(job[w], "running")
    \/ phase[w] = "running" /\ \E s \in Terminal \ {"cancelled"} : SetStatus(job[w], s)

Failing(w) == phase[w] \in Holding /\ StoreFails /\ LostWrite(w) /\ Loop(w)

\* Fault variant: a job whose call failed is put back into the queue.
WorkerStoreErrorRequeues(w) ==
    /\ Failing(w)
    /\ queue' = Append(queue, job[w])
    /\ UNCHANGED <<unanswered, dropped>>

\* Any of these calls fails: the error is logged and the job is gone.
WorkerStoreError(w) ==
    /\ Failing(w)
    /\ dropped' = dropped \cup {job[w]}
    /\ UNCHANGED jobs

Consume(w) ==
    \/ Dequeue(w) \/ LoadExecution(w) \/ LoadAgent(w) \/ MarkRunning(w) \/ Quit(w)
    \/ \E s \in Terminal : Finish(w, s)

-----------------------------------------------------------------------------
(* Agent management, shutdown and crashes. *)

UpdateAgent(a) ==
    /\ "update" \in Environment /\ agents[a] > 0 /\ agents[a] < MaxVersion
    /\ agents' = [agents EXCEPT ![a] = @ + 1]
    /\ UNCHANGED <<convs, status, recorded, jobs, requests, workers, dropped>>

\* Fault variant: the conversations of every agent are taken along.
DeleteTakesAllConversations(a) ==
    /\ "delete" \in Environment /\ agents[a] > 0
    /\ agents' = [agents EXCEPT ![a] = 0]
    /\ convs'  = {}
    /\ status' = [r \in Requests |-> IF AgentOf[r] = a THEN "none" ELSE status[r]]
    /\ UNCHANGED <<recorded, jobs, requests, workers, dropped>>

\* ON DELETE CASCADE takes conversations and executions along; the maps keep them.
DeleteAgent(a) ==
    /\ "delete" \in Environment /\ agents[a] > 0
    /\ agents' = [agents EXCEPT ![a] = 0]
    /\ \/ /\ Adapter = "postgres"
          /\ convs'    = {c \in convs : AgentOf[c] # a}
          /\ status'   = [r \in Requests |-> IF AgentOf[r] = a THEN "none" ELSE status[r]]
          /\ recorded' = [r \in Requests |-> IF AgentOf[r] = a THEN 0 ELSE recorded[r]]
       \/ Adapter = "memory" /\ UNCHANGED <<convs, status, recorded>>
    /\ UNCHANGED <<jobs, requests, workers, dropped>>

\* main on SIGTERM: cancelWorkers.
CancelWorkers ==
    /\ "cancel" \in Environment /\ ~ctxDone
    /\ ctxDone' = TRUE
    /\ UNCHANGED <<stores, jobs, requests, phase, job, loaded, dropped>>

RestartWorkers ==
    /\ phase'   = [w \in Workers |-> "idle"]
    /\ job'     = [w \in Workers |-> None]
    /\ loaded'  = [w \in Workers |-> 0]
    /\ ctxDone' = FALSE

Held == {job[w] : w \in {v \in Workers : phase[v] \in Holding}}

RestartApi ==
    stage' = [r \in Requests |-> IF stage[r] \in InProgress \ {"key"} THEN "crashed" ELSE stage[r]]

Dispatching == {r \in Requests : stage[r] \in {"enqueue", "undispatched"}}

\* The end of a process, by a crash or by main returning without waiting for
\* its workers, and its restart.  With the immediate queue it is one process.
CrashWorkers ==
    /\ "crash" \in Environment /\ Adapter = "postgres" /\ QueueKind = "redis"
    /\ RestartWorkers
    /\ dropped' = dropped \cup Held
    /\ UNCHANGED <<stores, jobs, requests>>

CrashApi ==
    /\ "crash" \in Environment /\ Adapter = "postgres" /\ QueueKind = "redis"
    /\ RestartApi
    /\ dropped' = dropped \cup Dispatching
    /\ UNCHANGED <<stores, jobs, answer, workers>>

CrashProcess ==
    /\ "crash" \in Environment /\ Adapter = "postgres" /\ QueueKind = "immediate"
    /\ RestartWorkers /\ RestartApi
    /\ queue' = << >>
    /\ dropped' = dropped \cup Held \cup Dispatching \cup Queued
    /\ UNCHANGED <<unanswered, stores, answer>>

Next ==
    \/ \E r \in Requests : StartExecution(r) \/ StartExecutionFault(r)
    \/ \E w \in Workers : Consume(w) \/ WorkerStoreError(w)
    \/ PopLost \/ CancelWorkers \/ CrashWorkers \/ CrashApi \/ CrashProcess
    \/ \E a \in Agents : UpdateAgent(a) \/ DeleteAgent(a)

Spec == Init /\ [][Next]_vars

\* Handlers and worker goroutines are scheduled by the Go runtime: neither is
\* held back forever at a step it could take.
FairSpec ==
    /\ Spec
    /\ \A r \in Requests : WF_vars(StartExecution(r))
    /\ \A w \in Workers : WF_vars(Consume(w))

-----------------------------------------------------------------------------
(* Type invariant. *)
StoreTypeOK ==
    /\ agents \in [Agents -> 0..MaxVersion]
    /\ convs \subseteq Requests
    /\ status \in [Requests -> Statuses]
    /\ recorded \in [Requests -> 0..MaxVersion]

RequestTypeOK ==
    /\ queue \in Seq(Requests) /\ unanswered \subseteq Requests
    /\ stage \in [Requests -> InProgress \cup Answered]
    /\ answer \in [Requests -> Requests \cup {None}]
    /\ dropped \subseteq Requests

WorkerTypeOK ==
    /\ phase \in [Workers -> {"idle", "stopped"} \cup Holding]
    /\ job \in [Workers -> Requests \cup {None}]
    /\ \A w \in Workers : phase[w] \in Holding <=> job[w] # None
    /\ loaded \in [Workers -> 0..MaxVersion]
    /\ ctxDone \in BOOLEAN

TypeOK == StoreTypeOK /\ RequestTypeOK /\ WorkerTypeOK

(***************************************************************************)
(* docs/architecture.md line 40: a queued execution is persisted before    *)
(* its job is pushed.  A job that waits or that a worker holds has a row,  *)
(* unless deleting the agent has taken it away (service.go 162-165).       *)
(***************************************************************************)
PersistedBeforePushed ==
    \A r \in Requests : r \in Queued \cup Held => HasRow(r) \/ Deleted(r)

(***************************************************************************)
(* No execution is forgotten: one that is not finished still has its job   *)
(* waiting, a worker on it or its handler dispatching it, unless a failed  *)
(* call or a crash is on record as having dropped the job, or its agent is *)
(* deleted (service.go 162-172, worker.go 45-68: nothing is acknowledged   *)
(* or retried, so these are all the ways to lose one).                     *)
(***************************************************************************)
Conserved ==
    \A r \in Requests : status[r] \in {"queued", "running"} =>
        r \in Queued \cup Held \cup Dispatching \cup dropped \/ Deleted(r)

(***************************************************************************)
(* Two requests with one idempotency key that both succeed name the same   *)
(* execution, however their handlers interleave, for as long as it has not *)
(* been deleted (service.go 106-114 and the UNIQUE constraint).            *)
(***************************************************************************)
IdempotentAnswers ==
    \A r, s \in Requests :
        SameKey(r, s) /\ answer[r] # None /\ answer[s] # None =>
            answer[r] = answer[s] \/ Deleted(answer[r]) \/ Deleted(answer[s])

(***************************************************************************)
(* A stored execution's conversation exists and belongs to its own agent,  *)
(* so the engine can always append to it and deleting another agent never  *)
(* takes it away (service.go 119-138, executions.conversation_id).         *)
(***************************************************************************)
ConversationMatches ==
    \A r \in Requests : HasRow(r) =>
        ConvId(r) \in convs /\ AgentOf[ConvId(r)] = AgentOf[r]

(***************************************************************************)
(* docs/openapi.yaml lines 58-77: an execute request is answered "Queued   *)
(* execution"; no header and no spelling of the id is asked for.  While no *)
(* call fails, StartExecution refuses a request only if the agent is gone, *)
(* the conversation it names does not exist or is another agent's, or      *)
(* another request took its key meanwhile (service.go 106-164).            *)
(***************************************************************************)
RefusalsExplained ==
    [][\A r \in Requests : stage[r] # "failed" /\ stage'[r] = "failed" =>
           \/ Deleted(r)
           \/ ConvOf[r] # None /\ (ConvOf[r] \notin convs \/ AgentOf[ConvOf[r]] # AgentOf[r])
           \/ \E s \in Requests : SameKey(r, s) /\ HasRow(s)]_vars

(***************************************************************************)
(* docs/architecture.md line 41: "One worker claims the job".  Two workers *)
(* hold one execution only if the answer to its LPUSH was lost and the     *)
(* client pushed it again, whatever crashes and other failures there are   *)
(* (worker.go 45, queue.go 37, redis.go 25-32).                            *)
(***************************************************************************)
OneWorkerClaims ==
    \A v, w \in Workers : job[v] = job[w] /\ job[v] # None => v = w \/ job[v] \in unanswered

(***************************************************************************)
(* A finished execution stays as it is until it is deleted: no other       *)
(* worker, and not the handler that dispatched it, writes its row again,   *)
(* again with a lost answer to the LPUSH as the only exception             *)
(* (UpdateExecution looks at no earlier status, postgres.go 199-208).      *)
(***************************************************************************)
TerminalStable ==
    [][\A r \in Requests \ unanswered :
           status[r] \in Terminal => status'[r] \in {status[r], "none"}]_vars

(***************************************************************************)
(* No execution runs twice.  A worker that starts one finds its row still  *)
(* queued, never running or finished: a run that a crash, a shutdown or a  *)
(* failed call broke off, its last write applied or not, is not begun      *)
(* again, nor one whose dispatch was given up.  Nothing looks at the       *)
(* status first (worker.go 45-68, engine.go 64-69), so this rests on where *)
(* the job can be; the only exception is a lost answer to its LPUSH.       *)
(***************************************************************************)
RunsOnce ==
    [][\A w \in Workers : phase[w] = "ready" /\ phase'[w] = "running" =>
           status[job[w]] = "queued" \/ job[w] \in unanswered]_vars

(***************************************************************************)
(* docs/architecture.md line 45: "Every state change is persisted".  When  *)
(* the engine's run of an execution ends, the row says how (engine.go      *)
(* 265-296), whether or not the run was cancelled.                         *)
(***************************************************************************)
EndIsPersisted ==
    [][\A w \in Workers : phase[w] = "running" /\ phase'[w] # "running" =>
           status'[job[w]] \in Terminal \cup {"none"}]_vars

(***************************************************************************)
(* docs/architecture.md line 41: the worker "loads the immutable agent     *)
(* version context": an execution runs with the agent version its row      *)
(* records (executions.agent_version).                                     *)
(***************************************************************************)
VersionPinned ==
    \A w \in Workers : phase[w] \in {"ready", "running"} /\ HasRow(job[w]) =>
        loaded[w] = recorded[job[w]]

(***************************************************************************)
(* Until the workers are told to stop every request is answered although   *)
(* the queue is bounded and Enqueue waits for room: the workers always     *)
(* make room (queue.go 28-35).                                             *)
(***************************************************************************)
EveryRequestAnswered == \A r \in Requests : <>(stage[r] \in Answered \/ ctxDone)

(***************************************************************************)
(* Every execution that was queued is finished in the end, unless its      *)
(* agent is deleted or the workers are told to stop (worker.go 42-69).     *)
(***************************************************************************)
EveryExecutionEnds ==
    \A r \in Requests : status[r] = "queued" ~> (status[r] \in Terminal \/ Deleted(r) \/ ctxDone)
=============================================================================
