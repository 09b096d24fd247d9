# AgentFlow: TLA+ models and proofs

AgentFlow accepts requests to run LLM agents, stores an execution for each,
queues it, and lets a pool of workers run it: calls to an LLM, tools in
parallel, a stored conversation, live events. This directory models the parts
where interleavings, failures and crashes decide whether that works.
`PROJECT.json` lists every component, run, mutant, finding, hazard and theorem,
and maps each definition to the lines it models.

    tlc -config dispatch_redis.cfg MCDispatch     # one run
    tlapm DispatchProofs.tla                      # one proof module

## 1. Inventory

| component | state | operations | talks to | hard part |
|---|---|---|---|---|
| `internal/app` service | none | CreateAgent, UpdateAgent, DeleteAgent, StartExecution | store, queue | several store calls per request, no transaction around them |
| store, memory | five maps under one mutex | one method per call | – | no unique keys, no cascades, ignores its context |
| store, PostgreSQL | tables of `migrations/` | one statement or transaction per method | – | unique keys, cascades, refused under a cancelled context, lost answers |
| queue | channel (1024) or Redis list | Enqueue, Dequeue | service, worker | blocks when full; LPUSH may repeat, BRPOP is at most once |
| worker | none | Run, consume | queue, store, engine | drops a job on any error; no acknowledgement, no retry |
| workflow engine | locals of one run | Execute, executeTools, executeTool, succeed, fail | store, LLM, tools, breaker, event sink | goroutines per tool, cancellation anywhere, final write |
| circuit breaker | failures, openedAt | Allow, Success, Failure | engine | shared by all runs of a process, late reports |
| retry | attempt counter, delay | Retry | engine | four exits, cancellation during backoff, jitter after the cap |
| brokers, `streamExecution` | subscriber maps, Redis pub/sub, channels | Publish, Subscribe, unsubscribe | engine, HTTP | dropped events, send against close, subscribe after the end |
| authenticator, rate limiter | visitors map | authenticate, Middleware, RequireRoles | HTTP | two credentials, clock read outside the lock, fixed window |
| tool registry | map under a lock | Register, Get, Definitions | HTTP, engine | registration races with use; one map per process |
| `cmd/api` main | process life | build, run, shut down | all | order of shutdown and of the deferred closers |
| config, observability, LLM encoding, tool examples | none that matters | – | – | – |

What makes each one correct: an execution is stored before it is queued, is run
by one worker and is never forgotten silently; one idempotency key gives one
execution; an agent's versions form a gapless history that loses no
acknowledged update; a run stores a well-formed conversation, a complete trace
and one outcome, and announces it only once stored; the breaker is open exactly
after enough consecutive failures and always recovers; a subscriber gets the
events from its subscription on, in order, and no run waits for a subscriber; a
user gets the limit and no more than a burst above it; tools are registered by
administrators only, once; a process told to stop drains, closes and ends.

## 2. Modules

| module | models | proofs |
|---|---|---|
| `CircuitBreaker` | `reliability/breaker.go` and its use in `Execute` | `CircuitBreakerProofs` |
| `Agents` | agent operations of the service over both stores | `AgentsProofs` |
| `AgentHistory` | abstract: an append-only history per agent | |
| `Dispatch` | `StartExecution`, queue, `worker.consume`, outer writes of `Execute`, shutdown, crashes | `DispatchProofs` |
| `Engine` | one run of `Execute` with its tool goroutines and `Retry` | `EngineProofs` |
| `ExecutionRun` | abstract: the promise of one run to an observer | |
| `Stream` | both brokers, `streamExecution`, the publishing goroutines of a run | `StreamProofs` |
| `Gateway` | authenticator, limiter, roles, `createTool`, tool registry | `GatewayProofs` |
| `Process` | `main` from `config.Load` to exit | `ProcessProofs` |
| `MC*` | TLC instances: constants and symmetry sets | |

A definition marked *Fault variant* is a plausible mistake in the definition
after it. It takes no part in any specification; it is there to show that the
property the mutant list names would catch it.

**CircuitBreaker.** Every method runs under the mutex, so each is one action.
Time is the age of `openedAt`, saturating at `ResetTimeout`: the code only asks
whether that much time has passed, so no bound on the clock is needed.

**Agents.** `adapter`, chosen in Init, is the store main built. `UpdateAgent` is
two actions, `LoadAgent` (the read and `Version++` on the handler's copy) and
the store call. A PostgreSQL update is atomic because its `UPDATE` locks the
agent's row until commit; it is refused when the row is gone, the name is taken
or `UNIQUE (agent_id, version)` is violated. `CreateUnanswered` and
`UpdateUnanswered` are calls whose answer is lost. Ids are never drawn twice.

**Dispatch.** `stage[r]` is the next store or queue call of request `r`'s
handler and `phase[w]` that of worker `w`; between two calls anything may
happen. A request names its execution and its new conversation, since it draws
both ids. Two variables are histories: `dropped`, the executions whose job a
failed call or a crash took away, and `unanswered`, those whose LPUSH got no
answer, so that the client repeated it or the handler took it for failed.
`Environment` selects the events outside the two loops: agent updates and
deletions, cancellation, crashes, failing store calls (`store`; a write may fail
before or after it was applied: `CreateUnacknowledged`, `RequestStoreError`,
`LostWrite`), and for Redis failed, unacknowledged and repeated pushes and lost
pops. PostgreSQL calls of a worker fail once its context is cancelled; the
memory store ignores the context. `UuidRequests` and
`StoredForm` say which requests bring an `X-Request-ID` that is a UUID and which
spell the agent id with hyphens, as PostgreSQL prints it: the two places where a
conversion decides whether a request is accepted.

**Engine.** `pc` is the next call of the main goroutine, `tool[i]` the state of
the goroutine of call `i`. The context may be cancelled at any step; `Answers`,
`CompleteErrors` and `ExecuteOutcomes` are what the provider and the tools may
return; a PostgreSQL call may be refused or applied without an acknowledgement.
An execution row deleted under the run makes its calls fail, which `refused`
covers. `delay` and `waited` are the backoff before the next attempt and the sum
of those of the call under way, jitter included; `llmSteps` and `toolSteps`
count the trace rows stored. `id.New` does not fail: `crypto/rand.Read` never
returns an error from Go 1.24 on.

**Stream.** One execution, its publishing goroutines, one broker of either kind
and the WebSocket handlers. `PublishLock`, `Send` and `PublishUnlock` are
`Broker.Publish`: a read lock, under which each subscriber is offered the event
without waiting; `SubscribeLocal` and `Unsubscribe` need the write lock. For
Redis, `inbox` is go-redis's channel of a subscription and `Pump` the goroutine
that moves messages to the buffer; reconnection, dropping at a full inbox and
repeated commands are go-redis's and marked external. Which goroutine publishes
when is reduced to the order `Engine` has: tools after the first event and
joined before the last. `since` and `disturbed` are histories: from where on a
stream is owed events, and which streams lost or repeated one for a reason the
design accepts. `Topic` is the id's spelling: the engine publishes under the
stored one, a stream subscribes under the one in its path. The copies of a
repeated PUBLISH are delivered one after the other (`PublishRepeated`). That a
first copy, held up on a connection go-redis gave up, arrives after later events
is left out: Redis orders the commands of one connection only, so such a copy
would break `InOrder`.

**Gateway.** What a request passes before it reaches the service. `authenticate`
is a pure operator over every combination of API key and token; decoding and
signature are the jwt library's. Time is kept as ages, and a handler's clock
reading ages between `Arrive`, where it is taken, and `Limiter`, the section
under the lock. `admitted` and `proved` are histories: how often one user was
admitted during the last n ticks, for each n up to the age at which ages
saturate, and the requests that brought an administrator's credentials.
`createTool` and `Definitions` are the two sides of the registry.

**Process.** `pc` follows `main` line by line; `config`, chosen in Init, is what
it branches on; `deferred` is the stack of closers, run on return and skipped by
`os.Exit`. Handlers and workers are reduced to what shutdown waits for: a
handler that answers, blocks in `Enqueue` or hijacks its connection, a worker
inside or outside a store call. `Dispatch` has what they do in detail. When the
server fails, `listening` may stay true: connections that are kept alive bring
requests until `Shutdown` closes them.

The modules meet at shared calls: `Dispatch`'s running worker is one `Engine`
run, whose events are `Stream`'s publications and whose verdicts are
`CircuitBreaker`'s reports; `Gateway` passes what `Agents` and `Dispatch` take
as requests; `Process` cancels the context `Dispatch` and `Engine` see.

## 3. Runs

| run | bounds | shows |
|---|---|---|
| `breaker` | 4 executions, threshold 5, cooldown 3 ticks | `openedAt` and `failures` agree; bounded overshoot; an open breaker recovers |
| `agents` | both stores, 2 clients, 2 ids, 2 names, 2 contents, 3 versions | PostgreSQL: gapless history, no lost update, implements `AgentHistory`; both: deletion is final |
| `dispatch_redis` | 3 requests (2 share a key, 1 continues a conversation), 2 workers, every event but updates | no job without a row, nothing forgotten, one execution per key; one worker per execution, no execution started twice and final statuses final unless a push went unanswered |
| `dispatch_process` | PostgreSQL with the in-process queue of length 1, 2 agents | conversations match; refusals explained |
| `dispatch_memory` | memory and in-process queue of length 1, 1 worker, 2 agents, 2 versions | handlers and executions finish |
| `engine` | 3 steps, 3 attempts, 2 tool calls, delays from 4 capped at 5 | the engine's invariants, backoff and trace included; implements `ExecutionRun`; every run returns |
| `stream` | both brokers, 2 streams, 3 publishing goroutines with 4 events, buffer 1, inbox 2 | no send on a closed channel, exact subscriber map, order, no gaps; publishers never wait; the end is seen |
| `gateway` | 2 handlers, 2 users, 10 credentials, limit 2, window 2, readings up to 2 ticks old, 1 name, 2 tools | bounded bursts, justified refusals, registration by administrators, once |
| `process` | 2 handlers, 2 workers, queue 1, all 32 configurations | no closer runs under a request or a pool call; exit code 0 is truthful; the process ends |

The bounds are the smallest in which the cases happen: two requests to race for
a key and a third to refer to a conversation of another; two workers to claim
one job; a queue of length one to be full; three versions so that an update can
be two behind; two tools to finish in either order; three rounds to follow one
another; a cap that the second delay meets and the first does not; two streams
to share and outlive each other's map entry; a buffer of one that the second
event overflows; a clock reading as old as a window. The breaker has its real
threshold and the engine its real attempt limit; its delays are scaled so that
three attempts meet the cap, which the policy `NewEngine` builds (0.2 s, doubled
twice, capped at 2 s) never does. With Redis only one stream
connects, since Redis subscriptions share no state.

The types of `CircuitBreaker`, `Agents`, `Dispatch`, `Engine` and `Stream` are
theorems (section 4) and not checked again by a run; those of `Gateway` and
`Process` are both.

Deadlock is checked in `CircuitBreaker`, `Engine` and `Gateway`. `Dispatch`,
`Agents` and `Stream` have finitely many requests, ids and events, and `Process`
exits, so they stop and it is not checked there.

**Fairness.** `breaker` assumes only that time passes. `dispatch_memory`
assumes weak fairness of each handler and each worker, which the Go scheduler
gives every goroutine that can run; no fairness of failures, deletions or
cancellation is assumed, and the instance contains no lossy event: with those,
executions stay unfinished, as `Conserved` says. `engine` assumes that `Execute`
and each tool take their next step, justified by the scheduler and by the 30 s
deadline on the LLM call and on each tool; for the store calls, which have no
deadline, it is an assumption that they return. `stream` assumes the same of
publishers, handlers and the Redis goroutines, and that a write ends only for
the clients in `Readers`; nothing makes a client leave or a connection return.
`process` assumes that main takes its next step, that the deadline of `Shutdown`
passes (strongly fair, since main polls in between) and that a store call comes
back once made; nothing is assumed of handlers, jobs or clients.

### Disagreements found

Three runs are expected to end in a violation; the finding of each in
`PROJECT.json` quotes the statement the code does not meet.

* `dispatch_version`: the worker runs the current agent version, not the recorded one.
* `dispatch_shutdown`: the status of a run that shutdown cancels is not stored.
* `dispatch_request_id`: with PostgreSQL, a request without `X-Request-ID` is refused.

The models show more behaviours a reader may not expect:

* Two concurrent requests with one key get two executions from the memory store,
  though `service_test.go:30` wants one for requests in sequence:
  `IdempotentAnswers` fails when added to `dispatch_memory.cfg`.
* With PostgreSQL a conversation cannot be continued under the agent id that
  CreateAgent answered with (32 hex digits), since StartExecution compares it as
  text with the hyphenated id of the row: `RefusalsExplained` fails in
  `dispatch_request_id.cfg` with `UuidRequests = {r1, r3}`, `StoredForm = {}` and
  `Requests = {r1, r3}`.
* For the same reason a stream opened with PostgreSQL under the execution id
  that StartExecution answered with gets no event: `GapFree` fails in
  `stream.cfg` with `StoredForm = {h2}`. `GapFree`
  and `EndIsSeen` as checked cover the flow of the repository's `README.md:75`
  with the memory store, and with PostgreSQL only under the id that GET prints.
* An LPUSH the Redis client repeats gives one execution to two workers, and one
  whose answer is lost lets a worker run an execution marked failed: the
  exemption of `unanswered` in `OneWorkerClaims`, `TerminalStable` and `RunsOnce`.
* A success of a call admitted before the breaker opened closes it before the
  cooldown has passed (action `Success` in an open state).
* With the memory store a slow update writes an older version number over a
  newer one (`MemoryUpdate` accepts any copy of an existing agent).
* The limiter admits twice the limit around a window's boundary, and with stale
  readings up to one more per further handler: `2 * Limit` alone is not a bound.
* `docs/architecture.md:56` lists stopping intake before cancelling workers; main
  cancels the workers first, so a handler may wait for room in a queue nobody
  empties until the deadline, and the exit that follows runs no closer and
  flushes no trace (`Deadline`). `DrainedBeforeClosed` therefore speaks of exit
  code 0; and even then the jobs accepted after the cancellation stay in the
  in-process queue and are lost, and a WebSocket stream or a worker between two
  calls may find broker, queue and store closed.
* A client that subscribes after the final event waits for ever, and the stream
  of a client that left stays until a write to it fails.
* With `RUN_MODE` split into api and worker, a tool registered over the API is
  unknown to the workers: each process has its own registry.
* A Dequeue that keeps failing makes the worker loop spin without a pause, and
  the limiter keeps an entry for every user it ever saw. Neither changes an
  answer, so no property speaks of them.

## 4. Proofs

Every safety property that a passing run checks, invariant, action property or
refinement, is also a theorem. It holds for all values of the constants (any
number of requests, workers, agents, streams, handlers, versions, steps and tool
calls, any buffer, limit and window) under the named assumptions of the modules,
which only say what kind of value a constant is. Three theorems assume more,
and each hypothesis is one under which the property is meant and which the run
that checks it satisfies:

* `DispatchRefusalsExplained`: no store call or push fails (`NoCallFails`) and
  PostgreSQL is given ids in the form it stores (`IdsAsStored`). Without the
  second it is false, as `dispatch_request_id` shows.
* `DispatchIdempotentAnswers`: the store is PostgreSQL. The memory store has no
  unique key (section 3).
* `StreamGapFree`: every path spells the execution id as the store does. A
  stream opened under the other spelling gets nothing (section 3).

The two history properties of `Agents` and its refinement speak of
PostgreSQL in their statements; the memory store would violate them.

The arguments, and what makes each invariant inductive:

* **Breaker.** `OpenIffThreshold` is inductive with the types. The overshoot
  bound is inductive as stated because it counts calls in flight: a failure
  trades one for one count, and an admission finds the breaker below the
  threshold.
* **Agents.** A copy a handler holds is at most one version ahead of its agent
  (`ClientsNotAhead`), and undrawn ids leave no trace (`UndrawnUnknown`). An
  accepted update is then exactly the next version, so the history stays
  gapless and keeps every acknowledged version. The refinement of
  `AgentHistory` rests on that: the rows of an agent are a sequence
  (`Sequenced`), in which the row of a version is the only one (`ChosenRow`); a
  committed update appends to it (`OneMoreIsAppend`), creation and deletion
  begin and end it, and the read that begins an update is a stutter.
* **Dispatch.** Two lemmas describe one step: `MoveStep` says how rows and jobs
  move, `OriginStep` where rows, conversations and answers come from.
  `PersistedBeforePushed` needs the handler between insert and push as well
  (`RowBehindJob`); `Conserved` is inductive with the types;
  `IdempotentAnswers` rests on `UniqueKeys` and on every answer still having a
  row with its key (`AnswersStand`); `ConversationMatches` needs the check to
  outlast the step to the insert (`ConversationChecked`). `OneWorkerClaims`,
  `TerminalStable` and `RunsOnce` follow from one invariant, `OnePlace`: unless
  the answer to its push was lost, a job is in one place (handler, queue once,
  one worker), in the queue or with a worker only after the handler has
  answered, with nobody but the worker that runs it once the execution has
  started, and nowhere once it is finished. `RefusalsExplained` needs that no handler is
  on an error path (`Undisturbed`).
* **Engine.** `Bounds` ties the counters to the program counter. `Counted` gives
  the retry equation while a call is still being retried. `BackoffBounded`
  follows step by step: a stored delay is at least the base delay and at most
  the cap, the jitter adds at most half of it, and each retry adds one such wait
  to both bounds (`OneMore`). The current delay is a variable, doubled as the
  code's shift does, because powers are out of the provers' reach. `Reasons`
  says why each final status is reached. `ConversationGrammar` is not inductive
  alone: `Rounds` adds how the conversation ends at each point of the program,
  with a whole round at the head of the loop and with the assistant message and
  `appended` results while results are stored; `EarlierPlaced` shows that a new
  message disturbs none before it. `TraceComplete` needs both counts at every
  point: LLM steps are one behind while a call is under way (`LLMTraced`); tool
  steps equal the results stored plus, inside a tool step without a failure, the
  calls that are done, and afterwards the results still to be stored
  (`ToolsTraced`). The refinement of `ExecutionRun` follows from `Phases`, which
  says for each point what is stored and announced, with `ToolsJoined`: a tool
  publishes only while it is waited for.
* **Stream.** `Locked` says what the read lock protects: only a goroutine inside
  `Publish` has subscribers to serve, all of them open, and the map is exact;
  `NoSendOnClosed` and `SubscribersExact` are parts of it. For the order, an
  event's whole way (written, held, buffered, waiting in the inbox) is one
  sequence, `Flow`, to which the head-to-tail moves of the Redis goroutine and
  the handler do nothing (`Shape` and the lemmas about `Joined`); every action
  leaves a flow alone, drops from it, or adds at its end an event newer than all
  of that goroutine's (`Ordered`). `GapFree` adds that a stream begins with an
  empty flow while nobody publishes (`Quiet`) and that the numbers in it are an
  interval up to the last one offered (`Unbroken`).
* **Gateway.** `OnlyAdminsRegister` rests on `AdminsProved`: a principal with
  the role has credentials that prove it. For `BurstBounded`, look back n ticks
  and add to the user's admissions since then the handlers that still wait with
  an older reading (`Load`); `Within` bounds that load for every n by what the
  window that is open now has counted, one window before it and the handlers,
  because a handler waits with one reading at a time and a stale one cannot
  open a window. `RejectionJustified` follows from `Covered`: while a window's
  start is not forgotten, the requests it counted were admitted since.
* **Process.** `Stacked` says that the deferred closers are a prefix of the
  order of construction, as long as the place in `main` tells (`Depth`);
  `Drained` what shutdown has achieved at each point: handlers gone, intake
  closed, workers told to stop, and the pool taken off the stack only while no
  worker is inside a call.

Two things the proofs changed in the models. `Deliver` in `Stream` and
`FinalStatus` and `Settle` in `Engine` were CASE expressions whose guards
overlap, which TLC reads from the top and TLA+ leaves open; they are IFs, as in
the code. `InOrder`, `GapFree`, `TraceComplete` and the limiter's `admitted` are
stated with positions and cardinalities instead of recursive counts over
sequences, which the provers cannot unfold.

Only model-checked, because fairness and ENABLED are beyond the prover: the
liveness properties `Recovers`, `EveryRequestAnswered`, `EveryExecutionEnds`,
`Terminates`, `PublishersNeverWait`, `EndIsSeen` and `StopsEventually`. They
hold for the instances of section 3.

## 5. Not modelled, and plan

Not modelled, because it changes no state a property could speak of: the
read-only listings and `Trace`, the encoding of LLM requests and responses, the
arithmetic and lookups of the example tools, metrics and spans, parsing of
configuration values, request binding and body limits. A second run over the
same conversation, with the 50-message window of the history, is not modelled
either: neither code nor docs say what such runs owe each other.

Left for later, in this order:

1. The safety half of the liveness properties: measures that decrease with
   every fair step of `Engine` (steps, attempts, tool states left) and of
   `Process`, as action properties, so that what stays with TLC is the fairness
   argument alone.
2. A PUBLISH whose first copy is overtaken, with `InOrder` restated for the
   first arrival of each event.
