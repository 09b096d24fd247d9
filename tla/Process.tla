------------------------------ MODULE Process -------------------------------
(***************************************************************************)
(* The life of one process: main loads the configuration, builds tracing,  *)
(* store, queue and broker, starts the worker pool and the HTTP server as  *)
(* RUN_MODE says, waits for a signal or for the server to fail, cancels    *)
(* the workers, drains the server and runs its deferred closers, last one  *)
(* first.  os.Exit runs none of them.                                      *)
(*                                                                         *)
(* Handlers and workers are reduced to what shutdown waits for: whether a  *)
(* handler is under way, waits for room in the in-process queue or has     *)
(* become a WebSocket stream, and whether a worker is inside a store call. *)
(***************************************************************************)
EXTENDS Naturals, Sequences

CONSTANTS
    Handlers,    \* requests under way at one time
    Workers,     \* WORKER_CONCURRENCY
    QueueSize    \* capacity of the in-process queue (1024)

ASSUME QueueAssumption == QueueSize \in Nat

VARIABLES
    pc,          \* where main stands
    config,      \* RUN_MODE, and which other systems are configured
    deferred,    \* closers main has deferred, in the order of the defers
    signalled,   \* ctx is done: SIGINT or SIGTERM came
    failed,      \* ListenAndServe returned an error
    listening,   \* requests can come: a listener or open connections bring them
    ctxDone,     \* the workers' context is cancelled
    handler, worker,
    waiting,     \* jobs in the in-process queue
    code         \* of the exit, "none" while the process runs

served == <<handler, worker, waiting>>
vars == <<pc, config, deferred, signalled, failed, listening, ctxDone, handler, worker, waiting, code>>

Modes   == {"api", "worker", "all", "other"}
Configs == [mode : Modes, otlp : BOOLEAN, postgres : BOOLEAN, redis : BOOLEAN]
Serves  == config.mode \in {"api", "all"}
Works   == config.mode \in {"worker", "all"}

Closers == <<"signals", "tracing", "storage", "queue", "broker", "workers">>
Open(c) == \E i \in 1..Len(deferred) : deferred[i] = c
Busy    == {h \in Handlers : handler[h] \in {"running", "enqueue"}}

Init ==
    /\ pc = "config"
    /\ config \in Configs
    /\ deferred  = << >>
    /\ signalled = FALSE /\ failed = FALSE /\ listening = FALSE /\ ctxDone = FALSE
    /\ handler   = [h \in Handlers |-> "none"]
    /\ worker    = [w \in Workers |-> "off"]
    /\ waiting   = 0
    /\ code      = "none"

-----------------------------------------------------------------------------
(* main up to its select *)
Defer(c)  == deferred' = Append(deferred, c)
Goto(p)   == pc' = p /\ UNCHANGED code
osExit(c) == pc' = "exited" /\ code' = c

\* config.Load refuses a malformed duration or number, or no workers at all;
\* what it reads was chosen in Init.
Load ==
    /\ pc = "config"
    /\ \/ Goto("tracing") /\ Defer("signals")
       \/ osExit("failure") /\ UNCHANGED deferred
    /\ UNCHANGED <<config, signalled, failed, listening, ctxDone, served>>

\* A step that talks to another system may fail, and does once ctx is done.
Build(p, next, external) ==
    /\ pc = p
    /\ \/ (external => ~signalled) /\ Goto(next) /\ Defer(p)
       \/ external /\ osExit("failure") /\ UNCHANGED deferred
    /\ UNCHANGED <<config, signalled, failed, listening, ctxDone, served>>

\* Making the exporter connects to nothing, so ctx does not matter here.
InitTracing ==
    /\ pc = "tracing"
    /\ \/ Goto("storage") /\ Defer("tracing")
       \/ config.otlp /\ osExit("failure") /\ UNCHANGED deferred
    /\ UNCHANGED <<config, signalled, failed, listening, ctxDone, served>>

\* The memory store, the channel and the local broker cannot fail.
buildStore       == Build("storage", "queue", config.postgres)
buildQueue       == Build("queue", "broker", config.redis)
buildEventStream == Build("broker", "mode", config.redis)

\* RUN_MODE is looked at only now; the pool and the server start.
Start ==
    /\ pc = "mode"
    /\ \/ config.mode = "other" /\ osExit("failure") /\ UNCHANGED <<deferred, worker, listening>>
       \/ /\ config.mode # "other" /\ Goto("serving") /\ Defer("workers")
          /\ worker' = [w \in Workers |-> IF Works THEN "idle" ELSE "off"]
          /\ listening' = Serves
    /\ UNCHANGED <<config, signalled, failed, ctxDone, handler, waiting>>

Select ==
    /\ pc = "serving" /\ (signalled \/ failed)
    /\ Goto("cancel")
    /\ UNCHANGED <<config, deferred, signalled, failed, listening, ctxDone, served>>

CancelWorkers ==
    /\ pc = "cancel"
    /\ ctxDone' = TRUE
    /\ Goto(IF Serves THEN "shutdown" ELSE "closing")
    /\ UNCHANGED <<config, deferred, signalled, failed, listening, served>>

-----------------------------------------------------------------------------
(* server.Shutdown, with its deadline of 15 seconds *)
StopListening ==
    /\ pc = "shutdown"
    /\ listening' = FALSE
    /\ Goto("poll")
    /\ UNCHANGED <<config, deferred, signalled, failed, ctxDone, served>>

\* Fault variant: server.Close, which waits for no handler.
PollDoesNotWait ==
    /\ pc = "poll"
    /\ Goto("closing")
    /\ UNCHANGED <<config, deferred, signalled, failed, listening, ctxDone, served>>

\* Hijacked connections are not waited for.
Poll ==
    /\ pc = "poll"
    /\ Goto(IF Busy = {} THEN "closing" ELSE "wait")
    /\ UNCHANGED <<config, deferred, signalled, failed, listening, ctxDone, served>>

\* Fault variant: Shutdown under a context without a deadline.
DeadlineMissing ==
    /\ pc = "wait"
    /\ Goto("poll")
    /\ UNCHANGED <<config, deferred, signalled, failed, listening, ctxDone, served>>

\* The deadline passes between two polls, whether or not a handler is still
\* under way: os.Exit(1), without closers and without flushing the traces.
Deadline ==
    /\ pc = "wait"
    /\ osExit("failure")
    /\ UNCHANGED <<config, deferred, signalled, failed, listening, ctxDone, served>>

PollAgain ==
    /\ pc = "wait"
    /\ Goto("poll")
    /\ UNCHANGED <<config, deferred, signalled, failed, listening, ctxDone, served>>

\* pgxpool's Close waits for the connections in use; the other closers return.
Closable(c) == c = "storage" /\ config.postgres => \A w \in Workers : worker[w] # "call"

\* Fault variant: the closers run in the order in which things were built.
CloseInOrder ==
    /\ pc = "closing" /\ deferred # << >>
    /\ Closable(Head(deferred))
    /\ deferred' = Tail(deferred)
    /\ UNCHANGED <<pc, config, signalled, failed, listening, ctxDone, served, code>>

\* main returns.
Close ==
    /\ pc = "closing" /\ deferred # << >>
    /\ Closable(deferred[Len(deferred)])
    /\ deferred' = SubSeq(deferred, 1, Len(deferred) - 1)
    /\ UNCHANGED <<pc, config, signalled, failed, listening, ctxDone, served, code>>

Return ==
    /\ pc = "closing" /\ deferred = << >>
    /\ osExit("success")
    /\ UNCHANGED <<config, deferred, signalled, failed, listening, ctxDone, served>>

MainStep ==
    \/ Load \/ InitTracing \/ buildStore \/ buildQueue \/ buildEventStream \/ Start
    \/ Select \/ CancelWorkers
    \/ StopListening \/ Poll \/ Close \/ Return

-----------------------------------------------------------------------------
(* What goes on beside main *)
Running == pc # "exited"

Signal ==
    /\ Running /\ pc # "config" /\ ~signalled
    /\ signalled' = TRUE
    /\ UNCHANGED <<pc, config, deferred, failed, listening, ctxDone, served, code>>

\* The address is taken, or the listener breaks; in the second case connections
\* that are kept alive may bring requests until Shutdown closes them.
ServerFails ==
    /\ Running /\ listening /\ ~failed
    /\ listening' \in BOOLEAN /\ failed' = TRUE
    /\ UNCHANGED <<pc, config, deferred, signalled, ctxDone, served, code>>

Beside == UNCHANGED <<pc, config, deferred, signalled, failed, listening, ctxDone, code>>

Handle(h, from, to) ==
    /\ Running /\ handler[h] = from
    /\ handler' = [handler EXCEPT ![h] = to]
    /\ UNCHANGED worker /\ Beside

Accept(h) == listening /\ Handle(h, "none", "running") /\ UNCHANGED waiting

\* The handler answers, comes to its Enqueue, or hijacks its connection.
Proceed(h) ==
    /\ \E to \in {"none", "enqueue", "stream"} : Handle(h, "running", to)
    /\ UNCHANGED waiting

Enqueue(h) ==
    /\ Handle(h, "enqueue", "none")
    /\ \/ config.redis /\ UNCHANGED waiting
       \/ ~config.redis /\ waiting < QueueSize /\ waiting' = waiting + 1

StreamEnds(h) == Handle(h, "stream", "none") /\ UNCHANGED waiting

Work(w, from, to) ==
    /\ Running /\ worker[w] = from
    /\ worker' = [worker EXCEPT ![w] = to]
    /\ UNCHANGED handler /\ Beside

\* A job from Redis or from the channel.
Dequeue(w) ==
    /\ Work(w, "idle", "busy")
    /\ \/ config.redis /\ Open("queue") /\ UNCHANGED waiting
       \/ ~config.redis /\ waiting > 0 /\ waiting' = waiting - 1

\* From the beginning of its Close the pool refuses every call at once.
StoreCall(w) ==
    /\ Open("storage") /\ ~(pc = "closing" /\ deferred[Len(deferred)] = "storage")
    /\ Work(w, "busy", "call") /\ UNCHANGED waiting
CallReturns(w) == Work(w, "call", "busy") /\ UNCHANGED waiting
JobEnds(w) == Work(w, "busy", "idle") /\ UNCHANGED waiting
Quit(w) == ctxDone /\ Work(w, "idle", "stopped") /\ UNCHANGED waiting

Next ==
    \/ MainStep \/ Deadline \/ PollAgain \/ Signal \/ ServerFails
    \/ \E h \in Handlers : Accept(h) \/ Proceed(h) \/ Enqueue(h) \/ StreamEnds(h)
    \/ \E w \in Workers : Dequeue(w) \/ StoreCall(w) \/ CallReturns(w) \/ JobEnds(w) \/ Quit(w)

Spec == Init /\ [][Next]_vars

\* main is scheduled, its deadline passes, and a store call made under a
\* cancelled context comes back.  Nothing is assumed of handlers or clients.
FairSpec ==
    /\ Spec
    /\ WF_vars(MainStep) /\ SF_vars(Deadline)
    /\ \A w \in Workers : WF_vars(CallReturns(w))

-----------------------------------------------------------------------------
(* Type invariant. *)
TypeOK ==
    /\ pc \in {"config", "tracing", "storage", "queue", "broker", "mode", "serving", "cancel",
              "shutdown", "poll", "wait", "closing", "exited"}
    /\ config \in Configs
    /\ \E n \in 0..Len(Closers) : deferred = SubSeq(Closers, 1, n)
    /\ {signalled, failed, listening, ctxDone} \subseteq BOOLEAN
    /\ handler \in [Handlers -> {"none", "running", "enqueue", "stream"}]
    /\ worker \in [Workers -> {"off", "idle", "busy", "call", "stopped"}]
    /\ waiting \in 0..QueueSize
    /\ code \in {"none", "success", "failure"} /\ (code = "none" <=> pc # "exited")

(***************************************************************************)
(* docs/architecture.md line 56: shutdown "drains HTTP requests, and       *)
(* flushes traces".  Once the broker, the queue or the store is closed,    *)
(* and when main has returned, no request is under way, none can come,     *)
(* every worker has been told to stop, and the pool is closed only when no *)
(* worker is inside a call.  Exit code 0 says that all this, the flush     *)
(* too, was done (main.go 131-140 and the order of the defers).  It does   *)
(* not speak of what shutdown does not wait for, WebSocket streams and     *)
(* workers between two calls, which may find broker, queue and store       *)
(* closed, nor of the exit at the deadline, which closes nothing.          *)
(***************************************************************************)
DrainedBeforeClosed ==
    /\ code = "success" => deferred = << >>
    /\ (pc = "closing" \/ code = "success") /\ ~Open("broker") =>
          /\ Busy = {} /\ ~listening /\ ctxDone
          /\ config.postgres /\ ~Open("storage") => \A w \in Workers : worker[w] # "call"

(***************************************************************************)
(* A process that is told to stop, or whose server fails, ends, although   *)
(* handlers may wait for ever for room in a queue whose workers have       *)
(* stopped, and clients may keep their streams open (main.go 122-141).     *)
(***************************************************************************)
StopsEventually == signalled \/ failed ~> pc = "exited"
=============================================================================
