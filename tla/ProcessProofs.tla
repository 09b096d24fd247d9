--------------------------- MODULE ProcessProofs ----------------------------
(***************************************************************************)
(* Proofs about the life of a process, for every number of handlers and    *)
(* workers and every queue size: what main has deferred is always a prefix *)
(* of the closers in the order in which they were built, and what main     *)
(* closes it closes under no request and no store call.                    *)
(***************************************************************************)
EXTENDS Process, SequenceTheorems, TLAPS

\* How many closers main has deferred when it stands at p.
Depth(p) == CASE p = "config" -> 0 [] p = "tracing" -> 1 [] p = "storage" -> 2
              [] p = "queue" -> 3 [] p = "broker" -> 4 [] p = "mode" -> 5 [] OTHER -> 6

CloserNames == {"signals", "tracing", "storage", "queue", "broker", "workers"}

Stacked ==
    /\ deferred \in Seq(CloserNames) /\ Len(deferred) \in 0..6
    /\ \A i \in 1..Len(deferred) : deferred[i] = Closers[i]

Stack ==
    /\ pc \in {"config", "tracing", "storage", "queue", "broker", "mode", "serving", "cancel",
              "shutdown", "poll", "wait", "closing", "exited"}
    /\ code \in {"none", "success", "failure"} /\ (code = "none" <=> pc # "exited")
    /\ Stacked
    /\ pc \notin {"closing", "exited"} => Len(deferred) = Depth(pc)
    /\ code = "success" => deferred = << >>

(* The closers are six names, the pool's the third. *)
LEMMA ClosersAt ==
    /\ Len(Closers) = 6
    /\ Closers[1] = "signals" /\ Closers[2] = "tracing" /\ Closers[3] = "storage"
    /\ Closers[4] = "queue" /\ Closers[5] = "broker" /\ Closers[6] = "workers"
BY DEF Closers

LEMMA ClosersType == \A k \in 1..6 : Closers[k] \in CloserNames
<1>1. \A k \in 1..6 : k = 1 \/ k = 2 \/ k = 3 \/ k = 4 \/ k = 5 \/ k = 6
  OBVIOUS
<1>2. QED
  BY <1>1, ClosersAt DEF CloserNames

(* A defer lengthens the prefix of closers by one. *)
LEMMA PushCloser ==
    ASSUME Stacked, Len(deferred) < 6, Defer(Closers[Len(deferred) + 1])
    PROVE  Stacked' /\ Len(deferred') = Len(deferred) + 1
<1>1. Closers[Len(deferred) + 1] \in CloserNames
  BY ClosersType DEF Stacked
<1>2. /\ deferred' \in Seq(CloserNames) /\ Len(deferred') = Len(deferred) + 1
      /\ \A i \in 1..Len(deferred) : deferred'[i] = deferred[i]
      /\ deferred'[Len(deferred)+1] = Closers[Len(deferred) + 1]
  BY <1>1, AppendProperties DEF Stacked, Defer
<1>3. QED
  BY <1>2 DEF Stacked

(* Running the closer deferred last shortens it by one. *)
LEMMA PopCloser ==
    ASSUME Stacked, deferred # << >>, deferred' = SubSeq(deferred, 1, Len(deferred) - 1)
    PROVE  /\ Len(deferred) \in 1..6 /\ Stacked'
           /\ Len(deferred') = Len(deferred) - 1
           /\ \A i \in 1..Len(deferred') : deferred'[i] = deferred[i]
<1>1. Len(deferred) \in 1..6
  BY EmptySeq DEF Stacked
<1>2. \A i \in 1..Len(deferred)-1 : deferred[i] \in CloserNames
  BY <1>1, ElementOfSeq DEF Stacked
<1>3. /\ deferred' \in Seq(CloserNames) /\ Len(deferred') = Len(deferred) - 1
      /\ \A i \in 1..Len(deferred)-1 : deferred'[i] = deferred[i]
  <2> DEFINE n == Len(deferred) - 1
  <2>1. n \in Int /\ 1 \in Int
    BY <1>1
  <2>2. /\ deferred' \in Seq(CloserNames)
        /\ Len(deferred') = IF 1 <= n THEN n - 1 + 1 ELSE 0
        /\ \A i \in 1..n-1+1 : deferred'[i] = deferred[1+i-1]
    BY <1>2, <2>1, SubSeqProperties
  <2>3. \A i \in 1..n : 1 + i - 1 = i /\ i \in 1..n-1+1
    BY <2>1
  <2>4. \A k \in 0..5 : (IF 1 <= k THEN k - 1 + 1 ELSE 0) = k
    OBVIOUS
  <2>5. n \in 0..5
    BY <1>1
  <2> HIDE DEF n
  <2>6. Len(deferred') = n
    BY <2>2, <2>4, <2>5
  <2>7. ASSUME NEW i \in 1..n PROVE deferred'[i] = deferred[i]
    <3>1. deferred'[i] = deferred[1+i-1]
      BY <2>2, <2>3
    <3>2. QED
      BY <2>3, <3>1
  <2>8. QED
    BY <2>2, <2>6, <2>7 DEF n
<1>4. QED
  BY <1>1, <1>3 DEF Stacked

(* A step of main's start either defers the next closer or exits. *)
LEMMA BuildStep ==
    ASSUME Stack, pc \notin {"closing", "exited"}, Depth(pc) < 6,
           \/ /\ pc' \in {"tracing", "storage", "queue", "broker", "mode", "serving"}
              /\ Depth(pc') = Depth(pc) + 1
              /\ code' = code /\ Defer(Closers[Depth(pc) + 1])
           \/ pc' = "exited" /\ code' = "failure" /\ deferred' = deferred
    PROVE  Stack'
<1>1. Depth(pc) = Len(deferred) /\ code = "none"
  BY DEF Stack
<1>2. CASE deferred' = deferred /\ pc' = "exited" /\ code' = "failure"
  BY <1>2 DEF Stack, Stacked
<1>3. CASE ~(deferred' = deferred /\ pc' = "exited" /\ code' = "failure")
  <2>1. Stacked' /\ Len(deferred') = Depth(pc')
    BY <1>1, <1>3, PushCloser DEF Stack
  <2>2. QED
    BY <1>1, <1>3, <2>1 DEF Stack
<1>4. QED
  BY <1>2, <1>3

LEMMA StackStep == Stack /\ [Next]_vars => Stack'
<1> SUFFICES ASSUME Stack, [Next]_vars PROVE Stack'
  OBVIOUS
<1> USE DEF Goto, osExit
<1>2. CASE Load
  <2>1. /\ pc \notin {"closing", "exited"} /\ Depth(pc) < 6 /\ Depth("tracing") = Depth(pc) + 1
        /\ "signals" = Closers[Depth(pc) + 1]
    BY <1>2 DEF Load, Depth, Closers
  <2>2. QED
    BY <1>2, <2>1, BuildStep DEF Load
<1>3. CASE InitTracing
  <2>1. /\ pc \notin {"closing", "exited"} /\ Depth(pc) < 6 /\ Depth("storage") = Depth(pc) + 1
        /\ "tracing" = Closers[Depth(pc) + 1]
    BY <1>3 DEF InitTracing, Depth, Closers
  <2>2. QED
    BY <1>3, <2>1, BuildStep DEF InitTracing
<1>4. CASE buildStore
  <2>1. /\ pc \notin {"closing", "exited"} /\ Depth(pc) < 6 /\ Depth("queue") = Depth(pc) + 1
        /\ "storage" = Closers[Depth(pc) + 1]
    BY <1>4 DEF buildStore, Build, Depth, Closers
  <2>2. QED
    BY <1>4, <2>1, BuildStep DEF buildStore, Build
<1>5. CASE buildQueue
  <2>1. /\ pc \notin {"closing", "exited"} /\ Depth(pc) < 6 /\ Depth("broker") = Depth(pc) + 1
        /\ "queue" = Closers[Depth(pc) + 1]
    BY <1>5 DEF buildQueue, Build, Depth, Closers
  <2>2. QED
    BY <1>5, <2>1, BuildStep DEF buildQueue, Build
<1>6. CASE buildEventStream
  <2>1. /\ pc \notin {"closing", "exited"} /\ Depth(pc) < 6 /\ Depth("mode") = Depth(pc) + 1
        /\ "broker" = Closers[Depth(pc) + 1]
    BY <1>6 DEF buildEventStream, Build, Depth, Closers
  <2>2. QED
    BY <1>6, <2>1, BuildStep DEF buildEventStream, Build
<1>7. CASE Start
  <2>1. /\ pc \notin {"closing", "exited"} /\ Depth(pc) < 6 /\ Depth("serving") = Depth(pc) + 1
        /\ "workers" = Closers[Depth(pc) + 1]
    BY <1>7 DEF Start, Depth, Closers
  <2>2. QED
    BY <1>7, <2>1, BuildStep DEF Start
<1>8. CASE Close
  BY <1>8, PopCloser DEF Close, Stack
<1>9. CASE Return
  BY <1>9 DEF Return, Stack, Stacked
<1>10. CASE Select \/ CancelWorkers \/ StopListening \/ Poll \/ Deadline \/ PollAgain
  BY <1>10 DEF Select, CancelWorkers, StopListening, Poll, Deadline, PollAgain, Depth, Stack, Stacked
<1>11. CASE UNCHANGED <<pc, code, deferred>>
  BY <1>11 DEF Stack, Stacked
<1>12. CASE Signal \/ ServerFails
  BY <1>11, <1>12 DEF Signal, ServerFails
<1>13. ASSUME NEW h \in Handlers, Accept(h) \/ Proceed(h) \/ Enqueue(h) \/ StreamEnds(h)
       PROVE  Stack'
  BY <1>11, <1>13 DEF Accept, Proceed, Enqueue, StreamEnds, Handle, Beside
<1>14. ASSUME NEW w \in Workers, Dequeue(w) \/ StoreCall(w) \/ CallReturns(w) \/ JobEnds(w) \/ Quit(w)
       PROVE  Stack'
  BY <1>11, <1>14 DEF Dequeue, StoreCall, CallReturns, JobEnds, Quit, Work, Beside
<1>15. CASE UNCHANGED vars
  BY <1>11, <1>15 DEF vars
<1>16. QED
  BY <1>2, <1>3, <1>4, <1>5, <1>6, <1>7, <1>8, <1>9, <1>10, <1>12, <1>13, <1>14, <1>15
     DEF Next, MainStep

LEMMA StackInductive == Spec => []Stack
<1>1. Init => Stack
  BY EmptySeq DEF Init, Stack, Stacked, Depth
<1>2. QED
  BY <1>1, StackStep, PTL DEF Spec

(* The types of what is not on main's stack. *)
Types ==
    /\ config \in Configs
    /\ signalled \in BOOLEAN /\ failed \in BOOLEAN /\ listening \in BOOLEAN /\ ctxDone \in BOOLEAN
    /\ handler \in [Handlers -> {"none", "running", "enqueue", "stream"}]
    /\ worker \in [Workers -> {"off", "idle", "busy", "call", "stopped"}]
    /\ waiting \in 0..QueueSize

LEMMA TypesInductive == Spec => []Types
<1>1. Init => Types
  <2> SUFFICES ASSUME Init PROVE Types
    OBVIOUS
  <2>1. signalled \in BOOLEAN /\ failed \in BOOLEAN /\ listening \in BOOLEAN /\ ctxDone \in BOOLEAN
    BY Zenon DEF Init
  <2>2. /\ handler \in [Handlers -> {"none", "running", "enqueue", "stream"}]
        /\ worker \in [Workers -> {"off", "idle", "busy", "call", "stopped"}]
        /\ waiting \in 0..QueueSize
    BY QueueAssumption DEF Init
  <2>3. QED
    BY <2>1, <2>2 DEF Init, Types
<1>2. Types /\ [Next]_vars => Types'
  <2> SUFFICES ASSUME Types, [Next]_vars PROVE Types'
    OBVIOUS
  <2> USE DEF served
  <2>1. CASE MainStep \/ Deadline \/ PollAgain
    <3>1. CASE Start
      <4>1. Serves \in BOOLEAN
        BY DEF Serves
      <4>2. listening' \in BOOLEAN
        BY <3>1, <4>1, Zenon DEF Start, Types
      <4>3. worker' \in [Workers -> {"off", "idle", "busy", "call", "stopped"}]
        BY <3>1 DEF Start, Types
      <4>4. QED
        BY <3>1, <4>2, <4>3 DEF Start, Types
    <3>2. CASE CancelWorkers
      BY <3>2, Zenon DEF CancelWorkers, Types
    <3>3. CASE StopListening
      BY <3>3, Zenon DEF StopListening, Types
    <3>4. QED
      BY <2>1, <3>1, <3>2, <3>3 DEF Types, MainStep, Load, Build, InitTracing, buildStore, buildQueue,
         buildEventStream, Select, Poll, Close, Return, Deadline, PollAgain
  <2>2. CASE Signal \/ ServerFails
    BY <2>2 DEF Types, Signal, ServerFails
  <2>3. ASSUME NEW h \in Handlers, Accept(h) \/ Proceed(h) \/ Enqueue(h) \/ StreamEnds(h)
        PROVE  Types'
    BY <2>3, QueueAssumption DEF Types, Accept, Proceed, Enqueue, StreamEnds, Handle, Beside
  <2>4. ASSUME NEW w \in Workers, Dequeue(w) \/ StoreCall(w) \/ CallReturns(w) \/ JobEnds(w) \/ Quit(w)
        PROVE  Types'
    BY <2>4, QueueAssumption DEF Types, Dequeue, StoreCall, CallReturns, JobEnds, Quit, Work, Beside
  <2>5. CASE UNCHANGED vars
    BY <2>5 DEF Types, vars
  <2>6. QED
    BY <2>1, <2>2, <2>3, <2>4, <2>5 DEF Next
<1>3. QED
  BY <1>1, <1>2, PTL DEF Spec

(* The state of a process stays in its types (cmd/agentflow/main.go). *)
THEOREM ProcessTypeOK == Spec => []TypeOK
<1>1. Stack /\ Types => TypeOK
  <2> SUFFICES ASSUME Stack, Types PROVE TypeOK
    OBVIOUS
  <2>1. PICK n \in 0..6 : n = Len(deferred)
    BY DEF Stack, Stacked
  <2>2. Len(Closers) = 6 /\ \A i \in 1..n : Closers[i] \in CloserNames
    BY ClosersAt, ClosersType
  <2>3. n \in Int /\ 1 \in Int /\ \A i \in 1..n : i \in 1..n-1+1 /\ 1 + i - 1 = i
    OBVIOUS
  <2>4. /\ SubSeq(Closers, 1, n) \in Seq(CloserNames)
        /\ Len(SubSeq(Closers, 1, n)) = IF 1 <= n THEN n - 1 + 1 ELSE 0
        /\ \A i \in 1..n-1+1 : SubSeq(Closers, 1, n)[i] = Closers[1+i-1]
    BY <2>2, <2>3, SubSeqProperties
  <2>5. (IF 1 <= n THEN n - 1 + 1 ELSE 0) = n
    OBVIOUS
  <2>6. ASSUME NEW i \in 1..n PROVE deferred[i] = SubSeq(Closers, 1, n)[i]
    <3>1. SubSeq(Closers, 1, n)[i] = Closers[i]
      BY <2>3, <2>4, Zenon
    <3>2. QED
      BY <2>1, <3>1 DEF Stack, Stacked
  <2>7. deferred = SubSeq(Closers, 1, n)
    BY <2>1, <2>4, <2>5, <2>6, SeqEqual DEF Stack, Stacked
  <2>8. QED
    BY <2>1, <2>2, <2>7 DEF Stack, Types, TypeOK
<1>2. QED
  BY <1>1, StackInductive, TypesInductive, PTL

-----------------------------------------------------------------------------
(***************************************************************************)
(* What main has achieved when it stands at each point of its shutdown.    *)
(* Only a process that serves ever has handlers to wait for; the pool is   *)
(* taken off the stack when no worker is inside a call.                    *)
(***************************************************************************)
Ended == pc = "closing" \/ code = "success"

Drained ==
    /\ listening \/ Busy # {} => Serves
    /\ pc \in {"shutdown", "poll", "wait"} \/ Ended => ctxDone
    /\ pc \in {"poll", "wait"} \/ Ended => ~listening
    /\ Ended => Busy = {}
    /\ Ended /\ config.postgres /\ ~Open("storage") => \A w \in Workers : worker[w] # "call"

(* A handler's step adds to the busy ones only by accepting a request. *)
LEMMA HandlerStep ==
    ASSUME Stack, Types, Drained, NEW h \in Handlers,
           Accept(h) \/ Proceed(h) \/ Enqueue(h) \/ StreamEnds(h)
    PROVE  Drained'
<1>1. /\ UNCHANGED <<pc, config, deferred, listening, ctxDone, code, worker>> /\ pc # "exited"
      /\ handler[h] \in {"running", "enqueue"} \/ listening \/ handler'[h] = "none"
      /\ \A k \in Handlers : k # h => handler'[k] = handler[k]
  BY DEF Types, Accept, Proceed, Enqueue, StreamEnds, Handle, Beside, Running
<1>2. Busy' # {} => Busy # {} \/ listening
  BY <1>1 DEF Busy
<1>3. Serves' = Serves /\ Ended' = Ended /\ Open("storage")' = Open("storage")
  BY <1>1 DEF Serves, Ended, Open
<1>4. QED
  BY <1>1, <1>2, <1>3 DEF Drained

(* A worker enters a store call only while the pool is open. *)
LEMMA WorkerStep ==
    ASSUME Stack, Types, Drained, NEW w \in Workers,
           Dequeue(w) \/ StoreCall(w) \/ CallReturns(w) \/ JobEnds(w) \/ Quit(w)
    PROVE  Drained'
<1>1. /\ UNCHANGED <<pc, config, deferred, listening, ctxDone, code, handler>>
      /\ worker'[w] = "call" => Open("storage")
      /\ \A v \in Workers : v # w => worker'[v] = worker[v]
  BY DEF Types, Dequeue, StoreCall, CallReturns, JobEnds, Quit, Work, Beside
<1>2. Serves' = Serves /\ Ended' = Ended /\ Open("storage")' = Open("storage") /\ Busy' = Busy
  BY <1>1 DEF Serves, Ended, Open, Busy
<1>3. QED
  BY <1>1, <1>2 DEF Drained

(* The pool leaves the stack only when it is closable. *)
LEMMA CloseStep ==
    ASSUME Stack, Types, Drained, Close
    PROVE  Drained'
<1>1. /\ Len(deferred) \in 1..6 /\ Len(deferred') = Len(deferred) - 1
      /\ \A i \in 1..Len(deferred') : deferred'[i] = deferred[i]
  BY PopCloser DEF Close, Stack
<1>2. /\ UNCHANGED <<pc, config, listening, ctxDone, code, handler, worker>>
      /\ Closable(deferred[Len(deferred)])
  BY DEF Close, served
<1>3. Serves' = Serves /\ Ended' = Ended /\ Busy' = Busy
  BY <1>2 DEF Serves, Ended, Busy
<1>4. ~Open("storage")' => ~Open("storage") \/ deferred[Len(deferred)] = "storage"
  BY <1>1 DEF Open
<1>5. QED
  BY <1>2, <1>3, <1>4 DEF Drained, Closable

LEMMA DrainedStep == Stack /\ Types /\ Drained /\ [Next]_vars => Drained'
<1> SUFFICES ASSUME Stack, Types, Drained, [Next]_vars PROVE Drained'
  OBVIOUS
<1> USE DEF Goto, osExit, served
<1>1. CASE Load \/ InitTracing \/ buildStore \/ buildQueue \/ buildEventStream
  <2>1. /\ UNCHANGED <<config, listening, ctxDone, handler, worker>>
        /\ pc' \notin {"shutdown", "poll", "wait", "closing"} /\ code' # "success"
    BY <1>1 DEF Load, InitTracing, buildStore, buildQueue, buildEventStream, Build, Stack
  <2>2. QED
    BY <2>1 DEF Drained, Ended, Serves, Busy
<1>2. CASE Start
  <2>1. /\ UNCHANGED <<config, ctxDone, handler>>
        /\ listening' => listening \/ Serves
        /\ pc' \notin {"shutdown", "poll", "wait", "closing"} /\ code' # "success"
    BY <1>2 DEF Start, Stack
  <2>2. QED
    BY <2>1 DEF Drained, Ended, Serves, Busy
<1>3. CASE Select \/ StopListening \/ PollAgain \/ Deadline \/ Signal \/ ServerFails
  <2>1. /\ UNCHANGED <<config, ctxDone, deferred, handler, worker>> /\ Ended' = Ended
        /\ listening' => listening
        /\ pc' \in {"poll", "wait"} => pc \in {"poll", "wait"} \/ ~listening'
        /\ pc' \in {"shutdown", "poll", "wait"} => pc \in {"shutdown", "poll", "wait"}
    BY <1>3 DEF Select, StopListening, PollAgain, Deadline, Signal, ServerFails, Stack, Ended
  <2>2. Serves' = Serves /\ Busy' = Busy /\ Open("storage")' = Open("storage")
    BY <2>1 DEF Serves, Busy, Open
  <2>3. QED
    BY <2>1, <2>2 DEF Drained
<1>4. Len(deferred) = 6 => Open("storage")
  BY ClosersAt DEF Stack, Stacked, Open
<1>5. CASE CancelWorkers
  <2>1. /\ Len(deferred) = 6 /\ pc = "cancel" /\ code' = "none"
        /\ UNCHANGED <<config, deferred, listening, handler>>
        /\ pc' = IF Serves THEN "shutdown" ELSE "closing"
    BY <1>5 DEF CancelWorkers, Stack, Depth
  <2>2. ctxDone'
    BY <1>5, Zenon DEF CancelWorkers
  <2>3. Serves' = Serves /\ Busy' = Busy /\ Open("storage")'
    BY <1>4, <2>1 DEF Serves, Busy, Open
  <2>4. QED
    BY <2>1, <2>2, <2>3 DEF Drained, Ended
<1>6. CASE Poll
  <2>1. /\ Len(deferred) = 6 /\ UNCHANGED <<config, deferred, listening, ctxDone, handler>>
        /\ code' = "none" /\ pc = "poll" /\ pc' \in {"closing", "wait"}
        /\ pc' = "closing" => Busy = {}
    BY <1>6 DEF Poll, Stack, Depth
  <2>2. Serves' = Serves /\ Busy' = Busy /\ Open("storage")'
    BY <1>4, <2>1 DEF Serves, Busy, Open
  <2>3. QED
    BY <2>1, <2>2 DEF Drained, Ended
<1>7. CASE Return
  <2>1. UNCHANGED <<config, deferred, listening, ctxDone, handler, worker>> /\ pc = "closing"
    BY <1>7 DEF Return
  <2>2. Serves' = Serves /\ Busy' = Busy /\ Open("storage")' = Open("storage")
    BY <2>1 DEF Serves, Busy, Open
  <2>3. QED
    BY <1>7, <2>1, <2>2 DEF Drained, Ended, Return
<1>8. CASE UNCHANGED vars
  <2>1. Serves' = Serves /\ Busy' = Busy /\ Open("storage")' = Open("storage") /\ Ended' = Ended
    BY <1>8 DEF vars, Serves, Busy, Open, Ended
  <2>2. QED
    BY <1>8, <2>1 DEF vars, Drained
<1>9. QED
  BY <1>1, <1>2, <1>3, <1>5, <1>6, <1>7, <1>8, CloseStep, HandlerStep, WorkerStep DEF Next, MainStep

(***************************************************************************)
(* Whatever handlers, clients and workers do, a process that runs its      *)
(* closers has drained its requests and told its workers to stop, and      *)
(* closes the pool under no call (main.go 131-140).                        *)
(***************************************************************************)
THEOREM ProcessDrainedBeforeClosed == Spec => []DrainedBeforeClosed
<1>1. Init => Drained
  BY DEF Init, Drained, Ended, Busy
<1>2. Stack /\ Drained => DrainedBeforeClosed
  BY DEF Stack, Drained, Ended, DrainedBeforeClosed
<1>3. QED
  BY <1>1, <1>2, DrainedStep, StackInductive, TypesInductive, PTL DEF Spec
=============================================================================
