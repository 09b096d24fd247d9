--------------------------- MODULE DispatchProofs ---------------------------
(***************************************************************************)
(* Proofs about Dispatch for every set of requests, agents and workers,    *)
(* every choice of adapters and every set of environment events.           *)
(***************************************************************************)
EXTENDS Dispatch, SequenceTheorems, TLAPS

(* What pushing and popping do to the set of waiting jobs. *)
LEMMA PushQueued ==
    ASSUME queue \in Seq(Requests), NEW r \in Requests,
           queue' = queue \o <<r>> \/ queue' = queue \o <<r, r>>
    PROVE  queue' \in Seq(Requests) /\ Queued' = Queued \cup {r}
<1>1. CASE queue' = queue \o <<r>>
  <2>1. <<r>> \in Seq(Requests) /\ Len(<<r>>) = 1 /\ <<r>>[1] = r
    OBVIOUS
  <2>2. /\ queue' \in Seq(Requests)
        /\ Len(queue') = Len(queue) + 1
        /\ \A i \in 1..Len(queue)+1 : queue'[i] = IF i <= Len(queue) THEN queue[i] ELSE r
    BY <1>1, <2>1, ConcatProperties
  <2>3. QED
    BY <2>2, LenProperties DEF Queued
<1>2. CASE queue' = queue \o <<r, r>>
  <2>1. <<r, r>> \in Seq(Requests) /\ Len(<<r, r>>) = 2
        /\ <<r, r>>[1] = r /\ <<r, r>>[2] = r
    OBVIOUS
  <2>2. /\ queue' \in Seq(Requests)
        /\ Len(queue') = Len(queue) + 2
        /\ \A i \in 1..Len(queue)+2 : queue'[i] = IF i <= Len(queue) THEN queue[i] ELSE r
    BY <1>2, <2>1, ConcatProperties
  <2>3. QED
    BY <2>2, LenProperties DEF Queued
<1>3. QED
  BY <1>1, <1>2

LEMMA PopQueued ==
    ASSUME queue \in Seq(Requests), queue # << >>, queue' = Tail(queue)
    PROVE  /\ queue' \in Seq(Requests)
           /\ Head(queue) \in Requests /\ Head(queue) \in Queued
           /\ Queued = Queued' \cup {Head(queue)}
<1>1. /\ Len(queue) \in Nat /\ Len(queue) # 0
      /\ queue' \in Seq(Requests)
      /\ Len(queue') = Len(queue) - 1
      /\ \A i \in 1..Len(queue') : queue'[i] = queue[i+1]
      /\ Head(queue) = queue[1]
  BY HeadTailProperties, LenProperties, EmptySeq
<1>2. Queued' \subseteq Queued
  BY <1>1 DEF Queued
<1>3. queue[1] \in Queued /\ queue[1] \in Requests
  BY <1>1, ElementOfSeq DEF Queued
<1>4. ASSUME NEW i \in 1..Len(queue), i # 1 PROVE queue[i] \in Queued'
  <2>1. i - 1 \in 1..Len(queue') /\ queue'[i-1] = queue[i]
    BY <1>1, <1>4
  <2>2. QED
    BY <2>1 DEF Queued
<1>5. QED
  BY <1>1, <1>2, <1>3, <1>4 DEF Queued

LEMMA QueuedType == ASSUME queue \in Seq(Requests) PROVE Queued \subseteq Requests
BY ElementOfSeq DEF Queued

(* Jobs that workers hold are requests, and restarted workers hold none. *)
LEMMA HeldType == ASSUME WorkerTypeOK PROVE Held \subseteq Requests
BY DEF Held, WorkerTypeOK

LEMMA RestartType == ASSUME RestartWorkers PROVE WorkerTypeOK'
<1>1. /\ phase' \in [Workers -> {"idle", "stopped"} \cup Holding]
      /\ job' \in [Workers -> Requests \cup {None}]
      /\ \A w \in Workers : phase'[w] \in Holding <=> job'[w] # None
  BY DEF RestartWorkers, Holding
<1>2. loaded' \in [Workers -> 0..MaxVersion]
  BY EnvironmentAssumption DEF RestartWorkers
<1>3. ctxDone' \in BOOLEAN
  BY DEF RestartWorkers
<1>4. QED
  BY <1>1, <1>2, <1>3 DEF WorkerTypeOK

-----------------------------------------------------------------------------
(* Every step keeps the state in its types. *)
LEMMA TypeStep == TypeOK /\ [Next]_vars => TypeOK'
<1> SUFFICES ASSUME TypeOK, [Next]_vars PROVE TypeOK'
  OBVIOUS
<1>0. StoreTypeOK /\ RequestTypeOK /\ WorkerTypeOK
  BY DEF TypeOK
<1> USE <1>0, RequestAssumption, NoneAssumption, EnvironmentAssumption
<1> USE DEF stores, jobs, requests, workers, Statuses, Terminal, InProgress, Answered, Holding
<1>1. ASSUME NEW r \in Requests, StartExecution(r) PROVE TypeOK'
  <2>1. CASE LookupKey(r)
    <3>1. StoreTypeOK'
      BY <2>1 DEF StoreTypeOK, LookupKey, At, Goto, Answer
    <3>2. RequestTypeOK'
      BY <2>1 DEF RequestTypeOK, LookupKey, At, Goto, Answer
    <3>3. WorkerTypeOK'
      BY <2>1 DEF WorkerTypeOK, LookupKey, At, Goto, Answer
    <3>4. QED
      BY <3>1, <3>2, <3>3 DEF TypeOK
  <2>2. CASE GetAgent(r)
    <3>1. StoreTypeOK'
      BY <2>2 DEF StoreTypeOK, GetAgent, At, Goto
    <3>2. RequestTypeOK'
      BY <2>2 DEF RequestTypeOK, GetAgent, At, Goto
    <3>3. WorkerTypeOK'
      BY <2>2 DEF WorkerTypeOK, GetAgent, At, Goto
    <3>4. QED
      BY <3>1, <3>2, <3>3 DEF TypeOK
  <2>3. CASE Conversation(r)
    <3>1. StoreTypeOK'
      BY <2>3 DEF StoreTypeOK, Conversation, At, Goto, ConvId
    <3>2. RequestTypeOK'
      BY <2>3 DEF RequestTypeOK, Conversation, At, Goto, ConvId
    <3>3. WorkerTypeOK'
      BY <2>3 DEF WorkerTypeOK, Conversation, At, Goto, ConvId
    <3>4. QED
      BY <3>1, <3>2, <3>3 DEF TypeOK
  <2>4. CASE CreateExecution(r)
    <3>1. StoreTypeOK'
      BY <2>4 DEF StoreTypeOK, CreateExecution, At, Goto, InsertRow
    <3>2. RequestTypeOK'
      BY <2>4 DEF RequestTypeOK, CreateExecution, At, Goto, InsertRow
    <3>3. WorkerTypeOK'
      BY <2>4 DEF WorkerTypeOK, CreateExecution, At, Goto, InsertRow
    <3>4. QED
      BY <3>1, <3>2, <3>3 DEF TypeOK
  <2>5. CASE Enqueue(r)
    <3>1. StoreTypeOK'
      BY <2>5 DEF StoreTypeOK, Enqueue, At, Answer, Push
    <3>2. RequestTypeOK'
      BY <2>5, PushQueued DEF RequestTypeOK, Enqueue, At, Answer, Push
    <3>3. WorkerTypeOK'
      BY <2>5 DEF WorkerTypeOK, Enqueue, At, Answer, Push
    <3>4. QED
      BY <3>1, <3>2, <3>3 DEF TypeOK
  <2>6. CASE MarkUndispatched(r)
    <3>1. StoreTypeOK'
      BY <2>6 DEF StoreTypeOK, MarkUndispatched, At, Goto, SetStatus
    <3>2. RequestTypeOK'
      BY <2>6 DEF RequestTypeOK, MarkUndispatched, At, Goto, SetStatus
    <3>3. WorkerTypeOK'
      BY <2>6 DEF WorkerTypeOK, MarkUndispatched, At, Goto, SetStatus
    <3>4. QED
      BY <3>1, <3>2, <3>3 DEF TypeOK
  <2>7. QED
    BY <1>1, <2>1, <2>2, <2>3, <2>4, <2>5, <2>6 DEF StartExecution
<1>2. ASSUME NEW r \in Requests, StartExecutionFault(r) PROVE TypeOK'
  <2>1. CASE CreateUnacknowledged(r)
    <3>1. StoreTypeOK'
      BY <2>1 DEF StoreTypeOK, CreateUnacknowledged, At, Goto, InsertRow
    <3>2. RequestTypeOK'
      BY <2>1 DEF RequestTypeOK, CreateUnacknowledged, At, Goto, InsertRow
    <3>3. WorkerTypeOK'
      BY <2>1 DEF WorkerTypeOK, CreateUnacknowledged, At, Goto, InsertRow
    <3>4. QED
      BY <3>1, <3>2, <3>3 DEF TypeOK
  <2>2. CASE RequestStoreError(r)
    <3>1. StoreTypeOK'
      BY <2>2 DEF StoreTypeOK, RequestStoreError, Goto, ConvId
    <3>2. RequestTypeOK'
      BY <2>2 DEF RequestTypeOK, RequestStoreError, Goto
    <3>3. WorkerTypeOK'
      BY <2>2 DEF WorkerTypeOK, RequestStoreError, Goto
    <3>4. QED
      BY <3>1, <3>2, <3>3 DEF TypeOK
  <2>3. CASE EnqueueRepeated(r)
    <3>1. StoreTypeOK'
      BY <2>3 DEF StoreTypeOK, EnqueueRepeated, Answer, Push
    <3>2. RequestTypeOK'
      BY <2>3, PushQueued DEF RequestTypeOK, EnqueueRepeated, Answer, Push, Unanswered
    <3>3. WorkerTypeOK'
      BY <2>3 DEF WorkerTypeOK, EnqueueRepeated, Answer, Push
    <3>4. QED
      BY <3>1, <3>2, <3>3 DEF TypeOK
  <2>4. CASE EnqueueFails(r)
    <3>1. StoreTypeOK'
      BY <2>4 DEF StoreTypeOK, EnqueueFails, Goto, Push
    <3>2. RequestTypeOK'
      BY <2>4, PushQueued DEF RequestTypeOK, EnqueueFails, Goto, Push, Unanswered
    <3>3. WorkerTypeOK'
      BY <2>4 DEF WorkerTypeOK, EnqueueFails, Goto, Push
    <3>4. QED
      BY <3>1, <3>2, <3>3 DEF TypeOK
  <2>5. CASE MarkUndispatchedError(r)
    <3>1. StoreTypeOK'
      BY <2>5 DEF StoreTypeOK, MarkUndispatchedError, Goto
    <3>2. RequestTypeOK'
      BY <2>5 DEF RequestTypeOK, MarkUndispatchedError, Goto
    <3>3. WorkerTypeOK'
      BY <2>5 DEF WorkerTypeOK, MarkUndispatchedError, Goto
    <3>4. QED
      BY <3>1, <3>2, <3>3 DEF TypeOK
  <2>6. QED
    BY <1>2, <2>1, <2>2, <2>3, <2>4, <2>5 DEF StartExecutionFault
<1>3. ASSUME NEW w \in Workers, Consume(w) PROVE TypeOK'
  <2>1. CASE Dequeue(w)
    <3>1. StoreTypeOK'
      BY <2>1 DEF StoreTypeOK, Dequeue, TakeHead
    <3>2. RequestTypeOK'
      BY <2>1, PopQueued DEF RequestTypeOK, Dequeue, TakeHead
    <3>3. WorkerTypeOK'
      BY <2>1, PopQueued DEF RequestTypeOK, WorkerTypeOK, Dequeue, TakeHead
    <3>4. QED
      BY <3>1, <3>2, <3>3 DEF TypeOK
  <2>2. CASE LoadExecution(w)
    <3>1. StoreTypeOK'
      BY <2>2 DEF StoreTypeOK, LoadExecution, Step, Loop
    <3>2. RequestTypeOK'
      BY <2>2 DEF RequestTypeOK, LoadExecution, Step, Loop
    <3>3. WorkerTypeOK'
      BY <2>2 DEF WorkerTypeOK, LoadExecution, Step, Loop
    <3>4. QED
      BY <3>1, <3>2, <3>3 DEF TypeOK
  <2>3. CASE LoadAgent(w)
    <3>1. StoreTypeOK'
      BY <2>3 DEF StoreTypeOK, LoadAgent, KeepAgent, Loop
    <3>2. RequestTypeOK'
      BY <2>3 DEF RequestTypeOK, LoadAgent, KeepAgent, Loop
    <3>3. WorkerTypeOK'
      BY <2>3 DEF StoreTypeOK, WorkerTypeOK, LoadAgent, KeepAgent, Loop
    <3>4. QED
      BY <3>1, <3>2, <3>3 DEF TypeOK
  <2>4. CASE MarkRunning(w)
    <3>1. StoreTypeOK'
      BY <2>4 DEF StoreTypeOK, MarkRunning, SetStatus, Step, Loop
    <3>2. RequestTypeOK'
      BY <2>4 DEF RequestTypeOK, MarkRunning, SetStatus, Step, Loop
    <3>3. WorkerTypeOK'
      BY <2>4 DEF WorkerTypeOK, MarkRunning, SetStatus, Step, Loop
    <3>4. QED
      BY <3>1, <3>2, <3>3 DEF TypeOK
  <2>5. CASE Quit(w)
    <3>1. StoreTypeOK'
      BY <2>5 DEF StoreTypeOK, Quit, Step
    <3>2. RequestTypeOK'
      BY <2>5 DEF RequestTypeOK, Quit, Step
    <3>3. WorkerTypeOK'
      BY <2>5 DEF WorkerTypeOK, Quit, Step
    <3>4. QED
      BY <3>1, <3>2, <3>3 DEF TypeOK
  <2>6. ASSUME NEW s \in Terminal, Finish(w, s) PROVE TypeOK'
    <3>1. StoreTypeOK'
      BY <2>6 DEF StoreTypeOK, Finish, Ending, SetStatus, Loop
    <3>2. RequestTypeOK'
      BY <2>6 DEF RequestTypeOK, Finish, Ending, SetStatus, Loop
    <3>3. WorkerTypeOK'
      BY <2>6 DEF WorkerTypeOK, Finish, Ending, SetStatus, Loop
    <3>4. QED
      BY <3>1, <3>2, <3>3 DEF TypeOK
  <2>7. QED
    BY <1>3, <2>1, <2>2, <2>3, <2>4, <2>5, <2>6 DEF Consume
<1>4. ASSUME NEW w \in Workers, WorkerStoreError(w) PROVE TypeOK'
  <2>1. StoreTypeOK'
    BY <1>4 DEF StoreTypeOK, WorkerStoreError, Failing, LostWrite, SetStatus
  <2>2. RequestTypeOK'
    BY <1>4 DEF RequestTypeOK, WorkerTypeOK, WorkerStoreError, Failing, Loop
  <2>3. WorkerTypeOK'
    BY <1>4 DEF WorkerTypeOK, WorkerStoreError, Failing, Loop
  <2>4. QED
    BY <2>1, <2>2, <2>3 DEF TypeOK
<1>5. CASE PopLost
  <2>1. StoreTypeOK'
    BY <1>5 DEF StoreTypeOK, PopLost
  <2>2. RequestTypeOK'
    BY <1>5, PopQueued DEF RequestTypeOK, PopLost
  <2>3. WorkerTypeOK'
    BY <1>5 DEF WorkerTypeOK, PopLost
  <2>4. QED
    BY <2>1, <2>2, <2>3 DEF TypeOK
<1>6. CASE CancelWorkers
  <2>1. StoreTypeOK'
    BY <1>6 DEF StoreTypeOK, CancelWorkers
  <2>2. RequestTypeOK'
    BY <1>6 DEF RequestTypeOK, CancelWorkers
  <2>3. WorkerTypeOK'
    BY <1>6 DEF WorkerTypeOK, CancelWorkers
  <2>4. QED
    BY <2>1, <2>2, <2>3 DEF TypeOK
<1>7. CASE CrashWorkers
  <2>1. StoreTypeOK'
    BY <1>7 DEF StoreTypeOK, CrashWorkers
  <2>2. RequestTypeOK'
    BY <1>7, HeldType DEF RequestTypeOK, CrashWorkers
  <2>3. WorkerTypeOK'
    BY <1>7, RestartType DEF CrashWorkers
  <2>4. QED
    BY <2>1, <2>2, <2>3 DEF TypeOK
<1>8. CASE CrashApi
  <2>1. StoreTypeOK'
    BY <1>8 DEF StoreTypeOK, CrashApi, RestartApi, Dispatching
  <2>2. RequestTypeOK'
    BY <1>8 DEF RequestTypeOK, CrashApi, RestartApi, Dispatching
  <2>3. WorkerTypeOK'
    BY <1>8 DEF WorkerTypeOK, CrashApi, RestartApi, Dispatching
  <2>4. QED
    BY <2>1, <2>2, <2>3 DEF TypeOK
<1>9. CASE CrashProcess
  <2>1. StoreTypeOK'
    BY <1>9 DEF StoreTypeOK, CrashProcess
  <2>2. RequestTypeOK'
    BY <1>9, HeldType, QueuedType, EmptySeq DEF RequestTypeOK, CrashProcess, RestartApi, Dispatching
  <2>3. WorkerTypeOK'
    BY <1>9, RestartType DEF CrashProcess
  <2>4. QED
    BY <2>1, <2>2, <2>3 DEF TypeOK
<1>10. ASSUME NEW a \in Agents, UpdateAgent(a) PROVE TypeOK'
  <2>1. StoreTypeOK'
    BY <1>10 DEF StoreTypeOK, UpdateAgent
  <2>2. RequestTypeOK'
    BY <1>10 DEF RequestTypeOK, UpdateAgent
  <2>3. WorkerTypeOK'
    BY <1>10 DEF WorkerTypeOK, UpdateAgent
  <2>4. QED
    BY <2>1, <2>2, <2>3 DEF TypeOK
<1>11. ASSUME NEW a \in Agents, DeleteAgent(a) PROVE TypeOK'
  <2>1. StoreTypeOK'
    BY <1>11 DEF StoreTypeOK, DeleteAgent
  <2>2. RequestTypeOK'
    BY <1>11 DEF RequestTypeOK, DeleteAgent
  <2>3. WorkerTypeOK'
    BY <1>11 DEF WorkerTypeOK, DeleteAgent
  <2>4. QED
    BY <2>1, <2>2, <2>3 DEF TypeOK
<1>12. CASE UNCHANGED vars
  <2>1. StoreTypeOK'
    BY <1>12 DEF StoreTypeOK, vars
  <2>2. RequestTypeOK'
    BY <1>12 DEF RequestTypeOK, vars
  <2>3. WorkerTypeOK'
    BY <1>12 DEF WorkerTypeOK, vars
  <2>4. QED
    BY <2>1, <2>2, <2>3 DEF TypeOK
<1>13. QED
  BY <1>1, <1>2, <1>3, <1>4, <1>5, <1>6, <1>7, <1>8, <1>9, <1>10, <1>11, <1>12 DEF Next

(* Requests, rows, queue and workers stay in their types. *)
THEOREM DispatchTypeOK == Spec => []TypeOK
<1>1. Init => TypeOK
  <2> SUFFICES ASSUME Init PROVE TypeOK
    OBVIOUS
  <2>1. StoreTypeOK
    BY EnvironmentAssumption DEF Init, StoreTypeOK, Statuses
  <2>2. RequestTypeOK
    BY EmptySeq DEF Init, RequestTypeOK, InProgress
  <2>3. WorkerTypeOK
    <3>1. /\ phase \in [Workers -> {"idle", "stopped"} \cup Holding]
          /\ job \in [Workers -> Requests \cup {None}]
          /\ \A w \in Workers : phase[w] \in Holding <=> job[w] # None
      BY DEF Init, Holding
    <3>2. loaded \in [Workers -> 0..MaxVersion]
      BY EnvironmentAssumption DEF Init
    <3>3. ctxDone \in BOOLEAN
      BY DEF Init
    <3>4. QED
      BY <3>1, <3>2, <3>3 DEF WorkerTypeOK
  <2>4. QED
    BY <2>1, <2>2, <2>3 DEF TypeOK
<1>2. QED
  BY <1>1, TypeStep, PTL DEF Spec

-----------------------------------------------------------------------------
(***************************************************************************)
(* How rows and jobs move in one step.  Claimed is every execution whose   *)
(* job waits, is held or is being dispatched.                              *)
(***************************************************************************)
Claimed == Queued \cup Held \cup Dispatching
Unfinished(r) == status[r] \in {"queued", "running"}

Moves(r) ==
    /\ HasRow(r) => HasRow(r)' \/ Deleted(r)'
    /\ Deleted(r) => Deleted(r)'
    /\ r \in dropped => r \in dropped'
    /\ r \in Claimed' => r \in Claimed \/ HasRow(r)'
    /\ Unfinished(r)' => Unfinished(r) \/ r \in Claimed' \cup dropped'
    /\ r \in Claimed /\ Unfinished(r)' => r \in Claimed' \cup dropped' \/ Deleted(r)'

LEMMA MoveStep ==
    ASSUME TypeOK, [Next]_vars, NEW q \in Requests
    PROVE  Moves(q)
<1>1. StoreTypeOK /\ RequestTypeOK /\ WorkerTypeOK /\ WorkerTypeOK'
  BY TypeStep DEF TypeOK
<1>2. /\ q \in Held <=> \E w \in Workers : job[w] = q
      /\ q \in Held' <=> \E w \in Workers : job'[w] = q
  BY <1>1, NoneAssumption DEF Held, WorkerTypeOK
<1>3. queue' = queue => Queued' = Queued
  BY DEF Queued
<1>4. /\ q \in Dispatching <=> stage[q] \in {"enqueue", "undispatched"}
      /\ q \in Dispatching' <=> stage'[q] \in {"enqueue", "undispatched"}
  BY DEF Dispatching
<1> USE <1>1, <1>2, <1>3, <1>4
<1> USE DEF Moves, Claimed, Unfinished, HasRow, Deleted, stores, jobs, requests, workers,
            StoreTypeOK, RequestTypeOK, WorkerTypeOK
<1>a. ASSUME NEW w \in Workers, Loop(w)
      PROVE  /\ q \in Held' => q \in Held
             /\ q \in Held => q \in Held' \/ q = job[w]
             /\ stage' = stage
  BY <1>a, NoneAssumption DEF Loop
<1>5. ASSUME NEW r \in Requests, StartExecution(r) PROVE Moves(q)
  <2>1. CASE LookupKey(r)
    BY <2>1 DEF LookupKey, At, Goto, Answer
  <2>2. CASE GetAgent(r)
    BY <2>2 DEF GetAgent, At, Goto
  <2>3. CASE Conversation(r)
    BY <2>3 DEF Conversation, At, Goto
  <2>4. CASE CreateExecution(r)
    BY <2>4 DEF CreateExecution, At, Goto, InsertRow
  <2>5. CASE Enqueue(r)
    <3>1. Queued' = Queued \cup {r}
      BY <2>5, PushQueued DEF Enqueue, Push
    <3>2. QED
      BY <2>5, <3>1 DEF Enqueue, At, Answer
  <2>6. CASE MarkUndispatched(r)
    BY <2>6 DEF MarkUndispatched, At, Goto, SetStatus
  <2>7. QED
    BY <1>5, <2>1, <2>2, <2>3, <2>4, <2>5, <2>6 DEF StartExecution
<1>6. ASSUME NEW r \in Requests, StartExecutionFault(r) PROVE Moves(q)
  <2>1. CASE CreateUnacknowledged(r)
    BY <2>1 DEF CreateUnacknowledged, At, Goto, InsertRow
  <2>2. CASE RequestStoreError(r)
    BY <2>2 DEF RequestStoreError, Goto
  <2>3. CASE EnqueueRepeated(r)
    <3>1. Queued' = Queued \cup {r}
      BY <2>3, PushQueued DEF EnqueueRepeated, Push
    <3>2. QED
      BY <2>3, <3>1 DEF EnqueueRepeated, RedisPush, At, Answer
  <2>4. CASE EnqueueFails(r)
    <3>1. At(r, "enqueue") /\ (Queued' = Queued \/ Queued' = Queued \cup {r})
      BY <2>4, PushQueued DEF EnqueueFails, RedisPush, Push
    <3>2. QED
      BY <2>4, <3>1 DEF EnqueueFails, At, Goto
  <2>5. CASE MarkUndispatchedError(r)
    BY <2>5 DEF MarkUndispatchedError, At, Goto
  <2>6. QED
    BY <1>6, <2>1, <2>2, <2>3, <2>4, <2>5 DEF StartExecutionFault
<1>7. ASSUME NEW w \in Workers, Consume(w) PROVE Moves(q)
  <2>1. CASE Dequeue(w)
    <3>1. Queued = Queued' \cup {Head(queue)} /\ Head(queue) \in Requests
      BY <2>1, PopQueued DEF Dequeue, TakeHead
    <3>2. job[w] = None
      BY <2>1 DEF Dequeue, TakeHead, Holding
    <3>3. QED
      BY <2>1, <3>1, <3>2, NoneAssumption DEF Dequeue, TakeHead
  <2>2. CASE LoadExecution(w)
    <3>1. CASE Step(w, "found")
      BY <2>2, <3>1 DEF LoadExecution, Step
    <3>2. CASE ~HasRow(job[w]) /\ Loop(w)
      BY <2>2, <3>2, <1>a DEF LoadExecution
    <3>3. QED
      BY <2>2, <3>1, <3>2 DEF LoadExecution
  <2>3. CASE LoadAgent(w)
    <3>1. CASE KeepAgent(w)
      BY <2>3, <3>1 DEF LoadAgent, KeepAgent
    <3>2. CASE Deleted(job[w]) /\ Loop(w)
      BY <2>3, <3>2, <1>a DEF LoadAgent
    <3>3. QED
      BY <2>3, <3>1, <3>2 DEF LoadAgent
  <2>4. CASE MarkRunning(w)
    <3>1. CASE HasRow(job[w]) /\ Step(w, "running")
      BY <2>4, <3>1 DEF MarkRunning, SetStatus, Step
    <3>2. CASE ~HasRow(job[w]) /\ Loop(w)
      BY <2>4, <3>2, <1>a DEF MarkRunning, SetStatus
    <3>3. QED
      BY <2>4, <3>1, <3>2 DEF MarkRunning
  <2>5. CASE Quit(w)
    BY <2>5 DEF Quit, Step
  <2>6. ASSUME NEW s \in Terminal, Finish(w, s) PROVE Moves(q)
    BY <2>6, <1>a DEF Finish, SetStatus, Terminal
  <2>7. QED
    BY <1>7, <2>1, <2>2, <2>3, <2>4, <2>5, <2>6 DEF Consume
<1>8. ASSUME NEW w \in Workers, WorkerStoreError(w) PROVE Moves(q)
  <2>1. HasRow(q) => HasRow(q)'
    BY <1>8 DEF WorkerStoreError, Failing, LostWrite, SetStatus, Terminal
  <2>2. q # job[w] => status'[q] = status[q]
    BY <1>8 DEF WorkerStoreError, Failing, LostWrite, SetStatus
  <2>3. UNCHANGED <<agents, queue>> /\ Loop(w) /\ dropped' = dropped \cup {job[w]}
    BY <1>8 DEF WorkerStoreError, Failing, LostWrite, SetStatus
  <2>4. QED
    BY <1>a, <2>1, <2>2, <2>3
<1>9. CASE PopLost
  <2>1. Queued = Queued' \cup {Head(queue)} /\ Head(queue) \in Requests
    BY <1>9, PopQueued DEF PopLost
  <2>2. QED
    BY <1>9, <2>1 DEF PopLost
<1>10. CASE CancelWorkers
  BY <1>10 DEF CancelWorkers
<1>11. CASE CrashWorkers
  BY <1>11, NoneAssumption DEF CrashWorkers, RestartWorkers
<1>12. CASE CrashApi
  BY <1>12 DEF CrashApi, RestartApi, InProgress
<1>13. CASE CrashProcess
  <2>1. Queued' = {}
    BY <1>13 DEF CrashProcess, Queued
  <2>2. QED
    BY <1>13, <2>1, NoneAssumption DEF CrashProcess, RestartWorkers, RestartApi, InProgress
<1>14. ASSUME NEW a \in Agents, UpdateAgent(a) PROVE Moves(q)
  BY <1>14, RequestAssumption DEF UpdateAgent
<1>15. ASSUME NEW a \in Agents, DeleteAgent(a) PROVE Moves(q)
  BY <1>15, RequestAssumption DEF DeleteAgent
<1>16. CASE UNCHANGED vars
  BY <1>16 DEF vars
<1>17. QED
  BY <1>5, <1>6, <1>7, <1>8, <1>9, <1>10, <1>11, <1>12, <1>13, <1>14, <1>15, <1>16 DEF Next

(***************************************************************************)
(* A job never exists without its row: the inductive form also covers the  *)
(* handler between the insert and the push.                                *)
(***************************************************************************)
RowBehindJob == \A r \in Requests : r \in Claimed => HasRow(r) \/ Deleted(r)

THEOREM DispatchPersistedBeforePushed == Spec => []PersistedBeforePushed
<1>1. Init => RowBehindJob
  BY DEF Init, RowBehindJob, Claimed, Queued, Held, Holding, Dispatching
<1>2. TypeOK /\ RowBehindJob /\ [Next]_vars => RowBehindJob'
  BY MoveStep DEF RowBehindJob, Moves
<1>3. RowBehindJob => PersistedBeforePushed
  BY DEF RowBehindJob, PersistedBeforePushed, Claimed
<1>4. QED
  BY <1>1, <1>2, <1>3, DispatchTypeOK, PTL DEF Spec

(***************************************************************************)
(* No unfinished execution is without its job, a worker or its handler,    *)
(* except by the recorded drops and by deletion of its agent.              *)
(***************************************************************************)
THEOREM DispatchConserved == Spec => []Conserved
<1>1. Init => Conserved
  BY DEF Init, Conserved
<1>2. TypeOK /\ Conserved /\ [Next]_vars => Conserved'
  BY MoveStep DEF Conserved, Moves, Claimed, Unfinished
<1>3. QED
  BY <1>1, <1>2, DispatchTypeOK, PTL DEF Spec

-----------------------------------------------------------------------------
(***************************************************************************)
(* Where rows, conversations and answers come from: rows from an accepted  *)
(* insert, a request's place before the insert from an accepted            *)
(* conversation, answers from an existing row or from the request's own    *)
(* push; conversations go only with their agent and its rows.              *)
(***************************************************************************)
Origins(q) ==
    /\ HasRow(q)' => \/ HasRow(q)
                     \/ /\ At(q, "create") /\ InsertAccepted(q) /\ convs' = convs
                        /\ \A p \in Requests : p # q => status'[p] = status[p]
    /\ At(q, "create")' => At(q, "create") \/ (ConversationAccepted(q) /\ ConvId(q) \in convs')
    /\ q \in convs => \/ q \in convs'
                      \/ /\ Adapter = "postgres"
                         /\ \A p \in Requests : AgentOf[p] = AgentOf[q] => ~HasRow(p)'
    /\ \/ answer'[q] = answer[q]
       \/ SameKey(q, answer'[q]) /\ answer'[q] \in Requests /\ HasRow(answer'[q])
       \/ answer'[q] = q /\ At(q, "enqueue")

LEMMA OriginStep ==
    ASSUME TypeOK, [Next]_vars, NEW q \in Requests
    PROVE  Origins(q)
<1>1. StoreTypeOK /\ RequestTypeOK
  BY DEF TypeOK
<1> USE <1>1
<1> USE DEF Origins, HasRow, At, Goto, stores, jobs, requests, workers, StoreTypeOK, RequestTypeOK
<1>2. ASSUME NEW r \in Requests, StartExecution(r) PROVE Origins(q)
  <2>1. CASE LookupKey(r)
    BY <2>1 DEF LookupKey, Answer
  <2>2. CASE GetAgent(r)
    BY <2>2 DEF GetAgent
  <2>3. CASE Conversation(r)
    BY <2>3 DEF Conversation
  <2>4. CASE CreateExecution(r)
    BY <2>4 DEF CreateExecution, InsertRow
  <2>5. CASE Enqueue(r)
    BY <2>5 DEF Enqueue, Answer
  <2>6. CASE MarkUndispatched(r)
    BY <2>6 DEF MarkUndispatched, SetStatus
  <2>7. QED
    BY <1>2, <2>1, <2>2, <2>3, <2>4, <2>5, <2>6 DEF StartExecution
<1>3. ASSUME NEW r \in Requests, StartExecutionFault(r) PROVE Origins(q)
  <2>1. CASE CreateUnacknowledged(r)
    BY <2>1 DEF CreateUnacknowledged, InsertRow
  <2>2. CASE RequestStoreError(r)
    BY <2>2 DEF RequestStoreError
  <2>3. CASE EnqueueRepeated(r)
    BY <2>3 DEF EnqueueRepeated, RedisPush, Answer
  <2>4. CASE EnqueueFails(r)
    BY <2>4 DEF EnqueueFails
  <2>5. CASE MarkUndispatchedError(r)
    BY <2>5 DEF MarkUndispatchedError
  <2>6. QED
    BY <1>3, <2>1, <2>2, <2>3, <2>4, <2>5 DEF StartExecutionFault
<1>4. ASSUME NEW w \in Workers, Consume(w) \/ WorkerStoreError(w) PROVE Origins(q)
  <2>1. stage' = stage /\ answer' = answer /\ convs' = convs
    BY <1>4 DEF Consume, WorkerStoreError, Failing, LostWrite, Dequeue, TakeHead, LoadExecution,
                LoadAgent, KeepAgent, MarkRunning, Quit, Finish, SetStatus, Step, Loop
  <2>2. HasRow(q)' => HasRow(q)
    BY <1>4 DEF Consume, WorkerStoreError, Failing, LostWrite, Dequeue, TakeHead, LoadExecution,
                LoadAgent, MarkRunning, Quit, Finish, SetStatus
  <2>3. QED
    BY <2>1, <2>2
<1>5. CASE PopLost \/ CancelWorkers \/ CrashWorkers
  BY <1>5 DEF PopLost, CancelWorkers, CrashWorkers
<1>6. CASE CrashApi \/ CrashProcess
  BY <1>6 DEF CrashApi, CrashProcess, RestartApi
<1>7. ASSUME NEW a \in Agents, UpdateAgent(a) \/ DeleteAgent(a) PROVE Origins(q)
  BY <1>7 DEF UpdateAgent, DeleteAgent
<1>8. CASE UNCHANGED vars
  BY <1>8 DEF vars
<1>9. QED
  BY <1>2, <1>3, <1>4, <1>5, <1>6, <1>7, <1>8 DEF Next

(***************************************************************************)
(* With PostgreSQL, requests that share an idempotency key and succeed are *)
(* answered with one execution.  Inductively: rows have distinct keys, and *)
(* what a request was answered with has its key and a row, unless its      *)
(* agent is deleted.                                                       *)
(***************************************************************************)
UniqueKeys == \A r, s \in Requests : SameKey(r, s) /\ HasRow(r) /\ HasRow(s) => r = s

AnswersStand ==
    \A r \in Requests : answer[r] # None =>
        /\ KeyOf[r] # None => KeyOf[answer[r]] = KeyOf[r]
        /\ HasRow(answer[r]) \/ Deleted(answer[r])

THEOREM DispatchIdempotentAnswers ==
    ASSUME Adapter = "postgres"
    PROVE  Spec => []IdempotentAnswers
<1> DEFINE Inv == RowBehindJob /\ UniqueKeys /\ AnswersStand
<1>1. Init => Inv
  BY DEF Init, RowBehindJob, Claimed, Queued, Held, Holding, Dispatching, UniqueKeys,
         AnswersStand, HasRow
<1>2. TypeOK /\ Inv /\ [Next]_vars => Inv'
  <2> SUFFICES ASSUME TypeOK, Inv, [Next]_vars PROVE Inv'
    OBVIOUS
  <2>1. RowBehindJob'
    BY MoveStep DEF RowBehindJob, Moves
  <2>2. UniqueKeys'
    <3> SUFFICES ASSUME NEW r \in Requests, NEW s \in Requests, SameKey(r, s),
                        HasRow(r)', HasRow(s)', r # s
                 PROVE  FALSE
      BY DEF UniqueKeys, SameKey
    <3>1. SameKey(s, r)
      BY DEF SameKey
    <3>2. ~(HasRow(r) /\ HasRow(s))
      BY DEF UniqueKeys
    <3>3. CASE ~HasRow(r)
      BY <3>3, OriginStep DEF Origins, InsertAccepted, HasRow
    <3>4. CASE ~HasRow(s)
      BY <3>4, <3>1, OriginStep DEF Origins, InsertAccepted, HasRow
    <3>5. QED
      BY <3>2, <3>3, <3>4
  <2>3. AnswersStand'
    <3> SUFFICES ASSUME NEW r \in Requests, answer'[r] # None
                 PROVE  /\ KeyOf[r] # None => KeyOf[answer'[r]] = KeyOf[r]
                        /\ status'[answer'[r]] # "none" \/ agents'[AgentOf[answer'[r]]] = 0
      BY DEF AnswersStand, HasRow, Deleted
    <3>1. /\ answer'[r] \in Requests
          /\ KeyOf[r] # None => KeyOf[answer'[r]] = KeyOf[r]
          /\ HasRow(answer'[r]) \/ Deleted(answer'[r])
      <4>1. CASE answer'[r] = answer[r]
        BY <4>1 DEF AnswersStand, TypeOK, RequestTypeOK
      <4>2. CASE SameKey(r, answer'[r]) /\ answer'[r] \in Requests /\ HasRow(answer'[r])
        BY <4>2 DEF SameKey
      <4>3. CASE answer'[r] = r /\ At(r, "enqueue")
        BY <4>3 DEF RowBehindJob, Claimed, Dispatching, At
      <4>4. QED
        BY <4>1, <4>2, <4>3, OriginStep DEF Origins
    <3>2. PICK x \in Requests : x = answer'[r]
      BY <3>1
    <3>3. HasRow(x)' \/ Deleted(x)'
      BY <3>1, <3>2, MoveStep DEF Moves
    <3>4. QED
      BY <3>1, <3>2, <3>3 DEF HasRow, Deleted
  <2>4. QED
    BY <2>1, <2>2, <2>3
<1>3. TypeOK /\ Inv => IdempotentAnswers
  BY DEF IdempotentAnswers, UniqueKeys, AnswersStand, SameKey, TypeOK, RequestTypeOK
<1> HIDE DEF Inv
<1>4. QED
  BY <1>1, <1>2, <1>3, DispatchTypeOK, PTL DEF Spec

(***************************************************************************)
(* A stored execution's conversation exists and is its agent's.  The       *)
(* inductive form adds the request that is about to insert.                *)
(***************************************************************************)
ConversationChecked ==
    \A r \in Requests : At(r, "create") =>
        /\ AgentOf[ConvId(r)] = AgentOf[r]
        /\ Adapter = "memory" => ConvId(r) \in convs

THEOREM DispatchConversationMatches == Spec => []ConversationMatches
<1> DEFINE Inv == ConversationChecked /\ ConversationMatches
<1>1. Init => Inv
  BY DEF Init, ConversationChecked, ConversationMatches, At, HasRow
<1>2. TypeOK /\ Inv /\ [Next]_vars => Inv'
  <2> SUFFICES ASSUME TypeOK, Inv, [Next]_vars, NEW r \in Requests
               PROVE  /\ At(r, "create")' => /\ AgentOf[ConvId(r)] = AgentOf[r]
                                             /\ Adapter = "memory" => ConvId(r) \in convs'
                      /\ HasRow(r)' => /\ ConvId(r) \in convs'
                                       /\ AgentOf[ConvId(r)] = AgentOf[r]
    BY DEF ConversationChecked, ConversationMatches, At, HasRow
  <2>1. ConvId(r) \in Requests
    BY RequestAssumption DEF ConvId
  <2>2. ConversationAccepted(r) => AgentOf[ConvId(r)] = AgentOf[r]
    BY DEF ConversationAccepted, SameAgentId, ConvId
  <2>3. At(r, "create")' => /\ AgentOf[ConvId(r)] = AgentOf[r]
                            /\ Adapter = "memory" => ConvId(r) \in convs'
    BY <2>1, <2>2, OriginStep DEF Origins, ConversationChecked
  <2>4. ASSUME HasRow(r)'
        PROVE  ConvId(r) \in convs' /\ AgentOf[ConvId(r)] = AgentOf[r]
    <3>1. CASE HasRow(r)
      BY <2>1, <2>4, <3>1, OriginStep DEF Origins, ConversationMatches
    <3>2. CASE ~HasRow(r)
      BY <2>1, <2>4, <3>2, OriginStep DEF Origins, ConversationChecked, InsertAccepted
    <3>3. QED
      BY <3>1, <3>2
  <2>5. QED
    BY <2>3, <2>4
<1>3. QED
  BY <1>1, <1>2, DispatchTypeOK, PTL DEF Spec
-----------------------------------------------------------------------------
(***************************************************************************)
(* Where the job of an execution can be.  Unless the answer to its push    *)
(* was lost, it is in one place at a time, and only after its handler has  *)
(* answered; once the execution has started only the worker that runs it   *)
(* holds it, and once it is finished it is nowhere.                        *)
(***************************************************************************)
Once(r) == \A i, j \in 1..Len(queue) : queue[i] = r /\ queue[j] = r => i = j

Placed(r) ==
    /\ r \in Queued \cup Held => stage[r] = "accepted"
    /\ Once(r) /\ ~(r \in Queued /\ r \in Held)
    /\ \A v, w \in Workers : job[v] = r /\ job[w] = r => v = w
    /\ status[r] = "running" =>
          /\ r \notin Queued /\ stage[r] = "accepted"
          /\ \A w \in Workers : job[w] = r => phase[w] = "running"
    /\ status[r] \in Terminal => r \notin Queued \cup Held /\ stage[r] \in {"accepted", "failed"}

OnePlace == \A r \in Requests \ unanswered : Placed(r)

Kept(r) == status[r] \in Terminal => status'[r] \in {status[r], "none"}

(* A pushed job is in the queue once if it was not there; others stay put. *)
LEMMA PushOnce ==
    ASSUME queue \in Seq(Requests), NEW r \in Requests, NEW q \in Requests, Once(q),
           \/ queue' = queue \o <<r>> /\ (q = r => q \notin Queued)
           \/ queue' = queue \o <<r, r>> /\ q # r
    PROVE  Once(q)'
<1>1. Len(queue) \in Nat
  BY LenProperties
<1>2. q \notin Queued => \A i \in 1..Len(queue) : queue[i] # q
  BY DEF Queued
<1>3. CASE queue' = queue \o <<r>> /\ (q = r => q \notin Queued)
  <2>1. <<r>> \in Seq(Requests) /\ Len(<<r>>) = 1 /\ <<r>>[1] = r
    OBVIOUS
  <2>2. /\ Len(queue') = Len(queue) + 1
        /\ \A i \in 1..Len(queue)+1 : queue'[i] = IF i <= Len(queue) THEN queue[i] ELSE r
    BY <1>3, <2>1, ConcatProperties
  <2>3. QED
    BY <1>1, <1>2, <1>3, <2>2 DEF Once
<1>4. CASE queue' = queue \o <<r, r>> /\ q # r
  <2>1. <<r, r>> \in Seq(Requests) /\ Len(<<r, r>>) = 2
        /\ <<r, r>>[1] = r /\ <<r, r>>[2] = r
    OBVIOUS
  <2>2. /\ Len(queue') = Len(queue) + 2
        /\ \A i \in 1..Len(queue)+2 : queue'[i] = IF i <= Len(queue) THEN queue[i] ELSE r
    BY <1>4, <2>1, ConcatProperties
  <2>3. QED
    BY <1>1, <1>4, <2>2 DEF Once
<1>5. QED
  BY <1>3, <1>4

(* A popped job that was in the queue once is in it no longer. *)
LEMMA PopOnce ==
    ASSUME queue \in Seq(Requests), queue # << >>, queue' = Tail(queue),
           NEW q \in Requests, Once(q)
    PROVE  Once(q)' /\ (q = Head(queue) => q \notin Queued')
<1>1. /\ Len(queue) \in Nat /\ Len(queue) # 0
      /\ Len(queue') = Len(queue) - 1
      /\ \A i \in 1..Len(queue') : queue'[i] = queue[i+1]
      /\ Head(queue) = queue[1]
  BY HeadTailProperties, LenProperties, EmptySeq
<1>2. \A i \in 1..Len(queue') : i + 1 \in 1..Len(queue)
  BY <1>1
<1>3. Once(q)'
  BY <1>1, <1>2 DEF Once
<1>4. ASSUME q = Head(queue), NEW i \in 1..Len(queue'), queue'[i] = q PROVE FALSE
  BY <1>1, <1>2, <1>4 DEF Once
<1>5. QED
  BY <1>3, <1>4 DEF Queued

LEMMA PlaceStep ==
    ASSUME TypeOK, [Next]_vars, NEW q \in Requests \ unanswered, Placed(q)
    PROVE  (q \notin unanswered' => Placed(q)') /\ Kept(q)
<1>1. StoreTypeOK /\ RequestTypeOK /\ WorkerTypeOK /\ WorkerTypeOK'
  BY TypeStep DEF TypeOK
<1>2. /\ q \in Held <=> \E w \in Workers : job[w] = q
      /\ q \in Held' <=> \E w \in Workers : job'[w] = q
  BY <1>1, NoneAssumption DEF Held, WorkerTypeOK
<1>3. queue' = queue => Queued' = Queued /\ Once(q)' = Once(q)
  BY DEF Queued, Once
<1> DEFINE Goal == (q \notin unanswered' => Placed(q)') /\ Kept(q)
<1> USE <1>1, <1>2, <1>3
<1> USE DEF Placed, Kept, HasRow, Terminal, stores, jobs, requests, workers,
            StoreTypeOK, RequestTypeOK, WorkerTypeOK
<1>a. ASSUME NEW w \in Workers, Loop(w)
      PROVE  /\ \A v \in Workers : job'[v] = q => job[v] = q /\ v # w /\ phase'[v] = phase[v]
             /\ stage' = stage
  BY <1>a, NoneAssumption DEF Loop
<1>5. ASSUME NEW r \in Requests, StartExecution(r) PROVE Goal
  <2>1. CASE LookupKey(r)
    BY <2>1 DEF LookupKey, At, Goto, Answer
  <2>2. CASE GetAgent(r)
    BY <2>2 DEF GetAgent, At, Goto
  <2>3. CASE Conversation(r)
    BY <2>3 DEF Conversation, At, Goto
  <2>4. CASE CreateExecution(r)
    BY <2>4 DEF CreateExecution, At, Goto, InsertRow
  <2>5. CASE Enqueue(r)
    <3>1. Queued' = Queued \cup {r}
      BY <2>5, PushQueued DEF Enqueue, Push
    <3>2. Once(q)'
      BY <2>5, PushOnce DEF Enqueue, Push, At
    <3>3. QED
      BY <2>5, <3>1, <3>2 DEF Enqueue, At, Answer
  <2>6. CASE MarkUndispatched(r)
    BY <2>6 DEF MarkUndispatched, At, Goto, SetStatus
  <2>7. QED
    BY <1>5, <2>1, <2>2, <2>3, <2>4, <2>5, <2>6 DEF StartExecution
<1>6. ASSUME NEW r \in Requests, StartExecutionFault(r) PROVE Goal
  <2>1. CASE CreateUnacknowledged(r)
    BY <2>1 DEF CreateUnacknowledged, At, Goto, InsertRow
  <2>2. CASE RequestStoreError(r)
    BY <2>2 DEF RequestStoreError, Goto
  <2>3. CASE EnqueueRepeated(r)
    <3>1. Queued' = Queued \cup {r}
      BY <2>3, PushQueued DEF EnqueueRepeated, Push
    <3>2. q # r => Once(q)'
      BY <2>3, PushOnce DEF EnqueueRepeated, Push
    <3>3. QED
      BY <2>3, <3>1, <3>2 DEF EnqueueRepeated, RedisPush, At, Answer, Unanswered
  <2>4. CASE EnqueueFails(r)
    <3>1. CASE UNCHANGED jobs
      BY <2>4, <3>1 DEF EnqueueFails, RedisPush, At, Goto
    <3>2. CASE Push(<<r>>) /\ Unanswered(r)
      <4>1. Queued' = Queued \cup {r}
        BY <3>2, PushQueued DEF Push
      <4>2. q # r => Once(q)'
        BY <3>2, PushOnce DEF Push
      <4>3. QED
        BY <2>4, <3>2, <4>1, <4>2 DEF EnqueueFails, RedisPush, At, Goto, Unanswered
    <3>3. QED
      BY <2>4, <3>1, <3>2 DEF EnqueueFails
  <2>5. CASE MarkUndispatchedError(r)
    BY <2>5 DEF MarkUndispatchedError, At, Goto
  <2>6. QED
    BY <1>6, <2>1, <2>2, <2>3, <2>4, <2>5 DEF StartExecutionFault
<1>7. ASSUME NEW w \in Workers, Consume(w) PROVE Goal
  <2>1. CASE Dequeue(w)
    <3>1. Queued = Queued' \cup {Head(queue)} /\ Head(queue) \in Requests
      BY <2>1, PopQueued DEF Dequeue, TakeHead
    <3>2. Once(q)' /\ (q = Head(queue) => q \notin Queued')
      BY <2>1, PopOnce DEF Dequeue, TakeHead
    <3>3. job[w] = None
      BY <2>1 DEF Dequeue, TakeHead, Holding
    <3>4. QED
      BY <2>1, <3>1, <3>2, <3>3, NoneAssumption DEF Dequeue, TakeHead
  <2>2. CASE LoadExecution(w)
    <3>1. CASE Step(w, "found")
      BY <2>2, <3>1 DEF LoadExecution, Step
    <3>2. CASE Loop(w)
      BY <2>2, <3>2, <1>a DEF LoadExecution
    <3>3. QED
      BY <2>2, <3>1, <3>2 DEF LoadExecution
  <2>3. CASE LoadAgent(w)
    <3>1. CASE KeepAgent(w)
      BY <2>3, <3>1 DEF LoadAgent, KeepAgent
    <3>2. CASE Loop(w)
      BY <2>3, <3>2, <1>a DEF LoadAgent
    <3>3. QED
      BY <2>3, <3>1, <3>2 DEF LoadAgent
  <2>4. CASE MarkRunning(w)
    <3>1. CASE Step(w, "running")
      BY <2>4, <3>1 DEF MarkRunning, SetStatus, Step
    <3>2. CASE Loop(w)
      BY <2>4, <3>2, <1>a DEF MarkRunning, SetStatus
    <3>3. QED
      BY <2>4, <3>1, <3>2 DEF MarkRunning
  <2>5. CASE Quit(w)
    BY <2>5 DEF Quit, Step
  <2>6. ASSUME NEW s \in Terminal, Finish(w, s) PROVE Goal
    BY <2>6, <1>a DEF Finish, Ending, SetStatus, Holding
  <2>7. QED
    BY <1>7, <2>1, <2>2, <2>3, <2>4, <2>5, <2>6 DEF Consume
<1>8. ASSUME NEW w \in Workers, WorkerStoreError(w) PROVE Goal
  <2>1. status'[q] # status[q] => q = job[w] /\ status'[q] \in {"running"} \cup Terminal
    BY <1>8 DEF WorkerStoreError, Failing, LostWrite, SetStatus
  <2>2. UNCHANGED <<queue, unanswered>> /\ Loop(w) /\ job[w] # None
    BY <1>8 DEF WorkerStoreError, Failing
  <2>3. QED
    BY <1>a, <2>1, <2>2
<1>9. CASE PopLost
  <2>1. Queued = Queued' \cup {Head(queue)} /\ Head(queue) \in Requests
    BY <1>9, PopQueued DEF PopLost
  <2>2. Once(q)'
    BY <1>9, PopOnce DEF PopLost
  <2>3. QED
    BY <1>9, <2>1, <2>2 DEF PopLost
<1>10. CASE CancelWorkers
  BY <1>10 DEF CancelWorkers
<1>11. CASE CrashWorkers
  BY <1>11, NoneAssumption DEF CrashWorkers, RestartWorkers
<1>12. CASE CrashApi
  BY <1>12 DEF CrashApi, RestartApi, InProgress
<1>13. CASE CrashProcess
  <2>1. Queued' = {} /\ Once(q)'
    BY <1>13 DEF CrashProcess, Queued, Once
  <2>2. QED
    BY <1>13, <2>1, NoneAssumption DEF CrashProcess, RestartWorkers, RestartApi, InProgress
<1>14. ASSUME NEW a \in Agents, UpdateAgent(a) PROVE Goal
  BY <1>14 DEF UpdateAgent
<1>15. ASSUME NEW a \in Agents, DeleteAgent(a) PROVE Goal
  BY <1>15 DEF DeleteAgent
<1>16. CASE UNCHANGED vars
  BY <1>16 DEF vars
<1>17. QED
  BY <1>5, <1>6, <1>7, <1>8, <1>9, <1>10, <1>11, <1>12, <1>13, <1>14, <1>15, <1>16 DEF Next

(* The answer of a push, once lost, stays lost. *)
LEMMA UnansweredGrows == [Next]_vars => unanswered \subseteq unanswered'
BY DEF Next, vars, jobs, StartExecution, StartExecutionFault, LookupKey, GetAgent, Conversation,
       CreateExecution, Enqueue, MarkUndispatched, CreateUnacknowledged, RequestStoreError,
       EnqueueRepeated, EnqueueFails, MarkUndispatchedError, Unanswered, Consume, Dequeue,
       LoadExecution, LoadAgent, MarkRunning, Quit, Finish, WorkerStoreError, PopLost,
       CancelWorkers, CrashWorkers, CrashApi, CrashProcess, UpdateAgent, DeleteAgent

LEMMA PlacesInductive == Spec => []OnePlace
<1>1. Init => OnePlace
  <2>1. SUFFICES ASSUME Init, NEW r \in Requests PROVE Placed(r)
    BY DEF OnePlace
  <2>2. Queued = {} /\ Once(r) /\ r \notin Held
    BY <2>1, NoneAssumption DEF Init, Once, Queued, Held, Holding
  <2>3. status[r] = "none" /\ \A w \in Workers : job[w] = None
    BY <2>1 DEF Init
  <2>4. QED
    BY <2>2, <2>3, NoneAssumption DEF Placed, Terminal
<1>2. TypeOK /\ OnePlace /\ [Next]_vars => OnePlace'
  BY PlaceStep, UnansweredGrows DEF OnePlace
<1>3. QED
  BY <1>1, <1>2, DispatchTypeOK, PTL DEF Spec

(***************************************************************************)
(* Two workers hold one execution only after a lost answer to its push.    *)
(***************************************************************************)
THEOREM DispatchOneWorkerClaims == Spec => []OneWorkerClaims
<1>1. TypeOK /\ OnePlace => OneWorkerClaims
  BY NoneAssumption DEF OneWorkerClaims, OnePlace, Placed, TypeOK, WorkerTypeOK
<1>2. QED
  BY <1>1, DispatchTypeOK, PlacesInductive, PTL

(***************************************************************************)
(* A finished execution is written again only after a lost answer.         *)
(***************************************************************************)
THEOREM DispatchTerminalStable == Spec => TerminalStable
<1>1. TypeOK /\ OnePlace /\ [Next]_vars =>
          [\A r \in Requests \ unanswered :
               status[r] \in Terminal => status'[r] \in {status[r], "none"}]_vars
  BY PlaceStep DEF OnePlace, Kept
<1>2. QED
  BY <1>1, DispatchTypeOK, PlacesInductive, PTL DEF Spec, TerminalStable

(* A worker comes from ready to running by its MarkRunning alone. *)
LEMMA StartStep ==
    ASSUME TypeOK, Next, NEW v \in Workers, phase[v] = "ready", phase'[v] = "running"
    PROVE  HasRow(job[v])
<1> USE DEF workers, requests
<1>1. phase \in [Workers -> {"idle", "stopped"} \cup Holding]
  BY DEF TypeOK, WorkerTypeOK
<1>2. ASSUME NEW r \in Requests, StartExecution(r) \/ StartExecutionFault(r) PROVE phase' = phase
  BY <1>2 DEF StartExecution, StartExecutionFault, LookupKey, GetAgent, Conversation,
     CreateExecution, Enqueue, MarkUndispatched, CreateUnacknowledged, RequestStoreError,
     EnqueueRepeated, EnqueueFails, MarkUndispatchedError, Goto, Answer
<1>3. ASSUME NEW w \in Workers, Consume(w) \/ WorkerStoreError(w) PROVE HasRow(job[v])
  BY <1>1, <1>3 DEF Consume, Dequeue, TakeHead, LoadExecution, LoadAgent, KeepAgent, MarkRunning,
     Quit, Finish, Step, Loop, WorkerStoreError, Failing
<1>4. PopLost \/ CancelWorkers \/ CrashApi => phase' = phase
  BY DEF PopLost, CancelWorkers, CrashApi
<1>5. CrashWorkers \/ CrashProcess => phase'[v] = "idle"
  BY DEF CrashWorkers, CrashProcess, RestartWorkers
<1>6. ASSUME NEW a \in Agents, UpdateAgent(a) \/ DeleteAgent(a) PROVE phase' = phase
  BY <1>6 DEF UpdateAgent, DeleteAgent
<1>7. QED
  BY <1>2, <1>3, <1>4, <1>5, <1>6 DEF Next

(***************************************************************************)
(* An execution is started once, unless the answer to its push was lost:   *)
(* the job of one that has started or ended is with no other worker and in *)
(* no queue, so only a queued one can reach Execute (worker.go 45-68).     *)
(***************************************************************************)
THEOREM DispatchRunsOnce == Spec => RunsOnce
<1>1. TypeOK /\ OnePlace /\ [Next]_vars =>
          [\A w \in Workers : phase[w] = "ready" /\ phase'[w] = "running" =>
               status[job[w]] = "queued" \/ job[w] \in unanswered]_vars
  <2>1. SUFFICES ASSUME TypeOK, OnePlace, Next, NEW w \in Workers,
                        phase[w] = "ready", phase'[w] = "running", job[w] \notin unanswered
                 PROVE  status[job[w]] = "queued"
    OBVIOUS
  <2>2. job[w] \in Requests \ unanswered /\ job[w] \in Held
    BY <2>1 DEF TypeOK, WorkerTypeOK, Holding, Held
  <2>3. Placed(job[w])
    BY <2>1, <2>2 DEF OnePlace
  <2>4. status[job[w]] \notin {"none", "running"} \cup Terminal
    BY <2>1, <2>2, <2>3, StartStep DEF Placed, HasRow
  <2>5. QED
    BY <2>1, <2>2, <2>4 DEF TypeOK, StoreTypeOK, Statuses
<1>2. QED
  BY <1>1, DispatchTypeOK, PlacesInductive, PTL DEF Spec, RunsOnce
-----------------------------------------------------------------------------
(***************************************************************************)
(* What RefusalsExplained takes for granted: no call of StartExecution     *)
(* fails, and PostgreSQL is given ids in the form it stores.               *)
(***************************************************************************)
NoCallFails ==
    /\ ~StoreMayFail
    /\ QueueKind = "redis" => "push_failed" \notin Environment /\ "push_unacknowledged" \notin Environment

IdsAsStored == Adapter = "postgres" => UuidRequests = Requests /\ StoredForm = Requests

\* A new conversation is still there when its execution is stored, or its
\* agent is gone; and no handler comes to mark an execution undispatched.
Undisturbed(r) ==
    /\ stage[r] # "undispatched"
    /\ stage[r] = "create" /\ ConvOf[r] = None /\ r \notin convs => Deleted(r)

Explained(r) ==
    \/ Deleted(r)
    \/ ConvOf[r] # None /\ (ConvOf[r] \notin convs \/ AgentOf[ConvOf[r]] # AgentOf[r])
    \/ \E s \in Requests : SameKey(r, s) /\ HasRow(s)

(* A step refuses a request only for a reason the client can be told. *)
LEMMA RefusalStep ==
    ASSUME TypeOK, [Next]_vars, NoCallFails, IdsAsStored, NEW q \in Requests, Undisturbed(q)
    PROVE  Undisturbed(q)' /\ (stage[q] # "failed" /\ stage'[q] = "failed" => Explained(q))
<1> DEFINE Goal == Undisturbed(q)' /\ (stage[q] # "failed" /\ stage'[q] = "failed" => Explained(q))
<1> USE DEF Undisturbed, stores, jobs, requests, workers, At, Goto, Answer, Step, Loop,
            SetStatus, InsertRow, Deleted, ConvId
<1>1. /\ agents \in [Agents -> 0..MaxVersion] /\ convs \subseteq Requests
      /\ status \in [Requests -> Statuses] /\ stage \in [Requests -> InProgress \cup Answered]
      /\ AgentOf \in [Requests -> Agents] /\ ConvOf \in [Requests -> Requests \cup {None}]
      /\ MaxVersion \in Nat
  BY RequestAssumption, EnvironmentAssumption DEF TypeOK, StoreTypeOK, RequestTypeOK
<1>2. ASSUME NEW r \in Requests, StartExecution(r) PROVE Goal
  <2>1. CASE LookupKey(r)
    BY <1>1, <2>1 DEF LookupKey
  <2>2. CASE GetAgent(r)
    BY <1>1, <2>2 DEF GetAgent, Explained
  <2>3. CASE Conversation(r)
    <3>1. CASE ConversationAccepted(r) /\ convs' = convs \cup {ConvId(r)} /\ stage' = [stage EXCEPT ![r] = "create"]
      BY <1>1, <2>3, <3>1 DEF Conversation
    <3>2. CASE ~ConversationAccepted(r) /\ stage' = [stage EXCEPT ![r] = "failed"] /\ UNCHANGED convs
      <4>1. Explained(r)
        BY <1>1, <3>2, AdapterAssumption DEF ConversationAccepted, SameAgentId, IdsAsStored, Explained
      <4>2. QED
        BY <1>1, <2>3, <3>2, <4>1 DEF Conversation
    <3>3. QED
      BY <2>3, <3>1, <3>2 DEF Conversation
  <2>4. CASE CreateExecution(r)
    <3>1. CASE InsertAccepted(r) /\ stage' = [stage EXCEPT ![r] = "enqueue"] /\ UNCHANGED <<agents, convs>>
      BY <1>1, <2>4, <3>1 DEF CreateExecution
    <3>2. CASE ~InsertAccepted(r) /\ stage' = [stage EXCEPT ![r] = "failed"] /\ UNCHANGED stores
      <4>1. r = q => Explained(r)
        BY <1>1, <2>4, <3>2 DEF CreateExecution, InsertAccepted, RequestIdValid, IdsAsStored, Explained
      <4>2. QED
        BY <1>1, <2>4, <3>2, <4>1 DEF CreateExecution
    <3>3. QED
      BY <2>4, <3>1, <3>2 DEF CreateExecution
  <2>5. CASE Enqueue(r)
    BY <1>1, <2>5 DEF Enqueue
  <2>6. CASE MarkUndispatched(r)
    BY <1>1, <2>6 DEF MarkUndispatched
  <2>7. QED
    BY <1>2, <2>1, <2>2, <2>3, <2>4, <2>5, <2>6 DEF StartExecution
<1>3. ASSUME NEW r \in Requests, StartExecutionFault(r) PROVE Goal
  <2>1. CASE EnqueueRepeated(r)
    BY <1>1, <2>1 DEF EnqueueRepeated
  <2>2. QED
    BY <1>3, <2>1 DEF StartExecutionFault, CreateUnacknowledged, RequestStoreError, EnqueueFails,
       RedisPush, MarkUndispatchedError, NoCallFails
<1>4. ASSUME NEW w \in Workers, Consume(w) \/ WorkerStoreError(w) PROVE Goal
  BY <1>4 DEF Consume, Dequeue, TakeHead, LoadExecution, LoadAgent, KeepAgent, MarkRunning, Quit,
     Finish, WorkerStoreError, Failing, LostWrite
<1>5. CASE PopLost \/ CancelWorkers \/ CrashWorkers
  BY <1>5 DEF PopLost, CancelWorkers, CrashWorkers
<1>6. CASE CrashApi \/ CrashProcess
  BY <1>1, <1>6 DEF CrashApi, CrashProcess, RestartApi, InProgress
<1>7. ASSUME NEW a \in Agents, UpdateAgent(a) PROVE Goal
  BY <1>1, <1>7 DEF UpdateAgent
<1>8. ASSUME NEW a \in Agents, DeleteAgent(a) PROVE Goal
  BY <1>1, <1>8 DEF DeleteAgent
<1>9. CASE UNCHANGED vars
  BY <1>9 DEF vars
<1>10. QED
  BY <1>2, <1>3, <1>4, <1>5, <1>6, <1>7, <1>8, <1>9 DEF Next

(***************************************************************************)
(* While no call fails, StartExecution refuses a request only because its  *)
(* agent is gone, it names a conversation that is missing or another       *)
(* agent's, or its key was taken.                                          *)
(***************************************************************************)
THEOREM DispatchRefusalsExplained ==
    ASSUME NoCallFails, IdsAsStored
    PROVE  Spec => RefusalsExplained
<1> DEFINE Calm == \A r \in Requests : Undisturbed(r)
<1>1. Init => Calm
  BY DEF Init, Undisturbed
<1>2. TypeOK /\ Calm /\ [Next]_vars => Calm'
  BY RefusalStep
<1>3. TypeOK /\ Calm /\ [Next]_vars =>
          [\A r \in Requests : stage[r] # "failed" /\ stage'[r] = "failed" =>
               \/ Deleted(r)
               \/ ConvOf[r] # None /\ (ConvOf[r] \notin convs \/ AgentOf[ConvOf[r]] # AgentOf[r])
               \/ \E s \in Requests : SameKey(r, s) /\ HasRow(s)]_vars
  BY RefusalStep DEF Explained
<1> HIDE DEF Calm
<1>4. QED
  BY <1>1, <1>2, <1>3, DispatchTypeOK, PTL DEF Spec, RefusalsExplained
=============================================================================
