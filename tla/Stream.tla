------------------------------- MODULE Stream -------------------------------
(***************************************************************************)
(* Live events of one execution: the goroutines of Engine.Execute publish  *)
(* them, a broker hands them to its subscribers and API.streamExecution    *)
(* writes them to WebSocket clients.  realtime.Broker lives in the process *)
(* and gives each subscriber a buffer; realtime.RedisBroker publishes to a *)
(* Redis channel, from which a goroutine per subscriber fills the buffer.  *)
(*                                                                         *)
(* An event is <<goroutine, number>>.  A hijacked connection's request     *)
(* context is never done, so streamExecution ends only when a write fails  *)
(* or its channel is closed.                                               *)
(***************************************************************************)
EXTENDS Naturals, Sequences

CONSTANTS
    Brokers,      \* brokers an instance includes, of {"local", "redis"}
    Streams,      \* WebSocket requests
    StoredForm,   \* streams whose path spells the execution id as the store does
    RedisStreams, \* bound: those that connect when the broker is Redis, where
                  \* subscriptions share no state
    Readers,      \* streams whose client keeps reading; for fairness only
    Main, Tools,  \* the run's main goroutine and its tool goroutines
    Count,        \* how many events each of them publishes
    BufferSize,   \* capacity of a subscriber's channel (32)
    InboxSize     \* capacity of go-redis's channel per subscription (100)

Goroutines == {Main} \cup Tools

ASSUME BrokersAssumption == Brokers \subseteq {"local", "redis"}
ASSUME StreamsAssumption == 
    StoredForm \subseteq Streams /\ RedisStreams \subseteq Streams /\ Readers \subseteq Streams
ASSUME CountAssumption ==
    Main \notin Tools /\ Count \in [Goroutines -> Nat] /\ Count[Main] >= 2
ASSUME SizeAssumption == BufferSize \in Nat /\ InboxSize \in Nat

VARIABLES
    broker,       \* what main.buildEventStream built
    brokerOpen,   \* the Redis client is not closed
    published,    \* number of events each goroutine has published
    publishing,   \* goroutines inside Broker.Publish, holding the read lock
    sending,      \* the subscribers each of these has yet to offer its event
    subscribers,  \* Broker.subscribers: sets of streams by execution id
    stage,        \* where each streamExecution stands
    linked,       \* Redis delivers to this subscription
    inbox,        \* messages go-redis received for it
    buffer,       \* the channel Subscribe returned
    ended,        \* that channel is closed by the Redis goroutine
    held,         \* the event being written, or << >>
    received,     \* what the client of an open stream got
    gone,         \* the client has left
    since,        \* history: published when the subscription took effect
    disturbed     \* history: streams an event was lost for, or given twice

run      == <<broker, brokerOpen, published, publishing>>
channels == <<linked, inbox, buffer, ended>>
client   == <<held, received, gone>>
history  == <<since, disturbed>>
vars == <<broker, brokerOpen, published, publishing, sending, subscribers, stage, linked, inbox,
          buffer, ended, held, received, gone, since, disturbed>>

Events  == Goroutines \X Nat
Final   == <<Main, Count[Main]>>
Open(h) == stage[h] \in {"open", "writing"}

\* The engine publishes under the id the store gave it; a stream subscribes
\* under the id in its path, which StartExecution answered without hyphens.
Topics   == {"stored", "returned"}
Topic(h) == IF h \in StoredForm THEN "stored" ELSE "returned"
Listening(t) == IF t \in DOMAIN subscribers THEN subscribers[t] ELSE {}

Init ==
    /\ broker \in Brokers /\ brokerOpen = TRUE
    /\ published   = [g \in Goroutines |-> 0]
    /\ publishing  = {}
    /\ sending     = [g \in Goroutines |-> {}]
    /\ subscribers = [t \in {} |-> {}]
    /\ stage       = [h \in Streams |-> "request"]
    /\ linked      = [h \in Streams |-> FALSE]
    /\ inbox       = [h \in Streams |-> << >>]
    /\ buffer      = [h \in Streams |-> << >>]
    /\ ended       = [h \in Streams |-> FALSE]
    /\ held        = [h \in Streams |-> << >>]
    /\ received    = [h \in Streams |-> << >>]
    /\ gone        = [h \in Streams |-> FALSE]
    /\ since       = [h \in Streams |-> published]
    /\ disturbed   = {}

-----------------------------------------------------------------------------
(***************************************************************************)
(* The order in which one run publishes: tools start after its first event *)
(* and are joined before its last.                                         *)
(***************************************************************************)
MayPublish(g) ==
    /\ g \notin publishing /\ published[g] < Count[g]
    /\ g \in Tools => published[Main] >= 1
    /\ g = Main /\ published[Main] + 1 = Count[Main] =>
           \A t \in Tools : published[t] = Count[t]

Event(g)   == <<g, published[g] + 1>>
Publish(g) == published' = [published EXCEPT ![g] = @ + 1]

(* Broker.Publish: the read lock, one non-blocking send per subscriber. *)
PublishLock(g) ==
    /\ broker = "local" /\ MayPublish(g)
    /\ publishing' = publishing \cup {g}
    /\ sending' = [sending EXCEPT ![g] = Listening("stored")]
    /\ UNCHANGED <<broker, brokerOpen, published, subscribers, stage, channels, client, history>>

Offer(g, h) ==
    /\ h \in sending[g]
    /\ sending' = [sending EXCEPT ![g] = @ \ {h}]
    /\ UNCHANGED <<run, subscribers, stage, linked, inbox, ended, client, since>>

\* Fault variant: a channel without a buffer, served only while its stream waits.
SendUnbuffered(g, h) ==
    /\ Offer(g, h)
    /\ buffer' = IF stage[h] = "open" /\ buffer[h] = << >> THEN [buffer EXCEPT ![h] = <<Event(g)>>]
                                                           ELSE buffer
    /\ UNCHANGED disturbed

\* Fault variant: the send waits for room.
SendBlocking(g, h) ==
    /\ Len(buffer[h]) < BufferSize
    /\ Offer(g, h)
    /\ buffer' = [buffer EXCEPT ![h] = Append(@, Event(g))]
    /\ UNCHANGED disturbed

Send(g, h) ==
    /\ Offer(g, h)
    /\ \/ /\ Len(buffer[h]) < BufferSize
          /\ buffer' = [buffer EXCEPT ![h] = Append(@, Event(g))]
          /\ UNCHANGED disturbed
       \/ /\ Len(buffer[h]) = BufferSize
          /\ disturbed' = disturbed \cup {h}
          /\ UNCHANGED buffer

PublishUnlock(g) ==
    /\ g \in publishing /\ sending[g] = {}
    /\ Publish(g)
    /\ publishing' = publishing \ {g}
    /\ UNCHANGED <<broker, brokerOpen, sending, subscribers, stage, channels, client, history>>

(***************************************************************************)
(* RedisBroker.Publish: Redis hands the message to the connections that    *)
(* are subscribed; go-redis drops one that finds the inbox full for too    *)
(* long.  Execute ignores an error, and the client repeats a command whose *)
(* answer it did not get.                                                  *)
(***************************************************************************)
Reached == {h \in Streams : linked[h] /\ Topic(h) = "stored"}
Room(h)    == InboxSize - Len(inbox[h])

RedisPublish(g) ==
    /\ broker = "redis" /\ MayPublish(g)
    /\ Publish(g)
    /\ UNCHANGED <<broker, brokerOpen, publishing, sending, subscribers, stage, linked, buffer,
                   ended, client, since>>

Deliver(messages) ==
    inbox' = [h \in Streams |->
                IF h \notin Reached THEN inbox[h]
                ELSE inbox[h] \o (IF Len(messages) <= Room(h) THEN messages
                                                             ELSE SubSeq(messages, 1, Room(h)))]

PublishOnce(g) ==
    /\ RedisPublish(g)
    /\ Deliver(<<Event(g)>>)
    /\ disturbed' = disturbed \cup {h \in Reached : Room(h) = 0}

\* go-redis repeats a PUBLISH whose answer it did not get, and both arrive,
\* one after the other; a first copy overtaken by later events is left out.
PublishRepeated(g) ==
    /\ RedisPublish(g) /\ brokerOpen
    /\ Deliver(<<Event(g), Event(g)>>)
    /\ disturbed' = disturbed \cup Reached

PublishFails(g) ==
    /\ RedisPublish(g)
    /\ disturbed' = disturbed \cup Reached
    /\ UNCHANGED inbox

PublishStep(g) ==
    PublishLock(g) \/ (\E h \in Streams : Send(g, h)) \/ PublishUnlock(g) \/ PublishOnce(g)

-----------------------------------------------------------------------------
(* streamExecution up to its loop. *)
Goto(h, s) == stage' = [stage EXCEPT ![h] = s]

\* GetExecution and the upgrade; either may fail, and neither subscribes yet.
Connect(h) ==
    /\ stage[h] = "request" /\ (broker = "redis" => h \in RedisStreams)
    /\ Goto(h, "subscribe") \/ Goto(h, "refused")
    /\ UNCHANGED <<run, sending, subscribers, channels, client, history>>

\* Fault variant: a subscription replaces the ones the execution has.
AddReplaces(h) ==
    subscribers' = [t \in DOMAIN subscribers \cup {Topic(h)} |->
                       IF t = Topic(h) THEN {h} ELSE subscribers[t]]

AddSubscriber(h) ==
    subscribers' = [t \in DOMAIN subscribers \cup {Topic(h)} |->
                       Listening(t) \cup (IF t = Topic(h) THEN {h} ELSE {})]

\* Broker.Subscribe takes the write lock, which waits for every Publish.
SubscribeLocal(h) ==
    /\ broker = "local" /\ stage[h] = "subscribe" /\ publishing = {}
    /\ AddSubscriber(h)
    /\ since' = [since EXCEPT ![h] = published]
    /\ Goto(h, "open")
    /\ UNCHANGED <<run, sending, channels, client, disturbed>>

\* RedisBroker.Subscribe does not wait for Redis to confirm.
SubscribeRedis(h) ==
    /\ broker = "redis" /\ stage[h] = "subscribe"
    /\ Goto(h, "open")
    /\ UNCHANGED <<run, sending, subscribers, channels, client, history>>

Link(h) ==
    /\ broker = "redis" /\ brokerOpen /\ Open(h) /\ ~linked[h]
    /\ linked' = [linked EXCEPT ![h] = TRUE]
    /\ since'  = IF h \in disturbed THEN since ELSE [since EXCEPT ![h] = published]
    /\ UNCHANGED <<run, sending, subscribers, stage, inbox, buffer, ended, client, disturbed>>

\* The subscription's connection is lost; go-redis will subscribe again.
Unlink(h) ==
    /\ linked[h]
    /\ linked' = [linked EXCEPT ![h] = FALSE]
    /\ disturbed' = disturbed \cup {h}
    /\ UNCHANGED <<run, sending, subscribers, stage, inbox, buffer, ended, client, since>>

(* The goroutine RedisBroker.Subscribe starts. *)
\* Fault variant: the newest message is passed on first.
PumpNewest(h) ==
    /\ inbox[h] # << >> /\ Len(buffer[h]) < BufferSize
    /\ inbox'  = [inbox EXCEPT ![h] = SubSeq(@, 1, Len(@) - 1)]
    /\ buffer' = [buffer EXCEPT ![h] = Append(@, inbox[h][Len(inbox[h])])]
    /\ UNCHANGED <<run, sending, subscribers, stage, linked, ended, client, history>>

Pump(h) ==
    /\ inbox[h] # << >> /\ Len(buffer[h]) < BufferSize
    /\ inbox'  = [inbox EXCEPT ![h] = Tail(@)]
    /\ buffer' = [buffer EXCEPT ![h] = Append(@, Head(inbox[h]))]
    /\ UNCHANGED <<run, sending, subscribers, stage, linked, ended, client, history>>

PumpEnds(h) ==
    /\ broker = "redis" /\ ~brokerOpen /\ Open(h) /\ inbox[h] = << >> /\ ~ended[h]
    /\ ended' = [ended EXCEPT ![h] = TRUE]
    /\ UNCHANGED <<run, sending, subscribers, stage, linked, inbox, buffer, client, history>>

-----------------------------------------------------------------------------
(* The loop of streamExecution. *)
Receive(h) ==
    /\ stage[h] = "open" /\ buffer[h] # << >>
    /\ held'   = [held EXCEPT ![h] = Head(buffer[h])]
    /\ buffer' = [buffer EXCEPT ![h] = Tail(@)]
    /\ Goto(h, "writing")
    /\ UNCHANGED <<run, sending, subscribers, linked, inbox, ended, received, gone, history>>

\* A write to a client that has left may still succeed, into the socket's buffer.
Write(h) ==
    /\ stage[h] = "writing"
    /\ received' = IF gone[h] THEN received ELSE [received EXCEPT ![h] = Append(@, held[h])]
    /\ held' = [held EXCEPT ![h] = << >>]
    /\ Goto(h, "open")
    /\ UNCHANGED <<run, sending, subscribers, channels, gone, history>>

Forget(h) ==
    /\ subscribers' = [t \in {u \in DOMAIN subscribers : subscribers[u] # {h}} |-> subscribers[t] \ {h}]
    /\ linked' = [linked EXCEPT ![h] = FALSE]
    /\ inbox'  = [inbox EXCEPT ![h] = << >>]
    /\ buffer' = [buffer EXCEPT ![h] = << >>]

\* Fault variant: unsubscribe closes the channel without taking the lock.
UnsubscribeUnlocked(h) == Forget(h)

\* Fault variant: unsubscribe leaves the entry of an execution nobody listens to.
UnsubscribeKeepsEntry(h) ==
    /\ publishing = {}
    /\ subscribers' = [t \in DOMAIN subscribers |-> subscribers[t] \ {h}]
    /\ linked' = [linked EXCEPT ![h] = FALSE]
    /\ inbox'  = [inbox EXCEPT ![h] = << >>]
    /\ buffer' = [buffer EXCEPT ![h] = << >>]

(* unsubscribe, deferred by streamExecution: under the write lock, or Close. *)
Unsubscribe(h) == publishing = {} /\ Forget(h)

Return(h) ==
    /\ Unsubscribe(h) /\ Goto(h, "closed")
    /\ held'     = [held EXCEPT ![h] = << >>]
    /\ received' = [received EXCEPT ![h] = << >>]
    /\ since'    = [since EXCEPT ![h] = [g \in Goroutines |-> 0]]
    /\ UNCHANGED <<run, sending, ended, gone, disturbed>>

WriteFails(h) == stage[h] = "writing" /\ gone[h] /\ Return(h)

ChannelClosed(h) == stage[h] = "open" /\ ended[h] /\ buffer[h] = << >> /\ Return(h)

Leave(h) ==
    /\ Open(h) /\ ~gone[h]
    /\ gone' = [gone EXCEPT ![h] = TRUE]
    /\ UNCHANGED <<run, sending, subscribers, stage, channels, held, received, history>>

\* main's deferred closeBroker: every subscription ends.
CloseBroker ==
    /\ broker = "redis" /\ brokerOpen
    /\ brokerOpen' = FALSE
    /\ linked' = [h \in Streams |-> FALSE]
    /\ disturbed' = disturbed \cup {h \in Streams : Open(h)}
    /\ UNCHANGED <<broker, published, publishing, sending, subscribers, stage, inbox, buffer,
                   ended, client, since>>

StreamStep(h) ==
    \/ Connect(h) \/ SubscribeLocal(h) \/ SubscribeRedis(h)
    \/ Receive(h) \/ WriteFails(h) \/ ChannelClosed(h)

Next ==
    \/ \E g \in Goroutines : PublishStep(g) \/ PublishRepeated(g) \/ PublishFails(g)
    \/ \E h \in Streams :
           \/ StreamStep(h) \/ Write(h) \/ Leave(h)
           \/ Link(h) \/ Unlink(h) \/ Pump(h) \/ PumpEnds(h)
    \/ CloseBroker

Spec == Init /\ [][Next]_vars

\* The Go runtime runs the publishers, the handlers and the Redis goroutines;
\* a write ends only if the client reads.
FairSpec ==
    /\ Spec
    /\ \A g \in Goroutines : WF_vars(PublishStep(g))
    /\ \A h \in Streams : WF_vars(StreamStep(h)) /\ WF_vars(Pump(h)) /\ WF_vars(PumpEnds(h))
    /\ \A h \in Readers : WF_vars(Write(h))

-----------------------------------------------------------------------------
(* Type invariant. *)
TypeOK ==
    /\ broker \in {"local", "redis"} /\ brokerOpen \in BOOLEAN
    /\ published \in [Goroutines -> Nat]
    /\ publishing \subseteq Goroutines
    /\ sending \in [Goroutines -> SUBSET Streams]
    /\ DOMAIN subscribers \subseteq Topics
    /\ \A t \in DOMAIN subscribers : subscribers[t] \subseteq Streams
    /\ stage \in [Streams -> {"request", "refused", "subscribe", "open", "writing", "closed"}]
    /\ linked \in [Streams -> BOOLEAN] /\ ended \in [Streams -> BOOLEAN] /\ gone \in [Streams -> BOOLEAN]
    /\ inbox \in [Streams -> Seq(Events)] /\ buffer \in [Streams -> Seq(Events)]
    /\ received \in [Streams -> Seq(Events)]
    /\ held \in [Streams -> Events \cup {<< >>}]
    /\ since \in [Streams -> [Goroutines -> Nat]]
    /\ disturbed \subseteq Streams

(***************************************************************************)
(* Publish never sends on a closed channel, which would panic and end the  *)
(* process: a stream that a Publish under way will still serve has not     *)
(* unsubscribed (broker.go 24-34 and 45-55 under one RWMutex).             *)
(***************************************************************************)
NoSendOnClosed == \A g \in Goroutines : \A h \in sending[g] : Open(h)

(***************************************************************************)
(* The broker remembers exactly the streams that are open, each under its  *)
(* own id, and keeps no entry for an execution nobody listens to, however  *)
(* subscriptions and departures interleave (broker.go 36-57).              *)
(***************************************************************************)
SubscribersExact ==
    broker = "local" =>
        /\ \A t \in DOMAIN subscribers : subscribers[t] # {}
        /\ \A t \in Topics : Listening(t) = {h \in Streams : Open(h) /\ Topic(h) = t}

\* What a stream got, is being given or has waiting, oldest first.
Flow(h) ==
    received[h] \o (IF held[h] = << >> THEN << >> ELSE <<held[h]>>) \o buffer[h] \o inbox[h]

Numbers(f, g) == {f[i][2] : i \in {k \in 1..Len(f) : f[k][1] = g}}

(***************************************************************************)
(* Whatever is dropped or repeated, a client never sees events of one      *)
(* goroutine in the wrong order: it cannot see a run completed before it   *)
(* started (broker.go 27-32, redis.go 40-63, server.go 196-208). The two   *)
(* copies of a repeated PUBLISH are taken to arrive one after the other; a *)
(* first copy held up on its old connection until later events have passed *)
(* is not modelled.                                                        *)
(***************************************************************************)
InOrder ==
    \A h \in Streams : \A i, j \in 1..Len(Flow(h)) :
        i < j /\ Flow(h)[i][1] = Flow(h)[j][1] => Flow(h)[i][2] <= Flow(h)[j][2]

(***************************************************************************)
(* docs/openapi.yaml line 123: the stream "Emits agent.started,            *)
(* agent.thinking, tool.started, tool.completed, agent.completed, and      *)
(* agent.failed events". A stream that is open and was not disturbed (no   *)
(* full buffer, no lost connection, no repeated or failed PUBLISH) has     *)
(* every event published since it subscribed, once each and in order. It   *)
(* holds where the path spells the id as the store does (StoredForm): with *)
(* PostgreSQL nothing is published under the 32 digits the API answers     *)
(* with, so a stream opened with those (README.md line 75) hears nothing.  *)
(***************************************************************************)
Subscribed(h) == Open(h) /\ (broker = "redis" => linked[h])

Offered(g, h) == IF g \in publishing /\ h \notin sending[g] THEN published[g] + 1 ELSE published[g]

GapFree ==
    \A h \in Streams \ disturbed : Subscribed(h) /\ ~gone[h] =>
        /\ \A i, j \in 1..Len(Flow(h)) :
               i < j /\ Flow(h)[i][1] = Flow(h)[j][1] => Flow(h)[i][2] < Flow(h)[j][2]
        /\ \A g \in Goroutines : Numbers(Flow(h), g) = since[h][g] + 1 .. Offered(g, h)

(***************************************************************************)
(* Publishing never waits for a client: a run gets through its events      *)
(* although clients stop reading or leave (the select with a default,      *)
(* broker.go 28-31; the PUBLISH, redis.go 21-27).                          *)
(***************************************************************************)
PublishersNeverWait == <>(published[Main] = Count[Main])

(***************************************************************************)
(* A client that keeps reading and subscribed before the run's last event, *)
(* under the id as the store spells it (StoredForm), gets that event,      *)
(* unless its stream is disturbed or it leaves (server.go 194-209).        *)
(***************************************************************************)
EndIsSeen ==
    \A h \in Readers :
        Subscribed(h) /\ published[Main] < Count[Main] ~>
            \/ \E i \in 1..Len(received[h]) : received[h][i] = Final
            \/ h \in disturbed \/ gone[h]
=============================================================================
