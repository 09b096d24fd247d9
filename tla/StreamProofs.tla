---------------------------- MODULE StreamProofs ----------------------------
(***************************************************************************)
(* Proofs about the live events of an execution, for every set of streams, *)
(* every number of tool goroutines and events, and every buffer size.      *)
(***************************************************************************)
EXTENDS Stream, SequenceTheorems, TLAPS

LEMMA EventType == ASSUME TypeOK, NEW g \in Goroutines PROVE Event(g) \in Events
BY DEF TypeOK, Event, Events

LEMMA EventNotEmpty == \A e \in Events : e # << >>
<1>1. TAKE e \in Events
<1>2. e = <<e[1], e[2]>>
  BY DEF Events
<1>3. Len(<<e[1], e[2]>>) = 2 /\ Len(<< >>) = 0
  OBVIOUS
<1>4. QED
  BY <1>2, <1>3

\* A stream holds an event exactly while it writes.
Writing == \A h \in Streams : stage[h] = "writing" <=> held[h] # << >>

(* The messages of a PUBLISH end up in inboxes of events. *)
LEMMA DeliverType ==
    ASSUME TypeOK, NEW messages \in Seq(Events), Deliver(messages)
    PROVE  inbox' \in [Streams -> Seq(Events)]
<1>1. ASSUME NEW h \in Streams PROVE inbox'[h] \in Seq(Events)
  <2>1. inbox[h] \in Seq(Events) /\ Len(inbox[h]) \in Nat /\ Len(messages) \in Nat
    BY LenProperties DEF TypeOK
  <2>2. CASE h \notin Reached
    BY <2>1, <2>2 DEF Deliver
  <2>3. CASE h \in Reached /\ Len(messages) <= Room(h)
    BY <2>1, <2>3, ConcatProperties DEF Deliver
  <2>4. CASE h \in Reached /\ ~(Len(messages) <= Room(h))
    <3>1. Room(h) \in Int /\ Room(h) < Len(messages)
      BY <2>1, <2>4, SizeAssumption DEF Room
    <3>2. \A i \in 1..Room(h) : messages[i] \in Events
      BY <2>1, <3>1, ElementOfSeq
    <3>3. SubSeq(messages, 1, Room(h)) \in Seq(Events)
      BY <3>1, <3>2, SubSeqProperties
    <3>4. inbox'[h] = inbox[h] \o SubSeq(messages, 1, Room(h))
      BY <2>4 DEF Deliver
    <3>5. QED
      BY <2>1, <3>3, <3>4, ConcatProperties
  <2>5. QED
    BY <2>2, <2>3, <2>4
<1>2. QED
  BY <1>1 DEF Deliver

LEMMA TypeStep == TypeOK /\ Writing /\ [Next]_vars => TypeOK'
<1> SUFFICES ASSUME TypeOK, Writing, [Next]_vars PROVE TypeOK'
  OBVIOUS
<1> USE DEF run, channels, client, history, Goto
<1>1. ASSUME NEW g \in Goroutines, PublishLock(g) PROVE TypeOK'
  <2>1. Listening("stored") \subseteq Streams
    BY DEF Listening, TypeOK
  <2>2. QED
    BY <1>1, <2>1 DEF PublishLock, TypeOK
<1>2. ASSUME NEW g \in Goroutines, NEW h \in Streams, Send(g, h) PROVE TypeOK'
  <2>1. Append(buffer[h], Event(g)) \in Seq(Events)
    BY EventType, AppendProperties DEF TypeOK
  <2>2. buffer' \in [Streams -> Seq(Events)] /\ disturbed' \subseteq Streams
    BY <1>2, <2>1 DEF Send, TypeOK
  <2>3. QED
    BY <1>2, <2>2 DEF Send, Offer, TypeOK
<1>3. ASSUME NEW g \in Goroutines, PublishUnlock(g) PROVE TypeOK'
  BY <1>3 DEF PublishUnlock, Publish, TypeOK
<1>4. ASSUME NEW g \in Goroutines, RedisPublish(g),
             inbox' \in [Streams -> Seq(Events)], disturbed' \subseteq Streams
      PROVE  TypeOK'
  BY <1>4 DEF RedisPublish, Publish, TypeOK
<1>5. ASSUME NEW g \in Goroutines, PublishOnce(g) \/ PublishRepeated(g) \/ PublishFails(g) PROVE TypeOK'
  <2>1. <<Event(g)>> \in Seq(Events) /\ <<Event(g), Event(g)>> \in Seq(Events)
    BY EventType
  <2>2. inbox' \in [Streams -> Seq(Events)]
    BY <1>5, <2>1, DeliverType DEF PublishOnce, PublishRepeated, PublishFails, TypeOK
  <2>3. disturbed' \subseteq Streams /\ RedisPublish(g)
    BY <1>5 DEF PublishOnce, PublishRepeated, PublishFails, Reached, TypeOK
  <2>4. QED
    BY <1>4, <2>2, <2>3
<1>6. ASSUME NEW h \in Streams, Connect(h) PROVE TypeOK'
  BY <1>6 DEF Connect, TypeOK
<1>7. ASSUME NEW h \in Streams, SubscribeLocal(h) PROVE TypeOK'
  <2>1. Topic(h) \in Topics
    BY DEF Topic, Topics
  <2>2. DOMAIN subscribers' \subseteq Topics /\ \A t \in DOMAIN subscribers' : subscribers'[t] \subseteq Streams
    BY <1>7, <2>1 DEF SubscribeLocal, AddSubscriber, Listening, TypeOK
  <2>3. QED
    BY <1>7, <2>2 DEF SubscribeLocal, TypeOK
<1>8. ASSUME NEW h \in Streams, SubscribeRedis(h) \/ Link(h) \/ Unlink(h) \/ PumpEnds(h) \/ Leave(h)
      PROVE  TypeOK'
  <2>1. CASE SubscribeRedis(h)
    BY <2>1 DEF SubscribeRedis, TypeOK
  <2>2. CASE Link(h)
    BY <2>2 DEF Link, TypeOK
  <2>3. CASE Unlink(h)
    BY <2>3 DEF Unlink, TypeOK
  <2>4. CASE PumpEnds(h)
    BY <2>4 DEF PumpEnds, TypeOK
  <2>5. CASE Leave(h)
    BY <2>5 DEF Leave, TypeOK
  <2>6. QED
    BY <1>8, <2>1, <2>2, <2>3, <2>4, <2>5
<1>9. ASSUME NEW h \in Streams, Pump(h) PROVE TypeOK'
  <2>1. Head(inbox[h]) \in Events /\ Tail(inbox[h]) \in Seq(Events)
    BY <1>9, HeadTailProperties DEF Pump, TypeOK
  <2>2. Append(buffer[h], Head(inbox[h])) \in Seq(Events)
    BY <2>1, AppendProperties DEF TypeOK
  <2>3. QED
    BY <1>9, <2>1, <2>2 DEF Pump, TypeOK
<1>10. ASSUME NEW h \in Streams, Receive(h) PROVE TypeOK'
  <2>1. Head(buffer[h]) \in Events /\ Tail(buffer[h]) \in Seq(Events)
    BY <1>10, HeadTailProperties DEF Receive, TypeOK
  <2>2. QED
    BY <1>10, <2>1 DEF Receive, TypeOK
<1>11. ASSUME NEW h \in Streams, Write(h) PROVE TypeOK'
  <2>1. Append(received[h], held[h]) \in Seq(Events)
    BY <1>11, AppendProperties DEF Write, Writing, TypeOK
  <2>2. QED
    BY <1>11, <2>1 DEF Write, TypeOK
<1>12. ASSUME NEW h \in Streams, Return(h) PROVE TypeOK'
  BY <1>12, EmptySeq DEF Return, Unsubscribe, Forget, TypeOK
<1>13. CASE CloseBroker
  BY <1>13 DEF CloseBroker, TypeOK
<1>14. CASE UNCHANGED vars
  BY <1>14 DEF vars, TypeOK
<1>15. QED
  BY <1>1, <1>2, <1>3, <1>5, <1>6, <1>7, <1>8, <1>9, <1>10, <1>11, <1>12, <1>13, <1>14
     DEF Next, PublishStep, StreamStep, WriteFails, ChannelClosed

(* Only Receive, Write and Return take up or put down an event. *)
LEMMA WritingStep == TypeOK /\ Writing /\ [Next]_vars => Writing'
<1> SUFFICES ASSUME TypeOK, Writing, [Next]_vars PROVE Writing'
  OBVIOUS
<1> USE DEF run, channels, client, history, Goto
<1>1. CASE UNCHANGED <<stage, held>>
  BY <1>1 DEF Writing
<1>2. ASSUME NEW g \in Goroutines, PublishStep(g) \/ PublishRepeated(g) \/ PublishFails(g) PROVE Writing'
  BY <1>1, <1>2 DEF PublishStep, PublishLock, Send, Offer, PublishUnlock, PublishOnce, PublishRepeated,
     PublishFails, RedisPublish
<1>3. ASSUME NEW h \in Streams, Connect(h) \/ SubscribeLocal(h) \/ SubscribeRedis(h) PROVE Writing'
  BY <1>3 DEF Connect, SubscribeLocal, SubscribeRedis, Writing, TypeOK
<1>4. ASSUME NEW h \in Streams, Receive(h) PROVE Writing'
  <2>1. Head(buffer[h]) # << >>
    BY <1>4, HeadTailProperties, EventNotEmpty DEF Receive, TypeOK
  <2>2. QED
    BY <1>4, <2>1 DEF Receive, Writing, TypeOK
<1>5. ASSUME NEW h \in Streams, Write(h) PROVE Writing'
  BY <1>5 DEF Write, Writing, TypeOK
<1>6. ASSUME NEW h \in Streams, Return(h) PROVE Writing'
  BY <1>6 DEF Return, Writing, TypeOK
<1>7. ASSUME NEW h \in Streams, Link(h) \/ Unlink(h) \/ Pump(h) \/ PumpEnds(h) \/ Leave(h) PROVE Writing'
  BY <1>1, <1>7 DEF Link, Unlink, Pump, PumpEnds, Leave
<1>8. CASE CloseBroker \/ UNCHANGED vars
  BY <1>1, <1>8 DEF CloseBroker, vars
<1>9. QED
  BY <1>2, <1>3, <1>4, <1>5, <1>6, <1>7, <1>8 DEF Next, StreamStep, WriteFails, ChannelClosed

(***************************************************************************)
(* The state of the brokers and the streams stays in its types (broker.go, *)
(* redis.go, server.go 181-210).                                           *)
(***************************************************************************)
LEMMA WritingInductive == Spec => [](TypeOK /\ Writing)
<1>1. Init => TypeOK /\ Writing
  <2> SUFFICES ASSUME Init PROVE TypeOK /\ Writing
    OBVIOUS
  <2>1. broker \in {"local", "redis"}
    BY BrokersAssumption DEF Init
  <2>2. brokerOpen \in BOOLEAN /\ linked \in [Streams -> BOOLEAN] /\ ended \in [Streams -> BOOLEAN]
        /\ gone \in [Streams -> BOOLEAN]
    BY DEF Init
  <2>3. published \in [Goroutines -> Nat]
    BY DEF Init
  <2>4. QED
    BY <2>1, <2>2, <2>3, EmptySeq DEF Init, TypeOK, Writing
<1>2. QED
  BY <1>1, TypeStep, WritingStep, PTL DEF Spec

THEOREM StreamTypeOK == Spec => []TypeOK
BY WritingInductive, PTL

-----------------------------------------------------------------------------
(***************************************************************************)
(* The lock of the in-process broker: only a goroutine inside Publish has  *)
(* subscribers to serve, all of them open, and the map is exact.           *)
(***************************************************************************)
Locked ==
    /\ \A g \in Goroutines : g \notin publishing => sending[g] = {}
    /\ broker = "redis" => publishing = {}
    /\ NoSendOnClosed
    /\ SubscribersExact

(* Nothing of this changes while the map, the lock and the open streams stay. *)
LEMMA LockedKept ==
    ASSUME TypeOK, Locked, UNCHANGED <<broker, publishing, sending, subscribers>>,
           \A h \in Streams : Open(h)' = Open(h)
    PROVE  Locked'
<1>1. \A t : Listening(t)' = Listening(t)
  BY DEF Listening
<1>2. NoSendOnClosed'
  BY DEF Locked, NoSendOnClosed, TypeOK
<1>3. SubscribersExact'
  BY <1>1 DEF Locked, SubscribersExact
<1>4. QED
  BY <1>2, <1>3 DEF Locked

LEMMA LockedStep == TypeOK /\ Locked /\ [Next]_vars => Locked'
<1> SUFFICES ASSUME TypeOK, Locked, [Next]_vars PROVE Locked'
  OBVIOUS
<1> USE DEF run, channels, client, history, Goto
<1>1. ASSUME NEW g \in Goroutines, PublishLock(g) PROVE Locked'
  <2>1. /\ UNCHANGED <<broker, subscribers, stage>> /\ broker = "local"
        /\ publishing' = publishing \cup {g}
        /\ sending' = [sending EXCEPT ![g] = Listening("stored")]
    BY <1>1 DEF PublishLock
  <2>2. \A h \in Listening("stored") : h \in Streams /\ Open(h)
    BY <2>1 DEF Locked, SubscribersExact, Topics
  <2>3. NoSendOnClosed'
    BY <2>1, <2>2 DEF Locked, NoSendOnClosed, TypeOK, Open
  <2>4. SubscribersExact'
    BY <2>1 DEF Locked, SubscribersExact, Listening, Open
  <2>5. QED
    BY <2>1, <2>3, <2>4 DEF Locked, TypeOK
<1>2. ASSUME NEW g \in Goroutines, NEW h \in Streams, Send(g, h) PROVE Locked'
  <2>1. /\ UNCHANGED <<broker, subscribers, stage, publishing>>
        /\ sending' = [sending EXCEPT ![g] = @ \ {h}] /\ h \in sending[g]
    BY <1>2 DEF Send, Offer
  <2>2. NoSendOnClosed'
    BY <2>1 DEF Locked, NoSendOnClosed, TypeOK, Open
  <2>3. SubscribersExact'
    BY <2>1 DEF Locked, SubscribersExact, Listening, Open
  <2>4. QED
    BY <2>1, <2>2, <2>3 DEF Locked, TypeOK
<1>3. ASSUME NEW g \in Goroutines, PublishUnlock(g) PROVE Locked'
  <2>1. /\ UNCHANGED <<broker, subscribers, stage, sending>>
        /\ publishing' = publishing \ {g} /\ g \in publishing /\ sending[g] = {}
    BY <1>3 DEF PublishUnlock
  <2>2. NoSendOnClosed'
    BY <2>1 DEF Locked, NoSendOnClosed, TypeOK, Open
  <2>3. SubscribersExact'
    BY <2>1 DEF Locked, SubscribersExact, Listening, Open
  <2>4. QED
    BY <2>1, <2>2, <2>3 DEF Locked, TypeOK
<1>4. CASE UNCHANGED <<broker, publishing, sending, subscribers, stage>>
  BY <1>4, LockedKept DEF Open
<1>5. ASSUME NEW h \in Streams, Connect(h) \/ Receive(h) \/ Write(h) PROVE Locked'
  <2>1. \A k \in Streams : Open(k)' = Open(k)
    BY <1>5 DEF Connect, Receive, Write, Open, TypeOK
  <2>2. QED
    BY <1>5, <2>1, LockedKept DEF Connect, Receive, Write
<1>6. ASSUME NEW h \in Streams, SubscribeRedis(h) PROVE Locked'
  <2>1. /\ UNCHANGED <<broker, publishing, sending, subscribers>> /\ broker = "redis"
        /\ stage' = [stage EXCEPT ![h] = "open"]
    BY <1>6 DEF SubscribeRedis
  <2>2. NoSendOnClosed'
    BY <2>1 DEF Locked, NoSendOnClosed, Open, TypeOK
  <2>3. QED
    BY <2>1, <2>2 DEF Locked, SubscribersExact
<1>7. ASSUME NEW h \in Streams, SubscribeLocal(h) PROVE Locked'
  <2>1. /\ UNCHANGED <<broker, publishing, sending>> /\ publishing = {} /\ broker = "local"
        /\ stage[h] = "subscribe" /\ stage' = [stage EXCEPT ![h] = "open"] /\ AddSubscriber(h)
    BY <1>7 DEF SubscribeLocal
  <2>2. \A g \in Goroutines : sending'[g] = {}
    BY <2>1 DEF Locked
  <2>3. \A k \in Streams : Open(k)' <=> Open(k) \/ k = h
    BY <2>1 DEF Open, TypeOK
  <2>4. Topic(h) \in Topics
    BY DEF Topic, Topics
  <2>5. \A t \in Topics : Listening(t)' = Listening(t) \cup (IF t = Topic(h) THEN {h} ELSE {})
    BY <2>1, <2>4 DEF AddSubscriber, Listening, TypeOK
  <2>6. \A t \in DOMAIN subscribers' : subscribers'[t] # {}
    BY <2>1 DEF AddSubscriber, Listening, Locked, SubscribersExact
  <2>7. ASSUME NEW t \in Topics PROVE Listening(t)' = {k \in Streams : Open(k)' /\ Topic(k) = t}
    <3>1. Listening(t) = {k \in Streams : Open(k) /\ Topic(k) = t}
      BY <2>1 DEF Locked, SubscribersExact
    <3>2. QED
      BY <2>3, <2>5, <3>1
  <2>8. SubscribersExact'
    BY <2>6, <2>7 DEF SubscribersExact
  <2>9. QED
    BY <2>1, <2>2, <2>8 DEF Locked, NoSendOnClosed
<1>8. ASSUME NEW h \in Streams, Return(h), Open(h) PROVE Locked'
  <2>1. /\ UNCHANGED <<broker, publishing, sending>> /\ publishing = {}
        /\ stage' = [stage EXCEPT ![h] = "closed"] /\ Forget(h)
    BY <1>8 DEF Return, Unsubscribe
  <2>2. \A g \in Goroutines : sending'[g] = {}
    BY <2>1 DEF Locked
  <2>3. \A k \in Streams : Open(k)' <=> Open(k) /\ k # h
    BY <2>1 DEF Open, TypeOK
  <2>4. \A t \in Topics : Listening(t)' = Listening(t) \ {h}
    BY <2>1 DEF Forget, Listening
  <2>5. (\A t \in DOMAIN subscribers : subscribers[t] # {}) => \A t \in DOMAIN subscribers' : subscribers'[t] # {}
    BY <2>1 DEF Forget
  <2>6. ASSUME NEW t \in Topics, broker = "local"
        PROVE  Listening(t)' = {k \in Streams : Open(k)' /\ Topic(k) = t}
    <3>1. Listening(t) = {k \in Streams : Open(k) /\ Topic(k) = t}
      BY <2>6 DEF Locked, SubscribersExact
    <3>2. QED
      BY <2>3, <2>4, <3>1
  <2>7. SubscribersExact'
    BY <2>1, <2>5, <2>6 DEF SubscribersExact, Locked
  <2>8. QED
    BY <2>1, <2>2, <2>7 DEF Locked, NoSendOnClosed
<1>9. QED
  BY <1>1, <1>2, <1>3, <1>4, <1>5, <1>6, <1>7, <1>8
     DEF Next, PublishStep, PublishOnce, PublishRepeated, PublishFails, RedisPublish, StreamStep,
         WriteFails, ChannelClosed, Open, Link, Unlink, Pump, PumpEnds, Leave, CloseBroker, vars

LEMMA LockedInductive == Spec => []Locked
<1>1. Init => Locked
  BY DEF Init, Locked, NoSendOnClosed, SubscribersExact, Listening, Open
<1>2. QED
  BY <1>1, LockedStep, StreamTypeOK, PTL DEF Spec

(* Publish never sends on a channel that its stream has closed. *)
THEOREM StreamNoSendOnClosed == Spec => []NoSendOnClosed
<1>1. Locked => NoSendOnClosed
  BY DEF Locked
<1>2. QED
  BY <1>1, LockedInductive, PTL

(* The broker's map holds exactly the open streams and no empty entry. *)
THEOREM StreamSubscribersExact == Spec => []SubscribersExact
<1>1. Locked => SubscribersExact
  BY DEF Locked
<1>2. QED
  BY <1>1, LockedInductive, PTL

-----------------------------------------------------------------------------
(* How the events of a stream move from its inbox to its client. *)

\* Three sequences put together from either side: the same.
FromLeft(s, t, u)  == (s \o t) \o u
FromRight(s, t, u) == s \o (t \o u)

LEMMA Associative == \A s, t, u \in Seq(Events) : FromLeft(s, t, u) = FromRight(s, t, u)
BY ConcatAssociative DEF FromLeft, FromRight

(* Moving the head of one sequence to the end of the one before it. *)
LEMMA MoveHead ==
    ASSUME NEW S, NEW s \in Seq(S), NEW t \in Seq(S), t # << >>
    PROVE  Append(s, Head(t)) \o Tail(t) = s \o t
<1>1. Head(t) \in S /\ Tail(t) \in Seq(S) /\ Len(Tail(t)) = Len(t) - 1 /\ Len(t) \in Nat /\ Len(s) \in Nat
      /\ \A i \in 1..Len(Tail(t)) : Tail(t)[i] = t[i + 1]
  BY HeadTailProperties, LenProperties
<1>2. Head(t) = t[1] /\ Len(t) >= 1
  BY EmptySeq
<1> DEFINE a == Append(s, Head(t))
<1>3. a \in Seq(S) /\ Len(a) = Len(s) + 1 /\ (\A i \in 1..Len(s) : a[i] = s[i]) /\ a[Len(s) + 1] = t[1]
  BY <1>1, <1>2, AppendProperties
<1> HIDE DEF a
<1>4. /\ a \o Tail(t) \in Seq(S) /\ Len(a \o Tail(t)) = Len(a) + Len(Tail(t))
      /\ \A i \in 1..Len(a) + Len(Tail(t)) :
             (a \o Tail(t))[i] = IF i <= Len(a) THEN a[i] ELSE Tail(t)[i - Len(a)]
  BY <1>1, <1>3, ConcatProperties
<1>5. /\ s \o t \in Seq(S) /\ Len(s \o t) = Len(s) + Len(t)
      /\ \A i \in 1..Len(s) + Len(t) : (s \o t)[i] = IF i <= Len(s) THEN s[i] ELSE t[i - Len(s)]
  BY ConcatProperties
<1>6. Len(a \o Tail(t)) = Len(s \o t)
  BY <1>1, <1>3, <1>4, <1>5
<1>7. ASSUME NEW i \in 1..Len(s \o t) PROVE (a \o Tail(t))[i] = (s \o t)[i]
  <2>1. i \in 1..Len(s) + Len(t) /\ i \in 1..Len(a) + Len(Tail(t)) /\ i \in Nat
    BY <1>1, <1>3, <1>5
  <2>2. CASE i <= Len(s)
    BY <1>1, <1>3, <1>4, <1>5, <2>1, <2>2
  <2>3. CASE i = Len(s) + 1
    BY <1>1, <1>2, <1>3, <1>4, <1>5, <2>1, <2>3
  <2>4. CASE i > Len(s) + 1
    <3>1. i - Len(a) \in 1..Len(Tail(t)) /\ i - Len(a) + 1 = i - Len(s)
      BY <1>1, <1>3, <2>1, <2>4
    <3>2. (a \o Tail(t))[i] = Tail(t)[i - Len(a)] /\ (s \o t)[i] = t[i - Len(s)]
      BY <1>1, <1>3, <1>4, <1>5, <2>1, <2>4
    <3>3. QED
      BY <1>1, <3>1, <3>2
  <2>5. i <= Len(s) \/ i = Len(s) + 1 \/ i > Len(s) + 1
    BY <1>1, <2>1
  <2>6. QED
    BY <2>2, <2>3, <2>4, <2>5, Zenon
<1>8. a \o Tail(t) = s \o t
  BY <1>4, <1>5, <1>6, <1>7, SeqEqual
<1>9. QED
  BY <1>8 DEF a

\* The four parts of a stream's events, put together.
Joined(r, w, b, i) == r \o w \o b \o i
Written(h) == IF held[h] = << >> THEN << >> ELSE <<held[h]>>

LEMMA FlowParts ==
    ASSUME TypeOK, NEW h \in Streams
    PROVE  /\ Flow(h) = Joined(received[h], Written(h), buffer[h], inbox[h])
           /\ received[h] \in Seq(Events) /\ Written(h) \in Seq(Events)
           /\ buffer[h] \in Seq(Events) /\ inbox[h] \in Seq(Events) /\ Flow(h) \in Seq(Events)
<1>1. held[h] # << >> => held[h] \in Events
  BY DEF TypeOK
<1>2. Written(h) \in Seq(Events)
  BY <1>1, EmptySeq DEF Written
<1>3. received[h] \in Seq(Events) /\ buffer[h] \in Seq(Events) /\ inbox[h] \in Seq(Events)
  BY DEF TypeOK
<1>4. Flow(h) = Joined(received[h], Written(h), buffer[h], inbox[h])
  BY DEF Flow, Joined, Written
<1>5. QED
  BY <1>2, <1>3, <1>4, ConcatProperties DEF Joined

(* Handing the oldest event on, or writing it, keeps the whole. *)
LEMMA JoinedPump ==
    \A r, w, b, i \in Seq(Events) :
        i # << >> => Joined(r, w, Append(b, Head(i)), Tail(i)) = Joined(r, w, b, i)
<1> SUFFICES ASSUME NEW r \in Seq(Events), NEW w \in Seq(Events), NEW b \in Seq(Events), NEW i \in Seq(Events),
                    i # << >>
             PROVE  Joined(r, w, Append(b, Head(i)), Tail(i)) = Joined(r, w, b, i)
  OBVIOUS
<1>1. r \o w \in Seq(Events)
  BY ConcatProperties
<1>2. Head(i) \in Events /\ Tail(i) \in Seq(Events)
  BY HeadTailProperties
<1>3. Append(b, Head(i)) \in Seq(Events)
  BY <1>2, AppendProperties
<1>4. FromLeft(r \o w, Append(b, Head(i)), Tail(i)) = FromRight(r \o w, Append(b, Head(i)), Tail(i))
  BY <1>1, <1>2, <1>3, Associative
<1>5. FromLeft(r \o w, b, i) = FromRight(r \o w, b, i)
  BY <1>1, Associative
<1>6. Append(b, Head(i)) \o Tail(i) = b \o i
  BY MoveHead
<1>7. QED
  BY <1>4, <1>5, <1>6 DEF Joined, FromLeft, FromRight

LEMMA JoinedReceive ==
    \A r, b, i \in Seq(Events) : b # << >> => Joined(r, <<Head(b)>>, Tail(b), i) = Joined(r, << >>, b, i)
<1> SUFFICES ASSUME NEW r \in Seq(Events), NEW b \in Seq(Events), NEW i \in Seq(Events), b # << >>
             PROVE  Joined(r, <<Head(b)>>, Tail(b), i) = Joined(r, << >>, b, i)
  OBVIOUS
<1>1. Head(b) \in Events
  BY HeadTailProperties
<1>2. r \o <<Head(b)>> = Append(r, Head(b)) /\ r \o << >> = r
  BY <1>1, AppendIsConcat, ConcatEmptySeq
<1>3. Append(r, Head(b)) \o Tail(b) = r \o b
  BY MoveHead
<1>4. QED
  BY <1>2, <1>3 DEF Joined

LEMMA JoinedWrite ==
    \A r, b, i \in Seq(Events) : \A e \in Events : Joined(Append(r, e), << >>, b, i) = Joined(r, <<e>>, b, i)
<1> SUFFICES ASSUME NEW r \in Seq(Events), NEW b \in Seq(Events), NEW i \in Seq(Events), NEW e \in Events
             PROVE  Joined(Append(r, e), << >>, b, i) = Joined(r, <<e>>, b, i)
  OBVIOUS
<1>2. Append(r, e) = r \o <<e>> /\ Append(r, e) \in Seq(Events)
  BY AppendIsConcat, AppendProperties
<1>3. Append(r, e) \o << >> = Append(r, e)
  BY <1>2, ConcatEmptySeq
<1>4. QED
  BY <1>2, <1>3 DEF Joined

\* A message in the inbox, or the same message twice, comes after the others.
OneMore(r, w, b, i, e) == Joined(r, w, b, i \o <<e>>) = Append(Joined(r, w, b, i), e)
TwoMore(r, w, b, i, e) == Joined(r, w, b, i \o <<e, e>>) = Append(Append(Joined(r, w, b, i), e), e)

(* A new event comes after all the others. *)
LEMMA JoinedDeliver ==
    \A r, w, b, i \in Seq(Events) : \A e \in Events : OneMore(r, w, b, i, e) /\ TwoMore(r, w, b, i, e)
<1> SUFFICES ASSUME NEW r \in Seq(Events), NEW w \in Seq(Events), NEW b \in Seq(Events), NEW i \in Seq(Events),
                    NEW e \in Events
             PROVE  OneMore(r, w, b, i, e) /\ TwoMore(r, w, b, i, e)
  OBVIOUS
<1>2. r \o w \in Seq(Events)
  BY ConcatProperties
<1> DEFINE p == (r \o w) \o b
<1>3. p \in Seq(Events) /\ <<e>> \in Seq(Events) /\ <<e, e>> \in Seq(Events)
  BY <1>2, ConcatProperties
<1>4. p \o i \in Seq(Events)
  BY <1>3, ConcatProperties
<1>5. Append(p \o i, e) \in Seq(Events)
  BY <1>4, AppendProperties
<1>6. (p \o i) \o <<e>> = Append(p \o i, e) /\ Append(p \o i, e) \o <<e>> = Append(Append(p \o i, e), e)
  BY <1>4, <1>5, AppendIsConcat
<1>7. FromLeft(p, i, <<e>>) = FromRight(p, i, <<e>>) /\ FromLeft(p, i, <<e, e>>) = FromRight(p, i, <<e, e>>)
  BY <1>3, Associative
<1>8. FromLeft(p \o i, <<e>>, <<e>>) = FromRight(p \o i, <<e>>, <<e>>)
  BY <1>3, <1>4, Associative
<1>9. <<e, e>> = <<e>> \o <<e>>
  OBVIOUS
<1>10. QED
  BY <1>6, <1>7, <1>8, <1>9 DEF OneMore, TwoMore, Joined, FromLeft, FromRight

LEMMA JoinedSend ==
    \A r, w, b \in Seq(Events) : \A e \in Events :
        Joined(r, w, Append(b, e), << >>) = Append(Joined(r, w, b, << >>), e)
<1> SUFFICES ASSUME NEW r \in Seq(Events), NEW w \in Seq(Events), NEW b \in Seq(Events), NEW e \in Events
             PROVE  Joined(r, w, Append(b, e), << >>) = Append(Joined(r, w, b, << >>), e)
  OBVIOUS
<1>2. r \o w \in Seq(Events) /\ <<e>> \in Seq(Events)
  BY ConcatProperties
<1> DEFINE p == (r \o w) \o b
<1>3. p \in Seq(Events)
  BY <1>2, ConcatProperties
<1>4. p \o << >> = p /\ Append(b, e) = b \o <<e>>
  BY <1>3, ConcatEmptySeq, AppendIsConcat
<1>5. FromLeft(r \o w, b, <<e>>) = FromRight(r \o w, b, <<e>>)
  BY <1>2, Associative
<1>6. p \o <<e>> = Append(p, e) /\ Append(p, e) \in Seq(Events)
  BY <1>3, AppendIsConcat, AppendProperties
<1>7. Append(p, e) \o << >> = Append(p, e)
  BY <1>6, ConcatEmptySeq
<1>8. QED
  BY <1>4, <1>5, <1>6, <1>7 DEF Joined, FromLeft, FromRight

(* An event that is not delivered leaves the others as they were. *)
LEMMA JoinedThins ==
    ASSUME NEW r \in Seq(Events), NEW b \in Seq(Events), NEW i \in Seq(Events), NEW e \in Events
    PROVE  LET f == Joined(r, <<e>>, b, i)
               d == Joined(r, << >>, b, i)
           IN  \A n \in 1..Len(d) :
                   LET m == IF n <= Len(r) THEN n ELSE n + 1 IN m \in 1..Len(f) /\ d[n] = f[m]
<1> DEFINE c == b \o i
           a == Append(r, e)
<1>1. c \in Seq(Events) /\ Len(c) \in Nat /\ Len(r) \in Nat
  BY ConcatProperties, LenProperties
<1>2. a = r \o <<e>> /\ a \in Seq(Events) /\ Len(a) = Len(r) + 1 /\ \A n \in 1..Len(r) : a[n] = r[n]
  BY AppendIsConcat, AppendProperties
<1>3. Joined(r, <<e>>, b, i) = a \o c
  <2>1. FromLeft(a, b, i) = FromRight(a, b, i)
    BY <1>2, Associative
  <2>2. QED
    BY <1>2, <2>1 DEF Joined, FromLeft, FromRight
<1>4. Joined(r, << >>, b, i) = r \o c
  BY ConcatEmptySeq, ConcatAssociative DEF Joined
<1> HIDE DEF a, c
<1>5. /\ Len(a \o c) = Len(a) + Len(c)
      /\ \A n \in 1..Len(a) + Len(c) : (a \o c)[n] = IF n <= Len(a) THEN a[n] ELSE c[n - Len(a)]
  BY <1>1, <1>2, ConcatProperties
<1>6. /\ Len(r \o c) = Len(r) + Len(c)
      /\ \A n \in 1..Len(r) + Len(c) : (r \o c)[n] = IF n <= Len(r) THEN r[n] ELSE c[n - Len(r)]
  BY <1>1, ConcatProperties
<1>7. ASSUME NEW n \in 1..Len(r \o c)
      PROVE  LET m == IF n <= Len(r) THEN n ELSE n + 1 IN m \in 1..Len(a \o c) /\ (r \o c)[n] = (a \o c)[m]
  <2>1. CASE n <= Len(r)
    BY <1>1, <1>2, <1>5, <1>6, <2>1
  <2>2. CASE n > Len(r)
    <3>1. n + 1 \in 1..Len(a) + Len(c) /\ ~(n + 1 <= Len(a)) /\ n + 1 - Len(a) = n - Len(r)
      BY <1>1, <1>2, <1>6, <2>2
    <3>2. (a \o c)[n + 1] = c[n + 1 - Len(a)]
      BY <1>5, <3>1
    <3>3. (r \o c)[n] = c[n - Len(r)]
      BY <1>1, <1>6, <2>2
    <3>4. (r \o c)[n] = (a \o c)[n + 1]
      BY <3>1, <3>2, <3>3, Zenon
    <3>5. n + 1 \in 1..Len(a \o c) /\ ~(n <= Len(r))
      BY <1>1, <1>5, <2>2, <3>1
    <3>6. QED
      BY <3>4, <3>5
  <2>3. n <= Len(r) \/ n > Len(r)
    BY <1>1, <1>6
  <2>4. QED
    BY <2>1, <2>2, <2>3, Zenon
<1>8. QED
  BY <1>3, <1>4, <1>7

(***************************************************************************)
(* What each action does to the events of every stream.                    *)
(***************************************************************************)
LEMMA FlowKept ==
    ASSUME NEW h, received'[h] = received[h], held'[h] = held[h], buffer'[h] = buffer[h], inbox'[h] = inbox[h]
    PROVE  Flow(h)' = Flow(h)
BY DEF Flow

LEMMA FlowPump ==
    ASSUME TypeOK, NEW h \in Streams, Pump(h)
    PROVE  \A k \in Streams : Flow(k)' = Flow(k)
<1> USE DEF run, client
<1>1. TAKE k \in Streams
<1>2. CASE k # h
  BY <1>2, FlowKept DEF Pump, TypeOK
<1>3. CASE k = h
  <2>1. /\ received'[h] = received[h] /\ Written(h)' = Written(h)
        /\ buffer'[h] = Append(buffer[h], Head(inbox[h])) /\ inbox'[h] = Tail(inbox[h]) /\ inbox[h] # << >>
    BY DEF Pump, Written, TypeOK
  <2>2. Flow(h)' = Joined(received'[h], Written(h)', buffer'[h], inbox'[h])
    BY DEF Flow, Joined, Written
  <2>3. Joined(received[h], Written(h), Append(buffer[h], Head(inbox[h])), Tail(inbox[h])) = Flow(h)
    <3>1. received[h] \in Seq(Events) /\ Written(h) \in Seq(Events) /\ buffer[h] \in Seq(Events)
          /\ inbox[h] \in Seq(Events) /\ Flow(h) = Joined(received[h], Written(h), buffer[h], inbox[h])
      BY FlowParts
    <3>2. QED
      BY <2>1, <3>1, JoinedPump
  <2>4. QED
    BY <1>3, <2>1, <2>2, <2>3
<1>4. QED
  BY <1>2, <1>3

LEMMA FlowReceive ==
    ASSUME TypeOK, Writing, NEW h \in Streams, Receive(h)
    PROVE  \A k \in Streams : Flow(k)' = Flow(k)
<1> USE DEF run, history, Goto
<1>1. TAKE k \in Streams
<1>2. CASE k # h
  BY <1>2, FlowKept DEF Receive, TypeOK
<1>3. CASE k = h
  <2>1. Head(buffer[h]) # << >> /\ held[h] = << >>
    BY HeadTailProperties, EventNotEmpty DEF Receive, Writing, TypeOK
  <2>2. /\ received'[h] = received[h] /\ Written(h) = << >> /\ Written(h)' = <<Head(buffer[h])>>
        /\ buffer'[h] = Tail(buffer[h]) /\ inbox'[h] = inbox[h] /\ buffer[h] # << >>
    BY <2>1 DEF Receive, Written, TypeOK
  <2>3. Flow(h)' = Joined(received'[h], Written(h)', buffer'[h], inbox'[h])
    BY DEF Flow, Joined, Written
  <2>4. QED
    BY <1>3, <2>2, <2>3, FlowParts, JoinedReceive
<1>4. QED
  BY <1>2, <1>3

(* A write to a client that is there keeps the whole, one to a client that *)
(* has left loses the event.                                               *)
LEMMA FlowWrite ==
    ASSUME TypeOK, Writing, NEW h \in Streams, Write(h)
    PROVE  /\ \A k \in Streams : k # h \/ ~gone[h] => Flow(k)' = Flow(k)
           /\ Flow(h)' \in Seq(Events)
           /\ gone[h] => \A n \in 1..Len(Flow(h)') :
                  LET m == IF n <= Len(received[h]) THEN n ELSE n + 1
                  IN  m \in 1..Len(Flow(h)) /\ Flow(h)'[n] = Flow(h)[m]
<1> USE DEF run, history, channels, Goto
<1>1. held[h] \in Events /\ held[h] # << >>
  BY DEF Write, Writing, TypeOK
<1>2. Written(h) = <<held[h]>> /\ Written(h)' = << >>
  BY <1>1 DEF Write, Written, TypeOK
<1>3. /\ received'[h] = IF gone[h] THEN received[h] ELSE Append(received[h], held[h])
      /\ buffer'[h] = buffer[h] /\ inbox'[h] = inbox[h]
  BY DEF Write, TypeOK
<1>4. Flow(h)' = Joined(received'[h], Written(h)', buffer'[h], inbox'[h])
  BY DEF Flow, Joined, Written
<1>5. ASSUME NEW k \in Streams, k # h PROVE Flow(k)' = Flow(k)
  BY <1>5, FlowKept DEF Write, TypeOK
<1>6. ASSUME ~gone[h] PROVE Flow(h)' = Flow(h)
  <2>1. received[h] \in Seq(Events) /\ buffer[h] \in Seq(Events) /\ inbox[h] \in Seq(Events)
        /\ Flow(h) = Joined(received[h], <<held[h]>>, buffer[h], inbox[h])
    BY <1>2, FlowParts
  <2>2. Joined(Append(received[h], held[h]), << >>, buffer[h], inbox[h]) = Flow(h)
    BY <1>1, <2>1, JoinedWrite
  <2>3. QED
    BY <1>2, <1>3, <1>4, <1>6, <2>2
<1>7. ASSUME gone[h]
      PROVE  \A n \in 1..Len(Flow(h)') :
                  LET m == IF n <= Len(received[h]) THEN n ELSE n + 1
                  IN  m \in 1..Len(Flow(h)) /\ Flow(h)'[n] = Flow(h)[m]
  <2>1. Flow(h) = Joined(received[h], <<held[h]>>, buffer[h], inbox[h])
    BY <1>2, FlowParts
  <2>2. Flow(h)' = Joined(received[h], << >>, buffer[h], inbox[h])
    BY <1>2, <1>3, <1>4, <1>7
  <2>3. QED
    BY <1>1, <2>1, <2>2, FlowParts, JoinedThins
<1>8. Flow(h)' \in Seq(Events)
  <2>1. received'[h] \in Seq(Events)
    BY <1>1, <1>3, AppendProperties DEF TypeOK
  <2>2. QED
    BY <1>2, <1>3, <1>4, <2>1, EmptySeq, ConcatProperties DEF Joined, TypeOK
<1>9. QED
  BY <1>5, <1>6, <1>7, <1>8

LEMMA FlowReturn ==
    ASSUME TypeOK, NEW h \in Streams, Return(h)
    PROVE  Flow(h)' = << >> /\ \A k \in Streams \ {h} : Flow(k)' = Flow(k)
<1> USE DEF run, Goto
<1>1. received'[h] = << >> /\ held'[h] = << >> /\ buffer'[h] = << >> /\ inbox'[h] = << >>
  BY DEF Return, Unsubscribe, Forget, TypeOK
<1>2. << >> \in Seq(Events) /\ << >> \o << >> = << >>
  BY EmptySeq, ConcatEmptySeq
<1>3. Flow(h)' = << >>
  BY <1>1, <1>2 DEF Flow
<1>4. ASSUME NEW k \in Streams \ {h} PROVE Flow(k)' = Flow(k)
  BY FlowKept DEF Return, Unsubscribe, Forget, TypeOK
<1>5. QED
  BY <1>3, <1>4

(* A send to a buffer with room adds the event at the end. *)
LEMMA FlowSend ==
    ASSUME TypeOK, NEW g \in Goroutines, NEW h \in Streams, Send(g, h), inbox[h] = << >>
    PROVE  /\ Flow(h)' = Append(Flow(h), Event(g)) \/ (Flow(h)' = Flow(h) /\ h \in disturbed')
           /\ \A k \in Streams \ {h} : Flow(k)' = Flow(k)
<1> USE DEF run, client
<1>1. UNCHANGED <<received, held, inbox>>
  BY DEF Send, Offer
<1>2. CASE /\ buffer' = [buffer EXCEPT ![h] = Append(@, Event(g))]
  <2>1. Written(h)' = Written(h) /\ buffer'[h] = Append(buffer[h], Event(g))
    BY <1>1, <1>2 DEF Written, TypeOK
  <2>2. Flow(h)' = Joined(received'[h], Written(h)', buffer'[h], inbox'[h])
    BY DEF Flow, Joined, Written
  <2>3. Flow(h)' = Append(Flow(h), Event(g))
    <3>1. received[h] \in Seq(Events) /\ Written(h) \in Seq(Events) /\ buffer[h] \in Seq(Events)
          /\ inbox[h] \in Seq(Events) /\ Flow(h) = Joined(received[h], Written(h), buffer[h], inbox[h])
      BY FlowParts
    <3>2. Event(g) \in Events
      BY EventType
    <3>3. Joined(received[h], Written(h), Append(buffer[h], Event(g)), << >>)
              = Append(Joined(received[h], Written(h), buffer[h], << >>), Event(g))
      BY <3>1, <3>2, JoinedSend, ZenonT(40)
    <3>4. QED
      BY <1>1, <2>1, <2>2, <3>1, <3>3
  <2>4. ASSUME NEW k \in Streams \ {h} PROVE Flow(k)' = Flow(k)
    BY <1>1, <1>2, FlowKept DEF TypeOK
  <2>5. QED
    BY <2>3, <2>4
<1>3. CASE h \in disturbed' /\ UNCHANGED buffer
  BY <1>1, <1>3, FlowKept
<1>4. QED
  BY <1>2, <1>3 DEF Send

LEMMA DeliverMisses ==
    ASSUME TypeOK, NEW messages \in Seq(Events), Deliver(messages), NEW h \in Streams, h \notin Reached
    PROVE  inbox'[h] = inbox[h]
<1>1. inbox[h] \in Seq(Events) /\ Len(inbox[h]) \in Nat /\ Len(messages) \in Nat
  BY LenProperties DEF TypeOK
<1>2. QED
  BY <1>1 DEF Deliver

(* A PUBLISH adds its event to the streams it reaches once, twice or, when *)
(* their inbox is full, not at all.                                        *)
LEMMA FlowDeliver ==
    ASSUME TypeOK, NEW g \in Goroutines, UNCHANGED <<received, held, buffer>>,
           Deliver(<<Event(g)>>) \/ Deliver(<<Event(g), Event(g)>>), NEW h \in Streams
    PROVE  /\ \/ Flow(h)' = Flow(h)
              \/ h \in Reached /\ Flow(h)' = Append(Flow(h), Event(g))
              \/ h \in Reached /\ Flow(h)' = Append(Append(Flow(h), Event(g)), Event(g))
           /\ Deliver(<<Event(g)>>) /\ h \in Reached /\ Room(h) >= 1 =>
                  Flow(h)' = Append(Flow(h), Event(g))
<1> DEFINE e == Event(g)
<1>1. e \in Events /\ <<e>> \in Seq(Events) /\ <<e, e>> \in Seq(Events) /\ Len(<<e>>) = 1 /\ Len(<<e, e>>) = 2
  BY EventType
<1>2. /\ received[h] \in Seq(Events) /\ Written(h) \in Seq(Events) /\ buffer[h] \in Seq(Events)
      /\ inbox[h] \in Seq(Events) /\ Flow(h) = Joined(received[h], Written(h), buffer[h], inbox[h])
  BY FlowParts
<1>3. Flow(h)' = Joined(received[h], Written(h), buffer[h], inbox'[h])
  BY DEF Flow, Joined, Written
<1>4. Room(h) \in Int
  BY <1>2, LenProperties, SizeAssumption DEF Room
<1> HIDE DEF e
<1>5. inbox'[h] = inbox[h] => Flow(h)' = Flow(h)
  BY <1>2, <1>3
<1>more. /\ OneMore(received[h], Written(h), buffer[h], inbox[h], e)
         /\ TwoMore(received[h], Written(h), buffer[h], inbox[h], e)
  <2>1. e \in Events
    BY <1>1
  <2>2. QED
    BY <1>2, <2>1, JoinedDeliver
<1>6. inbox'[h] = inbox[h] \o <<e>> => Flow(h)' = Append(Flow(h), e)
  BY <1>2, <1>3, <1>more DEF OneMore
<1>7. inbox'[h] = inbox[h] \o <<e, e>> => Flow(h)' = Append(Append(Flow(h), e), e)
  BY <1>2, <1>3, <1>more DEF TwoMore
<1>8. CASE h \notin Reached
  <2>1. inbox'[h] = inbox[h]
    BY <1>1, <1>8, DeliverMisses DEF e
  <2>2. QED
    BY <1>5, <1>8, <2>1
<1>9. CASE h \in Reached /\ Deliver(<<e>>)
  <2>1. CASE Room(h) >= 1
    <3>1. inbox'[h] = inbox[h] \o <<e>>
      BY <1>1, <1>4, <1>9, <2>1 DEF Deliver
    <3>2. QED
      BY <1>6, <1>9, <3>1 DEF e
  <2>2. CASE Room(h) < 1
    <3>1. inbox'[h] = inbox[h] \o SubSeq(<<e>>, 1, Room(h))
      <4>1. ~(Len(<<e>>) <= Room(h))
        BY <1>1, <1>4, <2>2
      <4>2. QED
        BY <1>9, <4>1, Zenon DEF Deliver
    <3>2. SubSeq(<<e>>, 1, Room(h)) = << >>
      BY <1>4, <2>2, SubSeqEmpty
    <3>3. inbox[h] \o << >> = inbox[h]
      BY <1>2, ConcatEmptySeq
    <3>4. ~(Room(h) >= 1)
      BY <1>4, <2>2
    <3>5. QED
      BY <1>5, <3>1, <3>2, <3>3, <3>4
  <2>3. QED
    BY <1>4, <2>1, <2>2
<1>10. CASE h \in Reached /\ Deliver(<<e, e>>) /\ ~Deliver(<<e>>)
  <2>1. CASE Room(h) >= 2
    <3>1. inbox'[h] = inbox[h] \o <<e, e>>
      BY <1>1, <1>4, <1>10, <2>1 DEF Deliver
    <3>2. QED
      BY <1>7, <1>10, <3>1 DEF e
  <2>2. CASE Room(h) = 1
    <3>1. inbox'[h] = inbox[h] \o SubSeq(<<e, e>>, 1, 1)
      BY <1>1, <1>4, <1>10, <2>2 DEF Deliver
    <3>2. SubSeq(<<e, e>>, 1, 1) = <<e>>
      <4>1. \A n \in 1..1 : <<e, e>>[n] \in Events
        BY <1>1
      <4>2. /\ SubSeq(<<e, e>>, 1, 1) \in Seq(Events) /\ Len(SubSeq(<<e, e>>, 1, 1)) = 1
            /\ SubSeq(<<e, e>>, 1, 1)[1] = e
        BY <4>1, SubSeqProperties
      <4> DEFINE q == SubSeq(<<e, e>>, 1, 1)
      <4>3. q \in Seq(Events) /\ Len(q) = 1 /\ q[1] = e
        BY <4>2
      <4> HIDE DEF q
      <4>4. Len(q) = Len(<<e>>) /\ \A n \in 1..Len(q) : q[n] = <<e>>[n]
        BY <1>1, <4>3
      <4>5. q = <<e>>
        BY <1>1, <4>3, <4>4, SeqEqual
      <4>6. QED
        BY <4>5 DEF q
    <3>3. QED
      BY <1>6, <1>10, <3>1, <3>2 DEF e
  <2>3. CASE Room(h) < 1
    <3>1. inbox'[h] = inbox[h] \o SubSeq(<<e, e>>, 1, Room(h))
      BY <1>1, <1>4, <1>10, <2>3 DEF Deliver
    <3>2. SubSeq(<<e, e>>, 1, Room(h)) = << >>
      BY <1>4, <2>3, SubSeqEmpty
    <3>3. inbox[h] \o << >> = inbox[h]
      BY <1>2, ConcatEmptySeq
    <3>4. QED
      BY <1>5, <1>10, <3>1, <3>2, <3>3 DEF e
  <2>4. QED
    BY <1>4, <2>1, <2>2, <2>3
<1>11. QED
  BY <1>8, <1>9, <1>10 DEF e

-----------------------------------------------------------------------------
(* Order. *)

\* In the process nothing is in an inbox, and only an open stream is linked.
Shape ==
    /\ broker = "local" => \A h \in Streams : inbox[h] = << >>
    /\ \A h \in Streams : linked[h] => Open(h)

LEMMA ShapeStep == TypeOK /\ Shape /\ [Next]_vars => Shape'
<1> SUFFICES ASSUME TypeOK, Shape, [Next]_vars PROVE Shape'
  OBVIOUS
<1> USE DEF run, channels, client, history, Goto
<1>1. CASE UNCHANGED <<broker, inbox, linked, stage>>
  BY <1>1 DEF Shape, Open
<1>2. ASSUME NEW g \in Goroutines, PublishOnce(g) \/ PublishRepeated(g) \/ PublishFails(g) PROVE Shape'
  BY <1>2 DEF PublishOnce, PublishRepeated, PublishFails, RedisPublish, Shape, Open
<1>3. ASSUME NEW g \in Goroutines, PublishLock(g) \/ (\E h \in Streams : Send(g, h)) \/ PublishUnlock(g)
      PROVE  Shape'
  BY <1>1, <1>3 DEF PublishLock, Send, Offer, PublishUnlock
<1>4. ASSUME NEW h \in Streams, Connect(h) \/ SubscribeLocal(h) \/ SubscribeRedis(h) \/ Receive(h) \/ Write(h)
      PROVE  Shape'
  <2>1. UNCHANGED <<broker, inbox, linked>> /\ \A k \in Streams : Open(k) => Open(k)'
    BY <1>4 DEF Connect, SubscribeLocal, SubscribeRedis, Receive, Write, Open, TypeOK
  <2>2. QED
    BY <2>1 DEF Shape
<1>5. ASSUME NEW h \in Streams, Return(h) PROVE Shape'
  BY <1>5 DEF Return, Unsubscribe, Forget, Shape, Open, TypeOK
<1>6. ASSUME NEW h \in Streams, Link(h) \/ Unlink(h) PROVE Shape'
  BY <1>6 DEF Link, Unlink, Shape, Open, TypeOK
<1>7. ASSUME NEW h \in Streams, Pump(h) PROVE Shape'
  BY <1>7 DEF Pump, Shape, Open, TypeOK
<1>8. ASSUME NEW h \in Streams, PumpEnds(h) \/ Leave(h) PROVE Shape'
  BY <1>1, <1>8 DEF PumpEnds, Leave
<1>9. CASE CloseBroker
  BY <1>9 DEF CloseBroker, Shape, Open, TypeOK
<1>10. CASE UNCHANGED vars
  BY <1>1, <1>10 DEF vars
<1>11. QED
  BY <1>2, <1>3, <1>4, <1>5, <1>6, <1>7, <1>8, <1>9, <1>10
     DEF Next, PublishStep, StreamStep, WriteFails, ChannelClosed

\* The events f are in order for each goroutine, and numbered up to n.
OrderedUpTo(f, n) ==
    /\ f \in Seq(Events)
    /\ \A i, j \in 1..Len(f) : i < j /\ f[i][1] = f[j][1] => f[i][2] <= f[j][2]
    /\ \A i \in 1..Len(f) : f[i][2] <= n[f[i][1]]

Offers(h) == [g \in Goroutines |-> Offered(g, h)]

LEMMA OfferedType == ASSUME TypeOK, NEW h PROVE Offers(h) \in [Goroutines -> Nat]
BY DEF TypeOK, Offers, Offered

LEMMA ElementType ==
    ASSUME NEW f \in Seq(Events), NEW i \in 1..Len(f)
    PROVE  f[i] \in Events /\ f[i][1] \in Goroutines /\ f[i][2] \in Nat
<1>1. f[i] \in Events
  BY ElementOfSeq
<1>2. QED
  BY <1>1 DEF Events

LEMMA OrderedEmpty == \A n : OrderedUpTo(<< >>, n)
<1>1. << >> \in Seq(Events) /\ 1..Len(<< >>) = {}
  BY EmptySeq
<1>2. QED
  BY <1>1, Zenon DEF OrderedUpTo

LEMMA OrderedMore ==
    ASSUME NEW f, NEW n \in [Goroutines -> Nat], NEW m \in [Goroutines -> Nat], OrderedUpTo(f, n),
           \A g \in Goroutines : n[g] <= m[g]
    PROVE  OrderedUpTo(f, m)
<1>1. ASSUME NEW i \in 1..Len(f) PROVE f[i][2] <= m[f[i][1]]
  <2>1. f[i][1] \in Goroutines /\ f[i][2] \in Nat /\ f[i][2] <= n[f[i][1]]
    BY ElementType DEF OrderedUpTo
  <2>2. n[f[i][1]] \in Nat /\ m[f[i][1]] \in Nat /\ n[f[i][1]] <= m[f[i][1]]
    BY <2>1
  <2>3. QED
    BY <2>1, <2>2
<1>2. QED
  BY <1>1 DEF OrderedUpTo

LEMMA OrderedAppend ==
    ASSUME NEW f, NEW n \in [Goroutines -> Nat], OrderedUpTo(f, n), NEW e \in Events, e[2] = n[e[1]]
    PROVE  OrderedUpTo(Append(f, e), n)
<1> DEFINE a == Append(f, e)
<1>1. f \in Seq(Events) /\ Len(f) \in Nat /\ e[1] \in Goroutines /\ e[2] \in Nat
  BY LenProperties DEF OrderedUpTo, Events
<1>2. a \in Seq(Events) /\ Len(a) = Len(f) + 1 /\ (\A i \in 1..Len(f) : a[i] = f[i]) /\ a[Len(f) + 1] = e
  BY <1>1, AppendProperties
<1> HIDE DEF a
<1>3. ASSUME NEW i \in 1..Len(a) PROVE a[i][2] <= n[a[i][1]]
  <2>1. CASE i \in 1..Len(f)
    BY <1>2, <2>1 DEF OrderedUpTo
  <2>2. CASE i = Len(f) + 1
    BY <1>1, <1>2, <2>2
  <2>3. QED
    BY <1>1, <1>2, <2>1, <2>2
<1>4. ASSUME NEW i \in 1..Len(a), NEW j \in 1..Len(a), i < j, a[i][1] = a[j][1] PROVE a[i][2] <= a[j][2]
  <2>1. i \in 1..Len(f) /\ a[i] = f[i]
    BY <1>1, <1>2, <1>4
  <2>2. CASE j \in 1..Len(f)
    BY <1>2, <1>4, <2>1, <2>2 DEF OrderedUpTo
  <2>3. CASE j = Len(f) + 1
    <3>1. a[j] = e /\ f[i][2] <= n[f[i][1]] /\ f[i][1] = e[1]
      BY <1>2, <1>4, <2>1, <2>3 DEF OrderedUpTo
    <3>2. QED
      BY <2>1, <3>1
  <2>4. QED
    BY <1>1, <1>2, <2>2, <2>3
<1>5. QED
  BY <1>2, <1>3, <1>4 DEF OrderedUpTo, a

LEMMA OrderedThinned ==
    ASSUME NEW f, NEW n, OrderedUpTo(f, n), NEW d \in Seq(Events), NEW c \in Nat,
           \A i \in 1..Len(d) : LET m == IF i <= c THEN i ELSE i + 1 IN m \in 1..Len(f) /\ d[i] = f[m]
    PROVE  OrderedUpTo(d, n)
<1> DEFINE m(i) == IF i <= c THEN i ELSE i + 1
<1>1. \A i \in 1..Len(d) : m(i) \in 1..Len(f) /\ d[i] = f[m(i)]
  OBVIOUS
<1>2. \A i, j \in 1..Len(d) : i < j => m(i) < m(j)
  BY LenProperties
<1> HIDE DEF m
<1>3. QED
  BY <1>1, <1>2, ZenonT(40) DEF OrderedUpTo

(***************************************************************************)
(* How the numbers move: a goroutine's event is offered to a stream at the *)
(* send to its buffer, or at the PUBLISH.                                  *)
(***************************************************************************)
Advanced(g, h) ==
    Offered(g, h) = published[g] /\ Offers(h)' = [Offers(h) EXCEPT ![g] = published[g] + 1]

LEMMA OffersSame ==
    ASSUME UNCHANGED <<published, publishing, sending>>
    PROVE  \A h \in Streams : Offers(h)' = Offers(h)
BY DEF Offers, Offered

LEMMA OffersLock ==
    ASSUME TypeOK, Locked, NEW g \in Goroutines, PublishLock(g), NEW h \in Streams
    PROVE  Offers(h)' = Offers(h) \/ (h \notin Listening("stored") /\ Advanced(g, h))
<1>1. /\ g \notin publishing /\ published' = published /\ publishing' = publishing \cup {g}
      /\ sending' = [sending EXCEPT ![g] = Listening("stored")]
  BY DEF PublishLock, MayPublish
<1>2. \A k \in Goroutines \ {g} : Offered(k, h)' = Offered(k, h)
  BY <1>1 DEF Offered, TypeOK
<1>3. Offered(g, h) = published[g]
  BY <1>1 DEF Offered
<1>4. CASE h \in Listening("stored")
  <2>1. Offered(g, h)' = Offered(g, h)
    BY <1>1, <1>3, <1>4 DEF Offered, TypeOK
  <2>2. QED
    BY <1>2, <2>1 DEF Offers
<1>5. CASE h \notin Listening("stored")
  <2>1. Offered(g, h)' = published[g] + 1
    BY <1>1, <1>5 DEF Offered, TypeOK
  <2>2. QED
    BY <1>2, <1>3, <1>5, <2>1 DEF Offers, Advanced
<1>6. QED
  BY <1>4, <1>5

LEMMA OffersSend ==
    ASSUME TypeOK, Locked, NEW g \in Goroutines, NEW h \in Streams, Send(g, h)
    PROVE  Advanced(g, h) /\ \A k \in Streams \ {h} : Offers(k)' = Offers(k)
<1>1. /\ h \in sending[g] /\ UNCHANGED <<published, publishing>>
      /\ sending' = [sending EXCEPT ![g] = @ \ {h}]
  BY DEF Send, Offer, run
<1>2. g \in publishing
  BY <1>1 DEF Locked
<1>3. \A k \in Streams, x \in Goroutines : k # h \/ x # g => Offered(x, k)' = Offered(x, k)
  BY <1>1 DEF Offered, TypeOK
<1>4. Offered(g, h) = published[g] /\ Offered(g, h)' = published[g] + 1
  BY <1>1, <1>2 DEF Offered, TypeOK
<1>5. \A k \in Streams \ {h} : Offers(k)' = Offers(k)
  BY <1>3 DEF Offers
<1>6. Offers(h)' = [Offers(h) EXCEPT ![g] = published[g] + 1]
  BY <1>3, <1>4 DEF Offers
<1>7. QED
  BY <1>4, <1>5, <1>6 DEF Advanced

LEMMA OffersUnlock ==
    ASSUME TypeOK, NEW g \in Goroutines, PublishUnlock(g)
    PROVE  \A h \in Streams : Offers(h)' = Offers(h)
<1>1. /\ g \in publishing /\ sending[g] = {} /\ sending' = sending
      /\ published' = [published EXCEPT ![g] = @ + 1] /\ publishing' = publishing \ {g}
  BY DEF PublishUnlock, Publish
<1>2. \A h \in Streams, k \in Goroutines : Offered(k, h)' = Offered(k, h)
  BY <1>1 DEF Offered, TypeOK
<1>3. QED
  BY <1>2 DEF Offers

LEMMA OffersRedis ==
    ASSUME TypeOK, Locked, NEW g \in Goroutines, RedisPublish(g), NEW h \in Streams
    PROVE  Advanced(g, h)
<1>1. publishing = {} /\ publishing' = {} /\ published' = [published EXCEPT ![g] = @ + 1]
  BY DEF RedisPublish, Publish, Locked
<1>2. \A k \in Goroutines : Offered(k, h) = published[k] /\ Offered(k, h)' = published'[k]
  BY <1>1 DEF Offered
<1>3. QED
  BY <1>1, <1>2 DEF Offers, Advanced, TypeOK

LEMMA OrderedKept ==
    ASSUME TypeOK, NEW h \in Streams, OrderedUpTo(Flow(h), Offers(h)), Flow(h)' = Flow(h),
           Offers(h)' = Offers(h) \/ \E g \in Goroutines : Advanced(g, h)
    PROVE  OrderedUpTo(Flow(h)', Offers(h)')
<1>1. CASE Offers(h)' = Offers(h)
  BY <1>1
<1>2. ASSUME NEW g \in Goroutines, Advanced(g, h) PROVE OrderedUpTo(Flow(h), Offers(h)')
  <2>1. Offers(h) \in [Goroutines -> Nat] /\ Offers(h)[g] = published[g] /\ published[g] \in Nat
    BY <1>2, OfferedType DEF Advanced, Offers, TypeOK
  <2>2. Offers(h)' \in [Goroutines -> Nat] /\ \A k \in Goroutines : Offers(h)[k] <= Offers(h)'[k]
    BY <1>2, <2>1 DEF Advanced
  <2>3. QED
    BY <2>1, <2>2, OrderedMore
<1>3. QED
  BY <1>1, <1>2

LEMMA OrderedGrown ==
    ASSUME TypeOK, NEW h \in Streams, OrderedUpTo(Flow(h), Offers(h)), NEW g \in Goroutines, Advanced(g, h),
           \/ Flow(h)' = Append(Flow(h), Event(g))
           \/ Flow(h)' = Append(Append(Flow(h), Event(g)), Event(g))
    PROVE  OrderedUpTo(Flow(h)', Offers(h)')
<1>1. Offers(h) \in [Goroutines -> Nat] /\ Offers(h)[g] = published[g] /\ published[g] \in Nat
  BY OfferedType DEF Advanced, Offers, TypeOK
<1>2. /\ Offers(h)' \in [Goroutines -> Nat] /\ Offers(h)'[g] = published[g] + 1
      /\ \A k \in Goroutines : Offers(h)[k] <= Offers(h)'[k]
  BY <1>1 DEF Advanced
<1>3. OrderedUpTo(Flow(h), Offers(h)')
  BY <1>1, <1>2, OrderedMore
<1>4. Event(g) \in Events /\ Event(g)[1] = g /\ Event(g)[2] = published[g] + 1
  BY EventType DEF Event
<1>5. OrderedUpTo(Append(Flow(h), Event(g)), Offers(h)')
  BY <1>2, <1>3, <1>4, OrderedAppend
<1>6. OrderedUpTo(Append(Append(Flow(h), Event(g)), Event(g)), Offers(h)')
  BY <1>2, <1>4, <1>5, OrderedAppend
<1>7. QED
  BY <1>5, <1>6

\* Every stream's events are in order, none numbered beyond what it was offered.
Ordered == \A h \in Streams : OrderedUpTo(Flow(h), Offers(h))

LEMMA OrderedStep == TypeOK /\ Writing /\ Locked /\ Shape /\ Ordered /\ [Next]_vars /\ TypeOK' => Ordered'
<1> SUFFICES ASSUME TypeOK, Writing, Locked, Shape, Ordered, [Next]_vars, TypeOK', NEW h \in Streams
             PROVE  OrderedUpTo(Flow(h)', Offers(h)')
  BY DEF Ordered
<1> USE DEF run, channels, client, history
<1>0. OrderedUpTo(Flow(h), Offers(h))
  BY DEF Ordered
<1>1. CASE UNCHANGED <<published, publishing, sending>> /\ Flow(h)' = Flow(h)
  BY <1>0, <1>1, OffersSame, OrderedKept
<1>2. CASE UNCHANGED <<published, publishing, sending, received, held, buffer, inbox>>
  BY <1>1, <1>2, FlowKept
<1>3. ASSUME NEW g \in Goroutines, PublishLock(g) \/ PublishUnlock(g) PROVE OrderedUpTo(Flow(h)', Offers(h)')
  <2>1. Flow(h)' = Flow(h)
    BY <1>3, FlowKept DEF PublishLock, PublishUnlock
  <2>2. Offers(h)' = Offers(h) \/ Advanced(g, h)
    BY <1>3, OffersLock, OffersUnlock
  <2>3. QED
    BY <1>0, <2>1, <2>2, OrderedKept
<1>4. ASSUME NEW g \in Goroutines, NEW k \in Streams, Send(g, k) PROVE OrderedUpTo(Flow(h)', Offers(h)')
  <2>1. k \in sending[g]
    BY <1>4 DEF Send, Offer
  <2>2. broker # "redis"
    BY <2>1 DEF Locked
  <2>3. inbox[k] = << >>
    BY <2>2 DEF Shape, TypeOK
  <2>4. CASE h # k
    BY <1>0, <1>4, <2>3, <2>4, FlowSend, OffersSend, OrderedKept
  <2>5. CASE h = k
    <3>1. Advanced(g, h)
      BY <1>4, <2>5, OffersSend
    <3>2. Flow(h)' = Append(Flow(h), Event(g)) \/ Flow(h)' = Flow(h)
      BY <1>4, <2>3, <2>5, FlowSend
    <3>3. QED
      BY <1>0, <3>1, <3>2, OrderedKept, OrderedGrown
  <2>6. QED
    BY <2>4, <2>5
<1>5. ASSUME NEW g \in Goroutines, PublishOnce(g) \/ PublishRepeated(g) \/ PublishFails(g)
      PROVE  OrderedUpTo(Flow(h)', Offers(h)')
  <2>1. Advanced(g, h)
    BY <1>5, OffersRedis DEF PublishOnce, PublishRepeated, PublishFails
  <2>2. UNCHANGED <<received, held, buffer>>
    BY <1>5 DEF PublishOnce, PublishRepeated, PublishFails, RedisPublish
  <2>3. CASE PublishFails(g)
    <3>1. Flow(h)' = Flow(h)
      BY <2>2, <2>3, FlowKept DEF PublishFails
    <3>2. QED
      BY <1>0, <2>1, <3>1, OrderedKept
  <2>4. CASE PublishOnce(g) \/ PublishRepeated(g)
    <3>1. \/ Flow(h)' = Flow(h)
          \/ Flow(h)' = Append(Flow(h), Event(g))
          \/ Flow(h)' = Append(Append(Flow(h), Event(g)), Event(g))
      BY <2>2, <2>4, FlowDeliver DEF PublishOnce, PublishRepeated
    <3>2. QED
      BY <1>0, <2>1, <3>1, OrderedKept, OrderedGrown
  <2>5. QED
    BY <1>5, <2>3, <2>4
<1>6. ASSUME NEW k \in Streams, \/ Connect(k) \/ SubscribeLocal(k) \/ SubscribeRedis(k) \/ Link(k)
                                \/ Unlink(k) \/ PumpEnds(k) \/ Leave(k)
      PROVE  OrderedUpTo(Flow(h)', Offers(h)')
  BY <1>2, <1>6 DEF Connect, SubscribeLocal, SubscribeRedis, Link, Unlink, PumpEnds, Leave
<1>7. ASSUME NEW k \in Streams, Pump(k) \/ Receive(k) PROVE OrderedUpTo(Flow(h)', Offers(h)')
  <2>1. Flow(h)' = Flow(h)
    BY <1>7, FlowPump, FlowReceive
  <2>2. QED
    BY <1>1, <1>7, <2>1 DEF Pump, Receive
<1>8. ASSUME NEW k \in Streams, Write(k) PROVE OrderedUpTo(Flow(h)', Offers(h)')
  <2>1. UNCHANGED <<published, publishing, sending>>
    BY <1>8 DEF Write
  <2>2. CASE h # k \/ ~gone[k]
    BY <1>1, <1>8, <2>1, <2>2, FlowWrite
  <2>3. CASE h = k /\ gone[k]
    <3>1. /\ Flow(h)' \in Seq(Events) /\ Len(received[h]) \in Nat /\ Offers(h)' = Offers(h)
      BY <1>8, <2>1, <2>3, OffersSame, FlowWrite, FlowParts, LenProperties
    <3>2. \A n \in 1..Len(Flow(h)') :
              LET m == IF n <= Len(received[h]) THEN n ELSE n + 1
              IN  m \in 1..Len(Flow(h)) /\ Flow(h)'[n] = Flow(h)[m]
      BY <1>8, <2>3, FlowWrite
    <3>3. QED
      BY <1>0, <3>1, <3>2, OrderedThinned
  <2>4. QED
    BY <2>2, <2>3
<1>9. ASSUME NEW k \in Streams, Return(k) PROVE OrderedUpTo(Flow(h)', Offers(h)')
  <2>1. CASE h # k
    BY <1>1, <1>9, <2>1, FlowReturn DEF Return
  <2>2. CASE h = k
    BY <1>9, <2>2, FlowReturn, OrderedEmpty
  <2>3. QED
    BY <2>1, <2>2
<1>10. CASE CloseBroker \/ UNCHANGED vars
  BY <1>2, <1>10 DEF CloseBroker, vars
<1>11. QED
  BY <1>3, <1>4, <1>5, <1>6, <1>7, <1>8, <1>9, <1>10
     DEF Next, PublishStep, StreamStep, WriteFails, ChannelClosed

LEMMA OrderedInductive == Spec => [](Shape /\ Ordered)
<1>1. Init => Shape /\ Ordered
  <2> SUFFICES ASSUME Init PROVE Shape /\ Ordered
    OBVIOUS
  <2>1. Shape
    BY DEF Init, Shape
  <2>2. << >> \in Seq(Events) /\ << >> \o << >> = << >> /\ Len(<< >>) = 0
    BY EmptySeq, ConcatEmptySeq
  <2>3. \A h \in Streams : Flow(h) = << >>
    BY <2>2 DEF Init, Flow
  <2>4. QED
    BY <2>1, <2>3, OrderedEmpty DEF Ordered
<1>2. QED
  BY <1>1, ShapeStep, OrderedStep, WritingInductive, LockedInductive, PTL DEF Spec

(***************************************************************************)
(* Whatever is dropped, repeated at once or lost, a client never sees the  *)
(* events of one goroutine out of order.                                   *)
(***************************************************************************)
THEOREM StreamInOrder == Spec => []InOrder
<1>1. Ordered => InOrder
  BY DEF Ordered, OrderedUpTo, InOrder
<1>2. QED
  BY <1>1, OrderedInductive, PTL

-----------------------------------------------------------------------------
(* Completeness. *)

\* A stream that no event can reach, unless it was disturbed.
Idle(h) == ~Open(h) \/ (broker = "redis" /\ ~linked[h] /\ h \notin disturbed)

\* Inboxes within their size, subscriptions that began in the past, and
\* nothing under way for an idle stream.
Bounds ==
    /\ \A h \in Streams : Len(inbox[h]) <= InboxSize
    /\ \A h \in Streams, g \in Goroutines : since[h][g] <= published[g]
Quiet == \A h \in Streams : Idle(h) => Flow(h) = << >>

LEMMA DeliverBounds ==
    ASSUME TypeOK, NEW messages \in Seq(Events), Deliver(messages), NEW h \in Streams, Len(inbox[h]) <= InboxSize
    PROVE  Len(inbox'[h]) <= InboxSize
<1>1. inbox[h] \in Seq(Events) /\ Len(inbox[h]) \in Nat /\ Len(messages) \in Nat
  BY LenProperties DEF TypeOK
<1>2. Room(h) \in Nat /\ Len(inbox[h]) + Room(h) = InboxSize
  BY <1>1, SizeAssumption DEF Room
<1>3. CASE h \notin Reached
  BY <1>3, DeliverMisses
<1>4. CASE h \in Reached /\ Len(messages) <= Room(h)
  <2>1. inbox'[h] = inbox[h] \o messages /\ Len(inbox[h] \o messages) = Len(inbox[h]) + Len(messages)
    BY <1>1, <1>4, ConcatProperties DEF Deliver
  <2>2. QED
    BY <1>1, <1>2, <1>4, <2>1, SizeAssumption
<1>5. CASE h \in Reached /\ ~(Len(messages) <= Room(h))
  <2> DEFINE s == SubSeq(messages, 1, Room(h))
  <2>1. \A i \in 1..Room(h) : messages[i] \in Events
    BY <1>1, <1>2, <1>5, ElementOfSeq
  <2>2. s \in Seq(Events) /\ Len(s) = Room(h)
    BY <1>2, <2>1, SubSeqProperties
  <2>3. inbox'[h] = inbox[h] \o s
    BY <1>5 DEF Deliver
  <2> HIDE DEF s
  <2>4. Len(inbox[h] \o s) = Len(inbox[h]) + Len(s)
    BY <1>1, <2>2, ConcatProperties
  <2>5. QED
    BY <1>1, <1>2, <2>2, <2>3, <2>4, SizeAssumption
<1>6. QED
  BY <1>3, <1>4, <1>5

LEMMA BoundsStep == TypeOK /\ Bounds /\ [Next]_vars => Bounds'
<1> SUFFICES ASSUME TypeOK, Bounds, [Next]_vars PROVE Bounds'
  OBVIOUS
<1> USE DEF run, channels, client, history, Goto
<1>1. CASE UNCHANGED <<inbox, since, published>>
  BY <1>1 DEF Bounds
<1>2. ASSUME NEW g \in Goroutines, Publish(g), UNCHANGED since
      PROVE  \A h \in Streams, k \in Goroutines : since'[h][k] <= published'[k]
  BY <1>2 DEF Publish, Bounds, TypeOK
<1>3. ASSUME NEW g \in Goroutines, PublishOnce(g) \/ PublishRepeated(g) \/ PublishFails(g) PROVE Bounds'
  <2>1. \A h \in Streams, k \in Goroutines : since'[h][k] <= published'[k]
    BY <1>2, <1>3 DEF PublishOnce, PublishRepeated, PublishFails, RedisPublish
  <2>2. <<Event(g)>> \in Seq(Events) /\ <<Event(g), Event(g)>> \in Seq(Events)
    BY EventType
  <2>3. ASSUME NEW h \in Streams PROVE Len(inbox'[h]) <= InboxSize
    <3>1. Len(inbox[h]) <= InboxSize
      BY DEF Bounds
    <3>2. CASE PublishFails(g)
      BY <3>1, <3>2 DEF PublishFails
    <3>3. CASE PublishOnce(g) \/ PublishRepeated(g)
      BY <2>2, <3>1, <3>3, DeliverBounds DEF PublishOnce, PublishRepeated
    <3>4. QED
      BY <1>3, <3>2, <3>3
  <2>4. QED
    BY <2>1, <2>3 DEF Bounds
<1>4. ASSUME NEW g \in Goroutines, PublishUnlock(g) PROVE Bounds'
  <2>1. UNCHANGED inbox /\ \A h \in Streams, k \in Goroutines : since'[h][k] <= published'[k]
    BY <1>2, <1>4 DEF PublishUnlock
  <2>2. QED
    BY <2>1 DEF Bounds
<1>5. ASSUME NEW g \in Goroutines, PublishLock(g) \/ \E h \in Streams : Send(g, h) PROVE Bounds'
  BY <1>1, <1>5 DEF PublishLock, Send, Offer
<1>6. ASSUME NEW h \in Streams, SubscribeLocal(h) \/ Link(h) PROVE Bounds'
  <2>1. UNCHANGED <<inbox, published>> /\ (since' = since \/ since' = [since EXCEPT ![h] = published])
    BY <1>6 DEF SubscribeLocal, Link
  <2>2. \A k \in Goroutines : published[k] <= published[k]
    BY DEF TypeOK
  <2>3. QED
    BY <2>1, <2>2 DEF Bounds, TypeOK
<1>7. ASSUME NEW h \in Streams, \/ Connect(h) \/ SubscribeRedis(h) \/ Receive(h) \/ Write(h) \/ Unlink(h)
                                \/ PumpEnds(h) \/ Leave(h)
      PROVE  Bounds'
  BY <1>1, <1>7 DEF Connect, SubscribeRedis, Receive, Write, Unlink, PumpEnds, Leave
<1>8. ASSUME NEW h \in Streams, Pump(h) PROVE Bounds'
  <2>1. inbox[h] \in Seq(Events) /\ inbox[h] # << >> /\ inbox' = [inbox EXCEPT ![h] = Tail(@)]
        /\ UNCHANGED <<since, published>>
    BY <1>8 DEF Pump, TypeOK
  <2>2. Len(Tail(inbox[h])) = Len(inbox[h]) - 1 /\ Len(inbox[h]) \in Nat
    BY <2>1, HeadTailProperties, LenProperties
  <2>3. \A k \in Streams : Len(inbox'[k]) <= InboxSize
    BY <2>1, <2>2, SizeAssumption DEF Bounds, TypeOK
  <2>4. QED
    BY <2>1, <2>3 DEF Bounds
<1>9. ASSUME NEW h \in Streams, Return(h) PROVE Bounds'
  <2>1. /\ inbox' = [inbox EXCEPT ![h] = << >>] /\ since' = [since EXCEPT ![h] = [g \in Goroutines |-> 0]]
        /\ UNCHANGED published
    BY <1>9 DEF Return, Unsubscribe, Forget
  <2>2. \A k \in Streams : Len(inbox'[k]) <= InboxSize
    BY <2>1, EmptySeq, SizeAssumption DEF Bounds, TypeOK
  <2>3. \A k \in Streams, g \in Goroutines : since'[k][g] <= published'[g]
    BY <2>1 DEF Bounds, TypeOK
  <2>4. QED
    BY <2>2, <2>3 DEF Bounds
<1>10. CASE CloseBroker \/ UNCHANGED vars
  BY <1>1, <1>10 DEF CloseBroker, vars
<1>11. QED
  BY <1>3, <1>4, <1>5, <1>6, <1>7, <1>8, <1>9, <1>10
     DEF Next, PublishStep, StreamStep, WriteFails, ChannelClosed

LEMMA QuietStep == TypeOK /\ Writing /\ Locked /\ Shape /\ Quiet /\ [Next]_vars => Quiet'
<1> SUFFICES ASSUME TypeOK, Writing, Locked, Shape, Quiet, [Next]_vars, NEW h \in Streams, Idle(h)'
             PROVE  Flow(h)' = << >>
  BY DEF Quiet
<1> USE DEF run, channels, client, history, Goto
<1>1. CASE Idle(h) /\ Flow(h)' = Flow(h)
  BY <1>1 DEF Quiet
<1>2. CASE Idle(h) /\ UNCHANGED <<received, held, buffer, inbox>>
  BY <1>1, <1>2, FlowKept
<1>3. CASE UNCHANGED <<broker, stage, linked, disturbed, received, held, buffer, inbox>>
  BY <1>2, <1>3 DEF Idle, Open
<1>4. ASSUME NEW g \in Goroutines, NEW k \in Streams, Send(g, k) PROVE Flow(h)' = << >>
  <2>1. k \in sending[g] /\ UNCHANGED <<broker, stage, linked>> /\ disturbed \subseteq disturbed'
    BY <1>4 DEF Send, Offer
  <2>2. broker # "redis" /\ Open(k)
    BY <2>1 DEF Locked, NoSendOnClosed
  <2>3. inbox[k] = << >> /\ h # k /\ Idle(h)
    BY <2>1, <2>2 DEF Shape, TypeOK, Idle, Open
  <2>4. QED
    BY <1>1, <1>4, <2>3, FlowSend
<1>5. ASSUME NEW g \in Goroutines, PublishOnce(g) \/ PublishRepeated(g) \/ PublishFails(g) PROVE Flow(h)' = << >>
  <2>1. UNCHANGED <<broker, stage, linked, received, held, buffer>> /\ disturbed \subseteq disturbed'
    BY <1>5 DEF PublishOnce, PublishRepeated, PublishFails, RedisPublish
  <2>2. Idle(h) /\ (~Open(h) \/ ~linked[h])
    BY <2>1 DEF Idle, Open
  <2>3. h \notin Reached
    BY <2>2 DEF Reached, Shape
  <2>4. CASE PublishFails(g)
    BY <1>2, <2>1, <2>2, <2>4 DEF PublishFails
  <2>5. CASE PublishOnce(g) \/ PublishRepeated(g)
    <3>1. Flow(h)' = Flow(h)
      BY <2>1, <2>3, <2>5, FlowDeliver DEF PublishOnce, PublishRepeated
    <3>2. QED
      BY <1>1, <2>2, <3>1
  <2>6. QED
    BY <1>5, <2>4, <2>5
<1>6. ASSUME NEW g \in Goroutines, PublishLock(g) \/ PublishUnlock(g) PROVE Flow(h)' = << >>
  BY <1>3, <1>6 DEF PublishLock, PublishUnlock
<1>7. ASSUME NEW k \in Streams, Connect(k) \/ SubscribeLocal(k) \/ SubscribeRedis(k) PROVE Flow(h)' = << >>
  <2>1. Idle(h)
    BY <1>7 DEF Connect, SubscribeLocal, SubscribeRedis, Idle, Open, TypeOK
  <2>2. QED
    BY <1>2, <1>7, <2>1 DEF Connect, SubscribeLocal, SubscribeRedis
<1>8. ASSUME NEW k \in Streams, Link(k) \/ Unlink(k) PROVE Flow(h)' = << >>
  <2>1. Idle(h)
    BY <1>8 DEF Link, Unlink, Idle, Open, Shape, TypeOK
  <2>2. QED
    BY <1>2, <1>8, <2>1 DEF Link, Unlink
<1>9. ASSUME NEW k \in Streams, PumpEnds(k) \/ Leave(k) PROVE Flow(h)' = << >>
  BY <1>3, <1>9 DEF PumpEnds, Leave
<1>10. ASSUME NEW k \in Streams, Pump(k) \/ Receive(k) PROVE Flow(h)' = << >>
  <2>1. Idle(h)
    BY <1>10 DEF Pump, Receive, Idle, Open, TypeOK
  <2>2. QED
    BY <1>1, <1>10, <2>1, FlowPump, FlowReceive
<1>11. ASSUME NEW k \in Streams, Write(k) PROVE Flow(h)' = << >>
  <2>1. Idle(h)
    BY <1>11 DEF Write, Idle, Open, TypeOK
  <2>2. CASE h # k \/ ~gone[k]
    BY <1>1, <1>11, <2>1, <2>2, FlowWrite
  <2>3. CASE h = k /\ gone[k]
    <3>1. Flow(h) = << >>
      BY <2>1 DEF Quiet
    <3>2. Flow(h)' \in Seq(Events) /\ Len(Flow(h)') \in Nat /\ Len(received[h]) \in Nat /\ Len(Flow(h)) = 0
      BY <1>11, <2>3, <3>1, FlowWrite, FlowParts, LenProperties, EmptySeq
    <3>3. \A n \in 1..Len(Flow(h)') : (IF n <= Len(received[h]) THEN n ELSE n + 1) \in 1..Len(Flow(h))
      BY <1>11, <2>3, FlowWrite
    <3>4. Len(Flow(h)') = 0
      BY <3>2, <3>3
    <3>5. QED
      BY <3>2, <3>4, EmptySeq
  <2>4. QED
    BY <2>2, <2>3
<1>12. ASSUME NEW k \in Streams, Return(k) PROVE Flow(h)' = << >>
  <2>1. CASE h = k
    BY <1>12, <2>1, FlowReturn
  <2>2. CASE h # k
    <3>1. Idle(h)
      BY <1>12, <2>2 DEF Return, Unsubscribe, Forget, Idle, Open, TypeOK
    <3>2. QED
      BY <1>1, <1>12, <2>2, <3>1, FlowReturn
  <2>3. QED
    BY <2>1, <2>2
<1>13. CASE CloseBroker
  <2>1. Idle(h)
    BY <1>13 DEF CloseBroker, Idle, Open
  <2>2. QED
    BY <1>2, <1>13, <2>1 DEF CloseBroker
<1>14. CASE UNCHANGED vars
  BY <1>3, <1>14 DEF vars
<1>15. QED
  BY <1>4, <1>5, <1>6, <1>7, <1>8, <1>9, <1>10, <1>11, <1>12, <1>13, <1>14
     DEF Next, PublishStep, StreamStep, WriteFails, ChannelClosed

\* The events f are those numbered s + 1 to n of each goroutine, once each and in order.
Gapless(f, s, n) ==
    /\ f \in Seq(Events)
    /\ \A i, j \in 1..Len(f) : i < j /\ f[i][1] = f[j][1] => f[i][2] < f[j][2]
    /\ \A g \in Goroutines : Numbers(f, g) = s[g] + 1 .. n[g]

LEMMA GaplessEmpty ==
    ASSUME NEW s \in [Goroutines -> Nat], NEW n, \A g \in Goroutines : n[g] = s[g]
    PROVE  Gapless(<< >>, s, n)
<1>1. << >> \in Seq(Events) /\ 1..Len(<< >>) = {}
  BY EmptySeq
<1>2. \A g \in Goroutines : s[g] + 1 .. n[g] = {}
  OBVIOUS
<1>3. \A g \in Goroutines : Numbers(<< >>, g) = {}
  BY <1>1, Zenon DEF Numbers
<1>4. \A i, j \in 1..Len(<< >>) : i < j /\ << >>[i][1] = << >>[j][1] => << >>[i][2] < << >>[j][2]
  BY <1>1, Zenon
<1>5. QED
  BY <1>1, <1>2, <1>3, <1>4, Zenon DEF Gapless

LEMMA GaplessAppend ==
    ASSUME NEW f, NEW s \in [Goroutines -> Nat], NEW n \in [Goroutines -> Nat], NEW g \in Goroutines,
           Gapless(f, s, n), s[g] <= n[g], NEW e \in Events, e[1] = g, e[2] = n[g] + 1
    PROVE  Gapless(Append(f, e), s, [n EXCEPT ![g] = n[g] + 1])
<1> DEFINE a == Append(f, e)
           m == [n EXCEPT ![g] = n[g] + 1]
<1>1. f \in Seq(Events) /\ Len(f) \in Nat /\ n[g] \in Nat /\ s[g] \in Nat
  BY LenProperties DEF Gapless
<1>2. a \in Seq(Events) /\ Len(a) = Len(f) + 1 /\ (\A i \in 1..Len(f) : a[i] = f[i]) /\ a[Len(f) + 1] = e
  BY <1>1, AppendProperties
<1>3. m[g] = n[g] + 1 /\ \A k \in Goroutines \ {g} : m[k] = n[k]
  OBVIOUS
<1> HIDE DEF a, m
<1>4. 1..Len(a) = 1..Len(f) \cup {Len(f) + 1}
  BY <1>1, <1>2
<1>5. \A i \in 1..Len(f) : f[i][1] = g => f[i][2] \in Nat /\ f[i][2] < e[2]
  <2>1. TAKE i \in 1..Len(f)
  <2>2. HAVE f[i][1] = g
  <2>3. f[i][2] \in Numbers(f, g)
    BY <2>2 DEF Numbers
  <2>4. f[i][2] \in s[g] + 1 .. n[g]
    BY <2>3 DEF Gapless
  <2>5. QED
    BY <1>1, <2>4
<1>6. ASSUME NEW i \in 1..Len(a), NEW j \in 1..Len(a), i < j, a[i][1] = a[j][1] PROVE a[i][2] < a[j][2]
  <2>1. i \in 1..Len(f) /\ a[i] = f[i]
    BY <1>1, <1>2, <1>6
  <2>2. CASE j \in 1..Len(f)
    BY <1>2, <1>6, <2>1, <2>2 DEF Gapless
  <2>3. CASE j = Len(f) + 1
    <3>1. a[j] = e /\ f[i][1] = g
      BY <1>2, <1>6, <2>1, <2>3
    <3>2. QED
      BY <1>5, <2>1, <3>1
  <2>4. QED
    BY <1>4, <2>2, <2>3
<1>7. ASSUME NEW k \in Goroutines PROVE Numbers(a, k) = Numbers(f, k) \cup (IF k = g THEN {e[2]} ELSE {})
  <2>1. \A x : x \in Numbers(a, k) <=> \E i \in 1..Len(a) : a[i][1] = k /\ x = a[i][2]
    BY DEF Numbers
  <2>2. \A x : x \in Numbers(f, k) <=> \E i \in 1..Len(f) : f[i][1] = k /\ x = f[i][2]
    BY DEF Numbers
  <2>3. ASSUME NEW x PROVE x \in Numbers(a, k) <=> x \in Numbers(f, k) \/ (k = g /\ x = e[2])
    <3>1. (\E i \in 1..Len(a) : a[i][1] = k /\ x = a[i][2])
              <=> (\E i \in 1..Len(f) : f[i][1] = k /\ x = f[i][2]) \/ (e[1] = k /\ x = e[2])
      BY <1>2, <1>4
    <3>2. QED
      BY <2>1, <2>2, <3>1, Zenon
  <2>4. QED
    BY <2>3
<1>8. ASSUME NEW k \in Goroutines PROVE Numbers(a, k) = s[k] + 1 .. m[k]
  <2>1. Numbers(f, k) = s[k] + 1 .. n[k]
    BY DEF Gapless
  <2>2. CASE k = g
    <3>1. \A p, q \in Nat : p <= q => (p + 1 .. q) \cup {q + 1} = p + 1 .. q + 1
      OBVIOUS
    <3>2. (s[g] + 1 .. n[g]) \cup {n[g] + 1} = s[g] + 1 .. n[g] + 1
      BY <1>1, <3>1, Zenon
    <3>3. Numbers(a, g) = Numbers(f, g) \cup {n[g] + 1}
      BY <1>7, <2>2
    <3>4. QED
      BY <1>3, <2>1, <2>2, <3>2, <3>3, Zenon
  <2>3. CASE k # g
    BY <1>3, <1>7, <2>1, <2>3
  <2>4. QED
    BY <2>2, <2>3
<1>9. QED
  BY <1>2, <1>6, <1>8 DEF Gapless, a, m

\* What GapFree says of one stream, in terms of Gapless.
Whole(h) == h \notin disturbed /\ Subscribed(h) /\ ~gone[h] => Gapless(Flow(h), since[h], Offers(h))
Unbroken == \A h \in Streams : Whole(h)

LEMMA WholeKept ==
    ASSUME NEW h \in Streams, Whole(h), Flow(h)' = Flow(h), Offers(h)' = Offers(h), since'[h] = since[h],
           h \notin disturbed' /\ Subscribed(h)' /\ ~gone'[h] => h \notin disturbed /\ Subscribed(h) /\ ~gone[h]
    PROVE  Whole(h)'
BY DEF Whole

LEMMA WholeGrown ==
    ASSUME TypeOK, Bounds, NEW h \in Streams, Whole(h), NEW g \in Goroutines, Advanced(g, h),
           Flow(h)' = Append(Flow(h), Event(g)), since'[h] = since[h],
           h \notin disturbed' /\ Subscribed(h)' /\ ~gone'[h] => h \notin disturbed /\ Subscribed(h) /\ ~gone[h]
    PROVE  Whole(h)'
<1> SUFFICES ASSUME Gapless(Flow(h), since[h], Offers(h)) PROVE Gapless(Flow(h)', since'[h], Offers(h)')
  BY DEF Whole
<1>1. Offers(h) \in [Goroutines -> Nat] /\ Offers(h)[g] = published[g] /\ since[h] \in [Goroutines -> Nat]
  BY OfferedType DEF Advanced, Offers, TypeOK
<1>2. since[h][g] <= Offers(h)[g]
  BY <1>1 DEF Bounds
<1>3. Event(g) \in Events /\ Event(g)[1] = g /\ Event(g)[2] = Offers(h)[g] + 1
  BY <1>1, EventType DEF Event
<1>4. Gapless(Append(Flow(h), Event(g)), since[h], [Offers(h) EXCEPT ![g] = Offers(h)[g] + 1])
  BY <1>1, <1>2, <1>3, GaplessAppend
<1>5. QED
  BY <1>1, <1>4 DEF Advanced

(* A subscription begins with nothing, and nobody is publishing then. *)
LEMMA WholeBegins ==
    ASSUME TypeOK, NEW h \in Streams, Flow(h)' = << >>, publishing' = {}, published' = published,
           since'[h] = published
    PROVE  Whole(h)'
<1>1. published \in [Goroutines -> Nat] /\ \A g \in Goroutines : Offers(h)'[g] = published[g]
  BY DEF TypeOK, Offers, Offered
<1>2. Gapless(<< >>, published, Offers(h)')
  BY <1>1, GaplessEmpty
<1>3. QED
  BY <1>2 DEF Whole

LEMMA UnbrokenStep ==
    ASSUME StoredForm = Streams
    PROVE  TypeOK /\ Writing /\ Locked /\ Shape /\ Bounds /\ Quiet /\ Unbroken /\ [Next]_vars => Unbroken'
<1> SUFFICES ASSUME TypeOK, Writing, Locked, Shape, Bounds, Quiet, Unbroken, [Next]_vars, NEW h \in Streams
             PROVE  Whole(h)'
  BY DEF Unbroken
<1> USE DEF run, channels, client, history, Goto
<1>0. Whole(h) /\ Topic(h) = "stored"
  BY DEF Unbroken, Topic
<1>1. CASE /\ UNCHANGED <<published, publishing, sending>> /\ Flow(h)' = Flow(h) /\ since'[h] = since[h]
           /\ Subscribed(h)' => Subscribed(h)
           /\ gone[h] => gone'[h]
           /\ disturbed \subseteq disturbed'
  <2>1. Offers(h)' = Offers(h)
    BY <1>1, OffersSame
  <2>2. QED
    BY <1>0, <1>1, <2>1, WholeKept
<1>2. ASSUME NEW g \in Goroutines, PublishLock(g) PROVE Whole(h)'
  <2>1. UNCHANGED <<broker, stage, linked, disturbed, gone, since>> /\ broker = "local" /\ Flow(h)' = Flow(h)
    BY <1>2, FlowKept DEF PublishLock
  <2>2. CASE ~Open(h)
    BY <2>1, <2>2 DEF Whole, Subscribed, Open
  <2>3. CASE Open(h)
    <3>1. h \in Listening("stored")
      BY <1>0, <2>1, <2>3 DEF Locked, SubscribersExact, Topics
    <3>2. Offers(h)' = Offers(h)
      BY <1>2, <3>1, OffersLock
    <3>3. QED
      BY <1>0, <2>1, <3>2, WholeKept DEF Subscribed, Open
  <2>4. QED
    BY <2>2, <2>3
<1>3. ASSUME NEW g \in Goroutines, PublishUnlock(g) PROVE Whole(h)'
  <2>1. UNCHANGED <<broker, stage, linked, disturbed, gone, since>> /\ Flow(h)' = Flow(h)
    BY <1>3, FlowKept DEF PublishUnlock
  <2>2. Offers(h)' = Offers(h)
    BY <1>3, OffersUnlock
  <2>3. QED
    BY <1>0, <2>1, <2>2, WholeKept DEF Subscribed, Open
<1>4. ASSUME NEW g \in Goroutines, NEW k \in Streams, Send(g, k) PROVE Whole(h)'
  <2>1. /\ k \in sending[g] /\ UNCHANGED <<broker, stage, linked, gone, since>>
        /\ disturbed \subseteq disturbed'
    BY <1>4 DEF Send, Offer
  <2>2. inbox[k] = << >>
    BY <2>1 DEF Locked, Shape, TypeOK
  <2>3. Subscribed(h)' => Subscribed(h)
    BY <2>1 DEF Subscribed, Open
  <2>4. CASE h # k
    <3>1. Flow(h)' = Flow(h) /\ Offers(h)' = Offers(h)
      BY <1>4, <2>2, <2>4, FlowSend, OffersSend
    <3>2. QED
      BY <1>0, <2>1, <2>3, <3>1, WholeKept
  <2>5. CASE h = k /\ h \in disturbed'
    BY <2>5 DEF Whole
  <2>6. CASE h = k /\ h \notin disturbed'
    <3>1. Flow(h)' = Append(Flow(h), Event(g)) /\ Advanced(g, h)
      BY <1>4, <2>2, <2>6, FlowSend, OffersSend
    <3>2. QED
      BY <1>0, <2>1, <2>3, <3>1, WholeGrown
  <2>7. QED
    BY <2>4, <2>5, <2>6
<1>5. ASSUME NEW g \in Goroutines, PublishOnce(g) \/ PublishRepeated(g) \/ PublishFails(g) PROVE Whole(h)'
  <2>1. /\ RedisPublish(g) /\ broker = "redis"
        /\ UNCHANGED <<broker, stage, linked, gone, since, received, held, buffer>>
        /\ disturbed \subseteq disturbed'
    BY <1>5 DEF PublishOnce, PublishRepeated, PublishFails, RedisPublish
  <2>2. SUFFICES ASSUME h \notin disturbed', linked[h] PROVE Whole(h)'
    BY <2>1 DEF Whole, Subscribed
  <2>3. h \in Reached
    BY <1>0, <2>2 DEF Reached
  <2>4. PublishOnce(g) /\ Room(h) # 0
    BY <1>5, <2>2, <2>3 DEF PublishOnce, PublishRepeated, PublishFails
  <2>5. Room(h) >= 1
    BY <2>4, LenProperties, SizeAssumption DEF Room, Bounds, TypeOK
  <2>6. Flow(h)' = Append(Flow(h), Event(g)) /\ Advanced(g, h)
    BY <2>1, <2>3, <2>4, <2>5, FlowDeliver, OffersRedis DEF PublishOnce
  <2>7. Subscribed(h)' => Subscribed(h)
    BY <2>1 DEF Subscribed, Open
  <2>8. QED
    BY <1>0, <2>1, <2>6, <2>7, WholeGrown
<1>6. ASSUME NEW k \in Streams, Connect(k) PROVE Whole(h)'
  <2>1. Flow(h)' = Flow(h) /\ (Subscribed(h)' => Subscribed(h))
    BY <1>6, FlowKept DEF Connect, Subscribed, Open, TypeOK
  <2>2. QED
    BY <1>1, <1>6, <2>1 DEF Connect
<1>7. ASSUME NEW k \in Streams, SubscribeLocal(k) PROVE Whole(h)'
  <2>1. Flow(h)' = Flow(h)
    BY <1>7, FlowKept DEF SubscribeLocal
  <2>2. CASE h = k
    <3>1. Flow(h) = << >>
      BY <1>7, <2>2 DEF SubscribeLocal, Quiet, Idle, Open
    <3>2. QED
      BY <1>7, <2>1, <2>2, <3>1, WholeBegins DEF SubscribeLocal, TypeOK
  <2>3. CASE h # k
    BY <1>1, <1>7, <2>1, <2>3 DEF SubscribeLocal, Subscribed, Open, TypeOK
  <2>4. QED
    BY <2>2, <2>3
<1>8. ASSUME NEW k \in Streams, SubscribeRedis(k) PROVE Whole(h)'
  <2>1. Flow(h)' = Flow(h)
    BY <1>8, FlowKept DEF SubscribeRedis
  <2>2. CASE h = k
    <3>1. ~linked'[h] /\ broker' = "redis"
      BY <1>8, <2>2 DEF SubscribeRedis, Shape, Open, TypeOK
    <3>2. QED
      BY <3>1 DEF Whole, Subscribed
  <2>3. CASE h # k
    BY <1>1, <1>8, <2>1, <2>3 DEF SubscribeRedis, Subscribed, Open, TypeOK
  <2>4. QED
    BY <2>2, <2>3
<1>9. ASSUME NEW k \in Streams, Link(k) PROVE Whole(h)'
  <2>1. Flow(h)' = Flow(h) /\ publishing' = {}
    BY <1>9, FlowKept DEF Link, Locked
  <2>2. CASE h = k /\ h \notin disturbed
    <3>1. Flow(h) = << >>
      BY <1>9, <2>2 DEF Link, Quiet, Idle
    <3>2. QED
      BY <1>9, <2>1, <2>2, <3>1, WholeBegins DEF Link, TypeOK
  <2>3. CASE h \in disturbed
    BY <1>9, <2>3 DEF Link, Whole
  <2>4. CASE h # k
    BY <1>1, <1>9, <2>1, <2>4 DEF Link, Subscribed, Open, TypeOK
  <2>5. QED
    BY <2>2, <2>3, <2>4
<1>10. ASSUME NEW k \in Streams, Unlink(k) \/ PumpEnds(k) \/ Leave(k) PROVE Whole(h)'
  <2>1. Flow(h)' = Flow(h) /\ (Subscribed(h)' => Subscribed(h))
    BY <1>10, FlowKept DEF Unlink, PumpEnds, Leave, Subscribed, Open, TypeOK
  <2>2. UNCHANGED <<published, publishing, sending, since>> /\ disturbed \subseteq disturbed' /\ (gone[h] => gone'[h])
    BY <1>10 DEF Unlink, PumpEnds, Leave, TypeOK
  <2>3. QED
    BY <1>1, <2>1, <2>2
<1>11. ASSUME NEW k \in Streams, Pump(k) \/ Receive(k) PROVE Whole(h)'
  <2>1. Flow(h)' = Flow(h)
    BY <1>11, FlowPump, FlowReceive
  <2>2. Subscribed(h)' => Subscribed(h)
    BY <1>11 DEF Pump, Receive, Subscribed, Open, TypeOK
  <2>3. QED
    BY <1>1, <1>11, <2>1, <2>2 DEF Pump, Receive
<1>12. ASSUME NEW k \in Streams, Write(k) PROVE Whole(h)'
  <2>1. Subscribed(h)' => Subscribed(h)
    BY <1>12 DEF Write, Subscribed, Open, TypeOK
  <2>2. CASE h = k /\ gone[k]
    BY <1>12, <2>2 DEF Write, Whole
  <2>3. CASE h # k \/ ~gone[k]
    <3>1. Flow(h)' = Flow(h)
      BY <1>12, <2>3, FlowWrite
    <3>2. QED
      BY <1>1, <1>12, <2>1, <3>1 DEF Write
  <2>4. QED
    BY <2>2, <2>3
<1>13. ASSUME NEW k \in Streams, Return(k) PROVE Whole(h)'
  <2>1. CASE h = k
    BY <1>13, <2>1 DEF Return, Whole, Subscribed, Open, TypeOK
  <2>2. CASE h # k
    <3>1. Flow(h)' = Flow(h)
      BY <1>13, <2>2, FlowReturn
    <3>2. Subscribed(h)' => Subscribed(h)
      BY <1>13, <2>2 DEF Return, Unsubscribe, Forget, Subscribed, Open, TypeOK
    <3>3. since'[h] = since[h]
      BY <1>13, <2>2 DEF Return, TypeOK
    <3>4. QED
      BY <1>1, <1>13, <3>1, <3>2, <3>3 DEF Return
  <2>3. QED
    BY <2>1, <2>2
<1>14. CASE CloseBroker
  BY <1>14 DEF CloseBroker, Whole, Subscribed
<1>15. CASE UNCHANGED vars
  BY <1>0, <1>15 DEF vars, Whole, Subscribed, Open, Flow, Offers, Offered
<1>16. QED
  BY <1>2, <1>3, <1>4, <1>5, <1>6, <1>7, <1>8, <1>9, <1>10, <1>11, <1>12, <1>13, <1>14, <1>15
     DEF Next, PublishStep, StreamStep, WriteFails, ChannelClosed

LEMMA QuietInductive == Spec => [](Bounds /\ Quiet)
<1>1. Init => Bounds /\ Quiet
  <2> SUFFICES ASSUME Init PROVE Bounds /\ Quiet
    OBVIOUS
  <2>1. << >> \in Seq(Events) /\ << >> \o << >> = << >> /\ Len(<< >>) = 0
    BY EmptySeq, ConcatEmptySeq
  <2>2. \A h \in Streams : Flow(h) = << >>
    BY <2>1 DEF Init, Flow
  <2>3. Bounds
    BY <2>1, SizeAssumption DEF Init, Bounds
  <2>4. QED
    BY <2>2, <2>3 DEF Quiet
<1>2. QED
  BY <1>1, BoundsStep, QuietStep, WritingInductive, LockedInductive, OrderedInductive, PTL DEF Spec

(***************************************************************************)
(* Where every path spells the execution id as the store does, a stream    *)
(* that was not disturbed has every event published since it subscribed,   *)
(* once each and in order.                                                 *)
(***************************************************************************)
THEOREM StreamGapFree ==
    ASSUME StoredForm = Streams
    PROVE  Spec => []GapFree
<1>1. Init => Unbroken
  BY DEF Init, Unbroken, Whole, Subscribed, Open
<1>2. TypeOK /\ Writing /\ Locked /\ Shape /\ Bounds /\ Quiet /\ Unbroken /\ [Next]_vars => Unbroken'
  BY UnbrokenStep
<1>3. Unbroken => GapFree
  BY DEF Unbroken, Whole, Gapless, GapFree, Offers
<1>4. QED
  BY <1>1, <1>2, <1>3, WritingInductive, LockedInductive, OrderedInductive, QuietInductive, PTL DEF Spec
=============================================================================
