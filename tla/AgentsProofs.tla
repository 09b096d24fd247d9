---------------------------- MODULE AgentsProofs ----------------------------
(***************************************************************************)
(* Proofs about Agents for any number of clients, agents, names, contents  *)
(* and versions.                                                           *)
(***************************************************************************)
EXTENDS Agents, SequenceTheorems, TLAPS

Loaded == [pc : {"loaded"}, id : AgentIds, name : Names, content : Contents, version : Nat \ {0}]

(* A handler that is not idle holds a copy of an agent. *)
LEMMA ClientLoaded == ASSUME TypeOK, NEW c \in Clients, client[c] # Idle PROVE client[c] \in Loaded
BY DEF TypeOK, Loaded

(* Every write of an update takes the agent from one live state to another. *)
LEMMA UpdateWrites ==
    ASSUME TypeOK, NEW c \in Clients, client[c] # Idle,
           MemoryUpdate(client[c]) \/ PostgresUpdate(client[c])
    PROVE  \E a \in AgentIds, n \in Names, p \in Nat \X Contents, rows \in SUBSET (Nat \X Contents) :
              /\ a = client[c].id /\ p = Row(client[c]) /\ p[1] # 0 /\ p[1] = client[c].version
              /\ Live(a)
              /\ version'  = [version EXCEPT ![a] = p[1]]
              /\ name'     = [name EXCEPT ![a] = n]
              /\ versions' = [versions EXCEPT ![a] = rows]
              /\ adapter = "postgres" => rows = versions[a] \cup {p} /\ p[1] \notin Numbers(a)
<1>1. client[c] \in Loaded
  BY ClientLoaded
<1> DEFINE a == client[c].id
           p == Row(client[c])
<1>2. /\ a \in AgentIds /\ client[c].name \in Names
      /\ client[c].version \in Nat /\ client[c].version # 0
      /\ p \in Nat \X Contents /\ p[1] = client[c].version
  BY <1>1 DEF Loaded, Row
<1>3. versions[a] \in SUBSET (Nat \X Contents)
  BY <1>2 DEF TypeOK
<1>4. PICK rows \in SUBSET (Nat \X Contents) :
         /\ WriteRow(client[c], rows) /\ Live(a)
         /\ adapter = "postgres" => rows = versions[a] \cup {p} /\ p[1] \notin Numbers(a)
  <2>1. CASE MemoryUpdate(client[c])
    <3>1. {p} \in SUBSET (Nat \X Contents)
      BY <1>2
    <3>2. QED
      BY <2>1, <3>1 DEF MemoryUpdate, MemoryAccepts
  <2>2. CASE PostgresUpdate(client[c])
    <3>1. versions[a] \cup {p} \in SUBSET (Nat \X Contents)
      BY <1>2, <1>3
    <3>2. QED
      BY <1>2, <2>2, <3>1 DEF PostgresUpdate, PostgresAccepts
  <2>3. QED
    BY <2>1, <2>2
<1>5. QED
  BY <1>2, <1>4 DEF WriteRow

(* Agents, versions and handlers stay in their types. *)
THEOREM AgentsTypeOK == Spec => []TypeOK
<1>1. Init => TypeOK
  BY AdaptersAssumption DEF Init, TypeOK, Live, NoName
<1>2. TypeOK /\ [Next]_vars => TypeOK'
  <2> SUFFICES ASSUME TypeOK, [Next]_vars PROVE TypeOK'
    OBVIOUS
  <2> USE DEF NoName
  <2>0. adapter' \in {"memory", "postgres"}
    BY DEF TypeOK, Next, vars
  <2>1. ASSUME NEW a \in AgentIds, DeleteAgent(a) PROVE TypeOK'
    BY <2>0, <2>1 DEF TypeOK, DeleteAgent, Live
  <2>2. ASSUME NEW a \in AgentIds, NEW n \in Names, NEW x \in Contents,
               CreateAgent(a, n, x) \/ CreateUnanswered(a, n, x)
        PROVE  TypeOK'
    <3>1. InsertAgent(a, n, x) /\ (Acknowledge(a, 1, x) \/ UNCHANGED acked)
      BY <2>2 DEF CreateAgent, CreateUnanswered
    <3>2. acked' \in [AgentIds -> SUBSET (Nat \X Contents)]
      BY <3>1 DEF TypeOK, Acknowledge
    <3>3. /\ version' \in [AgentIds -> Nat] /\ name' \in [AgentIds -> Names \cup {NoName}]
          /\ used' \subseteq AgentIds /\ client' = client
      BY <3>1 DEF TypeOK, InsertAgent
    <3>4. versions' \in [AgentIds -> SUBSET (Nat \X Contents)]
      BY <3>1 DEF TypeOK, InsertAgent
    <3>5. \A b \in AgentIds : Live(b)' <=> name'[b] # NoName
      BY <3>1, NamesAssumption DEF TypeOK, InsertAgent, Live
    <3>6. QED
      BY <2>0, <3>2, <3>3, <3>4, <3>5 DEF TypeOK
  <2>3. ASSUME NEW c \in Clients, NEW a \in AgentIds, NEW n \in Names, NEW x \in Contents,
               LoadAgent(c, a, n, x)
        PROVE  TypeOK'
    BY <2>0, <2>3 DEF TypeOK, LoadAgent, Live
  <2>4. ASSUME NEW c \in Clients, StoreUpdate(c) \/ UpdateUnanswered(c) PROVE TypeOK'
    <3>1. client[c] # Idle /\ Finish(c)
      BY <2>4 DEF StoreUpdate, UpdateUnanswered
    <3>2. client[c] \in Loaded
      BY <3>1, ClientLoaded
    <3>3. /\ client' \in [Clients -> {Idle} \cup Loaded]
          /\ used' \subseteq AgentIds
      BY <3>1 DEF TypeOK, Finish, Loaded
    <3>4. acked' \in [AgentIds -> SUBSET (Nat \X Contents)]
      BY <2>4, <3>2 DEF TypeOK, StoreUpdate, UpdateUnanswered, Acknowledge, Loaded
    <3>5. CASE UNCHANGED <<version, name, versions>>
      BY <2>0, <3>3, <3>4, <3>5 DEF TypeOK, Live, Loaded
    <3>6. CASE MemoryUpdate(client[c]) \/ PostgresUpdate(client[c])
      BY <2>0, <3>1, <3>3, <3>4, <3>6, UpdateWrites, NamesAssumption DEF TypeOK, Live, Loaded
    <3>7. QED
      BY <2>4, <3>5, <3>6 DEF StoreUpdate, UpdateUnanswered
  <2>5. CASE UNCHANGED vars
    BY <2>0, <2>5 DEF TypeOK, vars, Live
  <2>6. QED
    BY <2>1, <2>2, <2>3, <2>4, <2>5 DEF Next, Step
<1>3. QED
  BY <1>1, <1>2, PTL DEF Spec

-----------------------------------------------------------------------------
(***************************************************************************)
(* An agent that was deleted is not brought back by an update that read it *)
(* earlier, with either store.                                             *)
(***************************************************************************)
THEOREM AgentsDeletedStaysDeleted == Spec => DeletedStaysDeleted
<1>1. TypeOK /\ [Next]_vars => [\A a \in used : ~Live(a) => ~Live(a)']_vars
  <2> SUFFICES ASSUME TypeOK, [Next]_vars, NEW b \in used, ~Live(b) PROVE ~Live(b)'
    OBVIOUS
  <2>0. b \in AgentIds
    BY DEF TypeOK
  <2>1. ASSUME NEW a \in AgentIds, DeleteAgent(a) PROVE ~Live(b)'
    BY <2>0, <2>1 DEF TypeOK, DeleteAgent, Live
  <2>2. ASSUME NEW a \in AgentIds, NEW n \in Names, NEW x \in Contents,
               CreateAgent(a, n, x) \/ CreateUnanswered(a, n, x)
        PROVE  ~Live(b)'
    BY <2>0, <2>2 DEF TypeOK, CreateAgent, CreateUnanswered, InsertAgent, Live
  <2>3. ASSUME NEW c \in Clients, NEW a \in AgentIds, NEW n \in Names, NEW x \in Contents,
               LoadAgent(c, a, n, x)
        PROVE  ~Live(b)'
    BY <2>3 DEF LoadAgent, Live
  <2>4. ASSUME NEW c \in Clients, StoreUpdate(c) \/ UpdateUnanswered(c) PROVE ~Live(b)'
    <3>1. CASE UNCHANGED <<version, name, versions>>
      BY <3>1 DEF Live
    <3>2. CASE MemoryUpdate(client[c]) \/ PostgresUpdate(client[c])
      <4>1. client[c] # Idle
        BY <2>4 DEF StoreUpdate, UpdateUnanswered
      <4>2. QED
        BY <2>0, <3>2, <4>1, UpdateWrites DEF TypeOK, Live
    <3>3. QED
      BY <2>4, <3>1, <3>2 DEF StoreUpdate, UpdateUnanswered
  <2>5. CASE UNCHANGED vars
    BY <2>5 DEF vars, Live
  <2>6. QED
    BY <2>1, <2>2, <2>3, <2>4, <2>5 DEF Next, Step
<1>2. QED
  BY <1>1, AgentsTypeOK, PTL DEF Spec, DeletedStaysDeleted

-----------------------------------------------------------------------------
(***************************************************************************)
(* With PostgreSQL: the version history has no gaps and no duplicates, and *)
(* no acknowledged version is lost.  Inductively, ids that were not drawn  *)
(* have no trace in the store, and a handler's copy is at most one version *)
(* ahead of the agent it will write.                                       *)
(***************************************************************************)
UndrawnUnknown == \A a \in AgentIds : a \notin used => version[a] = 0 /\ acked[a] = {}

ClientsNotAhead ==
    \A c \in Clients : client[c] # Idle =>
        /\ client[c].id \in used
        /\ Live(client[c].id) => client[c].version <= version[client[c].id] + 1

HistoryInv ==
    adapter = "postgres" =>
        UndrawnUnknown /\ ClientsNotAhead /\ VersionsContiguous /\ AcknowledgedVersionsKept

LEMMA HistoryStep ==
    ASSUME adapter = "postgres", adapter' = adapter, TypeOK, HistoryInv, [Next]_vars
    PROVE  HistoryInv'
<1> USE DEF HistoryInv
<1>1. ASSUME NEW a \in AgentIds, DeleteAgent(a) PROVE HistoryInv'
  <2>1. UndrawnUnknown'
    BY <1>1 DEF UndrawnUnknown, DeleteAgent, TypeOK
  <2>2. ClientsNotAhead'
    BY <1>1 DEF ClientsNotAhead, DeleteAgent, TypeOK, Live
  <2>3. VersionsContiguous'
    <3> SUFFICES ASSUME NEW b \in AgentIds
                 PROVE  /\ {row[1] : row \in versions'[b]} = 1..version'[b]
                        /\ \A p, q \in versions'[b] : p[1] = q[1] => p = q
      BY DEF VersionsContiguous, Numbers
    <3>1. CASE b = a
      BY <1>1, <3>1 DEF DeleteAgent, TypeOK
    <3>2. CASE b # a
      BY <1>1, <3>2 DEF DeleteAgent, TypeOK, VersionsContiguous, Numbers
    <3>3. QED
      BY <3>1, <3>2
  <2>4. AcknowledgedVersionsKept'
    BY <1>1 DEF AcknowledgedVersionsKept, DeleteAgent, TypeOK, Live
  <2>5. QED
    BY <2>1, <2>2, <2>3, <2>4
<1>2. ASSUME NEW a \in AgentIds, NEW n \in Names, NEW x \in Contents,
             CreateAgent(a, n, x) \/ CreateUnanswered(a, n, x)
      PROVE  HistoryInv'
  <2>1. InsertAgent(a, n, x) /\ (Acknowledge(a, 1, x) \/ UNCHANGED acked)
    BY <1>2 DEF CreateAgent, CreateUnanswered
  <2>2. acked[a] = {} /\ version[a] = 0
    BY <2>1 DEF InsertAgent, UndrawnUnknown
  <2>3. UndrawnUnknown'
    BY <2>1 DEF UndrawnUnknown, InsertAgent, Acknowledge, TypeOK
  <2>4. ClientsNotAhead'
    BY <2>1 DEF ClientsNotAhead, InsertAgent, TypeOK, Live
  <2>5. VersionsContiguous'
    <3> SUFFICES ASSUME NEW b \in AgentIds
                 PROVE  /\ {row[1] : row \in versions'[b]} = 1..version'[b]
                        /\ \A p, q \in versions'[b] : p[1] = q[1] => p = q
      BY DEF VersionsContiguous, Numbers
    <3>1. CASE b = a
      <4>1. versions'[b] = {<<1, x>>} /\ version'[b] = 1
        BY <2>1, <3>1 DEF InsertAgent, TypeOK
      <4>2. QED
        BY <4>1
    <3>2. CASE b # a
      BY <2>1, <3>2 DEF InsertAgent, TypeOK, VersionsContiguous, Numbers
    <3>3. QED
      BY <3>1, <3>2
  <2>6. AcknowledgedVersionsKept'
    BY <2>1, <2>2 DEF AcknowledgedVersionsKept, InsertAgent, Acknowledge, TypeOK, Live
  <2>7. QED
    BY <2>3, <2>4, <2>5, <2>6
<1>3. ASSUME NEW c \in Clients, NEW a \in AgentIds, NEW n \in Names, NEW x \in Contents,
             LoadAgent(c, a, n, x)
      PROVE  HistoryInv'
  <2>1. UNCHANGED <<version, versions, used, acked>>
    BY <1>3 DEF LoadAgent
  <2>2. a \in used
    BY <1>3 DEF LoadAgent, Live, UndrawnUnknown
  <2>3. ClientsNotAhead'
    BY <1>3, <2>2 DEF LoadAgent, ClientsNotAhead, TypeOK, Live
  <2>4. QED
    BY <2>1, <2>3 DEF UndrawnUnknown, VersionsContiguous, Numbers, AcknowledgedVersionsKept, Live
<1>4. ASSUME NEW c \in Clients, StoreUpdate(c) \/ UpdateUnanswered(c) PROVE HistoryInv'
  <2>1. client[c] # Idle /\ Finish(c)
    BY <1>4 DEF StoreUpdate, UpdateUnanswered
  <2>2. CASE UNCHANGED <<version, name, versions>> /\ UNCHANGED acked
    BY <2>1, <2>2 DEF Finish, UndrawnUnknown, ClientsNotAhead, VersionsContiguous, Numbers,
                      AcknowledgedVersionsKept, Live, TypeOK
  <2>3. CASE MemoryUpdate(client[c]) \/ PostgresUpdate(client[c])
    <3>1. PICK a \in AgentIds, n \in Names, p \in Nat \X Contents :
             /\ a = client[c].id /\ p = Row(client[c]) /\ p[1] # 0 /\ p[1] = client[c].version
             /\ Live(a) /\ p[1] \notin Numbers(a)
             /\ version'  = [version EXCEPT ![a] = p[1]]
             /\ versions' = [versions EXCEPT ![a] = versions[a] \cup {p}]
      BY <2>1, <2>3, UpdateWrites
    <3>2. version[a] \in Nat /\ p[1] \in Nat
      BY DEF TypeOK
    <3>3. p[1] = version[a] + 1
      <4>1. p[1] <= version[a] + 1
        BY <2>1, <3>1 DEF ClientsNotAhead
      <4>2. p[1] \notin 1..version[a]
        BY <3>1 DEF VersionsContiguous
      <4>3. QED
        BY <3>1, <3>2, <4>1, <4>2
    <3>4. a \in used /\ used' = used
      BY <2>1, <3>1 DEF ClientsNotAhead, Finish
    <3>5. acked' = acked \/ acked' = [acked EXCEPT ![a] = @ \cup {p}]
      BY <1>4, <3>1 DEF StoreUpdate, UpdateUnanswered, Acknowledge, Row
    <3>6. UndrawnUnknown'
      BY <3>1, <3>4, <3>5 DEF UndrawnUnknown, TypeOK
    <3>7. ClientsNotAhead'
      BY <2>1, <3>1, <3>2, <3>3, <3>4 DEF ClientsNotAhead, Finish, TypeOK, Live
    <3>8. VersionsContiguous'
      <4> SUFFICES ASSUME NEW b \in AgentIds
                   PROVE  /\ {row[1] : row \in versions'[b]} = 1..version'[b]
                          /\ \A q, r \in versions'[b] : q[1] = r[1] => q = r
        BY DEF VersionsContiguous, Numbers
      <4>1. CASE b = a
        <5>1. versions'[b] = versions[a] \cup {p} /\ version'[b] = p[1]
          BY <3>1, <4>1 DEF TypeOK
        <5>2. /\ versions[a] \in SUBSET (Nat \X Contents)
              /\ {row[1] : row \in versions[a]} = 1..version[a]
              /\ \A q, r \in versions[a] : q[1] = r[1] => q = r
          BY DEF VersionsContiguous, Numbers, TypeOK
        <5>3. {row[1] : row \in versions'[b]} = {row[1] : row \in versions[a]} \cup {p[1]}
          BY <5>1
        <5>4. (1..version[a]) \cup {version[a] + 1} = 1..(version[a] + 1)
          BY <3>2
        <5>5. {row[1] : row \in versions'[b]} = 1..version'[b]
          BY <3>3, <5>1, <5>2, <5>3, <5>4
        <5>6. \A q \in versions[a] : q[1] # p[1]
          BY <3>1 DEF Numbers
        <5>7. QED
          BY <5>1, <5>2, <5>5, <5>6
      <4>2. CASE b # a
        BY <3>1, <4>2 DEF TypeOK, VersionsContiguous, Numbers
      <4>3. QED
        BY <4>1, <4>2
    <3>9. AcknowledgedVersionsKept'
      BY <3>1, <3>5 DEF AcknowledgedVersionsKept, TypeOK, Live
    <3>10. QED
      BY <3>6, <3>7, <3>8, <3>9
  <2>4. QED
    BY <1>4, <2>2, <2>3 DEF StoreUpdate, UpdateUnanswered
<1>5. CASE UNCHANGED vars
  BY <1>5 DEF vars, UndrawnUnknown, ClientsNotAhead, VersionsContiguous, Numbers,
              AcknowledgedVersionsKept, Live
<1>6. QED
  BY <1>1, <1>2, <1>3, <1>4, <1>5 DEF Next, Step

LEMMA HistoryInvariant == Spec => []HistoryInv
<1>1. Init => HistoryInv
  <2> SUFFICES ASSUME Init PROVE HistoryInv
    OBVIOUS
  <2>1. VersionsContiguous
    BY DEF Init, VersionsContiguous, Numbers
  <2>2. QED
    BY <2>1 DEF Init, HistoryInv, UndrawnUnknown, ClientsNotAhead, AcknowledgedVersionsKept, Live
<1>2. TypeOK /\ HistoryInv /\ [Next]_vars => HistoryInv'
  <2> SUFFICES ASSUME TypeOK, HistoryInv, [Next]_vars PROVE HistoryInv'
    OBVIOUS
  <2>1. adapter' = adapter
    BY DEF Next, vars
  <2>2. CASE adapter = "postgres"
    BY <2>1, <2>2, HistoryStep
  <2>3. CASE adapter # "postgres"
    BY <2>1, <2>3 DEF HistoryInv
  <2>4. QED
    BY <2>2, <2>3
<1>3. QED
  BY <1>1, <1>2, AgentsTypeOK, PTL DEF Spec

(* With PostgreSQL agent_versions has exactly the rows 1 .. current_version of every agent. *)
THEOREM AgentsVersionsContiguous == Spec => []VersionsContiguous
<1>1. HistoryInv => VersionsContiguous
  BY DEF HistoryInv, VersionsContiguous
<1>2. QED
  BY <1>1, HistoryInvariant, PTL

(* A version that was answered with success stays stored as it was written. *)
THEOREM AgentsAcknowledgedVersionsKept == Spec => []AcknowledgedVersionsKept
<1>1. HistoryInv => AcknowledgedVersionsKept
  BY DEF HistoryInv, AcknowledgedVersionsKept
<1>2. QED
  BY <1>1, HistoryInvariant, PTL

-----------------------------------------------------------------------------
(***************************************************************************)
(* The refinement of AgentHistory.  Under HistoryInv the rows of an agent  *)
(* are a sequence; a committed update appends to it, because its version   *)
(* is neither stored nor beyond the next one, and every other step leaves  *)
(* the sequences alone.                                                    *)
(***************************************************************************)
Definitions(a) ==
    [v \in 1..(IF adapter = "postgres" THEN version[a] ELSE 0) |-> ContentOf(a, v)]

Histories == [a \in AgentIds |-> Definitions(a)]
Dead      == {a \in used : adapter = "postgres" /\ ~Live(a)}

(* Functions on an interval are sequences. *)
LEMMA IntervalFunction ==
    ASSUME NEW S, NEW n \in Nat, NEW f \in [1..n -> S]
    PROVE  f \in Seq(S) /\ Len(f) = n
OBVIOUS

LEMMA NoneIsEmpty == ASSUME NEW S, NEW f \in [1..0 -> S] PROVE f = << >>
BY IntervalFunction, EmptySeq

LEMMA OneMoreIsAppend ==
    ASSUME NEW S, NEW n \in Nat, NEW f \in [1..n -> S], NEW g \in [1..(n+1) -> S],
           \A i \in 1..n : g[i] = f[i]
    PROVE  g = Append(f, g[n+1])
<1>1. f \in Seq(S) /\ Len(f) = n
  BY IntervalFunction
<1>2. g \in Seq(S) /\ Len(g) = n + 1 /\ g[n+1] \in S
  BY IntervalFunction
<1> DEFINE h == Append(f, g[n+1])
<1>3. h \in Seq(S) /\ Len(h) = n + 1 /\ h[n+1] = g[n+1] /\ \A i \in 1..n : h[i] = f[i]
  BY <1>1, <1>2, AppendProperties
<1>4. \A i \in 1..(n+1) : i = n + 1 \/ i \in 1..n
  OBVIOUS
<1> HIDE DEF h
<1>5. \A i \in 1..Len(g) : g[i] = h[i]
  BY <1>2, <1>3, <1>4
<1>6. g = h
  BY <1>2, <1>3, <1>5, SeqEqual
<1>7. QED
  BY <1>6 DEF h

(* GetAgent's join finds the one row of a version. *)
LEMMA ChosenRow ==
    ASSUME NEW S \in SUBSET (Nat \X Contents), \A p, q \in S : p[1] = q[1] => p = q, NEW r \in S
    PROVE  (CHOOSE row \in S : row[1] = r[1])[2] = r[2]
<1>1. \E row \in S : row[1] = r[1]
  OBVIOUS
<1> DEFINE c == CHOOSE row \in S : row[1] = r[1]
<1>2. c \in S /\ c[1] = r[1]
  BY <1>1
<1>3. c = r
  BY <1>2
<1>4. QED
  BY <1>3

LEMMA DefinitionsType ==
    ASSUME TypeOK, HistoryInv, adapter = "postgres", NEW a \in AgentIds
    PROVE  /\ Definitions(a) \in [1..version[a] -> Contents]
           /\ \A r \in versions[a] : r[1] \in 1..version[a] /\ Definitions(a)[r[1]] = r[2]
<1>1. /\ versions[a] \in SUBSET (Nat \X Contents) /\ version[a] \in Nat
      /\ {row[1] : row \in versions[a]} = 1..version[a]
      /\ \A p, q \in versions[a] : p[1] = q[1] => p = q
  BY DEF TypeOK, HistoryInv, VersionsContiguous, Numbers
<1>2. \A r \in versions[a] : ContentOf(a, r[1]) = r[2] /\ r[1] \in 1..version[a] /\ r[2] \in Contents
  BY <1>1, ChosenRow DEF ContentOf
<1>3. \A v \in 1..version[a] : \E r \in versions[a] : r[1] = v
  BY <1>1
<1>4. \A v \in 1..version[a] : ContentOf(a, v) \in Contents
  BY <1>2, <1>3
<1>5. Definitions(a) = [v \in 1..version[a] |-> ContentOf(a, v)]
  BY DEF Definitions
<1>6. QED
  BY <1>2, <1>4, <1>5

LEMMA DefinitionsSame ==
    ASSUME NEW a, adapter' = adapter, version'[a] = version[a], versions'[a] = versions[a]
    PROVE  Definitions(a)' = Definitions(a)
BY DEF Definitions, ContentOf

Sequenced ==
    adapter = "postgres" => \A a \in AgentIds :
        /\ Definitions(a) \in [1..version[a] -> Contents]
        /\ \A r \in versions[a] : r[1] \in 1..version[a] /\ Definitions(a)[r[1]] = r[2]

LEMMA SequencedInvariant == Spec => []Sequenced
<1>1. TypeOK /\ HistoryInv => Sequenced
  BY DefinitionsType DEF Sequenced
<1>2. QED
  BY <1>1, AgentsTypeOK, HistoryInvariant, PTL

(* The steps of the abstract history, in terms of the rows. *)
LEMMA HistoryCreates ==
    ASSUME NEW a \in AgentIds, NEW x \in Contents, Histories[a] = << >>, a \notin Dead,
           Histories' = [Histories EXCEPT ![a] = <<x>>], Dead' = Dead
    PROVE  History!Next
<1>1. History!CreateAgent(a, x)
  BY Zenon DEF History!CreateAgent, Histories, Dead, Definitions
<1>2. QED
  BY <1>1, Zenon DEF History!Next

LEMMA HistoryUpdates ==
    ASSUME NEW a \in AgentIds, NEW x \in Contents, Histories[a] # << >>,
           Histories' = [Histories EXCEPT ![a] = Append(Histories[a], x)], Dead' = Dead
    PROVE  History!Next
<1>1. History!UpdateAgent(a, x)
  BY Zenon DEF History!UpdateAgent, Histories, Dead, Definitions
<1>2. QED
  BY <1>1, Zenon DEF History!Next

LEMMA HistoryDeletes ==
    ASSUME NEW a \in AgentIds, Histories[a] # << >>,
           Histories' = [Histories EXCEPT ![a] = << >>], Dead' = Dead \cup {a}
    PROVE  History!Next
<1>1. History!DeleteAgent(a)
  BY Zenon DEF History!DeleteAgent, Histories, Dead, Definitions
<1>2. QED
  BY <1>1, Zenon DEF History!Next

LEMMA HistoryStutters == ASSUME Histories' = Histories, Dead' = Dead PROVE UNCHANGED History!vars
BY Zenon DEF History!vars, Histories, Dead, Definitions

(* A step that writes one agent's rows changes that agent's history only. *)
LEMMA OneHistoryChanges ==
    ASSUME TypeOK, adapter' = adapter, NEW a \in AgentIds, NEW v, NEW rows,
           version' = [version EXCEPT ![a] = v], versions' = [versions EXCEPT ![a] = rows]
    PROVE  Histories' = [Histories EXCEPT ![a] = Definitions(a)']
<1>1. \A b \in AgentIds \ {a} : version'[b] = version[b] /\ versions'[b] = versions[b]
  BY DEF TypeOK
<1>2. \A b \in AgentIds \ {a} : Definitions(b)' = Definitions(b)
  BY <1>1, DefinitionsSame
<1>3. Histories' = [b \in AgentIds |-> Definitions(b)']
  BY DEF Histories
<1>4. QED
  BY <1>2, <1>3 DEF Histories

LEMMA HistoriesSame ==
    ASSUME adapter' = adapter, UNCHANGED <<version, versions, used>>
    PROVE  UNCHANGED History!vars
<1>1. \A b : Definitions(b)' = Definitions(b)
  BY DefinitionsSame
<1>2. Histories' = Histories
  BY <1>1 DEF Histories
<1>3. Dead' = Dead
  BY DEF Dead, Live
<1>4. QED
  BY <1>2, <1>3, HistoryStutters

LEMMA PostgresHistoryStep ==
    ASSUME adapter = "postgres", adapter' = adapter, TypeOK, HistoryInv, Sequenced, Sequenced', [Next]_vars
    PROVE  [History!Next]_(History!vars)
<1>0. /\ version \in [AgentIds -> Nat] /\ versions \in [AgentIds -> SUBSET (Nat \X Contents)]
      /\ used \subseteq AgentIds
  BY DEF TypeOK
<1>1. \A a \in AgentIds : Histories[a] = Definitions(a)
  BY DEF Histories
<1>2. \A a \in AgentIds : Definitions(a) \in [1..version[a] -> Contents]
  BY DEF Sequenced
<1>3. \A a \in AgentIds : Definitions(a)' \in [1..version'[a] -> Contents]
  BY DEF Sequenced
<1>4. \A a \in AgentIds : ~Live(a) => Histories[a] = << >>
  BY <1>0, <1>1, <1>2, NoneIsEmpty DEF Live
<1>5. \A a \in AgentIds : Live(a) => Histories[a] # << >>
  <2> SUFFICES ASSUME NEW a \in AgentIds, Live(a) PROVE Histories[a] # << >>
    OBVIOUS
  <2>1. Len(Histories[a]) = version[a] /\ version[a] > 0
    BY <1>0, <1>1, <1>2, IntervalFunction DEF Live
  <2>2. QED
    BY <2>1
<1>6. ASSUME NEW a \in AgentIds, DeleteAgent(a) PROVE History!Next
  <2>1. Live(a) /\ version' = [version EXCEPT ![a] = 0] /\ versions' = [versions EXCEPT ![a] = {}] /\ used' = used
    BY <1>6 DEF DeleteAgent
  <2>2. Definitions(a)' = << >>
    <3>1. version'[a] = 0
      BY <1>0, <2>1
    <3>2. QED
      BY <1>3, <3>1, NoneIsEmpty
  <2>3. Histories' = [Histories EXCEPT ![a] = << >>]
    BY <2>1, <2>2, OneHistoryChanges
  <2>4. a \in used
    BY <2>1 DEF HistoryInv, UndrawnUnknown, Live
  <2>5. Dead' = Dead \cup {a}
    BY <1>0, <2>1, <2>4 DEF Dead, Live
  <2>6. QED
    BY <1>5, <2>1, <2>3, <2>5, HistoryDeletes
<1>7. ASSUME NEW a \in AgentIds, NEW n \in Names, NEW x \in Contents, InsertAgent(a, n, x)
      PROVE  History!Next
  <2>1. /\ a \notin used /\ used' = used \cup {a}
        /\ version' = [version EXCEPT ![a] = 1] /\ versions' = [versions EXCEPT ![a] = {<<1, x>>}]
    BY <1>7 DEF InsertAgent
  <2>2. version[a] = 0 /\ ~Live(a) /\ version'[a] = 1 /\ versions'[a] = {<<1, x>>}
    BY <1>0, <2>1 DEF HistoryInv, UndrawnUnknown, Live
  <2>3. Definitions(a)' = <<x>>
    <3>1. Definitions(a)' \in [1..1 -> Contents]
      BY <1>3, <2>2
    <3>2. <<1, x>> \in versions'[a] /\ <<1, x>>[1] = 1 /\ <<1, x>>[2] = x
      BY <2>2
    <3>3. Definitions(a)'[1] = x
      BY <3>2, Zenon DEF Sequenced
    <3>4. QED
      BY <3>1, <3>3
  <2>4. Histories' = [Histories EXCEPT ![a] = <<x>>]
    BY <2>1, <2>3, OneHistoryChanges
  <2>5. Dead' = Dead /\ a \notin Dead
    BY <1>0, <2>1 DEF Dead, Live
  <2>6. QED
    BY <1>4, <2>2, <2>4, <2>5, HistoryCreates
<1>8. ASSUME NEW c \in Clients, StoreUpdate(c) \/ UpdateUnanswered(c),
             MemoryUpdate(client[c]) \/ PostgresUpdate(client[c])
      PROVE  History!Next
  <2>1. client[c] # Idle /\ used' = used
    BY <1>8 DEF StoreUpdate, UpdateUnanswered, Finish
  <2>2. PICK a \in AgentIds, p \in Nat \X Contents :
           /\ a = client[c].id /\ p[1] = client[c].version /\ p[1] # 0
           /\ Live(a) /\ p[1] \notin Numbers(a)
           /\ version'  = [version EXCEPT ![a] = p[1]]
           /\ versions' = [versions EXCEPT ![a] = versions[a] \cup {p}]
    BY <1>8, <2>1, UpdateWrites
  <2>3. p[1] = version[a] + 1 /\ version[a] \in Nat
    <3>1. p[1] <= version[a] + 1
      BY <2>1, <2>2 DEF HistoryInv, ClientsNotAhead
    <3>2. p[1] \notin 1..version[a]
      BY <2>2 DEF HistoryInv, VersionsContiguous
    <3>3. version[a] \in Nat /\ p[1] \in Nat
      BY <1>0
    <3>4. QED
      BY <2>2, <3>1, <3>2, <3>3
  <2>4. version'[a] = version[a] + 1 /\ versions'[a] = versions[a] \cup {p}
    BY <1>0, <2>2, <2>3
  <2>5. \A i \in 1..version[a] : Definitions(a)'[i] = Definitions(a)[i]
    <3>1. Numbers(a) = 1..version[a]
      BY DEF HistoryInv, VersionsContiguous
    <3>2. \A i \in 1..version[a] : \E r \in versions[a] : r[1] = i
      BY <3>1 DEF Numbers
    <3>3. \A r \in versions[a] : Definitions(a)[r[1]] = r[2] /\ Definitions(a)'[r[1]] = r[2]
      BY <2>4, Zenon DEF Sequenced
    <3>4. QED
      BY <3>2, <3>3
  <2>6. Definitions(a)'[version[a] + 1] = p[2] /\ p[2] \in Contents
    <3>1. p \in versions'[a]
      BY <2>4
    <3>2. Definitions(a)'[p[1]] = p[2]
      BY <3>1, Zenon DEF Sequenced
    <3>3. QED
      BY <2>3, <3>2
  <2>7. Definitions(a)' = Append(Histories[a], p[2])
    <3>1. Definitions(a)' \in [1..(version[a] + 1) -> Contents] /\ Definitions(a) \in [1..version[a] -> Contents]
      BY <1>2, <1>3, <2>4
    <3>2. Definitions(a)' = Append(Definitions(a), Definitions(a)'[version[a] + 1])
      BY <2>3, <2>5, <3>1, OneMoreIsAppend
    <3>3. QED
      BY <1>1, <2>6, <3>2
  <2>8. Histories' = [Histories EXCEPT ![a] = Append(Histories[a], p[2])]
    BY <2>2, <2>7, OneHistoryChanges
  <2>9. Dead' = Dead
    <3>1. \A b \in AgentIds : Live(b)' <=> Live(b)
      BY <1>0, <2>2, <2>3 DEF Live
    <3>2. QED
      BY <1>0, <2>1, <3>1 DEF Dead
  <2>10. QED
    BY <1>5, <2>2, <2>6, <2>8, <2>9, HistoryUpdates
<1>9. ASSUME NEW c \in Clients, StoreUpdate(c) \/ UpdateUnanswered(c), UNCHANGED <<version, name, versions>>
      PROVE  UNCHANGED History!vars
  BY <1>9, HistoriesSame DEF StoreUpdate, UpdateUnanswered, Finish
<1>10. ASSUME NEW c \in Clients, NEW a \in AgentIds, NEW n \in Names, NEW x \in Contents, LoadAgent(c, a, n, x)
       PROVE  UNCHANGED History!vars
  BY <1>10, HistoriesSame DEF LoadAgent
<1>11. CASE UNCHANGED vars
  BY <1>11, HistoriesSame DEF vars
<1>12. QED
  <2>1. ASSUME NEW c \in Clients, StoreUpdate(c) \/ UpdateUnanswered(c) PROVE [History!Next]_(History!vars)
    BY <1>8, <1>9, <2>1 DEF StoreUpdate, UpdateUnanswered
  <2>2. QED
    BY <1>6, <1>7, <1>10, <1>11, <2>1 DEF Next, Step, CreateAgent, CreateUnanswered

(***************************************************************************)
(* The PostgreSQL store implements the append-only history for any number  *)
(* of concurrent handlers, although every update is a read and a later     *)
(* write.                                                                  *)
(***************************************************************************)
THEOREM AgentsImplementsHistory == Spec => ImplementsHistory
<1>1. Init => History!Init
  <2> SUFFICES ASSUME Init PROVE History!Init
    OBVIOUS
  <2>1. \A a \in AgentIds : Definitions(a) = << >>
    <3> SUFFICES ASSUME NEW a \in AgentIds PROVE Definitions(a) = << >>
      OBVIOUS
    <3>1. version[a] = 0
      BY DEF Init
    <3>2. Definitions(a) \in [1..0 -> {ContentOf(a, v) : v \in 1..0}]
      BY <3>1 DEF Definitions
    <3>3. QED
      BY <3>2, NoneIsEmpty
  <2>2. Histories = [a \in AgentIds |-> << >>]
    BY <2>1 DEF Histories
  <2>3. Dead = {}
    BY DEF Init, Dead
  <2>4. QED
    BY <2>2, <2>3, Zenon DEF History!Init, Histories, Dead, Definitions
<1>2. TypeOK /\ HistoryInv /\ Sequenced /\ Sequenced' /\ [Next]_vars => [History!Next]_(History!vars)
  <2> SUFFICES ASSUME TypeOK, HistoryInv, Sequenced, Sequenced', [Next]_vars
               PROVE  [History!Next]_(History!vars)
    OBVIOUS
  <2>1. adapter' = adapter
    BY DEF Next, vars
  <2>2. CASE adapter = "postgres"
    BY <2>1, <2>2, PostgresHistoryStep
  <2>3. CASE adapter # "postgres"
    <3>1. \A a : Definitions(a)' = Definitions(a)
      BY <2>1, <2>3 DEF Definitions
    <3>2. Histories' = Histories /\ Dead' = Dead
      BY <2>1, <2>3, <3>1 DEF Histories, Dead
    <3>3. QED
      BY <3>2, HistoryStutters
  <2>4. QED
    BY <2>2, <2>3
<1>3. QED
  BY <1>1, <1>2, AgentsTypeOK, HistoryInvariant, SequencedInvariant, PTL DEF Spec, ImplementsHistory, History!Spec
=============================================================================
