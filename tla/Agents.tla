------------------------------- MODULE Agents -------------------------------
(***************************************************************************)
(* Agent definitions: app.Service.CreateAgent, UpdateAgent and DeleteAgent *)
(* over the two store adapters.  UpdateAgent reads the agent, adds one to  *)
(* its version and writes it back in a second store call, so the handlers  *)
(* of concurrent requests interleave between the two.                      *)
(*                                                                         *)
(* Requests of one owner are modelled: under another owner every store     *)
(* call answers ErrNotFound and changes nothing.  A definition (prompt,    *)
(* model, temperature, token limit and tools) is one value of Contents; an *)
(* input validateAgent rejects reaches no store call.                      *)
(***************************************************************************)
EXTENDS Naturals, FiniteSets

CONSTANTS Adapters,    \* stores an instance includes, of {"memory", "postgres"}
          Clients,     \* concurrent API requests
          AgentIds,    \* ids id.New may draw; each is drawn once
          Names,
          Contents,
          MaxVersion   \* bound: no update is started beyond this version

ASSUME AdaptersAssumption == Adapters \subseteq {"memory", "postgres"}
ASSUME MaxVersionAssumption == MaxVersion \in Nat
ASSUME NamesAssumption == "none" \notin Names

VARIABLES adapter,     \* the store main.buildStore built
          version,     \* agents.current_version; 0 when there is no row
          name,        \* agents.name; NoName when there is no row
          versions,    \* the <<version, content>> pairs the store holds: the
                       \* agent_versions rows, or the one pair in the map value
          used,        \* ids drawn so far
          client,      \* the handler's local copy of the agent it will write
          acked        \* <<version, content>> pairs answered with success

vars == <<adapter, version, name, versions, used, client, acked>>

NoName == "none"
Idle == [pc |-> "idle"]
Live(a) == version[a] > 0
Numbers(a) == {row[1] : row \in versions[a]}

Init ==
    /\ adapter \in Adapters
    /\ version  = [a \in AgentIds |-> 0]
    /\ name     = [a \in AgentIds |-> NoName]
    /\ versions = [a \in AgentIds |-> {}]
    /\ used     = {}
    /\ client   = [c \in Clients |-> Idle]
    /\ acked    = [a \in AgentIds |-> {}]

\* UNIQUE (owner_id, name); the map has no such check.
NameFree(a, n) == adapter = "postgres" => \A b \in AgentIds \ {a} : name[b] # n

Acknowledge(a, v, x) == acked' = [acked EXCEPT ![a] = @ \cup {<<v, x>>}]

-----------------------------------------------------------------------------
(* CreateAgent: one INSERT pair in a transaction, or one map write. *)
InsertAgent(a, n, x) ==
    /\ a \notin used /\ NameFree(a, n)
    /\ used'     = used \cup {a}
    /\ version'  = [version EXCEPT ![a] = 1]
    /\ name'     = [name EXCEPT ![a] = n]
    /\ versions' = [versions EXCEPT ![a] = {<<1, x>>}]
    /\ UNCHANGED client

CreateAgent(a, n, x) == InsertAgent(a, n, x) /\ Acknowledge(a, 1, x)

\* PostgreSQL commits and its answer is lost: the client is told of an error.
CreateUnanswered(a, n, x) == adapter = "postgres" /\ InsertAgent(a, n, x) /\ UNCHANGED acked

(* UpdateAgent, first half: GetAgent and Version++ on the local copy. *)
LoadAgent(c, a, n, x) ==
    /\ client[c] = Idle
    /\ Live(a) /\ version[a] < MaxVersion
    /\ client' = [client EXCEPT ![c] =
                    [pc |-> "loaded", id |-> a, name |-> n, content |-> x,
                     version |-> version[a] + 1]]
    /\ UNCHANGED <<version, name, versions, used, acked>>

WriteRow(agent, rows) ==
    /\ version'  = [version EXCEPT ![agent.id] = agent.version]
    /\ name'     = [name EXCEPT ![agent.id] = agent.name]
    /\ versions' = [versions EXCEPT ![agent.id] = rows]

Row(agent) == <<agent.version, agent.content>>

\* Fault variant: the memory store writes without looking the agent up.
MemoryUpdateUnchecked(agent) == adapter = "memory"

\* Memory.UpdateAgent accepts the copy of any agent that still exists.
MemoryAccepts(agent) == adapter = "memory" /\ Live(agent.id)

MemoryUpdate(agent) == MemoryAccepts(agent) /\ WriteRow(agent, {Row(agent)})

\* Fault variant: agent_versions without UNIQUE (agent_id, version).
PostgresUnguarded(agent) ==
    adapter = "postgres" /\ Live(agent.id) /\ NameFree(agent.id, agent.name)

(***************************************************************************)
(* The transaction's UPDATE locks the agents row, so transactions on one   *)
(* agent run one after the other: the UPDATE must find the row and the     *)
(* INSERT must not meet a row of the same version, or all is rolled back.  *)
(***************************************************************************)
PostgresAccepts(agent) ==
    /\ adapter = "postgres"
    /\ Live(agent.id) /\ NameFree(agent.id, agent.name)
    /\ agent.version \notin Numbers(agent.id)

\* Fault variant: the INSERT overwrites a version that is already there.
PostgresUpserts(agent) ==
    /\ PostgresUnguarded(agent)
    /\ WriteRow(agent, {p \in versions[agent.id] : p[1] # agent.version} \cup {Row(agent)})

PostgresUpdate(agent) ==
    PostgresAccepts(agent) /\ WriteRow(agent, versions[agent.id] \cup {Row(agent)})

Reject(agent) == ~MemoryAccepts(agent) /\ ~PostgresAccepts(agent)

Finish(c) == client' = [client EXCEPT ![c] = Idle] /\ UNCHANGED used

(* UpdateAgent, second half: store.UpdateAgent and the answer. *)
StoreUpdate(c) ==
    /\ client[c] # Idle
    /\ \/ /\ MemoryUpdate(client[c]) \/ PostgresUpdate(client[c])
          /\ Acknowledge(client[c].id, client[c].version, client[c].content)
       \/ Reject(client[c]) /\ UNCHANGED <<version, name, versions, acked>>
    /\ Finish(c)

\* A PostgreSQL call fails, before or after the transaction was committed.
UpdateUnanswered(c) ==
    /\ adapter = "postgres" /\ client[c] # Idle
    /\ PostgresUpdate(client[c]) \/ UNCHANGED <<version, name, versions>>
    /\ UNCHANGED acked
    /\ Finish(c)

(* DeleteAgent: agent_versions rows go with the agent. *)
DeleteAgent(a) ==
    /\ Live(a)
    /\ version'  = [version EXCEPT ![a] = 0]
    /\ name'     = [name EXCEPT ![a] = NoName]
    /\ versions' = [versions EXCEPT ![a] = {}]
    /\ UNCHANGED <<used, client, acked>>

Step ==
    \/ \E a \in AgentIds : DeleteAgent(a)
    \/ \E a \in AgentIds, n \in Names, x \in Contents :
           CreateAgent(a, n, x) \/ CreateUnanswered(a, n, x)
    \/ \E c \in Clients, a \in AgentIds, n \in Names, x \in Contents : LoadAgent(c, a, n, x)
    \/ \E c \in Clients : StoreUpdate(c) \/ UpdateUnanswered(c)

Next == Step /\ UNCHANGED adapter

Spec == Init /\ [][Next]_vars

-----------------------------------------------------------------------------
(* Type invariant. *)
TypeOK ==
    /\ adapter \in {"memory", "postgres"}
    /\ version \in [AgentIds -> Nat]
    /\ name \in [AgentIds -> Names \cup {NoName}]
    /\ versions \in [AgentIds -> SUBSET (Nat \X Contents)]
    /\ used \subseteq AgentIds
    /\ client \in [Clients -> {Idle} \cup
                    [pc : {"loaded"}, id : AgentIds, name : Names, content : Contents, version : Nat \ {0}]]
    /\ acked \in [AgentIds -> SUBSET (Nat \X Contents)]
    /\ \A a \in AgentIds : Live(a) <=> name[a] # NoName

(***************************************************************************)
(* With PostgreSQL, agent_versions holds exactly the versions 1 ..         *)
(* current_version of a live agent, one row each: no gap, no duplicate,    *)
(* and GetAgent's join on current_version always finds its row             *)
(* (postgres.go 58-100).                                                   *)
(***************************************************************************)
VersionsContiguous ==
    adapter = "postgres" => \A a \in AgentIds :
        /\ Numbers(a) = 1..version[a]
        /\ \A p, q \in versions[a] : p[1] = q[1] => p = q

(***************************************************************************)
(* With PostgreSQL no acknowledged update is lost: whatever concurrent     *)
(* requests did, the version an update was answered with is stored with    *)
(* that content for as long as the agent exists (service.go 68-89).        *)
(***************************************************************************)
AcknowledgedVersionsKept ==
    adapter = "postgres" => \A a \in AgentIds : Live(a) => acked[a] \subseteq versions[a]

(***************************************************************************)
(* An update that read the agent before it was deleted does not bring it   *)
(* back (memory.go 49-58, postgres.go 88-94).                              *)
(***************************************************************************)
DeletedStaysDeleted == [][\A a \in used : ~Live(a) => ~Live(a)']_vars

(***************************************************************************)
(* The PostgreSQL store implements the append-only history, although each  *)
(* update is a read and a later write: the version an update writes is the *)
(* next one or the update fails.                                           *)
(***************************************************************************)
ContentOf(a, v) == (CHOOSE row \in versions[a] : row[1] = v)[2]

History == INSTANCE AgentHistory WITH
    history <- [a \in AgentIds |-> [v \in 1..(IF adapter = "postgres" THEN version[a] ELSE 0) |->
                                        ContentOf(a, v)]],
    deleted <- {a \in used : adapter = "postgres" /\ ~Live(a)}

ImplementsHistory == History!Spec
=============================================================================
