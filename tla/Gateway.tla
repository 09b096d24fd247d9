------------------------------ MODULE Gateway -------------------------------
(***************************************************************************)
(* What a request to /api/v1 passes before it reaches the service: the     *)
(* authenticator, the rate limiter, RequireRoles and, for POST /tools, the *)
(* tool registry, from which runs of the same process are offered their    *)
(* tools and resolve the ones the LLM calls.                               *)
(*                                                                         *)
(* Time is kept as ages in ticks: Tick makes everything one tick older.    *)
(* The limiter reads the clock before it takes its lock, so the reading    *)
(* has an age of its own when it is used.                                  *)
(***************************************************************************)
EXTENDS Integers, FiniteSets

CONSTANTS
    Handlers,     \* requests under way at one time
    Users,        \* principal ids
    NoSubject,    \* the subject of a token without one
    ApiKeyUser,   \* the id the API key stands for
    Credentials,  \* what requests bring; a subset of AllCredentials
    Watched,      \* the user whose admissions the history records
    Limit,        \* requests per window (120)
    Window,       \* ticks in a window (a minute)
    MaxStale,     \* bound: ticks between reading the clock and the lock
    Names,        \* tool names
    DefaultTools, \* names registered at start
    Tools,        \* tools POST /tools may bring
    Builtin, None

\* "none" is a claim that is missing or empty.
Roles  == {"none", "admin", "developer", "viewer"}

Tokens == [hs256 : BOOLEAN, signed : BOOLEAN, expiry : {"none", "past", "future"},
           sub : Users \cup {NoSubject}, role : Roles]

AllCredentials == [key : {"none", "wrong", "right"}, bearer : Tokens \cup {None}]

ASSUME UsersAssumption ==
    ApiKeyUser \in Users /\ Watched \in Users /\ NoSubject \notin Users /\ None \notin Tokens
ASSUME CredentialsAssumption == Credentials \subseteq AllCredentials
ASSUME LimiterAssumption == Limit \in Nat \ {0} /\ Window \in Nat \ {0} /\ MaxStale \in Nat
ASSUME HandlersAssumption == IsFiniteSet(Handlers) /\ Handlers # {}
ASSUME ToolsAssumption == DefaultTools \subseteq Names /\ None \notin Tools \cup {Builtin}

VARIABLES
    stage,      \* "idle", "limit" or "passed"
    principal,  \* what the middleware sets for the request, Nobody when idle
    proved,     \* history: handlers whose request brought an administrator's credentials
    read,       \* age of the limiter's clock reading, 0 once it was used
    visitors,   \* Limiter.visitors: age of windowStart and count, by id
    admitted,   \* history: the watched user's admissions during the last n ticks, by n
    registry,   \* Registry.tools
    acked,      \* <<name, tool>> pairs answered with 201
    offered     \* <<name, tool>> pairs a run was given by Definitions

requests == <<stage, principal, proved, read>>
tools    == <<registry, acked, offered>>
vars == <<stage, principal, proved, read, visitors, admitted, registry, acked, offered>>

Nobody == [id |-> NoSubject, role |-> "none"]

\* Older than any reading can tell from never: the zero time of a new visitor.
Old     == Window + MaxStale
Capped(n, cap) == IF n > cap THEN cap ELSE n

Init ==
    /\ stage    = [h \in Handlers |-> "idle"]
    /\ principal = [h \in Handlers |-> Nobody]
    /\ proved   = {}
    /\ read     = [h \in Handlers |-> 0]
    /\ visitors = [u \in Users |-> [start |-> Old, count |-> 0]]
    /\ admitted = [n \in 0..Old |-> 0]
    /\ registry = [n \in Names |-> IF n \in DefaultTools THEN Builtin ELSE None]
    /\ acked    = {}
    /\ offered  = {}

-----------------------------------------------------------------------------
(* Authenticator.authenticate *)

\* Fault variant: the key function does not look at the signing method.
TokenAcceptedAnyMethod(t) == t # None /\ t.signed /\ t.expiry = "future" /\ t.sub # NoSubject

\* jwt.Parse with its key function and the required expiry, then the subject.
TokenAccepted(t) ==
    t # None /\ t.hs256 /\ t.signed /\ t.expiry = "future" /\ t.sub # NoSubject

\* A key that does not match is no error: the bearer token is tried.
authenticate(c) ==
    CASE c.key = "right" -> [id |-> ApiKeyUser, role |-> "admin"]
      [] c.key # "right" /\ TokenAccepted(c.bearer) ->
             [id |-> c.bearer.sub, role |-> IF c.bearer.role = "none" THEN "developer" ELSE c.bearer.role]
      [] OTHER -> Nobody

\* An administrator's credentials: the API key, or a token with an HS256
\* signature, an expiry still to come, a subject and the role admin.
ProvedAdmin(c) ==
    \/ c.key = "right"
    \/ /\ c.bearer # None
       /\ c.bearer.hs256 /\ c.bearer.signed /\ c.bearer.expiry = "future"
       /\ c.bearer.sub # NoSubject /\ c.bearer.role = "admin"

Pass(h, c) ==
    /\ stage[h] = "idle"
    /\ stage' = [stage EXCEPT ![h] = "limit"]
    /\ principal' = [principal EXCEPT ![h] = authenticate(c)]
    /\ proved' = IF ProvedAdmin(c) THEN proved \cup {h} ELSE proved
    /\ UNCHANGED <<read, visitors, admitted, tools>>

\* Fault variant: the middleware does not abort a request it refuses.
ArriveNotAborted(h, c) == Pass(h, c)

\* 401 ends a request at once.  The key of the limiter is the principal's id,
\* which is never empty; its clock is read here.
Arrive(h, c) == authenticate(c) # Nobody /\ Pass(h, c)

Unauthorized(h, c) ==
    stage[h] = "idle" /\ authenticate(c) = Nobody /\ UNCHANGED vars

Leave(h) ==
    /\ stage' = [stage EXCEPT ![h] = "idle"]
    /\ principal' = [principal EXCEPT ![h] = Nobody]
    /\ proved' = proved \ {h}

-----------------------------------------------------------------------------
(* Limiter.Middleware, between Lock and Unlock *)

Elapsed(entry, age) == entry.start - age >= Window

\* Fault variant: a new window keeps the count of the old one.
EntryKeepsCount(entry, age) ==
    [start |-> IF Elapsed(entry, age) THEN age ELSE entry.start,
     count |-> Capped(entry.count + 1, Limit + 1)]

\* entry.count is compared with the limit only: it is not kept beyond Limit + 1.
Entry(entry, age) ==
    IF Elapsed(entry, age)
    THEN [start |-> age, count |-> 1]
    ELSE [entry EXCEPT !.count = Capped(@ + 1, Limit + 1)]

\* Fault variant: the count is compared before it is increased.
AllowedBefore(entry) == entry.count - 1 <= Limit

Allowed(entry) == entry.count <= Limit

Limiter(h) ==
    LET u == principal[h].id
        entry == Entry(visitors[u], read[h])
    IN  /\ stage[h] = "limit"
        /\ visitors' = [visitors EXCEPT ![u] = entry]
        /\ read' = [read EXCEPT ![h] = 0]
        /\ \/ /\ Allowed(entry)
              /\ stage' = [stage EXCEPT ![h] = "passed"]
              /\ admitted' = IF u = Watched THEN [n \in 0..Old |-> IF n = 0 THEN 0 ELSE admitted[n] + 1]
                                         ELSE admitted
              /\ UNCHANGED <<principal, proved>>
           \/ ~Allowed(entry) /\ Leave(h) /\ UNCHANGED admitted
        /\ UNCHANGED tools

Tick ==
    /\ \A h \in Handlers : stage[h] = "limit" => read[h] < MaxStale
    /\ read' = [h \in Handlers |-> IF stage[h] = "limit" THEN read[h] + 1 ELSE 0]
    /\ visitors' = [u \in Users |-> [visitors[u] EXCEPT !.start = Capped(@ + 1, Old)]]
    /\ admitted' = [n \in 0..Old |-> IF n = 0 THEN 0 ELSE admitted[n - 1]]
    /\ UNCHANGED <<stage, principal, proved, tools>>

-----------------------------------------------------------------------------
(* RequireRoles and the handlers *)

RequireRoles(h, roles) == principal[h].role \in roles

\* The handlers behind the other routes are in Agents, Dispatch and Stream; a
\* 403 and a body createTool cannot bind change nothing either.
Serve(h) ==
    /\ stage[h] = "passed"
    /\ Leave(h)
    /\ UNCHANGED <<read, visitors, admitted, tools>>

\* Fault variant: a name that is taken is given to the new tool.
RegisterReplaces(n, t) ==
    registry' = [registry EXCEPT ![n] = t] /\ acked' = acked \cup {<<n, t>>}

\* Registry.Register under its lock: 201, or 409 when the name is taken.
Register(n, t) ==
    \/ registry[n] = None /\ registry' = [registry EXCEPT ![n] = t] /\ acked' = acked \cup {<<n, t>>}
    \/ registry[n] # None /\ UNCHANGED <<registry, acked>>

createTool(h, n, t) ==
    /\ stage[h] = "passed" /\ RequireRoles(h, {"admin"})
    /\ Register(n, t)
    /\ Leave(h)
    /\ UNCHANGED <<read, visitors, admitted, offered>>

(* A run's LLM call: Registry.Definitions of the names its agent lists. *)
Definitions(names) ==
    /\ offered' = {<<n, registry[n]>> : n \in {m \in names : registry[m] # None}}
    /\ UNCHANGED <<requests, visitors, admitted, registry, acked>>

Next ==
    \/ \E h \in Handlers, c \in Credentials : Arrive(h, c) \/ Unauthorized(h, c)
    \/ \E h \in Handlers : Limiter(h) \/ Serve(h)
    \/ \E h \in Handlers, n \in Names, t \in Tools : createTool(h, n, t)
    \/ Definitions(Names)
    \/ Tick

Spec == Init /\ [][Next]_vars

-----------------------------------------------------------------------------
(* Type invariant. *)
TypeOK ==
    /\ stage \in [Handlers -> {"idle", "limit", "passed"}]
    /\ principal \in [Handlers -> [id : Users \cup {NoSubject}, role : Roles]]
    /\ \A h \in Handlers : stage[h] = "idle" <=> principal[h] = Nobody
    /\ \A h \in Handlers : principal[h] # Nobody => principal[h].id \in Users
    /\ proved \subseteq {h \in Handlers : stage[h] # "idle"}
    /\ read \in [Handlers -> 0..MaxStale]
    /\ visitors \in [Users -> [start : 0..Old, count : 0..Limit + 1]]
    /\ admitted \in [0..Old -> Nat]
    /\ registry \in [Names -> Tools \cup {Builtin, None}]
    /\ acked \subseteq Names \X Tools
    /\ offered \subseteq Names \X (Tools \cup {Builtin})

(***************************************************************************)
(* A user is admitted at most twice the limit within any window's length,  *)
(* and beyond that only by requests that read the clock before and waited  *)
(* for the lock: a window resets once, and stale readings cannot open      *)
(* windows of their own (auth.go 119-128).                                 *)
(***************************************************************************)
BurstBounded == admitted[Window] <= 2 * Limit + Cardinality(Handlers) - 1

(***************************************************************************)
(* A 429 is never given to a user whose own requests did not use up the    *)
(* limit: whatever other users do and however late the lock is taken,      *)
(* Limit requests of this user were admitted within the window and the     *)
(* time the reading waited (auth.go 119-133).                              *)
(***************************************************************************)
RejectionJustified ==
    [][\A h \in Handlers :
           stage[h] = "limit" /\ stage'[h] = "idle" /\ principal[h].id = Watched =>
               admitted[Old] >= Limit]_vars

(***************************************************************************)
(* The tools of a process change only in a request that proved to be an    *)
(* administrator's, whatever else it brought: a wrong API key beside a     *)
(* token, a token that fails in one respect (server.go 68-78, auth.go      *)
(* 43-95).                                                                 *)
(***************************************************************************)
OnlyAdminsRegister ==
    [][registry' # registry => \E h \in proved : stage'[h] # stage[h]]_vars

(***************************************************************************)
(* The first registration of a name stands: of several that race one is    *)
(* acknowledged, and a tool that was acknowledged, or that a run has been  *)
(* offered to the LLM, is what Get finds under its name from then on       *)
(* (tool.go 36-69, engine.go 111 and 209).                                 *)
(***************************************************************************)
FirstRegistrationStands == \A pair \in acked \cup offered : registry[pair[1]] = pair[2]
=============================================================================
