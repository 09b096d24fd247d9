--------------------------- MODULE GatewayProofs ----------------------------
(***************************************************************************)
(* Proofs about the requests' way to the service, for every set of users,  *)
(* credentials and tools, every limit and window, and any finite number of *)
(* concurrent requests.                                                    *)
(***************************************************************************)
EXTENDS Gateway, FiniteSetTheorems, TLAPS

(* What the authenticator answers names a user, unless it names nobody. *)
LEMMA Authenticated ==
    ASSUME NEW c \in Credentials
    PROVE  /\ authenticate(c) \in [id : Users \cup {NoSubject}, role : Roles]
           /\ authenticate(c) # Nobody => authenticate(c).id \in Users
           /\ authenticate(c).role = "admin" => ProvedAdmin(c)
<1>1. /\ c.key \in {"none", "wrong", "right"} /\ c.bearer \in Tokens \cup {None}
  BY CredentialsAssumption DEF AllCredentials
<1>2. CASE c.key = "right"
  BY <1>2, UsersAssumption DEF authenticate, ProvedAdmin, Nobody, Roles
<1>3. CASE c.key # "right" /\ TokenAccepted(c.bearer)
  <2>1. c.bearer \in Tokens /\ c.bearer.sub \in Users
    BY <1>1, <1>3 DEF TokenAccepted, Tokens
  <2>2. c.bearer.role \in Roles
    BY <2>1 DEF Tokens
  <2>3. authenticate(c) = [id |-> c.bearer.sub,
                           role |-> IF c.bearer.role = "none" THEN "developer" ELSE c.bearer.role]
    BY <1>3 DEF authenticate
  <2>4. QED
    BY <1>3, <2>1, <2>2, <2>3 DEF ProvedAdmin, TokenAccepted, Roles
<1>4. CASE c.key # "right" /\ ~TokenAccepted(c.bearer)
  <2>1. authenticate(c) = Nobody
    BY <1>4 DEF authenticate
  <2>2. QED
    BY <2>1 DEF Nobody, Roles
<1>5. QED
  BY <1>2, <1>3, <1>4

(* An entry of the limiter stays in its type whatever its age. *)
LEMMA EntryType ==
    ASSUME NEW e \in [start : 0..Old, count : 0..Limit + 1], NEW age \in 0..MaxStale
    PROVE  Entry(e, age) \in [start : 0..Old, count : 0..Limit + 1]
<1>1. Limit \in Nat \ {0} /\ Window \in Nat \ {0} /\ MaxStale \in Nat /\ Old = Window + MaxStale
  BY LimiterAssumption DEF Old
<1>2. e.start \in 0..Old /\ e.count \in 0..Limit + 1
  OBVIOUS
<1>3. CASE Elapsed(e, age)
  BY <1>1, <1>3 DEF Entry
<1>4. CASE ~Elapsed(e, age)
  <2>1. Capped(e.count + 1, Limit + 1) \in 0..Limit + 1
    BY <1>1, <1>2 DEF Capped
  <2>2. QED
    BY <1>4, <2>1 DEF Entry
<1>5. QED
  BY <1>3, <1>4

(***************************************************************************)
(* The state of the gateway stays in its types: a request past the         *)
(* authenticator has a principal, and a principal names a user (auth.go    *)
(* 43-137, server.go 68-78, tool.go 36-69).                                *)
(***************************************************************************)
RequestsOK ==
    /\ stage \in [Handlers -> {"idle", "limit", "passed"}]
    /\ principal \in [Handlers -> [id : Users \cup {NoSubject}, role : Roles]]
    /\ \A h \in Handlers : stage[h] = "idle" <=> principal[h] = Nobody
    /\ \A h \in Handlers : principal[h] # Nobody => principal[h].id \in Users
    /\ proved \subseteq {h \in Handlers : stage[h] # "idle"}

LimiterOK ==
    /\ read \in [Handlers -> 0..MaxStale]
    /\ visitors \in [Users -> [start : 0..Old, count : 0..Limit + 1]]
    /\ admitted \in [0..Old -> Nat]

ToolsOK ==
    /\ registry \in [Names -> Tools \cup {Builtin, None}]
    /\ acked \subseteq Names \X Tools
    /\ offered \subseteq Names \X (Tools \cup {Builtin})

LEMMA LeaveType ==
    ASSUME RequestsOK, NEW h \in Handlers, Leave(h)
    PROVE  RequestsOK'
BY DEF RequestsOK, Leave, Nobody, Roles

LEMMA TypeStep == TypeOK /\ [Next]_vars => TypeOK'
<1> SUFFICES ASSUME RequestsOK, LimiterOK, ToolsOK, [Next]_vars
             PROVE  RequestsOK' /\ LimiterOK' /\ ToolsOK'
  BY DEF TypeOK, RequestsOK, LimiterOK, ToolsOK
<1> USE DEF requests, tools
<1>1. ASSUME NEW h \in Handlers, NEW c \in Credentials, Arrive(h, c)
      PROVE  RequestsOK' /\ LimiterOK' /\ ToolsOK'
  <2>1. RequestsOK'
    BY <1>1, Authenticated DEF RequestsOK, Arrive, Pass
  <2>2. QED
    BY <1>1, <2>1 DEF Arrive, Pass, LimiterOK, ToolsOK
<1>2. ASSUME NEW h \in Handlers, Limiter(h) PROVE RequestsOK' /\ LimiterOK' /\ ToolsOK'
  <2> DEFINE u == principal[h].id
             e == Entry(visitors[u], read[h])
  <2>1. u \in Users
    BY <1>2 DEF RequestsOK, Limiter
  <2>2. e \in [start : 0..Old, count : 0..Limit + 1]
    BY <2>1, EntryType DEF LimiterOK
  <2> HIDE DEF u, e
  <2>3. /\ stage[h] = "limit"
        /\ visitors' = [visitors EXCEPT ![u] = e]
        /\ read' = [read EXCEPT ![h] = 0]
        /\ \/ /\ stage' = [stage EXCEPT ![h] = "passed"]
              /\ admitted' \in {admitted, [n \in 0..Old |-> IF n = 0 THEN 0 ELSE admitted[n] + 1]}
              /\ UNCHANGED <<principal, proved>>
           \/ Leave(h) /\ UNCHANGED admitted
        /\ UNCHANGED <<registry, acked, offered>>
    BY <1>2 DEF Limiter, u, e
  <2>4. RequestsOK'
    BY <2>3, LeaveType DEF RequestsOK
  <2>5. LimiterOK'
    <3>1. read' \in [Handlers -> 0..MaxStale]
      BY <2>3, LimiterAssumption DEF LimiterOK
    <3>2. visitors' \in [Users -> [start : 0..Old, count : 0..Limit + 1]]
      BY <2>2, <2>3 DEF LimiterOK
    <3>3. admitted' \in [0..Old -> Nat]
      <4>1. [n \in 0..Old |-> IF n = 0 THEN 0 ELSE admitted[n] + 1] \in [0..Old -> Nat]
        BY DEF LimiterOK
      <4>2. QED
        BY <2>3, <4>1 DEF LimiterOK
    <3>4. QED
      BY <3>1, <3>2, <3>3 DEF LimiterOK
  <2>6. QED
    BY <2>3, <2>4, <2>5 DEF ToolsOK
<1>3. ASSUME NEW h \in Handlers, Serve(h) PROVE RequestsOK' /\ LimiterOK' /\ ToolsOK'
  BY <1>3, LeaveType DEF Serve, LimiterOK, ToolsOK
<1>4. ASSUME NEW h \in Handlers, NEW n \in Names, NEW t \in Tools, createTool(h, n, t)
      PROVE  RequestsOK' /\ LimiterOK' /\ ToolsOK'
  <2>1. RequestsOK' /\ LimiterOK'
    BY <1>4, LeaveType DEF createTool, LimiterOK
  <2>2. ToolsOK'
    BY <1>4 DEF createTool, Register, ToolsOK
  <2>3. QED
    BY <2>1, <2>2
<1>5. CASE Definitions(Names)
  BY <1>5 DEF Definitions, RequestsOK, LimiterOK, ToolsOK
<1>6. CASE Tick
  <2>1. MaxStale \in Nat /\ Old \in Nat
    BY LimiterAssumption DEF Old
  <2>2. read' \in [Handlers -> 0..MaxStale]
    BY <1>6, <2>1 DEF Tick, LimiterOK
  <2>3. ASSUME NEW u \in Users
        PROVE  [visitors[u] EXCEPT !.start = Capped(@ + 1, Old)] \in [start : 0..Old, count : 0..Limit + 1]
    <3>1. visitors[u].start \in 0..Old /\ visitors[u] \in [start : 0..Old, count : 0..Limit + 1]
      BY DEF LimiterOK
    <3>2. Capped(visitors[u].start + 1, Old) \in 0..Old
      BY <2>1, <3>1 DEF Capped
    <3>3. QED
      BY <3>1, <3>2
  <2>4. visitors' \in [Users -> [start : 0..Old, count : 0..Limit + 1]]
    BY <1>6, <2>3 DEF Tick
  <2>5. admitted' \in [0..Old -> Nat]
    BY <1>6, <2>1 DEF Tick, LimiterOK
  <2>6. QED
    BY <1>6, <2>2, <2>4, <2>5 DEF Tick, RequestsOK, LimiterOK, ToolsOK
<1>7. CASE UNCHANGED vars
  BY <1>7 DEF vars, RequestsOK, LimiterOK, ToolsOK
<1>8. QED
  BY <1>1, <1>2, <1>3, <1>4, <1>5, <1>6, <1>7 DEF Next, Unauthorized

THEOREM GatewayTypeOK == Spec => []TypeOK
<1>1. Init => TypeOK
  <2> SUFFICES ASSUME Init PROVE TypeOK
    OBVIOUS
  <2>1. RequestsOK
    BY DEF Init, RequestsOK, Nobody, Roles
  <2>2. LimiterOK
    BY LimiterAssumption DEF Init, LimiterOK, Old
  <2>3. ToolsOK
    BY ToolsAssumption DEF Init, ToolsOK
  <2>4. QED
    BY <2>1, <2>2, <2>3 DEF TypeOK, RequestsOK, LimiterOK, ToolsOK
<1>2. QED
  BY <1>1, TypeStep, PTL DEF Spec

(***************************************************************************)
(* A tool that was acknowledged, or offered to the LLM, keeps its name.    *)
(***************************************************************************)
THEOREM GatewayFirstRegistrationStands == Spec => []FirstRegistrationStands
<1>1. Init => FirstRegistrationStands
  BY DEF Init, FirstRegistrationStands
<1>2. TypeOK /\ FirstRegistrationStands /\ [Next]_vars => FirstRegistrationStands'
  <2> SUFFICES ASSUME TypeOK, FirstRegistrationStands, [Next]_vars PROVE FirstRegistrationStands'
    OBVIOUS
  <2>1. ASSUME NEW h \in Handlers, NEW n \in Names, NEW t \in Tools, createTool(h, n, t)
        PROVE  FirstRegistrationStands'
    <3>1. CASE registry[n] = None /\ registry' = [registry EXCEPT ![n] = t] /\ acked' = acked \cup {<<n, t>>}
      <4>1. ASSUME NEW pair \in acked \cup offered
            PROVE  pair[1] \in Names /\ pair[1] # n
        BY <3>1, ToolsAssumption DEF FirstRegistrationStands, TypeOK
      <4>2. offered' = offered
        BY <2>1 DEF createTool
      <4>3. QED
        BY <3>1, <4>1, <4>2 DEF FirstRegistrationStands, TypeOK
    <3>2. CASE UNCHANGED <<registry, acked>>
      BY <2>1, <3>2 DEF createTool, FirstRegistrationStands
    <3>3. QED
      BY <2>1, <3>1, <3>2 DEF createTool, Register
  <2>2. CASE Definitions(Names)
    BY <2>2 DEF Definitions, FirstRegistrationStands
  <2>3. CASE UNCHANGED tools
    BY <2>3 DEF tools, FirstRegistrationStands
  <2>4. QED
    BY <2>1, <2>2, <2>3 DEF Next, Arrive, Pass, Unauthorized, Limiter, Serve, Tick, vars, tools
<1>3. QED
  BY <1>1, <1>2, GatewayTypeOK, PTL DEF Spec

(***************************************************************************)
(* A principal with the role admin stands for credentials that proved it,  *)
(* so only such a request changes the registry.                            *)
(***************************************************************************)
AdminsProved == \A h \in Handlers : principal[h].role = "admin" => h \in proved

THEOREM GatewayOnlyAdminsRegister == Spec => OnlyAdminsRegister
<1>1. Init => AdminsProved
  BY DEF Init, AdminsProved, Nobody
<1>2. TypeOK /\ AdminsProved /\ [Next]_vars => AdminsProved'
  <2> SUFFICES ASSUME TypeOK, AdminsProved, [Next]_vars PROVE AdminsProved'
    OBVIOUS
  <2>1. ASSUME NEW h \in Handlers, NEW c \in Credentials, Arrive(h, c) PROVE AdminsProved'
    BY <2>1, Authenticated DEF Arrive, Pass, AdminsProved, TypeOK
  <2>2. ASSUME NEW h \in Handlers, Leave(h) PROVE AdminsProved'
    BY <2>2 DEF Leave, AdminsProved, Nobody, TypeOK
  <2>3. CASE UNCHANGED <<principal, proved>>
    BY <2>3 DEF AdminsProved
  <2>4. QED
    BY <2>1, <2>2, <2>3
       DEF Next, Unauthorized, Limiter, Serve, createTool, Definitions, Tick, vars, requests
<1>3. TypeOK /\ AdminsProved /\ [Next]_vars =>
          [registry' # registry => \E h \in proved : stage'[h] # stage[h]]_vars
  <2> SUFFICES ASSUME TypeOK, AdminsProved, Next, registry' # registry
               PROVE  \E h \in proved : stage'[h] # stage[h]
    OBVIOUS
  <2>1. PICK h \in Handlers, n \in Names, t \in Tools : createTool(h, n, t)
    BY DEF Next, Arrive, Pass, Unauthorized, Limiter, Serve, Definitions, Tick, vars, tools
  <2>2. h \in proved /\ stage[h] = "passed" /\ stage'[h] = "idle"
    BY <2>1 DEF createTool, RequireRoles, AdminsProved, Leave, TypeOK
  <2>3. QED
    BY <2>2
<1>4. QED
  BY <1>1, <1>2, <1>3, GatewayTypeOK, PTL DEF Spec, OnlyAdminsRegister

-----------------------------------------------------------------------------
(***************************************************************************)
(* The limiter.  Look back n ticks, and count the watched user's           *)
(* admissions since then together with the requests that read the clock    *)
(* before and still wait for the lock.  A handler waits with one reading   *)
(* at a time, so what only stale readings can admit never exceeds the      *)
(* number of handlers; a window that began before adds at most the limit,  *)
(* and the one before it the limit again.                                  *)
(***************************************************************************)
Pending(n) == {h \in Handlers : stage[h] = "limit" /\ read[h] >= n}
Load(n)    == admitted[n] + Cardinality(Pending(n))
Used(c)    == IF c < 1 THEN 1 ELSE IF c > Limit THEN Limit ELSE c

Within(load, n, start, count) ==
    LET size == Cardinality(Handlers)
    IN  /\ n + Window <= start => load <= size
        /\ n <= start => load <= Used(count) - 1 + size
        /\ n <= start + Window => load <= Used(count) + Limit - 1 + size

Bounded(n) == Within(Load(n), n, visitors[Watched].start, visitors[Watched].count)

Counted ==
    /\ \A n \in 0..Old : Bounded(n)
    /\ admitted[0] = 0
    /\ \A h \in Handlers : stage[h] # "limit" => read[h] = 0
    /\ visitors[Watched].count = 0 => visitors[Watched].start = Old

(* A request counted in a window that has not elapsed. *)
LEMMA CountStep ==
    ASSUME NEW m \in Nat, NEW k \in Nat, NEW n \in Nat, NEW s \in Nat, NEW c \in Nat, NEW r \in Nat,
           Within(m, n, s, c), s - r < Window, c >= 1,
           k <= m + 1, r >= n => k <= m, c + 1 > Limit => k <= m
    PROVE  Within(k, n, s, Capped(c + 1, Limit + 1))
<1>1. Limit \in Nat \ {0} /\ Window \in Nat \ {0} /\ Cardinality(Handlers) \in Nat
  BY LimiterAssumption, HandlersAssumption, FS_CardinalityType
<1>2. QED
  BY <1>1 DEF Within, Used, Capped

(* A request that opens a window. *)
LEMMA ResetStep ==
    ASSUME NEW m \in Nat, NEW k \in Nat, NEW n \in Nat, NEW s \in Nat, NEW c \in Nat, NEW r \in Nat,
           Within(m, n, s, c), s - r >= Window, k <= m + 1, r >= n => k <= m
    PROVE  Within(k, n, r, 1)
<1>1. Limit \in Nat \ {0} /\ Window \in Nat \ {0} /\ Cardinality(Handlers) \in Nat
  BY LimiterAssumption, HandlersAssumption, FS_CardinalityType
<1>2. QED
  BY <1>1 DEF Within, Used

(* Time passes, or requests leave: nothing is added. *)
LEMMA AgeStep ==
    ASSUME NEW m \in Nat, NEW n \in Nat, NEW s \in Nat, NEW c \in Nat, Within(m, n, s, c)
    PROVE  /\ Within(m, n + 1, Capped(s + 1, Old), c)
           /\ \A k \in Nat : k <= m => Within(k, n, s, c)
<1>1. /\ Limit \in Nat \ {0} /\ Window \in Nat \ {0} /\ Cardinality(Handlers) \in Nat
      /\ Old \in Nat
  BY LimiterAssumption, HandlersAssumption, FS_CardinalityType DEF Old
<1>2. QED
  BY <1>1 DEF Within, Used, Capped

(* No more requests wait than there are handlers. *)
LEMMA PendingSize ==
    ASSUME NEW n \in Nat
    PROVE  /\ IsFiniteSet(Pending(n)) /\ Cardinality(Pending(n)) \in Nat
           /\ Cardinality(Pending(n)) <= Cardinality(Handlers)
<1>1. Pending(n) \subseteq Handlers
  BY DEF Pending
<1>2. QED
  BY <1>1, HandlersAssumption, FS_Subset, FS_CardinalityType

(* Looking back no time at all, only the handlers count. *)
LEMMA NoTime == TypeOK /\ admitted[0] = 0 => Bounded(0)
<1> SUFFICES ASSUME TypeOK, admitted[0] = 0 PROVE Bounded(0)
  OBVIOUS
<1>1. Limit \in Nat \ {0} /\ Cardinality(Handlers) \in Nat /\ 0 \in 0..Old
  BY LimiterAssumption, HandlersAssumption, FS_CardinalityType DEF Old
<1>2. Cardinality(Pending(0)) \in Nat /\ Cardinality(Pending(0)) <= Cardinality(Handlers)
  BY PendingSize
<1>3. visitors[Watched].count \in Nat
  BY UsersAssumption, LimiterAssumption DEF TypeOK
<1>4. QED
  BY <1>1, <1>2, <1>3 DEF Bounded, Load, Within, Used

LEMMA OldType == Old \in Nat
BY LimiterAssumption DEF Old

(* What one request does to the load, n ticks back. *)
LEMMA LoadStep ==
    ASSUME TypeOK, NEW h \in Handlers, stage[h] = "limit", NEW n \in 1..Old,
           stage' \in {[stage EXCEPT ![h] = "passed"], [stage EXCEPT ![h] = "idle"]},
           read' = [read EXCEPT ![h] = 0],
           admitted'[n] \in {admitted[n], admitted[n] + 1}
    PROVE  /\ Load(n) \in Nat /\ Load(n)' \in Nat /\ Load(n)' <= Load(n) + 1
           /\ read[h] >= n => Load(n)' <= Load(n)
           /\ admitted'[n] = admitted[n] => Load(n)' <= Load(n)
<1>1. n \in Nat /\ admitted[n] \in Nat
  BY OldType DEF TypeOK
<1>2. Pending(n)' = Pending(n) \ {h}
  BY DEF Pending, TypeOK
<1>3. read[h] >= n => h \in Pending(n)
  BY DEF Pending
<1>4. IsFiniteSet(Pending(n)) /\ Cardinality(Pending(n)) \in Nat
  BY <1>1, PendingSize
<1>5. /\ Cardinality(Pending(n)') \in Nat
      /\ Cardinality(Pending(n)') = IF h \in Pending(n) THEN Cardinality(Pending(n)) - 1
                                                       ELSE Cardinality(Pending(n))
  BY <1>2, <1>4, FS_RemoveElement, FS_CardinalityType
<1>6. Load(n)' = admitted'[n] + Cardinality(Pending(n)')
  BY DEF Load
<1>7. QED
  BY <1>1, <1>3, <1>4, <1>5, <1>6 DEF Load

LEMMA LimiterCounts ==
    ASSUME TypeOK, Counted, NEW h \in Handlers, Limiter(h)
    PROVE  Counted'
<1> DEFINE u == principal[h].id
           r == read[h]
           v == visitors[Watched]
           e == Entry(visitors[u], r)
<1>1. /\ u \in Users /\ r \in Nat /\ r \in 0..MaxStale /\ v.start \in Nat /\ v.count \in Nat
      /\ v \in [start : 0..Old, count : 0..Limit + 1]
      /\ stage[h] = "limit" /\ h \in DOMAIN read /\ Watched \in Users
  BY UsersAssumption, LimiterAssumption DEF Limiter, TypeOK, Old
<1>2. /\ visitors' = [visitors EXCEPT ![u] = e]
      /\ read' = [read EXCEPT ![h] = 0]
      /\ \/ /\ Allowed(e) /\ stage' = [stage EXCEPT ![h] = "passed"]
            /\ admitted' = IF u = Watched THEN [n \in 0..Old |-> IF n = 0 THEN 0 ELSE admitted[n] + 1]
                                          ELSE admitted
         \/ ~Allowed(e) /\ stage' = [stage EXCEPT ![h] = "idle"] /\ admitted' = admitted
  BY DEF Limiter, Leave
<1> HIDE DEF u, r, e, v
<1>3. TypeOK'
  BY TypeStep DEF Next
<1>4. (admitted[0] = 0)'
  BY <1>2, OldType DEF Counted
<1>5. Bounded(0)'
  BY <1>3, <1>4, NoTime, PTL
<1>6. \A n \in 0..Old : n \in Nat /\ (n = 0 \/ n \in 1..Old)
  BY OldType
<1>7. \A k \in Handlers : stage'[k] # "limit" => read'[k] = 0
  BY <1>2 DEF Counted, TypeOK
<1>8. stage' \in {[stage EXCEPT ![h] = "passed"], [stage EXCEPT ![h] = "idle"]}
  BY <1>2
<1>9. CASE u # Watched
  <2>1. visitors'[Watched] = v /\ admitted' = admitted
    BY <1>1, <1>2, <1>9 DEF TypeOK, v
  <2>2. ASSUME NEW n \in 1..Old PROVE Bounded(n)'
    <3>1. Load(n) \in Nat /\ Load(n)' \in Nat /\ Load(n)' <= Load(n)
      BY <1>1, <1>2, <1>8, <2>1, LoadStep DEF r
    <3>2. Within(Load(n), n, v.start, v.count)
      BY DEF Counted, Bounded, v
    <3>3. n \in Nat
      BY OldType
    <3>4. Within(Load(n)', n, v.start, v.count)
      BY <1>1, <3>1, <3>2, <3>3, AgeStep, Zenon
    <3>5. QED
      BY <2>1, <3>4 DEF Bounded
  <2>3. QED
    BY <1>3, <1>4, <1>7, <2>1, <2>2, <1>5, <1>6 DEF Counted, v
<1>10. CASE u = Watched
  <2>1. visitors'[Watched] = e /\ e = Entry(v, r)
    BY <1>1, <1>2, <1>10 DEF TypeOK, e, v
  <2>2. ASSUME NEW n \in 1..Old
        PROVE  /\ Load(n) \in Nat /\ Load(n)' \in Nat /\ Load(n)' <= Load(n) + 1
               /\ r >= n => Load(n)' <= Load(n)
               /\ e.count > Limit => Load(n)' <= Load(n)
               /\ Within(Load(n), n, v.start, v.count)
    <3>1. admitted'[n] \in {admitted[n], admitted[n] + 1} /\ (e.count > Limit => admitted'[n] = admitted[n])
      <4>1. n # 0 /\ n \in 0..Old /\ e.count \in Nat
        BY <1>1, <2>1, OldType, EntryType, LimiterAssumption
      <4>2. CASE Allowed(e) /\ admitted' = [k \in 0..Old |-> IF k = 0 THEN 0 ELSE admitted[k] + 1]
        <5>1. admitted'[n] = admitted[n] + 1
          BY <4>1, <4>2
        <5>2. ~(e.count > Limit)
          BY <4>1, <4>2, LimiterAssumption DEF Allowed
        <5>3. QED
          BY <5>1, <5>2
      <4>3. CASE admitted' = admitted
        BY <4>3
      <4>4. QED
        BY <1>2, <1>10, <4>2, <4>3
    <3>2. Within(Load(n), n, v.start, v.count)
      BY OldType DEF Counted, Bounded, v
    <3>3. /\ Load(n) \in Nat /\ Load(n)' \in Nat /\ Load(n)' <= Load(n) + 1
          /\ read[h] >= n => Load(n)' <= Load(n)
          /\ admitted'[n] = admitted[n] => Load(n)' <= Load(n)
      BY <1>1, <1>2, <1>8, <3>1, LoadStep
    <3>4. QED
      BY <3>1, <3>2, <3>3 DEF r
  <2>3. CASE Elapsed(v, r)
    <3>1. e = [start |-> r, count |-> 1] /\ v.start - r >= Window
      BY <2>1, <2>3 DEF Entry, Elapsed
    <3>2. ASSUME NEW n \in 1..Old PROVE Bounded(n)'
      <4>1. Within(Load(n)', n, r, 1)
        <5>1. n \in Nat
          BY OldType
        <5>2. QED
          BY <1>1, <2>2, <3>1, <5>1, ResetStep, Zenon
      <4>2. QED
        BY <2>1, <3>1, <4>1 DEF Bounded
    <3>3. QED
      BY <1>3, <1>4, <1>7, <2>1, <3>1, <3>2, <1>5, <1>6 DEF Counted
  <2>4. CASE ~Elapsed(v, r)
    <3>1. /\ e.start = v.start /\ e.count = Capped(v.count + 1, Limit + 1)
          /\ v.start - r < Window
      BY <1>1, <2>1, <2>4, LimiterAssumption DEF Entry, Elapsed
    <3>2. v.count >= 1
      BY <1>1, <3>1, LimiterAssumption DEF Counted, Old, v
    <3>3. ASSUME NEW n \in 1..Old PROVE Bounded(n)'
      <4>1. v.count + 1 > Limit => e.count > Limit
        BY <1>1, <3>1, LimiterAssumption DEF Capped
      <4>2. Within(Load(n)', n, v.start, Capped(v.count + 1, Limit + 1))
        <5>1. n \in Nat /\ (v.count + 1 > Limit => Load(n)' <= Load(n))
          BY <2>2, <4>1, OldType
        <5>2. QED
          BY <1>1, <2>2, <3>1, <3>2, <5>1, CountStep, Zenon
      <4>3. QED
        BY <2>1, <3>1, <4>2 DEF Bounded
    <3>4. e.count # 0
      BY <1>1, <3>1, LimiterAssumption DEF Capped
    <3>5. QED
      BY <1>3, <1>4, <1>7, <2>1, <3>3, <3>4, <1>5, <1>6 DEF Counted
  <2>5. QED
    BY <2>3, <2>4
<1>11. QED
  BY <1>9, <1>10

LEMMA TickCounts ==
    ASSUME TypeOK, Counted, Tick
    PROVE  Counted'
<1> DEFINE v == visitors[Watched]
<1>1. /\ v.start \in 0..Old /\ v.count \in Nat /\ Watched \in Users
      /\ visitors'[Watched].start = Capped(v.start + 1, Old) /\ visitors'[Watched].count = v.count
  BY UsersAssumption, LimiterAssumption DEF Tick, TypeOK
<1> HIDE DEF v
<1>2. TypeOK'
  BY TypeStep DEF Next
<1>3. (admitted[0] = 0)'
  BY OldType DEF Tick
<1>4. Bounded(0)'
  BY <1>2, <1>3, NoTime, PTL
<1>5. ASSUME NEW n \in 1..Old PROVE Bounded(n)'
  <2> DEFINE k == n - 1
  <2>1. k \in Nat /\ k \in 0..Old /\ n = k + 1 /\ n # 0 /\ n \in 0..Old
    BY OldType
  <2> HIDE DEF k
  <2>2. admitted'[n] = admitted[k]
    BY <2>1 DEF Tick, k
  <2>3. Pending(n)' = Pending(k)
    BY <2>1, LimiterAssumption DEF Pending, Tick, TypeOK
  <2>4. Load(n)' = Load(k)
    BY <2>2, <2>3 DEF Load
  <2>5. Load(k) \in Nat
    <3>1. Cardinality(Pending(k)) \in Nat
      BY <2>1, PendingSize
    <3>2. admitted[k] \in Nat
      BY <2>1 DEF TypeOK
    <3>3. QED
      BY <3>1, <3>2 DEF Load
  <2>6. Within(Load(k), k, v.start, v.count)
    BY <2>1 DEF Counted, Bounded, v
  <2>7. v.start \in Nat
    BY <1>1, OldType
  <2>8. Within(Load(k), n, Capped(v.start + 1, Old), v.count)
    BY <1>1, <2>1, <2>5, <2>6, <2>7, AgeStep
  <2>9. QED
    BY <1>1, <2>4, <2>8 DEF Bounded
<1>6. \A h \in Handlers : stage'[h] # "limit" => read'[h] = 0
  BY DEF Tick
<1>7. visitors'[Watched].count = 0 => visitors'[Watched].start = Old
  BY <1>1, OldType DEF Counted, Capped, v
<1>8. \A n \in 0..Old : n = 0 \/ n \in 1..Old
  BY OldType
<1>9. QED
  BY <1>3, <1>4, <1>5, <1>6, <1>7, <1>8 DEF Counted

(* A request that arrives has read the clock just now. *)
LEMMA ArrivalCounts ==
    ASSUME TypeOK, Counted, NEW h \in Handlers, NEW c \in Credentials, Arrive(h, c)
    PROVE  Counted'
<1>1. TypeOK'
  BY TypeStep DEF Next
<1>2. /\ UNCHANGED <<read, visitors, admitted>> /\ stage[h] = "idle"
      /\ stage' = [stage EXCEPT ![h] = "limit"]
  BY DEF Arrive, Pass
<1>3. Bounded(0)'
  <2>1. (admitted[0] = 0)'
    BY <1>2 DEF Counted
  <2>2. QED
    BY <1>1, <2>1, NoTime, PTL
<1>4. ASSUME NEW n \in 1..Old PROVE Bounded(n)'
  <2>1. n \in Nat /\ n # 0 /\ n \in 0..Old
    BY OldType
  <2>2. Pending(n)' = Pending(n)
    BY <1>2, <2>1 DEF Pending, Counted, TypeOK
  <2>3. Load(n)' = Load(n)
    BY <1>2, <2>2 DEF Load
  <2>4. QED
    BY <1>2, <2>1, <2>3 DEF Counted, Bounded
<1>5. \A n \in 0..Old : n = 0 \/ n \in 1..Old
  BY OldType
<1>6. QED
  BY <1>2, <1>3, <1>4, <1>5 DEF Counted, TypeOK

(***************************************************************************)
(* However many requests wait for the limiter's lock, and however long, a  *)
(* user is admitted at most twice the limit, and once more per other       *)
(* handler, within a window's length (auth.go 119-128).                    *)
(***************************************************************************)
THEOREM GatewayBurstBounded == Spec => []BurstBounded
<1>1. Init => Counted
  <2> SUFFICES ASSUME Init PROVE Counted
    OBVIOUS
  <2>1. Limit \in Nat \ {0} /\ Window \in Nat \ {0} /\ Cardinality(Handlers) \in Nat
        /\ visitors[Watched] = [start |-> Old, count |-> 0]
    BY LimiterAssumption, UsersAssumption, HandlersAssumption, FS_CardinalityType DEF Init
  <2>2. ASSUME NEW n \in 0..Old PROVE Bounded(n)
    <3>1. admitted[n] = 0 /\ n \in Nat /\ Pending(n) = {}
      BY OldType DEF Init, Pending
    <3>2. Cardinality(Pending(n)) = 0
      BY <3>1, FS_EmptySet
    <3>3. QED
      BY <2>1, <3>1, <3>2 DEF Bounded, Load, Within, Used
  <2>3. QED
    BY <2>1, <2>2, OldType DEF Init, Counted
<1>2. TypeOK /\ Counted /\ [Next]_vars => Counted'
  <2> SUFFICES ASSUME TypeOK, Counted, [Next]_vars PROVE Counted'
    OBVIOUS
  <2>1. ASSUME UNCHANGED <<read, visitors, admitted>>, Pending(0)' = Pending(0),
               \A h \in Handlers : stage'[h] = "limit" <=> stage[h] = "limit"
        PROVE  Counted'
    <3>1. \A n : Pending(n)' = Pending(n)
      BY <2>1 DEF Pending
    <3>2. ASSUME NEW n \in 0..Old PROVE Bounded(n)'
      BY <2>1, <3>1 DEF Counted, Bounded, Load
    <3>3. QED
      BY <2>1, <3>2 DEF Counted
  <2>2. ASSUME NEW h \in Handlers, stage[h] = "passed", Leave(h), UNCHANGED <<read, visitors, admitted>>
        PROVE  Counted'
    BY <2>1, <2>2 DEF Leave, TypeOK, Pending
  <2>3. CASE UNCHANGED <<stage, read, visitors, admitted>>
    BY <2>1, <2>3 DEF Pending
  <2>4. QED
    BY <2>2, <2>3, LimiterCounts, TickCounts, ArrivalCounts
       DEF Next, Unauthorized, Serve, createTool, Definitions, vars, requests
<1>3. TypeOK /\ Counted => BurstBounded
  <2> SUFFICES ASSUME TypeOK, Counted PROVE BurstBounded
    OBVIOUS
  <2>1. /\ Limit \in Nat \ {0} /\ Window \in Nat \ {0} /\ Cardinality(Handlers) \in Nat
        /\ Window \in 0..Old /\ visitors[Watched].start \in Nat /\ visitors[Watched].count \in Nat
    BY LimiterAssumption, UsersAssumption, HandlersAssumption, FS_CardinalityType DEF TypeOK, Old
  <2>2. admitted[Window] \in Nat /\ Cardinality(Pending(Window)) \in Nat
    BY <2>1, PendingSize DEF TypeOK
  <2>3. Bounded(Window)
    BY <2>1 DEF Counted
  <2>4. QED
    BY <2>1, <2>2, <2>3 DEF Bounded, Load, Within, Used, BurstBounded
<1>4. QED
  BY <1>1, <1>2, <1>3, GatewayTypeOK, PTL DEF Spec

(***************************************************************************)
(* While a window's start is not forgotten, the requests it counted, up to *)
(* the limit, were admitted since then.                                    *)
(***************************************************************************)
Covered ==
    /\ admitted[0] = 0
    /\ \A m, n \in 0..Old : m <= n => admitted[m] <= admitted[n]
    /\ visitors[Watched].start < Old =>
           admitted[visitors[Watched].start + 1] >= Capped(visitors[Watched].count, Limit)

LEMMA LimiterCovers ==
    ASSUME TypeOK, Covered, NEW h \in Handlers, Limiter(h)
    PROVE  /\ Covered'
           /\ stage'[h] = "idle" /\ principal[h].id = Watched => admitted[Old] >= Limit
<1> DEFINE u == principal[h].id
           r == read[h]
           v == visitors[Watched]
           e == Entry(visitors[u], r)
<1>1. /\ u \in Users /\ r \in 0..MaxStale /\ v \in [start : 0..Old, count : 0..Limit + 1]
      /\ Watched \in Users /\ Limit \in Nat \ {0} /\ Window \in Nat \ {0} /\ MaxStale \in Nat
      /\ Old = Window + MaxStale
  BY UsersAssumption, LimiterAssumption DEF Limiter, TypeOK, Old
<1>2. /\ visitors' = [visitors EXCEPT ![u] = e]
      /\ \/ /\ Allowed(e) /\ stage' = [stage EXCEPT ![h] = "passed"]
            /\ admitted' = IF u = Watched THEN [n \in 0..Old |-> IF n = 0 THEN 0 ELSE admitted[n] + 1]
                                          ELSE admitted
         \/ ~Allowed(e) /\ stage' = [stage EXCEPT ![h] = "idle"] /\ admitted' = admitted
  BY DEF Limiter, Leave
<1>3. v.start \in 0..Old /\ v.count \in 0..Limit + 1 /\ admitted \in [0..Old -> Nat]
  BY <1>1 DEF TypeOK
<1> HIDE DEF u, r, e, v
<1>4. CASE u # Watched
  <2>1. visitors'[Watched] = visitors[Watched] /\ admitted' = admitted
    BY <1>1, <1>2, <1>4 DEF TypeOK
  <2>2. QED
    BY <1>4, <2>1 DEF Covered, u
<1>5. CASE u = Watched
  <2>1. visitors'[Watched] = e /\ e = Entry(v, r)
    BY <1>1, <1>2, <1>5 DEF TypeOK, e, v
  <2>2. \/ Elapsed(v, r) /\ e = [start |-> r, count |-> 1]
        \/ /\ v.start - r < Window /\ e.start = v.start
           /\ e.count = IF v.count + 1 > Limit + 1 THEN Limit + 1 ELSE v.count + 1
    <3>1. CASE Elapsed(v, r)
      BY <2>1, <3>1 DEF Entry
    <3>2. CASE ~Elapsed(v, r)
      <4>1. e = [v EXCEPT !.count = Capped(v.count + 1, Limit + 1)]
        BY <2>1, <3>2 DEF Entry
      <4>2. e.start = v.start /\ e.count = Capped(v.count + 1, Limit + 1)
        BY <1>1, <4>1
      <4>3. v.start - r < Window
        BY <1>1, <1>3, <3>2 DEF Elapsed
      <4>4. QED
        BY <4>2, <4>3 DEF Capped
    <3>3. QED
      BY <3>1, <3>2
  <2>3. e.start \in 0..Old /\ e.count \in 0..Limit + 1
    BY <1>1, <2>1, EntryType
  <2>4. ~Elapsed(v, r) \/ e.count # 1 => v.start < Old /\ v.start - r < Window
    BY <1>1, <1>3, <2>2 DEF Elapsed
  <2>5. CASE Allowed(e) /\ stage' = [stage EXCEPT ![h] = "passed"]
             /\ admitted' = [n \in 0..Old |-> IF n = 0 THEN 0 ELSE admitted[n] + 1]
    <3>1. /\ admitted'[0] = 0 /\ \A n \in 0..Old : n # 0 => admitted'[n] = admitted[n] + 1
          /\ 0 \in 0..Old
      BY <1>1, <2>5
    <3>2. \A m, n \in 0..Old : m <= n => admitted'[m] <= admitted'[n]
      <4>1. SUFFICES ASSUME NEW m \in 0..Old, NEW n \in 0..Old, m <= n
                     PROVE  admitted'[m] <= admitted'[n]
        OBVIOUS
      <4>2. admitted[m] \in Nat /\ admitted[n] \in Nat /\ admitted[m] <= admitted[n]
        BY <1>3, <4>1 DEF Covered
      <4>3. CASE m = 0
        BY <1>1, <3>1, <4>2, <4>3
      <4>4. CASE m # 0
        <5>1. n # 0
          BY <1>1, <4>1, <4>4
        <5>2. QED
          BY <3>1, <4>2, <4>4, <5>1
      <4>5. QED
        BY <4>3, <4>4
    <3>3. e.start < Old => admitted'[e.start + 1] >= e.count
      <4>1. SUFFICES ASSUME e.start < Old PROVE admitted'[e.start + 1] >= e.count
        OBVIOUS
      <4>2. e.start + 1 \in 0..Old /\ admitted'[e.start + 1] = admitted[e.start + 1] + 1
            /\ admitted[e.start + 1] \in Nat
        <5>1. e.start + 1 \in 0..Old /\ e.start + 1 # 0
          BY <1>1, <2>3, <4>1
        <5>2. QED
          BY <1>3, <3>1, <5>1
      <4>3. CASE e.count = 1
        BY <4>2, <4>3
      <4>4. CASE e.count # 1
        <5>1. e.start = v.start /\ v.start < Old /\ e.count <= Limit
          BY <2>2, <2>4, <2>5, <4>4 DEF Allowed
        <5>2. e.count = v.count + 1
          BY <1>1, <1>3, <2>2, <4>4, <5>1
        <5>3. admitted[v.start + 1] >= v.count
          BY <1>1, <1>3, <5>1, <5>2 DEF Covered, Capped, v
        <5>4. QED
          BY <1>3, <4>2, <5>1, <5>2, <5>3
      <4>5. QED
        BY <4>3, <4>4
    <3>4. Capped(e.count, Limit) = e.count
      BY <1>1, <2>3, <2>5 DEF Capped, Allowed
    <3>5. stage'[h] # "idle"
      BY <2>5 DEF TypeOK
    <3>6. QED
      BY <2>1, <3>1, <3>2, <3>3, <3>4, <3>5 DEF Covered
  <2>6. CASE ~Allowed(e) /\ admitted' = admitted
    <3>1. e.count > Limit /\ v.start < Old /\ e.start = v.start /\ v.count >= Limit
      BY <1>1, <1>3, <2>2, <2>3, <2>4, <2>6 DEF Allowed
    <3>2. v.start + 1 \in 0..Old /\ Old \in 0..Old /\ v.start + 1 <= Old
      BY <1>1, <1>3, <3>1
    <3>3. admitted[v.start + 1] >= Limit /\ admitted[v.start + 1] <= admitted[Old]
      BY <1>1, <1>3, <3>1, <3>2 DEF Covered, Capped, v
    <3>4. admitted[Old] >= Limit
      BY <1>1, <1>3, <3>2, <3>3
    <3>5. Capped(e.count, Limit) = Limit
      BY <1>1, <2>3, <3>1 DEF Capped
    <3>6. QED
      BY <2>1, <2>6, <3>1, <3>3, <3>4, <3>5 DEF Covered
  <2>7. QED
    BY <1>2, <1>5, <2>5, <2>6 DEF u
<1>6. QED
  BY <1>4, <1>5

LEMMA TickCovers ==
    ASSUME TypeOK, Covered, Tick
    PROVE  Covered'
<1> DEFINE v == visitors[Watched]
<1>1. /\ v.start \in 0..Old /\ v.count \in Nat /\ Watched \in Users
      /\ visitors'[Watched].start = Capped(v.start + 1, Old) /\ visitors'[Watched].count = v.count
      /\ admitted \in [0..Old -> Nat] /\ Old \in Nat
  BY UsersAssumption, LimiterAssumption, OldType DEF Tick, TypeOK
<1> HIDE DEF v
<1>2. /\ admitted'[0] = 0
      /\ \A n \in 0..Old : n # 0 => admitted'[n] = admitted[n - 1] /\ n - 1 \in 0..Old
  BY <1>1 DEF Tick
<1>3. \A m, n \in 0..Old : m <= n => admitted'[m] <= admitted'[n]
  BY <1>1, <1>2 DEF Covered
<1>4. Capped(v.start + 1, Old) < Old =>
          admitted'[Capped(v.start + 1, Old) + 1] >= Capped(v.count, Limit)
  <2>1. SUFFICES ASSUME Capped(v.start + 1, Old) < Old
                 PROVE  admitted'[Capped(v.start + 1, Old) + 1] >= Capped(v.count, Limit)
    OBVIOUS
  <2>2. PICK x \in 0..Old : x = v.start
    BY <1>1
  <2>3. Capped(x + 1, Old) = x + 1 /\ x + 1 < Old
    BY <1>1, <2>1, <2>2 DEF Capped
  <2>4. x + 2 \in 0..Old /\ x + 2 # 0 /\ x + 2 - 1 = x + 1 /\ x + 1 + 1 = x + 2 /\ x < Old
    BY <1>1, <2>3
  <2>5. admitted'[x + 2] = admitted[x + 2 - 1]
    BY <1>2, <2>4
  <2>6. admitted[x + 1] >= Capped(v.count, Limit)
    BY <2>2, <2>4 DEF Covered, v
  <2>7. QED
    BY <2>2, <2>3, <2>4, <2>5, <2>6
<1>5. QED
  BY <1>1, <1>2, <1>3, <1>4 DEF Covered

(***************************************************************************)
(* A user is refused only after the user's own requests, Limit of them,    *)
(* were admitted within a window and the time a reading may wait (auth.go  *)
(* 119-133).                                                               *)
(***************************************************************************)
THEOREM GatewayRejectionJustified == Spec => RejectionJustified
<1>1. Init => Covered
  BY LimiterAssumption, UsersAssumption, OldType DEF Init, Covered, Capped
<1>2. TypeOK /\ Covered /\ [Next]_vars => Covered'
  <2> SUFFICES ASSUME TypeOK, Covered, [Next]_vars PROVE Covered'
    OBVIOUS
  <2>1. CASE UNCHANGED <<visitors, admitted>>
    BY <2>1 DEF Covered
  <2>2. QED
    BY <2>1, LimiterCovers, TickCovers
       DEF Next, Arrive, Pass, Unauthorized, Serve, createTool, Definitions, vars
<1>3. TypeOK /\ Covered /\ [Next]_vars =>
          [\A h \in Handlers :
               stage[h] = "limit" /\ stage'[h] = "idle" /\ principal[h].id = Watched =>
                   admitted[Old] >= Limit]_vars
  <2> SUFFICES ASSUME TypeOK, Covered, Next, NEW h \in Handlers,
                      stage[h] = "limit", stage'[h] = "idle", principal[h].id = Watched
               PROVE  admitted[Old] >= Limit
    OBVIOUS
  <2>1. Limiter(h)
    BY DEF Next, Arrive, Pass, Unauthorized, Limiter, Serve, createTool, Leave, Definitions, Tick,
       vars, requests, TypeOK
  <2>2. QED
    BY <2>1, LimiterCovers
<1>4. QED
  BY <1>1, <1>2, <1>3, GatewayTypeOK, PTL DEF Spec, RejectionJustified
=============================================================================
