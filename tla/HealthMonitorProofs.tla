-------------------------- MODULE HealthMonitorProofs --------------------------
(***************************************************************************)
(* Proofs about HealthMonitor, for any finite sets of agents and           *)
(* scenarios, any scopes, any length of the history and any bounds.        *)
(***************************************************************************)
EXTENDS HealthMonitor, FiniteSetTheorems, TLAPS

\* HealthyIsHonest of one agent.
Honest(h) == h.status = "healthy" => ~h.missed /\ h.stalled = {}
HonestHealth == {h \in Health : Honest(h)}

\* The parts of the inductive invariant, one for each piece of state that several
\* actors touch.  While a recovery is under way its local variables name the agent
\* and the scenario.
PlainOK ==
    /\ scope \in Scopes
    /\ link \in [Agents -> {"up", "silent", "down"}]
    /\ stopped \subseteq Scenarios /\ deploys \in Nat
    /\ leaving \subseteq Agents
    /\ auto \in BOOLEAN /\ limit \in Nat
RunningOK == running \in [Agents -> SUBSET Scenarios] /\ dry \in [Agents -> SUBSET Scenarios]
TrackedOK == tracked \in [Scenarios -> Agents \cup {NoAgent}]
LostOK == lost \subseteq Agents \X Scenarios
DownOK == down \in [Agents -> Seq(Command)]
ConnOK == conn \in [Agents -> Connection \cup {Absent}]
DashOK == dash \in [Scenarios -> Entry \cup {Absent}]
HealthOK == health \in [Agents -> HonestHealth]
AttemptsOK == attempts \in [Agents -> Seq(Attempt)]
MonOK == mon \in Pass /\ (mon.at \in {"pause", "deploy"} => mon.agent \in Agents /\ mon.scenario \in Scenarios)

HInv ==
    /\ PlainOK /\ RunningOK /\ TrackedOK /\ LostOK /\ DownOK /\ ConnOK /\ DashOK
    /\ HealthOK /\ AttemptsOK /\ MonOK

\* It gives the two invariants.
LEMMA InvariantFact == ASSUME HInv PROVE TypeOK /\ HealthyIsHonest
  <1>1. health \in [Agents -> Health]
    BY DEF HInv, HealthOK, HonestHealth
  <1>2. TypeOK
    BY <1>1 DEF HInv, PlainOK, RunningOK, TrackedOK, LostOK, DownOK, ConnOK, DashOK, AttemptsOK, MonOK, TypeOK
  <1>3. HealthyIsHonest
    BY DEF HInv, HealthOK, HonestHealth, Honest, HealthyIsHonest
  <1> QED BY <1>2, <1>3

\* A part of which the variables stay is kept.
LEMMA Frame ==
  ASSUME HInv
  PROVE  /\ UNCHANGED <<scope, link, stopped, deploys, leaving, auto, limit>> => PlainOK'
         /\ UNCHANGED <<running, dry>> => RunningOK'
         /\ UNCHANGED tracked => TrackedOK'
         /\ UNCHANGED lost => LostOK'
         /\ UNCHANGED down => DownOK'
         /\ UNCHANGED conn => ConnOK'
         /\ UNCHANGED dash => DashOK'
         /\ UNCHANGED health => HealthOK'
         /\ UNCHANGED attempts => AttemptsOK'
         /\ UNCHANGED mon => MonOK'
  BY DEF HInv, PlainOK, RunningOK, TrackedOK, LostOK, DownOK, ConnOK, DashOK, HealthOK, AttemptsOK, MonOK

-----------------------------------------------------------------------------
(* Operators *)

\* max_status: the result is a status, and with a warning or worse never "healthy".
LEMMA MaxStatusFact ==
  ASSUME NEW x \in HealthStatus, NEW y \in {"warning", "critical"}
  PROVE  MaxStatus(x, y) \in HealthStatus \ {"healthy"}
  <1>1. DOMAIN Levels = 1 .. 4
    BY DEF Levels
  <1>2. Levels[1] = "healthy" /\ Levels[2] = "warning" /\ Levels[3] = "critical" /\ Levels[4] = "offline"
    BY DEF Levels
  <1>3. HealthStatus = {"healthy", "warning", "critical", "offline"}
    BY <1>1, <1>2 DEF HealthStatus, Range
  <1>4. Severity("healthy") = 1
    BY <1>1, <1>2 DEF Severity
  <1>5. Severity(y) \in {2, 3}
    BY <1>1, <1>2 DEF Severity
  <1>6. x = "healthy" => MaxStatus(x, y) = y
    BY <1>4, <1>5 DEF MaxStatus
  <1>7. MaxStatus(x, y) \in {x, y}
    BY DEF MaxStatus
  <1> QED BY <1>3, <1>6, <1>7

\* What HealthStatus is.
LEMMA StatusFact == HealthStatus = {"healthy", "warning", "critical", "offline"}
  <1>1. DOMAIN Levels = 1 .. 4
    BY DEF Levels
  <1>2. Levels[1] = "healthy" /\ Levels[2] = "warning" /\ Levels[3] = "critical" /\ Levels[4] = "offline"
    BY DEF Levels
  <1> QED BY <1>1, <1>2 DEF HealthStatus, Range

\* A report of an agent: its scenario, its state, and whether it has sent no packets.
Report == [scenario : Scenarios, state : {"running", "stopped", "error"}, zero : BOOLEAN]

\* The hooks and checks keep the health of an agent honest.
LEMMA HonestFact ==
  ASSUME NEW h \in HonestHealth
  PROVE  /\ NewHealth \in HonestHealth
         /\ \A m \in Report : OnDeploymentError(OnDeploymentStatus(h, m), m) \in HonestHealth
         /\ \A c \in Connection : CheckResources(CheckHeartbeat(h, c), c) \in HonestHealth
         /\ \A f \in [Scenarios -> {"none", "grace", "past"}] : [h EXCEPT !.since = f] \in HonestHealth
         /\ \A w \in {"none", "fresh", "sustained"} : [h EXCEPT !.warn = w] \in HonestHealth
         /\ \A T : [h EXCEPT !.stalled = @ \ T] \in HonestHealth /\ [h EXCEPT !.stalled = @ \cap T] \in HonestHealth
         /\ \A s \in Scenarios : [h EXCEPT !.stalled = @ \cup {s}, !.status = MaxStatus(@, "warning")] \in HonestHealth
         /\ [h EXCEPT !.status = "offline"] \in HonestHealth
         /\ ~h.missed /\ h.stalled = {} => [h EXCEPT !.status = "healthy"] \in HonestHealth
         /\ [h EXCEPT !.status = "healthy", !.missed = FALSE, !.warn = "none", !.stalled = {}] \in HonestHealth
  <1> USE StatusFact DEF HonestHealth, Honest, Health
  <1>0. \A y \in {"warning", "critical"} : MaxStatus(h.status, y) \in HealthStatus \ {"healthy"}
    BY MaxStatusFact
  <1>1. NewHealth \in HonestHealth
    BY DEF NewHealth
  <1>2. \A f \in [Scenarios -> {"none", "grace", "past"}] : [h EXCEPT !.since = f] \in HonestHealth
    OBVIOUS
  <1>3. \A w \in {"none", "fresh", "sustained"} : [h EXCEPT !.warn = w] \in HonestHealth
    OBVIOUS
  <1>4. \A T : [h EXCEPT !.stalled = @ \ T] \in HonestHealth /\ [h EXCEPT !.stalled = @ \cap T] \in HonestHealth
    OBVIOUS
  <1>5. \A s \in Scenarios : [h EXCEPT !.stalled = @ \cup {s}, !.status = MaxStatus(@, "warning")] \in HonestHealth
    BY <1>0
  <1>6. [h EXCEPT !.status = "offline"] \in HonestHealth
    OBVIOUS
  <1>7. ~h.missed /\ h.stalled = {} => [h EXCEPT !.status = "healthy"] \in HonestHealth
    OBVIOUS
  <1>8. [h EXCEPT !.status = "healthy", !.missed = FALSE, !.warn = "none", !.stalled = {}] \in HonestHealth
    OBVIOUS
  <1>9. ASSUME NEW m \in Report PROVE OnDeploymentError(OnDeploymentStatus(h, m), m) \in HonestHealth
    <2> DEFINE k == OnDeploymentStatus(h, m)
    <2>1. k \in HonestHealth
      BY DEF OnDeploymentStatus, Report
    <2> HIDE DEF k
    <2>2. MaxStatus(k.status, "critical") \in HealthStatus \ {"healthy"}
      BY <2>1, MaxStatusFact
    <2>3. [k EXCEPT !.status = MaxStatus(@, "critical")] \in HonestHealth
      BY <2>1, <2>2
    <2>4. OnDeploymentError(k, m) \in {k, [k EXCEPT !.status = MaxStatus(@, "critical")]}
      BY Zenon DEF OnDeploymentError
    <2>5. OnDeploymentError(k, m) \in HonestHealth
      BY <2>1, <2>3, <2>4, Zenon
    <2> QED BY <2>5 DEF k
  <1>10. ASSUME NEW c \in Connection PROVE CheckResources(CheckHeartbeat(h, c), c) \in HonestHealth
    <2> DEFINE k == CheckHeartbeat(h, c)
    <2>1. k \in HonestHealth
      BY <1>0 DEF CheckHeartbeat, Connection
    <2> HIDE DEF k
    <2>2. MaxStatus(k.status, "warning") \in HealthStatus \ {"healthy"}
      BY <2>1, MaxStatusFact
    <2>3. CheckResources(k, c) \in HonestHealth
      <3>1. CASE c.load = "ok"
        BY <2>1, <2>2, <3>1, Zenon DEF CheckResources
      <3>2. CASE c.load # "ok" /\ k.warn # "sustained"
        BY <2>1, <2>2, <3>2 DEF CheckResources
      <3>3. CASE c.load = "critical" /\ k.warn = "sustained"
        BY <2>1, <2>2, <3>3 DEF CheckResources
      <3>4. CASE c.load = "high" /\ k.warn = "sustained"
        BY <2>1, <2>2, <3>4 DEF CheckResources
      <3> QED BY <3>1, <3>2, <3>3, <3>4 DEF Connection
    <2> QED BY <2>3 DEF k
  <1> QED BY <1>1, <1>2, <1>3, <1>4, <1>5, <1>6, <1>7, <1>8, <1>9, <1>10, Zenon

\* What is sent to an agent is a sequence of commands.
LEMMA SendType ==
  ASSUME DownOK, NEW a \in Agents, NEW q \in Seq(Command), Send(a, q)
  PROVE  DownOK'
  <1>1. down[a] \o q \in Seq(Command)
    BY DEF DownOK
  <1> QED BY <1>1 DEF Send, DownOK

LEMMA CommandType ==
  ASSUME NEW type \in {"START", "STOP"}
  PROVE  /\ \A s \in Scenarios : CommandOf(type, s) \in Seq(Command)
         /\ \A S \in SUBSET Scenarios : \A q \in SetToSeqs(S) : Commands(type, q) \in Seq(Command)
  <1>1. \A s \in Scenarios : CommandOf(type, s) \in Seq(Command)
    <2>1. \A s \in Scenarios : [type |-> type, scenario |-> s] \in Command
      BY DEF Command
    <2> QED BY <2>1 DEF CommandOf
  <1>2. ASSUME NEW S \in SUBSET Scenarios, NEW q \in SetToSeqs(S) PROVE Commands(type, q) \in Seq(Command)
    <2>1. Cardinality(S) \in Nat
      BY MonitorAssumption, FS_Subset, FS_CardinalityType
    <2>2. q \in [1 .. Cardinality(S) -> S]
      BY DEF SetToSeqs
    <2>3. Commands(type, q) \in [1 .. Cardinality(S) -> Command]
      BY <2>2 DEF Commands, Command
    <2> QED BY <2>1, <2>3
  <1> QED BY <1>1, <1>2

\* The attempts of an hour can be counted.
LEMMA AttemptsFinite ==
  ASSUME AttemptsOK, NEW s
  PROVE  IsFiniteSet(Attempts(s))
  <1> DEFINE P(b) == {b} \X {i \in DOMAIN attempts[b] : attempts[b][i].scenario = s}
             T == {P(b) : b \in Agents}
             f == [b \in Agents |-> P(b)]
  <1>1. ASSUME NEW b \in Agents PROVE IsFiniteSet(P(b))
    <2>1. Len(attempts[b]) \in Nat /\ DOMAIN attempts[b] = 1 .. Len(attempts[b])
      BY DEF AttemptsOK
    <2>2. IsFiniteSet(1 .. Len(attempts[b]))
      BY <2>1, FS_Interval
    <2>3. IsFiniteSet({i \in DOMAIN attempts[b] : attempts[b][i].scenario = s})
      BY <2>1, <2>2, FS_Subset
    <2> QED BY <2>3, FS_Singleton, FS_Product
  <1> HIDE DEF P
  <1>2. f \in Surjection(Agents, T)
    BY DEF Surjection
  <1>3. IsFiniteSet(T)
    BY <1>2, FS_Surjection, MonitorAssumption
  <1>4. IsFiniteSet(UNION T)
    BY <1>1, <1>3, FS_UNION
  <1> QED BY <1>4 DEF Attempts, P

\* An attempt more is one element more.
LEMMA AppendFact ==
  ASSUME AttemptsOK, NEW a \in Agents, NEW s \in Scenarios, NEW r \in Attempt, r.scenario = s,
         attempts' = [attempts EXCEPT ![a] = Append(@, r)]
  PROVE  /\ Attempts(s)' \subseteq Attempts(s) \cup {<<a, Len(attempts[a]) + 1>>}
         /\ \A b \in Agents \ {a} : attempts'[b] = attempts[b]
         /\ attempts'[a][Len(attempts'[a])] = r
  <1> DEFINE n == Len(attempts[a]) + 1
  <1>1. /\ attempts[a] \in Seq(Attempt) /\ attempts'[a] = Append(attempts[a], r)
        /\ \A b \in Agents \ {a} : attempts'[b] = attempts[b]
    BY DEF AttemptsOK
  <1>2. /\ DOMAIN attempts'[a] = (DOMAIN attempts[a]) \cup {n} /\ Len(attempts'[a]) = n /\ attempts'[a][n] = r
        /\ \A i \in DOMAIN attempts[a] : attempts'[a][i] = attempts[a][i]
    BY <1>1
  <1>3. ASSUME NEW x \in Attempts(s)' PROVE x \in Attempts(s) \cup {<<a, n>>}
    <2>1. PICK b \in Agents : \E i \in DOMAIN attempts'[b] : x = <<b, i>> /\ attempts'[b][i].scenario = s
      BY DEF Attempts
    <2>2. PICK i \in DOMAIN attempts'[b] : x = <<b, i>> /\ attempts'[b][i].scenario = s
      BY <2>1
    <2>3. CASE b = a /\ i = n
      BY <2>2, <2>3
    <2>4. CASE ~(b = a /\ i = n)
      <3>1. i \in DOMAIN attempts[b] /\ attempts[b][i].scenario = s
        BY <1>1, <1>2, <2>2, <2>4
      <3> QED BY <2>2, <3>1 DEF Attempts
    <2> QED BY <2>3, <2>4
  <1> QED BY <1>1, <1>2, <1>3

\* While no history is full to overflowing, every attempt of the hour is remembered.
LEMMA KeptFact ==
  ASSUME AttemptsOK, \A a \in Agents : Len(attempts[a]) <= MaxHistory, NEW s
  PROVE  Kept(s) = Attempts(s)
  <1>1. ASSUME NEW x \in Attempts(s) PROVE x[2] > Len(attempts[x[1]]) - MaxHistory
    <2>0. PICK b \in Agents : \E i \in DOMAIN attempts[b] : x = <<b, i>>
      BY DEF Attempts
    <2>1. PICK i \in DOMAIN attempts[b] : x = <<b, i>>
      BY <2>0
    <2>2. attempts[b] \in Seq(Attempt) /\ Len(attempts[b]) <= MaxHistory /\ x[1] = b /\ x[2] = i
      BY <2>1 DEF AttemptsOK
    <2>3. i \in Nat /\ i >= 1 /\ Len(attempts[b]) \in Nat /\ MaxHistory \in Nat
      BY <2>2, MonitorAssumption
    <2> QED BY <2>2, <2>3
  <1> QED BY <1>1 DEF Kept

-----------------------------------------------------------------------------
(* The initial states *)

LEMMA HealthInit == ASSUME Init PROVE HInv
  <1>1. PlainOK /\ RunningOK /\ TrackedOK /\ LostOK
    BY MonitorAssumption DEF Init, PlainOK, RunningOK, TrackedOK, LostOK
  <1>2. DownOK
    <2>1. <<>> \in Seq(Command)
      OBVIOUS
    <2> QED BY <2>1 DEF Init, DownOK
  <1>3. ConnOK /\ DashOK
    BY DEF Init, ConnOK, DashOK
  <1>4. HealthOK
    <2>1. NewHealth \in HonestHealth
      BY StatusFact DEF NewHealth, HonestHealth, Honest, Health
    <2> QED BY <2>1 DEF Init, HealthOK
  <1>5. AttemptsOK
    <2>1. <<>> \in Seq(Attempt)
      OBVIOUS
    <2> QED BY <2>1 DEF Init, AttemptsOK
  <1>6. MonOK
    BY DEF Init, MonOK, Asleep, Pass
  <1> QED BY <1>1, <1>2, <1>3, <1>4, <1>5, <1>6 DEF HInv
-----------------------------------------------------------------------------
(* The steps: one lemma for each actor, one step for each action *)

\* A report that gets through.
LEMMA ReceiveFact ==
  ASSUME HInv, NEW a \in Agents, NEW m \in Report, ReceiveStatus(a, m)
  PROVE  DashOK' /\ HealthOK'
  <1>0. DashOK /\ HealthOK
    BY DEF HInv
  <1>1. CASE UNCHANGED <<dash, health>>
    BY <1>1, Frame
  <1>2. CASE /\ UpdateFromStatus(a, m)
             /\ health' = [health EXCEPT ![a] = OnDeploymentError(OnDeploymentStatus(@, m), m)]
    <2>1. HealthOK'
      <3> DEFINE k == OnDeploymentError(OnDeploymentStatus(health[a], m), m)
      <3>1. k \in HonestHealth
        BY <1>0, HonestFact, Zenon DEF HealthOK
      <3>2. health' = [health EXCEPT ![a] = k]
        BY <1>2
      <3> HIDE DEF k
      <3> QED BY <1>0, <3>1, <3>2 DEF HealthOK
    <2>2. DashOK'
      <3> DEFINE e == [here |-> TRUE, agent |-> IF dash[m.scenario].here THEN dash[m.scenario].agent ELSE a,
                       state |-> m.state, zero |-> m.zero, quiet |-> FALSE]
      <3>1. m.scenario \in Scenarios /\ m.state \in {"running", "stopped", "error"} /\ m.zero \in BOOLEAN
        BY DEF Report
      <3>2. dash[m.scenario] \in Entry \/ dash[m.scenario] = Absent
        BY <1>0, <3>1 DEF DashOK
      <3>3. dash[m.scenario].here => dash[m.scenario].agent \in Agents
        <4>1. CASE dash[m.scenario] \in Entry
          BY <4>1 DEF Entry
        <4>2. CASE dash[m.scenario] = Absent
          BY <4>2 DEF Absent
        <4> QED BY <3>2, <4>1, <4>2
      <3>4. e \in Entry
        BY <3>1, <3>3 DEF Entry
      <3>5. dash' = [dash EXCEPT ![m.scenario] = e]
        BY <1>2 DEF UpdateFromStatus
      <3> HIDE DEF e
      <3> QED BY <1>0, <3>1, <3>4, <3>5 DEF DashOK
    <2> QED BY <2>1, <2>2
  <1> QED BY <1>1, <1>2 DEF ReceiveStatus

\* A STOP goes to an agent.
LEMMA SendStopFact ==
  ASSUME HInv, NEW s \in Scenarios, SendStop(s)
  PROVE  DownOK'
  <1>1. CASE tracked[s] = NoAgent
    BY <1>1, Frame DEF SendStop
  <1>2. CASE tracked[s] # NoAgent
    <2>1. tracked[s] \in Agents /\ Send(tracked[s], CommandOf("STOP", s))
      BY <1>2 DEF SendStop, HInv, TrackedOK
    <2> QED BY <2>1, SendType, CommandType DEF HInv
  <1> QED BY <1>1, <1>2

\* The hub's hooks.
LEMMA HubStep ==
  ASSUME HInv, NEW a \in Agents, Connect(a) \/ Hub(a)
  PROVE  HInv'
  <1> USE Frame DEF agents, users, config
  <1>0. /\ PlainOK /\ TrackedOK /\ LostOK /\ ConnOK /\ DashOK /\ HealthOK
        /\ health[a] \in HonestHealth
    BY DEF HInv, HealthOK
  <1>1. CASE Connect(a)
    <2>1. PlainOK'
      BY <1>0, <1>1 DEF Connect, PlainOK
    <2>2. ConnOK'
      BY <1>0, <1>1 DEF Connect, ConnOK, Connection
    <2>3. HealthOK'
      <3> DEFINE k == [health[a] EXCEPT !.status = "healthy", !.missed = FALSE, !.warn = "none", !.stalled = {}]
      <3>1. k \in HonestHealth
        BY <1>0, HonestFact, Zenon
      <3>2. health' = [health EXCEPT ![a] = k]
        BY <1>1 DEF Connect
      <3> HIDE DEF k
      <3> QED BY <1>0, <3>1, <3>2 DEF HealthOK
    <2> QED BY <1>1, <2>1, <2>2, <2>3 DEF Connect, HInv
  <1>2. CASE Heartbeat(a)
    <2> DEFINE mine == {s \in Scenarios : <<a, s>> \in lost}
               replay == mine \ running[a]
    <2>1. ConnOK'
      <3>1. conn[a] \in Connection
        BY <1>0, <1>2 DEF Heartbeat, Connected, ConnOK, Absent
      <3>2. PICK l \in {"ok", "high", "critical"} : conn' = [conn EXCEPT ![a].late = FALSE, ![a].load = l]
        BY <1>2 DEF Heartbeat
      <3>3. [conn[a] EXCEPT !.late = FALSE, !.load = l] \in Connection
        BY <3>1 DEF Connection
      <3>4. conn' = [conn EXCEPT ![a] = [conn[a] EXCEPT !.late = FALSE, !.load = l]]
        BY <1>0, <3>2 DEF ConnOK
      <3> QED BY <1>0, <3>3, <3>4 DEF ConnOK
    <2>2. LostOK'
      BY <1>0, <1>2 DEF Heartbeat, LostOK
    <2>3. DownOK'
      <3>1. PICK order \in SetToSeqs(replay) : Send(a, Commands("START", order))
        BY <1>2 DEF Heartbeat
      <3>2. replay \in SUBSET Scenarios
        OBVIOUS
      <3>3. Commands("START", order) \in Seq(Command)
        BY <3>1, <3>2, CommandType
      <3> QED BY <3>1, <3>3, SendType DEF HInv
    <2>4. TrackedOK'
      BY <1>0, <1>2 DEF Heartbeat, TrackedOK
    <2>5. HealthOK'
      <3> DEFINE f == [s \in Scenarios |-> IF s \in replay THEN "grace" ELSE health[a].since[s]]
                 k == [health[a] EXCEPT !.since = f]
      <3>1. f \in [Scenarios -> {"none", "grace", "past"}]
        BY <1>0 DEF HonestHealth, Health
      <3>2. k \in HonestHealth
        BY <1>0, <3>1, HonestFact, Zenon
      <3>3. health' = [health EXCEPT ![a].since = f]
        BY <1>2 DEF Heartbeat
      <3>4. health' = [health EXCEPT ![a] = k]
        BY <1>0, <3>3 DEF HealthOK
      <3> HIDE DEF k
      <3> QED BY <1>0, <3>2, <3>4 DEF HealthOK
    <2> HIDE DEF mine, replay
    <2> QED BY <1>2, <2>1, <2>2, <2>3, <2>4, <2>5 DEF Heartbeat, HInv
  <1>3. CASE Disconnected(a)
    <2>1. PlainOK'
      BY <1>0, <1>3 DEF Disconnected, PlainOK
    <2>2. HealthOK'
      <3>1. [health[a] EXCEPT !.status = "offline"] \in HonestHealth
        BY <1>0, HonestFact, Zenon
      <3>2. health' = [health EXCEPT ![a] = [health[a] EXCEPT !.status = "offline"]]
        BY <1>0, <1>3 DEF Disconnected, HealthOK
      <3> QED BY <1>0, <3>1, <3>2 DEF HealthOK
    <2> QED BY <1>3, <2>1, <2>2 DEF Disconnected, HInv
  <1>4. CASE Unregister(a)
    <2>1. PlainOK'
      BY <1>0, <1>4 DEF Unregister, PlainOK
    <2>2. ConnOK'
      BY <1>0, <1>4 DEF Unregister, ConnOK
    <2>3. DashOK'
      BY <1>0, <1>4 DEF Unregister, RemoveAgentDeployments, DashOK
    <2>4. LostOK'
      BY <1>0, <1>4 DEF Unregister, LostOK
    <2> QED BY <1>4, <2>1, <2>2, <2>3, <2>4 DEF Unregister, HInv
  <1> QED BY <1>1, <1>2, <1>3, <1>4 DEF Hub

\* The passes of the monitor.
LEMMA MonitorStep == ASSUME HInv, Monitor PROVE HInv'
  <1> USE Frame DEF agents, users, manager, config
  <1>0. /\ PlainOK /\ TrackedOK /\ ConnOK /\ DashOK /\ HealthOK /\ AttemptsOK /\ mon \in Pass
        /\ mon.at \in {"pause", "deploy"} => mon.agent \in Agents /\ mon.scenario \in Scenarios
        /\ \A a \in Agents : health[a] \in HonestHealth
    BY DEF HInv, HealthOK, MonOK
  <1>1. CASE BeginPass
    <2>1. HealthOK'
      <3>1. \A a \in Agents : Connected(a) => conn[a] \in Connection
        BY <1>0 DEF ConnOK, Connected, Absent
      <3>2. \A a \in Agents : Connected(a) => CheckResources(CheckHeartbeat(health[a], conn[a]), conn[a]) \in HonestHealth
        BY <1>0, <3>1, HonestFact, Zenon
      <3>3. health' = [a \in Agents |-> IF Connected(a)
                                         THEN CheckResources(CheckHeartbeat(health[a], conn[a]), conn[a])
                                         ELSE health[a]]
        BY <1>1 DEF BeginPass
      <3> QED BY <1>0, <3>2, <3>3 DEF HealthOK
    <2>2. MonOK'
      <3> DEFINE C == {a \in Agents : Connected(a)}
                 T == {<<s, dash[s].agent>> : s \in Candidates}
      <3>1. mon' = [Asleep EXCEPT !.at = "scan", !.conns = C, !.cands = Candidates, !.todo = T]
        BY <1>1 DEF BeginPass
      <3>2. Candidates \in SUBSET Scenarios /\ C \in SUBSET Agents
        BY DEF Candidates
      <3>3. \A s \in Candidates : dash[s].agent \in Agents
        <4> SUFFICES ASSUME NEW s \in Candidates PROVE dash[s].agent \in Agents
          OBVIOUS
        <4>1. dash[s] \in Entry
          BY <1>0 DEF Candidates, DashOK, Absent
        <4> QED BY <4>1 DEF Entry
      <3>4. T \in SUBSET (Scenarios \X Agents)
        BY <3>2, <3>3
      <3> HIDE DEF C, T
      <3> QED BY <3>1, <3>2, <3>4 DEF MonOK, Pass, Asleep
    <2> QED BY <1>1, <2>1, <2>2 DEF BeginPass, HInv
  <1>2. CASE FetchScenario
    <2>1. MonOK'
      BY <1>0, <1>2 DEF FetchScenario, MonOK, Pass, Resume
    <2> QED BY <1>2, <2>1 DEF FetchScenario, HInv
  <1>3. CASE RecoverDeploy
    <2> DEFINE a == mon.agent
               s == mon.scenario
    <2>0. a \in Agents /\ s \in Scenarios
      BY <1>0, <1>3 DEF RecoverDeploy
    <2>1. MonOK'
      BY <1>0, <1>3 DEF RecoverDeploy, MonOK, Pass, Resume
    <2>2. CASE /\ Send(a, CommandOf("START", s))
               /\ tracked' = [tracked EXCEPT ![s] = a]
               /\ health' = [health EXCEPT ![a].since[s] = "grace", ![a].stalled = @ \ {s}]
      <3>1. DownOK'
        BY <2>0, <2>2, SendType, CommandType DEF HInv
      <3>2. TrackedOK'
        BY <1>0, <2>0, <2>2 DEF TrackedOK
      <3>3. HealthOK'
        <4> DEFINE f == [health[a].since EXCEPT ![s] = "grace"]
                   k == [health[a] EXCEPT !.since = f]
                   l == [k EXCEPT !.stalled = @ \ {s}]
        <4>1. f \in [Scenarios -> {"none", "grace", "past"}]
          BY <1>0, <2>0 DEF HonestHealth, Health
        <4>2. k \in HonestHealth
          BY <1>0, <2>0, <4>1, HonestFact, Zenon
        <4>3. l \in HonestHealth
          BY <4>2, HonestFact, Zenon
        <4>4. health' = [health EXCEPT ![a] = l]
          BY <1>0, <2>0, <2>2 DEF HealthOK, HonestHealth, Health
        <4> HIDE DEF l
        <4> QED BY <1>0, <2>0, <4>3, <4>4 DEF HealthOK
      <3> QED BY <1>3, <2>1, <3>1, <3>2, <3>3 DEF RecoverDeploy, HInv
    <2>3. CASE UNCHANGED <<down, tracked, health>>
      BY <1>3, <2>1, <2>3 DEF RecoverDeploy, HInv
    <2> QED BY <1>3, <2>2, <2>3 DEF RecoverDeploy
  <1>4. CASE EndPass
    <2>1. HealthOK'
      <3> DEFINE k(a) == [health[a] EXCEPT !.stalled = @ \cap mon.cands]
      <3>1. \A a \in Agents : k(a) \in HonestHealth
        BY <1>0, HonestFact, Zenon
      <3>2. \A a \in Agents : ~k(a).missed /\ k(a).stalled = {} => [k(a) EXCEPT !.status = "healthy"] \in HonestHealth
        BY <3>1, HonestFact, Zenon
      <3>3. health' = [a \in Agents |-> IF a \in mon.conns /\ ~k(a).missed /\ k(a).stalled = {} /\ k(a).warn = "none"
                                         THEN [k(a) EXCEPT !.status = "healthy"] ELSE k(a)]
        BY <1>4, Zenon DEF EndPass
      <3> HIDE DEF k
      <3>4. ASSUME NEW a \in Agents PROVE health'[a] \in HonestHealth
        BY <3>1, <3>2, <3>3
      <3>5. health' = [a \in Agents |-> health'[a]]
        BY <3>3
      <3> QED BY <3>4, <3>5 DEF HealthOK
    <2>2. MonOK'
      BY <1>4, Zenon DEF EndPass, MonOK, Asleep, Pass
    <2> QED BY <1>4, <2>1, <2>2, Zenon DEF EndPass, HInv
  <1>5. ASSUME NEW s \in Scenarios, NEW a \in Agents, ScanCandidate(s, a) PROVE HInv'
    <2> DEFINE next == [mon EXCEPT !.todo = @ \ {<<s, a>>}]
    <2>0. next \in Pass /\ mon.at = "scan" /\ next.at = "scan"
      BY <1>0, <1>5 DEF ScanCandidate, Pass
    <2>1. CASE mon' = next /\ UNCHANGED <<health, attempts, down>>
      <3>1. MonOK'
        BY <2>0, <2>1 DEF MonOK
      <3> QED BY <1>5, <2>1, <3>1 DEF ScanCandidate, HInv
    <2>2. CASE ~Skip(a, s)
      <3>1. HealthOK'
        <4> DEFINE k == [health[a] EXCEPT !.stalled = @ \cup {s}, !.status = MaxStatus(@, "warning")]
        <4>1. k \in HonestHealth
          BY <1>0, HonestFact, Zenon
        <4>2. health' = [health EXCEPT ![a].stalled = @ \cup {s}, ![a].status = MaxStatus(@, "warning")]
          BY <1>5, <2>2 DEF ScanCandidate
        <4>3. health' = [health EXCEPT ![a] = k]
          BY <1>0, <4>2 DEF HealthOK, HonestHealth, Health
        <4> HIDE DEF k
        <4> QED BY <1>0, <4>1, <4>3 DEF HealthOK
      <3>2. CASE mon' = next /\ UNCHANGED <<attempts, down>>
        <4>1. MonOK'
          BY <2>0, <3>2 DEF MonOK
        <4> QED BY <1>5, <3>1, <3>2, <4>1 DEF ScanCandidate, HInv
      <3>3. CASE /\ MayRecover(a, s)
                 /\ attempts' = [attempts EXCEPT ![a] = Append(@, [scenario |-> s, cool |-> TRUE])]
                 /\ SendStop(s)
                 /\ mon' = [next EXCEPT !.at = "pause", !.agent = a, !.scenario = s]
        <4>1. MonOK'
          BY <2>0, <3>3 DEF MonOK, Pass
        <4>2. DownOK'
          BY <3>3, SendStopFact
        <4>3. AttemptsOK'
          <5>1. [scenario |-> s, cool |-> TRUE] \in Attempt /\ attempts[a] \in Seq(Attempt)
            BY <1>0 DEF Attempt, AttemptsOK
          <5>2. Append(attempts[a], [scenario |-> s, cool |-> TRUE]) \in Seq(Attempt)
            BY <5>1
          <5> QED BY <1>0, <3>3, <5>2 DEF AttemptsOK
        <4> QED BY <1>5, <3>1, <4>1, <4>2, <4>3 DEF ScanCandidate, HInv
      <3> QED BY <1>5, <2>2, <3>2, <3>3 DEF ScanCandidate
    <2> QED BY <1>5, <2>1, <2>2 DEF ScanCandidate
  <1> QED BY <1>1, <1>2, <1>3, <1>4, <1>5 DEF Monitor

\* Users.
LEMMA UserStep ==
  ASSUME HInv, NEW a \in Agents, NEW s \in Scenarios, Deploy(a, s) \/ Stop(s) \/ UpdateConfig
  PROVE  HInv'
  <1> USE Frame DEF agents, users, manager, config, monitor
  <1>0. PlainOK /\ TrackedOK /\ LostOK /\ DownOK
    BY DEF HInv
  <1>1. CASE Deploy(a, s)
    <2>1. PlainOK'
      BY <1>0, <1>1 DEF Deploy, PlainOK
    <2>2. TrackedOK'
      BY <1>0, <1>1 DEF Deploy, TrackedOK
    <2>3. DownOK'
      BY <1>0, <1>1, SendType, CommandType DEF Deploy
    <2> QED BY <1>1, <2>1, <2>2, <2>3 DEF Deploy, HInv
  <1>2. CASE Stop(s)
    <2>1. PlainOK'
      BY <1>0, <1>2 DEF Stop, PlainOK
    <2>2. LostOK'
      BY <1>0, <1>2 DEF Stop, LostOK
    <2>3. DownOK'
      BY <1>2, SendStopFact DEF Stop
    <2> QED BY <1>2, <2>1, <2>2, <2>3 DEF Stop, HInv
  <1>3. CASE UpdateConfig
    <2>1. auto' \in BOOLEAN /\ limit' \in Nat
      BY <1>0, <1>3, MonitorAssumption DEF UpdateConfig, PlainOK
    <2>2. PlainOK'
      BY <1>0, <1>3, <2>1 DEF UpdateConfig, PlainOK
    <2> QED BY <1>3, <2>2 DEF UpdateConfig, HInv
  <1> QED BY <1>1, <1>2, <1>3

\* Agents and sockets.
LEMMA AgentStep ==
  ASSUME HInv, NEW a \in Agents, NEW s \in Scenarios,
         \/ AgentCommand(a) \/ SendStatus(a, s) \/ TrafficFlows(a, s) \/ TrafficStalls(a, s)
         \/ LinkSilent(a) \/ LinkBack(a) \/ LinkDrops(a)
  PROVE  HInv'
  <1> USE Frame DEF agents, users, manager, config, monitor
  <1>0. PlainOK /\ RunningOK /\ DownOK
    BY DEF HInv
  <1>1. CASE AgentCommand(a)
    <2> DEFINE c == Head(down[a])
               r == c.scenario
    <2>1. down[a] \in Seq(Command) /\ down[a] # <<>>
      BY <1>0, <1>1 DEF DownOK, AgentCommand
    <2>2. c \in Command /\ Tail(down[a]) \in Seq(Command)
      BY <2>1
    <2>3. r \in Scenarios
      BY <2>2 DEF Command
    <2>4. DownOK'
      BY <1>0, <1>1, <2>2 DEF AgentCommand, DownOK
    <2>5. /\ StatusOf(r, "running", TRUE) \in Report /\ StatusOf(r, "error", TRUE) \in Report
          /\ StatusOf(r, "stopped", r \in dry[a]) \in Report
      BY <2>3 DEF StatusOf, Report
    <2> HIDE DEF r, c
    <2>6. CASE /\ running' = [running EXCEPT ![a] = @ \cup {r}] /\ dry' = [dry EXCEPT ![a] = @ \cup {r}]
               /\ ReceiveStatus(a, StatusOf(r, "running", TRUE))
      <3>1. RunningOK'
        BY <1>0, <2>3, <2>6 DEF RunningOK
      <3>2. DashOK' /\ HealthOK'
        BY <2>5, <2>6, ReceiveFact
      <3> QED BY <1>1, <2>4, <3>1, <3>2 DEF AgentCommand, HInv
    <2>7. CASE UNCHANGED agents /\ ReceiveStatus(a, StatusOf(r, "error", TRUE))
      <3>1. DashOK' /\ HealthOK'
        BY <2>5, <2>7, ReceiveFact
      <3> QED BY <1>1, <2>4, <2>7, <3>1 DEF AgentCommand, HInv
    <2>8. CASE /\ running' = [running EXCEPT ![a] = @ \ {r}] /\ dry' = [dry EXCEPT ![a] = @ \ {r}]
               /\ ReceiveStatus(a, StatusOf(r, "stopped", r \in dry[a]))
      <3>1. RunningOK'
        BY <1>0, <2>8 DEF RunningOK
      <3>2. DashOK' /\ HealthOK'
        BY <2>5, <2>8, ReceiveFact
      <3> QED BY <1>1, <2>4, <3>1, <3>2 DEF AgentCommand, HInv
    <2>9. CASE UNCHANGED <<agents, dash, health>>
      BY <1>1, <2>4, <2>9 DEF AgentCommand, HInv
    <2> QED BY <1>1, <2>6, <2>7, <2>8, <2>9 DEF AgentCommand, c, r
  <1>2. CASE SendStatus(a, s)
    <2>1. StatusOf(s, "running", s \in dry[a]) \in Report
      BY DEF StatusOf, Report
    <2>2. DashOK' /\ HealthOK'
      BY <1>2, <2>1, ReceiveFact DEF SendStatus
    <2> QED BY <1>2, <2>2 DEF SendStatus, HInv
  <1>3. CASE TrafficFlows(a, s) \/ TrafficStalls(a, s)
    <2>1. RunningOK'
      BY <1>0, <1>3 DEF TrafficFlows, TrafficStalls, RunningOK
    <2> QED BY <1>3, <2>1 DEF TrafficFlows, TrafficStalls, HInv
  <1>4. CASE LinkSilent(a) \/ LinkBack(a)
    <2>1. PlainOK'
      BY <1>0, <1>4 DEF LinkSilent, LinkBack, PlainOK
    <2> QED BY <1>4, <2>1 DEF LinkSilent, LinkBack, HInv
  <1>5. CASE LinkDrops(a)
    <2>1. PlainOK'
      BY <1>0, <1>5 DEF LinkDrops, PlainOK
    <2>2. DownOK'
      <3>1. <<>> \in Seq(Command)
        OBVIOUS
      <3> QED BY <1>0, <1>5, <3>1 DEF LinkDrops, DownOK
    <2>3. RunningOK'
      BY <1>0, <1>5 DEF LinkDrops, RunningOK
    <2> QED BY <1>5, <2>1, <2>2, <2>3 DEF LinkDrops, HInv
  <1> QED BY <1>1, <1>2, <1>3, <1>4, <1>5

\* Time-outs.
LEMMA TimeStep == ASSUME HInv, Time PROVE HInv'
  <1> USE Frame DEF agents, users, manager, config, monitor
  <1>0. ConnOK /\ DashOK /\ HealthOK /\ AttemptsOK
    BY DEF HInv
  <1>1. ASSUME NEW a \in Agents, HeartbeatLate(a) PROVE HInv'
    <2>1. conn[a] \in Connection
      BY <1>0, <1>1 DEF HeartbeatLate, Connected, ConnOK, Absent
    <2>2. [conn[a] EXCEPT !.late = TRUE] \in Connection
      BY <2>1 DEF Connection
    <2>3. conn' = [conn EXCEPT ![a] = [conn[a] EXCEPT !.late = TRUE]]
      BY <1>0, <1>1 DEF HeartbeatLate, ConnOK
    <2>4. ConnOK'
      BY <1>0, <2>2, <2>3 DEF ConnOK
    <2> QED BY <1>1, <2>4 DEF HeartbeatLate, HInv
  <1>2. ASSUME NEW a \in Agents, LoadSustained(a) PROVE HInv'
    <2>1. [health[a] EXCEPT !.warn = "sustained"] \in HonestHealth
      <3>1. health[a] \in HonestHealth
        BY <1>0 DEF HealthOK
      <3> QED BY <3>1, HonestFact, Zenon
    <2>2. health' = [health EXCEPT ![a] = [health[a] EXCEPT !.warn = "sustained"]]
      BY <1>0, <1>2 DEF LoadSustained, HealthOK
    <2>3. HealthOK'
      BY <1>0, <2>1, <2>2 DEF HealthOK
    <2> QED BY <1>2, <2>3 DEF LoadSustained, HInv
  <1>3. ASSUME NEW s \in Scenarios, ReportOld(s) PROVE HInv'
    <2>1. dash[s] \in Entry
      BY <1>0, <1>3 DEF ReportOld, DashOK, Absent
    <2>2. [dash[s] EXCEPT !.quiet = TRUE] \in Entry
      BY <2>1 DEF Entry
    <2>3. dash' = [dash EXCEPT ![s] = [dash[s] EXCEPT !.quiet = TRUE]]
      BY <1>0, <1>3 DEF ReportOld, DashOK
    <2>4. DashOK'
      BY <1>0, <2>2, <2>3 DEF DashOK
    <2> QED BY <1>3, <2>4 DEF ReportOld, HInv
  <1>4. ASSUME NEW a \in Agents, NEW s \in Scenarios, GraceOver(a, s) PROVE HInv'
    <2> DEFINE f == [health[a].since EXCEPT ![s] = "past"]
               k == [health[a] EXCEPT !.since = f]
    <2>1. health[a] \in HonestHealth
      BY <1>0 DEF HealthOK
    <2>2. f \in [Scenarios -> {"none", "grace", "past"}]
      BY <2>1 DEF HonestHealth, Health
    <2>3. k \in HonestHealth
      BY <2>1, <2>2, HonestFact, Zenon
    <2>4. health' = [health EXCEPT ![a] = k]
      BY <1>0, <1>4 DEF GraceOver, HealthOK, HonestHealth, Health
    <2> HIDE DEF k
    <2>5. HealthOK'
      BY <1>0, <2>3, <2>4 DEF HealthOK
    <2> QED BY <1>4, <2>5 DEF GraceOver, HInv
  <1>5. ASSUME NEW a \in Agents, CoolDownOver(a) PROVE HInv'
    <2>1. PICK i \in DOMAIN attempts[a] : attempts' = [attempts EXCEPT ![a][i].cool = FALSE]
      BY <1>5 DEF CoolDownOver
    <2>2. attempts[a] \in Seq(Attempt) /\ attempts[a][i] \in Attempt
      BY <1>0 DEF AttemptsOK
    <2>3. [attempts[a][i] EXCEPT !.cool = FALSE] \in Attempt
      BY <2>2 DEF Attempt
    <2>4. [attempts[a] EXCEPT ![i] = [attempts[a][i] EXCEPT !.cool = FALSE]] \in Seq(Attempt)
      BY <2>2, <2>3
    <2>5. AttemptsOK'
      BY <1>0, <2>1, <2>4 DEF AttemptsOK
    <2> QED BY <1>5, <2>5 DEF CoolDownOver, HInv
  <1>6. ASSUME NEW a \in Agents, AttemptForgotten(a) PROVE HInv'
    <2>1. Tail(attempts[a]) \in Seq(Attempt)
      BY <1>0, <1>6 DEF AttemptsOK, AttemptForgotten
    <2>2. AttemptsOK'
      BY <1>0, <1>6, <2>1 DEF AttemptsOK, AttemptForgotten
    <2> QED BY <1>6, <2>2 DEF AttemptForgotten, HInv
  <1> QED BY <1>1, <1>2, <1>3, <1>4, <1>5, <1>6 DEF Time

\* Every step keeps the invariant.
LEMMA HealthStep == ASSUME HInv, [Next]_vars PROVE HInv'
  <1>0. PICK b \in Agents, t \in Scenarios : TRUE
    BY MonitorAssumption
  <1>1. CASE Monitor
    BY <1>1, MonitorStep
  <1>2. CASE Time
    BY <1>2, TimeStep
  <1>3. CASE UpdateConfig
    BY <1>0, <1>3, UserStep
  <1>4. ASSUME NEW a \in Agents, Connect(a) \/ Hub(a) PROVE HInv'
    BY <1>4, HubStep
  <1>5. ASSUME NEW a \in Agents, AgentCommand(a) \/ LinkSilent(a) \/ LinkBack(a) \/ LinkDrops(a) PROVE HInv'
    BY <1>0, <1>5, AgentStep
  <1>6. ASSUME NEW a \in Agents, NEW s \in Scenarios,
               Deploy(a, s) \/ SendStatus(a, s) \/ TrafficFlows(a, s) \/ TrafficStalls(a, s)
        PROVE  HInv'
    BY <1>6, UserStep, AgentStep
  <1>7. ASSUME NEW s \in Scenarios, Stop(s) PROVE HInv'
    BY <1>0, <1>7, UserStep
  <1>8. CASE UNCHANGED vars
    BY <1>8, Frame DEF vars, HInv
  <1> QED BY <1>1, <1>2, <1>3, <1>4, <1>5, <1>6, <1>7, <1>8 DEF Next

LEMMA HealthInductive == Spec => []HInv
  <1>1. Init => HInv
    BY HealthInit
  <1>2. HInv /\ [Next]_vars => HInv'
    BY HealthStep
  <1> QED BY <1>1, <1>2, PTL DEF Spec

-----------------------------------------------------------------------------
(* The theorems *)

\* The state of the monitor, the dashboard and the hub keeps its types, whatever hooks
\* and users do during a pass; in particular nobody prunes the health of an agent a
\* pass has yet to come to (HealthMonitorService._run_checks).
THEOREM HealthTypeOK == Spec => []TypeOK
  <1>1. HInv => TypeOK
    BY InvariantFact
  <1> QED BY <1>1, HealthInductive, PTL

\* An agent is called healthy only if no heartbeat of it is known to be overdue and
\* none of its scenarios to be stalled (max_status, _run_checks and the hooks of
\* health_monitor.py), for any agents and scenarios.
THEOREM HealthHonest == Spec => []HealthyIsHonest
  <1>1. HInv => HealthyIsHonest
    BY InvariantFact
  <1> QED BY <1>1, HealthInductive, PTL

\* Only a recovery makes a history longer.
LEMMA LongerFact ==
  ASSUME HInv, [Next]_vars, NEW a \in Agents, Len(attempts'[a]) > Len(attempts[a])
  PROVE  \E t \in Scenarios, b \in Agents :
             /\ ScanCandidate(t, b) /\ MayRecover(b, t)
             /\ attempts' = [attempts EXCEPT ![b] = Append(@, [scenario |-> t, cool |-> TRUE])]
  <1>0. attempts \in [Agents -> Seq(Attempt)] /\ Len(attempts[a]) \in Nat
    BY DEF HInv, AttemptsOK
  <1>1. ~UNCHANGED attempts
    <2> SUFFICES ASSUME UNCHANGED attempts PROVE FALSE
      OBVIOUS
    <2>1. attempts'[a] = attempts[a]
      OBVIOUS
    <2> QED BY <1>0, <2>1
  <1>2. ASSUME NEW b \in Agents, CoolDownOver(b) PROVE FALSE
    <2>1. PICK i \in DOMAIN attempts[b] : attempts' = [attempts EXCEPT ![b][i].cool = FALSE]
      BY <1>2 DEF CoolDownOver
    <2>2. Len(attempts'[a]) = Len(attempts[a])
      BY <1>0, <2>1
    <2> QED BY <1>0, <2>2
  <1>3. ASSUME NEW b \in Agents, AttemptForgotten(b) PROVE FALSE
    <2>1. attempts' = [attempts EXCEPT ![b] = Tail(@)] /\ attempts[b] # <<>>
      BY <1>3 DEF AttemptForgotten
    <2>2. Len(attempts'[a]) <= Len(attempts[a])
      BY <1>0, <2>1
    <2> QED BY <1>0, <2>2
  <1>4. ASSUME Next PROVE \E t \in Scenarios, b \in Agents : ScanCandidate(t, b)
    <2>1. CASE Time
      <3>1. ASSUME NEW b \in Agents, HeartbeatLate(b) \/ LoadSustained(b) PROVE FALSE
        BY <1>1, <3>1 DEF HeartbeatLate, LoadSustained, monitor
      <3>2. ASSUME NEW t \in Scenarios, ReportOld(t) PROVE FALSE
        BY <1>1, <3>2 DEF ReportOld, monitor
      <3>3. ASSUME NEW b \in Agents, NEW t \in Scenarios, GraceOver(b, t) PROVE FALSE
        BY <1>1, <3>3 DEF GraceOver
      <3> QED BY <1>2, <1>3, <2>1, <3>1, <3>2, <3>3 DEF Time
    <2>2. CASE BeginPass \/ FetchScenario \/ RecoverDeploy \/ EndPass \/ UpdateConfig
      BY <1>1, <2>2 DEF BeginPass, FetchScenario, RecoverDeploy, EndPass, UpdateConfig
    <2>3. ASSUME NEW b \in Agents, Connect(b) \/ Hub(b) \/ AgentCommand(b) \/ LinkSilent(b) \/ LinkBack(b) \/ LinkDrops(b)
          PROVE  FALSE
      BY <1>1, <2>3 DEF Connect, Hub, Heartbeat, Disconnected, Unregister, AgentCommand, LinkSilent, LinkBack,
                        LinkDrops, monitor
    <2>4. ASSUME NEW b \in Agents, NEW t \in Scenarios,
                 Deploy(b, t) \/ SendStatus(b, t) \/ TrafficFlows(b, t) \/ TrafficStalls(b, t) \/ Stop(t)
          PROVE  FALSE
      BY <1>1, <2>4 DEF Deploy, SendStatus, TrafficFlows, TrafficStalls, Stop, monitor
    <2> QED BY <1>4, <2>1, <2>2, <2>3, <2>4 DEF Next, Monitor
  <1>5. PICK t \in Scenarios, b \in Agents : ScanCandidate(t, b)
    BY <1>1, <1>4 DEF vars
  <1> QED BY <1>1, <1>5 DEF ScanCandidate

\* No recovery of a scenario begins that would be one more than
\* max_recovery_attempts_per_hour within the hour, on however many agents it has
\* stalled and however the limit has been changed (_maybe_recover,
\* _count_recent_recoveries), as long as no agent has had more attempts within the
\* hour than its history holds.
THEOREM HealthRecoveryRate == Spec => RecoveryRate
  <1>1. ASSUME HInv, [Next]_vars, NEW s \in Scenarios, Begun(s), \A a \in Agents : Len(attempts[a]) <= MaxHistory
        PROVE  Cardinality(Attempts(s)') <= limit
    <2>0. AttemptsOK /\ limit \in Nat
      BY <1>1 DEF HInv, PlainOK
    <2>1. PICK a \in Agents : Len(attempts'[a]) > Len(attempts[a]) /\ attempts'[a][Len(attempts'[a])].scenario = s
      BY <1>1 DEF Begun
    <2>2. PICK t \in Scenarios, b \in Agents :
             /\ MayRecover(b, t)
             /\ attempts' = [attempts EXCEPT ![b] = Append(@, [scenario |-> t, cool |-> TRUE])]
      BY <1>1, <2>1, LongerFact
    <2> DEFINE r == [scenario |-> t, cool |-> TRUE]
               x == <<b, Len(attempts[b]) + 1>>
               S == Attempts(t)
               T == Attempts(t)'
    <2>3. r \in Attempt /\ r.scenario = t
      BY DEF Attempt
    <2>4. /\ T \subseteq S \cup {x}
          /\ \A c \in Agents \ {b} : attempts'[c] = attempts[c]
          /\ attempts'[b][Len(attempts'[b])] = r
      <3> HIDE DEF r
      <3>1. attempts' = [attempts EXCEPT ![b] = Append(@, r)]
        BY <2>2 DEF r
      <3> QED BY <2>0, <2>3, <3>1, AppendFact
    <2>5. a = b /\ s = t
      <3>1. a = b
        <4> SUFFICES ASSUME a # b PROVE FALSE
          OBVIOUS
        <4>1. attempts'[a] = attempts[a]
          BY <2>4
        <4>2. Len(attempts[a]) \in Nat
          BY <2>0 DEF AttemptsOK
        <4> QED BY <2>1, <4>1, <4>2
      <3> QED BY <2>1, <2>3, <2>4, <3>1
    <2>6. IsFiniteSet(S) /\ Cardinality(S) \in Nat /\ Cardinality(S) < limit
      <3>1. Kept(t) = S
        BY <1>1, <2>0, KeptFact
      <3>2. IsFiniteSet(S)
        BY <2>0, AttemptsFinite
      <3> QED BY <2>2, <3>1, <3>2, FS_CardinalityType DEF MayRecover, RecentRecoveries
    <2> HIDE DEF S, T, x
    <2>7. IsFiniteSet(S \cup {x}) /\ Cardinality(S \cup {x}) \in {Cardinality(S), Cardinality(S) + 1}
      BY <2>6, FS_AddElement
    <2>8. Cardinality(T) <= Cardinality(S \cup {x}) /\ Cardinality(T) \in Nat
      BY <2>4, <2>7, FS_Subset, FS_CardinalityType
    <2>9. Cardinality(T) <= limit
      BY <2>0, <2>6, <2>7, <2>8
    <2> QED BY <2>5, <2>9 DEF T
  <1>2. HInv /\ [Next]_vars =>
            [\A s \in Scenarios :
                Begun(s) /\ (\A a \in Agents : Len(attempts[a]) <= MaxHistory) => Cardinality(Attempts(s)') <= limit]_vars
    BY <1>1
  <1> QED BY <1>2, HealthInductive, PTL DEF RecoveryRate, Spec
=============================================================================
