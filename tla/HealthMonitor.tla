----------------------------- MODULE HealthMonitor -----------------------------
(***************************************************************************)
(* The health monitor of the backend (services/health_monitor.py): a loop  *)
(* that checks heartbeats, load and traffic of the connected agents and    *)
(* restarts stalled scenarios; the live dashboard it reads                 *)
(* (services/traffic_dashboard.py); the hub's hooks that feed both         *)
(* (api/websocket/agent_hub.py); and the agents, users and sockets around  *)
(* them, reduced to what the monitor can tell apart.                       *)
(*                                                                         *)
(* The monitor and the hub share one event loop.  A pass of the monitor    *)
(* lets go of it only inside a recovery, so whatever it read at the start  *)
(* of the pass may be stale afterwards.  Clocks are replaced by actions:   *)
(* each time-out the code compares a clock with elapses in a step of its   *)
(* own.  Events, names and statistics other than "no packets" are left     *)
(* out.  Reports of an agent are read in the step that sends them: what    *)
(* messages in flight do to the rows is the subject of DeploymentHub.      *)
(***************************************************************************)
EXTENDS Naturals, Sequences, FiniteSets, SequencesExt

CONSTANTS
    Agents,         \* traffic agents
    Scenarios,      \* scenarios
    Scopes,         \* a behaviour has one: who takes part, the values of
                    \* max_recovery_attempts_per_hour, and what may happen
    MaxHistory,     \* maxlen of recovery_attempts: 100 in the code
    MaxDeploys,     \* bound: deploys by users
    MaxBacklog      \* bound: commands waiting on a silent socket when an hour passes

ASSUME MonitorAssumption ==
    /\ Agents # {} /\ Scenarios # {} /\ IsFiniteSet(Agents) /\ IsFiniteSet(Scenarios)
    /\ Scopes \subseteq
           [agents : SUBSET Agents, scenarios : SUBSET Scenarios, limits : SUBSET Nat,
            env : SUBSET {"stop", "config", "silent", "late", "drop", "restart", "traffic", "load", "missing", "hour"}]
    /\ MaxHistory \in Nat \ {0} /\ MaxDeploys \in Nat /\ MaxBacklog \in Nat

VARIABLES
    scope,
    \* agents and sockets
    link,       \* "up", "silent" (half dead, and the hub has not noticed), "down"
    running,    \* what the agent runs
    dry,        \* the running scenarios that send no packets
    down,       \* commands not yet read
    \* users
    stopped,    \* scenarios whose last wish of a user was to stop
    deploys,    \* number of deploys
    \* AgentManager and its table
    conn,       \* _connections: absent, or overdue heartbeat and load of the last one
    leaving,    \* agents whose handler is in its finally clause
    tracked,    \* _deployments: the agent a scenario is tracked on
    lost,       \* rows a disconnect left behind, to be replayed on reconnect
    \* TrafficDashboardService
    dash,       \* _deployment_stats
    \* HealthMonitorService
    auto,       \* config.auto_recovery_enabled
    limit,      \* config.max_recovery_attempts_per_hour
    health,     \* _agent_health
    attempts,   \* the recovery attempts of the last hour, oldest first, and which still cool down
    mon         \* _run_checks and _maybe_recover: where the pass is, and its local variables

vars == <<scope, link, running, dry, down, stopped, deploys, conn, leaving, tracked, lost,
          dash, auto, limit, health, attempts, mon>>
agents == <<running, dry>>
users == <<stopped, deploys>>
manager == <<conn, leaving, tracked, lost>>
config == <<auto, limit>>
monitor == <<config, health, attempts, mon>>

-----------------------------------------------------------------------------
(* Types *)

NoAgent == "none"
Levels == <<"healthy", "warning", "critical", "offline">>
HealthStatus == Range(Levels)
Absent == [here |-> FALSE]
Connection == [here : {TRUE}, late : BOOLEAN, load : {"ok", "high", "critical"}]
Entry == [here : {TRUE}, agent : Agents, state : {"running", "stopped", "error"}, zero : BOOLEAN, quiet : BOOLEAN]
Health == [status : HealthStatus, missed : BOOLEAN, warn : {"none", "fresh", "sustained"},
           stalled : SUBSET Scenarios, since : [Scenarios -> {"none", "grace", "past"}]]
Attempt == [scenario : Scenarios, cool : BOOLEAN]
Command == [type : {"START", "STOP"}, scenario : Scenarios]
Pass == [at : {"sleep", "scan", "pause", "deploy"}, conns : SUBSET Agents, cands : SUBSET Scenarios,
         todo : SUBSET (Scenarios \X Agents), agent : Agents \cup {NoAgent}, scenario : Scenarios \cup {"none"}]

\* AgentHealthState with its defaults.
NewHealth == [status |-> "healthy", missed |-> FALSE, warn |-> "none", stalled |-> {},
              since |-> [s \in Scenarios |-> "none"]]

Asleep == [at |-> "sleep", conns |-> {}, cands |-> {}, todo |-> {}, agent |-> NoAgent, scenario |-> "none"]

\* max_status
Severity(st) == CHOOSE i \in DOMAIN Levels : Levels[i] = st
MaxStatus(a, b) == IF Severity(a) >= Severity(b) THEN a ELSE b

Init ==
    /\ scope \in Scopes
    /\ link = [a \in Agents |-> "down"]
    /\ running = [a \in Agents |-> {}]
    /\ dry = [a \in Agents |-> {}]
    /\ down = [a \in Agents |-> <<>>]
    /\ stopped = {} /\ deploys = 0
    /\ conn = [a \in Agents |-> Absent]
    /\ leaving = {}
    /\ tracked = [s \in Scenarios |-> NoAgent]
    /\ lost = {}
    /\ dash = [s \in Scenarios |-> Absent]
    /\ auto = TRUE /\ limit \in scope.limits
    /\ health = [a \in Agents |-> NewHealth]
    /\ attempts = [a \in Agents |-> <<>>]
    /\ mon = Asleep

-----------------------------------------------------------------------------
(* Sockets *)

\* The event loop is free: the monitor sleeps, or awaits something of a recovery.
LoopFree == mon.at # "scan"

Connected(a) == conn[a].here

\* send_command: queued for the agent, or for ever in the buffer of a half-dead socket.
Send(a, cmds) ==
    down' = IF Connected(a) /\ link[a] # "down" THEN [down EXCEPT ![a] = @ \o cmds] ELSE down
Commands(type, q) == [i \in DOMAIN q |-> [type |-> type, scenario |-> q[i]]]
CommandOf(type, s) == <<[type |-> type, scenario |-> s]>>

-----------------------------------------------------------------------------
(* TrafficDashboardService *)

\* update_from_status: a new entry, or a new report in an old one.  The agent of
\* an entry is set when the entry is made.
UpdateFromStatus(a, m) ==
    dash' = [dash EXCEPT ![m.scenario] =
                [here |-> TRUE, agent |-> IF @.here THEN @.agent ELSE a,
                 state |-> m.state, zero |-> m.zero, quiet |-> FALSE]]

\* remove_agent_deployments
RemoveAgentDeployments(a) ==
    dash' = [s \in Scenarios |-> IF dash[s].here /\ dash[s].agent = a THEN Absent ELSE dash[s]]

\* get_stall_candidates: the last report said "running" and no packets, and came
\* more than stall_detection_seconds ago.
Candidates == {s \in Scenarios : dash[s].here /\ dash[s].state = "running" /\ dash[s].zero /\ dash[s].quiet}

-----------------------------------------------------------------------------
(* The hub's hooks *)

\* on_agent_connected, after register.
Connect(a) ==
    /\ LoopFree
    /\ a \in scope.agents
    /\ link[a] = "down" /\ ~Connected(a) /\ a \notin leaving
    /\ link' = [link EXCEPT ![a] = "up"]
    /\ conn' = [conn EXCEPT ![a] = [here |-> TRUE, late |-> FALSE, load |-> "ok"]]
    /\ health' = [health EXCEPT ![a] = [@ EXCEPT !.status = "healthy", !.missed = FALSE,
                                                 !.warn = "none", !.stalled = {}]]
    /\ UNCHANGED <<scope, agents, down, users, leaving, tracked, lost, dash, config, attempts, mon>>

\* on_deployment_status
OnDeploymentStatus(h, m) ==
    IF m.state = "running"
    THEN [h EXCEPT !.since[m.scenario] = IF @ = "none" THEN "grace" ELSE @,
                   !.stalled = IF m.zero THEN @ ELSE @ \ {m.scenario}]
    ELSE [h EXCEPT !.since[m.scenario] = "none", !.stalled = @ \ {m.scenario}]

\* on_deployment_error
OnDeploymentError(h, m) ==
    IF m.state = "error" THEN [h EXCEPT !.status = MaxStatus(@, "critical")] ELSE h

\* A STATUS, if it gets through: dashboard and monitor hear of it.
ReceiveStatus(a, m) ==
    IF link[a] = "up" /\ Connected(a)
    THEN /\ UpdateFromStatus(a, m)
         /\ health' = [health EXCEPT ![a] = OnDeploymentError(OnDeploymentStatus(@, m), m)]
    ELSE UNCHANGED <<dash, health>>

\* A HEARTBEAT: rows the agent lost while it was away are replayed, which starts a
\* fresh grace period (on_deployment_resumed).
Heartbeat(a) ==
    LET mine == {s \in Scenarios : <<a, s>> \in lost}
        replay == mine \ running[a]
    IN  /\ LoopFree
        /\ link[a] = "up" /\ Connected(a)
        /\ \E l \in IF "load" \in scope.env THEN {"ok", "high", "critical"} ELSE {"ok"} :
              conn' = [conn EXCEPT ![a].late = FALSE, ![a].load = l]
        /\ lost' = lost \ ({a} \X mine)
        /\ \E order \in SetToSeqs(replay) : Send(a, Commands("START", order))
        /\ tracked' = [s \in Scenarios |-> IF s \in replay THEN a ELSE tracked[s]]
        /\ health' = [health EXCEPT ![a].since = [s \in Scenarios |-> IF s \in replay THEN "grace" ELSE @[s]]]
        /\ UNCHANGED <<scope, link, agents, users, leaving, dash, config, attempts, mon>>

\* Mutant: the health of an agent that has gone is forgotten.
Disconnected_Prunes(a) ==
    /\ LoopFree
    /\ Connected(a) /\ link[a] = "down" /\ a \notin leaving
    /\ leaving' = leaving \cup {a}
    /\ health' = [health EXCEPT ![a] = Absent]
    /\ UNCHANGED <<scope, link, agents, down, users, conn, tracked, lost, dash, config, attempts, mon>>

\* The finally clause: on_agent_disconnected ...
Disconnected(a) ==
    /\ LoopFree
    /\ Connected(a) /\ link[a] = "down" /\ a \notin leaving
    /\ leaving' = leaving \cup {a}
    /\ health' = [health EXCEPT ![a].status = "offline"]
    /\ UNCHANGED <<scope, link, agents, down, users, conn, tracked, lost, dash, config, attempts, mon>>

\* ... then, when the lock is free, unregister, remove_agent_deployments, and the
\* active rows become "disconnected".
Unregister(a) ==
    /\ LoopFree
    /\ a \in leaving
    /\ leaving' = leaving \ {a}
    /\ conn' = [conn EXCEPT ![a] = Absent]
    /\ RemoveAgentDeployments(a)
    /\ lost' = lost \cup {<<a, s>> : s \in {s \in Scenarios \ stopped : tracked[s] = a}}
    /\ UNCHANGED <<scope, link, agents, down, users, tracked, config, health, attempts, mon>>

-----------------------------------------------------------------------------
(* The monitor *)

\* Heartbeat timeout check of one agent.
CheckHeartbeat(h, c) ==
    IF c.late THEN [h EXCEPT !.missed = TRUE, !.status = MaxStatus(@, "warning")]
    ELSE [h EXCEPT !.missed = FALSE]

\* Mutant: load back to normal clears the status whatever else is wrong.
CheckResources_ClearsAll(h, c) ==
    CASE c.load = "ok" -> [h EXCEPT !.warn = "none", !.status = "healthy"]
      [] h.warn # "sustained" -> [h EXCEPT !.warn = "fresh"]
      [] c.load = "critical" -> [h EXCEPT !.status = "critical"]
      [] OTHER -> [h EXCEPT !.status = MaxStatus(@, "warning")]

\* Resource exhaustion check of one agent.
CheckResources(h, c) ==
    CASE c.load = "ok" ->
            [h EXCEPT !.warn = "none",
                      !.status = IF ~h.missed /\ h.stalled = {} THEN "healthy" ELSE @]
      [] h.warn # "sustained" -> [h EXCEPT !.warn = "fresh"]
      [] c.load = "critical" -> [h EXCEPT !.status = "critical"]
      [] OTHER -> [h EXCEPT !.status = MaxStatus(@, "warning")]

\* _run_checks up to the stall candidates, in one step: it awaits nothing.
BeginPass ==
    /\ mon.at = "sleep"
    /\ LET C == {a \in Agents : Connected(a)}
       IN  /\ health' = [a \in Agents |-> IF a \in C
                                          THEN CheckResources(CheckHeartbeat(health[a], conn[a]), conn[a])
                                          ELSE health[a]]
           /\ mon' = [Asleep EXCEPT !.at = "scan", !.conns = C, !.cands = Candidates,
                          !.todo = {<<s, dash[s].agent>> : s \in Candidates}]
    /\ UNCHANGED <<scope, link, agents, down, users, manager, dash, config, attempts>>

\* The attempts for a scenario within the hour, over all agents ...
Attempts(s) == UNION {{b} \X {i \in DOMAIN attempts[b] : attempts[b][i].scenario = s} : b \in Agents}

\* ... and those that recovery_attempts still holds: it drops the oldest of an agent,
\* whatever scenario that was for.
Kept(s) == {x \in Attempts(s) : x[2] > Len(attempts[x[1]]) - MaxHistory}

\* Mutant: the attempts of this agent only.
RecentRecoveries_OneAgent(a, s) == Cardinality({x \in Kept(s) : x[1] = a})

\* _count_recent_recoveries
RecentRecoveries(a, s) == Cardinality(Kept(s))

\* The last attempt for s on this agent cools down.  Attempts cool down in their order.
CoolingDown(a, s) == \E x \in Kept(s) : x[1] = a /\ attempts[a][x[2]].cool

\* _maybe_recover goes ahead: rate limit, then cool-down.
MayRecover(a, s) == auto /\ RecentRecoveries(a, s) < limit /\ ~CoolingDown(a, s)

\* A candidate in its grace period, or one that is already known to be stalled.
Skip(a, s) == health[a].since[s] = "grace" \/ s \in health[a].stalled

\* stop_scenario: the STOP goes where the scenario is tracked, which need not be
\* where the dashboard has it.
SendStop(s) == IF tracked[s] = NoAgent THEN down' = down ELSE Send(tracked[s], CommandOf("STOP", s))

\* The next candidate: skipped, flagged, or flagged and stopped for a restart.
ScanCandidate(s, a) ==
    LET next == [mon EXCEPT !.todo = @ \ {<<s, a>>}]
    IN  /\ mon.at = "scan"
        /\ <<s, a>> \in mon.todo
        /\ IF Skip(a, s)
           THEN mon' = next /\ UNCHANGED <<health, attempts, down>>
           ELSE /\ health' = [health EXCEPT ![a].stalled = @ \cup {s}, ![a].status = MaxStatus(@, "warning")]
                /\ IF MayRecover(a, s)
                   THEN /\ attempts' = [attempts EXCEPT ![a] = Append(@, [scenario |-> s, cool |-> TRUE])]
                        /\ SendStop(s)
                        /\ mon' = [next EXCEPT !.at = "pause", !.agent = a, !.scenario = s]
                   ELSE mon' = next /\ UNCHANGED <<attempts, down>>
        /\ UNCHANGED <<scope, link, agents, users, manager, dash, config>>

Resume == [mon EXCEPT !.at = "scan", !.agent = NoAgent, !.scenario = "none"]

\* Two seconds later: the definition is fetched; it may be gone.
FetchScenario ==
    /\ mon.at = "pause"
    /\ \/ mon' = [mon EXCEPT !.at = "deploy"]
       \/ "missing" \in scope.env /\ mon' = Resume
    /\ UNCHANGED <<scope, link, agents, down, users, manager, dash, config, health, attempts>>

\* Mutant: the restart waits for the agent.
RecoverDeploy_Waits ==
    LET a == mon.agent
        s == mon.scenario
    IN  /\ mon.at = "deploy"
        /\ mon' = Resume
        /\ Connected(a)
        /\ Send(a, CommandOf("START", s))
        /\ tracked' = [tracked EXCEPT ![s] = a]
        /\ health' = [health EXCEPT ![a].since[s] = "grace", ![a].stalled = @ \ {s}]
        /\ UNCHANGED <<scope, link, agents, users, conn, leaving, lost, dash, config, attempts>>

\* deploy_scenario on the agent the dashboard named.  Nobody reads the row again.
RecoverDeploy ==
    LET a == mon.agent
        s == mon.scenario
    IN  /\ mon.at = "deploy"
        /\ mon' = Resume
        /\ \/ /\ Connected(a)
              /\ Send(a, CommandOf("START", s))
              /\ tracked' = [tracked EXCEPT ![s] = a]
              /\ health' = [health EXCEPT ![a].since[s] = "grace", ![a].stalled = @ \ {s}]
           \/ /\ ~Connected(a) \/ link[a] # "up"
              /\ UNCHANGED <<down, tracked, health>>
        /\ UNCHANGED <<scope, link, agents, users, conn, leaving, lost, dash, config, attempts>>

\* Flags of what was no candidate of this pass are dropped, and agents without
\* issues are healthy: of those that were connected when the pass began.
EndPass ==
    /\ mon.at = "scan" /\ mon.todo = {}
    /\ health' = [a \in Agents |->
                    LET h == [health[a] EXCEPT !.stalled = @ \cap mon.cands]
                    IN  IF a \in mon.conns /\ ~h.missed /\ h.stalled = {} /\ h.warn = "none"
                        THEN [h EXCEPT !.status = "healthy"] ELSE h]
    /\ mon' = Asleep
    /\ UNCHANGED <<scope, link, agents, down, users, manager, dash, config, attempts>>

Monitor ==
    \/ BeginPass \/ FetchScenario \/ RecoverDeploy \/ EndPass
    \/ \E s \in Scenarios, a \in Agents : ScanCandidate(s, a)

-----------------------------------------------------------------------------
(* Users *)

\* A deploy: of a scenario that is not deployed, or that was stopped.
Deploy(a, s) ==
    /\ LoopFree
    /\ s \in scope.scenarios /\ deploys < MaxDeploys
    /\ Connected(a)
    /\ tracked[s] = NoAgent \/ s \in stopped
    /\ Send(a, CommandOf("START", s))
    /\ tracked' = [tracked EXCEPT ![s] = a]
    /\ stopped' = stopped \ {s}
    /\ deploys' = deploys + 1
    /\ UNCHANGED <<scope, link, agents, conn, leaving, lost, dash, monitor>>

\* A stop: the row is closed, whether or not the agent can be reached.
Stop(s) ==
    /\ LoopFree
    /\ "stop" \in scope.env
    /\ tracked[s] # NoAgent /\ s \notin stopped
    /\ SendStop(s)
    /\ stopped' = stopped \cup {s}
    /\ lost' = {l \in lost : l[2] # s}
    /\ UNCHANGED <<scope, link, agents, deploys, conn, leaving, tracked, dash, monitor>>

\* PUT /health-monitor/config
UpdateConfig ==
    /\ LoopFree
    /\ "config" \in scope.env
    /\ \/ auto' = ~auto /\ limit' = limit
       \/ auto' = auto /\ limit' \in scope.limits
    /\ UNCHANGED <<scope, link, agents, down, users, manager, dash, health, attempts, mon>>

-----------------------------------------------------------------------------
(* Agents *)

StatusOf(s, st, z) == [scenario |-> s, state |-> st, zero |-> z]

\* A scenario that has just started has not sent anything yet.
AgentCommand(a) ==
    LET c == Head(down[a])
        s == c.scenario
    IN  /\ LoopFree
        /\ link[a] = "up" /\ down[a] # <<>>
        /\ down' = [down EXCEPT ![a] = Tail(@)]
        /\ CASE c.type = "START" /\ s \notin running[a] ->
                    /\ running' = [running EXCEPT ![a] = @ \cup {s}]
                    /\ dry' = [dry EXCEPT ![a] = @ \cup {s}]
                    /\ ReceiveStatus(a, StatusOf(s, "running", TRUE))
             [] c.type = "START" /\ s \in running[a] ->
                    /\ UNCHANGED agents
                    /\ ReceiveStatus(a, StatusOf(s, "error", TRUE))
             [] c.type = "STOP" /\ s \in running[a] ->
                    /\ running' = [running EXCEPT ![a] = @ \ {s}]
                    /\ dry' = [dry EXCEPT ![a] = @ \ {s}]
                    /\ ReceiveStatus(a, StatusOf(s, "stopped", s \in dry[a]))
             [] OTHER -> UNCHANGED <<agents, dash, health>>
        /\ UNCHANGED <<scope, link, users, manager, config, attempts, mon>>

\* The periodic report.
SendStatus(a, s) ==
    /\ LoopFree
    /\ link[a] = "up" /\ Connected(a) /\ s \in running[a]
    /\ ReceiveStatus(a, StatusOf(s, "running", s \in dry[a]))
    /\ UNCHANGED <<scope, link, agents, down, users, manager, config, attempts, mon>>

\* Packets flow, or stop flowing.
TrafficFlows(a, s) ==
    /\ "traffic" \in scope.env
    /\ s \in dry[a]
    /\ dry' = [dry EXCEPT ![a] = @ \ {s}]
    /\ UNCHANGED <<scope, link, running, down, users, manager, dash, monitor>>

TrafficStalls(a, s) ==
    /\ "traffic" \in scope.env
    /\ s \in running[a] \ dry[a]
    /\ dry' = [dry EXCEPT ![a] = @ \cup {s}]
    /\ UNCHANGED <<scope, link, running, down, users, manager, dash, monitor>>

\* The socket goes silent, comes back, or is lost; a lost one may take the agent
\* and its scenarios with it.
LinkSilent(a) ==
    /\ "silent" \in scope.env /\ link[a] = "up"
    /\ link' = [link EXCEPT ![a] = "silent"]
    /\ UNCHANGED <<scope, agents, down, users, manager, dash, monitor>>

LinkBack(a) ==
    /\ link[a] = "silent"
    /\ link' = [link EXCEPT ![a] = "up"]
    /\ UNCHANGED <<scope, agents, down, users, manager, dash, monitor>>

LinkDrops(a) ==
    /\ "drop" \in scope.env /\ link[a] # "down"
    /\ link' = [link EXCEPT ![a] = "down"]
    /\ down' = [down EXCEPT ![a] = <<>>]
    /\ \/ UNCHANGED agents
       \/ /\ "restart" \in scope.env
          /\ running' = [running EXCEPT ![a] = {}] /\ dry' = [dry EXCEPT ![a] = {}]
    /\ UNCHANGED <<scope, users, manager, dash, monitor>>

-----------------------------------------------------------------------------
(* Time-outs.  Agents report every few seconds, so that neither a heartbeat is
   late nor a dashboard entry old while the reports of an agent get through. *)

HeartbeatLate(a) ==
    /\ "late" \in scope.env
    /\ Connected(a) /\ ~conn[a].late /\ link[a] # "up"
    /\ conn' = [conn EXCEPT ![a].late = TRUE]
    /\ UNCHANGED <<scope, link, agents, down, users, leaving, tracked, lost, dash, monitor>>

Reported(s) == \E a \in Agents : link[a] = "up" /\ s \in running[a]

ReportOld(s) ==
    /\ dash[s].here /\ ~dash[s].quiet /\ ~Reported(s)
    /\ dash' = [dash EXCEPT ![s].quiet = TRUE]
    /\ UNCHANGED <<scope, link, agents, down, users, manager, monitor>>

LoadSustained(a) ==
    /\ LoopFree /\ health[a].warn = "fresh"
    /\ health' = [health EXCEPT ![a].warn = "sustained"]
    /\ UNCHANGED <<scope, link, agents, down, users, manager, dash, config, attempts, mon>>

GraceOver(a, s) ==
    /\ LoopFree /\ health[a].since[s] = "grace"
    /\ health' = [health EXCEPT ![a].since[s] = "past"]
    /\ UNCHANGED <<scope, link, agents, down, users, manager, dash, config, attempts, mon>>

CoolDownOver(a) ==
    /\ LoopFree /\ "hour" \in scope.env
    /\ \E i \in DOMAIN attempts[a] :
          /\ attempts[a][i].cool /\ \A j \in 1 .. i - 1 : ~attempts[a][j].cool
          /\ attempts' = [attempts EXCEPT ![a][i].cool = FALSE]
    /\ UNCHANGED <<scope, link, agents, down, users, manager, dash, config, health, mon>>

\* The oldest attempt is more than an hour old, and has cooled down long ago.
AttemptForgotten(a) ==
    /\ LoopFree /\ "hour" \in scope.env /\ Len(down[a]) <= MaxBacklog
    /\ attempts[a] # <<>> /\ ~Head(attempts[a]).cool
    /\ attempts' = [attempts EXCEPT ![a] = Tail(@)]
    /\ UNCHANGED <<scope, link, agents, down, users, manager, dash, config, health, mon>>

Hub(a) == Heartbeat(a) \/ Disconnected(a) \/ Unregister(a)

Time ==
    \/ \E a \in Agents : HeartbeatLate(a) \/ LoadSustained(a) \/ CoolDownOver(a) \/ AttemptForgotten(a)
    \/ \E s \in Scenarios : ReportOld(s)
    \/ \E a \in Agents, s \in Scenarios : GraceOver(a, s)

Next ==
    \/ Monitor \/ Time \/ UpdateConfig
    \/ \E a \in Agents :
          \/ Connect(a) \/ Hub(a) \/ AgentCommand(a)
          \/ LinkSilent(a) \/ LinkBack(a) \/ LinkDrops(a)
          \/ \E s \in Scenarios : Deploy(a, s) \/ SendStatus(a, s) \/ TrafficFlows(a, s) \/ TrafficStalls(a, s)
    \/ \E s \in Scenarios : Stop(s)

Spec == Init /\ [][Next]_vars

\* The loop of the monitor goes on and its coroutine is resumed.
FairSpec == Spec /\ WF_vars(Monitor)

\* Also the hub reads, agents execute commands and report, and time passes: strongly,
\* because a pass of the monitor disables them again and again.
FairAgentsSpec ==
    /\ FairSpec
    /\ \A a \in Agents : SF_vars(Hub(a)) /\ SF_vars(AgentCommand(a))
    /\ \A s \in Scenarios : WF_vars(ReportOld(s))
    /\ \A a \in Agents, s \in Scenarios : SF_vars(SendStatus(a, s)) /\ SF_vars(GraceOver(a, s))

-----------------------------------------------------------------------------
(* Properties *)

TypeOK ==
    /\ scope \in Scopes
    /\ link \in [Agents -> {"up", "silent", "down"}]
    /\ running \in [Agents -> SUBSET Scenarios]
    /\ dry \in [Agents -> SUBSET Scenarios]
    /\ down \in [Agents -> Seq(Command)]
    /\ stopped \subseteq Scenarios /\ deploys \in Nat
    /\ conn \in [Agents -> Connection \cup {Absent}]
    /\ leaving \subseteq Agents
    /\ tracked \in [Scenarios -> Agents \cup {NoAgent}]
    /\ lost \subseteq Agents \X Scenarios
    /\ dash \in [Scenarios -> Entry \cup {Absent}]
    /\ auto \in BOOLEAN /\ limit \in Nat
    /\ health \in [Agents -> Health]
    /\ attempts \in [Agents -> Seq(Attempt)]
    /\ mon \in Pass

\* A recovery of scenario s begins.
Begun(s) ==
    \E a \in Agents : Len(attempts'[a]) > Len(attempts[a]) /\ attempts'[a][Len(attempts'[a])].scenario = s

\* A scenario is restarted at most max_recovery_attempts_per_hour times an hour, by
\* the limit in force when it is, also when it moves from agent to agent
\* (_maybe_recover), while no agent has had more attempts than are remembered.
RecoveryRate ==
    [][\A s \in Scenarios :
          Begun(s) /\ (\A a \in Agents : Len(attempts[a]) <= MaxHistory) => Cardinality(Attempts(s)') <= limit]_vars

\* An agent is called healthy only if no heartbeat of it is known to be overdue and
\* none of its scenarios to be stalled, whatever hooks ran during a pass.
HealthyIsHonest ==
    \A a \in Agents : health[a].status = "healthy" => ~health[a].missed /\ health[a].stalled = {}

\* Every pass ends: a recovery that stopped a scenario comes to its restart or to
\* its failure, and the next pass can begin.
PassEnds == (mon.at # "sleep") ~> (mon.at = "sleep")

\* "Packet stalls (deployment running but 0 pps)": a deployment that keeps running
\* on a connected agent and never sends is flagged.
StallIsNoticed ==
    \A a \in Agents, s \in Scenarios :
        <>[](link[a] = "up" /\ Connected(a) /\ s \in running[a] /\ s \in dry[a])
            => <>(s \in health[a].stalled)
=============================================================================
