----------------------------- MODULE DeploymentHub -----------------------------
(***************************************************************************)
(* The backend's deployment control plane: the WebSocket hub that serves   *)
(* the agents (api/websocket/agent_hub.py), the AgentManager it shares     *)
(* with the HTTP routes (services/agent_manager.py), the routes that       *)
(* deploy, stop, list and remove (api/routes/agents.py, deployments.py),   *)
(* the reset at start-up (services/startup.py), the agent_deployments      *)
(* table, and the agents at the other end of the sockets.                  *)
(*                                                                         *)
(* Everything on the backend is a coroutine of one event loop, so a step   *)
(* is what runs between two awaits.  A database session reads the states   *)
(* of the rows (its view) and commits later; the ORM then writes the rows  *)
(* whose state it changed, whatever other sessions committed meanwhile.    *)
(*                                                                         *)
(* What a scenario is, the statistics of a STATUS, the status column of    *)
(* the agent, topology and Cyber Vision deploys, and the in-memory state   *)
(* of a tracked deployment, none of which a guard here reads, are left out.*)
(***************************************************************************)
EXTENDS Naturals, Sequences, FiniteSets

CONSTANTS
    Agents,         \* traffic agents
    Scenarios,      \* scenarios
    Scopes,         \* a behaviour has one: what users call, what may go wrong, how often agents connect
    MaxConns,       \* bound: WebSocket connections ever accepted
    MaxRequests,    \* bound: HTTP requests in progress at a time
    MaxRows,        \* bound: rows at which users stop creating and deleting rows
    MaxLink         \* bound: messages on a socket beyond which nothing unsolicited is sent

ASSUME HubAssumption ==
    /\ Agents # {} /\ Scenarios # {} /\ IsFiniteSet(Agents) /\ IsFiniteSet(Scenarios)
    /\ Scopes \subseteq
           [routes : SUBSET {"deploy", "stop", "stop_orphan", "remove", "page", "new_lab"},
            faults : SUBSET {"drop", "agent_restart", "backend_restart", "end", "refuse"},
            conns : 1..MaxConns]
    /\ MaxConns \in Nat /\ MaxRequests \in Nat /\ MaxRows \in Nat /\ MaxLink \in Nat

VARIABLES
    scope,      \* an element of Scopes
    \* PostgreSQL
    rows,       \* agent_deployments in order of started_at
    pending,    \* traffic_agents.pending_deploy_scenario_id
    \* AgentManager
    conn,       \* _connections: the socket of an agent (0: absent) and its running_scenarios
    tracked,    \* _deployments: the agent a scenario is tracked on
    resuming,   \* _resume_inflight
    \* coroutines: one handler per connection, then the HTTP requests
    proc,
    accepted,   \* the number of connections accepted so far
    \* the sockets, as queues of messages not yet read
    up, down,
    \* the agents
    agentWs,    \* the connection the agent is using, 0 while it has none
    running     \* OrchestratorPool.running_scenarios

vars == <<scope, rows, pending, conn, tracked, resuming, proc, accepted, up, down, agentWs, running>>
db == <<rows, pending>>
manager == <<conn, tracked, resuming>>
net == <<scope, accepted, up, down, agentWs, running>>

Conns == 1..MaxConns
Requests == (MaxConns + 1)..(MaxConns + MaxRequests)
NoAgent == "none"
NoScenario == "none"
AnyAgent == CHOOSE a \in Agents : TRUE
AnyScenario == CHOOSE s \in Scenarios : TRUE

\* A row that has been deleted keeps its place, so that row numbers stay put.
RowState == {"starting", "running", "stopping", "stopped", "disconnected", "error", "deleted"}
Present == RowState \ {"deleted"}
Active == {"starting", "running"}

Status == [type : {"STATUS"}, scenario : Scenarios, state : {"running", "stopping", "stopped", "error"}]
Heartbeat == [type : {"HEARTBEAT"}, running : SUBSET Scenarios]
Command == [type : {"START", "STOP"}, scenario : Scenarios]
NoMessage == [type |-> "NONE"]

StatusOf(s, st) == [type |-> "STATUS", scenario |-> s, state |-> st]

\* A coroutine: where it is, whom it is about, the row it made or is to delete,
\* the view of its session, the rows it has still to replay, the message it is
\* handling, and where it goes after execute_deployment or stop_scenario.
Idle(at, a) == [at |-> at, agent |-> a, scenario |-> AnyScenario, row |-> 0, view |-> <<>>,
                todo |-> {}, msg |-> NoMessage, then |-> "idle"]

Init ==
    /\ scope \in Scopes
    /\ rows = <<>>
    \* deploy-new-lab queued a deploy for an agent that has yet to connect
    /\ pending \in [Agents -> {NoScenario} \cup (IF "new_lab" \in scope.routes THEN Scenarios ELSE {})]
    /\ conn = [a \in Agents |-> [ws |-> 0, running |-> {}]]
    /\ tracked = [s \in Scenarios |-> NoAgent]
    /\ resuming = {}
    /\ proc = [p \in Conns \cup Requests |-> Idle(IF p \in Conns THEN "none" ELSE "idle", AnyAgent)]
    /\ accepted = 0
    /\ up = [w \in Conns |-> <<>>]
    /\ down = [w \in Conns |-> <<>>]
    /\ agentWs = [a \in Agents |-> 0]
    /\ running = [a \in Agents |-> {}]

-----------------------------------------------------------------------------
(* The table *)

View == [i \in DOMAIN rows |-> rows[i].state]

\* The rows of agent a and scenario s that view v shows in a state of S.
RowsIn(v, a, s, S) == {i \in DOMAIN v : rows[i].agent = a /\ rows[i].scenario = s /\ v[i] \in S}

\* order_by(started_at.desc()), first
Newest(I) == CHOOSE i \in I : \A j \in I : j <= i

\* db.commit(): the rows whose state the session changed from v to new are
\* written.  An UPDATE of a row that is gone fails the whole commit.
Committed(v, new) ==
    LET dirty == {i \in DOMAIN v : new[i] # v[i]}
    IN  IF \E i \in dirty : rows[i].state = "deleted" THEN rows
        ELSE [i \in DOMAIN rows |->
                 IF i \in dirty THEN [rows[i] EXCEPT !.state = new[i]] ELSE rows[i]]

\* Two fields the table does not have are for the properties: src is the row this
\* one replays, why is who last asked for the row to be closed.
NewRow(a, s, st, src) == [agent |-> a, scenario |-> s, state |-> st, src |-> src, why |-> "none"]

-----------------------------------------------------------------------------
(* Sockets *)

Registered(a) == conn[a].ws # 0

\* A send on a registered socket: delivered if the agent is still there.  On a
\* dead socket it raises, or vanishes into a buffer and looks successful.
Reachable(a) == Registered(a) /\ agentWs[a] = conn[a].ws
Deliver(a, cmds) ==
    down' = IF Reachable(a) THEN [down EXCEPT ![conn[a].ws] = @ \o cmds] ELSE down

CommandOf(type, s) == [type |-> type, scenario |-> s]

\* STOP_SCENARIO for every scenario of S, in some order.
StopAll(S) ==
    LET order == CHOOSE q \in [1..Cardinality(S) -> S] : \A s \in S : \E i \in DOMAIN q : q[i] = s
    IN  [i \in DOMAIN order |-> CommandOf("STOP", order[i])]

\* Room for messages nobody asked for.
Quiet(w) == Len(up[w]) + Len(down[w]) < MaxLink

Goto(p, at) == proc' = [proc EXCEPT ![p].at = at]

-----------------------------------------------------------------------------
(* execute_deployment, shared by the deploy route, the pending deploy and resume *)

Deploying == {"new_row", "send_start", "track", "send_failed"}

\* The row is inserted and committed.
CreateRow(p) ==
    /\ proc[p].at = "new_row"
    /\ rows' = Append(rows, NewRow(proc[p].agent, proc[p].scenario, "starting", proc[p].row))
    /\ proc' = [proc EXCEPT ![p].at = "send_start", ![p].row = Len(rows) + 1]
    /\ UNCHANGED <<pending, manager, net>>

\* START_SCENARIO goes to whatever socket is registered by now.
SendStart(p) ==
    LET a == proc[p].agent
    IN  /\ proc[p].at = "send_start"
        /\ \/ /\ Registered(a)
              /\ Deliver(a, <<CommandOf("START", proc[p].scenario)>>)
              /\ Goto(p, "track")
           \/ /\ ~Reachable(a)
              /\ down' = down
              /\ Goto(p, "send_failed")
        /\ UNCHANGED <<scope, db, manager, accepted, up, agentWs, running>>

\* The deploy returns to its caller.
Return(p) ==
    proc' = [proc EXCEPT ![p] = [Idle(proc[p].then, proc[p].agent) EXCEPT
                                    !.todo = proc[p].todo, !.msg = proc[p].msg]]

\* deploy_scenario records what it sent.
TrackDeployment(p) ==
    LET a == proc[p].agent
        s == proc[p].scenario
    IN  /\ proc[p].at = "track"
        /\ tracked' = [tracked EXCEPT ![s] = a]
        /\ conn' = IF Registered(a) THEN [conn EXCEPT ![a].running = @ \cup {s}] ELSE conn
        /\ Return(p)
        /\ UNCHANGED <<db, resuming, net>>

\* The command could not be sent: the new row ends in "error", and so does the
\* deploy.
DeployFailed(p) ==
    /\ proc[p].at = "send_failed"
    /\ rows' = IF rows[proc[p].row].state = "deleted" THEN rows
               ELSE [rows EXCEPT ![proc[p].row].state = "error"]
    /\ Return(p)
    /\ UNCHANGED <<pending, manager, net>>

\* No row is made, and only a log line or an answer tells: the scenario is gone, its
\* naming is incomplete, or its Cyber Vision Center is not to be had.
DeployRefused(p) ==
    /\ "refuse" \in scope.faults
    /\ proc[p].at = "new_row"
    /\ Return(p)
    /\ UNCHANGED <<db, manager, net>>

ExecuteDeployment(p) == DeployRefused(p) \/ CreateRow(p) \/ SendStart(p) \/ TrackDeployment(p) \/ DeployFailed(p)

-----------------------------------------------------------------------------
(* agent_websocket: one handler per connection *)

\* The agent connects; the hub validates the token, accepts and registers.  A
\* registration that is already there is closed and replaced.
Connect(a) ==
    LET w == accepted + 1
    IN  /\ agentWs[a] = 0
        /\ w <= scope.conns
        /\ accepted' = w
        /\ agentWs' = [agentWs EXCEPT ![a] = w]
        /\ conn' = [conn EXCEPT ![a] = [ws |-> w, running |-> {}]]
        /\ proc' = [proc EXCEPT ![w] = Idle("accepted", a)]
        /\ UNCHANGED <<scope, db, tracked, resuming, up, down, running>>

\* resolve_pending_deploy reads the agent ...
ReadPending(w) ==
    LET s == pending[proc[w].agent]
    IN  /\ proc[w].at = "accepted"
        /\ proc' = IF s = NoScenario THEN [proc EXCEPT ![w].at = "greet"]
                   ELSE [proc EXCEPT ![w].at = "clear", ![w].scenario = s, ![w].then = "greet"]
        /\ UNCHANGED <<db, manager, net>>

\* Mutant: the deploy is skipped if the agent has gone meanwhile.
ClearPending_OnlyConnected(w) ==
    /\ proc[w].at = "clear"
    /\ pending' = [pending EXCEPT ![proc[w].agent] = NoScenario]
    /\ Goto(w, IF Reachable(proc[w].agent) THEN "new_row" ELSE "greet")
    /\ UNCHANGED <<rows, manager, net>>

\* ... and clears the field before it deploys, or finds that it cannot.
ClearPending(w) ==
    /\ proc[w].at = "clear"
    /\ pending' = [pending EXCEPT ![proc[w].agent] = NoScenario]
    /\ Goto(w, "new_row")
    /\ UNCHANGED <<rows, manager, net>>

Alive(w) == agentWs[proc[w].agent] = w

\* CONNECTED is sent before the try block: if that raises, the handler ends
\* without the clean-up of the finally clause.
Greet(w) ==
    /\ proc[w].at = "greet"
    /\ \/ proc' = [proc EXCEPT ![w] = Idle("loop", proc[w].agent)]
       \/ ~Alive(w) /\ proc' = [proc EXCEPT ![w] = Idle("aborted", proc[w].agent)]
    /\ UNCHANGED <<db, manager, net>>

\* STATUS: update_deployment_status reads the rows ...
ReceiveStatus(w) ==
    /\ proc[w].at = "loop"
    /\ up[w] # <<>>
    /\ Head(up[w]).type = "STATUS"
    /\ up' = [up EXCEPT ![w] = Tail(@)]
    /\ proc' = [proc EXCEPT ![w].at = "status", ![w].msg = Head(up[w]), ![w].view = View]
    /\ UNCHANGED <<scope, db, manager, accepted, down, agentWs, running>>

\* Mutant: the default of data.get("state", "unknown") reaches the row.
StatusStates_Unknown(v, a, s, st) ==
    [i \in DOMAIN v |-> IF i \in RowsIn(v, a, s, Active) THEN "unknown" ELSE v[i]]

\* ... gives the newest row that may take it the reported state and closes the
\* older ones; "running" also re-activates a stopped row.
StatusStates(v, a, s, st) ==
    LET I == RowsIn(v, a, s, {"starting", "running", "stopping", "disconnected"}
                                \cup (IF st = "running" THEN {"stopped"} ELSE {}))
    IN  [i \in DOMAIN v |->
            IF i \notin I THEN v[i]
            ELSE IF i = Newest(I) THEN st
            ELSE IF v[i] \in Active \cup {"disconnected"} THEN "stopped" ELSE v[i]]

WriteStatus(w) ==
    LET m == proc[w].msg
    IN  /\ proc[w].at = "status"
        /\ rows' = Committed(proc[w].view,
                             StatusStates(proc[w].view, proc[w].agent, m.scenario, m.state))
        /\ proc' = [proc EXCEPT ![w].at = "status_memory", ![w].view = <<>>]
        /\ UNCHANGED <<pending, manager, net>>

\* _handle_status: the same message, applied to the manager's memory.
HandleStatus(w) ==
    LET a == proc[w].agent
        m == proc[w].msg
        over == m.state \in {"stopped", "error"}
    IN  /\ proc[w].at = "status_memory"
        /\ tracked' = IF tracked[m.scenario] = NoAgent /\ ~over
                      THEN [tracked EXCEPT ![m.scenario] = a] ELSE tracked
        /\ conn' = IF ~Registered(a) THEN conn
                   ELSE [conn EXCEPT ![a].running = IF over THEN @ \ {m.scenario}
                                                    ELSE @ \cup {m.scenario}]
        /\ proc' = [proc EXCEPT ![w] = Idle("loop", a)]
        /\ UNCHANGED <<db, resuming, net>>

\* HEARTBEAT: sync_running_scenarios reads the rows ...
ReceiveHeartbeat(w) ==
    /\ proc[w].at = "loop"
    /\ up[w] # <<>>
    /\ Head(up[w]).type = "HEARTBEAT"
    /\ up' = [up EXCEPT ![w] = Tail(@)]
    /\ proc' = [proc EXCEPT ![w].at = "sync", ![w].msg = Head(up[w]), ![w].view = View]
    /\ UNCHANGED <<scope, db, manager, accepted, down, agentWs, running>>

\* Scenarios of S whose newest row the user stopped: they get another STOP.
StillStopped(v, a, S) ==
    {s \in S : \E i \in RowsIn(v, a, s, {"stopping", "stopped"}) : i = Newest(RowsIn(v, a, s, Present))}


\* The newest row of every scenario of S becomes "running", unless it was
\* stopped, and the older ones are closed.
SyncStates(v, a, S) ==
    [i \in DOMAIN v |->
        LET s == rows[i].scenario
            I == RowsIn(v, a, s, Present)
        IN  IF s \notin S \/ i \notin I THEN v[i]
            ELSE IF i = Newest(I)
                 THEN IF v[i] \in {"stopping", "stopped"} THEN v[i] ELSE "running"
            ELSE IF v[i] \in Active \cup {"disconnected"} THEN "stopped" ELSE v[i]]

\* ... re-sends STOP where it is due, and commits.
SyncRunning(w) ==
    LET a == proc[w].agent
        v == proc[w].view
        S == proc[w].msg.running
    IN  /\ proc[w].at = "sync"
        /\ Deliver(a, StopAll(StillStopped(v, a, S)))
        /\ rows' = Committed(v, SyncStates(v, a, S))
        /\ proc' = [proc EXCEPT ![w].at = "resume_check", ![w].view = <<>>]
        /\ UNCHANGED <<scope, pending, manager, accepted, up, agentWs, running>>

\* The rows resume_disconnected_deployments replays: the newest of their
\* scenario, disconnected, and not running according to the heartbeat.
Lost(a, S) ==
    {i \in DOMAIN rows : LET s == rows[i].scenario
                         IN  /\ rows[i].agent = a
                             /\ rows[i].state = "disconnected"
                             /\ s \notin S
                             /\ i = Newest(RowsIn(View, a, s, Present))}

\* Mutant: nothing keeps two handlers of an agent from replaying together.
ResumeBegin_NoGuard(w) ==
    LET a == proc[w].agent
        lost == Lost(a, proc[w].msg.running)
    IN  /\ proc[w].at = "resume_check"
        /\ IF lost = {}
           THEN proc' = [proc EXCEPT ![w] = Idle("loop", a)] /\ resuming' = resuming
           ELSE proc' = [proc EXCEPT ![w].at = "resume", ![w].todo = lost] /\ resuming' = resuming \cup {a}
        /\ UNCHANGED <<db, conn, tracked, net>>

\* Mutant: a replay that finds its row deleted returns without releasing the lock.
ResumeNext_KeepsLock(w) ==
    LET i == Newest(proc[w].todo)
    IN  /\ proc[w].at = "resume"
        /\ proc[w].todo # {}
        /\ IF rows[i].state = "deleted"
           THEN proc' = [proc EXCEPT ![w] = Idle("loop", proc[w].agent)] /\ rows' = rows
           ELSE /\ rows' = [rows EXCEPT ![i].state = "stopped", ![i].why = "replay"]
                /\ proc' = [proc EXCEPT ![w].at = "new_row", ![w].scenario = rows[i].scenario,
                                        ![w].row = i, ![w].todo = @ \ {i}, ![w].then = "resume"]
        /\ UNCHANGED <<pending, manager, net>>

\* One replay per agent at a time.
ResumeBegin(w) ==
    LET a == proc[w].agent
        lost == Lost(a, proc[w].msg.running)
    IN  /\ proc[w].at = "resume_check"
        /\ IF a \in resuming \/ lost = {}
           THEN proc' = [proc EXCEPT ![w] = Idle("loop", a)] /\ resuming' = resuming
           ELSE proc' = [proc EXCEPT ![w].at = "resume", ![w].todo = lost] /\ resuming' = resuming \cup {a}
        /\ UNCHANGED <<db, conn, tracked, net>>

\* The next lost row is closed, then deployed again.  If it is gone by now the
\* commit fails and the replay is abandoned.
ResumeNext(w) ==
    LET i == Newest(proc[w].todo)
    IN  /\ proc[w].at = "resume"
        /\ proc[w].todo # {}
        /\ IF rows[i].state = "deleted"
           THEN proc' = [proc EXCEPT ![w].todo = {}] /\ rows' = rows
           ELSE /\ rows' = [rows EXCEPT ![i].state = "stopped", ![i].why = "replay"]
                /\ proc' = [proc EXCEPT ![w].at = "new_row", ![w].scenario = rows[i].scenario,
                                        ![w].row = i, ![w].todo = @ \ {i}, ![w].then = "resume"]
        /\ UNCHANGED <<pending, manager, net>>

\* A row whose scenario has incomplete naming is left for a later heartbeat.
ResumeSkip(w) ==
    /\ "refuse" \in scope.faults
    /\ proc[w].at = "resume"
    /\ proc[w].todo # {}
    /\ proc' = [proc EXCEPT ![w].todo = @ \ {Newest(proc[w].todo)}]
    /\ UNCHANGED <<db, manager, net>>

\* finally: the lock is released; the rest of HEARTBEAT updates statistics.
ResumeEnd(w) ==
    LET a == proc[w].agent
    IN  /\ proc[w].at = "resume"
        /\ proc[w].todo = {}
        /\ resuming' = resuming \ {a}
        /\ proc' = [proc EXCEPT ![w] = Idle("loop", a)]
        /\ UNCHANGED <<db, conn, tracked, net>>

\* receive_json raises once the socket is gone; what was still unread is lost.
NoticeClosed(w) ==
    /\ proc[w].at = "loop"
    /\ ~Alive(w)
    /\ up' = [up EXCEPT ![w] = <<>>]
    /\ Goto(w, "unregister")
    /\ UNCHANGED <<scope, db, manager, accepted, down, agentWs, running>>

\* finally: unregister goes by agent, not by socket.
Unregister(w) ==
    /\ proc[w].at = "unregister"
    /\ conn' = [conn EXCEPT ![proc[w].agent] = [ws |-> 0, running |-> {}]]
    /\ Goto(w, "mark")
    /\ UNCHANGED <<db, tracked, resuming, net>>

\* Mutant: rows that were still starting are forgotten.
Disconnected_RunningOnly(A) ==
    [i \in DOMAIN rows |->
        IF rows[i].agent \in A /\ rows[i].state \in {"running", "stopping"}
        THEN [rows[i] EXCEPT !.state = "disconnected"] ELSE rows[i]]

\* The active rows of agents of A become "disconnected".
Disconnected(A) ==
    [i \in DOMAIN rows |->
        IF rows[i].agent \in A /\ rows[i].state \in Active \cup {"stopping"}
        THEN [rows[i] EXCEPT !.state = "disconnected"] ELSE rows[i]]

MarkDisconnected(w) ==
    /\ proc[w].at = "mark"
    /\ rows' = Disconnected({proc[w].agent})
    /\ proc' = [proc EXCEPT ![w] = Idle("closed", proc[w].agent)]
    /\ UNCHANGED <<pending, manager, net>>

Handler(w) ==
    \/ ReadPending(w) \/ ClearPending(w) \/ Greet(w)
    \/ ReceiveStatus(w) \/ WriteStatus(w) \/ HandleStatus(w)
    \/ ReceiveHeartbeat(w) \/ SyncRunning(w)
    \/ ResumeBegin(w) \/ ResumeNext(w) \/ ResumeSkip(w) \/ ResumeEnd(w)
    \/ NoticeClosed(w) \/ Unregister(w) \/ MarkDisconnected(w)

-----------------------------------------------------------------------------
(* HTTP routes *)

\* POST /agents/{a}/deploy: refused if the agent is not connected; an active row
\* is returned as it is.
DeployRequest(r, a, s) ==
    /\ "deploy" \in scope.routes
    /\ proc[r].at = "idle"
    /\ Len(rows) < MaxRows
    /\ Registered(a)
    /\ RowsIn(View, a, s, Active) = {}
    /\ proc' = [proc EXCEPT ![r] = [Idle("new_row", a) EXCEPT !.scenario = s]]
    /\ UNCHANGED <<db, manager, net>>

\* DELETE /agents/{a}/deploy/{s}: the active rows are read ...
StopRequest(r, a, s) ==
    /\ "stop" \in scope.routes
    /\ proc[r].at = "idle"
    /\ RowsIn(View, a, s, Active) # {}
    /\ proc' = [proc EXCEPT ![r] = [Idle("stop_send", a) EXCEPT !.scenario = s, !.view = View,
                                                                !.then = "stop_write"]]
    /\ UNCHANGED <<db, manager, net>>

\* ... stop_scenario sends STOP where the scenario is tracked, else to a
\* connected agent that runs it ...
StopTargets(s) ==
    IF tracked[s] # NoAgent THEN {tracked[s]}
    ELSE {a \in Agents : Registered(a) /\ s \in conn[a].running}

StopSend(r) ==
    LET s == proc[r].scenario
    IN  /\ proc[r].at = "stop_send"
        /\ IF StopTargets(s) = {} THEN down' = down
           ELSE \E a \in StopTargets(s) :
                    /\ Reachable(a) => Quiet(conn[a].ws)
                    /\ Deliver(a, <<CommandOf("STOP", s)>>)
        /\ Goto(r, proc[r].then)
        /\ UNCHANGED <<scope, db, manager, accepted, up, agentWs, running>>

\* ... and the rows that were read become "stopping".
StopWrite(r) ==
    LET v == proc[r].view
        mine == RowsIn(v, proc[r].agent, proc[r].scenario, Active)
        new == Committed(v, [i \in DOMAIN v |-> IF i \in mine THEN "stopping" ELSE v[i]])
    IN  /\ proc[r].at = "stop_write"
        /\ rows' = [i \in DOMAIN rows |-> IF i \in mine THEN [new[i] EXCEPT !.why = "user"] ELSE new[i]]
        /\ proc' = [proc EXCEPT ![r] = Idle("idle", AnyAgent)]
        /\ UNCHANGED <<pending, manager, net>>

\* POST /agents/{a}/stop-scenario/{s}
StopOrphan(r, a, s) ==
    /\ "stop_orphan" \in scope.routes
    /\ proc[r].at = "idle"
    /\ Registered(a)
    /\ proc' = [proc EXCEPT ![r] = [Idle("stop_send", a) EXCEPT !.scenario = s]]
    /\ UNCHANGED <<db, manager, net>>

\* DELETE /deployments/{i}: an active row is stopped first, then deleted.
RemoveRequest(r, i) ==
    /\ "remove" \in scope.routes
    /\ proc[r].at = "idle"
    /\ Len(rows) <= MaxRows
    /\ rows[i].state \in Present
    /\ proc' = [proc EXCEPT ![r] = [Idle(IF rows[i].state \in Active \cup {"stopping"}
                                         THEN "stop_send" ELSE "remove", rows[i].agent)
                                    EXCEPT !.scenario = rows[i].scenario, !.row = i, !.then = "remove"]]
    /\ UNCHANGED <<db, manager, net>>

RemoveWrite(r) ==
    /\ proc[r].at = "remove"
    /\ rows' = [rows EXCEPT ![proc[r].row].state = "deleted"]
    /\ proc' = [proc EXCEPT ![r] = Idle("idle", AnyAgent)]
    /\ UNCHANGED <<pending, manager, net>>

\* GET /deployments: what the connections say runs ...
PageRequest(r) ==
    /\ "page" \in scope.routes
    /\ proc[r].at = "idle"
    /\ proc' = [proc EXCEPT ![r] = [Idle("page_read", AnyAgent) EXCEPT
                                       !.msg = [type |-> "PAGE", seen |-> conn]]]
    /\ UNCHANGED <<db, manager, net>>

\* ... is compared with the rows ...
PageRead(r) ==
    /\ proc[r].at = "page_read"
    /\ proc' = [proc EXCEPT ![r].at = "page_sync", ![r].view = View]
    /\ UNCHANGED <<db, manager, net>>

\* Scenarios that run without any row: they get one.
Orphans(v, seen) ==
    {o \in Agents \X Scenarios : o[2] \in seen[o[1]].running /\ RowsIn(v, o[1], o[2], Present) = {}}

OrphanRows(O) ==
    LET order == CHOOSE q \in [1..Cardinality(O) -> O] : \A o \in O : \E i \in DOMAIN q : q[i] = o
    IN  [i \in DOMAIN order |-> NewRow(order[i][1], order[i][2], "running", 0)]

\* Only the newest row is touched here; duplicates are left alone.
PageStates(v, seen) ==
    [i \in DOMAIN v |->
        LET a == rows[i].agent
            s == rows[i].scenario
            I == RowsIn(v, a, s, Present)
        IN  IF /\ i \in I /\ i = Newest(I)
               /\ s \in seen[a].running
               /\ v[i] \notin {"stopping", "stopped"}
            THEN "running" ELSE v[i]]

\* The loop iterates over the live set of a connection across its awaits: Python
\* raises if the size of the set has changed, and the request fails.
PageFails(seen) ==
    \E a \in Agents : /\ seen[a].running # {}
                      /\ conn[a].ws = seen[a].ws
                      /\ Cardinality(conn[a].running) # Cardinality(seen[a].running)

\* ... STOP is sent again where it is due and the session commits.
PageSync(r) ==
    LET v == proc[r].view
        seen == proc[r].msg.seen
        stale == \E i \in DOMAIN v : PageStates(v, seen)[i] # v[i] /\ rows[i].state = "deleted"
    IN  /\ proc[r].at = "page_sync"
        /\ \A a \in Agents : Reachable(a) => Quiet(conn[a].ws)
        /\ down' = [w \in Conns |->
                       LET a == proc[w].agent
                       IN  IF Reachable(a) /\ conn[a].ws = w
                           THEN down[w] \o StopAll(StillStopped(v, a, seen[a].running))
                           ELSE down[w]]
        /\ IF PageFails(seen) \/ stale
           THEN /\ rows' = rows
                /\ proc' = [proc EXCEPT ![r] = Idle("idle", AnyAgent)]
           ELSE /\ rows' = Committed(v, PageStates(v, seen)) \o OrphanRows(Orphans(v, seen))
                /\ proc' = [proc EXCEPT ![r] = [Idle("page_fix", AnyAgent) EXCEPT
                                                   !.view = [i \in DOMAIN rows' |-> rows'[i].state]]]
        /\ UNCHANGED <<scope, pending, manager, accepted, up, agentWs, running>>

\* ... then rows that look stuck are repaired.  A "starting" row is an error once
\* it is two minutes old and the agent is away.
FixStates(v, stale) ==
    [i \in DOMAIN v |->
        LET c == conn[rows[i].agent]
            gone == rows[i].scenario \notin c.running
        IN  CASE v[i] = "stopping" /\ gone -> "stopped"
              [] v[i] = "running" /\ c.ws = 0 -> "disconnected"
              [] v[i] = "running" /\ c.ws # 0 /\ gone -> "stopped"
              [] v[i] = "starting" /\ c.ws = 0 /\ i \in stale -> "error"
              [] OTHER -> v[i]]

PageFix(r) ==
    /\ proc[r].at = "page_fix"
    /\ \E stale \in SUBSET {i \in DOMAIN rows : rows[i].state = "starting"} :
          rows' = Committed(proc[r].view, FixStates(proc[r].view, stale))
    /\ proc' = [proc EXCEPT ![r] = Idle("idle", AnyAgent)]
    /\ UNCHANGED <<pending, manager, net>>

NewRequest(r) ==
    \/ \E a \in Agents, s \in Scenarios : DeployRequest(r, a, s) \/ StopRequest(r, a, s) \/ StopOrphan(r, a, s)
    \/ \E i \in DOMAIN rows : RemoveRequest(r, i)
    \/ PageRequest(r)

Request(r) == StopSend(r) \/ StopWrite(r) \/ RemoveWrite(r) \/ PageRead(r) \/ PageSync(r) \/ PageFix(r)

-----------------------------------------------------------------------------
(* Crashes *)

\* The backend dies and starts again: memory, coroutines and sockets are gone, and
\* start-up marks the active rows as disconnected.
BackendRestart ==
    /\ "backend_restart" \in scope.faults
    /\ \E a \in Agents : agentWs[a] # 0
    /\ conn' = [a \in Agents |-> [ws |-> 0, running |-> {}]]
    /\ tracked' = [s \in Scenarios |-> NoAgent]
    /\ resuming' = {}
    /\ proc' = [p \in DOMAIN proc |->
                   IF p \in Requests THEN Idle("idle", AnyAgent)
                   ELSE IF proc[p].at = "none" THEN proc[p] ELSE Idle("closed", proc[p].agent)]
    /\ rows' = Disconnected(Agents)
    /\ agentWs' = [a \in Agents |-> 0]
    /\ up' = [w \in Conns |-> <<>>]
    /\ down' = [w \in Conns |-> <<>>]
    /\ UNCHANGED <<scope, pending, accepted, running>>

\* The network fails; the hub will notice later.
AgentDrop(a) ==
    /\ "drop" \in scope.faults
    /\ agentWs[a] # 0
    /\ agentWs' = [agentWs EXCEPT ![a] = 0]
    /\ down' = [down EXCEPT ![agentWs[a]] = <<>>]
    /\ UNCHANGED <<scope, db, manager, proc, accepted, up, running>>

\* The agent's container restarts: its scenarios are gone as well.
AgentRestart(a) ==
    /\ "agent_restart" \in scope.faults
    /\ agentWs[a] # 0
    /\ agentWs' = [agentWs EXCEPT ![a] = 0]
    /\ down' = [down EXCEPT ![agentWs[a]] = <<>>]
    /\ running' = [running EXCEPT ![a] = {}]
    /\ UNCHANGED <<scope, db, manager, proc, accepted, up>>

-----------------------------------------------------------------------------
(* The agent *)

\* A message of the agent is lost if it has no connection.
Report(a, m) ==
    up' = IF agentWs[a] = 0 THEN up ELSE [up EXCEPT ![agentWs[a]] = Append(@, m)]

\* The next command.  START of a scenario that runs already, or that cannot be
\* built, is answered with "error".  STOP ends the scenario; the last STATUS may
\* be "stopping", when pool.stop writes over the thread's STOPPED.
AgentCommand(a) ==
    LET w == agentWs[a]
        c == Head(down[w])
        s == c.scenario
    IN  /\ w # 0
        /\ down[w] # <<>>
        /\ down' = [down EXCEPT ![w] = Tail(@)]
        /\ \/ /\ c.type = "START" /\ s \notin running[a]
              /\ running' = [running EXCEPT ![a] = @ \cup {s}]
              /\ Report(a, StatusOf(s, "running"))
           \/ /\ c.type = "START"
              /\ running' = running
              /\ Report(a, StatusOf(s, "error"))
           \/ /\ c.type = "STOP" /\ s \in running[a]
              /\ running' = [running EXCEPT ![a] = @ \ {s}]
              /\ \E st \in {"stopping", "stopped"} : Report(a, StatusOf(s, st))
           \/ /\ c.type = "STOP" /\ s \notin running[a]
              /\ UNCHANGED <<running, up>>
        /\ UNCHANGED <<scope, db, manager, proc, accepted, agentWs>>

\* A scenario ends by itself, connected or not.
ScenarioEnds(a, s) ==
    /\ "end" \in scope.faults
    /\ s \in running[a]
    /\ agentWs[a] # 0 => Quiet(agentWs[a])
    /\ running' = [running EXCEPT ![a] = @ \ {s}]
    /\ \E st \in {"stopped", "error"} : Report(a, StatusOf(s, st))
    /\ UNCHANGED <<scope, db, manager, proc, accepted, down, agentWs>>

SendHeartbeat(a) ==
    /\ agentWs[a] # 0
    /\ Quiet(agentWs[a])
    /\ Report(a, [type |-> "HEARTBEAT", running |-> running[a]])
    /\ UNCHANGED <<scope, db, manager, proc, accepted, down, agentWs, running>>

\* The periodic STATUS of a running scenario.
SendStatus(a, s) ==
    /\ agentWs[a] # 0
    /\ s \in running[a]
    /\ Quiet(agentWs[a])
    /\ Report(a, StatusOf(s, "running"))
    /\ UNCHANGED <<scope, db, manager, proc, accepted, down, agentWs, running>>

Agent(a) ==
    \/ Connect(a) \/ AgentDrop(a) \/ AgentRestart(a) \/ AgentCommand(a) \/ SendHeartbeat(a)
    \/ \E s \in Scenarios : ScenarioEnds(a, s) \/ SendStatus(a, s)

Next ==
    \/ \E p \in Conns \cup Requests : ExecuteDeployment(p)
    \/ \E w \in Conns : Handler(w)
    \/ \E r \in Requests : NewRequest(r) \/ Request(r)
    \/ \E a \in Agents : Agent(a)
    \/ BackendRestart

Spec == Init /\ [][Next]_vars

\* Coroutines run to their next await and are resumed; an agent reads what it is
\* sent.  Heartbeats come from a timer of the agent.  Fairness is strong where the
\* bound on a socket may disable a step again and again, which the code never does.
FairSpec ==
    /\ Spec
    /\ \A p \in Conns \cup Requests : WF_vars(ExecuteDeployment(p))
    /\ \A w \in Conns : WF_vars(Handler(w))
    /\ \A r \in Requests : SF_vars(Request(r))
    /\ \A a \in Agents : WF_vars(AgentCommand(a)) /\ SF_vars(SendHeartbeat(a))

-----------------------------------------------------------------------------
(* Properties *)

\* Replaying(w): handler w is between ResumeBegin and ResumeEnd.
Replaying(w) == proc[w].at = "resume" \/ (proc[w].at \in Deploying /\ proc[w].then = "resume")

Procs == Conns \cup Requests
Ended == {"closed", "aborted"}

RowType == [agent : Agents, scenario : Scenarios, state : RowState, src : Nat, why : {"none", "user", "replay"}]

Places == {"none", "accepted", "clear", "greet", "loop", "status", "status_memory", "sync",
           "resume_check", "resume", "unregister", "mark", "closed", "aborted",
           "idle", "stop_send", "stop_write", "remove", "page_read", "page_sync", "page_fix"} \cup Deploying

Connection == [ws : {0} \cup Conns, running : SUBSET Scenarios]
Page == [type : {"PAGE"}, seen : [Agents -> Connection]]

ProcType == [at : Places, agent : Agents, scenario : Scenarios, row : Nat, view : Seq(RowState), todo : SUBSET Nat,
             msg : Status \cup Heartbeat \cup Page \cup {NoMessage},
             then : {"idle", "greet", "resume", "stop_write", "remove"}]

TypeOK ==
    /\ scope \in Scopes
    /\ rows \in Seq(RowType)
    /\ pending \in [Agents -> Scenarios \cup {NoScenario}]
    /\ conn \in [Agents -> Connection]
    /\ tracked \in [Scenarios -> Agents \cup {NoAgent}]
    /\ resuming \in SUBSET Agents
    /\ proc \in [Procs -> ProcType]
    /\ accepted \in {0} \cup Conns
    /\ up \in [Conns -> Seq(Status \cup Heartbeat)]
    /\ down \in [Conns -> Seq(Command)]
    /\ agentWs \in [Agents -> {0} \cup Conns]
    /\ running \in [Agents -> SUBSET Scenarios]

\* "one replay per agent at a time" (_resume_inflight): an agent is marked exactly
\* while one handler of it replays, so that two connections of an agent never
\* replay together and no path, failed commits and deploys included, leaves the
\* mark behind and switches replay off for good.
OneReplay ==
    \A a \in Agents :
        /\ a \in resuming <=> \E w \in Conns : proc[w].agent = a /\ Replaying(w)
        /\ \A v, w \in Conns : Replaying(v) /\ Replaying(w) /\ proc[v].agent = proc[w].agent => v = w

\* "a second heartbeat can never replay the same row twice"
\* (resume_disconnected_deployments): two rows that exist are never replays of
\* the same lost row.
ReplayOnce ==
    \A i, j \in DOMAIN rows :
        /\ i # j
        /\ rows[i].src # 0 /\ rows[i].src = rows[j].src
        => "deleted" \in {rows[i].state, rows[j].state}

\* Once nothing is left of an agent on the backend, its rows do not pretend that
\* it runs anything.
OfflineIsVisible ==
    \A a \in Agents :
        /\ ~Registered(a)
        /\ \A w \in Conns : proc[w].agent = a => proc[w].at \in {"none"} \cup Ended
        /\ \A r \in Requests : proc[r].at = "idle"
        => \A i \in DOMAIN rows : rows[i].agent = a => rows[i].state \notin Active

\* The state of the newest row of a scenario on an agent.
NewestState(a, s) ==
    LET I == RowsIn(View, a, s, Present)
    IN  IF I = {} THEN "none" ELSE rows[Newest(I)].state

\* The rows of an agent tell what it runs: a running scenario has a running row,
\* unless its rows were deleted, and only a running scenario has an active row.
RowsAgree(a) ==
    \A s \in Scenarios :
        /\ s \in running[a] => NewestState(a, s) \in {"running", "none"}
        /\ RowsIn(View, a, s, Active) # {} => s \in running[a]

\* No handler ended in its greeting, without the clean-up of the finally clause.
NoAbort == \A w \in Conns : proc[w].at # "aborted"


\* A deploy of s is queued for agent a, which has just connected.
Queued(a, s) ==
    /\ pending[a] = s
    /\ \E w \in Conns : proc[w].agent = a /\ proc[w].at = "accepted"

\* What deploy-new-lab queued for an agent leaves a row, whose state tells how it
\* went, once the agent has connected, however short the connection and whatever
\* an older handler of the agent does meanwhile, unless the backend itself dies or
\* refuses to deploy the scenario (resolve_pending_deploy).
QueuedDeployHappens ==
    \A a \in Agents, s \in Scenarios :
        (scope.faults \cap {"backend_restart", "refuse"} = {} /\ Queued(a, s))
            ~> (RowsIn(View, a, s, RowState) # {})

\* A deployment the user stopped is not deployed again by a reconnect.
StoppedNotReplayed ==
    \A w \in Conns : \A i \in proc[w].todo : rows[i].why # "user"
=============================================================================
