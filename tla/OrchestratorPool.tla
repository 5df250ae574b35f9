--------------------------- MODULE OrchestratorPool ---------------------------
(***************************************************************************)
(* The traffic agent's pool of scenario threads                            *)
(* (docker/packetarch-agent/app/orchestrator_pool.py) together with the    *)
(* command handlers and the status reporter of app/main.py that drive it.  *)
(*                                                                         *)
(* Two kinds of thread share a ScenarioContext: the asyncio event loop,    *)
(* which runs every command handler, the heartbeat, the status reporter    *)
(* and the thread-health check, and one scenario thread per context, which *)
(* runs _run_scenario.  The pool's lock protects the dictionary only; the  *)
(* fields of a context (status.state, stop_event) are read and written     *)
(* without it, so every such access is an action of its own here.          *)
(*                                                                         *)
(* A context is a number: the k-th ScenarioContext the pool creates is k.  *)
(* What a scenario generates, and its attack and adaptation references,    *)
(* which no guard of this life cycle reads, are left out.                  *)
(***************************************************************************)
EXTENDS Naturals, Sequences

CONSTANTS
    Scenarios,      \* the scenario ids the server may start on this agent
    MaxContexts,    \* bound: how many ScenarioContexts are ever created
    MaxQueue        \* bound: changes of one scenario waiting in _status_queue

ASSUME ScenariosAssumption == Scenarios # {}
ASSUME BoundsAssumption == MaxContexts \in Nat /\ MaxQueue \in Nat

VARIABLES
    \* OrchestratorPool
    scenarios,      \* _scenarios: the context a scenario id maps to, 0 if absent
    created,        \* the number of contexts created so far
    \* ScenarioContext, one value per context
    sid,            \* ctx.scenario_id
    state,          \* ctx.status.state
    stop_event,     \* ctx.stop_event.is_set()
    thread,         \* where ctx.thread is in _run_scenario
    \* the agent's event loop
    loop,           \* the command handler in progress
    status_queue,   \* _status_queue, split by scenario
    reported        \* the state in the last STATUS sent for a scenario

ctxVars == <<sid, state, stop_event, thread>>
vars == <<scenarios, created, sid, state, stop_event, thread, loop, status_queue, reported>>

Contexts == 1..MaxContexts
NoContext == 0

\* The value of a scenario field nothing has written yet; nothing reads it.
AnyScenario == CHOOSE s \in Scenarios : TRUE

ScenarioState == {"starting", "running", "stopping", "stopped", "error"}

\* The bound on the queue, in the guards of what may add to it.  pool.stop must
\* finish once begun, so it is bounded at its check.
Backlog(s) == Len(status_queue[s]) >= MaxQueue

\* The states in which the pool calls a scenario running.
Active == {"starting", "running"}

\* Program points of _run_scenario.  "spawned" is a thread that has executed
\* nothing yet, "failed" one that thread.start() could not create.
Live == {"spawned", "say_starting", "build", "say_running", "run"}
Dead == {"finished", "failed"}
ThreadPoint == {"none", "say_final"} \cup Live \cup Dead

\* The event loop is idle, inside pool.stop (after its locked check), or asleep
\* in the middle of UPDATE_SCENARIO.  "then" is what follows the stop.
LoopState == [at : {"idle", "sleep", "stop_event", "stop_state", "stop_notify"},
              ctx : Contexts \cup {NoContext},
              scenario : Scenarios,
              then : {"idle", "sleep"}]

Idle == [at |-> "idle", ctx |-> NoContext, scenario |-> AnyScenario, then |-> "idle"]
Sleeping(s) == [at |-> "sleep", ctx |-> NoContext, scenario |-> s, then |-> "idle"]

\* Handlers run to their next await, so other loop tasks run only here.
LoopFree == loop.at \in {"idle", "sleep"}

Init ==
    /\ scenarios = [s \in Scenarios |-> NoContext]
    /\ created = 0
    /\ sid = [c \in Contexts |-> AnyScenario]
    /\ state = [c \in Contexts |-> "starting"]
    /\ stop_event = [c \in Contexts |-> FALSE]
    /\ thread = [c \in Contexts |-> "none"]
    /\ loop = Idle
    /\ status_queue = [s \in Scenarios |-> <<>>]
    /\ reported = [s \in Scenarios |-> "none"]

-----------------------------------------------------------------------------
(* Helpers *)

\* _notify_status_change -> _on_status_change: enqueue the state the context
\* has now, whoever wrote it last.
Notify(c) ==
    status_queue' = [status_queue EXCEPT ![sid[c]] = Append(@, state[c])]

IsActive(s) == scenarios[s] # NoContext /\ state[scenarios[s]] \in Active

\* OrchestratorPool.running_scenarios, what a heartbeat lists.
running_scenarios == {s \in Scenarios : IsActive(s)}

\* The body of pool.start once the scenario is known not to be active: the old
\* context, if any, is dropped from the dictionary and a new one takes its
\* place.  thread.start() may fail; the context then stays without a thread.
NewContext(s) ==
    /\ created < MaxContexts
    /\ created' = created + 1
    /\ scenarios' = [scenarios EXCEPT ![s] = created + 1]
    /\ sid' = [sid EXCEPT ![created + 1] = s]
    /\ \E t \in {"spawned", "failed"} : thread' = [thread EXCEPT ![created + 1] = t]
    /\ UNCHANGED <<state, stop_event>>

-----------------------------------------------------------------------------
(* Command handlers, on the event loop *)

\* Mutant: the guard of pool.start forgets STARTING.
StartScenario_RunningOnly(s) ==
    /\ loop.at = "idle"
    /\ scenarios[s] # NoContext => state[scenarios[s]] # "running"
    /\ NewContext(s)
    /\ UNCHANGED <<loop, status_queue, reported>>

\* START_SCENARIO for a scenario that is not active.
StartScenario(s) ==
    /\ loop.at = "idle"
    /\ ~IsActive(s)
    /\ NewContext(s)
    /\ UNCHANGED <<loop, status_queue, reported>>

\* START_SCENARIO for an active one: pool.start returns False and the handler
\* sends STATUS "error" straight to the server.
StartRefused(s) ==
    /\ loop.at = "idle"
    /\ IsActive(s)
    /\ reported' = [reported EXCEPT ![s] = "error"]
    /\ UNCHANGED <<scenarios, created, ctxVars, loop, status_queue>>

\* The locked check at the head of pool.stop, for STOP_SCENARIO (then = "idle")
\* and UPDATE_SCENARIO (then = "sleep").  An inactive scenario is not stopped:
\* STOP_SCENARIO answers with an ERROR message, UPDATE_SCENARIO goes on.
StopCheck(s, then) ==
    /\ loop.at = "idle"
    /\ ~Backlog(s)
    /\ \/ /\ IsActive(s)
          /\ loop' = [at |-> "stop_event", ctx |-> scenarios[s], scenario |-> s, then |-> then]
       \/ /\ ~IsActive(s)
          /\ then = "sleep"
          /\ loop' = Sleeping(s)
    /\ UNCHANGED <<scenarios, created, ctxVars, status_queue, reported>>

StopScenario(s) == StopCheck(s, "idle")

\* UPDATE_SCENARIO: stop, sleep, start with the new definition.
UpdateScenario(s) == StopCheck(s, "sleep")

\* ctx.stop_event.set()
StopSetEvent ==
    /\ loop.at = "stop_event"
    /\ stop_event' = [stop_event EXCEPT ![loop.ctx] = TRUE]
    /\ loop' = [loop EXCEPT !.at = "stop_state"]
    /\ UNCHANGED <<scenarios, created, sid, state, thread, status_queue, reported>>

\* ctx.status.state = STOPPING
StopSetState ==
    /\ loop.at = "stop_state"
    /\ state' = [state EXCEPT ![loop.ctx] = "stopping"]
    /\ loop' = [loop EXCEPT !.at = "stop_notify"]
    /\ UNCHANGED <<scenarios, created, sid, stop_event, thread, status_queue, reported>>

\* self._notify_status_change(ctx); pool.stop returns True
StopNotify ==
    /\ loop.at = "stop_notify"
    /\ Notify(loop.ctx)
    /\ loop' = IF loop.then = "sleep" THEN Sleeping(loop.scenario) ELSE Idle
    /\ UNCHANGED <<scenarios, created, ctxVars, reported>>

\* UPDATE_SCENARIO after its 0.5 s sleep: pool.start, whose result is ignored.
UpdateStart ==
    /\ loop.at = "sleep"
    /\ loop' = Idle
    /\ \/ ~IsActive(loop.scenario) /\ NewContext(loop.scenario)
       \/ IsActive(loop.scenario) /\ UNCHANGED <<scenarios, created, ctxVars>>
    /\ UNCHANGED <<status_queue, reported>>

-----------------------------------------------------------------------------
(* Background tasks, on the event loop *)

\* A context the pool still calls running although its thread is gone.
Unhealthy(s) == IsActive(s) /\ thread[scenarios[s]] \in Dead

\* Mutant: the health check looks at RUNNING scenarios only.
CheckThreadHealth_RunningOnly ==
    /\ LoopFree
    /\ \E s \in Scenarios : Unhealthy(s) /\ state[scenarios[s]] = "running"
    /\ state' = [c \in Contexts |->
                    IF \E s \in Scenarios : Unhealthy(s) /\ scenarios[s] = c /\ state[c] = "running"
                    THEN "error" ELSE state[c]]
    /\ UNCHANGED <<scenarios, created, sid, stop_event, thread, loop, status_queue, reported>>

\* Mutant: the health check invents a state the protocol does not have.
CheckThreadHealth_Unhealthy ==
    /\ LoopFree
    /\ state' = [c \in Contexts |->
                    IF \E s \in Scenarios : Unhealthy(s) /\ scenarios[s] = c
                    THEN "unhealthy" ELSE state[c]]
    /\ UNCHANGED <<scenarios, created, sid, stop_event, thread, loop, status_queue, reported>>

\* check_thread_health, every 15 s.
CheckThreadHealth ==
    /\ LoopFree
    /\ \E s \in Scenarios : Unhealthy(s)
    /\ \A s \in Scenarios : ~Backlog(s)
    /\ state' = [c \in Contexts |->
                    IF \E s \in Scenarios : Unhealthy(s) /\ scenarios[s] = c
                    THEN "error" ELSE state[c]]
    /\ status_queue' = [s \in Scenarios |->
                          IF Unhealthy(s) THEN Append(status_queue[s], "error")
                          ELSE status_queue[s]]
    /\ UNCHANGED <<scenarios, created, sid, stop_event, thread, loop, reported>>

\* _status_reporter: send the next queued change.
ReportChange(s) ==
    /\ LoopFree
    /\ status_queue[s] # <<>>
    /\ reported' = [reported EXCEPT ![s] = Head(status_queue[s])]
    /\ status_queue' = [status_queue EXCEPT ![s] = Tail(@)]
    /\ UNCHANGED <<scenarios, created, ctxVars, loop>>

\* _status_reporter: nothing was queued for a whole interval, so report every
\* active scenario.
ReportPeriodic ==
    /\ LoopFree
    /\ \A s \in Scenarios : status_queue[s] = <<>>
    /\ reported' = [s \in Scenarios |->
                      IF IsActive(s) THEN state[scenarios[s]] ELSE reported[s]]
    /\ UNCHANGED <<scenarios, created, ctxVars, loop, status_queue>>

-----------------------------------------------------------------------------
(* _run_scenario, on the scenario's own thread *)

\* Mutant: the thread clears its stop event when it begins.
ThreadBegin_ClearsEvent(c) ==
    /\ thread[c] = "spawned"
    /\ state' = [state EXCEPT ![c] = "starting"]
    /\ stop_event' = [stop_event EXCEPT ![c] = FALSE]
    /\ thread' = [thread EXCEPT ![c] = "say_starting"]
    /\ UNCHANGED <<scenarios, created, sid, loop, status_queue, reported>>

ThreadBegin(c) ==
    /\ thread[c] = "spawned"
    /\ state' = [state EXCEPT ![c] = "starting"]
    /\ thread' = [thread EXCEPT ![c] = "say_starting"]
    /\ UNCHANGED <<scenarios, created, sid, stop_event, loop, status_queue, reported>>

\* The two notifications on the way to orchestrator.run.
ThreadNotify(c) ==
    /\ ~Backlog(sid[c])
    /\ \/ thread[c] = "say_starting" /\ thread' = [thread EXCEPT ![c] = "build"]
       \/ thread[c] = "say_running" /\ thread' = [thread EXCEPT ![c] = "run"]
    /\ Notify(c)
    /\ UNCHANGED <<scenarios, created, sid, state, stop_event, loop, reported>>

\* Parse the definition and build the orchestrator; a failure (no flows, missing
\* engines) ends in one of the except clauses.
ThreadBuild(c) ==
    /\ thread[c] = "build"
    /\ \/ /\ state' = [state EXCEPT ![c] = "running"]
          /\ thread' = [thread EXCEPT ![c] = "say_running"]
       \/ /\ state' = [state EXCEPT ![c] = "error"]
          /\ thread' = [thread EXCEPT ![c] = "say_final"]
    /\ UNCHANGED <<scenarios, created, sid, stop_event, loop, status_queue, reported>>

\* Mutant: the final state is not written.
ThreadStops_NoFinalState(c) ==
    /\ thread[c] = "run"
    /\ stop_event[c]
    /\ thread' = [thread EXCEPT ![c] = "say_final"]
    /\ UNCHANGED <<scenarios, created, sid, state, stop_event, loop, status_queue, reported>>

\* orchestrator.run sees the stop event, plays the shutdown sequences, returns.
ThreadStops(c) ==
    /\ thread[c] = "run"
    /\ stop_event[c]
    /\ state' = [state EXCEPT ![c] = "stopped"]
    /\ thread' = [thread EXCEPT ![c] = "say_final"]
    /\ UNCHANGED <<scenarios, created, sid, stop_event, loop, status_queue, reported>>

\* orchestrator.run gives up by itself (it catches its own exceptions and returns
\* a result, so the scenario ends "stopped") or raises out of its clean-up.
ThreadFails(c) ==
    /\ thread[c] = "run"
    /\ \E final \in {"stopped", "error"} : state' = [state EXCEPT ![c] = final]
    /\ thread' = [thread EXCEPT ![c] = "say_final"]
    /\ UNCHANGED <<scenarios, created, sid, stop_event, loop, status_queue, reported>>

\* Mutant: the thread ends without its last notification.
ThreadEnds_Silent(c) ==
    /\ thread[c] = "say_final"
    /\ thread' = [thread EXCEPT ![c] = "finished"]
    /\ UNCHANGED <<scenarios, created, sid, state, stop_event, loop, status_queue, reported>>

\* The last notification; the thread ends.
ThreadEnds(c) ==
    /\ thread[c] = "say_final"
    /\ ~Backlog(sid[c])
    /\ Notify(c)
    /\ thread' = [thread EXCEPT ![c] = "finished"]
    /\ UNCHANGED <<scenarios, created, sid, state, stop_event, loop, reported>>

-----------------------------------------------------------------------------

Command ==
    \/ \E s \in Scenarios : \/ StartScenario(s)
                            \/ StartRefused(s)
                            \/ StopScenario(s)
                            \/ UpdateScenario(s)
    \/ StopSetEvent
    \/ StopSetState
    \/ StopNotify
    \/ UpdateStart

Background ==
    \/ CheckThreadHealth
    \/ \E s \in Scenarios : ReportChange(s)
    \/ ReportPeriodic

ScenarioThread(c) ==
    \/ ThreadBegin(c)
    \/ ThreadNotify(c)
    \/ ThreadBuild(c)
    \/ ThreadStops(c)
    \/ ThreadFails(c)
    \/ ThreadEnds(c)

Next == Command \/ Background \/ \E c \in Contexts : ScenarioThread(c)

Spec == Init /\ [][Next]_vars

\* The interpreter schedules every runnable thread, and the event loop finishes
\* the handler it is in and keeps running its background tasks.  Commands come
\* when they come, and a running scenario is never obliged to fail.
Fairness ==
    /\ WF_vars(StopSetEvent \/ StopSetState \/ StopNotify)
    /\ WF_vars(CheckThreadHealth)
    /\ \A s \in Scenarios : WF_vars(ReportChange(s))
    /\ \A c \in Contexts :
          WF_vars(ThreadBegin(c) \/ ThreadNotify(c) \/ ThreadBuild(c) \/ ThreadStops(c) \/ ThreadEnds(c))

FairSpec == Spec /\ Fairness

-----------------------------------------------------------------------------
(* Properties *)

TypeOK ==
    /\ scenarios \in [Scenarios -> Contexts \cup {NoContext}]
    /\ created \in 0..MaxContexts
    /\ sid \in [Contexts -> Scenarios]
    /\ state \in [Contexts -> ScenarioState]
    /\ stop_event \in [Contexts -> BOOLEAN]
    /\ thread \in [Contexts -> ThreadPoint]
    /\ loop \in LoopState
    /\ status_queue \in [Scenarios -> Seq(ScenarioState)]
    /\ reported \in [Scenarios -> ScenarioState \cup {"none"}]

\* pool.start replaces a context that is not active, so a thread can outlive its
\* entry in the dictionary, where no STOP_SCENARIO can find it any more.  Every
\* such thread has already been told to stop: no generator is ever left running
\* out of reach.
NoOrphanGenerator ==
    \A c \in Contexts :
        thread[c] \in Live /\ scenarios[sid[c]] # c => stop_event[c]

\* A heartbeat never lists a scenario whose thread has run to its end, however
\* stop and the thread's own last writes interleave; so the server never revives
\* a row for traffic that is gone.
FinishedNotListed ==
    \A s \in running_scenarios : thread[scenarios[s]] # "finished"

\* What makes the two properties above inductive: the dictionary maps an id to a
\* context of that id; a context not created yet is untouched; STOPPING is only
\* written after the event; a final state is only written by a thread on its way
\* out, and from then on no active state comes back.
ContextInv ==
    /\ \A s \in Scenarios : scenarios[s] # NoContext =>
          scenarios[s] <= created /\ sid[scenarios[s]] = s
    /\ \A c \in Contexts : c > created =>
          thread[c] = "none" /\ state[c] = "starting" /\ ~stop_event[c]
    /\ \A c \in Contexts : state[c] = "stopping" => stop_event[c]
    /\ \A c \in Contexts : state[c] \in {"stopped", "error"} => thread[c] \in {"say_final"} \cup Dead
    /\ \A c \in Contexts : thread[c] \in {"say_final", "finished"} => state[c] \notin Active
    /\ ~LoopFree => loop.ctx \in Contexts /\ loop.ctx <= created
    /\ loop.at \in {"stop_state", "stop_notify"} => stop_event[loop.ctx]

\* Once every context of a scenario is over and nothing is left to report, the
\* server's last word on it is not "starting" or "running".
QuietReport ==
    \A s \in Scenarios :
        /\ \A c \in Contexts : sid[c] = s /\ c <= created => thread[c] \in Dead /\ state[c] \notin Active
        /\ status_queue[s] = <<>>
        /\ LoopFree
        => reported[s] \notin Active

\* A stop signal is never lost: a thread that was told to stop ends, even when it
\* was still starting and overwrote STOPPING with STARTING or RUNNING.
StopIsHonoured ==
    \A c \in Contexts : stop_event[c] ~> thread[c] \in Dead

\* A context whose thread is gone does not stay listed as running.
DeadIsUnlisted ==
    \A s \in Scenarios : []<>~Unhealthy(s)
=============================================================================
