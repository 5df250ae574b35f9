------------------------------ MODULE AgentUpdate ------------------------------
(***************************************************************************)
(* The update of a supervised traffic agent: the backend's tracker         *)
(* (services/agent_manager.py, the update route of api/routes/agents.py),  *)
(* the agent that relays (packetarch-agent/app/main.py), the supervisor    *)
(* that swaps the container (supervisor.py), and the three files they      *)
(* share (agent_state.py).                                                 *)
(*                                                                         *)
(* One agent is modelled, for agents share nothing here.  The host starts  *)
(* on image "old"; the backend serves one image, the same, one that works  *)
(* ("good") or one that never connects ("bad"), whose version is the       *)
(* target of an update.  Messages, progress and clock values are left out: *)
(* of a time stamp only what a comparison with it yields is kept.          *)
(***************************************************************************)
EXTENDS Naturals, Sequences

CONSTANTS
    FaultModels,    \* sets of faults; a behaviour is exposed to one of them
    MaxUpdates,     \* bound: updates the user asks for
    MaxDrops,       \* bound: lost connections, restarts of the backend, agent or supervisor
    MaxLink         \* bound: messages in flight beyond which the agent's timers wait

ASSUME UpdateAssumption ==
    /\ FaultModels \subseteq
           SUBSET {"drop", "agent_restart", "backend_restart", "supervisor_restart",
                   "state_dir", "checksum", "inspect", "load", "spawn", "compose", "rollback"}
    /\ MaxUpdates \in Nat /\ MaxDrops \in Nat /\ MaxLink \in Nat

VARIABLES
    faults,     \* what may go wrong
    served,     \* the image the backend serves
    \* backend
    tracker,    \* _update_statuses: status "idle" where there is no entry
    request,    \* the HTTP request that triggers an update
    version,    \* conn.version: the image the last heartbeat of the connection told of
    \* the connection
    linked,     \* the agent is connected
    up, down,   \* messages to and from the backend
    \* the agent's process
    relay,      \* _relay_supervisor_status: its place, and last_key as "none", "other" or "current"
    \* the shared volume
    todo,       \* update-request.json is there
    status,     \* update-status.json, and whether it is older than two minutes
    online,     \* agent-online.json: the image, and whether it is newer than swap_ts
    \* the supervisor and docker
    supervisor,
    tag,        \* what packetarch-agent:latest names
    container,  \* the image the agent's container runs, "none" if there is no container
    \* history and bounds
    abandoned,  \* a working image was given up as too slow
    updates, drops

backend == <<tracker, request, version>>
link == <<linked, up, down>>
files == <<todo, status, online>>
host == <<supervisor, tag, container>>
bounds == <<updates, drops>>
fixed == <<faults, served>>
vars == <<fixed, backend, link, relay, files, host, abandoned, bounds>>

Images == {"old", "good", "bad"}
Working == {"old", "good"}      \* the images that connect to the backend
InFlight == {"initiated", "queued", "downloading", "loading", "swapping"}
Terminal == {"complete", "failed"}

NoUpdate == [status |-> "idle", target |-> "none", initiated |-> "none"]
NoStatus == [is |-> "none", aged |-> FALSE]
NewProcess == [at |-> "sleep", last |-> "none"]

Init ==
    /\ faults \in FaultModels
    /\ served \in Images
    /\ tracker = NoUpdate
    /\ request = "idle"
    /\ version = "none"
    /\ linked = FALSE /\ up = <<>> /\ down = <<>>
    /\ relay = NewProcess
    /\ todo = FALSE
    /\ status = NoStatus
    /\ online = [image |-> "none", fresh |-> FALSE]
    /\ supervisor = [at |-> "poll", old |-> "none"]
    /\ tag = "old" /\ container = "old"
    /\ abandoned = FALSE
    /\ updates = 0 /\ drops = 0

-----------------------------------------------------------------------------
(* The backend *)

\* POST /agents/{id}/update: refused while an update is in flight or the agent
\* reports the target version already ...
TriggerUpdate ==
    /\ request = "idle"
    /\ updates < MaxUpdates
    /\ linked
    /\ tracker.status \notin InFlight
    /\ version # served
    /\ request' = "initiate"
    /\ updates' = updates + 1
    /\ UNCHANGED <<fixed, tracker, version, link, relay, files, host, abandoned, drops>>

\* ... send_update_command replaces the entry ...
Initiate ==
    /\ request = "initiate"
    /\ tracker' = [status |-> "initiated", target |-> served, initiated |-> "recent"]
    /\ request' = "send"
    /\ UNCHANGED <<fixed, version, link, relay, files, host, abandoned, bounds>>

\* ... and sends UPDATE_AGENT; to a dead socket that may fail or go unnoticed.
SendUpdate ==
    /\ request = "send"
    /\ request' = "idle"
    /\ \/ /\ down' = IF linked THEN Append(down, "UPDATE_AGENT") ELSE down
          /\ tracker' = tracker
       \/ /\ ~linked
          /\ tracker' = IF tracker.status = "idle" THEN tracker ELSE [tracker EXCEPT !.status = "failed"]
          /\ down' = down
    /\ UNCHANGED <<fixed, version, linked, up, relay, files, host, abandoned, bounds>>

\* UPDATE_STATUS: the entry takes whatever the agent relays; it is created if the
\* backend has none, without a target and without a time.
HandleUpdateStatus ==
    /\ up # <<>>
    /\ Head(up).type = "UPDATE_STATUS"
    /\ up' = Tail(up)
    /\ tracker' = [tracker EXCEPT !.status = Head(up).status]
    /\ UNCHANGED <<fixed, request, version, linked, down, relay, files, host, abandoned, bounds>>

\* Mutant: a heartbeat of any version confirms the update.
Confirms_AnyVersion(i) == tracker.status \in InFlight

\* A heartbeat of image i confirms an update in flight.
Confirms(i) ==
    /\ tracker.status \in InFlight
    /\ tracker.target \in {i, "none"}

ReconcileUpdateOnHeartbeat ==
    /\ up # <<>>
    /\ Head(up).type = "HEARTBEAT"
    /\ up' = Tail(up)
    /\ tracker' = IF Confirms(Head(up).image) THEN [tracker EXCEPT !.status = "complete"] ELSE tracker
    /\ version' = IF linked THEN Head(up).image ELSE version
    /\ UNCHANGED <<fixed, request, linked, down, relay, files, host, abandoned, bounds>>

\* Mutant: only an update that hangs in the swap expires.
ExpireStaleUpdates_SwapOnly ==
    /\ tracker.status = "swapping"
    /\ tracker.initiated = "overdue"
    /\ tracker' = [tracker EXCEPT !.status = "failed"]
    /\ UNCHANGED <<fixed, request, version, link, relay, files, host, abandoned, bounds>>

\* The reaper: an update in flight fails once its deadline has passed.  An entry
\* without a time is as old as "now".
ExpireStaleUpdates ==
    /\ tracker.status \in InFlight
    /\ tracker.initiated = "overdue"
    /\ tracker' = [tracker EXCEPT !.status = "failed"]
    /\ UNCHANGED <<fixed, request, version, link, relay, files, host, abandoned, bounds>>

\* DELETE /agents/{id}/update-status, or a new token: the entry goes, whatever it
\* says by then.
ClearUpdateStatus ==
    /\ tracker # NoUpdate
    /\ tracker' = NoUpdate
    /\ UNCHANGED <<fixed, request, version, link, relay, files, host, abandoned, bounds>>

DeadlinePasses ==
    /\ tracker.initiated = "recent"
    /\ tracker' = [tracker EXCEPT !.initiated = "overdue"]
    /\ UNCHANGED <<fixed, request, version, link, relay, files, host, abandoned, bounds>>

BackendRestart ==
    /\ "backend_restart" \in faults
    /\ drops < MaxDrops
    /\ drops' = drops + 1
    /\ tracker' = NoUpdate
    /\ request' = "idle"
    /\ version' = "none"
    /\ linked' = FALSE /\ up' = <<>> /\ down' = <<>>
    /\ UNCHANGED <<fixed, relay, files, host, abandoned, updates>>

-----------------------------------------------------------------------------
(* The agent *)

\* The connection is lost, with what is on its way to the agent and perhaps the last
\* messages to the backend; the backend still reads the others.
Cut ==
    /\ linked' = FALSE /\ down' = <<>>
    /\ \E n \in 0..Len(up) : up' = SubSeq(up, 1, n)

\* A new connection; the backend answers with CONNECTED.
AgentConnect ==
    /\ ~linked
    /\ container \in Working
    /\ linked' = TRUE
    /\ version' = "none"
    /\ down' = <<"CONNECTED">>
    /\ UNCHANGED <<fixed, tracker, request, up, relay, files, host, abandoned, bounds>>

\* The files cannot be written, and the one who tries is told by an exception.
Unwritable == "state_dir" \in faults

\* CONNECTED: the supervisor is told, if the file can be written.
OnWsConnect ==
    /\ linked /\ down # <<>>
    /\ Head(down) = "CONNECTED"
    /\ down' = Tail(down)
    /\ \/ online' = [image |-> container, fresh |-> TRUE]
       \/ Unwritable /\ online' = online
    /\ UNCHANGED <<fixed, backend, linked, up, relay, todo, status, host, abandoned, bounds>>

\* Room for what the agent's timers send.
Quiet == Len(up) < MaxLink

\* last_key no longer matches the file.
Renewed(r) == IF r.last = "current" THEN [r EXCEPT !.last = "other"] ELSE r

\* UPDATE_AGENT: the last outcome is dropped, the request written, and "queued"
\* reported.
HandleUpdateAgent ==
    /\ linked /\ down # <<>>
    /\ Head(down) = "UPDATE_AGENT"
    /\ down' = Tail(down)
    /\ status' = NoStatus
    /\ relay' = Renewed(relay)
    /\ todo' = TRUE
    /\ up' = Append(up, [type |-> "UPDATE_STATUS", status |-> "queued"])
    /\ UNCHANGED <<fixed, backend, linked, online, host, abandoned, bounds>>

\* The request cannot be written.
HandleUpdateAgentFails ==
    /\ Unwritable
    /\ linked /\ down # <<>>
    /\ Head(down) = "UPDATE_AGENT"
    /\ down' = Tail(down)
    /\ status' \in {status, NoStatus}
    /\ relay' = IF status' = status THEN relay ELSE Renewed(relay)
    /\ up' = Append(up, [type |-> "UPDATE_STATUS", status |-> "failed"])
    /\ UNCHANGED <<fixed, backend, linked, todo, online, host, abandoned, bounds>>

\* Mutant: the relay does not ask whether there is a status to report.
RelaySupervisorStatus_NoCheck ==
    /\ container # "none"
    /\ relay.at = "sleep" /\ relay.last # "current"
    /\ Quiet
    /\ relay' = [relay EXCEPT !.last = "current"]
    /\ up' = IF linked THEN Append(up, [type |-> "UPDATE_STATUS", status |-> status.is]) ELSE up
    /\ UNCHANGED <<fixed, backend, linked, down, files, host, abandoned, bounds>>

\* The relay notes a change of the file and reports it if it is connected; a
\* terminal state is then to be removed.  The first thing a process sees is
\* skipped if it is an old outcome.
RelaySupervisorStatus ==
    LET skip == relay.last = "none" /\ status.is \in Terminal /\ status.aged
    IN  /\ container # "none"
        /\ relay.at = "sleep"
        /\ status.is # "none"
        /\ relay.last # "current"
        /\ ~skip
        /\ Quiet
        /\ relay' = [at |-> IF linked /\ status.is \in Terminal THEN "clear" ELSE "sleep",
                     last |-> "current"]
        /\ up' = IF linked THEN Append(up, [type |-> "UPDATE_STATUS", status |-> status.is]) ELSE up
        /\ UNCHANGED <<fixed, backend, linked, down, files, host, abandoned, bounds>>

RelayClears ==
    /\ relay.at = "clear"
    /\ \/ relay' = [Renewed(relay) EXCEPT !.at = "sleep"] /\ status' = NoStatus
       \/ Unwritable /\ relay' = [relay EXCEPT !.at = "sleep"] /\ status' = status
    /\ UNCHANGED <<fixed, backend, link, todo, online, host, abandoned, bounds>>

AgentHeartbeat ==
    /\ linked
    /\ Quiet
    /\ up' = Append(up, [type |-> "HEARTBEAT", image |-> container])
    /\ UNCHANGED <<fixed, backend, linked, down, relay, files, host, abandoned, bounds>>

AgentDrop ==
    /\ "drop" \in faults
    /\ linked /\ drops < MaxDrops
    /\ drops' = drops + 1
    /\ Cut
    /\ UNCHANGED <<fixed, backend, relay, files, host, abandoned, updates>>

\* The agent's container runs image i from now on, in a new process.
Recreate(i) == container' = i /\ Cut

AgentRestart ==
    /\ "agent_restart" \in faults
    /\ container # "none" /\ drops < MaxDrops
    /\ drops' = drops + 1
    /\ Recreate(container)
    /\ relay' = NewProcess
    /\ UNCHANGED <<fixed, backend, files, supervisor, tag, abandoned, updates>>

-----------------------------------------------------------------------------
(* The supervisor *)

At(p) == supervisor' = [supervisor EXCEPT !.at = p]

\* update-status.json is replaced, so the relay r has something new to see.
Write(s, r) == status' = [is |-> s, aged |-> FALSE] /\ relay' = Renewed(r)

\* The catch-all of main: the request is over, with a "failed" if that can be written.
CatchAll(r) ==
    /\ At("poll")
    /\ Write("failed", r) \/ (Unwritable /\ status' = status /\ relay' = r)

\* _status(s), and on to q.  Where the file cannot be written it raises, and what the
\* handler had still to do is skipped.
Publish(s, q, r) ==
    \/ At(q) /\ Write(s, r)
    \/ Unwritable /\ CatchAll(r)

\* The next step of the supervisor, at p, which publishes s and leaves docker alone.
Step(p, q, s) ==
    /\ supervisor.at = p
    /\ Publish(s, q, relay)
    /\ UNCHANGED <<fixed, backend, link, todo, online, tag, container, bounds>>

\* The request is read ...
ReadRequest ==
    /\ supervisor.at = "poll"
    /\ todo
    /\ At("request")
    /\ UNCHANGED <<fixed, backend, link, relay, files, tag, container, abandoned, bounds>>

\* ... and removed, before it is handled ...
ClearRequest ==
    /\ supervisor.at = "request"
    /\ todo' = FALSE
    /\ At("handle")
    /\ UNCHANGED <<fixed, backend, link, relay, status, online, tag, container, abandoned, bounds>>

\* (if it cannot be removed it is read again) ...
ClearRequestFails ==
    /\ Unwritable
    /\ supervisor.at = "request"
    /\ CatchAll(relay)
    /\ UNCHANGED <<fixed, backend, link, todo, online, tag, container, abandoned, bounds>>

\* ... the image to go back to is the one :latest names before the load; docker may
\* fail to tell.
HandleRequest ==
    /\ supervisor.at = "handle"
    /\ \/ /\ \E old \in {tag} \cup (IF "inspect" \in faults THEN {"none"} ELSE {}) :
                supervisor' = [at |-> "download", old |-> old]
          /\ Write("downloading", relay)
       \/ Unwritable /\ CatchAll(relay)
    /\ UNCHANGED <<fixed, backend, link, todo, online, tag, container, abandoned, bounds>>

Download == Step("download", "load", "loading") /\ UNCHANGED abandoned

DownloadFails == "checksum" \in faults /\ Step("download", "poll", "failed") /\ UNCHANGED abandoned

\* Mutant: the agent is recreated as soon as the image is there.
Load_Recreates ==
    /\ supervisor.at = "load"
    /\ tag' = served
    /\ Recreate(served) /\ relay' = NewProcess
    /\ At("compare")
    /\ UNCHANGED <<fixed, backend, files, abandoned, bounds>>

\* docker load re-points :latest.
Load ==
    /\ supervisor.at = "load"
    /\ tag' = served
    /\ At("compare")
    /\ UNCHANGED <<fixed, backend, link, relay, files, container, abandoned, bounds>>

\* The client gives up on a load, which docker may finish all the same.
LoadFails ==
    /\ "load" \in faults
    /\ supervisor.at = "load"
    /\ tag' \in {tag, served}
    /\ CatchAll(relay)
    /\ UNCHANGED <<fixed, backend, link, todo, online, container, abandoned, bounds>>

\* The tarball held no image: the handler returns without a word.
LoadEmpty ==
    /\ "load" \in faults
    /\ supervisor.at = "load"
    /\ At("poll")
    /\ UNCHANGED <<fixed, backend, link, relay, files, tag, container, abandoned, bounds>>

AlreadyCurrent == supervisor.old = tag /\ Step("compare", "poll", "complete") /\ UNCHANGED abandoned

\* The time of the swap is taken: what agent-online says is old from now on.
BeginSwap ==
    /\ supervisor.at = "compare"
    /\ supervisor.old # tag
    /\ Publish("swapping", "recreate", relay)
    /\ online' = [online EXCEPT !.fresh = FALSE]
    /\ UNCHANGED <<fixed, backend, link, todo, tag, container, abandoned, bounds>>

RecreateAgent ==
    /\ supervisor.at = "recreate"
    /\ Recreate(tag) /\ relay' = NewProcess
    /\ At("wait")
    /\ UNCHANGED <<fixed, backend, files, tag, abandoned, bounds>>

\* compose fails, before or after it has removed the old container, or times out
\* although the new one comes up.
RecreateFails ==
    /\ "compose" \in faults
    /\ supervisor.at = "recreate"
    /\ \/ \E i \in {tag, "none"} : Recreate(i) /\ Publish("failed", "rollback", NewProcess)
       \/ UNCHANGED <<link, container>> /\ Publish("failed", "rollback", relay)
    /\ abandoned' = (abandoned \/ container' \in Working)
    /\ UNCHANGED <<fixed, backend, todo, online, tag, bounds>>

\* The docker command cannot be started at all: no handler is for that exception.
RecreateRaises ==
    /\ "spawn" \in faults
    /\ supervisor.at = "recreate"
    /\ CatchAll(relay)
    /\ UNCHANGED <<fixed, backend, link, todo, online, tag, container, abandoned, bounds>>

WaitHealthy ==
    /\ online.fresh /\ online.image = served
    /\ Step("wait", "poll", "complete")
    /\ UNCHANGED abandoned

\* Mutant: the deadline is put off while the new agent is connected.
HealthTimeout_Offline ==
    /\ ~linked
    /\ Step("wait", "rollback", "failed")
    /\ abandoned' = (abandoned \/ container \in Working)

\* The deadline passes; an agent that connects in the last seconds before it is given
\* up all the same.
HealthTimeout ==
    /\ Step("wait", "rollback", "failed")
    /\ abandoned' = (abandoned \/ container \in Working)

RollbackUnavailable ==
    /\ supervisor.at = "rollback"
    /\ supervisor.old = "none"
    /\ At("poll")
    /\ UNCHANGED <<fixed, backend, link, relay, files, tag, container, abandoned, bounds>>

\* Mutant: the agent is recreated before the old image is tagged again.
RollbackTag_NoTag ==
    /\ supervisor.at = "rollback"
    /\ supervisor.old # "none"
    /\ At("restore")
    /\ UNCHANGED <<fixed, backend, link, relay, files, tag, container, abandoned, bounds>>

\* The old image is tagged again ...
RollbackTag ==
    /\ supervisor.at = "rollback"
    /\ supervisor.old # "none"
    /\ tag' = supervisor.old
    /\ At("restore")
    /\ UNCHANGED <<fixed, backend, link, relay, files, container, abandoned, bounds>>

\* ... and the agent recreated on it.
RollbackRecreate ==
    /\ supervisor.at = "restore"
    /\ Recreate(tag)
    /\ CatchAll(NewProcess)
    /\ UNCHANGED <<fixed, backend, todo, online, tag, abandoned, bounds>>

\* An exception of the rollback is only logged.
RollbackFails ==
    /\ "rollback" \in faults
    /\ \/ supervisor.at = "restore" /\ Recreate("none") /\ relay' = NewProcess
       \/ /\ supervisor.at \in {"rollback", "restore"}
          /\ supervisor.old # "none"
          /\ UNCHANGED <<link, relay, container>>
    /\ At("poll")
    /\ UNCHANGED <<fixed, backend, files, tag, abandoned, bounds>>

\* The supervisor starts again and ensures that the agent is up, on :latest.
BootReconcile ==
    /\ "supervisor_restart" \in faults
    /\ drops < MaxDrops
    /\ drops' = drops + 1
    /\ supervisor' = [at |-> "poll", old |-> "none"]
    /\ \/ container # tag /\ Recreate(tag) /\ relay' = NewProcess
       \/ (container = tag \/ "compose" \in faults) /\ UNCHANGED <<link, relay, container>>
    /\ UNCHANGED <<fixed, backend, files, tag, abandoned, updates>>

\* Two minutes are many turns of a relay that runs.
StatusAges ==
    /\ status.is # "none" /\ ~status.aged
    /\ relay.last = "current" \/ container = "none"
    /\ status' = [status EXCEPT !.aged = TRUE]
    /\ UNCHANGED <<fixed, backend, link, relay, todo, online, host, abandoned, bounds>>

Backend == Initiate \/ SendUpdate \/ HandleUpdateStatus \/ ReconcileUpdateOnHeartbeat
AgentProcess == OnWsConnect \/ HandleUpdateAgent \/ HandleUpdateAgentFails \/ RelaySupervisorStatus \/ RelayClears
Supervisor ==
    \/ ReadRequest \/ ClearRequest \/ ClearRequestFails \/ HandleRequest \/ Download \/ DownloadFails
    \/ Load \/ LoadFails \/ LoadEmpty \/ AlreadyCurrent \/ BeginSwap \/ RecreateAgent \/ RecreateFails \/ RecreateRaises
    \/ WaitHealthy \/ HealthTimeout \/ RollbackUnavailable \/ RollbackTag
    \/ RollbackRecreate \/ RollbackFails

Next ==
    \/ TriggerUpdate \/ ClearUpdateStatus
    \/ Backend \/ ExpireStaleUpdates \/ DeadlinePasses \/ BackendRestart
    \/ AgentConnect \/ AgentProcess \/ AgentHeartbeat \/ AgentDrop \/ AgentRestart
    \/ Supervisor \/ BootReconcile \/ StatusAges

Spec == Init /\ [][Next]_vars

\* The reaper is a loop of its own, and the clock runs.
ReaperSpec == Spec /\ WF_vars(ExpireStaleUpdates) /\ WF_vars(DeadlinePasses)

\* Besides, the backend reads its sockets, the agent's tasks and the supervisor's
\* loop go on, and the agent reconnects for ever.  The bound on the socket may
\* disable the relay again and again, which the code never does: its fairness is
\* strong.
FairSpec ==
    /\ ReaperSpec
    /\ WF_vars(Backend) /\ WF_vars(AgentConnect) /\ SF_vars(AgentProcess) /\ WF_vars(Supervisor)

-----------------------------------------------------------------------------
(* Properties *)

UpdateStatuses == InFlight \cup Terminal
Tracker == [status : UpdateStatuses \cup {"idle"}, target : Images \cup {"none"},
            initiated : {"none", "recent", "overdue"}]
Message == [type : {"UPDATE_STATUS"}, status : UpdateStatuses]
               \cup [type : {"HEARTBEAT"}, image : Images]
Relay == [at : {"sleep", "clear"}, last : {"none", "other", "current"}]
StatusFile == [is : UpdateStatuses \cup {"none"}, aged : BOOLEAN]
OnlineFile == [image : Images \cup {"none"}, fresh : BOOLEAN]
SupervisorState ==
    [at : {"poll", "request", "handle", "download", "load", "compare", "recreate", "wait",
           "rollback", "restore"},
     old : Images \cup {"none"}]

TypeOK ==
    /\ faults \in FaultModels
    /\ served \in Images
    /\ tracker \in Tracker
    /\ request \in {"idle", "initiate", "send"}
    /\ version \in Images \cup {"none"}
    /\ linked \in BOOLEAN
    /\ up \in Seq(Message)
    /\ down \in Seq({"CONNECTED", "UPDATE_AGENT"})
    /\ relay \in Relay
    /\ todo \in BOOLEAN
    /\ status \in StatusFile
    /\ online \in OnlineFile
    /\ supervisor \in SupervisorState
    /\ tag \in Images
    /\ container \in Images \cup {"none"}
    /\ abandoned \in BOOLEAN
    /\ updates \in Nat /\ drops \in Nat

\* Docker does not refuse the rollback and the supervisor lives ...
DockerWorks == faults \cap {"inspect", "load", "spawn", "rollback", "supervisor_restart"} = {}

\* ... and can write its status on the way to the rollback.
RollbackWorks == DockerWorks /\ ~Unwritable

\* "rollback-safe" (agent-supervisor-design.md): whenever the supervisor is between
\* two updates, the agent has a container, on the image :latest names, and not on
\* one that cannot connect, whenever its health deadline passed, unless docker refused
\* the rollback itself, the supervisor was killed, or it could not write its status.
NeverStranded ==
    RollbackWorks /\ supervisor.at = "poll" => container = tag /\ container # "bad"

\* What the supervisor relies on at every point of an update: the image it would go
\* back to works, is the one the container runs until the swap, and no image that
\* cannot connect has reported online.
SwapInv ==
    /\ linked => container \in Working
    /\ online.image # "bad"
    /\ RollbackWorks =>
          /\ supervisor.at \in {"poll", "request", "handle", "download", "load"}
                => container = tag /\ tag # "bad"
          /\ supervisor.at \in {"download", "load", "compare", "recreate"} => supervisor.old = container
          /\ supervisor.at \in {"compare", "recreate", "wait"} => tag = served
          /\ supervisor.at \in {"compare", "recreate", "wait", "rollback", "restore"}
                => supervisor.old \in Working
          /\ supervisor.at = "wait" => container = tag
          /\ supervisor.at = "restore" => tag = supervisor.old

\* What happens on the host is never in doubt: a working image was not given up as
\* too slow, a load that fails has not happened, statuses can be written, and compose
\* does not fail where docker or the supervisor may then fail to roll back.
HostCertain ==
    /\ ~abandoned
    /\ faults \cap {"load", "spawn"} = {} /\ ~Unwritable
    /\ "compose" \in faults => RollbackWorks

\* reconcile_update_on_heartbeat and the relay: an update the backend has the target
\* of turns "complete" only while the agent runs that target, however late the
\* heartbeat or the status that says so is read.
TrackedCompleteIsTrue ==
    [][ /\ tracker.status # "complete" /\ tracker'.status = "complete"
        /\ tracker.target # "none"
        /\ HostCertain
        => container = tracker.target ]_vars

\* "Without this, a stuck update would rot forever" (expire_stale_updates): an update
\* with a time does not stay in flight, whatever happens to agent and supervisor.
UpdateEnds ==
    (tracker.status \in InFlight /\ tracker.initiated # "none")
        ~> (tracker.status \notin InFlight \/ tracker.initiated = "none")

\* The supervisor handles one request at a time in its only loop
\* (_handle_update, _wait_healthy): whatever fails, and however connections are lost
\* and made while it waits for agent-online.json, it comes back for the next one.
SupervisorReturns == supervisor.at # "poll" ~> supervisor.at = "poll"

\* The supervisor has taken the old image's place in doubt.
Trying == supervisor.at \in {"recreate", "wait", "rollback", "restore"}

Swap == INSTANCE SafeSwap WITH
    Working <- Working,
    trusted <- RollbackWorks,
    target  <- served,
    trial   <- Trying,
    prior   <- IF Trying THEN supervisor.old ELSE "none",
    image   <- container

\* The update implements SafeSwap: through every load, swap, failed compose, missed
\* deadline and rollback, and whatever the agent and the connection do meanwhile, the
\* container changes only inside a trial, which ends with the new image confirmed or
\* the old one back.
ImplementsSafeSwap == Swap!Spec
=============================================================================
