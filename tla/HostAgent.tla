------------------------------- MODULE HostAgent -------------------------------
(***************************************************************************)
(* Local sensor labs: the routes that create and delete them               *)
(* (services/local_sensor_service.py, mimic/deploy.py), the file queue     *)
(* between backend and host agent (services/host_agent_client.py, the host *)
(* agent's state.py) and the watcher that makes the host match the specs   *)
(* on disk (watcher.py, hostops.py).                                       *)
(*                                                                         *)
(* The watcher is one thread.  It takes one step per host operation; it    *)
(* can be killed between any two of them, and what is on disk (requests,   *)
(* specs, status, composes, daemon.json) stays.  Of the contents of files  *)
(* only the device list of a cell is kept, of images whether one of a      *)
(* Center is on the host; names and results of requests are left out.      *)
(***************************************************************************)
EXTENDS Naturals, Sequences, FiniteSets

CONSTANTS
    Labs,           \* slugs of local sensor labs
    Cells,          \* slugs of Mimic cells
    Devices,        \* devices a cell can be made of
    LabOf,          \* the lab a cell is attached to
    Registry,       \* the registry of the Center a lab's sensor comes from
    Scopes,         \* a behaviour has one (see Scope)
    MaxCellRequests \* bound: requests for one cell

Items == Labs \cup Cells
Registries == {Registry[l] : l \in Labs}
Faults == {"crash", "reboot", "docker", "op", "leak", "center", "submit"}

\* The labs and cells, and the faults that may happen; bounds: the number of faults, and
\* of the requests that wait when a reconcile is asked for.
Scope == [items : SUBSET Items, faults : SUBSET Faults, maxFaults : Nat, maxRequests : Nat]

ASSUME HostAssumption ==
    /\ Labs \cap Cells = {}
    /\ LabOf \in [Cells -> Labs]
    /\ DOMAIN Registry = Labs
    /\ Scopes \subseteq Scope
    /\ MaxCellRequests \in Nat

VARIABLES
    scope,
    faults,     \* number of faults so far
    \* backend
    db,         \* rows of labs
    building,   \* labs whose row is committed and whose request is still to be queued
    asked,      \* number of requests for a cell
    \* shared volume
    queue,      \* requests/, oldest first
    specs,      \* specs/
    devs,       \* the device lists in the specs of cells
    status,     \* status/
    work,       \* work/: labs whose composes have been written
    \* host
    veth, sensor, agent,    \* labs with a veth pair, a running sensor, a running agent
    stale,      \* labs whose capture network is dead
    trusted,    \* insecure-registries of daemon.json
    loaded,     \* the ones dockerd knows of
    images,     \* registries of which a sensor image is on the host
    bridge,     \* labs whose inject side is on a hub bridge
    personas,   \* devices of cells whose containers run
    wired,      \* those that are on the bridge and run their persona
    replaced,   \* history: devices a later device list of their cell left out
    \* watcher
    w,          \* where the thread is, on which item, and the specs left to reconcile
    batch       \* requests of the last listing not yet taken

vars == <<scope, faults, db, building, asked, queue, specs, devs, status, work, veth, sensor, agent,
          stale, trusted, loaded, images, bridge, personas, wired, replaced, w, batch>>
registry == <<trusted, loaded>>
lab == <<veth, sensor, agent, stale, registry, images, work>>
cell == <<bridge, personas, wired>>
desired == <<specs, devs, replaced>>
rows == <<scope, db, building, asked>>
backend == <<rows, faults>>
loop == <<queue, batch>>

-----------------------------------------------------------------------------

None == "none"
LabStages == {"veth", "registry", "reload", "compose", "sensor", "agent", "done"}
CellStages == {"bridge", "persona", "wire"}
TearLab == {"down_sensor", "down_agent", "down_veth", "down_registry", "down_reload"}
TearCell == {"down_persona", "down_bridge"}
Actions == {"build", "teardown", "emulate", "teardown_mimic", "reconcile"}
Points == {"boot", "poll", "drain", "handle", "next", "down_spec"} \cup LabStages \cup CellStages \cup TearLab \cup TearCell
\* devices: the device list of the request, later the device that is being started.
Thread == [at : Points, item : Items \cup {None}, act : Actions \cup {None}, devices : SUBSET Devices,
           fast : BOOLEAN, todo : SUBSET Items]
Requests ==
    [action : {"build", "teardown"}, item : Labs, devices : {{}}]
        \cup [action : {"emulate", "teardown_mimic"}, item : Cells, devices : SUBSET Devices]
        \cup [action : {"reconcile"}, item : {None}, devices : {{}}]
States == {None, "provisioning", "running", "degraded", "stopped", "error"}

At(stage) == w.at = stage
Go(stage) == w' = [w EXCEPT !.at = stage]

\* The item is done: on to the next one of a reconcile, or to the next request.
Finish == w' = [w EXCEPT !.at = IF w.fast THEN "next" ELSE "drain", !.item = None, !.devices = {}]

Boot == [at |-> "boot", item |-> None, act |-> None, devices |-> {}, fast |-> FALSE, todo |-> {}]

Init ==
    /\ scope \in Scopes
    /\ faults = 0
    /\ db = [l \in Labs |-> None] /\ building = {}
    /\ asked = [c \in Cells |-> 0]
    /\ queue = <<>>
    /\ specs = {} /\ work = {} /\ devs = [c \in Cells |-> {}] /\ replaced = {}
    /\ status = [i \in Items |-> None]
    /\ veth = {} /\ sensor = {} /\ agent = {} /\ stale = {}
    /\ trusted = {} /\ loaded = {} /\ images = {}
    /\ bridge = {} /\ personas = {} /\ wired = {}
    /\ w = Boot /\ batch = 0

\* A fault of this kind may happen now.
MayFail(kind) == kind \in scope.faults /\ faults < scope.maxFaults
Fault(kind) == MayFail(kind) /\ faults' = faults + 1

-----------------------------------------------------------------------------
(* Backend *)

Submit(action, i, D) == queue' = Append(queue, [action |-> action, item |-> i, devices |-> D])

\* build_lab, up to the commit of the row; another route may come in at the awaits
\* that follow ...
BuildLab(l) ==
    /\ l \in scope.items /\ db[l] = None
    /\ db' = [db EXCEPT ![l] = "live"]
    /\ building' = building \cup {l}
    /\ UNCHANGED <<scope, faults, asked, queue, desired, status, lab, cell, w, batch>>

\* ... and the request after them: unless the row could not be read again, writing the
\* request fails, or the backend dies.
SubmitBuild(l) ==
    /\ l \in building
    /\ building' = building \ {l}
    /\ \/ Submit("build", l, {}) /\ faults' = faults
       \/ db[l] = "gone" /\ UNCHANGED <<queue, faults>>
       \/ (Fault("submit") \/ Fault("crash")) /\ queue' = queue
    /\ UNCHANGED <<scope, db, asked, desired, status, lab, cell, w, batch>>

\* teardown_lab, up to the calls to the Center; a request that cannot be written is
\* passed over ...
TeardownLab(l) ==
    /\ db[l] = "live"
    /\ db' = [db EXCEPT ![l] = "deleting"]
    /\ \/ Submit("teardown", l, {}) /\ faults' = faults
       \/ Fault("submit") /\ queue' = queue
    /\ UNCHANGED <<scope, building, asked, desired, status, lab, cell, w, batch>>

\* ... and after them: the rows go, whatever became of the request.  A backend that
\* dies in between has kept them.
DeleteLabRow(l) ==
    /\ db[l] = "deleting"
    /\ \/ db' = [db EXCEPT ![l] = "gone"] /\ faults' = faults
       \/ db' = [db EXCEPT ![l] = "live"] /\ Fault("crash")
    /\ UNCHANGED <<scope, building, asked, queue, desired, status, lab, cell, w, batch>>

\* deploy_cell and teardown_cell.  Cells have no rows: nobody looks whether there is a
\* cell of that name already, or at the lab.
Ask(c, action, D) ==
    /\ c \in scope.items /\ asked[c] < MaxCellRequests
    /\ asked' = [asked EXCEPT ![c] = @ + 1]
    /\ Submit(action, c, D)
    /\ UNCHANGED <<scope, faults, db, building, desired, status, lab, cell, w, batch>>

DeployCell(c, D) == D # {} /\ Ask(c, "emulate", D)
TeardownCell(c) == Ask(c, "teardown_mimic", {})

\* submit_reconcile: at the start of the backend, and after an agent image was built.
AskReconcile ==
    /\ Len(queue) < scope.maxRequests
    /\ \A k \in DOMAIN queue : queue[k].action # "reconcile"
    /\ Submit("reconcile", None, {})
    /\ UNCHANGED <<backend, desired, status, lab, cell, w, batch>>

-----------------------------------------------------------------------------
(* Watcher: main loop *)

\* _reconcile_all
ReconcileAll == w' = [w EXCEPT !.at = "next", !.fast = TRUE, !.todo = specs]

\* Reconcile on boot.
Start ==
    /\ At("boot")
    /\ ReconcileAll
    /\ UNCHANGED <<backend, loop, desired, status, lab, cell>>

\* list_requests, or the reconcile of every RECONCILE_INTERVAL.
Poll ==
    /\ At("poll")
    /\ IF queue # <<>>
       THEN w' = [Boot EXCEPT !.at = "drain"] /\ batch' = Len(queue)
       ELSE ReconcileAll /\ batch' = batch
    /\ UNCHANGED <<backend, queue, desired, status, lab, cell>>

\* Mutants: requests are counted that are taken already; the newest one is taken first.
Take_Recounts ==
    /\ At("drain") /\ batch > 0
    /\ w' = [Boot EXCEPT !.at = "handle", !.item = Head(queue).item, !.act = Head(queue).action, !.devices = Head(queue).devices]
    /\ queue' = Tail(queue)
    /\ UNCHANGED <<backend, batch, desired, status, lab, cell>>

Take_Newest ==
    LET r == queue[Len(queue)]
    IN  /\ At("drain") /\ batch > 0
        /\ w' = [Boot EXCEPT !.at = "handle", !.item = r.item, !.act = r.action, !.devices = r.devices]
        /\ queue' = SubSeq(queue, 1, Len(queue) - 1)
        /\ batch' = batch - 1
        /\ UNCHANGED <<backend, desired, status, lab, cell>>

\* read_request and consume_request: from here on only the thread knows of it.
Take ==
    /\ At("drain") /\ batch > 0
    /\ w' = [Boot EXCEPT !.at = "handle", !.item = Head(queue).item, !.act = Head(queue).action, !.devices = Head(queue).devices]
    /\ queue' = Tail(queue)
    /\ batch' = batch - 1
    /\ UNCHANGED <<backend, desired, status, lab, cell>>

\* The end of a round of the loop: it may be time to reconcile.
EndRound ==
    /\ At("drain") /\ batch = 0
    /\ \/ w' = [Boot EXCEPT !.at = "next", !.fast = TRUE, !.todo = specs]
       \/ w' = [Boot EXCEPT !.at = "poll"]
    /\ UNCHANGED <<backend, loop, desired, status, lab, cell>>

\* Specs are listed by name, and names of labs come before those of cells.
ReconcileNext(i) ==
    /\ At("next")
    /\ i \in w.todo
    /\ i \in Cells => w.todo \cap Labs = {}
    /\ w' = [w EXCEPT !.at = IF i \in Labs THEN "veth" ELSE "bridge", !.item = i, !.todo = @ \ {i}]
    /\ UNCHANGED <<backend, loop, desired, status, lab, cell>>

ReconcileEnds ==
    /\ At("next") /\ w.todo = {}
    /\ w' = [Boot EXCEPT !.at = IF w.act = "reconcile" THEN "drain" ELSE "poll"]
    /\ UNCHANGED <<backend, loop, desired, status, lab, cell>>

-----------------------------------------------------------------------------
(* Watcher: requests *)

\* Mutant: the spec is written when the lab is up.
HandleBuild_SpecLater ==
    /\ At("handle") /\ w.act = "build"
    /\ status' = [status EXCEPT ![w.item] = "provisioning"]
    /\ Go("veth")
    /\ UNCHANGED <<backend, loop, desired, lab, cell>>

\* build: the desired state is persisted first.
HandleBuild ==
    /\ At("handle") /\ w.act = "build"
    /\ specs' = specs \cup {w.item}
    /\ status' = [status EXCEPT ![w.item] = "provisioning"]
    /\ Go("veth")
    /\ UNCHANGED <<backend, loop, devs, replaced, lab, cell>>

\* The devices of a cell, as containers on the host.
Of(c, D) == {<<c, d>> : d \in D}

\* emulate: the spec of a cell of the same name is written over.
HandleEmulate ==
    /\ At("handle") /\ w.act = "emulate"
    /\ specs' = specs \cup {w.item}
    /\ devs' = [devs EXCEPT ![w.item] = w.devices]
    /\ replaced' = (replaced \cup Of(w.item, devs[w.item])) \ Of(w.item, w.devices)
    /\ w' = [w EXCEPT !.at = "bridge", !.devices = {}]
    /\ UNCHANGED <<backend, loop, status, lab, cell>>

\* teardown, teardown_mimic
HandleTeardown ==
    /\ At("handle") /\ w.act \in {"teardown", "teardown_mimic"}
    /\ status' = [status EXCEPT ![w.item] = "stopped"]
    /\ Go(IF w.act = "teardown" THEN "down_sensor" ELSE "down_persona")
    /\ UNCHANGED <<backend, loop, desired, lab, cell>>

\* reconcile
HandleReconcile ==
    /\ At("handle") /\ w.act = "reconcile"
    /\ ReconcileAll
    /\ UNCHANGED <<backend, loop, desired, status, lab, cell>>

-----------------------------------------------------------------------------
(* Watcher: _provision and _provision_mimic.  A failing operation makes the status
   "error"; the request, or this item of the reconcile, is over. *)

ProvisionFails ==
    /\ w.at \in {"veth", "registry", "reload", "compose", "agent"} \cup CellStages
    /\ Fault("op")
    /\ status' = [status EXCEPT ![w.item] = "error"]
    /\ Finish
    /\ UNCHANGED <<rows, loop, desired, lab, cell>>

EnsureVeth ==
    /\ At("veth")
    /\ veth' = veth \cup {w.item}
    /\ Go("registry")
    /\ UNCHANGED <<backend, loop, desired, status, sensor, agent, stale, registry, images, work, cell>>

\* A command whose failure nobody notices: what it makes of the state, or the state as
\* it was.
Unnoticed == faults' = faults \/ Fault("leak")
Done(new, old) == IF faults' = faults THEN new ELSE old

\* ensure_registry_trusted: a registry that daemon.json lists is passed over ...
EnsureRegistryTrusted ==
    /\ At("registry")
    /\ trusted' = trusted \cup {Registry[w.item]}
    /\ Go(IF Registry[w.item] \in trusted THEN "compose" ELSE "reload")
    /\ UNCHANGED <<backend, loop, desired, status, veth, sensor, agent, stale, loaded, images, work, cell>>

\* ... and after a change of the file dockerd is told to read it.
ReloadDocker ==
    /\ Unnoticed
    /\ loaded' = Done(trusted, loaded)
    /\ \/ At("reload") /\ Go("compose")
       \/ At("down_reload") /\ Go("down_spec")
    /\ UNCHANGED <<rows, loop, desired, status, veth, sensor, agent, stale, trusted, images, work, cell>>

\* Both composes are written, and the agent image is there.
WriteComposes ==
    /\ At("compose")
    /\ work' = work \cup {w.item}
    /\ Go("sensor")
    /\ UNCHANGED <<backend, loop, desired, status, veth, sensor, agent, stale, registry, images, cell>>

\* Mutant: a dead capture network is left as it is.
HealNetwork_Never == stale' = stale

\* A sensor that does not run is taken down with its capture network.
HealNetwork == stale' = IF w.item \in sensor THEN stale ELSE stale \ {w.item}

\* ensure_sensor_image: an image on the host does, one of another Center too if no
\* lab uses that Center any more; else it is pulled from a registry dockerd trusts.
Cached(l) == images \ {Registry[k] : k \in {x \in specs \cap Labs : Registry[x] # Registry[l]}} # {}
ImageThere(l) == Cached(l) \/ Registry[l] \in loaded

\* Mutant: a sensor that cannot be started ends the provisioning.
SensorDown_Aborts ==
    /\ At("sensor")
    /\ "center" \in scope.faults
    /\ stale' = stale /\ images' = images
    /\ status' = [status EXCEPT ![w.item] = "error"]
    /\ Finish
    /\ UNCHANGED <<backend, loop, desired, veth, sensor, agent, registry, work, cell>>

\* The sensor cannot be started: there is no image of it and its Center does not serve
\* one to this dockerd, or compose fails.  The agent is started all the same.
SensorDown ==
    /\ At("sensor")
    /\ \/ ~ImageThere(w.item) /\ UNCHANGED <<stale, images>>
       \/ "center" \in scope.faults /\ ~Cached(w.item) /\ UNCHANGED <<stale, images>>
       \/ /\ "center" \in scope.faults /\ ImageThere(w.item)
          /\ images' = images \cup {Registry[w.item]}
          /\ HealNetwork
    /\ Go("agent")
    /\ UNCHANGED <<backend, loop, desired, status, veth, sensor, agent, registry, work, cell>>

\* The sensor is started, which does nothing for it on a dead network.
SensorUp ==
    /\ At("sensor")
    /\ ImageThere(w.item)
    /\ images' = images \cup {Registry[w.item]}
    /\ HealNetwork
    /\ sensor' = IF w.item \in stale' THEN sensor ELSE sensor \cup {w.item}
    /\ Go("agent")
    /\ UNCHANGED <<backend, loop, desired, status, veth, agent, registry, work, cell>>

AgentUp ==
    /\ At("agent")
    /\ agent' = agent \cup {w.item}
    /\ Go("done")
    /\ UNCHANGED <<backend, loop, desired, status, veth, sensor, stale, registry, images, work, cell>>

LabUp(l) == l \in veth /\ l \in sensor /\ l \in agent

LabDone ==
    /\ At("done")
    /\ status' = [status EXCEPT ![w.item] = IF LabUp(w.item) THEN "running" ELSE "degraded"]
    /\ Finish
    /\ UNCHANGED <<backend, loop, desired, lab, cell>>

\* ensure_persona_bridge: the bridge is made, but without the lab's veth the rest fails.
EnsureBridge ==
    LET l == LabOf[w.item]
    IN  /\ At("bridge")
        /\ bridge' = bridge \cup {l}
        /\ IF l \in veth
           THEN Go("persona") /\ status' = status
           ELSE Finish /\ status' = [status EXCEPT ![w.item] = "error"]
        /\ UNCHANGED <<backend, loop, desired, lab, personas, wired>>

\* ensure_persona: the container of a device that does not run is started ...
EnsurePersona(d) ==
    /\ At("persona")
    /\ d \in devs[w.item] /\ <<w.item, d>> \notin personas
    /\ personas' = personas \cup {<<w.item, d>>}
    /\ w' = [w EXCEPT !.at = "wire", !.devices = {d}]
    /\ UNCHANGED <<backend, loop, desired, status, lab, bridge, wired>>

\* ... put on the bridge, and its persona is started in it.
WirePersona ==
    /\ At("wire")
    /\ wired' = wired \cup Of(w.item, w.devices)
    /\ w' = [w EXCEPT !.at = "persona", !.devices = {}]
    /\ UNCHANGED <<backend, loop, desired, status, lab, bridge, personas>>

CellDone ==
    /\ At("persona")
    /\ Of(w.item, devs[w.item]) \subseteq personas
    /\ status' = [status EXCEPT ![w.item] = "running"]
    /\ Finish
    /\ UNCHANGED <<backend, loop, desired, lab, cell>>

-----------------------------------------------------------------------------
(* Watcher: _deprovision and _deprovision_mimic.  A command that fails is not
   noticed; one that times out ends the request. *)

TeardownFails ==
    /\ w.at \in TearLab \cup TearCell \cup {"down_spec"}
    /\ Fault("op")
    /\ Finish
    /\ UNCHANGED <<rows, loop, desired, status, lab, cell>>

\* Composes that were never written cannot be taken down.
DownSensor ==
    /\ At("down_sensor")
    /\ Unnoticed
    /\ sensor' = IF w.item \in work THEN Done(sensor \ {w.item}, sensor) ELSE sensor
    /\ Go("down_agent")
    /\ UNCHANGED <<rows, loop, desired, status, veth, agent, stale, registry, images, work, cell>>

DownAgent ==
    /\ At("down_agent")
    /\ Unnoticed
    /\ agent' = IF w.item \in work THEN Done(agent \ {w.item}, agent) ELSE agent
    /\ Go("down_veth")
    /\ UNCHANGED <<rows, loop, desired, status, veth, sensor, stale, registry, images, work, cell>>

\* The capture network, then the veth: their names are in the spec only, and without
\* one the request fails here (KeyError).
DownVeth ==
    /\ At("down_veth")
    /\ IF w.item \in specs
       THEN /\ Unnoticed
            /\ stale' = stale \ {w.item}
            /\ veth' = Done(veth \ {w.item}, veth)
            /\ Go("down_registry")
       ELSE Finish /\ UNCHANGED <<faults, stale, veth>>
    /\ UNCHANGED <<rows, loop, desired, status, sensor, agent, registry, images, work, cell>>

\* Mutant: the trust goes with the first lab of a Center.
UntrustRegistry_Always(l) == trusted' = trusted \ {Registry[l]}

\* untrust_registry_if_unused, for the specs that remain.
UntrustRegistry(l) ==
    trusted' = IF \E k \in (specs \cap Labs) \ {l} : Registry[k] = Registry[l]
               THEN trusted ELSE trusted \ {Registry[l]}

\* The spec is deleted last.
DownRegistry ==
    /\ At("down_registry")
    /\ UntrustRegistry(w.item)
    /\ Go(IF trusted' = trusted THEN "down_spec" ELSE "down_reload")
    /\ UNCHANGED <<backend, loop, desired, status, veth, sensor, agent, stale, loaded, images, work, cell>>

\* The devices of the spec, and no others.
DownPersonas ==
    LET gone == Of(w.item, devs[w.item])
    IN  /\ At("down_persona")
        /\ Unnoticed
        /\ personas' = Done(personas \ gone, personas)
        /\ wired' = Done(wired \ gone, wired)
        /\ Go("down_bridge")
        /\ UNCHANGED <<rows, loop, desired, status, lab, bridge>>

DownBridge ==
    /\ At("down_bridge")
    /\ IF w.item \in specs
       THEN bridge' = bridge \ {LabOf[w.item]} /\ Go("down_spec")
       ELSE bridge' = bridge /\ Finish
    /\ UNCHANGED <<backend, loop, desired, status, lab, personas, wired>>

DownSpec ==
    /\ At("down_spec")
    /\ specs' = specs \ {w.item}
    /\ devs' = [c \in Cells |-> IF c = w.item THEN {} ELSE devs[c]]
    /\ status' = [status EXCEPT ![w.item] = None]
    /\ Finish
    /\ UNCHANGED <<backend, loop, replaced, lab, cell>>

Watcher ==
    \/ Start \/ Poll \/ Take \/ EndRound \/ ReconcileEnds
    \/ \E i \in Items : ReconcileNext(i)
    \/ HandleBuild \/ HandleEmulate \/ HandleTeardown \/ HandleReconcile
    \/ EnsureVeth \/ EnsureRegistryTrusted \/ ReloadDocker \/ WriteComposes
    \/ SensorDown \/ SensorUp \/ AgentUp \/ LabDone
    \/ EnsureBridge \/ WirePersona \/ CellDone
    \/ \E d \in Devices : EnsurePersona(d)
    \/ DownSensor \/ DownAgent \/ DownVeth \/ DownRegistry \/ DownPersonas \/ DownBridge \/ DownSpec

-----------------------------------------------------------------------------
(* Faults *)

\* The watcher is killed, and started again by Docker.
Crash ==
    /\ Fault("crash")
    /\ w' = Boot /\ batch' = 0
    /\ UNCHANGED <<rows, queue, desired, status, lab, cell>>

\* The host reboots: interfaces are gone and with them the capture networks; Docker
\* restarts the agents, but not the sensors without a network nor the personas.
Reboot ==
    /\ Fault("reboot")
    /\ w' = Boot /\ batch' = 0
    /\ veth' = {} /\ sensor' = {} /\ bridge' = {} /\ personas' = {} /\ wired' = {}
    /\ stale' = stale \cup sensor
    /\ loaded' = trusted
    /\ UNCHANGED <<rows, queue, desired, status, agent, trusted, images, work>>

\* dockerd restarts and a capture network is orphaned, or a container is removed.
SensorDies(l) ==
    /\ l \in sensor
    /\ Fault("docker")
    /\ sensor' = sensor \ {l}
    /\ stale' = stale \cup {l}
    /\ loaded' \in {loaded, trusted}
    /\ UNCHANGED <<rows, loop, desired, status, veth, agent, trusted, images, work, cell, w>>

AgentDies(l) ==
    /\ l \in agent
    /\ Fault("docker")
    /\ agent' = agent \ {l}
    /\ UNCHANGED <<rows, loop, desired, status, veth, sensor, stale, registry, images, work, cell, w>>

Next ==
    \/ Watcher \/ ProvisionFails \/ TeardownFails
    \/ AskReconcile \/ Crash \/ Reboot
    \/ \E l \in Labs : BuildLab(l) \/ SubmitBuild(l) \/ TeardownLab(l) \/ DeleteLabRow(l) \/ SensorDies(l) \/ AgentDies(l)
    \/ \E c \in Cells : TeardownCell(c) \/ \E D \in SUBSET Devices : DeployCell(c, D)

Spec == Init /\ [][Next]_vars

\* The thread goes on; a route that has begun comes to its end.
FairSpec ==
    /\ Spec
    /\ WF_vars(Watcher)
    /\ \A l \in Labs : WF_vars(SubmitBuild(l)) /\ WF_vars(DeleteLabRow(l))

-----------------------------------------------------------------------------
(* Properties *)

TypeOK ==
    /\ scope \in Scopes /\ faults \in Nat
    /\ db \in [Labs -> {None, "live", "deleting", "gone"}] /\ building \subseteq Labs
    /\ asked \in [Cells -> Nat]
    /\ queue \in Seq(Requests)
    /\ specs \subseteq Items
    /\ devs \in [Cells -> SUBSET Devices]
    /\ status \in [Items -> States]
    /\ work \subseteq Labs /\ veth \subseteq Labs /\ sensor \subseteq Labs /\ agent \subseteq Labs
    /\ stale \subseteq Labs
    /\ trusted \subseteq Registries /\ loaded \subseteq Registries /\ images \subseteq Registries
    /\ bridge \subseteq Labs
    /\ personas \subseteq Cells \X Devices /\ wired \subseteq Cells \X Devices /\ replaced \subseteq Cells \X Devices
    /\ w \in Thread
    /\ batch \in 0 .. Len(queue)

\* What the specs on disk name of a cell.
Listed == UNION {Of(c, devs[c]) : c \in Cells}

\* Nothing is on the host that the specs on disk do not account for, so that a
\* reconcile or a teardown after any crash still finds it (_handle_request,
\* _deprovision): but for the devices a redeployed cell no longer has, and unless a
\* command of a teardown fails unnoticed.
NoOrphans ==
    \/ "leak" \in scope.faults
    \/ veth \cup sensor \cup agent \subseteq specs /\ personas \subseteq Listed \cup replaced

\* A running sensor keeps the trust in its Center's registry, whatever labs of the
\* same Center are torn down (untrust_registry_if_unused).  Again, a failed command
\* of a teardown may leave a sensor behind.
SensorIsTrusted == "leak" \in scope.faults \/ \A l \in sensor : Registry[l] \in trusted

\* A lab that stays specified ends up running its agent for good: through crashes,
\* reboots and failing operations, and though its Center may never answer.
AgentRuns == \A l \in Labs : <>[](l \in specs) => <>[](l \in agent)

\* The lab ends up running altogether, and its status says so.
Up(l) == <>[](l \in specs) => <>[](LabUp(l) /\ status[l] = "running")

\* The devices of a cell that stays specified, on a lab that does, end up as personas.
PersonasUp(c) ==
    <>[]({c, LabOf[c]} \subseteq specs) => <>[](Of(c, devs[c]) \subseteq wired)

\* What stays specified ends up running: a lab, with a Center that answers, as long as
\* dockerd has learnt of its registry or has the image (_provision, ensure_sensor_image);
\* a cell, through reboots and redeploys, unless the host agent stops or an operation fails
\* while it starts a persona (ensure_persona).
LabRuns ==
    /\ \A l \in Labs : "center" \notin scope.faults /\ <>[](Registry[l] \in loaded \cup images) => Up(l)
    /\ \A c \in Cells : scope.faults \cap {"crash", "op"} = {} => PersonasUp(c)

\* A lab that was torn down, after its build request was queued, has left the host for
\* good ...
Gone(l) == <>(db[l] = "gone") => <>[](l \notin specs \cup veth \cup sensor \cup agent)
GoneInOrder(l) == [](db[l] = "deleting" => l \notin building) => Gone(l)

\* ... unless a request is lost or a command of it fails (teardown_lab, main).
TeardownHappens == \A l \in Labs : scope.faults \subseteq {"docker", "center"} => GoneInOrder(l)

\* "Losing a request is harmless because reconcile re-derives from specs": not even
\* a crash of the host agent keeps a lab on the host.
LostRequestIsHarmless == \A l \in Labs : GoneInOrder(l)
=============================================================================
