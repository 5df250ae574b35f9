---------------------------- MODULE HostAgentProofs ----------------------------
(***************************************************************************)
(* Proofs about HostAgent: its type invariant, that the specs on disk      *)
(* account for everything on the host, and that a running sensor keeps the *)
(* trust in its registry.                                                  *)
(***************************************************************************)
EXTENDS HostAgent, TLAPS

\* Where the thread is tells what its item is.
Placed ==
    /\ w.at = "handle" => [action |-> w.act, item |-> w.item, devices |-> w.devices] \in Requests
    /\ w.at \in LabStages \cup TearLab => w.item \in Labs
    /\ w.at \in CellStages \cup TearCell => w.item \in Cells
    /\ w.at = "down_spec" => w.item \in Items

\* Where the thread is tells what it has done to the host so far.
Progress ==
    /\ w.todo \subseteq specs
    /\ w.at \in LabStages \cup CellStages => w.item \in specs
    /\ w.at \in {"handle", "down_spec"} \cup TearLab \cup TearCell => w.todo = {}
    /\ w.at \in {"reload", "compose", "sensor", "agent", "done"} => Registry[w.item] \in trusted
    /\ w.at \in {"sensor", "agent", "done"} => w.item \in work
    /\ w.at \in {"down_agent", "down_veth", "down_registry", "down_reload", "down_spec"} => w.item \notin sensor
    /\ w.at \in {"down_veth", "down_registry", "down_reload", "down_spec"} => w.item \notin agent
    /\ w.at \in {"down_registry", "down_reload", "down_spec"} => w.item \notin veth
    /\ w.at \in {"down_bridge", "down_spec"} => \A d \in Devices : <<w.item, d>> \in personas => d \notin devs[w.item]

\* The composes of whatever runs are on disk, so that a teardown finds them.
Composed == sensor \cup agent \subseteq work

\* The parts of the invariant that need every command of a teardown to work.
Sound == NoOrphans /\ SensorIsTrusted /\ Composed /\ Progress

\* The inductive invariant.
HostInv == TypeOK /\ Placed /\ ("leak" \notin scope.faults => Sound)

\* The devices the specs name.
LEMMA ListedDevices ==
    ASSUME NEW D \in [Cells -> SUBSET Devices]
    PROVE  UNION {Of(c, D[c]) : c \in Cells} = {x \in Cells \X Devices : x[2] \in D[x[1]]}
<1>1. ASSUME NEW x \in UNION {Of(c, D[c]) : c \in Cells} PROVE x \in Cells \X Devices /\ x[2] \in D[x[1]]
  <2>1. PICK c \in Cells : x \in Of(c, D[c])
    OBVIOUS
  <2>2. PICK d \in D[c] : x = <<c, d>>
    BY <2>1 DEF Of
  <2>3. QED
    BY <2>2
<1>2. ASSUME NEW c \in Cells, NEW d \in Devices, d \in D[c] PROVE <<c, d>> \in UNION {Of(k, D[k]) : k \in Cells}
  BY <1>2 DEF Of
<1>3. QED
  BY <1>1, <1>2

\* A stage that follows on another one, the end of an item, and a reconcile.
LEMMA Moves ==
    ASSUME w \in Thread
    PROVE  /\ \A p \in Points : Go(p) => w' \in Thread /\ w'.at = p /\ w'.item = w.item /\ w'.todo = w.todo
           /\ Finish => w' \in Thread /\ w'.at \in {"next", "drain"} /\ w'.todo = w.todo
           /\ specs \subseteq Items /\ ReconcileAll => w' \in Thread /\ w'.at = "next" /\ w'.todo = specs
           /\ w' = Boot => w' \in Thread /\ w'.at = "boot" /\ w'.todo = {}
<1>1. ASSUME NEW p \in Points, Go(p) PROVE w' \in Thread /\ w'.at = p /\ w'.item = w.item /\ w'.todo = w.todo
  BY <1>1 DEF Thread, Go
<1>2. ASSUME Finish PROVE w' \in Thread /\ w'.at \in {"next", "drain"} /\ w'.todo = w.todo
  BY <1>2 DEF Thread, Finish, Points
<1>3. ASSUME specs \subseteq Items, ReconcileAll PROVE w' \in Thread /\ w'.at = "next" /\ w'.todo = specs
  BY <1>3 DEF Thread, ReconcileAll, Points
<1>4. ASSUME w' = Boot PROVE w' \in Thread /\ w'.at = "boot" /\ w'.todo = {}
  BY <1>4 DEF Thread, Boot, Points
<1>5. QED
  BY <1>1, <1>2, <1>3, <1>4

\* dockerd is told to read its file in a build and in a teardown.
LEMMA Reloaded ==
    ASSUME w \in Thread, ReloadDocker
    PROVE  /\ w' \in Thread /\ w'.item = w.item /\ w'.todo = w.todo
           /\ (w.at = "reload" /\ w'.at = "compose") \/ (w.at = "down_reload" /\ w'.at = "down_spec")
<1>1. (w.at = "reload" /\ Go("compose")) \/ (w.at = "down_reload" /\ Go("down_spec"))
  BY DEF ReloadDocker, At
<1>2. {"compose", "down_spec"} \subseteq Points
  BY DEF Points, LabStages
<1>3. QED
  BY <1>1, <1>2, Moves

\* What the oldest request names.
LEMMA OldestRequest ==
    ASSUME queue \in Seq(Requests), queue # <<>>
    PROVE  /\ Head(queue) \in Requests
           /\ Head(queue).item \in Items \cup {None} /\ Head(queue).action \in Actions
           /\ Head(queue).devices \in SUBSET Devices
           /\ [action |-> Head(queue).action, item |-> Head(queue).item, devices |-> Head(queue).devices] = Head(queue)
<1>1. Head(queue) \in Requests
  OBVIOUS
<1>2. QED
  BY <1>1 DEF Requests, Items, Actions

\* A request that is taken is handed on as it is.
LEMMA TakeIt ==
    ASSUME TypeOK, Take
    PROVE  /\ w' \in Thread /\ w'.at = "handle" /\ w'.todo = {}
           /\ [action |-> w'.act, item |-> w'.item, devices |-> w'.devices] \in Requests
<1>1. queue # <<>>
  BY DEF TypeOK, Take
<1>2. /\ Head(queue) \in Requests
      /\ Head(queue).item \in Items \cup {None} /\ Head(queue).action \in Actions
      /\ Head(queue).devices \in SUBSET Devices
      /\ [action |-> Head(queue).action, item |-> Head(queue).item, devices |-> Head(queue).devices] = Head(queue)
  BY <1>1, OldestRequest DEF TypeOK
<1>3. QED
  BY <1>2 DEF Take, Thread, Points, Boot

\* The thread, action by action.
LEMMA ThreadStep ==
    ASSUME TypeOK, Placed, Next
    PROVE  w' \in Thread /\ Placed'
<1> USE DEF Placed, LabStages, CellStages, TearLab, TearCell
<1>0. w \in Thread /\ specs \subseteq Items
  BY DEF TypeOK
<1> DEFINE P == {"boot", "poll", "drain", "next"}
<1>1. ASSUME w' \in Thread, w'.at \in P PROVE w' \in Thread /\ Placed'
  BY <1>1
<1>2. ASSUME NEW p \in LabStages \cup TearLab, Go(p), w.item \in Labs PROVE w' \in Thread /\ Placed'
  BY <1>0, <1>2, Moves DEF Points
<1>3. ASSUME NEW p \in CellStages \cup TearCell, Go(p), w.item \in Cells PROVE w' \in Thread /\ Placed'
  BY <1>0, <1>3, Moves DEF Points
<1>4. ASSUME Go("down_spec"), w.item \in Items PROVE w' \in Thread /\ Placed'
  BY <1>0, <1>4, Moves DEF Points
<1>5. ASSUME Finish \/ ReconcileAll \/ w' = Boot PROVE w' \in Thread /\ Placed'
  BY <1>0, <1>1, <1>5, Moves
<1>6. ASSUME NEW p \in P, Go(p) PROVE w' \in Thread /\ Placed'
  BY <1>0, <1>1, <1>6, Moves DEF Points
<1>7. ASSUME NEW p \in P, NEW T \in SUBSET Items, NEW f \in BOOLEAN,
             w' = [Boot EXCEPT !.at = p, !.fast = f, !.todo = T] \/ w' = [Boot EXCEPT !.at = p]
      PROVE  w' \in Thread /\ Placed'
  BY <1>1, <1>7 DEF Boot, Thread, Points
<1>8. CASE Start \/ HandleReconcile \/ Crash \/ Reboot \/ ProvisionFails \/ TeardownFails \/ LabDone \/ CellDone \/ DownSpec
  BY <1>5, <1>8 DEF Start, HandleReconcile, Crash, Reboot, ProvisionFails, TeardownFails, LabDone, CellDone, DownSpec
<1>9. CASE Poll
  BY <1>5, <1>7, <1>9 DEF Poll
<1>10. CASE Take
  BY <1>10, TakeIt
<1>11. CASE EndRound
  BY <1>0, <1>7, <1>11 DEF EndRound
<1>12. CASE ReconcileEnds
  BY <1>7, <1>12 DEF ReconcileEnds
<1>13. ASSUME NEW i \in Items, ReconcileNext(i) PROVE w' \in Thread /\ Placed'
  BY <1>0, <1>13 DEF ReconcileNext, Thread, Points, Items
<1>14. CASE HandleBuild \/ HandleTeardown \/ HandleEmulate
  <2>1. w.at = "handle" /\ [action |-> w.act, item |-> w.item, devices |-> w.devices] \in Requests
    BY <1>14 DEF HandleBuild, HandleTeardown, HandleEmulate, At
  <2>2. w.act \in {"build", "teardown"} => w.item \in Labs
    BY <2>1 DEF Requests
  <2>3. w.act \in {"emulate", "teardown_mimic"} => w.item \in Cells
    BY <2>1 DEF Requests
  <2>4. QED
    BY <1>0, <1>2, <1>3, <1>14, <2>2, <2>3 DEF HandleBuild, HandleTeardown, HandleEmulate, Thread, Points
<1>15. CASE EnsureVeth \/ EnsureRegistryTrusted \/ WriteComposes \/ SensorDown \/ SensorUp \/ AgentUp \/ DownSensor \/ DownAgent
  BY <1>2, <1>15 DEF EnsureVeth, EnsureRegistryTrusted, WriteComposes, SensorDown, SensorUp, AgentUp, DownSensor, DownAgent, At
<1>16. CASE DownVeth
  BY <1>2, <1>5, <1>16 DEF DownVeth, At
<1>17. CASE DownRegistry \/ ReloadDocker
  BY <1>2, <1>4, <1>17 DEF DownRegistry, ReloadDocker, At, Items
<1>18. CASE EnsureBridge \/ DownPersonas
  BY <1>3, <1>5, <1>18 DEF EnsureBridge, DownPersonas, At
<1>19. CASE DownBridge
  BY <1>4, <1>5, <1>19 DEF DownBridge, At, Items
<1>25. CASE WirePersona
  BY <1>0, <1>25 DEF WirePersona, At, Thread, Points
<1>26. ASSUME NEW d \in Devices, EnsurePersona(d) PROVE w' \in Thread /\ Placed'
  BY <1>0, <1>26 DEF EnsurePersona, At, Thread, Points
<1>20. CASE UNCHANGED w
  BY <1>0, <1>20
<1>21. CASE AskReconcile
  BY <1>20, <1>21 DEF AskReconcile
<1>22. ASSUME NEW l \in Labs, BuildLab(l) \/ SubmitBuild(l) \/ TeardownLab(l) \/ DeleteLabRow(l) \/ SensorDies(l) \/ AgentDies(l)
       PROVE  w' \in Thread /\ Placed'
  BY <1>20, <1>22 DEF BuildLab, SubmitBuild, TeardownLab, DeleteLabRow, SensorDies, AgentDies
<1>23. ASSUME NEW c \in Cells, TeardownCell(c) \/ \E D \in SUBSET Devices : DeployCell(c, D) PROVE w' \in Thread /\ Placed'
  BY <1>20, <1>23 DEF DeployCell, TeardownCell, Ask
<1>24. QED
  BY <1>8, <1>9, <1>10, <1>11, <1>12, <1>13, <1>14, <1>15, <1>16, <1>17, <1>18, <1>19, <1>21, <1>22, <1>23, <1>25, <1>26
     DEF Next, Watcher

\* The queue and the part of it that was listed.
LEMMA QueueStep ==
    ASSUME TypeOK, Next
    PROVE  queue' \in Seq(Requests) /\ batch' \in 0 .. Len(queue')
<1>0. queue \in Seq(Requests) /\ batch \in 0 .. Len(queue)
  BY DEF TypeOK
<1>1. CASE UNCHANGED <<queue, batch>>
  BY <1>0, <1>1
<1>2. ASSUME NEW r \in Requests, queue' = Append(queue, r), UNCHANGED batch
      PROVE  queue' \in Seq(Requests) /\ batch' \in 0 .. Len(queue')
  BY <1>0, <1>2
<1>3. CASE Take
  BY <1>0, <1>3 DEF Take
<1>4. CASE Poll \/ Crash \/ Reboot
  BY <1>0, <1>4 DEF Poll, Crash, Reboot
<1>5. ASSUME NEW l \in Labs, SubmitBuild(l) \/ TeardownLab(l)
      PROVE  queue' \in Seq(Requests) /\ batch' \in 0 .. Len(queue')
  <2>1. /\ [action |-> "build", item |-> l, devices |-> {}] \in Requests
        /\ [action |-> "teardown", item |-> l, devices |-> {}] \in Requests
    BY DEF Requests
  <2>2. QED
    BY <1>1, <1>2, <1>5, <2>1 DEF SubmitBuild, TeardownLab, Submit
<1>6. ASSUME NEW c \in Cells, TeardownCell(c) \/ \E D \in SUBSET Devices : DeployCell(c, D)
      PROVE  queue' \in Seq(Requests) /\ batch' \in 0 .. Len(queue')
  <2>1. PICK a \in {"emulate", "teardown_mimic"}, D \in SUBSET Devices : Ask(c, a, D)
    BY <1>6 DEF DeployCell, TeardownCell
  <2>2. [action |-> a, item |-> c, devices |-> D] \in Requests
    BY DEF Requests
  <2>3. QED
    BY <1>2, <2>1, <2>2 DEF Ask, Submit
<1>7. CASE AskReconcile
  <2>1. [action |-> "reconcile", item |-> None, devices |-> {}] \in Requests
    BY DEF Requests
  <2>2. QED
    BY <1>2, <1>7, <2>1 DEF AskReconcile, Submit
<1>8. CASE \/ Start \/ EndRound \/ ReconcileEnds \/ HandleBuild \/ HandleEmulate \/ HandleTeardown \/ HandleReconcile
           \/ \E i \in Items : ReconcileNext(i)
           \/ EnsureVeth \/ EnsureRegistryTrusted \/ ReloadDocker \/ WriteComposes \/ SensorDown \/ SensorUp \/ AgentUp \/ LabDone
  BY <1>1, <1>8 DEF loop, Start, EndRound, ReconcileEnds, HandleBuild, HandleEmulate, HandleTeardown, HandleReconcile,
       ReconcileNext, EnsureVeth, EnsureRegistryTrusted, ReloadDocker, WriteComposes, SensorDown, SensorUp, AgentUp, LabDone
<1>9. CASE \/ EnsureBridge \/ WirePersona \/ CellDone \/ (\E d \in Devices : EnsurePersona(d)) \/ DownSensor \/ DownAgent \/ DownVeth \/ DownRegistry \/ DownPersonas
           \/ DownBridge \/ DownSpec \/ ProvisionFails \/ TeardownFails
           \/ \E l \in Labs : BuildLab(l) \/ DeleteLabRow(l) \/ SensorDies(l) \/ AgentDies(l)
  BY <1>1, <1>9 DEF loop, BuildLab, EnsureBridge, WirePersona, CellDone, EnsurePersona, DownSensor, DownAgent, DownVeth, DownRegistry, DownPersonas,
       DownBridge, DownSpec, ProvisionFails, TeardownFails, DeleteLabRow, SensorDies, AgentDies
<1>10. QED
  BY <1>3, <1>4, <1>5, <1>6, <1>7, <1>8, <1>9 DEF Next, Watcher

\* Rows and status.
LEMMA TableStep ==
    ASSUME TypeOK, Placed, Next
    PROVE  /\ scope' = scope /\ faults' \in Nat
           /\ db' \in [Labs -> {None, "live", "deleting", "gone"}] /\ building' \subseteq Labs
           /\ asked' \in [Cells -> Nat]
           /\ status' \in [Items -> States]
<1> USE DEF TypeOK, backend, rows, Fault, MayFail, States, None
<1>1. scope' = scope /\ faults' \in Nat
  <2>1. scope' = scope /\ (faults' = faults \/ faults' = faults + 1)
    BY DEF Next, Watcher, Start, Poll, Take, EndRound, ReconcileEnds, ReconcileNext, HandleBuild, HandleEmulate, HandleTeardown,
       HandleReconcile, EnsureVeth, EnsureRegistryTrusted, ReloadDocker, WriteComposes, SensorDown, SensorUp, AgentUp, LabDone,
       EnsureBridge, EnsurePersona, WirePersona, CellDone, DownSensor, DownAgent, DownVeth, DownRegistry, DownPersonas, DownBridge,
       DownSpec, ProvisionFails, TeardownFails, AskReconcile, Crash, Reboot, BuildLab, SubmitBuild, TeardownLab,
       DeleteLabRow, SensorDies, AgentDies, DeployCell, TeardownCell, Ask, Unnoticed
  <2>2. QED
    BY <2>1
<1>2. db' \in [Labs -> {None, "live", "deleting", "gone"}] /\ building' \subseteq Labs
  <2>1. \/ db' = db
        \/ \E i \in Labs, s \in {"live", "deleting", "gone"} : db' = [db EXCEPT ![i] = s]
    BY DEF Next, Watcher, Start, Poll, Take, EndRound, ReconcileEnds, ReconcileNext, HandleBuild, HandleEmulate, HandleTeardown,
       HandleReconcile, EnsureVeth, EnsureRegistryTrusted, ReloadDocker, WriteComposes, SensorDown, SensorUp, AgentUp, LabDone,
       EnsureBridge, EnsurePersona, WirePersona, CellDone, DownSensor, DownAgent, DownVeth, DownRegistry, DownPersonas, DownBridge,
       DownSpec, ProvisionFails, TeardownFails, AskReconcile, Crash, Reboot, BuildLab, SubmitBuild, TeardownLab,
       DeleteLabRow, SensorDies, AgentDies, DeployCell, TeardownCell, Ask
  <2>2. \/ building' \subseteq building
        \/ \E l \in Labs : building' = building \cup {l}
    BY DEF Next, Watcher, Start, Poll, Take, EndRound, ReconcileEnds, ReconcileNext, HandleBuild, HandleEmulate, HandleTeardown,
       HandleReconcile, EnsureVeth, EnsureRegistryTrusted, ReloadDocker, WriteComposes, SensorDown, SensorUp, AgentUp, LabDone,
       EnsureBridge, EnsurePersona, WirePersona, CellDone, DownSensor, DownAgent, DownVeth, DownRegistry, DownPersonas, DownBridge,
       DownSpec, ProvisionFails, TeardownFails, AskReconcile, Crash, Reboot, BuildLab, SubmitBuild, TeardownLab,
       DeleteLabRow, SensorDies, AgentDies, DeployCell, TeardownCell, Ask
  <2>3. QED
    BY <2>1, <2>2
<1>3. asked' \in [Cells -> Nat]
  <2>1. asked' = asked \/ \E c \in Cells : asked' = [asked EXCEPT ![c] = @ + 1]
    BY DEF Next, Watcher, Start, Poll, Take, EndRound, ReconcileEnds, ReconcileNext, HandleBuild, HandleEmulate, HandleTeardown,
       HandleReconcile, EnsureVeth, EnsureRegistryTrusted, ReloadDocker, WriteComposes, SensorDown, SensorUp, AgentUp, LabDone,
       EnsureBridge, EnsurePersona, WirePersona, CellDone, DownSensor, DownAgent, DownVeth, DownRegistry, DownPersonas, DownBridge,
       DownSpec, ProvisionFails, TeardownFails, AskReconcile, Crash, Reboot, BuildLab, SubmitBuild, TeardownLab,
       DeleteLabRow, SensorDies, AgentDies, DeployCell, TeardownCell, Ask
  <2>2. QED
    BY <2>1
<1>4. status' \in [Items -> States]
  <2>1. \/ status' = status
        \/ \E i, s : s \in States /\ status' = [status EXCEPT ![i] = s]
    BY DEF Next, Watcher, Start, Poll, Take, EndRound, ReconcileEnds, ReconcileNext, HandleBuild, HandleEmulate, HandleTeardown,
       HandleReconcile, EnsureVeth, EnsureRegistryTrusted, ReloadDocker, WriteComposes, SensorDown, SensorUp, AgentUp, LabDone,
       EnsureBridge, EnsurePersona, WirePersona, CellDone, DownSensor, DownAgent, DownVeth, DownRegistry, DownPersonas, DownBridge,
       DownSpec, ProvisionFails, TeardownFails, AskReconcile, Crash, Reboot, BuildLab, SubmitBuild, TeardownLab,
       DeleteLabRow, SensorDies, AgentDies, DeployCell, TeardownCell, Ask
  <2>2. QED
    BY <2>1
<1>5. QED
  BY <1>1, <1>2, <1>3, <1>4

\* The sets of labs, cells, devices and registries.
LEMMA SetStep ==
    ASSUME TypeOK, Placed, Next
    PROVE  /\ specs' \subseteq Items
           /\ work' \subseteq Labs /\ veth' \subseteq Labs /\ sensor' \subseteq Labs /\ agent' \subseteq Labs
           /\ stale' \subseteq Labs
           /\ trusted' \subseteq Registries /\ loaded' \subseteq Registries /\ images' \subseteq Registries
           /\ bridge' \subseteq Labs
           /\ devs' \in [Cells -> SUBSET Devices]
           /\ personas' \subseteq Cells \X Devices /\ wired' \subseteq Cells \X Devices /\ replaced' \subseteq Cells \X Devices
<1> USE DEF TypeOK, Placed, At, LabStages, CellStages, TearLab, TearCell, lab, cell, registry, desired
<1>0. /\ w \in Thread /\ w.devices \subseteq Devices
      /\ \A c \in Cells, D \in SUBSET Devices : Of(c, D) \subseteq Cells \X Devices
  BY DEF Thread, Of
<1>1. CASE HandleBuild \/ DownSpec
  <2>1. w.at = "handle" /\ w.act = "build" => w.item \in Items
    BY DEF Requests, Items
  <2>2. QED
    BY <1>1, <2>1 DEF HandleBuild, DownSpec
<1>2. CASE HandleEmulate
  <2>1. w.item \in Cells
    BY <1>2 DEF HandleEmulate, Requests
  <2>2. QED
    BY <1>0, <1>2, <2>1 DEF HandleEmulate, Items
<1>3. CASE EnsureVeth \/ WriteComposes \/ AgentUp
  BY <1>3 DEF EnsureVeth, WriteComposes, AgentUp
<1>4. CASE EnsureRegistryTrusted \/ ReloadDocker
  BY <1>4 DEF EnsureRegistryTrusted, ReloadDocker, Registries, Done
<1>5. CASE SensorDown \/ SensorUp
  BY <1>5 DEF SensorDown, SensorUp, HealNetwork, Registries
<1>6. CASE EnsureBridge
  BY <1>6, HostAssumption DEF EnsureBridge
<1>7. CASE WirePersona
  BY <1>0, <1>7 DEF WirePersona
<1>15. ASSUME NEW d \in Devices, EnsurePersona(d) PROVE personas' \subseteq Cells \X Devices
  BY <1>15 DEF EnsurePersona
<1>16. CASE \E d \in Devices : EnsurePersona(d)
  BY <1>15, <1>16 DEF EnsurePersona
<1>8. CASE DownSensor \/ DownAgent \/ DownVeth
  BY <1>8 DEF DownSensor, DownAgent, DownVeth, Done
<1>9. CASE DownRegistry
  BY <1>9 DEF DownRegistry, UntrustRegistry
<1>10. CASE DownPersonas \/ DownBridge \/ Reboot
  BY <1>10 DEF DownPersonas, DownBridge, Reboot, Done
<1>11. CASE \E l \in Labs : SensorDies(l) \/ AgentDies(l)
  BY <1>11 DEF SensorDies, AgentDies
<1>12. CASE UNCHANGED <<desired, lab, cell>>
  BY <1>12
<1>13. CASE \/ Start \/ Poll \/ Take \/ EndRound \/ ReconcileEnds \/ HandleTeardown \/ HandleReconcile \/ LabDone \/ CellDone
            \/ ProvisionFails \/ TeardownFails \/ AskReconcile \/ Crash
            \/ \E i \in Items : ReconcileNext(i)
            \/ \E l \in Labs : BuildLab(l) \/ SubmitBuild(l) \/ TeardownLab(l) \/ DeleteLabRow(l)
            \/ \E c \in Cells : TeardownCell(c) \/ \E D \in SUBSET Devices : DeployCell(c, D)
  BY <1>12, <1>13 DEF Start, Poll, Take, EndRound, ReconcileEnds, HandleTeardown, HandleReconcile, LabDone, CellDone,
       ProvisionFails, TeardownFails, AskReconcile, Crash, ReconcileNext, BuildLab, SubmitBuild, TeardownLab, DeleteLabRow,
       DeployCell, TeardownCell, Ask
<1>14. QED
  BY <1>1, <1>2, <1>3, <1>4, <1>5, <1>6, <1>7, <1>8, <1>9, <1>10, <1>11, <1>13, <1>16 DEF Next, Watcher

\* The type invariant is inductive together with Placed.
LEMMA TypeStep == TypeOK /\ Placed /\ [Next]_vars => TypeOK' /\ Placed'
<1> SUFFICES ASSUME TypeOK, Placed, [Next]_vars PROVE TypeOK' /\ Placed'
  OBVIOUS
<1>1. CASE Next
  BY <1>1, ThreadStep, QueueStep, TableStep, SetStep DEF TypeOK
<1>2. CASE UNCHANGED vars
  BY <1>2 DEF TypeOK, Placed, vars
<1>3. QED
  BY <1>1, <1>2

LEMMA TypeInit == Init => TypeOK /\ Placed
<1> SUFFICES ASSUME Init PROVE TypeOK /\ Placed
  OBVIOUS
<1>1. w \in Thread /\ w.at = "boot"
  BY DEF Init, Boot, Thread, Points
<1>2. Placed
  BY <1>1 DEF Placed, LabStages, CellStages, TearLab, TearCell
<1>3. queue \in Seq(Requests) /\ batch \in 0 .. Len(queue)
  BY DEF Init
<1>4. QED
  BY <1>1, <1>2, <1>3 DEF Init, TypeOK, States

\* The type invariant of the host agent, for any number of labs, cells and faults.
THEOREM HostTypeOK == Spec => []TypeOK
<1>1. Init => TypeOK /\ Placed
  BY TypeInit
<1>2. TypeOK /\ Placed /\ [Next]_vars => TypeOK' /\ Placed'
  BY TypeStep
<1>3. QED
  BY <1>1, <1>2, PTL DEF Spec

-----------------------------------------------------------------------------
(* Orphans and trust *)

\* Every step of the thread, of a fault or of the backend keeps Sound.
LEMMA SoundStep ==
    ASSUME TypeOK, Placed, Sound, Next, TypeOK', Placed', "leak" \notin scope.faults, scope' = scope
    PROVE  Sound'
<1> USE HostAssumption DEF Sound, NoOrphans, SensorIsTrusted, Composed, Progress, Placed, At,
        LabStages, CellStages, TearLab, TearCell, lab, cell, registry, desired, Items
<1>0. /\ w \in Thread /\ specs \subseteq Items
      /\ veth \subseteq Labs /\ sensor \subseteq Labs /\ agent \subseteq Labs /\ personas \subseteq Cells \X Devices
      /\ devs \in [Cells -> SUBSET Devices]
  BY DEF TypeOK
<1>a. Listed = {x \in Cells \X Devices : x[2] \in devs[x[1]]}
  BY <1>0, ListedDevices DEF Listed
<1>b. Listed' = {x \in Cells \X Devices : x[2] \in devs'[x[1]]}
  <2>1. devs' \in [Cells -> SUBSET Devices]
    BY DEF TypeOK
  <2>2. UNION {Of(c, devs'[c]) : c \in Cells} = {x \in Cells \X Devices : x[2] \in devs'[x[1]]}
    BY <2>1, ListedDevices
  <2>3. QED
    BY <2>2 DEF Listed, Of
<1>c. UNCHANGED devs => UNCHANGED Listed
  BY <1>a, <1>b
<1>1. ASSUME UNCHANGED <<desired, lab, cell>>, w'.todo \subseteq specs,
             w'.at \in {"boot", "poll", "drain", "next"}
      PROVE  Sound'
  BY <1>1, <1>c
<1>2. CASE \/ Start \/ Poll \/ EndRound \/ ReconcileEnds \/ HandleReconcile \/ LabDone \/ CellDone
           \/ ProvisionFails \/ TeardownFails \/ Crash
  <2>1. /\ UNCHANGED <<desired, lab, cell>>
        /\ \/ Finish \/ ReconcileAll \/ w' = Boot
           \/ w' = [Boot EXCEPT !.at = "next", !.fast = TRUE, !.todo = specs]
           \/ \E p \in {"poll", "drain"} : w' = [Boot EXCEPT !.at = p]
    BY <1>2 DEF Start, Poll, EndRound, ReconcileEnds, HandleReconcile, LabDone, CellDone,
         ProvisionFails, TeardownFails, Crash
  <2>2. w'.todo \subseteq specs /\ w'.at \in {"boot", "poll", "drain", "next"}
    BY <1>0, <2>1, Moves DEF Boot
  <2>3. QED
    BY <1>1, <2>1, <2>2
<1>3. CASE Take
  BY <1>3, <1>c, TakeIt DEF Take
<1>4. ASSUME NEW i \in Items, ReconcileNext(i) PROVE Sound'
  <2>1. UNCHANGED <<desired, lab, cell>> /\ i \in specs /\ w'.item = i /\ w'.at \in {"veth", "bridge"} /\ w'.todo \subseteq specs
    BY <1>0, <1>4 DEF ReconcileNext, Thread
  <2>2. QED
    BY <1>c, <2>1
<1>5. ASSUME NEW p \in Points, Go(p) PROVE w'.at = p /\ w'.item = w.item /\ w'.todo = w.todo
  BY <1>0, <1>5, Moves
<1>6. CASE HandleBuild
  BY <1>5, <1>6, <1>c DEF HandleBuild, Points
<1>7. CASE HandleEmulate
  <2>1. w.item \in Cells /\ w.devices \subseteq Devices
    BY <1>0, <1>7 DEF HandleEmulate, Requests, Thread
  <2>2. w'.at = "bridge" /\ w'.item = w.item /\ w'.todo = w.todo
    BY <1>0, <1>7 DEF HandleEmulate, Thread
  <2>3. personas' \subseteq Listed' \cup replaced'
    <3>1. SUFFICES ASSUME NEW c \in Cells, NEW d \in Devices, <<c, d>> \in personas
                   PROVE  d \in devs'[c] \/ <<c, d>> \in replaced'
      BY <1>0, <1>7, <1>b DEF HandleEmulate
    <3>2. d \in devs[c] \/ <<c, d>> \in replaced
      <4>1. <<c, d>> \in Listed \cup replaced
        BY <3>1
      <4>2. QED
        BY <1>a, <4>1
    <3>3. CASE c = w.item
      BY <1>0, <1>7, <2>1, <3>2, <3>3 DEF HandleEmulate, Of
    <3>4. CASE c # w.item
      <4>1. devs'[c] = devs[c] /\ <<c, d>> \notin Of(w.item, w.devices)
        BY <1>0, <1>7, <2>1, <3>4 DEF HandleEmulate, Of
      <4>2. QED
        BY <1>7, <3>2, <4>1 DEF HandleEmulate
    <3>5. QED
      BY <3>3, <3>4
  <2>4. QED
    BY <1>7, <2>2, <2>3 DEF HandleEmulate
<1>8. CASE HandleTeardown
  BY <1>5, <1>8, <1>c DEF HandleTeardown, Points
<1>9. CASE EnsureVeth
  BY <1>5, <1>9, <1>c DEF EnsureVeth, Points
<1>10. CASE EnsureRegistryTrusted
  BY <1>5, <1>10, <1>c DEF EnsureRegistryTrusted, Points
<1>28. CASE ReloadDocker
  <2>1. /\ w'.item = w.item /\ w'.todo = w.todo
        /\ (w.at = "reload" /\ w'.at = "compose") \/ (w.at = "down_reload" /\ w'.at = "down_spec")
    BY <1>0, <1>28, Reloaded
  <2>2. w.at = "down_reload" => w.item \in Labs
    OBVIOUS
  <2>3. \A d \in Devices : w.item \in Labs => <<w.item, d>> \notin personas
    BY <1>0
  <2>4. QED
    BY <1>28, <1>c, <2>1, <2>2, <2>3 DEF ReloadDocker
<1>11. CASE WriteComposes
  BY <1>5, <1>11, <1>c DEF WriteComposes, Points
<1>12. CASE SensorDown \/ SensorUp
  BY <1>5, <1>12, <1>c DEF SensorDown, SensorUp, Points
<1>13. CASE AgentUp
  BY <1>5, <1>13, <1>c DEF AgentUp, Points
<1>14. CASE EnsureBridge
  BY <1>0, <1>5, <1>14, <1>c, Moves DEF EnsureBridge, Points
<1>15. ASSUME NEW d \in Devices, EnsurePersona(d) PROVE Sound'
  <2>1. w'.at = "wire" /\ w'.item = w.item /\ w'.todo = w.todo
    BY <1>0, <1>15 DEF EnsurePersona, Thread
  <2>2. <<w.item, d>> \in Listed
    BY <1>0, <1>15, <1>a DEF EnsurePersona
  <2>3. QED
    BY <1>15, <1>c, <2>1, <2>2 DEF EnsurePersona
<1>29. CASE WirePersona
  <2>1. w'.at = "persona" /\ w'.item = w.item /\ w'.todo = w.todo
    BY <1>0, <1>29 DEF WirePersona, Thread
  <2>2. QED
    BY <1>29, <1>c, <2>1 DEF WirePersona
<1>16. CASE DownSensor
  BY <1>5, <1>16, <1>c DEF DownSensor, Points, Done, Unnoticed, Fault, MayFail
<1>17. CASE DownAgent
  BY <1>5, <1>17, <1>c DEF DownAgent, Points, Done, Unnoticed, Fault, MayFail
<1>18. CASE DownVeth
  BY <1>0, <1>5, <1>18, <1>c, Moves DEF DownVeth, Points, Done, Unnoticed, Fault, MayFail
<1>19. CASE DownRegistry
  BY <1>0, <1>5, <1>19, <1>c DEF DownRegistry, UntrustRegistry, Points
<1>20. CASE DownPersonas
  <2>1. w'.at = "down_bridge" /\ w'.item = w.item /\ w'.todo = w.todo
    BY <1>5, <1>20 DEF DownPersonas, Points
  <2>2. personas' = personas \ Of(w.item, devs[w.item])
    BY <1>20 DEF DownPersonas, Done, Unnoticed, Fault, MayFail
  <2>3. \A d \in Devices : <<w.item, d>> \in personas' => d \notin devs[w.item]
    BY <2>2 DEF Of
  <2>4. QED
    BY <1>20, <1>c, <2>1, <2>2, <2>3 DEF DownPersonas
<1>21. CASE DownBridge
  BY <1>0, <1>5, <1>21, <1>c, Moves DEF DownBridge, Points
<1>22. CASE DownSpec
  <2>1. w'.at \in {"next", "drain"} /\ w'.todo = {}
    BY <1>0, <1>22, Moves DEF DownSpec
  <2>2. personas' \subseteq Listed' \cup replaced'
    <3>1. SUFFICES ASSUME NEW c \in Cells, NEW d \in Devices, <<c, d>> \in personas, <<c, d>> \notin replaced
                   PROVE  d \in devs'[c]
      BY <1>0, <1>22, <1>b DEF DownSpec
    <3>2. d \in devs[c] /\ c # w.item
      <4>1. <<c, d>> \in Listed
        BY <3>1
      <4>2. d \in devs[c]
        BY <1>a, <4>1
      <4>3. QED
        BY <1>22, <3>1, <4>2 DEF DownSpec
    <3>3. QED
      BY <1>22, <3>2 DEF DownSpec
  <2>3. QED
    BY <1>0, <1>22, <2>1, <2>2 DEF DownSpec
<1>23. CASE Reboot
  BY <1>0, <1>23, <1>c, Moves DEF Reboot
<1>24. ASSUME NEW l \in Labs, SensorDies(l) \/ AgentDies(l) PROVE Sound'
  BY <1>24, <1>c DEF SensorDies, AgentDies
<1>25. CASE UNCHANGED <<desired, lab, cell, w>>
  BY <1>25, <1>c
<1>26. CASE \/ AskReconcile
            \/ \E l \in Labs : BuildLab(l) \/ SubmitBuild(l) \/ TeardownLab(l) \/ DeleteLabRow(l)
            \/ \E c \in Cells : TeardownCell(c) \/ \E D \in SUBSET Devices : DeployCell(c, D)
  BY <1>25, <1>26 DEF AskReconcile, BuildLab, SubmitBuild, TeardownLab, DeleteLabRow, DeployCell, TeardownCell, Ask
<1>27. QED
  BY <1>2, <1>3, <1>4, <1>6, <1>7, <1>8, <1>9, <1>10, <1>11, <1>12, <1>13, <1>14, <1>15, <1>16, <1>17, <1>18, <1>19,
     <1>20, <1>21, <1>22, <1>23, <1>24, <1>26, <1>28, <1>29 DEF Next, Watcher

\* The inductive invariant holds at first and is kept by every step.
LEMMA HostInvInductive ==
    /\ Init => HostInv
    /\ HostInv /\ [Next]_vars => HostInv'
<1>1. ASSUME Init PROVE HostInv
  <2>1. w.at = "boot" /\ w.todo = {}
    BY <1>1 DEF Init, Boot
  <2>2. Sound
    BY <1>1, <2>1 DEF Init, Sound, NoOrphans, SensorIsTrusted, Composed, Progress, LabStages, CellStages, TearLab, TearCell
  <2>3. QED
    BY <1>1, <2>2, TypeInit DEF HostInv
<1>2. ASSUME HostInv, [Next]_vars PROVE HostInv'
  <2>1. TypeOK /\ Placed /\ TypeOK' /\ Placed'
    BY <1>2, TypeStep DEF HostInv
  <2>2. CASE Next
    <3>1. scope' = scope
      BY <2>1, <2>2, TableStep
    <3>2. QED
      BY <1>2, <2>1, <2>2, <3>1, SoundStep DEF HostInv
  <2>3. CASE UNCHANGED vars
    BY <1>2, <2>1, <2>3 DEF HostInv, Sound, NoOrphans, SensorIsTrusted, Composed, Progress, Listed, vars
  <2>4. QED
    BY <1>2, <2>2, <2>3
<1>3. QED
  BY <1>1, <1>2

\* Through crashes, reboots and failing operations the specs account for everything on
\* the host (_handle_request writes the spec first, _deprovision deletes it last).
THEOREM HostNoOrphans == Spec => []NoOrphans
<1>1. HostInv => NoOrphans
  BY DEF HostInv, Sound, NoOrphans
<1>2. QED
  BY <1>1, HostInvInductive, PTL DEF Spec

\* A teardown never takes the trust in a registry from a sensor that still runs
\* (untrust_registry_if_unused counts the specs, not the containers).
THEOREM HostSensorIsTrusted == Spec => []SensorIsTrusted
<1>1. HostInv => SensorIsTrusted
  BY DEF HostInv, Sound, SensorIsTrusted
<1>2. QED
  BY <1>1, HostInvInductive, PTL DEF Spec
=============================================================================
