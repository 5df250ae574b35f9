-------------------------- MODULE AgentUpdateProofs --------------------------
(***************************************************************************)
(* Proofs about AgentUpdate, for any set of fault models and any bounds.   *)
(***************************************************************************)
EXTENDS AgentUpdate, SequenceTheorems, TLAPS

\* A lost connection cuts the messages to the backend to some of the first ones.
LEMMA CutType == ASSUME up \in Seq(Message), Cut
                 PROVE  linked' \in BOOLEAN /\ down' \in Seq({"CONNECTED", "UPDATE_AGENT"})
                            /\ up' \in Seq(Message)
  <1>1. PICK n \in 0..Len(up) : up' = SubSeq(up, 1, n)
    BY DEF Cut
  <1>2. SubSeq(up, 1, n) \in Seq(Message)
    <2>1. Len(up) \in Nat
      OBVIOUS
    <2>2. n \in Int /\ \A i \in 1..n : up[i] \in Message
      BY <2>1
    <2>3. 1 \in Int
      OBVIOUS
    <2> HIDE <1>1
    <2> QED BY <2>2, <2>3, SubSeqProperties
  <1>3. down' \in Seq({"CONNECTED", "UPDATE_AGENT"})
    <2>1. down' = <<>>
      BY DEF Cut
    <2>2. <<>> \in Seq({"CONNECTED", "UPDATE_AGENT"})
      OBVIOUS
    <2> QED BY <2>1, <2>2
  <1>4. linked' \in BOOLEAN
    BY DEF Cut
  <1> QED BY <1>1, <1>2, <1>3, <1>4

\* The messages an agent sends.
LEMMA SentType == ASSUME up \in Seq(Message)
                  PROVE  /\ \A s \in UpdateStatuses :
                               Append(up, [type |-> "UPDATE_STATUS", status |-> s]) \in Seq(Message)
                         /\ \A i \in Images :
                               Append(up, [type |-> "HEARTBEAT", image |-> i]) \in Seq(Message)
  <1>1. \A m \in Message : Append(up, m) \in Seq(Message)
    OBVIOUS
  <1> QED BY <1>1 DEF Message

\* A message that is read.
LEMMA ReadType == ASSUME up \in Seq(Message), up # <<>>
                  PROVE  /\ Tail(up) \in Seq(Message)
                         /\ Head(up).type = "UPDATE_STATUS" => Head(up).status \in UpdateStatuses
                         /\ Head(up).type = "HEARTBEAT" => Head(up).image \in Images
  <1>1. Head(up) \in Message /\ Tail(up) \in Seq(Message)
    OBVIOUS
  <1> QED BY <1>1 DEF Message

\* What the actions do to a record of their component.
LEMMA RecordType ==
  ASSUME TypeOK
  PROVE  /\ NoUpdate \in Tracker
         /\ [status |-> "initiated", target |-> served, initiated |-> "recent"] \in Tracker
         /\ \A s \in UpdateStatuses : [tracker EXCEPT !.status = s] \in Tracker
         /\ [tracker EXCEPT !.initiated = "overdue"] \in Tracker
         /\ NewProcess \in Relay /\ Renewed(relay) \in Relay
         /\ [Renewed(relay) EXCEPT !.at = "sleep"] \in Relay
         /\ NoStatus \in StatusFile
         /\ \A s \in UpdateStatuses : [is |-> s, aged |-> FALSE] \in StatusFile
         /\ [status EXCEPT !.aged = TRUE] \in StatusFile
         /\ [online EXCEPT !.fresh = FALSE] \in OnlineFile
         /\ {"initiated", "queued", "downloading", "loading", "swapping", "complete", "failed"}
                = UpdateStatuses
  <1> USE DEF TypeOK
  <1>1. {"initiated", "queued", "downloading", "loading", "swapping", "complete", "failed"} = UpdateStatuses
    BY DEF UpdateStatuses, InFlight, Terminal
  <1>2. NoUpdate \in Tracker /\ NewProcess \in Relay /\ NoStatus \in StatusFile
    BY DEF NoUpdate, Tracker, NewProcess, Relay, NoStatus, StatusFile
  <1>3. [status |-> "initiated", target |-> served, initiated |-> "recent"] \in Tracker
    BY <1>1 DEF Tracker
  <1>4. \A s \in UpdateStatuses : [tracker EXCEPT !.status = s] \in Tracker
    BY DEF Tracker
  <1>5. [tracker EXCEPT !.initiated = "overdue"] \in Tracker
    BY DEF Tracker
  <1>6. Renewed(relay) \in Relay
    BY DEF Renewed, Relay
  <1>7. [Renewed(relay) EXCEPT !.at = "sleep"] \in Relay
    BY <1>6 DEF Relay
  <1>8. \A s \in UpdateStatuses : [is |-> s, aged |-> FALSE] \in StatusFile
    BY DEF StatusFile
  <1>9. [status EXCEPT !.aged = TRUE] \in StatusFile
    BY DEF StatusFile
  <1>10. [online EXCEPT !.fresh = FALSE] \in OnlineFile
    BY DEF OnlineFile
  <1> QED BY <1>1, <1>2, <1>3, <1>4, <1>5, <1>6, <1>7, <1>8, <1>9, <1>10

\* The supervisor moves from one point to another, and notes the old image.
LEMMA SupervisorType ==
  ASSUME TypeOK
  PROVE  /\ \A p \in {"poll", "request", "handle", "download", "load", "compare", "recreate", "wait",
                      "rollback", "restore"} : [supervisor EXCEPT !.at = p] \in SupervisorState
         /\ \A old \in Images \cup {"none"} : [at |-> "download", old |-> old] \in SupervisorState
         /\ [at |-> "poll", old |-> "none"] \in SupervisorState
  <1> USE DEF TypeOK, SupervisorState
  <1>1. \A p \in {"poll", "request", "handle", "download", "load", "compare", "recreate", "wait",
                  "rollback", "restore"} : [supervisor EXCEPT !.at = p] \in SupervisorState
    OBVIOUS
  <1>2. \A old \in Images \cup {"none"} : [at |-> "download", old |-> old] \in SupervisorState
    OBVIOUS
  <1>3. [at |-> "poll", old |-> "none"] \in SupervisorState
    OBVIOUS
  <1> QED BY <1>1, <1>2, <1>3

\* The host starts on an image that works.
LEMMA UpdateInit == Init => TypeOK /\ SwapInv
  <1> SUFFICES ASSUME Init PROVE TypeOK /\ SwapInv
    OBVIOUS
  <1>1. TypeOK
    <2>1. tracker \in Tracker /\ relay \in Relay /\ status \in StatusFile
      BY DEF Init, NoUpdate, NewProcess, NoStatus, Tracker, Relay, StatusFile
    <2>2. online \in OnlineFile /\ supervisor \in SupervisorState
      BY DEF Init, OnlineFile, SupervisorState
    <2>3. up \in Seq(Message) /\ down \in Seq({"CONNECTED", "UPDATE_AGENT"})
      <3>1. up = <<>> /\ down = <<>>
        BY DEF Init
      <3> QED BY <3>1
    <2>4. linked \in BOOLEAN /\ todo \in BOOLEAN /\ abandoned \in BOOLEAN
      BY DEF Init
    <2>5. /\ faults \in FaultModels /\ served \in Images /\ request \in {"idle", "initiate", "send"}
          /\ version \in Images \cup {"none"} /\ tag \in Images /\ container \in Images \cup {"none"}
          /\ updates \in Nat /\ drops \in Nat
      BY DEF Init, Images
    <2> QED BY <2>1, <2>2, <2>3, <2>4, <2>5 DEF TypeOK
  <1>2. SwapInv
    <2>1. supervisor.at = "poll" /\ online.image = "none" /\ ~linked
      BY DEF Init
    <2>2. container = "old" /\ tag = "old"
      BY DEF Init
    <2> QED BY <2>1, <2>2 DEF SwapInv, Working
  <1> QED BY <1>1, <1>2

\* One step per action; a heartbeat has an image only because a linked agent has a
\* container, which is a part of SwapInv.
LEMMA UpdateTypeStep == ASSUME TypeOK, SwapInv, [Next]_vars PROVE TypeOK'
  <1> USE RecordType, SupervisorType DEF TypeOK, fixed, backend, link, files, host, bounds
  <1>0. /\ up \in Seq(Message) /\ down \in Seq({"CONNECTED", "UPDATE_AGENT"})
        /\ <<>> \in Seq(Message) /\ <<>> \in Seq({"CONNECTED", "UPDATE_AGENT"})
        /\ down # <<>> => Tail(down) \in Seq({"CONNECTED", "UPDATE_AGENT"})
        /\ Append(down, "UPDATE_AGENT") \in Seq({"CONNECTED", "UPDATE_AGENT"})
    OBVIOUS
  <1>1. CASE TriggerUpdate \/ ClearUpdateStatus \/ ExpireStaleUpdates \/ DeadlinePasses \/ BackendRestart
    <2>1. CASE TriggerUpdate
      BY <2>1 DEF TriggerUpdate
    <2>2. CASE ClearUpdateStatus \/ ExpireStaleUpdates \/ DeadlinePasses
      BY <2>2 DEF ClearUpdateStatus, ExpireStaleUpdates, DeadlinePasses
    <2>3. CASE BackendRestart
      <3>1. up' \in Seq(Message) /\ down' \in Seq({"CONNECTED", "UPDATE_AGENT"})
        BY <2>3, <1>0 DEF BackendRestart
      <3>2. linked' \in BOOLEAN
        BY <2>3 DEF BackendRestart
      <3> QED BY <2>3, <3>1, <3>2 DEF BackendRestart
    <2> QED BY <1>1, <2>1, <2>2, <2>3
  <1>2. CASE Backend
    <2>1. CASE Initiate
      BY <2>1 DEF Initiate
    <2>2. CASE SendUpdate
      <3>1. tracker' \in Tracker
        BY <2>2 DEF SendUpdate
      <3>2. down' \in Seq({"CONNECTED", "UPDATE_AGENT"})
        BY <2>2, <1>0 DEF SendUpdate
      <3> QED BY <2>2, <3>1, <3>2 DEF SendUpdate
    <2>3. CASE HandleUpdateStatus
      BY <2>3, ReadType DEF HandleUpdateStatus
    <2>4. CASE ReconcileUpdateOnHeartbeat
      BY <2>4, ReadType DEF ReconcileUpdateOnHeartbeat
    <2> QED BY <1>2, <2>1, <2>2, <2>3, <2>4 DEF Backend
  <1>3. CASE AgentConnect \/ AgentHeartbeat
    <2>1. CASE AgentConnect
      BY <2>1 DEF AgentConnect
    <2>2. CASE AgentHeartbeat
      <3>1. container \in Images
        BY <2>2 DEF AgentHeartbeat, SwapInv, Working, Images
      <3> QED BY <2>2, <3>1, SentType DEF AgentHeartbeat
    <2> QED BY <1>3, <2>1, <2>2
  <1>4. CASE AgentDrop \/ AgentRestart
    BY <1>4, CutType DEF AgentDrop, AgentRestart, Recreate
  <1>5. CASE AgentProcess
    <2>1. CASE OnWsConnect
      <3>1. [image |-> container, fresh |-> TRUE] \in OnlineFile
        BY DEF OnlineFile
      <3>2. online' \in OnlineFile /\ down' \in Seq({"CONNECTED", "UPDATE_AGENT"})
        BY <2>1, <3>1, <1>0 DEF OnWsConnect
      <3> QED BY <2>1, <3>2 DEF OnWsConnect
    <2>2. CASE HandleUpdateAgent
      BY <2>2, SentType DEF HandleUpdateAgent
    <2>3. CASE HandleUpdateAgentFails
      BY <2>3, SentType DEF HandleUpdateAgentFails
    <2>4. CASE RelaySupervisorStatus
      <3>1. status.is \in UpdateStatuses /\ relay' \in Relay
        BY <2>4 DEF RelaySupervisorStatus, StatusFile, Relay
      <3> QED BY <2>4, <3>1, SentType DEF RelaySupervisorStatus
    <2>5. CASE RelayClears
      <3>1. [relay EXCEPT !.at = "sleep"] \in Relay
        BY DEF Relay
      <3>2. relay' \in Relay /\ status' \in StatusFile
        BY <2>5, <3>1 DEF RelayClears
      <3> QED BY <2>5, <3>2 DEF RelayClears
    <2> QED BY <1>5, <2>1, <2>2, <2>3, <2>4, <2>5 DEF AgentProcess
  <1>6. CASE Supervisor
    <2> USE DEF At, Write, CatchAll, Publish, Step
    <2>1. CASE \/ ReadRequest \/ ClearRequest \/ ClearRequestFails \/ Download \/ DownloadFails \/ AlreadyCurrent
               \/ WaitHealthy \/ HealthTimeout \/ RecreateRaises
      BY <2>1 DEF ReadRequest, ClearRequest, ClearRequestFails, Download, DownloadFails, AlreadyCurrent,
                  WaitHealthy, HealthTimeout, RecreateRaises
    <2>2. CASE HandleRequest
      BY <2>2 DEF HandleRequest
    <2>3. CASE Load \/ LoadFails \/ LoadEmpty
      BY <2>3 DEF Load, LoadFails, LoadEmpty
    <2>4. CASE BeginSwap
      BY <2>4 DEF BeginSwap
    <2>5. CASE RecreateAgent
      BY <2>5, CutType DEF RecreateAgent, Recreate
    <2>6. CASE RecreateFails
      <3>1. /\ container' \in Images \cup {"none"} /\ linked' \in BOOLEAN /\ up' \in Seq(Message)
            /\ down' \in Seq({"CONNECTED", "UPDATE_AGENT"})
        BY <2>6, CutType DEF RecreateFails, RecreateRaises, Recreate
      <3>2. Renewed(NewProcess) \in Relay
        BY DEF Renewed, NewProcess, Relay
      <3>3. supervisor' \in SupervisorState /\ status' \in StatusFile /\ relay' \in Relay
        BY <2>6, <3>2 DEF RecreateFails
      <3>4. abandoned' \in BOOLEAN
        BY <2>6 DEF RecreateFails
      <3> QED BY <2>6, <3>1, <3>3, <3>4 DEF RecreateFails
    <2>7. CASE RollbackUnavailable \/ RollbackTag
      BY <2>7 DEF RollbackUnavailable, RollbackTag, SupervisorState
    <2>8. CASE RollbackRecreate \/ RollbackFails
      <3>1. Renewed(NewProcess) \in Relay
        BY DEF Renewed, NewProcess, Relay
      <3>2. CASE RollbackRecreate
        BY <3>1, <3>2, CutType DEF RollbackRecreate, Recreate
      <3>3. CASE RollbackFails
        BY <3>3, CutType DEF RollbackFails, Recreate
      <3> QED BY <2>8, <3>2, <3>3
    <2> QED BY <1>6, <2>1, <2>2, <2>3, <2>4, <2>5, <2>6, <2>7, <2>8 DEF Supervisor
  <1>7. CASE BootReconcile
    BY <1>7, CutType DEF BootReconcile, Recreate
  <1>8. CASE StatusAges
    BY <1>8 DEF StatusAges
  <1>9. CASE UNCHANGED vars
    BY <1>9 DEF vars
  <1> QED BY <1>1, <1>2, <1>3, <1>4, <1>5, <1>6, <1>7, <1>8, <1>9 DEF Next

\* One step per action that moves the container, the tag, the supervisor, the link
\* or what agent-online says; the others leave all of them alone.
LEMMA UpdateSwapStep == ASSUME TypeOK, SwapInv, [Next]_vars PROVE SwapInv'
  <1> USE DEF SwapInv, RollbackWorks, DockerWorks, Unwritable, Working, fixed, backend, link, files, host, bounds
  <1>1. CASE \/ TriggerUpdate \/ ClearUpdateStatus \/ ExpireStaleUpdates \/ DeadlinePasses
             \/ AgentHeartbeat \/ StatusAges
    BY <1>1 DEF TriggerUpdate, ClearUpdateStatus, ExpireStaleUpdates, DeadlinePasses, AgentHeartbeat, StatusAges
  <1>2. CASE Backend
    BY <1>2 DEF Backend, Initiate, SendUpdate, HandleUpdateStatus, ReconcileUpdateOnHeartbeat
  <1>3. CASE BackendRestart
    BY <1>3 DEF BackendRestart
  <1>4. CASE AgentConnect \/ AgentDrop \/ AgentRestart
    BY <1>4 DEF AgentConnect, AgentDrop, AgentRestart, Recreate, Cut
  <1>5. CASE AgentProcess
    BY <1>5 DEF AgentProcess, OnWsConnect, HandleUpdateAgent, HandleUpdateAgentFails,
                RelaySupervisorStatus, RelayClears
  <1>6. CASE Supervisor
    <2> USE DEF At, Step, Publish, CatchAll
    <2>1. CASE ReadRequest \/ ClearRequest \/ ClearRequestFails
      BY <2>1 DEF ReadRequest, ClearRequest, ClearRequestFails, TypeOK, SupervisorState
    <2>2. CASE HandleRequest
      BY <2>2 DEF HandleRequest, TypeOK, SupervisorState, Images
    <2>3. CASE Download \/ DownloadFails
      BY <2>3 DEF Download, DownloadFails, TypeOK, SupervisorState
    <2>4. CASE Load
      BY <2>4 DEF Load, TypeOK, SupervisorState, Images
    <2>5. CASE LoadFails \/ LoadEmpty \/ RecreateRaises
      BY <2>5 DEF LoadFails, LoadEmpty, RecreateRaises
    <2>6. CASE AlreadyCurrent
      BY <2>6 DEF AlreadyCurrent, TypeOK, SupervisorState
    <2>7. CASE BeginSwap
      BY <2>7 DEF BeginSwap, TypeOK, SupervisorState
    <2>8. CASE RecreateAgent
      BY <2>8 DEF RecreateAgent, Recreate, Cut, TypeOK, SupervisorState
    <2>9. CASE RecreateFails
      BY <2>9 DEF RecreateFails, RecreateRaises, Recreate, Cut, TypeOK, SupervisorState
    <2>10. CASE WaitHealthy
      BY <2>10 DEF WaitHealthy, TypeOK, SupervisorState
    <2>11. CASE HealthTimeout
      BY <2>11 DEF HealthTimeout, TypeOK, SupervisorState
    <2>12. CASE RollbackUnavailable \/ RollbackTag
      BY <2>12 DEF RollbackUnavailable, RollbackTag, TypeOK, SupervisorState
    <2>13. CASE RollbackRecreate
      BY <2>13 DEF RollbackRecreate, Recreate, Cut, TypeOK, SupervisorState
    <2>14. CASE RollbackFails
      BY <2>14 DEF RollbackFails, Recreate, Cut
    <2> QED BY <1>6, <2>1, <2>2, <2>3, <2>4, <2>5, <2>6, <2>7, <2>8, <2>9, <2>10, <2>11, <2>12, <2>13, <2>14
            DEF Supervisor
  <1>7. CASE BootReconcile
    BY <1>7 DEF BootReconcile, Recreate, Cut
  <1>8. CASE UNCHANGED vars
    BY <1>8 DEF vars
  <1> QED BY <1>1, <1>2, <1>3, <1>4, <1>5, <1>6, <1>7, <1>8 DEF Next

\* Together the two are inductive.
LEMMA UpdateInductive == Spec => [](TypeOK /\ SwapInv)
  <1>1. TypeOK /\ SwapInv /\ [Next]_vars => (TypeOK /\ SwapInv)'
    BY UpdateTypeStep, UpdateSwapStep
  <1> QED BY <1>1, UpdateInit, PTL DEF Spec

\* The variables of an update keep their types (AgentUpdate), whatever fails.
THEOREM UpdateTypeOK == Spec => []TypeOK
  BY UpdateInductive, PTL

\* The rollback is safe (supervisor.py): for any fault model that leaves docker able
\* to roll back and the supervisor alive and able to write its status, and any number of updates and lost
\* connections, the agent is on a working image between two updates.
THEOREM UpdateNeverStranded == Spec => []NeverStranded
  <1>1. SwapInv => NeverStranded
    BY DEF SwapInv, NeverStranded
  <1> QED BY <1>1, UpdateInductive, PTL

\* The faults and the served image do not change, and what is abandoned stays so.
LEMMA FixedStep == ASSUME [Next]_vars PROVE faults' = faults /\ served' = served /\ (abandoned => abandoned')
  <1>1. faults' = faults /\ served' = served
    BY DEF Next, vars, fixed, backend, link, files, host, bounds,
           Backend, AgentProcess, Supervisor, TriggerUpdate, ClearUpdateStatus, Initiate, SendUpdate,
           HandleUpdateStatus, ReconcileUpdateOnHeartbeat, ExpireStaleUpdates, DeadlinePasses, BackendRestart,
           AgentConnect, OnWsConnect, HandleUpdateAgent, HandleUpdateAgentFails, RelaySupervisorStatus,
           RelayClears, AgentHeartbeat, AgentDrop, AgentRestart, Step, ReadRequest, ClearRequest, ClearRequestFails, HandleRequest,
           Download, DownloadFails, Load, LoadFails, LoadEmpty, AlreadyCurrent, BeginSwap, RecreateAgent,
           RecreateFails, RecreateRaises, WaitHealthy, HealthTimeout, RollbackUnavailable, RollbackTag, RollbackRecreate,
           RollbackFails, BootReconcile, StatusAges
  <1>2. ASSUME abandoned PROVE abandoned'
    <2>1. CASE HealthTimeout \/ RecreateFails
      BY <1>2, <2>1 DEF HealthTimeout, RecreateFails
    <2>2. CASE ~(HealthTimeout \/ RecreateFails)
      <3>1. abandoned' = abandoned
        BY <2>2 DEF Next, vars, fixed, backend, link, files, host, bounds,
                Backend, AgentProcess, Supervisor, TriggerUpdate, ClearUpdateStatus, Initiate, SendUpdate,
                HandleUpdateStatus, ReconcileUpdateOnHeartbeat, ExpireStaleUpdates, DeadlinePasses, BackendRestart,
                AgentConnect, OnWsConnect, HandleUpdateAgent, HandleUpdateAgentFails, RelaySupervisorStatus,
                RelayClears, AgentHeartbeat, AgentDrop, AgentRestart, ReadRequest, ClearRequest, ClearRequestFails, HandleRequest,
                Download, DownloadFails, Load, LoadFails, LoadEmpty, AlreadyCurrent, BeginSwap, RecreateAgent,
                RecreateRaises, WaitHealthy, RollbackUnavailable, RollbackTag, RollbackRecreate,
                RollbackFails, BootReconcile, StatusAges
      <3> QED BY <1>2, <3>1
    <2> QED BY <2>1, <2>2
  <1> QED BY <1>1, <1>2

\* A step of the update is a step of the abstract swap, or leaves it alone.
LEMMA UpdateSwapsSafely == ASSUME TypeOK, SwapInv, [Next]_vars PROVE [Swap!Next]_(Swap!vars)
  <1> USE DEF Swap!Next, Swap!vars, Trying, RollbackWorks, DockerWorks, Unwritable, fixed, backend, link, files, host, bounds
  <1>0. faults' = faults /\ served' = served
    BY FixedStep
  <1>a. CASE ~RollbackWorks
    BY <1>0, <1>a
  <1>b. CASE RollbackWorks
    <2>1. CASE \/ TriggerUpdate \/ ClearUpdateStatus \/ ExpireStaleUpdates \/ DeadlinePasses
               \/ AgentHeartbeat \/ StatusAges \/ BackendRestart \/ AgentConnect
      BY <2>1 DEF TriggerUpdate, ClearUpdateStatus, ExpireStaleUpdates, DeadlinePasses, AgentHeartbeat,
                  StatusAges, BackendRestart, AgentConnect
    <2>2. CASE Backend
      BY <2>2 DEF Backend, Initiate, SendUpdate, HandleUpdateStatus, ReconcileUpdateOnHeartbeat
    <2>3. CASE AgentDrop \/ AgentRestart
      BY <2>3 DEF AgentDrop, AgentRestart, Recreate
    <2>4. CASE AgentProcess
      BY <2>4 DEF AgentProcess, OnWsConnect, HandleUpdateAgent, HandleUpdateAgentFails,
                  RelaySupervisorStatus, RelayClears
    <2>5. CASE Supervisor
      <3> USE DEF At, Step, Publish, CatchAll, Working, TypeOK, SupervisorState
      <3>1. CASE \/ ReadRequest \/ ClearRequest \/ ClearRequestFails \/ HandleRequest \/ Download \/ DownloadFails
                 \/ Load \/ LoadFails \/ LoadEmpty \/ AlreadyCurrent
        BY <3>1 DEF ReadRequest, ClearRequest, ClearRequestFails, HandleRequest, Download, DownloadFails, Load, LoadFails,
                    LoadEmpty, AlreadyCurrent
      <3>2. CASE BeginSwap
        <4>1. Swap!Begin
          BY <1>0, <1>b, <3>2 DEF BeginSwap, Swap!Begin, SwapInv
        <4> QED BY <4>1
      <3>3. CASE RecreateAgent
        <4>1. Swap!Try
          BY <1>0, <1>b, <3>3 DEF RecreateAgent, Recreate, Swap!Try, SwapInv
        <4> QED BY <4>1
      <3>4. CASE RecreateFails
        <4>1. Swap!Try \/ UNCHANGED Swap!vars
          BY <1>0, <1>b, <3>4 DEF RecreateFails, RecreateRaises, Recreate, Swap!Try, SwapInv
        <4> QED BY <4>1
      <3>5. CASE WaitHealthy
        <4>1. Swap!Keep
          BY <1>0, <1>b, <3>5 DEF WaitHealthy, Swap!Keep, SwapInv, OnlineFile, Images
        <4> QED BY <4>1
      <3>6. CASE HealthTimeout \/ RollbackTag
        BY <1>0, <3>6 DEF HealthTimeout, RollbackTag
      <3>7. CASE RollbackUnavailable
        BY <1>b, <3>7 DEF RollbackUnavailable, SwapInv
      <3>8. CASE RollbackRecreate
        <4>1. Swap!Restore
          BY <1>0, <1>b, <3>8 DEF RollbackRecreate, Recreate, Swap!Restore, SwapInv
        <4> QED BY <4>1
      <3>9. CASE RollbackFails
        BY <1>b, <3>9 DEF RollbackFails
      <3>10. CASE RecreateRaises
        BY <1>b, <3>10 DEF RecreateRaises
      <3> QED BY <2>5, <3>1, <3>2, <3>3, <3>4, <3>5, <3>6, <3>7, <3>8, <3>9, <3>10 DEF Supervisor
    <2>6. CASE BootReconcile
      BY <1>b, <2>6 DEF BootReconcile
    <2>7. CASE UNCHANGED vars
      BY <2>7 DEF vars
    <2> QED BY <2>1, <2>2, <2>3, <2>4, <2>5, <2>6, <2>7 DEF Next
  <1> QED BY <1>a, <1>b

\* The update protocol of agent_manager.py, main.py and supervisor.py implements
\* SafeSwap, for any fault models and any bounds.
THEOREM UpdateImplementsSafeSwap == Spec => ImplementsSafeSwap
  <1>1. Init => Swap!Init
    BY DEF Init, Swap!Init, Trying, Working
  <1>2. TypeOK /\ SwapInv /\ [Next]_vars => [Swap!Next]_(Swap!vars)
    BY UpdateSwapsSafely
  <1> QED BY <1>1, <1>2, UpdateInductive, PTL DEF Spec, ImplementsSafeSwap, Swap!Spec
-----------------------------------------------------------------------------
(* What the backend is told of the end of an update *)

\* The message says that image v runs.
Claims(m, v) ==
    \/ m.type = "UPDATE_STATUS" /\ m.status = "complete"
    \/ m.type = "HEARTBEAT" /\ m.image = v

\* So does one of the messages of q.
ClaimedIn(q, v) == \E i \in 1..Len(q) : Claims(q[i], v)

\* The status file, or a message the backend has not read, says that the served
\* image runs.
Claimed == status.is = "complete" \/ ClaimedIn(up, served)

\* No trial goes back from the served image.
Settled ==
    /\ tag = served
    /\ supervisor.at \in {"download", "load", "compare", "recreate"} => supervisor.old \in {served, "none"}
    /\ supervisor.at = "rollback" \/ (supervisor.at = "wait" /\ served = "bad") => supervisor.old = "none"
    /\ supervisor.at # "restore"

\* What is in place at every point of an update, where the host is certain.
TrialInv ==
    /\ supervisor.at \in {"poll", "request", "handle", "download", "load"} /\ tag = served
          => container = served
    /\ supervisor.at \in {"download", "load"} => supervisor.old \in {tag, "none"}
    /\ supervisor.at = "compare" /\ supervisor.old = served => container = served
    /\ supervisor.at \in {"compare", "recreate", "wait", "rollback"} => tag = served
    /\ supervisor.at \in {"recreate", "wait", "rollback", "restore"} => supervisor.old # served
    /\ supervisor.at = "wait" => container = served
    /\ supervisor.at = "restore" => tag = supervisor.old
    /\ supervisor.at \in {"rollback", "restore"} =>
          IF "compose" \in faults THEN served = "bad" \/ container # served
          ELSE served = "bad" /\ (supervisor.at = "rollback" => container = served)
    /\ container = served /\ served # "bad" => Settled

\* A claim stays true until it is read, and the target of an update is the served
\* image.
ClaimInv ==
    /\ tracker.target \in {served, "none"}
    /\ HostCertain => TrialInv /\ (Claimed => container = served /\ Settled)

LEMMA ClaimInit == Init => ClaimInv
  <1> SUFFICES ASSUME Init PROVE ClaimInv
    OBVIOUS
  <1>1. supervisor.at = "poll" /\ tag = "old" /\ container = "old" /\ status.is = "none" /\ up = <<>>
    BY DEF Init, NoStatus
  <1>2. tracker.target = "none"
    BY DEF Init, NoUpdate
  <1>3. ~Claimed
    BY <1>1 DEF Claimed, ClaimedIn
  <1>4. TrialInv
    BY <1>1 DEF TrialInv, Settled
  <1> QED BY <1>2, <1>3, <1>4 DEF ClaimInv

\* The steps that touch neither docker nor the supervisor.
Elsewhere == UNCHANGED <<supervisor, tag, container>>

LEMMA ElsewhereStep ==
  ASSUME TypeOK, [Next]_vars
  PROVE  Elsewhere \/ (Supervisor \/ BootReconcile)
  <1> USE DEF Elsewhere, fixed, backend, link, files, host, bounds
  <1>1. CASE \/ TriggerUpdate \/ ClearUpdateStatus \/ ExpireStaleUpdates \/ DeadlinePasses \/ BackendRestart
             \/ AgentConnect \/ AgentHeartbeat \/ AgentDrop \/ StatusAges
    BY <1>1 DEF TriggerUpdate, ClearUpdateStatus, ExpireStaleUpdates, DeadlinePasses, BackendRestart,
                AgentConnect, AgentHeartbeat, AgentDrop, StatusAges
  <1>2. CASE Backend
    BY <1>2 DEF Backend, Initiate, SendUpdate, HandleUpdateStatus, ReconcileUpdateOnHeartbeat
  <1>3. CASE AgentProcess
    BY <1>3 DEF AgentProcess, OnWsConnect, HandleUpdateAgent, HandleUpdateAgentFails, RelaySupervisorStatus,
                RelayClears
  <1>4. CASE AgentRestart
    BY <1>4 DEF AgentRestart, Recreate
  <1>5. CASE UNCHANGED vars
    BY <1>5 DEF vars
  <1> QED BY <1>1, <1>2, <1>3, <1>4, <1>5 DEF Next

\* A host that is certain was so before.
LEMMA CertainStep == ASSUME [Next]_vars, HostCertain' PROVE HostCertain
  BY FixedStep DEF HostCertain, RollbackWorks, DockerWorks, Unwritable

\* A trial leaves the served image in place, or was never on it.
LEMMA TrialStep ==
  ASSUME TypeOK, SwapInv, HostCertain', TrialInv, [Next]_vars
  PROVE  TrialInv' /\ (container = served /\ Settled => container' = served /\ Settled')
  <1> USE FixedStep DEF TrialInv, Settled
  <1>1. CASE Elsewhere
    BY <1>1 DEF Elsewhere
  <1>2. CASE Supervisor
    <2> USE DEF At, Step, Publish, CatchAll, Unwritable, TypeOK, SupervisorState, HostCertain
    <2>1. CASE ReadRequest \/ ClearRequest \/ ClearRequestFails
      BY <2>1 DEF ReadRequest, ClearRequest, ClearRequestFails
    <2>2. CASE HandleRequest
      BY <2>2 DEF HandleRequest
    <2>3. CASE Download \/ DownloadFails
      BY <2>3 DEF Download, DownloadFails, SwapInv
    <2>4. CASE Load
      BY <2>4 DEF Load, Images
    <2>5. CASE LoadFails \/ LoadEmpty \/ RecreateRaises
      BY <2>5, CertainStep DEF LoadFails, LoadEmpty, RecreateRaises
    <2>6. CASE AlreadyCurrent
      BY <2>6 DEF AlreadyCurrent
    <2>7. CASE BeginSwap
      BY <2>7 DEF BeginSwap
    <2>8. CASE RecreateAgent
      BY <2>8 DEF RecreateAgent, Recreate
    <2>9. CASE RecreateFails
      <3>1. supervisor.at = "recreate" /\ RollbackWorks
        BY <2>9, CertainStep DEF RecreateFails
      <3>2. supervisor.old = container /\ container # served /\ "compose" \in faults
        BY <2>9, <3>1 DEF RecreateFails, RecreateRaises, SwapInv
      <3>3. /\ container' \in {"none", container, served} /\ tag' = tag
            /\ supervisor' = [supervisor EXCEPT !.at = "rollback"]
        BY <2>9, CertainStep DEF RecreateFails, RecreateRaises, Recreate
      <3>5. container' \notin Working
        BY <2>9 DEF RecreateFails
      <3>6. container' = served => served = "bad"
        BY <3>5 DEF Working, Images
      <3>4. served # "none"
        BY DEF Images
      <3> QED BY <3>1, <3>2, <3>3, <3>4, <3>6
    <2>10. CASE WaitHealthy
      BY <2>10 DEF WaitHealthy, SwapInv
    <2>11. CASE HealthTimeout
      <3>1. supervisor.at = "wait" /\ container = served /\ tag' = tag /\ container' = container
        BY <2>11 DEF HealthTimeout
      <3>2. supervisor' = [supervisor EXCEPT !.at = "rollback"]
        BY <2>11, CertainStep DEF HealthTimeout
      <3>3. container \notin Working
        BY <2>11 DEF HealthTimeout
      <3>4. served = "bad"
        BY <3>1, <3>3 DEF Working, Images
      <3> QED BY <3>1, <3>2, <3>4
    <2>12. CASE RollbackUnavailable
      BY <2>12, CertainStep DEF RollbackUnavailable, SwapInv, Working
    <2>13. CASE RollbackTag
      BY <2>13 DEF RollbackTag
    <2>14. CASE RollbackRecreate
      BY <2>14 DEF RollbackRecreate, Recreate
    <2>15. CASE RollbackFails
      BY <2>15, CertainStep DEF RollbackFails, Recreate, RollbackWorks, DockerWorks
    <2> QED BY <1>2, <2>1, <2>2, <2>3, <2>4, <2>5, <2>6, <2>7, <2>8, <2>9, <2>10, <2>11, <2>12, <2>13, <2>14, <2>15
            DEF Supervisor
  <1>3. CASE BootReconcile
    BY <1>3, CertainStep DEF BootReconcile, Recreate, HostCertain, RollbackWorks, DockerWorks, TypeOK, SupervisorState
  <1> QED BY <1>1, <1>2, <1>3, ElsewhereStep

\* A message that is sent may be a claim; one that is read or lost leaves no new one.
LEMMA ClaimFact ==
  ASSUME NEW q \in Seq(Message), NEW v
  PROVE  /\ ~ClaimedIn(<<>>, v)
         /\ \A m \in Message : ClaimedIn(Append(q, m), v) => ClaimedIn(q, v) \/ Claims(m, v)
         /\ \A n \in 0..Len(q) : ClaimedIn(SubSeq(q, 1, n), v) => ClaimedIn(q, v)
         /\ q # <<>> => /\ ClaimedIn(Tail(q), v) => ClaimedIn(q, v)
                        /\ Claims(Head(q), v) => ClaimedIn(q, v)
  <1>1. ~ClaimedIn(<<>>, v)
    BY DEF ClaimedIn
  <1>2. ASSUME NEW m \in Message, ClaimedIn(Append(q, m), v) PROVE ClaimedIn(q, v) \/ Claims(m, v)
    <2>1. PICK i \in 1..Len(Append(q, m)) : Claims(Append(q, m)[i], v)
      BY <1>2 DEF ClaimedIn
    <2>2. (i \in 1..Len(q) /\ Append(q, m)[i] = q[i]) \/ Append(q, m)[i] = m
      BY <2>1
    <2> QED BY <2>1, <2>2 DEF ClaimedIn
  <1>3. ASSUME NEW n \in 0..Len(q), ClaimedIn(SubSeq(q, 1, n), v) PROVE ClaimedIn(q, v)
    <2>1. PICK i \in 1..Len(SubSeq(q, 1, n)) : Claims(SubSeq(q, 1, n)[i], v)
      BY <1>3 DEF ClaimedIn
    <2>2. i \in 1..Len(q) /\ SubSeq(q, 1, n)[i] = q[i]
      BY <1>3, <2>1
    <2> QED BY <2>1, <2>2 DEF ClaimedIn
  <1>4. ASSUME q # <<>>, ClaimedIn(Tail(q), v) PROVE ClaimedIn(q, v)
    <2>1. PICK i \in 1..Len(Tail(q)) : Claims(Tail(q)[i], v)
      BY <1>4 DEF ClaimedIn
    <2>2. i + 1 \in 1..Len(q) /\ Tail(q)[i] = q[i + 1]
      BY <1>4, <2>1
    <2> QED BY <2>1, <2>2 DEF ClaimedIn
  <1>5. ASSUME q # <<>>, Claims(Head(q), v) PROVE ClaimedIn(q, v)
    <2>1. 1 \in 1..Len(q) /\ Head(q) = q[1]
      BY <1>5, EmptySeq
    <2> QED BY <1>5, <2>1 DEF ClaimedIn
  <1> QED BY <1>1, <1>2, <1>3, <1>4, <1>5

\* A lost connection makes no claim.
LEMMA ClaimCut ==
  ASSUME TypeOK, Cut, served' = served, ClaimedIn(up', served')
  PROVE  ClaimedIn(up, served)
  <1>1. PICK n \in 0..Len(up) : up' = SubSeq(up, 1, n)
    BY DEF Cut
  <1>2. up \in Seq(Message)
    BY DEF TypeOK
  <1> QED BY <1>1, <1>2, ClaimFact

\* Where a new claim comes from: a heartbeat of the agent that runs the served image,
\* or the supervisor that found it in place or saw it connect.
LEMMA NewClaim ==
  ASSUME TypeOK, SwapInv, [Next]_vars, ~Claimed, Claimed'
  PROVE  (AgentHeartbeat /\ container = served) \/ AlreadyCurrent \/ WaitHealthy
  <1> USE FixedStep DEF fixed, backend, link, files, host, bounds
  <1> DEFINE Told == ClaimedIn(up, served)
             Told1 == ClaimedIn(up', served')
  <1>0. up \in Seq(Message) /\ ~Told /\ status.is # "complete" /\ (Told1 \/ status'.is = "complete")
    BY DEF TypeOK, Claimed
  <1>1. up' = up => ~Told1
    BY <1>0
  <1>2. \A s \in UpdateStatuses \ {"complete"} :
            up' = Append(up, [type |-> "UPDATE_STATUS", status |-> s]) => ~Told1
    <2> SUFFICES ASSUME NEW s \in UpdateStatuses \ {"complete"},
                        up' = Append(up, [type |-> "UPDATE_STATUS", status |-> s])
                 PROVE  ~Told1
      OBVIOUS
    <2>1. [type |-> "UPDATE_STATUS", status |-> s] \in Message
      BY DEF Message
    <2>2. ~Claims([type |-> "UPDATE_STATUS", status |-> s], served)
      BY DEF Claims
    <2> QED BY <1>0, <2>1, <2>2, ClaimFact
  <1>3. up # <<>> /\ up' = Tail(up) => ~Told1
    BY <1>0, ClaimFact
  <1>4. up' = <<>> => ~Told1
    BY <1>0, ClaimFact
  <1>5. Cut => ~Told1
    BY <1>0, ClaimCut
  <1>6. {"queued", "failed"} \subseteq UpdateStatuses \ {"complete"}
    BY DEF UpdateStatuses, InFlight, Terminal
  <1> HIDE DEF Told, Told1
  <1>11. CASE TriggerUpdate \/ ClearUpdateStatus \/ ExpireStaleUpdates \/ DeadlinePasses \/ AgentConnect
    BY <1>0, <1>1, <1>11 DEF TriggerUpdate, ClearUpdateStatus, ExpireStaleUpdates, DeadlinePasses, AgentConnect
  <1>12. CASE BackendRestart
    BY <1>0, <1>4, <1>12 DEF BackendRestart
  <1>13. CASE Backend
    BY <1>0, <1>1, <1>3, <1>13 DEF Backend, Initiate, SendUpdate, HandleUpdateStatus, ReconcileUpdateOnHeartbeat
  <1>14. CASE AgentProcess
    <2>1. CASE OnWsConnect \/ RelayClears
      BY <1>0, <1>1, <2>1 DEF OnWsConnect, RelayClears, NoStatus
    <2>2. CASE HandleUpdateAgent
      BY <1>0, <1>2, <1>6, <2>2 DEF HandleUpdateAgent, NoStatus
    <2>3. CASE HandleUpdateAgentFails
      BY <1>0, <1>2, <1>6, <2>3 DEF HandleUpdateAgentFails, NoStatus
    <2>4. CASE RelaySupervisorStatus
      <3>1. status.is \in UpdateStatuses \ {"complete"}
        BY <1>0, <2>4 DEF RelaySupervisorStatus, TypeOK, StatusFile
      <3> QED BY <1>0, <1>1, <1>2, <2>4, <3>1 DEF RelaySupervisorStatus
    <2> QED BY <1>14, <2>1, <2>2, <2>3, <2>4 DEF AgentProcess
  <1>15. CASE AgentHeartbeat
    <2>1. container \in Images
      BY <1>15 DEF AgentHeartbeat, SwapInv, Working, Images
    <2>2. [type |-> "HEARTBEAT", image |-> container] \in Message
      BY <2>1 DEF Message
    <2>3. ClaimedIn(up', served)
      BY <1>0, <1>15 DEF AgentHeartbeat, Told1
    <2>4. Claims([type |-> "HEARTBEAT", image |-> container], served)
      BY <1>0, <1>15, <2>2, <2>3, ClaimFact DEF AgentHeartbeat, Told
    <2> QED BY <1>15, <2>4 DEF Claims
  <1>16. CASE AgentDrop \/ AgentRestart
    BY <1>0, <1>5, <1>16 DEF AgentDrop, AgentRestart, Recreate
  <1>17. CASE Supervisor
    <2> USE DEF Step, Publish, CatchAll, Write
    <2>1. CASE ReadRequest \/ ClearRequest \/ ClearRequestFails \/ HandleRequest \/ Download \/ DownloadFails
      BY <1>0, <1>1, <2>1 DEF ReadRequest, ClearRequest, ClearRequestFails, HandleRequest, Download, DownloadFails
    <2>2. CASE Load \/ LoadFails \/ LoadEmpty \/ BeginSwap \/ HealthTimeout \/ RollbackUnavailable \/ RollbackTag
      BY <1>0, <1>1, <2>2 DEF Load, LoadFails, LoadEmpty, BeginSwap, HealthTimeout, RollbackUnavailable, RollbackTag
    <2>3. CASE RecreateAgent \/ RecreateFails \/ RecreateRaises \/ RollbackRecreate \/ RollbackFails
      BY <1>0, <1>1, <1>5, <2>3 DEF RecreateAgent, RecreateFails, RecreateRaises, RollbackRecreate, RollbackFails, Recreate
    <2> QED BY <1>17, <2>1, <2>2, <2>3 DEF Supervisor
  <1>18. CASE BootReconcile
    BY <1>0, <1>1, <1>5, <1>18 DEF BootReconcile, Recreate
  <1>19. CASE StatusAges
    BY <1>0, <1>1, <1>19 DEF StatusAges, TypeOK, StatusFile
  <1>20. CASE UNCHANGED vars
    BY <1>0, <1>1, <1>20 DEF vars
  <1> QED BY <1>11, <1>12, <1>13, <1>14, <1>15, <1>16, <1>17, <1>18, <1>19, <1>20 DEF Next

\* Claims stay true.
LEMMA ClaimStep == ASSUME TypeOK, SwapInv, ClaimInv, [Next]_vars PROVE ClaimInv'
  <1>1. tracker'.target \in {served', "none"}
    <2> USE FixedStep DEF fixed, backend, link, files, host, bounds, TypeOK, Tracker, ClaimInv
    <2>1. tracker' = tracker \/ tracker'.target \in {tracker.target, served, "none"}
      <3>1. CASE \/ TriggerUpdate \/ ClearUpdateStatus \/ ExpireStaleUpdates \/ DeadlinePasses \/ BackendRestart
                 \/ AgentConnect \/ AgentHeartbeat \/ AgentDrop \/ AgentRestart \/ StatusAges
        BY <3>1 DEF TriggerUpdate, ClearUpdateStatus, ExpireStaleUpdates, DeadlinePasses, BackendRestart,
                    AgentConnect, AgentHeartbeat, AgentDrop, AgentRestart, StatusAges, NoUpdate
      <3>2. CASE Backend
        BY <3>2 DEF Backend, Initiate, SendUpdate, HandleUpdateStatus, ReconcileUpdateOnHeartbeat
      <3>3. CASE AgentProcess
        BY <3>3 DEF AgentProcess, OnWsConnect, HandleUpdateAgent, HandleUpdateAgentFails, RelaySupervisorStatus,
                    RelayClears
      <3>4. CASE Supervisor \/ BootReconcile
        BY <3>4 DEF Supervisor, Step, ReadRequest, ClearRequest, ClearRequestFails, HandleRequest, Download, DownloadFails, Load,
                    LoadFails, LoadEmpty, AlreadyCurrent, BeginSwap, RecreateAgent, RecreateFails, RecreateRaises, WaitHealthy,
                    HealthTimeout, RollbackUnavailable, RollbackTag, RollbackRecreate, RollbackFails, BootReconcile
      <3>5. CASE UNCHANGED vars
        BY <3>5 DEF vars
      <3> QED BY <3>1, <3>2, <3>3, <3>4, <3>5 DEF Next
    <2> QED BY <2>1
  <1>2. ASSUME HostCertain' PROVE TrialInv' /\ (Claimed' => container' = served' /\ Settled')
    <2>1. HostCertain
      BY <1>2, CertainStep
    <2>2. TrialInv /\ (Claimed => container = served /\ Settled)
      BY <2>1 DEF ClaimInv
    <2>3. TrialInv' /\ (container = served /\ Settled => container' = served /\ Settled')
      BY <1>2, <2>2, TrialStep
    <2>4. ASSUME ~Claimed, Claimed' PROVE (container = served /\ Settled) \/ (container' = served /\ Settled')
      <3>1. CASE AgentHeartbeat /\ container = served
        <4>1. container \in {"old", "good"}
          BY <3>1, Zenon DEF AgentHeartbeat, SwapInv, Working
        <4>2. container = served /\ served # "bad" => Settled
          BY <2>2 DEF TrialInv
        <4> QED BY <3>1, <4>1, <4>2
      <3>2. CASE AlreadyCurrent
        BY <2>2, <3>2, FixedStep DEF AlreadyCurrent, Step, At, Publish, CatchAll, TrialInv, Settled, TypeOK, SupervisorState
      <3>3. CASE WaitHealthy
        BY <2>2, <3>3, FixedStep DEF WaitHealthy, Step, At, Publish, CatchAll, TrialInv, Settled, TypeOK, SupervisorState
      <3> QED BY <2>4, <3>1, <3>2, <3>3, NewClaim
    <2> QED BY <2>2, <2>3, <2>4, FixedStep
  <1> QED BY <1>1, <1>2 DEF ClaimInv

\* An update the backend tracks turns "complete" only while the agent runs its target
\* (reconcile_update_on_heartbeat, _relay_supervisor_status), for any fault models and
\* bounds: every claim on its way to the backend stays true until it is read.
THEOREM UpdateCompleteIsTrue == Spec => TrackedCompleteIsTrue
  <1>1. ASSUME TypeOK, ClaimInv, [Next]_vars,
               tracker.status # "complete", tracker'.status = "complete", tracker.target # "none", HostCertain
        PROVE  container = tracker.target
    <2>1. tracker.target = served /\ (Claimed => container = served)
      BY <1>1 DEF ClaimInv
    <2>2. up # <<>> /\ Claims(Head(up), served)
      <3> USE <1>1 DEF fixed, backend, link, files, host, bounds, TypeOK, Tracker
      <3>1. CASE HandleUpdateStatus
        BY <3>1 DEF HandleUpdateStatus, Claims
      <3>2. CASE ReconcileUpdateOnHeartbeat
        BY <2>1, <3>2 DEF ReconcileUpdateOnHeartbeat, Confirms, Claims
      <3>3. CASE \/ TriggerUpdate \/ ClearUpdateStatus \/ ExpireStaleUpdates \/ DeadlinePasses \/ BackendRestart
                 \/ AgentConnect \/ AgentHeartbeat \/ AgentDrop \/ AgentRestart \/ StatusAges
        BY <3>3 DEF TriggerUpdate, ClearUpdateStatus, ExpireStaleUpdates, DeadlinePasses, BackendRestart,
                    AgentConnect, AgentHeartbeat, AgentDrop, AgentRestart, StatusAges, NoUpdate
      <3>4. CASE Initiate \/ SendUpdate
        BY <3>4 DEF Initiate, SendUpdate
      <3>5. CASE AgentProcess
        BY <3>5 DEF AgentProcess, OnWsConnect, HandleUpdateAgent, HandleUpdateAgentFails, RelaySupervisorStatus,
                    RelayClears
      <3>6. CASE Supervisor \/ BootReconcile
        BY <3>6 DEF Supervisor, Step, ReadRequest, ClearRequest, ClearRequestFails, HandleRequest, Download, DownloadFails, Load,
                    LoadFails, LoadEmpty, AlreadyCurrent, BeginSwap, RecreateAgent, RecreateFails, RecreateRaises, WaitHealthy,
                    HealthTimeout, RollbackUnavailable, RollbackTag, RollbackRecreate, RollbackFails, BootReconcile
      <3>7. CASE UNCHANGED vars
        BY <3>7 DEF vars
      <3> QED BY <3>1, <3>2, <3>3, <3>4, <3>5, <3>6, <3>7 DEF Next, Backend
    <2>3. up \in Seq(Message)
      BY <1>1 DEF TypeOK
    <2>4. ClaimedIn(up, served)
      BY <2>2, <2>3, ClaimFact
    <2> QED BY <2>1, <2>4 DEF Claimed
  <1>2. TypeOK /\ SwapInv /\ ClaimInv /\ [Next]_vars => ClaimInv'
    BY ClaimStep
  <1>3. TypeOK /\ ClaimInv /\ [Next]_vars
            => [ /\ tracker.status # "complete" /\ tracker'.status = "complete"
                 /\ tracker.target # "none"
                 /\ HostCertain
                 => container = tracker.target ]_vars
    BY <1>1
  <1> QED BY <1>2, <1>3, ClaimInit, UpdateInductive, PTL DEF Spec, TrackedCompleteIsTrue
=============================================================================
