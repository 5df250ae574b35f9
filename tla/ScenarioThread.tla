---------------------------- MODULE ScenarioThread ----------------------------
(***************************************************************************)
(* The thread that generates a scenario's traffic: the event loop of       *)
(* UnifiedOrchestrator.run (protocol_engines/unified_orchestrator.py) on   *)
(* the heap of EventScheduler (traffic_generator/scheduler.py), with the   *)
(* attack orchestrator it drives (attacks/attack_orchestrator.py).         *)
(*                                                                         *)
(* The thread runs alone on its heap.  The agent's event loop reaches it   *)
(* through three references that are written and read without a lock: the  *)
(* stop event, a pending attack command and a pending injection.  A step   *)
(* of the thread is what it does between two reads of those.               *)
(*                                                                         *)
(* Two modes.  A capture ("pcap") has a duration and no one sends it       *)
(* commands; its stages are timed by the virtual clock, in milliseconds.   *)
(* A live scenario runs until it is stopped; its stages are timed by the   *)
(* wall clock, so that a stage may expire at any moment.  Its virtual      *)
(* times are in units of its scope and are shifted back once they pass     *)
(* MaxAge: only how far in the past an event is scheduled is told apart.   *)
(*                                                                         *)
(* A flow's packets are one packet per poll cycle, the packets of an       *)
(* attack one packet per tick that has any.                                *)
(***************************************************************************)
EXTENDS Integers, Sequences, Bags, BagsExt

CONSTANTS
    Scopes,         \* what is deployed, and what may happen to it (see Scope)
    MaxAge,         \* bound: how late a live scenario's virtual clock is told apart
    MaxCommands     \* bound: commands and injections sent to a scenario

\* A stage of a kill chain: its planned duration, and its actions, which fire once
\* (repeat_count <= 1) or repeat.
Stage == [duration : Nat, actions : Seq({"single", "repeat"})]

\* A deployment: its mode; how its attack starts ("none": it has none); whether stages
\* advance by themselves; the stages; the duration of the capture; the tick interval, idle
\* and while a stage runs (intensity); the possible poll intervals; the warm-up of a live
\* attack; and what happens to it: commands, injections and a stop, packets that cannot be
\* written, actions that come to nothing ("mute"), and handlers that raise ("fail").
Scope == [mode : {"live", "pcap"}, start : {"none", "manual", "with_deployment"}, auto : BOOLEAN,
          stages : Seq(Stage), duration : Nat, tick : Nat, interval : Nat, poll : SUBSET Nat,
          warmup : Nat, env : SUBSET {"command", "inject", "stop", "write", "mute", "fail"}]

ASSUME ThreadAssumption ==
    /\ Scopes \subseteq Scope
    /\ MaxAge \in Nat /\ MaxCommands \in Nat

VARIABLES
    scope,      \* the deployment
    at,         \* where the thread is
    now,        \* current_time_ms
    heap,       \* EventScheduler._heap, the bag of the events that are due
    attack,     \* _attack_orchestrator
    pending,    \* its _pending_command
    injection,  \* _pending_attack_injection
    taken,      \* the injection the thread is about to attach
    stop,       \* the stop of the scenario: "asked" between stop_attack and stop_event.set
    sent,       \* commands and injections sent so far
    result      \* OrchestrationResult

vars == <<scope, at, now, heap, attack, pending, injection, taken, stop, sent, result>>
outside == <<scope, pending, injection, taken, stop, sent>>

None == "none"
Modes == {"manual", "with_deployment"}
Commands == {"start", "stop", "advance_stage", "pause", "resume"}

Live == scope.mode = "live"
Max2(m, n) == IF m > n THEN m ELSE n
Min2(m, n) == IF m < n THEN m ELSE n

-----------------------------------------------------------------------------
(* The heap *)

Event == [at : Nat, ev : {"packet", "poll", "tick"}]
Due(t, ev) == [at |-> t, ev |-> ev]

schedule(h, e) == BagAdd(h, e)

\* Mutant: any event may come first.
Earliest_Any(h) == BagToSet(h)

\* The events pop_next may return: equal timestamps are not ordered.
Earliest(h) == {e \in BagToSet(h) : \A x \in BagToSet(h) : e.at <= x.at}

\* A live clock that passes MaxAge is set back with everything on its heap.
Shift(t) == IF Live /\ t > MaxAge THEN t - MaxAge ELSE 0
Rebase(h, k) == [x \in {Due(e.at - k, e.ev) : e \in BagToSet(h)} |-> h[Due(x.at + k, x.ev)]]

-----------------------------------------------------------------------------
(* The attack orchestrator *)

Stages == 1 .. Len(scope.stages)
Actions(i) == 1 .. Len(scope.stages[i].actions)
AllActions == UNION {Actions(i) : i \in Stages}

\* register_attack_orchestrator: the first tick, counted from the start of the scenario.
Warmup == IF Live THEN scope.warmup ELSE Min2(10000, Max2(500, scope.duration \div 5))

\* _apply_time_compression, in milliseconds.
PlannedStage(i) == Max2(1000, scope.stages[i].duration)
PlannedUpTo[i \in 0 .. Len(scope.stages)] == IF i = 0 THEN 0 ELSE PlannedUpTo[i - 1] + PlannedStage(i)
Planned == PlannedUpTo[Len(scope.stages)]
Available == Max2(1000, scope.duration - Warmup)
\* Mutant: the kill chain is scaled to the whole window.
Margin_None == 0

Margin == Max2((Available * 15) \div 100, scope.tick * 3)
Usable == Max2(scope.tick * 2, Available - Margin)
\* Rounded up: events happen at whole milliseconds.
Scaled(i) == (PlannedStage(i) * Usable + Planned - 1) \div Planned
StageDuration(i) == IF Planned <= Available THEN PlannedStage(i) ELSE Max2(3000, Scaled(i))

\* No orchestrator, and one that was just created: stage is _current_stage_idx counted
\* from 1, since and late tell how long the stage runs on the two clocks, fired is
\* _stage_actions_fired, and the rest is the report, with the actions that it records.
NoAttack ==
    [loaded |-> FALSE, is_active |-> FALSE, is_paused |-> FALSE, is_completed |-> FALSE,
     stage |-> 1, since |-> 0, late |-> FALSE, fired |-> {},
     status |-> "in_progress", ended |-> FALSE,
     stages |-> [i \in Stages |-> "pending"], emitted |-> [i \in Stages |-> {}]]
Created == [NoAttack EXCEPT !.loaded = TRUE]

\* _elapsed_s, on the virtual clock.
Elapsed(a, t) == Max2(0, t - a.since)

\* Mutant: the stages of a live attack wait for the virtual clock, which lags behind.
Expired_Virtual(a, t) == ~Live /\ Elapsed(a, t) >= StageDuration(a.stage)

\* _elapsed_s() >= _stage_duration_s().
Expired(a, t) == IF Live THEN a.late ELSE Elapsed(a, t) >= StageDuration(a.stage)

ClockStart(a, t) == [a EXCEPT !.since = IF Live THEN 0 ELSE t, !.late = FALSE]

MarkStage(a, i, s) == IF i \in Stages THEN [a EXCEPT !.stages[i] = s] ELSE a
MarkReportStarted(a) == [MarkStage(a, a.stage, "in_progress") EXCEPT !.status = "in_progress"]

MarkReportCompleted(a, s) ==
    IF a.ended THEN a
    ELSE LET b == [a EXCEPT !.ended = TRUE, !.status = s]
         IN  IF a.stage \in Stages /\ a.stages[a.stage] = "in_progress"
             THEN MarkStage(b, a.stage, IF s = "completed" THEN "completed" ELSE "skipped")
             ELSE b

ResetReport(a) ==
    [a EXCEPT !.stages = [i \in Stages |-> "pending"], !.emitted = [i \in Stages |-> {}],
              !.ended = FALSE, !.status = "in_progress"]

\* Mutant: the report does not learn of the stage that begins.
AdvanceStage_Unreported(a, t) ==
    LET b == [MarkStage(a, a.stage, "completed") EXCEPT !.stage = @ + 1, !.fired = {}]
    IN  IF b.stage \in Stages
        THEN ClockStart(b, t)
        ELSE MarkReportCompleted([b EXCEPT !.is_completed = TRUE], "completed")

\* _advance_stage
AdvanceStage(a, t) ==
    LET b == [MarkStage(a, a.stage, "completed") EXCEPT !.stage = @ + 1, !.fired = {}]
    IN  IF b.stage \in Stages
        THEN MarkStage(ClockStart(b, t), b.stage, "in_progress")
        ELSE MarkReportCompleted([b EXCEPT !.is_completed = TRUE], "completed")

\* schedule_initial_events: a manual attack schedules nothing.
InitialAttack(a) ==
    MarkReportStarted([ClockStart(a, Warmup) EXCEPT !.is_active = TRUE])
Register(mode, h) ==
    IF mode = "manual"
    THEN [attack |-> Created, heap |-> h]
    ELSE [attack |-> InitialAttack(Created), heap |-> schedule(h, Due(Warmup, "tick"))]

\* _process_pending_command
Restart(a, t) == [ClockStart(a, t) EXCEPT !.stage = 1, !.fired = {}, !.is_completed = FALSE]
ProcessCommand(a, c, t) ==
    CASE c = "start" /\ ~a.is_active ->
           MarkReportStarted([Restart(a, t) EXCEPT !.is_active = TRUE, !.is_paused = FALSE])
      [] c = "start" /\ a.is_active /\ a.is_completed -> MarkReportStarted(ResetReport(Restart(a, t)))
      [] c = "stop" -> MarkReportCompleted([a EXCEPT !.is_active = FALSE, !.is_completed = TRUE], "stopped")
      [] c = "advance_stage" -> AdvanceStage(a, t)
      [] c \in {"pause", "resume"} -> [a EXCEPT !.is_paused = (c = "pause")]
      [] OTHER -> a

\* Stage i has run for x milliseconds and the trigger point of its k-th action is reached:
\* the actions that fire once are spread over the stage, the others fire at its first tick.
Reached(i, k, x) ==
    \/ scope.stages[i].actions[k] = "repeat"
    \/ (k - 1) * Max2(1000, StageDuration(i)) <= x * Len(scope.stages[i].actions)

\* The same on the wall clock, which has got to the trigger point of some action p.
ReachedLive(i, k, p) == scope.stages[i].actions[k] = "repeat" \/ k <= p

\* The actions that a tick at t fires.
Triggers(a, t, p) ==
    {k \in Actions(a.stage) \ a.fired :
        IF Live THEN ReachedLive(a.stage, k, p) ELSE Reached(a.stage, k, Elapsed(a, t))}

\* _generate_stage_packets and the next tick.  An action of mute has no target or no
\* generator, or its generator raises: it counts as fired and is not recorded.
RunStage(a, t, h, p, mute) ==
    LET next == schedule(h, Due(t + scope.interval, "tick"))
        new  == Triggers(a, t, p)
    IN  [attack |-> [a EXCEPT !.fired = @ \cup new, !.emitted[a.stage] = @ \cup (new \ mute)],
         heap |-> IF new \subseteq mute THEN next ELSE schedule(next, Due(t, "packet"))]

\* Mutant: a tick that finds nothing to do is the last one.
Waits_Ends(a, t, h) == [attack |-> a, heap |-> h]

Waits(a, t, h) == [attack |-> a, heap |-> schedule(h, Due(t + scope.tick, "tick"))]
Ends(a, h) == [attack |-> a, heap |-> h]

\* handle_tick at time t, after a command c, on the rest of the heap.
HandleTick(c, t, h, p, mute) ==
    LET a == ProcessCommand(attack, c, t)
        b == AdvanceStage(a, t)
    IN  CASE a.is_completed -> Ends(a, h)
          [] ~a.is_completed /\ (~a.is_active \/ a.is_paused) -> Waits(a, t, h)
          [] ~a.is_completed /\ a.is_active /\ ~a.is_paused ->
               IF a.stage \notin Stages
               THEN Ends(MarkReportCompleted([a EXCEPT !.is_completed = TRUE], "completed"), h)
               ELSE IF ~Expired(a, t) THEN RunStage(a, t, h, p, mute)
                    ELSE IF ~scope.auto THEN Waits(a, t, h)
                         ELSE IF b.is_completed THEN Ends(b, h) ELSE RunStage(b, t, h, p, mute)

-----------------------------------------------------------------------------
(* The thread *)

Running == at \in {"top", "register", "wall", "pop"}

\* Discovery and startup sequences: a packet and the first poll of the flow.
FirstEvents(d) == schedule(SetToBag({Due(0, "packet")}), Due(d, "poll"))

Init ==
    /\ scope \in Scopes
    /\ at = "top" /\ now = 0
    /\ \E d \in scope.poll :
          LET r == Register(scope.start, FirstEvents(d))
          IN  IF scope.start = "none"
              THEN attack = NoAttack /\ heap = FirstEvents(d)
              ELSE attack = r.attack /\ heap = r.heap
    /\ pending = None /\ injection = None /\ taken = None
    /\ stop = "no" /\ sent = 0 /\ result = None

\* The loop ends when the heap is empty.
NoEvents ==
    /\ at = "top" /\ heap = EmptyBag
    /\ at' = "shutdown"
    /\ UNCHANGED <<outside, now, heap, attack, result>>

\* _check_pending_attack_injection takes the reference ...
TakeInjection ==
    /\ at = "top" /\ heap # EmptyBag /\ injection # None
    /\ taken' = injection /\ injection' = None
    /\ at' = "register"
    /\ UNCHANGED <<scope, now, heap, attack, pending, stop, sent, result>>

\* Mutant: the injection is not forgotten.
AttachInjection_Keeps ==
    /\ at = "register"
    /\ LET r == Register(taken, heap) IN attack' = r.attack /\ heap' = r.heap
    /\ pending' = None
    /\ at' = "wall"
    /\ UNCHANGED <<scope, now, injection, taken, stop, sent, result>>

\* ... creates the orchestrator and registers it.
AttachInjection ==
    /\ at = "register"
    /\ LET r == Register(taken, heap) IN attack' = r.attack /\ heap' = r.heap
    /\ taken' = None /\ pending' = None
    /\ at' = "wall"
    /\ UNCHANGED <<scope, now, injection, stop, sent, result>>

\* An unknown playbook, or a configuration that cannot be read, is logged and no more.
RefuseInjection ==
    /\ at = "register"
    /\ taken' = None
    /\ at' = "wall"
    /\ UNCHANGED <<scope, now, heap, attack, pending, injection, stop, sent, result>>

\* check_wall_time_advancement
Advances ==
    /\ attack.is_active /\ ~attack.is_paused /\ ~attack.is_completed
    /\ attack.stage \in Stages
    /\ Expired(attack, now) /\ scope.auto

CheckWallTime ==
    /\ at = "wall" \/ (at = "top" /\ heap # EmptyBag /\ injection = None)
    /\ at' = "pop"
    /\ IF Advances
       THEN /\ attack' = AdvanceStage(attack, now)
            /\ heap' = IF attack'.is_completed THEN heap ELSE schedule(heap, Due(now + 1, "tick"))
       ELSE UNCHANGED <<attack, heap>>
    /\ UNCHANGED <<outside, now, result>>

StopReceived ==
    /\ at = "pop" /\ stop = "set"
    /\ at' = "shutdown"
    /\ UNCHANGED <<outside, now, heap, attack, result>>

\* The event that is due next is popped and the clock set to its time.
Pop(e) == /\ e \in Earliest(heap)
          /\ now' = e.at - Shift(e.at)
Dispatch(e) == at = "pop" /\ stop # "set" /\ Pop(e)
Left(e) == BagRemove(heap, e)
InTime(e) == Live \/ e.at <= scope.duration
Heap(h, e) == heap' = Rebase(h, Shift(e.at))

DurationReached(e) ==
    /\ Dispatch(e) /\ ~InTime(e)
    /\ heap' = Left(e)
    /\ at' = "shutdown"
    /\ UNCHANGED <<outside, attack, result>>

\* A packet is written; that it cannot be is logged and no more.
WritePacket(e) ==
    /\ Dispatch(e) /\ InTime(e) /\ e.ev = "packet"
    /\ Heap(Left(e), e)
    /\ at' = "top"
    /\ UNCHANGED <<outside, attack, result>>

\* _handle_poll_event: the packets of a cycle and the next poll.
HandlePoll(e) ==
    /\ Dispatch(e) /\ InTime(e) /\ e.ev = "poll"
    /\ \E d \in scope.poll :
          LET cycle == schedule(Left(e), Due(e.at, "packet"))
          IN  Heap(IF Live \/ e.at + d < scope.duration THEN schedule(cycle, Due(e.at + d, "poll")) ELSE cycle, e)
    /\ at' = "top"
    /\ UNCHANGED <<outside, attack, result>>

\* An engine that raises ends the run with an error.
PollFails(e) ==
    /\ Dispatch(e) /\ InTime(e) /\ e.ev = "poll"
    /\ "fail" \in scope.env
    /\ Heap(Left(e), e)
    /\ at' = "done" /\ result' = "error"
    /\ UNCHANGED <<outside, attack>>

\* How far the wall clock has got in the stage, and which actions come to nothing.
Progress == IF Live THEN {1} \cup AllActions ELSE {1}
Muted == IF "mute" \in scope.env THEN SUBSET AllActions ELSE {{}}

\* _handle_attack_tick
HandleAttackTick(e) ==
    /\ Dispatch(e) /\ InTime(e) /\ e.ev = "tick"
    /\ \E p \in Progress, mute \in Muted :
          LET r == HandleTick(pending, e.at, Left(e), p, mute)
          IN  attack' = r.attack /\ Heap(r.heap, e)
    /\ pending' = None
    /\ at' = "top"
    /\ UNCHANGED <<scope, injection, taken, stop, sent, result>>

\* The tick's packets cannot be put on the heap: again the run ends.
TickFails(e) ==
    /\ Dispatch(e) /\ InTime(e) /\ e.ev = "tick"
    /\ "fail" \in scope.env
    /\ \E p \in Progress, mute \in Muted :
          attack' = HandleTick(pending, e.at, Left(e), p, mute).attack
    /\ Heap(Left(e), e)
    /\ pending' = None
    /\ at' = "done" /\ result' = "error"
    /\ UNCHANGED <<scope, injection, taken, stop, sent>>

\* _schedule_shutdown_sequences
BeginShutdown ==
    /\ at = "shutdown"
    /\ heap' = schedule(heap, Due(now, "packet"))
    /\ at' = "drain"
    /\ UNCHANGED <<outside, now, attack, result>>

ShutdownFails ==
    /\ at = "shutdown"
    /\ "fail" \in scope.env
    /\ at' = "done" /\ result' = "error"
    /\ UNCHANGED <<outside, now, heap, attack>>

\* Mutant: the shutdown still handles the polls.
Drain_Polls(e) ==
    /\ at = "drain" /\ Pop(e)
    /\ LET d == CHOOSE d \in scope.poll : TRUE
       IN  Heap(IF e.ev = "poll" THEN schedule(Left(e), Due(e.at + d, "poll")) ELSE Left(e), e)
    /\ UNCHANGED <<outside, at, attack, result>>

\* The rest of the heap: packets are written, polls and ticks dropped.
Drain(e) ==
    /\ at = "drain" /\ Pop(e)
    /\ Heap(Left(e), e)
    /\ UNCHANGED <<outside, at, attack, result>>

\* Here a packet that cannot be written ends the run with an error.
DrainFails(e) ==
    /\ at = "drain" /\ Pop(e) /\ e.ev = "packet"
    /\ "write" \in scope.env
    /\ Heap(Left(e), e)
    /\ at' = "done" /\ result' = "error"
    /\ UNCHANGED <<outside, attack>>

Complete ==
    /\ at = "drain" /\ heap = EmptyBag
    /\ at' = "done" /\ result' = "ok"
    /\ UNCHANGED <<outside, now, heap, attack>>

Events == BagToSet(heap)

Thread ==
    \/ NoEvents \/ TakeInjection \/ AttachInjection \/ RefuseInjection \/ CheckWallTime \/ StopReceived
    \/ \E e \in Events :
          \/ DurationReached(e) \/ WritePacket(e) \/ HandlePoll(e) \/ PollFails(e) \/ HandleAttackTick(e)
          \/ TickFails(e) \/ Drain(e) \/ DrainFails(e)
    \/ BeginShutdown \/ ShutdownFails \/ Complete

-----------------------------------------------------------------------------
(* The agent's event loop, and time *)

\* pool.send_attack_command: the pending command is replaced.
SendCommand(c) ==
    /\ "command" \in scope.env /\ attack.loaded /\ at # "done" /\ sent < MaxCommands
    /\ pending' = c /\ sent' = sent + 1
    /\ UNCHANGED <<scope, at, now, heap, attack, injection, taken, stop, result>>

\* pool.inject_attack: only while no orchestrator is attached.
InjectAttack(m) ==
    /\ "inject" \in scope.env /\ ~attack.loaded /\ at # "done" /\ sent < MaxCommands
    /\ injection' = m /\ sent' = sent + 1
    /\ UNCHANGED <<scope, at, now, heap, attack, pending, taken, stop, result>>

\* pool.stop: stop_attack first, then the stop event.
StopAttack ==
    /\ "stop" \in scope.env /\ stop = "no" /\ at # "done"
    /\ stop' = "asked"
    /\ pending' = IF attack.loaded THEN "stop" ELSE pending
    /\ UNCHANGED <<scope, at, now, heap, attack, injection, taken, sent, result>>

SetStopEvent ==
    /\ stop = "asked"
    /\ stop' = "set"
    /\ UNCHANGED <<scope, at, now, heap, attack, pending, injection, taken, sent, result>>

\* The wall clock passes the end of the stage.
StageExpires ==
    /\ Live /\ attack.is_active /\ ~attack.late /\ at # "done"
    /\ attack' = [attack EXCEPT !.late = TRUE]
    /\ UNCHANGED <<outside, at, now, heap, result>>

\* The thread has ended and the run is over.
Ended == at = "done" /\ stop # "asked" /\ UNCHANGED vars

Next ==
    \/ Thread
    \/ \E c \in Commands : SendCommand(c)
    \/ \E m \in Modes : InjectAttack(m)
    \/ StopAttack \/ SetStopEvent \/ StageExpires \/ Ended

Spec == Init /\ [][Next]_vars

\* The thread keeps running, a stop that was begun is finished, and wall time passes.
FairSpec == Spec /\ WF_vars(Thread) /\ WF_vars(SetStopEvent) /\ WF_vars(StageExpires)

-----------------------------------------------------------------------------
(* Properties *)

Ticked == \E e \in Events : e.ev = "tick"

TypeOK ==
    /\ scope \in Scopes
    /\ at \in {"top", "register", "wall", "pop", "shutdown", "drain", "done"}
    /\ now \in Nat
    /\ IsABag(heap) /\ Events \subseteq Event
    /\ attack.stage \in 1 .. Len(scope.stages) + MaxCommands + 1
    /\ attack.stages \in [Stages -> {"pending", "in_progress", "completed", "skipped"}]
    /\ attack.status \in {"in_progress", "completed", "stopped"}
    /\ attack.fired \subseteq AllActions /\ attack.emitted \in [Stages -> SUBSET AllActions]
    /\ pending \in Commands \cup {None} /\ injection \in Modes \cup {None}
    /\ taken \in Modes \cup {None} /\ (at = "register") = (taken # None)
    /\ stop \in {"no", "asked", "set"} /\ result \in {None, "ok", "error"}

\* An attack that runs, or is paused, has a tick to go on with: handle_tick and
\* check_wall_time_advancement never let the chain of ticks break, whatever commands,
\* stages expiring and second injections come between.
ActiveIsTicked == Running /\ attack.is_active /\ ~attack.is_completed => Ticked

\* Where no attack is injected, the report follows the attack: until it is closed, the
\* stages before the current one are completed, the current one is in progress and the
\* others are pending.  (An injected attack may be started and stopped with the ticks of the
\* one before it, and its report is then not reset.)
ReportFollows ==
    "inject" \notin scope.env /\ attack.is_active /\ ~attack.is_completed /\ ~attack.ended =>
        \A i \in Stages :
            attack.stages[i] = IF i < attack.stage THEN "completed"
                               ELSE IF i = attack.stage THEN "in_progress" ELSE "pending"

\* Every stage may run over by a tick, and all of that must fit into the window of the
\* capture: after a kill chain that fits as it is, or into the part that is held back from
\* a compressed one ("~15% (at least a few ticks)"), when no stage is stretched to the three
\* seconds that it has at least.
Roomy ==
    LET window == scope.duration - Warmup
        overrun == Len(scope.stages) * scope.interval
    IN  IF Planned <= Available THEN Planned + overrun <= window
        ELSE /\ overrun <= Max2((window * 15) \div 100, scope.tick * 3)
             /\ Max2(1000, scope.tick * 5) <= window
             /\ \A i \in Stages : Scaled(i) >= 3000

\* A capture of an attack that advances by itself, with room for it.
RoomyCapture ==
    /\ scope.mode = "pcap" /\ scope.start = "with_deployment" /\ scope.auto
    /\ scope.env \subseteq {"write", "mute"}
    /\ Stages # {} /\ Roomy

\* The trigger point of an action is a tick away from the end of its stage, or at its start.
Timely(i, k) == Reached(i, k, Max2(0, StageDuration(i) - scope.interval))

\* A capture renders the kill chain to its end: the report is completed, with every stage of
\* it, though each stage runs over by up to a tick; and every action that comes to something
\* is recorded, if a tick lies between its trigger point and the end of its stage.
KillChainRenders ==
    at = "done" /\ RoomyCapture =>
        /\ attack.status = "completed"
        /\ \A i \in Stages :
              /\ attack.stages[i] = "completed"
              /\ "mute" \notin scope.env => \A k \in Actions(i) : Timely(i, k) => k \in attack.emitted[i]

\* The virtual clock of a scenario never runs backwards, but for an attack that is
\* attached to it while it runs, whose first tick is due in the past.
ClockForward == [][now' >= now \/ "inject" \in scope.env]_vars

\* A scenario whose stop event is set ends, whatever is left on its heap.
StopEnds == stop = "set" ~> at = "done"

\* An attack that advances by itself ends, unless it is left paused, its scenario ends, or
\* a second injection that overtook the first one puts another attack in its place.
AttackEnds ==
    scope.auto /\ attack.is_active ~>
        attack.is_completed \/ ~attack.is_active \/ (attack.is_paused /\ pending # "resume") \/ at = "done"

\* A START_ATTACK that was delivered to an attack that does not run is honoured, unless another
\* command takes its place.
StartIsHeard ==
    pending = "start" /\ ~attack.is_active ~> attack.is_active \/ pending # "start" \/ at = "done"
=============================================================================
