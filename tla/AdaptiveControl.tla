---------------------------- MODULE AdaptiveControl ----------------------------
(***************************************************************************)
(* Adaptive traffic: the directives an operator sends to a running         *)
(* scenario (services/adaptation_service.py, ADAPT_TRAFFIC in the agent's  *)
(* main.py), the controller that applies them in the scenario's thread     *)
(* (protocol_engines/adaptive/controller.py) and the scheduler of          *)
(* deployment phases it consults (adaptive/phase_scheduler.py).            *)
(*                                                                         *)
(* The agent's event loop leaves a batch of directives in a slot; the      *)
(* scenario's thread takes it when it next polls a flow, applies the       *)
(* directives one by one, drops the expired ones and composes the flow's   *)
(* next interval.  Nothing is locked, so that a new batch, the status      *)
(* reporter and the clock may come between any two of those steps; the     *)
(* reporter itself reads the clock twice, and pausing and resuming write   *)
(* two fields each.                                                        *)
(*                                                                         *)
(* A phase is known by its place in the cycle and by when it ends there;   *)
(* it may have no duration.  Rates are multipliers; what they do to an     *)
(* interval in milliseconds, the time-of-day schedule with its override    *)
(* and the random drift of an interval are left out.                       *)
(***************************************************************************)
EXTENDS Integers, Sequences, FiniteSets

CONSTANTS
    Flows,          \* the flows whose polls are adapted (not the heartbeat protocols)
    Protocols,      \* their protocols
    ProtocolOf,     \* the protocol of each flow
    Rates,          \* the multipliers an operator asks for
    Scopes,         \* the phases of a deployment and what is asked of it (see Scope)
    Ttl,            \* how long a directive holds (300 s, whatever ttl_seconds was sent)
    MaxTime,        \* bound: on the clock
    MaxSends        \* bound: directives sent

Targets == Flows \cup Protocols

\* When each phase ends in its cycle; whether the cycle repeats; the flows that are dormant
\* in a phase; the flows that are polled, the directives that are sent, and whether the
\* status reporter is watched.
Kinds == {"adjust", "reset", "skip", "force", "pause", "resume"}
Scope == [ends : Seq(Nat), cycle : BOOLEAN, dormant : SUBSET (Flows \X Nat),
          flows : SUBSET Flows, sends : SUBSET Kinds, reports : BOOLEAN]

ASSUME AdaptiveAssumption ==
    /\ ProtocolOf \in [Flows -> Protocols]
    /\ Flows \cap Protocols = {}
    /\ Rates \subseteq Nat /\ Ttl \in Nat /\ MaxTime \in Nat /\ MaxSends \in Nat
    /\ Scopes \subseteq Scope
    /\ \A s \in Scopes : /\ Len(s.ends) > 0 /\ s.ends[Len(s.ends)] > 0
                         /\ \A i \in 2 .. Len(s.ends) : s.ends[i - 1] <= s.ends[i]

\* The two words for no flow are no flows.
ASSUME FlowsAssumption == "none" \notin Flows /\ "raised" \notin Flows

VARIABLES
    scope,      \* the deployment
    time,       \* the clock
    sends,      \* directives sent so far
    slot,       \* _pending_directives; empty if None
    \* the scenario's thread
    poll,       \* the flow whose poll is handled, None, or Raised once the run has ended
    todo,       \* the directives of the batch that are still to be applied
    \* AdaptiveController
    active,     \* _active_directives, by target and created_at
    rate,       \* _protocol_multipliers and _flow_multipliers; 0 where there is none
    effect,     \* the multiplier and phase that made the next interval of a flow
    \* PhaseScheduler
    start,      \* _start_time
    offset,     \* _time_offset
    paused,     \* _paused
    pause_time, \* _pause_time
    forced,     \* _forced_phase_id; 0 if None
    midway,     \* the thread is between the two writes of a pause or of a resume
    \* the status reporter
    report,     \* get_phase_info between its two reads: the phase, and the fields then
    shown       \* what the last get_phase_info returned

queueVars == <<scope, sends, slot>>
directiveVars == <<active, rate>>
phaseVars == <<start, offset, paused, pause_time, forced, midway>>
reportVars == <<report, shown>>
vars == <<scope, time, sends, slot, poll, todo, active, rate, effect,
          start, offset, paused, pause_time, forced, midway, report, shown>>

None == "none"
Raised == "raised"

\* A directive: adjust names a flow or a protocol and a rate, force a phase.
Directive == [kind : Kinds, target : Targets \cup {None}, rate : Rates \cup {0}, phase : Nat]
Plain(k) == [kind |-> k, target |-> None, rate |-> 0, phase |-> 0]
Adjust(t, r) == [Plain("adjust") EXCEPT !.target = t, !.rate = r]
ForcePhase(i) == [Plain("force") EXCEPT !.phase = i]

-----------------------------------------------------------------------------
(* The phases *)

Phases == DOMAIN scope.ends
CycleDuration == scope.ends[Len(scope.ends)]
Begins(i) == IF i = 1 THEN 0 ELSE scope.ends[i - 1]

\* _elapsed
Elapsed == (IF paused THEN pause_time ELSE time) - start + offset

Position == IF scope.cycle THEN Elapsed % CycleDuration ELSE Elapsed

\* The search for the phase of a position; the last one where nothing is found.
PhaseAt(p) ==
    IF \E i \in Phases : p < scope.ends[i]
    THEN CHOOSE i \in Phases : p < scope.ends[i] /\ \A j \in 1 .. i - 1 : p >= scope.ends[j]
    ELSE Len(scope.ends)

\* get_current_phase
CurrentPhase ==
    IF forced # 0 THEN forced
    ELSE IF ~scope.cycle /\ Elapsed >= CycleDuration THEN Len(scope.ends)
    ELSE PhaseAt(Position)

\* Mutant: the phase's own start is not found.
PhaseStart_Zero(i) == 0

\* get_phase_info: how far the phase i has got, by the clock of its second read.  The phase
\* is looked for from the front, by its id and by its end.
InfoPosition ==
    IF scope.cycle THEN Elapsed % CycleDuration
    ELSE IF Elapsed < CycleDuration THEN Elapsed ELSE CycleDuration
PhaseStart(i) == IF scope.ends[i] > InfoPosition THEN Begins(i) ELSE 0
PhaseElapsed(i) == InfoPosition - PhaseStart(i)

\* The division by the phase's duration raises if it has none.
Duration(i) == scope.ends[i] - Begins(i)

-----------------------------------------------------------------------------

\* The fields of the scheduler when a report began; phase 0 where there is none.
Fields == [start |-> start, offset |-> offset, paused |-> paused, pause_time |-> pause_time, forced |-> forced]
NoReport == [phase |-> 0, fields |-> [start |-> 0, offset |-> 0, paused |-> FALSE, pause_time |-> 0, forced |-> 0]]
NothingShown == [phase |-> 0, elapsed |-> 0, free |-> FALSE, steady |-> FALSE]

Init ==
    /\ scope \in Scopes
    /\ time = 0 /\ sends = 0 /\ slot = <<>> /\ poll = None /\ todo = <<>>
    /\ active = {} /\ rate = [t \in Targets |-> 0]
    /\ effect = [f \in Flows |-> [rate |-> 1, phase |-> 0]]
    /\ start = 0 /\ offset = 0 /\ paused = FALSE /\ pause_time = 0 /\ forced = 0
    /\ midway = FALSE
    /\ report = NoReport /\ shown = NothingShown

TimePasses ==
    /\ time < MaxTime
    /\ time' = time + 1
    /\ UNCHANGED <<queueVars, poll, todo, directiveVars, effect, phaseVars, reportVars>>

\* What the operator's routes send; the directives route takes any list.
Sent(d) ==
    /\ d.kind \in scope.sends
    /\ sends < MaxSends

\* set_pending_directives: the slot holds the last batch only.
SendDirective(d) ==
    /\ Sent(d)
    /\ slot' = <<d>> /\ sends' = sends + 1
    /\ UNCHANGED <<scope, time, poll, todo, directiveVars, effect, phaseVars, reportVars>>

SendPair(d, e) ==
    /\ Sent(d) /\ Sent(e) /\ sends + 1 < MaxSends
    /\ slot' = <<d, e>> /\ sends' = sends + 2
    /\ UNCHANGED <<scope, time, poll, todo, directiveVars, effect, phaseVars, reportVars>>

\* adjust_next_poll, of a flow whose poll is due, takes the batch.
BeginPoll(f) ==
    /\ poll = None /\ f \in scope.flows
    /\ poll' = f /\ todo' = slot /\ slot' = <<>>
    /\ UNCHANGED <<scope, time, sends, directiveVars, effect, phaseVars, reportVars>>

-----------------------------------------------------------------------------
(* _apply_directives *)

Handles(k) == /\ poll \in Flows /\ todo # <<>> /\ Head(todo).kind = k
              /\ UNCHANGED <<queueVars, time, poll, effect, reportVars>>
Applies(k) == Handles(k) /\ todo' = Tail(todo)

ApplyAdjust ==
    /\ Applies("adjust")
    /\ rate' = [rate EXCEPT ![Head(todo).target] = Head(todo).rate]
    /\ active' = active \cup {[target |-> Head(todo).target, born |-> time]}
    /\ UNCHANGED phaseVars

ApplyReset ==
    /\ Applies("reset")
    /\ active' = {} /\ rate' = [t \in Targets |-> 0]
    /\ UNCHANGED phaseVars

\* Mutant: the offset is reckoned from the start of the phase.
SkipAmount_FromStart == scope.ends[PhaseAt(Position)] - Begins(PhaseAt(Position))

\* skip_to_next: to the end of the phase the position is in, if it is in one.
SkipAmount == scope.ends[PhaseAt(Position)] - Position
ApplySkip ==
    /\ Applies("skip")
    /\ IF Position < CycleDuration
       THEN offset' = offset + SkipAmount /\ forced' = 0
       ELSE UNCHANGED <<offset, forced>>
    /\ UNCHANGED <<directiveVars, start, paused, pause_time, midway>>

\* Mutant: an unknown phase is forced as well.
ApplyForce_Unchecked ==
    /\ Applies("force")
    /\ forced' = Head(todo).phase
    /\ UNCHANGED <<directiveVars, start, offset, paused, pause_time, midway>>

\* force_phase: an unknown phase is ignored.
ApplyForce ==
    /\ Applies("force")
    /\ forced' = IF Head(todo).phase \in Phases THEN Head(todo).phase ELSE forced
    /\ UNCHANGED <<directiveVars, start, offset, paused, pause_time, midway>>

\* pause, where the clock runs: _paused is set, and then _pause_time.
BeginPause ==
    /\ Handles("pause") /\ ~paused
    /\ paused' = TRUE /\ midway' = TRUE
    /\ UNCHANGED <<todo, directiveVars, start, offset, pause_time, forced>>

EndPause ==
    /\ Applies("pause") /\ midway
    /\ pause_time' = time /\ midway' = FALSE
    /\ UNCHANGED <<directiveVars, start, offset, paused, forced>>

\* Mutant: the time spent paused is not taken out.
BeginResume_Jumps ==
    /\ Handles("resume") /\ paused /\ ~midway
    /\ midway' = TRUE
    /\ UNCHANGED <<todo, directiveVars, start, offset, paused, pause_time, forced>>

\* resume, where the clock is paused: _start_time is moved, and then _paused is cleared.
BeginResume ==
    /\ Handles("resume") /\ paused /\ ~midway
    /\ start' = start + (time - pause_time) /\ midway' = TRUE
    /\ UNCHANGED <<todo, directiveVars, offset, paused, pause_time, forced>>

EndResume ==
    /\ Applies("resume") /\ midway
    /\ paused' = FALSE /\ midway' = FALSE
    /\ UNCHANGED <<directiveVars, start, offset, pause_time, forced>>

\* A pause of a paused clock, a resume of a running one.
ApplyNothing ==
    /\ ~midway
    /\ \/ Applies("pause") /\ paused
       \/ Applies("resume") /\ ~paused
    /\ UNCHANGED <<directiveVars, phaseVars>>

-----------------------------------------------------------------------------
(* The rest of adjust_next_poll *)

\* Directive.is_expired
Expired(d) == time - d.born > Ttl

\* _expire_directives: an expired directive takes the multiplier of its target with it.
Dropped(D) == [t \in Targets |-> IF \E d \in D : d.target = t THEN 0 ELSE rate[t]]

\* The rate of a flow, from a table of multipliers.
Rate(r, t) == IF r[t] = 0 THEN 1 ELSE r[t]

\* Mutant: the interval is composed from the multipliers as they were before the expiry.
Combined_Before(r, f) == Rate(rate, ProtocolOf[f]) * Rate(rate, f)

Combined(r, f) == Rate(r, ProtocolOf[f]) * Rate(r, f)

\* The expired directives go; then the phase's progress is computed, which raises out of the
\* scenario's run if the phase has no duration; then the interval.
EndPoll ==
    /\ poll \in Flows /\ todo = <<>>
    /\ LET gone == {d \in active : Expired(d)}
       IN  /\ active' = active \ gone
           /\ rate' = Dropped(gone)
    /\ IF Duration(CurrentPhase) = 0
       THEN poll' = Raised /\ UNCHANGED effect
       ELSE /\ effect' = [effect EXCEPT ![poll] =
                 [rate |-> IF <<poll, CurrentPhase>> \in scope.dormant THEN 0 ELSE Combined(rate', poll),
                  phase |-> CurrentPhase]]
            /\ poll' = None
    /\ UNCHANGED <<queueVars, time, todo, phaseVars, reportVars>>

-----------------------------------------------------------------------------
(* get_phase_info, in the status reporter's thread: the phase, then the clock again *)

BeginReport ==
    /\ scope.reports /\ report.phase = 0
    /\ report' = [phase |-> CurrentPhase, fields |-> Fields] /\ shown' = NothingShown
    /\ UNCHANGED <<queueVars, time, poll, todo, directiveVars, effect, phaseVars>>

\* What is shown is kept with two facts about the report: that its phase was not a forced
\* one, and that the scheduler was left alone and its clock has stayed in the phase.
EndReport ==
    /\ report.phase # 0
    /\ shown' = IF Duration(report.phase) = 0 THEN NothingShown
                ELSE [phase |-> report.phase, elapsed |-> PhaseElapsed(report.phase),
                      free |-> report.fields.forced = 0,
                      steady |-> report.fields = Fields /\ ~midway /\ CurrentPhase = report.phase]
    /\ report' = NoReport
    /\ UNCHANGED <<queueVars, time, poll, todo, directiveVars, effect, phaseVars>>

Apply ==
    \/ ApplyAdjust \/ ApplyReset
    \/ ApplySkip \/ ApplyForce
    \/ BeginPause \/ EndPause \/ BeginResume \/ EndResume \/ ApplyNothing

Sendable ==
    {Plain(k) : k \in Kinds \ {"adjust", "force"}}
    \cup {Adjust(t, r) : t \in Targets, r \in Rates}
    \cup {ForcePhase(i) : i \in Phases \cup {Len(scope.ends) + 1}}

Next ==
    \/ TimePasses
    \/ \E d \in Sendable : SendDirective(d)
    \/ \E d, e \in Sendable : SendPair(d, e)
    \/ \E f \in Flows : BeginPoll(f)
    \/ Apply
    \/ EndPoll
    \/ BeginReport \/ EndReport

Spec == Init /\ [][Next]_vars

-----------------------------------------------------------------------------
(* Properties *)

TypeOK ==
    /\ scope \in Scopes /\ time \in Nat /\ sends \in Nat
    /\ slot \in Seq(Directive) /\ todo \in Seq(Directive)
    /\ poll \in Flows \cup {None, Raised}
    /\ active \in SUBSET [target : Targets, born : 0 .. time]
    /\ rate \in [Targets -> Rates \cup {0}]
    /\ paused \in BOOLEAN /\ midway \in BOOLEAN
    /\ start \in 0 .. time /\ offset \in Nat /\ pause_time \in 0 .. time
    /\ forced \in {0} \cup Phases
    /\ report.phase \in {0} \cup Phases

\* A multiplier is never left without a directive that expires: whatever batches are
\* applied, dropped or reset, a rate that is not the normal one ends by itself.
MultiplierIsBacked == \A t \in Targets : rate[t] # 0 => \E d \in active : d.target = t

\* The interval a poll leaves its flow with is the normal one, or a dormant flow's, unless a
\* directive for the flow or its protocol has time left at that very poll: adjustments that
\* are over, replaced or reset never shape another interval.
EffectIsLive ==
    [][\A f \in Flows :
          effect'[f] # effect[f] /\ effect'[f].rate \notin {0, 1}
          => \E d \in active : d.target \in {f, ProtocolOf[f]} /\ ~Expired(d)]_vars

\* The clock as the scenario's thread keeps it, which does not read it midway.
ThreadElapsed == (IF paused /\ ~midway THEN pause_time ELSE time) - start + offset

\* The phase clock: it stands still while it is paused, pausing and resuming do not move
\* it, and nothing sets it back; only a skip makes it jump.
PhaseClock ==
    [][/\ ThreadElapsed' >= ThreadElapsed
       /\ offset' = offset /\ ((paused /\ ~midway) \/ time' = time) => ThreadElapsed' = ThreadElapsed]_vars

\* A skip is applied.
Skips == todo # <<>> /\ Head(todo).kind = "skip" /\ todo' = Tail(todo)

\* The phase that follows the phase i: the next one with a duration, from the front again in
\* a repeating cycle, and the last one at the end of a cycle that does not repeat.
Following(i) ==
    LET later == {j \in Phases : i < j /\ Duration(j) > 0}
        lasting == {j \in Phases : Duration(j) > 0}
        First(S) == CHOOSE j \in S : \A k \in S : j <= k
    IN  IF later # {} THEN First(later)
        ELSE IF scope.cycle THEN First(lasting) ELSE Len(scope.ends)

\* A skip, of a running, paused or forced phase, ends at the beginning of the phase that
\* follows the one the clock is in, until a cycle that does not repeat has come to its end.
SkipLands ==
    [][Skips /\ Position < CycleDuration =>
          /\ CurrentPhase' = Following(PhaseAt(Position))
          /\ Position' < CycleDuration => Position' = Begins(CurrentPhase')]_vars

\* A report whose two reads fall into one phase, with the scheduler left alone between them,
\* shows the phase neither less than begun nor, in a repeating cycle, more than finished,
\* unless it is a phase an operator forced.
ProgressInRange ==
    shown.free /\ shown.steady =>
        /\ shown.elapsed >= 0
        /\ scope.cycle => shown.elapsed < Duration(shown.phase)
=============================================================================
