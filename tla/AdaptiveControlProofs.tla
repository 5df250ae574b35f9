------------------------ MODULE AdaptiveControlProofs ------------------------
(***************************************************************************)
(* Proofs about AdaptiveControl, for any flows, rates, phases and bounds.  *)
(***************************************************************************)
EXTENDS AdaptiveControl, WellFoundedInduction, TLAPS

-----------------------------------------------------------------------------
(* The phases *)

\* A set of natural numbers that is not empty has a least element.
LEMMA LeastNat ==
  ASSUME NEW S, S \subseteq Nat, S # {}
  PROVE  \E n \in S : \A m \in S : n <= m
  <1> DEFINE R == {ss \in Nat \X Nat : ss[1] < ss[2]}
  <1>1. R = OpToRel(<, Nat)
    BY Zenon DEF OpToRel
  <1>2. IsWellFoundedOn(R, Nat)
    BY <1>1, NatLessThanWellFounded
  <1>3. PICK n \in S : \A m \in S : <<m, n>> \notin R
    <2> HIDE DEF R
    <2> QED BY <1>2, WFMin
  <1>4. \A m \in S : n <= m
    <2>1. \A m \in Nat : <<m, n>> \in Nat \X Nat /\ <<m, n>>[1] = m /\ <<m, n>>[2] = n
      BY <1>3
    <2>2. \A m \in S : ~(m < n)
      BY <1>3, <2>1
    <2> QED BY <1>3, <2>2
  <1> QED BY <1>4

\* What the assumption says of the phases of a deployment.
LEMMA PhasesFact ==
  ASSUME scope \in Scopes
  PROVE  /\ scope.ends \in Seq(Nat) /\ Len(scope.ends) \in Nat \ {0}
         /\ Phases = 1 .. Len(scope.ends)
         /\ \A i \in Phases : scope.ends[i] \in Nat
         /\ CycleDuration \in Nat \ {0} /\ scope.cycle \in BOOLEAN
  <1>1. scope \in Scope /\ Len(scope.ends) > 0
    BY AdaptiveAssumption
  <1>2. scope.ends \in Seq(Nat) /\ scope.cycle \in BOOLEAN
    BY <1>1 DEF Scope
  <1>3. Len(scope.ends) \in Nat \ {0} /\ Phases = 1 .. Len(scope.ends)
    BY <1>1, <1>2 DEF Phases
  <1>4. \A i \in Phases : scope.ends[i] \in Nat
    BY <1>2, <1>3
  <1>5. CycleDuration \in Nat \ {0}
    <2>1. Len(scope.ends) \in Phases /\ CycleDuration > 0
      BY <1>3, AdaptiveAssumption DEF CycleDuration
    <2> QED BY <1>4, <2>1 DEF CycleDuration
  <1> QED BY <1>2, <1>3, <1>4, <1>5

\* The phase of a position is the first one that ends after it.
LEMMA FirstPhase ==
  ASSUME scope \in Scopes, NEW p \in Int, \E i \in Phases : p < scope.ends[i]
  PROVE  /\ PhaseAt(p) \in Phases /\ p < scope.ends[PhaseAt(p)]
         /\ \A j \in 1 .. PhaseAt(p) - 1 : p >= scope.ends[j]
  <1> DEFINE S == {i \in Phases : p < scope.ends[i]}
  <1>1. S \in SUBSET Nat /\ S # {}
    BY PhasesFact
  <1>2. PICK n \in S : \A m \in S : n <= m
    <2> HIDE DEF S
    <2> QED BY <1>1, LeastNat
  <1>3. \A j \in 1 .. n - 1 : p >= scope.ends[j]
    <2> SUFFICES ASSUME NEW j \in 1 .. n - 1 PROVE p >= scope.ends[j]
      OBVIOUS
    <2>1. n \in 1 .. Len(scope.ends) /\ Len(scope.ends) \in Nat
      BY <1>2, PhasesFact
    <2>2. j \in 1 .. Len(scope.ends) /\ ~(n <= j)
      BY <2>1
    <2>3. j \in Phases /\ j \notin S /\ scope.ends[j] \in Nat
      BY <1>2, <2>2, PhasesFact
    <2> QED BY <2>3
  <1>4. n \in Phases /\ p < scope.ends[n] /\ \A j \in 1 .. n - 1 : p >= scope.ends[j]
    BY <1>2, <1>3
  <1> HIDE DEF S
  <1> QED BY <1>4 DEF PhaseAt

\* A position before the end of the cycle is in a phase.
LEMMA PositionInPhase ==
  ASSUME scope \in Scopes, NEW p \in Int, p < CycleDuration
  PROVE  \E i \in Phases : p < scope.ends[i]
  BY PhasesFact DEF CycleDuration

-----------------------------------------------------------------------------
(* Types *)

\* A directive that adjusts a rate names its target.
Asked == {d \in Directive : d.kind = "adjust" => d.target \in Targets}

\* Between the two writes of a pause or a resume the thread is applying that directive.
Midway == midway => poll \in Flows /\ todo # <<>> /\ Head(todo).kind \in {"pause", "resume"} /\ paused

\* The inductive invariant: TypeOK, what the operator may send, where the thread can be
\* midway, that directives are left only within a poll, and that the clock of the phases was not started after it was paused.
ControlInv ==
    /\ TypeOK
    /\ slot \in Seq(Asked) /\ todo \in Seq(Asked)
    /\ Midway /\ (poll \notin Flows => todo = <<>>)
    /\ paused /\ ~midway => start <= pause_time

LEMMA SendableAsked == ASSUME scope \in Scopes PROVE Sendable \subseteq Asked
  <1>1. \A k \in Kinds \ {"adjust", "force"} : Plain(k) \in Asked
    BY AdaptiveAssumption DEF Plain, Asked, Directive, Kinds
  <1>2. \A t \in Targets, r \in Rates : Adjust(t, r) \in Asked
    BY DEF Adjust, Plain, Asked, Directive, Kinds
  <1>3. \A i \in Phases \cup {Len(scope.ends) + 1} : ForcePhase(i) \in Asked
    <2>1. \A i \in Nat : ForcePhase(i) \in Asked
      BY DEF ForcePhase, Plain, Asked, Directive, Kinds
    <2>2. \A i \in Phases \cup {Len(scope.ends) + 1} : i \in Nat
      <3> DEFINE n == Len(scope.ends)
      <3>1. n \in Nat /\ Phases = 1 .. n
        BY PhasesFact
      <3> HIDE DEF n
      <3>2. \A i \in Phases \cup {n + 1} : i \in Nat
        BY <3>1
      <3> QED BY <3>2 DEF n
    <2> QED BY <2>1, <2>2
  <1>4. ASSUME NEW d \in Sendable PROVE d \in Asked
    <2>1. \/ \E k \in Kinds \ {"adjust", "force"} : d = Plain(k)
          \/ \E t \in Targets, q \in Rates : d = Adjust(t, q)
          \/ \E i \in Phases \cup {Len(scope.ends) + 1} : d = ForcePhase(i)
      BY DEF Sendable
    <2> QED BY Zenon, <1>1, <1>2, <1>3, <2>1
  <1> QED BY <1>4

\* The clock is a natural number as the thread reads it; midway, the reporter may read less.
LEMMA ElapsedType ==
  ASSUME ControlInv
  PROVE  /\ Elapsed \in Int /\ (~midway => Elapsed \in Nat)
         /\ scope.cycle => Position \in 0 .. CycleDuration - 1
         /\ ~scope.cycle => Position = Elapsed
  <1>1. Elapsed \in Int /\ (~midway => Elapsed \in Nat)
    BY DEF ControlInv, TypeOK, Elapsed
  <1>2. CycleDuration \in Nat \ {0}
    BY PhasesFact DEF ControlInv, TypeOK
  <1>3. Elapsed % CycleDuration \in 0 .. CycleDuration - 1
    BY <1>1, <1>2
  <1> QED BY <1>1, <1>3 DEF Position

\* The phase of any clock is a phase.
LEMMA CurrentType == ASSUME ControlInv PROVE CurrentPhase \in Phases
  <1>1. scope \in Scopes /\ forced \in {0} \cup Phases /\ Elapsed \in Int /\ CycleDuration \in Nat \ {0}
    BY ElapsedType, PhasesFact DEF ControlInv, TypeOK
  <1>2. Len(scope.ends) \in Phases
    BY <1>1, PhasesFact
  <1>3. ~(~scope.cycle /\ Elapsed >= CycleDuration) => Position \in Int /\ Position < CycleDuration
    BY <1>1, ElapsedType
  <1>4. Position \in Int /\ Position < CycleDuration => PhaseAt(Position) \in Phases
    BY <1>1, PositionInPhase, FirstPhase
  <1> QED BY <1>1, <1>2, <1>3, <1>4 DEF CurrentPhase

\* A skip goes forward.
LEMMA SkipType ==
  ASSUME ControlInv, Position < CycleDuration
  PROVE  SkipAmount \in Nat
  <1>1. Position \in Int
    BY ElapsedType, PhasesFact DEF ControlInv, TypeOK
  <1>2. PhaseAt(Position) \in Phases /\ Position < scope.ends[PhaseAt(Position)]
    BY <1>1, PositionInPhase, FirstPhase DEF ControlInv, TypeOK
  <1>3. scope.ends[PhaseAt(Position)] \in Nat
    BY <1>2, PhasesFact DEF ControlInv, TypeOK
  <1> QED BY <1>1, <1>2, <1>3 DEF SkipAmount

\* The batch, what is left of it and the first directive of it.
LEMMA BatchType ==
  ASSUME ControlInv, todo # <<>>
  PROVE  Head(todo) \in Asked /\ Tail(todo) \in Seq(Asked)
  BY DEF ControlInv

LEMMA AskedDirective == \A s \in Seq(Asked) : s \in Seq(Directive)
  BY DEF Asked

LEMMA InitInv == Init => ControlInv
  <1> SUFFICES ASSUME Init PROVE ControlInv
    OBVIOUS
  <1>1. <<>> \in Seq(Asked)
    OBVIOUS
  <1>2. rate \in [Targets -> Rates \cup {0}]
    BY DEF Init
  <1>3. scope \in Scopes /\ time = 0 /\ sends = 0 /\ slot = <<>> /\ todo = <<>> /\ poll = None
        /\ active = {} /\ start = 0 /\ offset = 0 /\ pause_time = 0 /\ forced = 0 /\ report.phase = 0
    BY DEF Init, NoReport
  <1>4. paused \in BOOLEAN /\ ~paused /\ midway \in BOOLEAN /\ ~midway
    BY DEF Init
  <1> QED BY <1>1, <1>2, <1>3, <1>4, AskedDirective DEF ControlInv, TypeOK, Midway

\* The steps that leave the phases alone.
LEMMA QueueStep ==
  ASSUME ControlInv,
         \/ TimePasses
         \/ \E d \in Sendable : SendDirective(d)
         \/ \E d, e \in Sendable : SendPair(d, e)
         \/ \E f \in Flows : BeginPoll(f)
  PROVE  ControlInv'
  <1>1. Sendable \subseteq Asked
    BY SendableAsked DEF ControlInv, TypeOK
  <1>2. CASE TimePasses
    <2>1. time' \in Nat /\ time <= time'
      BY <1>2 DEF TimePasses, ControlInv, TypeOK
    <2>2. active' \in SUBSET [target : Targets, born : 0 .. time']
      BY <1>2, <2>1 DEF TimePasses, ControlInv, TypeOK, directiveVars
    <2>3. start' \in 0 .. time' /\ pause_time' \in 0 .. time'
      BY <1>2, <2>1 DEF TimePasses, ControlInv, TypeOK, phaseVars
    <2>4. UNCHANGED <<queueVars, poll, todo, directiveVars, phaseVars, reportVars>>
      BY <1>2 DEF TimePasses
    <2> QED BY <2>1, <2>2, <2>3, <2>4
            DEF ControlInv, TypeOK, Midway, queueVars, directiveVars, phaseVars, reportVars, Phases
  <1>3. ASSUME NEW d \in Sendable, SendDirective(d) PROVE ControlInv'
    <2>1. slot' \in Seq(Asked) /\ sends' \in Nat
      BY <1>1, <1>3 DEF SendDirective, ControlInv, TypeOK
    <2>2. UNCHANGED <<scope, time, poll, todo, directiveVars, phaseVars, reportVars>>
      BY <1>3 DEF SendDirective
    <2> QED BY <2>1, <2>2, AskedDirective DEF ControlInv, TypeOK, Midway, directiveVars, phaseVars, reportVars, Phases
  <1>4. ASSUME NEW d \in Sendable, NEW e \in Sendable, SendPair(d, e) PROVE ControlInv'
    <2>1. slot' \in Seq(Asked) /\ sends' \in Nat
      BY <1>1, <1>4 DEF SendPair, ControlInv, TypeOK
    <2>2. UNCHANGED <<scope, time, poll, todo, directiveVars, phaseVars, reportVars>>
      BY <1>4 DEF SendPair
    <2> QED BY <2>1, <2>2, AskedDirective DEF ControlInv, TypeOK, Midway, directiveVars, phaseVars, reportVars, Phases
  <1>5. ASSUME NEW f \in Flows, BeginPoll(f) PROVE ControlInv'
    <2>1. slot' = <<>> /\ todo' = slot /\ poll' = f /\ poll = None
      BY <1>5 DEF BeginPoll
    <2>2. slot' \in Seq(Asked) /\ todo' \in Seq(Asked)
      BY <2>1 DEF ControlInv
    <2>3. UNCHANGED <<scope, time, sends, directiveVars, phaseVars, reportVars>>
      BY <1>5 DEF BeginPoll
    <2>4. ~midway
      BY <2>1, FlowsAssumption DEF ControlInv, Midway, None
    <2> QED BY <2>1, <2>2, <2>3, <2>4, AskedDirective
            DEF ControlInv, TypeOK, Midway, directiveVars, phaseVars, reportVars, Phases
  <1> QED BY <1>2, <1>3, <1>4, <1>5

\* The directives that change a rate.
LEMMA RateStep ==
  ASSUME ControlInv, ApplyAdjust \/ ApplyReset
  PROVE  ControlInv'
  <1>1. /\ todo # <<>> /\ todo' = Tail(todo) /\ Head(todo).kind \in {"adjust", "reset"}
        /\ poll \in Flows /\ UNCHANGED <<scope, sends, slot, time, poll>> /\ UNCHANGED phaseVars /\ UNCHANGED reportVars
    BY DEF ApplyAdjust, ApplyReset, Applies, Handles, queueVars
  <1>2. todo' \in Seq(Asked) /\ Head(todo) \in Asked
    BY <1>1, BatchType
  <1>3. active' \in SUBSET [target : Targets, born : 0 .. time]
    <2>1. CASE ApplyAdjust
      <3>1. Head(todo).target \in Targets
        BY <1>2, <2>1 DEF ApplyAdjust, Applies, Handles, Asked
      <3>2. active' = active \cup {[target |-> Head(todo).target, born |-> time]}
        BY <2>1 DEF ApplyAdjust
      <3> QED BY <3>1, <3>2 DEF ControlInv, TypeOK
    <2>2. CASE ApplyReset
      BY <2>2 DEF ApplyReset
    <2> QED BY <2>1, <2>2
  <1>4. rate' \in [Targets -> Rates \cup {0}]
    <2>1. CASE ApplyAdjust
      <3>1. Head(todo).rate \in Rates \cup {0}
        BY <1>2 DEF Asked, Directive
      <3> QED BY <2>1, <3>1 DEF ApplyAdjust, ControlInv, TypeOK
    <2>2. CASE ApplyReset
      BY <2>2 DEF ApplyReset
    <2> QED BY <2>1, <2>2
  <1>5. ~midway
    BY <1>1 DEF ControlInv, Midway
  <1> QED BY <1>1, <1>2, <1>3, <1>4, <1>5, AskedDirective
          DEF ControlInv, TypeOK, Midway, phaseVars, reportVars, Phases

\* The directives that control the phases, in one step.
LEMMA PhaseStep ==
  ASSUME ControlInv, ApplySkip \/ ApplyForce \/ ApplyNothing
  PROVE  ControlInv'
  <1>1. /\ todo # <<>> /\ todo' = Tail(todo)
        /\ poll \in Flows /\ UNCHANGED <<scope, sends, slot, time, poll>> /\ UNCHANGED directiveVars /\ UNCHANGED reportVars
        /\ UNCHANGED <<start, paused, pause_time, midway>>
    BY DEF ApplySkip, ApplyForce, ApplyNothing, Applies, Handles, queueVars, phaseVars
  <1>2. todo' \in Seq(Asked) /\ Head(todo) \in Asked
    BY <1>1, BatchType
  <1>3. ~midway
    BY DEF ApplySkip, ApplyForce, ApplyNothing, Applies, Handles, ControlInv, Midway
  <1>4. offset' \in Nat
    <2>1. CASE ApplySkip /\ Position < CycleDuration
      <3>1. SkipAmount \in Nat /\ offset \in Nat
        BY <2>1, SkipType DEF ControlInv, TypeOK
      <3>2. offset' = offset + SkipAmount
        BY <2>1 DEF ApplySkip
      <3> QED BY <3>1, <3>2
    <2>2. CASE ~(ApplySkip /\ Position < CycleDuration)
      BY <2>2 DEF ApplySkip, ApplyForce, ApplyNothing, phaseVars, ControlInv, TypeOK
    <2> QED BY <2>1, <2>2
  <1>5. forced' \in {0} \cup Phases
    BY DEF ApplySkip, ApplyForce, ApplyNothing, phaseVars, ControlInv, TypeOK
  <1> QED BY <1>1, <1>2, <1>3, <1>4, <1>5, AskedDirective
          DEF ControlInv, TypeOK, Midway, directiveVars, reportVars, Phases

\* The two writes of a pause and of a resume.
LEMMA PauseStep ==
  ASSUME ControlInv, BeginPause \/ EndPause \/ BeginResume \/ EndResume
  PROVE  ControlInv'
  <1>1. /\ todo # <<>> /\ todo' \in {todo, Tail(todo)} /\ Head(todo).kind \in {"pause", "resume"}
        /\ poll \in Flows /\ offset' = offset /\ forced' = forced
        /\ UNCHANGED <<scope, sends, slot, time, poll>> /\ UNCHANGED directiveVars /\ UNCHANGED reportVars
    BY DEF BeginPause, EndPause, BeginResume, EndResume, Applies, Handles, queueVars
  <1>2. todo' \in Seq(Asked)
    BY <1>1, BatchType DEF ControlInv
  <1>3. paused' \in BOOLEAN /\ midway' \in BOOLEAN /\ (midway' => paused' /\ todo' = todo)
    <2>1. CASE BeginPause
      BY Zenon, <2>1 DEF BeginPause
    <2>2. CASE EndPause
      BY Zenon, <2>2 DEF EndPause, ControlInv, TypeOK
    <2>3. CASE BeginResume
      BY Zenon, <2>3 DEF BeginResume, ControlInv, TypeOK
    <2>4. CASE EndResume
      BY Zenon, <2>4 DEF EndResume
    <2> QED BY <2>1, <2>2, <2>3, <2>4
  <1>4. start' \in 0 .. time /\ pause_time' \in 0 .. time
        /\ (paused' /\ ~midway' => start' <= pause_time')
    <2> USE DEF ControlInv, TypeOK
    <2>1. CASE BeginPause
      BY <2>1 DEF BeginPause
    <2>2. CASE EndPause
      BY <2>2 DEF EndPause
    <2>3. CASE BeginResume
      <3>1. paused /\ ~midway /\ start' = start + (time - pause_time) /\ pause_time' = pause_time /\ midway' = TRUE
        BY <2>3 DEF BeginResume
      <3>2. start <= pause_time /\ start \in 0 .. time /\ pause_time \in 0 .. time /\ time \in Nat
        BY <3>1
      <3>3. start' \in 0 .. time
        BY <3>1, <3>2
      <3> QED BY <3>1, <3>2, <3>3
    <2>4. CASE EndResume
      BY <2>4 DEF EndResume
    <2> QED BY <2>1, <2>2, <2>3, <2>4
  <1>5. Midway'
    BY <1>1, <1>3 DEF Midway
  <1> QED BY <1>1, <1>2, <1>3, <1>4, <1>5, AskedDirective
          DEF ControlInv, TypeOK, directiveVars, reportVars, Phases

\* The end of a poll, and the reporter.
LEMMA EndStep == ASSUME ControlInv, EndPoll PROVE ControlInv'
  <1>1. UNCHANGED <<queueVars, time, todo, phaseVars, reportVars>> /\ poll' \in {None, Raised} /\ todo = <<>>
    BY DEF EndPoll
  <1>2. active' \in SUBSET [target : Targets, born : 0 .. time]
    BY DEF EndPoll, ControlInv, TypeOK
  <1>3. rate' \in [Targets -> Rates \cup {0}]
    BY DEF EndPoll, Dropped, ControlInv, TypeOK
  <1>4. ~midway
    BY <1>1 DEF ControlInv, Midway
  <1> QED BY <1>1, <1>2, <1>3, <1>4 DEF ControlInv, TypeOK, Midway, queueVars, phaseVars, reportVars, Phases

LEMMA ReportStep == ASSUME ControlInv, BeginReport \/ EndReport PROVE ControlInv'
  <1>1. UNCHANGED <<queueVars, time, poll, todo, directiveVars, phaseVars>>
    BY DEF BeginReport, EndReport
  <1>2. report'.phase \in {0} \cup Phases
    BY CurrentType DEF BeginReport, EndReport, NoReport
  <1> QED BY <1>1, <1>2 DEF ControlInv, TypeOK, Midway, queueVars, directiveVars, phaseVars, Phases

LEMMA NextInv == ControlInv /\ [Next]_vars => ControlInv'
  <1> SUFFICES ASSUME ControlInv, [Next]_vars PROVE ControlInv'
    OBVIOUS
  <1>1. CASE UNCHANGED vars
    BY <1>1 DEF vars, ControlInv, TypeOK, Midway, Phases
  <1>2. CASE Next
    BY <1>2, QueueStep, RateStep, PhaseStep, PauseStep, EndStep, ReportStep DEF Next, Apply
  <1> QED BY <1>1, <1>2

LEMMA ControlAlways == Spec => []ControlInv
  BY InitInv, NextInv, PTL DEF Spec

\* The type invariant of the controller and its phases, for any flows, rates, phases,
\* directives and bounds.
THEOREM AdaptiveTypeOK == Spec => []TypeOK
  <1>1. ControlInv => TypeOK
    BY DEF ControlInv
  <1> QED BY <1>1, ControlAlways, PTL

-----------------------------------------------------------------------------
(* Directives *)

LEMMA BackedStep ==
  ASSUME ControlInv, MultiplierIsBacked, [Next]_vars
  PROVE  MultiplierIsBacked'
  <1> USE DEF MultiplierIsBacked
  <1>0. rate \in [Targets -> Rates \cup {0}]
    BY DEF ControlInv, TypeOK
  <1>1. CASE UNCHANGED <<active, rate>>
    BY <1>1
  <1>2. CASE ApplyAdjust
    <2>1. /\ rate' = [rate EXCEPT ![Head(todo).target] = Head(todo).rate]
          /\ active' = active \cup {[target |-> Head(todo).target, born |-> time]}
      BY <1>2 DEF ApplyAdjust
    <2> SUFFICES ASSUME NEW t \in Targets, rate'[t] # 0 PROVE \E d \in active' : d.target = t
      OBVIOUS
    <2>2. CASE t = Head(todo).target
      <3> DEFINE d == [target |-> Head(todo).target, born |-> time]
      <3>1. d.target = t
        BY <2>2
      <3>2. d \in active'
        BY <2>1
      <3> HIDE DEF d
      <3> QED BY <3>1, <3>2
    <2>3. CASE t # Head(todo).target
      <3>1. rate'[t] = rate[t]
        BY <1>0, <2>1, <2>3
      <3> QED BY <2>1, <3>1
    <2> QED BY <2>2, <2>3
  <1>3. CASE ApplyReset
    BY <1>3 DEF ApplyReset
  <1>4. CASE EndPoll
    <2> SUFFICES ASSUME NEW t \in Targets, rate'[t] # 0 PROVE \E d \in active' : d.target = t
      OBVIOUS
    <2>1. rate[t] # 0 /\ \A d \in active : Expired(d) => d.target # t
      BY <1>4 DEF EndPoll, Dropped
    <2>2. active' = active \ {d \in active : Expired(d)}
      BY <1>4 DEF EndPoll
    <2> QED BY <2>1, <2>2
  <1>5. [Next]_vars => UNCHANGED <<active, rate>> \/ ApplyAdjust \/ ApplyReset \/ EndPoll
    BY DEF Next, vars, Apply, TimePasses, SendDirective, SendPair, BeginPoll, ApplySkip, ApplyForce, ApplyNothing,
           BeginPause, EndPause, BeginResume, EndResume, BeginReport, EndReport, directiveVars
  <1> QED BY <1>1, <1>2, <1>3, <1>4, <1>5

\* A multiplier that is not the normal one has a directive that will expire, whatever
\* batches are sent, applied, dropped and reset.
THEOREM AdaptiveMultiplierIsBacked == Spec => []MultiplierIsBacked
  <1>1. Init => MultiplierIsBacked
    BY DEF Init, MultiplierIsBacked
  <1>2. ControlInv /\ MultiplierIsBacked /\ [Next]_vars => MultiplierIsBacked'
    BY BackedStep
  <1> QED BY <1>1, <1>2, ControlAlways, PTL DEF Spec

\* A poll leaves its flow a rate that is not the normal one only for a directive with time
\* left, for any flows, protocols, rates and batches.
THEOREM AdaptiveEffectIsLive == Spec => EffectIsLive
  <1> DEFINE Live == \A f \in Flows :
                        effect'[f] # effect[f] /\ effect'[f].rate \notin {0, 1}
                        => \E d \in active : d.target \in {f, ProtocolOf[f]} /\ ~Expired(d)
  <1>1. ASSUME ControlInv, MultiplierIsBacked, EndPoll, effect' # effect PROVE Live
    <2> SUFFICES ASSUME NEW f \in Flows, effect'[f] # effect[f], effect'[f].rate \notin {0, 1}
                 PROVE  \E d \in active : d.target \in {f, ProtocolOf[f]} /\ ~Expired(d)
      OBVIOUS
    <2> DEFINE e == [rate |-> IF <<poll, CurrentPhase>> \in scope.dormant THEN 0 ELSE Combined(rate', poll),
                     phase |-> CurrentPhase]
    <2>1. effect' = [effect EXCEPT ![poll] = e] /\ rate' = Dropped({d \in active : Expired(d)})
      BY <1>1 DEF EndPoll
    <2>2. e.rate = IF <<poll, CurrentPhase>> \in scope.dormant THEN 0 ELSE Combined(rate', poll)
      OBVIOUS
    <2> HIDE DEF e
    <2>3. f = poll /\ effect'[f] = e
      BY <2>1
    <2>4. Combined(rate', f) # 1
      BY <2>2, <2>3
    <2>5. f \in Targets /\ ProtocolOf[f] \in Targets
      BY AdaptiveAssumption DEF Targets
    <2>6. PICK t \in {f, ProtocolOf[f]} : rate'[t] # 0
      <3> SUFFICES ASSUME rate'[f] = 0, rate'[ProtocolOf[f]] = 0 PROVE FALSE
        OBVIOUS
      <3>1. Combined(rate', f) = 1 * 1
        BY DEF Combined, Rate
      <3> QED BY <2>4, <3>1
    <2>7. rate[t] # 0 /\ \A d \in active : Expired(d) => d.target # t
      BY <2>1, <2>5, <2>6 DEF Dropped
    <2>8. PICK d \in active : d.target = t
      BY <1>1, <2>5, <2>6, <2>7 DEF MultiplierIsBacked
    <2> QED BY <2>6, <2>7, <2>8
  <1>2. ControlInv /\ MultiplierIsBacked /\ [Next]_vars => [Live]_vars
    <2>1. [Next]_vars => EndPoll \/ effect' = effect
      BY DEF Next, vars, Apply, TimePasses, SendDirective, SendPair, BeginPoll, ApplyAdjust, ApplyReset, ApplySkip,
             ApplyForce, ApplyNothing, BeginPause, EndPause, BeginResume, EndResume, Applies, Handles,
             BeginReport, EndReport
    <2> QED BY <1>1, <2>1
  <1> QED BY <1>2, ControlAlways, AdaptiveMultiplierIsBacked, PTL DEF Spec, EffectIsLive

-----------------------------------------------------------------------------
(* The phase clock *)

\* What a step does to the clock.
LEMMA ClockStep ==
  ASSUME ControlInv, [Next]_vars
  PROVE  /\ ThreadElapsed' >= ThreadElapsed
         /\ offset' = offset /\ ((paused /\ ~midway) \/ time' = time) => ThreadElapsed' = ThreadElapsed
  <1>0. /\ time \in Nat /\ start \in 0 .. time /\ pause_time \in 0 .. time /\ offset \in Nat
        /\ paused \in BOOLEAN /\ midway \in BOOLEAN
    BY DEF ControlInv, TypeOK
  <1>1. CASE TimePasses
    <2>1. time' = time + 1 /\ UNCHANGED <<start, offset, paused, pause_time, midway>>
      BY <1>1 DEF TimePasses, phaseVars
    <2>2. CASE paused /\ ~midway
      BY <1>0, <2>1, <2>2 DEF ThreadElapsed
    <2>3. CASE ~(paused /\ ~midway)
      BY <1>0, <2>1, <2>3 DEF ThreadElapsed
    <2> QED BY <2>2, <2>3
  <1>2. CASE ApplySkip
    <2>1. UNCHANGED <<time, start, paused, pause_time, midway>>
      BY <1>2 DEF ApplySkip, Applies, Handles
    <2>2. CASE Position < CycleDuration
      <3>1. SkipAmount \in Nat /\ offset' = offset + SkipAmount
        BY <1>2, <2>2, SkipType DEF ApplySkip
      <3> QED BY <1>0, <2>1, <3>1 DEF ThreadElapsed
    <2>3. CASE ~(Position < CycleDuration)
      <3>1. offset' = offset
        BY <1>2, <2>3 DEF ApplySkip
      <3> QED BY <1>0, <2>1, <3>1 DEF ThreadElapsed
    <2> QED BY <2>2, <2>3
  <1>3. CASE BeginPause \/ EndPause
    <2>1. CASE BeginPause
      <3>1. ~paused /\ paused' = TRUE /\ midway' = TRUE /\ UNCHANGED <<time, start, offset, pause_time>>
        BY <2>1 DEF BeginPause, Handles
      <3> QED BY <1>0, <3>1 DEF ThreadElapsed
    <2>2. CASE EndPause
      <3>1. midway /\ pause_time' = time /\ midway' = FALSE /\ UNCHANGED <<time, start, offset, paused>>
        BY <2>2 DEF EndPause, Applies, Handles
      <3> QED BY <1>0, <3>1 DEF ThreadElapsed
    <2> QED BY <1>3, <2>1, <2>2
  <1>4. CASE BeginResume \/ EndResume
    <2>1. CASE BeginResume
      <3>1. /\ paused /\ ~midway /\ start' = start + (time - pause_time) /\ midway' = TRUE
            /\ UNCHANGED <<time, offset, paused, pause_time>>
        BY <2>1 DEF BeginResume, Handles
      <3> QED BY <1>0, <3>1 DEF ThreadElapsed
    <2>2. CASE EndResume
      <3>1. midway /\ paused' = FALSE /\ UNCHANGED <<time, start, offset, pause_time>>
        BY <2>2 DEF EndResume, Applies, Handles
      <3> QED BY <1>0, <3>1 DEF ThreadElapsed
    <2> QED BY <1>4, <2>1, <2>2
  <1>5. CASE UNCHANGED <<time, start, offset, paused, pause_time, midway>>
    <2>1. ThreadElapsed' = ThreadElapsed
      BY <1>5 DEF ThreadElapsed
    <2>2. ThreadElapsed \in Int
      BY <1>0 DEF ThreadElapsed
    <2> QED BY <2>1, <2>2
  <1>6. \/ TimePasses \/ ApplySkip \/ BeginPause \/ EndPause \/ BeginResume \/ EndResume
        \/ UNCHANGED <<time, start, offset, paused, pause_time, midway>>
    BY DEF Next, vars, Apply, SendDirective, SendPair, BeginPoll, ApplyAdjust, ApplyReset,
           ApplyForce, ApplyNothing, Applies, Handles, EndPoll, BeginReport, EndReport, phaseVars
  <1> QED BY <1>1, <1>2, <1>3, <1>4, <1>5, <1>6

\* The clock of the phases never goes back, stands still while it is paused, and is not
\* moved by a pause or a resume.
THEOREM AdaptivePhaseClock == Spec => PhaseClock
  <1>1. ControlInv /\ [Next]_vars =>
            [/\ ThreadElapsed' >= ThreadElapsed
             /\ offset' = offset /\ ((paused /\ ~midway) \/ time' = time) => ThreadElapsed' = ThreadElapsed]_vars
    BY ClockStep
  <1> QED BY <1>1, ControlAlways, PTL DEF Spec, PhaseClock

\* The progress of a phase by the clock that is in it.
LEMMA SteadyProgress ==
  ASSUME ControlInv, forced = 0, ~midway
  PROVE  /\ PhaseElapsed(CurrentPhase) >= 0
         /\ scope.cycle => PhaseElapsed(CurrentPhase) < Duration(CurrentPhase)
  <1>0. scope \in Scopes /\ Elapsed \in Nat /\ CycleDuration \in Nat \ {0}
    BY ElapsedType, PhasesFact DEF ControlInv, TypeOK
  <1>1. ASSUME NEW p \in Nat, p < CycleDuration, InfoPosition = p, CurrentPhase = PhaseAt(p)
        PROVE  PhaseElapsed(CurrentPhase) >= 0 /\ PhaseElapsed(CurrentPhase) < Duration(CurrentPhase)
    <2> DEFINE c == PhaseAt(p)
    <2>1. c \in Phases /\ p < scope.ends[c] /\ \A j \in 1 .. c - 1 : p >= scope.ends[j]
      BY <1>0, <1>1, PositionInPhase, FirstPhase
    <2>2. scope.ends[c] \in Nat /\ c \in Nat \ {0}
      BY <1>0, <2>1, PhasesFact
    <2> HIDE DEF c
    <2>3. Begins(c) \in Nat /\ Begins(c) <= p
      <3>1. CASE c = 1
        BY <3>1 DEF Begins
      <3>2. CASE c # 1
        <4>1. c - 1 \in 1 .. c - 1 /\ c - 1 \in Phases
          BY <1>0, <2>1, <2>2, <3>2, PhasesFact
        <4>2. scope.ends[c - 1] \in Nat /\ p >= scope.ends[c - 1]
          BY <1>0, <2>1, <4>1, PhasesFact
        <4> QED BY <3>2, <4>2 DEF Begins
      <3> QED BY <3>1, <3>2
    <2>4. CurrentPhase = c
      BY <1>1 DEF c
    <2>5. PhaseElapsed(c) = p - Begins(c)
      BY <1>1, <2>1 DEF PhaseElapsed, PhaseStart
    <2> QED BY <2>1, <2>2, <2>3, <2>4, <2>5 DEF Duration
  <1>2. CASE scope.cycle
    <2> DEFINE p == Elapsed % CycleDuration
    <2>1. p \in Nat /\ p < CycleDuration
      BY <1>0
    <2>2. InfoPosition = p /\ CurrentPhase = PhaseAt(p)
      BY <1>2 DEF InfoPosition, CurrentPhase, Position
    <2> HIDE DEF p
    <2> QED BY <1>1, <2>1, <2>2
  <1>3. CASE ~scope.cycle /\ Elapsed < CycleDuration
    <2>1. InfoPosition = Elapsed /\ CurrentPhase = PhaseAt(Elapsed)
      BY <1>0, <1>3 DEF InfoPosition, CurrentPhase, Position
    <2> QED BY <1>0, <1>1, <1>3, <2>1
  <1>4. CASE ~scope.cycle /\ ~(Elapsed < CycleDuration)
    <2>1. InfoPosition = CycleDuration /\ CurrentPhase = Len(scope.ends)
      BY <1>0, <1>4 DEF InfoPosition, CurrentPhase
    <2>2. scope.ends[CurrentPhase] = CycleDuration
      BY <2>1 DEF CycleDuration
    <2>3. PhaseStart(CurrentPhase) = 0
      BY <1>0, <2>1, <2>2 DEF PhaseStart
    <2>4. PhaseElapsed(CurrentPhase) >= 0
      BY <1>0, <2>1, <2>3 DEF PhaseElapsed
    <2> QED BY <1>4, <2>4
  <1> QED BY <1>2, <1>3, <1>4

\* A report whose two reads of the clock fall into one phase shows a phase that has begun
\* and, in a repeating cycle, is not over, whatever was done before it.
THEOREM AdaptiveProgressInRange == Spec => []ProgressInRange
  <1>1. Init => ProgressInRange
    BY DEF Init, ProgressInRange, NothingShown
  <1>2. ASSUME ControlInv, ProgressInRange, [Next]_vars PROVE ProgressInRange'
    <2>1. CASE UNCHANGED <<scope, shown>>
      BY <1>2, <2>1 DEF ProgressInRange, Duration, Begins
    <2>2. CASE shown' = NothingShown
      BY <2>2 DEF ProgressInRange, NothingShown
    <2>3. CASE EndReport /\ shown' # NothingShown
      <3> DEFINE i == report.phase
                 e == PhaseElapsed(i)
                 fr == (report.fields.forced = 0)
                 st == (report.fields = Fields /\ ~midway /\ CurrentPhase = i)
      <3>1. shown' = [phase |-> i, elapsed |-> e, free |-> fr, steady |-> st] /\ scope' = scope
        BY <2>3 DEF EndReport, queueVars
      <3>2. fr /\ st => forced = 0 /\ ~midway /\ CurrentPhase = i
        BY DEF Fields
      <3>3. fr /\ st => e >= 0 /\ (scope.cycle => e < Duration(i))
        BY <1>2, <3>2, SteadyProgress
      <3> HIDE DEF i, e, fr, st
      <3>4. shown'.phase = i /\ shown'.elapsed = e /\ shown'.free = fr /\ shown'.steady = st
        BY <3>1
      <3>5. Duration(shown.phase)' = Duration(i)
        BY <3>1, <3>4 DEF Duration, Begins
      <3> QED BY <3>1, <3>3, <3>4, <3>5 DEF ProgressInRange
    <2>4. UNCHANGED <<scope, shown>> \/ shown' = NothingShown \/ EndReport
      BY <1>2 DEF Next, vars, Apply, TimePasses, SendDirective, SendPair, BeginPoll, ApplyAdjust, ApplyReset,
             ApplySkip, ApplyForce, ApplyNothing, BeginPause, EndPause, BeginResume, EndResume, Applies, Handles,
             EndPoll, BeginReport, queueVars, reportVars
    <2> QED BY <2>1, <2>2, <2>3, <2>4
  <1> QED BY <1>1, <1>2, ControlAlways, PTL DEF Spec

-----------------------------------------------------------------------------
(* Skipping a phase *)

\* What a remainder is, for a dividend that is not negative.
LEMMA DivMod ==
  ASSUME NEW e \in Nat, NEW c \in Nat \ {0}
  PROVE  e = c * (e \div c) + (e % c) /\ e \div c \in Int /\ e % c \in 0 .. c - 1
  OBVIOUS

LEMMA ModOf ==
  ASSUME NEW q \in Int, NEW r \in Int, NEW c \in Nat \ {0}, r \in 0 .. c - 1
  PROVE  (c * q + r) % c = r
  OBVIOUS

\* A clock that advances by d to the place p of its cycle, or to the end of the cycle.
LEMMA ModAdvance ==
  ASSUME NEW e \in Nat, NEW d \in Int, NEW c \in Nat \ {0}, NEW p \in 0 .. c, (e % c) + d = p
  PROVE  (e + d) % c = IF p = c THEN 0 ELSE p
  <1> DEFINE q == e \div c
  <1>1. e = c * q + (e % c) /\ q \in Int /\ e % c \in Int
    BY DivMod
  <1> HIDE DEF q
  <1>2. e + d = c * q + p
    BY <1>1
  <1>3. CASE p # c
    <2>1. p \in Int /\ p \in 0 .. c - 1
      BY <1>3
    <2>2. (c * q + p) % c = p
      BY <1>1, <2>1, ModOf
    <2> QED BY <1>2, <1>3, <2>2
  <1>4. CASE p = c
    <2>1. c * (q + 1) = c * q + c /\ c * (q + 1) \in Int
      BY <1>1
    <2>2. q + 1 \in Int /\ 0 \in Int /\ 0 \in 0 .. c - 1
      BY <1>1
    <2>3. (c * (q + 1) + 0) % c = 0
      BY <2>2, ModOf
    <2>4. c * (q + 1) + 0 = e + d
      BY <1>2, <1>4, <2>1
    <2> QED BY <1>4, <2>3, <2>4
  <1> QED BY <1>3, <1>4

\* The phases end one after the other; where none of those from a to b lasts, b begins
\* where a does.
LEMMA BeginsType ==
  ASSUME scope \in Scopes, NEW i \in 1 .. Len(scope.ends) + 1
  PROVE  /\ Begins(i) \in Nat
         /\ i \in Phases => /\ Begins(i + 1) = scope.ends[i] /\ Begins(i) <= Begins(i + 1)
                            /\ Duration(i) = Begins(i + 1) - Begins(i)
  <1>0. Phases = 1 .. Len(scope.ends) /\ Len(scope.ends) \in Nat /\ \A k \in Phases : scope.ends[k] \in Nat
    BY PhasesFact
  <1>1. \A k \in 2 .. Len(scope.ends) : scope.ends[k - 1] <= scope.ends[k]
    BY AdaptiveAssumption
  <1>2. Begins(i) \in Nat
    <2>1. i # 1 => i - 1 \in Phases
      BY <1>0
    <2> QED BY <1>0, <2>1 DEF Begins
  <1>3. ASSUME i \in Phases
        PROVE  Begins(i + 1) = scope.ends[i] /\ Begins(i) <= Begins(i + 1) /\ Duration(i) = Begins(i + 1) - Begins(i)
    <2>1. Begins(i + 1) = scope.ends[i]
      <3>1. i + 1 # 1 /\ (i + 1) - 1 = i
        BY <1>0, <1>3
      <3> QED BY <3>1 DEF Begins
    <2>2. Begins(i) <= scope.ends[i]
      <3>1. CASE i = 1
        BY <1>0, <1>3, <3>1 DEF Begins
      <3>2. CASE i # 1
        <4>1. i \in 2 .. Len(scope.ends)
          BY <1>0, <1>3, <3>2
        <4> QED BY <1>1, <3>2, <4>1 DEF Begins
      <3> QED BY <3>1, <3>2
    <2> QED BY <2>1, <2>2 DEF Duration
  <1> QED BY <1>2, <1>3

LEMMA Monotone ==
  ASSUME scope \in Scopes, NEW a \in 1 .. Len(scope.ends) + 1, NEW b \in 1 .. Len(scope.ends) + 1, a <= b
  PROVE  /\ Begins(a) <= Begins(b)
         /\ (\A j \in Phases : a <= j /\ j < b => ~(Duration(j) > 0)) => Begins(b) = Begins(a)
  <1> DEFINE n == Len(scope.ends)
             flat == \A j \in Phases : a <= j /\ j < b => ~(Duration(j) > 0)
             S == {k \in a .. b : ~(Begins(a) <= Begins(k)) \/ (flat /\ Begins(k) # Begins(a))}
  <1>0. Phases = 1 .. n /\ n \in Nat
    BY PhasesFact
  <1>1. \A k \in a .. b : k \in 1 .. n + 1 /\ Begins(k) \in Nat
    BY <1>0, BeginsType
  <1>2. S = {}
    <2> SUFFICES ASSUME S # {} PROVE FALSE
      OBVIOUS
    <2>1. S \subseteq Nat
      BY <1>0
    <2>2. PICK m \in S : \A k \in S : m <= k
      <3> HIDE DEF S
      <3> QED BY <2>1, <2>2, LeastNat
    <2> HIDE DEF flat
    <2>3. m \in a .. b /\ m # a
      BY <1>0, <1>1, <2>2
    <2>4. m - 1 \in a .. b /\ m - 1 \in Phases /\ (m - 1) + 1 = m /\ a <= m - 1 /\ m - 1 < b /\ ~(m <= m - 1)
      BY <1>0, <2>3
    <2>5. m - 1 \notin S
      BY <2>2, <2>4
    <2>6. /\ Begins(m) \in Nat /\ Begins(m - 1) \in Nat /\ Begins(a) \in Nat
          /\ Begins(m - 1) <= Begins(m) /\ Duration(m - 1) = Begins(m) - Begins(m - 1)
      <3>1. m - 1 \in 1 .. n + 1 /\ a \in 1 .. n + 1
        BY <1>0, <2>4
      <3> QED BY <1>1, <2>3, <2>4, <3>1, BeginsType
    <2>7. Begins(a) <= Begins(m)
      BY <2>4, <2>5, <2>6
    <2>8. flat => Begins(m) = Begins(a)
      <3>1. flat => Begins(m - 1) = Begins(a)
        BY <2>4, <2>5
      <3>2. flat => ~(Duration(m - 1) > 0)
        BY <2>4 DEF flat
      <3> QED BY <2>6, <3>1, <3>2
    <2> QED BY <2>2, <2>7, <2>8
  <1>3. b \in a .. b
    BY <1>0
  <1> QED BY <1>2, <1>3

\* A clock at the beginning of a phase that lasts is in that phase.
LEMMA Landing ==
  ASSUME scope \in Scopes, scope' = scope, NEW i \in Phases, Duration(i) > 0, Position' = Begins(i)
  PROVE  PhaseAt(Position)' = i
  <1> DEFINE p == Begins(i)
             Q == PhaseAt(Position)'
  <1>0. Phases = 1 .. Len(scope.ends) /\ Len(scope.ends) \in Nat /\ \A k \in Phases : scope.ends[k] \in Nat
    BY PhasesFact
  <1>2. p \in Nat /\ p < scope.ends[i] /\ \A j \in 1 .. i - 1 : p >= scope.ends[j]
    <2>1. i \in 1 .. Len(scope.ends) + 1
      BY <1>0
    <2>2. p \in Nat /\ Duration(i) = scope.ends[i] - p
      BY <2>1, BeginsType
    <2>3. ASSUME NEW j \in 1 .. i - 1 PROVE p >= scope.ends[j]
      <3>1. j \in Phases /\ j \in 1 .. Len(scope.ends) + 1 /\ j + 1 \in 1 .. Len(scope.ends) + 1 /\ j + 1 <= i
        BY <1>0, <2>3
      <3>2. Begins(j + 1) = scope.ends[j]
        BY <3>1, BeginsType
      <3>3. Begins(j + 1) <= Begins(i)
        BY <2>1, <3>1, Monotone
      <3> QED BY <1>0, <2>2, <3>1, <3>2, <3>3
    <2> QED BY <1>0, <2>2, <2>3
  <1>3. Q \in Phases /\ p < scope.ends[Q] /\ \A j \in 1 .. Q - 1 : p >= scope.ends[j]
    <2> HIDE DEF p
    <2>1. Position' = p
      BY DEF p
    <2> QED BY <1>2, <2>1 DEF PhaseAt, Phases
  <1> HIDE DEF p, Q
  <1>4. ~(i < Q)
    <2> SUFFICES ASSUME i < Q PROVE FALSE
      OBVIOUS
    <2>1. i \in 1 .. Q - 1
      BY <1>0, <1>3
    <2> QED BY <1>0, <1>2, <1>3, <2>1
  <1>5. ~(Q < i)
    <2> SUFFICES ASSUME Q < i PROVE FALSE
      OBVIOUS
    <2>1. Q \in 1 .. i - 1
      BY <1>0, <1>3
    <2> QED BY <1>0, <1>2, <1>3, <2>1
  <1>6. Q = i
    BY <1>0, <1>3, <1>4, <1>5
  <1> QED BY <1>6 DEF Q

\* The first of some phases.
LEMMA FirstOf ==
  ASSUME scope \in Scopes, NEW S, S \subseteq Phases, S # {}
  PROVE  LET f == CHOOSE j \in S : \A k \in S : j <= k IN f \in S /\ \A k \in S : f <= k
  <1>1. S \subseteq Nat
    BY PhasesFact
  <1>2. \E j \in S : \A k \in S : j <= k
    BY <1>1, LeastNat
  <1> QED BY <1>2

\* skip_to_next goes to the end of the phase of the clock's position.
LEMMA SkipStep ==
  ASSUME ControlInv, ApplySkip, Position < CycleDuration
  PROVE  /\ CurrentPhase' = Following(PhaseAt(Position))
         /\ Position' < CycleDuration => Position' = Begins(CurrentPhase')
  <1> DEFINE P == PhaseAt(Position)
             L == Len(scope.ends)
             later == {j \in Phases : P < j /\ Duration(j) > 0}
             lasting == {j \in Phases : Duration(j) > 0}
             F(S) == CHOOSE j \in S : \A k \in S : j <= k
  <1>0. scope \in Scopes /\ time \in Nat /\ start \in 0 .. time /\ pause_time \in 0 .. time /\ offset \in Nat
    BY DEF ControlInv, TypeOK
  <1>1. UNCHANGED <<scope, time, start, paused, pause_time>> /\ offset' = offset + SkipAmount /\ forced' = 0
    BY DEF ApplySkip, Applies, Handles, queueVars
  <1>2. Phases = 1 .. L /\ L \in Nat \ {0} /\ (\A k \in Phases : scope.ends[k] \in Nat)
        /\ CycleDuration = scope.ends[L] /\ CycleDuration \in Nat \ {0} /\ scope.cycle \in BOOLEAN
    BY <1>0, PhasesFact DEF CycleDuration
  <1>3. Elapsed \in Nat /\ Position \in Nat /\ Position = IF scope.cycle THEN Elapsed % CycleDuration ELSE Elapsed
    <2>1. ~midway
      BY DEF ApplySkip, Applies, Handles, ControlInv, Midway
    <2> QED BY <1>2, <2>1, ElapsedType DEF Position
  <1>4. P \in Phases /\ Position < scope.ends[P] /\ \A j \in 1 .. P - 1 : Position >= scope.ends[j]
    BY <1>0, <1>3, PositionInPhase, FirstPhase
  <1>5. SkipAmount = scope.ends[P] - Position /\ SkipAmount \in Int
    BY <1>2, <1>3, <1>4 DEF SkipAmount
  <1>6. Elapsed' = Elapsed + SkipAmount
    BY <1>0, <1>1, <1>5 DEF Elapsed
  <1>7. CycleDuration' = CycleDuration /\ Phases' = Phases
    BY <1>1 DEF CycleDuration, Phases
  <1>8. Following(P) = IF later # {} THEN F(later) ELSE IF scope.cycle THEN F(lasting) ELSE L
    BY DEF Following
  <1> HIDE DEF P, L
  <1>9. P \in 1 .. L + 1 /\ P + 1 \in 1 .. L + 1 /\ L \in Phases /\ L \in 1 .. L + 1 /\ L + 1 \in 1 .. L + 1 /\ P + 1 <= L + 1
    BY <1>2, <1>4
  <1>10. Begins(P + 1) = scope.ends[P] /\ Begins(L + 1) = CycleDuration /\ scope.ends[P] <= CycleDuration
    <2>1. Begins(P + 1) = scope.ends[P]
      BY <1>0, <1>4, <1>9, BeginsType DEF L
    <2>2. Begins(L + 1) = CycleDuration
      BY <1>0, <1>2, <1>9, BeginsType DEF L
    <2>3. Begins(P + 1) <= Begins(L + 1)
      BY <1>0, <1>9, Monotone DEF L
    <2> QED BY <2>1, <2>2, <2>3
  \* Where the clock arrives.
  <1>11. Position' = IF scope.cycle /\ scope.ends[P] = CycleDuration THEN 0 ELSE scope.ends[P]
    <2>1. CASE ~scope.cycle
      <3>1. Position' = Elapsed'
        BY <1>1, <2>1 DEF Position
      <3> QED BY <1>2, <1>3, <1>4, <1>5, <1>6, <2>1, <3>1
    <2>2. CASE scope.cycle
      <3>1. Position' = Elapsed' % CycleDuration
        BY <1>1, <1>7, <2>2 DEF Position
      <3>2. (Elapsed % CycleDuration) + SkipAmount = scope.ends[P]
        BY <1>2, <1>3, <1>4, <1>5, <2>2
      <3>3. /\ Elapsed \in Nat /\ SkipAmount \in Int /\ CycleDuration \in Nat \ {0}
            /\ scope.ends[P] \in 0 .. CycleDuration
        BY <1>2, <1>3, <1>4, <1>5, <1>10
      <3> DEFINE G(e, d, c, p) == (e % c) + d = p => (e + d) % c = IF p = c THEN 0 ELSE p
      <3>4. \A e \in Nat, d \in Int, c \in Nat \ {0} : \A p \in 0 .. c : G(e, d, c, p)
        BY ModAdvance
      <3> HIDE DEF G
      <3>5. G(Elapsed, SkipAmount, CycleDuration, scope.ends[P])
        BY <3>3, <3>4
      <3>6. (Elapsed + SkipAmount) % CycleDuration = IF scope.ends[P] = CycleDuration THEN 0 ELSE scope.ends[P]
        BY <3>2, <3>5 DEF G
      <3> QED BY <1>6, <2>2, <3>1, <3>6
    <2> QED BY <1>2, <2>1, <2>2
  \* A clock that arrives at the beginning of a phase that lasts.
  <1>12. ASSUME NEW i \in Phases, Duration(i) > 0, Position' = Begins(i), Following(P) = i
         PROVE  CurrentPhase' = Following(P) /\ Position' = Begins(CurrentPhase')
    <2>1. PhaseAt(Position)' = i
      BY <1>0, <1>1, <1>12, Landing
    <2>2. Position' < CycleDuration
      <3>1. i \in 1 .. L + 1 /\ i + 1 \in 1 .. L + 1 /\ i + 1 <= L + 1
        BY <1>2
      <3>2. Begins(i) \in Nat /\ Begins(i + 1) \in Nat /\ Duration(i) = Begins(i + 1) - Begins(i)
        BY <1>0, <3>1, <1>12, BeginsType DEF L
      <3>3. Begins(i + 1) <= Begins(L + 1)
        BY <1>0, <1>9, <3>1, Monotone DEF L
      <3> QED BY <1>2, <1>10, <1>12, <3>2, <3>3
    <2>3. ~scope.cycle => ~(Elapsed' >= CycleDuration')
      <3>1. ~scope.cycle => Position' = Elapsed'
        BY <1>1 DEF Position
      <3>2. Position' \in Int
        BY <1>2, <1>4, <1>11
      <3> QED BY <1>2, <1>7, <2>2, <3>1, <3>2
    <2>4. CurrentPhase' = i
      BY <1>1, <2>1, <2>3 DEF CurrentPhase
    <2>5. Begins(CurrentPhase') = Begins(i)
      BY <2>4
    <2> QED BY <1>12, <2>4, <2>5
  <1>13. CASE later # {}
    <2> DEFINE i == F(later)
    <2>1. i \in later /\ \A k \in later : i <= k
      BY <1>0, <1>13, FirstOf
    <2>2. Following(P) = i
      BY <1>8, <1>13
    <2> HIDE DEF i
    <2>3. i \in Phases /\ P < i /\ Duration(i) > 0 /\ i \in 1 .. L + 1 /\ P + 1 <= i
      BY <1>2, <1>4, <2>1
    <2>4. \A j \in Phases : P + 1 <= j /\ j < i => ~(Duration(j) > 0)
      <3> SUFFICES ASSUME NEW j \in Phases, P + 1 <= j, j < i, Duration(j) > 0 PROVE FALSE
        OBVIOUS
      <3>1. P < j /\ ~(i <= j)
        BY <1>2, <1>4, <2>3
      <3> QED BY <2>1, <3>1
    <2>5. Begins(i) = Begins(P + 1)
      BY <1>0, <1>9, <2>3, <2>4, Monotone DEF L
    <2>6. scope.ends[P] < CycleDuration
      <3>1. i + 1 \in 1 .. L + 1 /\ i + 1 <= L + 1
        BY <1>2, <2>3
      <3>2. Begins(i) \in Nat /\ Begins(i + 1) \in Nat /\ Duration(i) = Begins(i + 1) - Begins(i)
        BY <1>0, <2>3, <3>1, BeginsType DEF L
      <3>3. Begins(i + 1) <= Begins(L + 1)
        BY <1>0, <1>9, <3>1, Monotone DEF L
      <3> QED BY <1>2, <1>10, <2>3, <2>5, <3>2, <3>3
    <2>7. Position' = Begins(i)
      BY <1>2, <1>4, <1>10, <1>11, <2>5, <2>6
    <2> QED BY <1>12, <2>2, <2>3, <2>7 DEF P
  <1>14. CASE later = {}
    <2>1. scope.ends[P] = CycleDuration
      <3>1. \A j \in Phases : P + 1 <= j /\ j < L + 1 => ~(Duration(j) > 0)
        <4> SUFFICES ASSUME NEW j \in Phases, P + 1 <= j, Duration(j) > 0 PROVE FALSE
          OBVIOUS
        <4>1. P < j
          BY <1>2, <1>4
        <4> QED BY <1>14, <4>1
      <3>2. Begins(L + 1) = Begins(P + 1)
        BY <1>0, <1>9, <3>1, Monotone DEF L
      <3> QED BY <1>10, <3>2
    <2>2. CASE scope.cycle
      <3> DEFINE i == F(lasting)
      <3>1. P \in lasting
        <4>1. Begins(P) \in Nat /\ Duration(P) = scope.ends[P] - Begins(P)
          BY <1>0, <1>4, <1>9, BeginsType DEF L, Duration
        <4>2. Begins(P) <= Position
          <5>1. CASE P = 1
            BY <1>3, <5>1 DEF Begins
          <5>2. CASE P # 1
            <6>1. P - 1 \in 1 .. P - 1
              BY <1>2, <1>4, <5>2
            <6> QED BY <1>4, <5>2, <6>1 DEF Begins
          <5> QED BY <5>1, <5>2
        <4> QED BY <1>2, <1>3, <1>4, <4>1, <4>2
      <3>2. i \in lasting /\ \A k \in lasting : i <= k
        BY <1>0, <3>1, FirstOf
      <3>3. Following(P) = i
        BY <1>8, <1>14, <2>2
      <3> HIDE DEF i
      <3>4. i \in Phases /\ Duration(i) > 0 /\ i \in 1 .. L + 1 /\ 1 <= i /\ 1 \in 1 .. L + 1
        BY <1>2, <3>2
      <3>5. \A j \in Phases : 1 <= j /\ j < i => ~(Duration(j) > 0)
        <4> SUFFICES ASSUME NEW j \in Phases, j < i, Duration(j) > 0 PROVE FALSE
          OBVIOUS
        <4>1. ~(i <= j)
          BY <1>2, <3>4
        <4> QED BY <3>2, <4>1
      <3>6. Begins(i) = Begins(1)
        BY <1>0, <3>4, <3>5, Monotone DEF L
      <3>7. Position' = Begins(i)
        BY <1>11, <2>1, <2>2, <3>6 DEF Begins
      <3> QED BY <1>12, <3>3, <3>4, <3>7 DEF P
    <2>3. CASE ~scope.cycle
      <3>1. Position' = CycleDuration /\ Position' = Elapsed'
        <4>1. Position' = CycleDuration
          BY <1>11, <2>1, <2>3
        <4>2. Position' = Elapsed'
          BY <1>1, <2>3 DEF Position
        <4> QED BY <4>1, <4>2
      <3>2. Elapsed' >= CycleDuration'
        BY <1>2, <1>7, <3>1
      <3>3. CurrentPhase' = Len(scope'.ends)
        BY <1>1, <2>3, <3>2 DEF CurrentPhase
      <3>4. Following(P) = L
        BY <1>8, <1>14, <2>3
      <3>5. ~(Position' < CycleDuration)
        BY <1>2, <3>1
      <3> QED BY <1>1, <3>3, <3>4, <3>5 DEF P, L
    <2> QED BY <1>2, <2>2, <2>3
  <1> QED BY <1>13, <1>14

\* A skip_to_next, of a running, paused or forced phase, lands at the beginning of the phase
\* that follows the one the clock is in, for any phases, until a cycle that does not repeat
\* has ended.
THEOREM AdaptiveSkipLands == Spec => SkipLands
  <1> DEFINE Lands ==
        Skips /\ Position < CycleDuration =>
          /\ CurrentPhase' = Following(PhaseAt(Position))
          /\ Position' < CycleDuration => Position' = Begins(CurrentPhase')
  <1>1. ASSUME ControlInv, Next, Skips, Position < CycleDuration PROVE Lands
    <2>1. Tail(todo) # todo
      BY <1>1 DEF ControlInv, Skips
    <2>2. ApplySkip
      <3>1. todo' # todo /\ todo # <<>> /\ Head(todo).kind = "skip"
        BY <1>1, <2>1 DEF Skips
      <3>2. ~(\E f \in Flows : BeginPoll(f))
        <4> SUFFICES ASSUME NEW f \in Flows, BeginPoll(f) PROVE FALSE
          OBVIOUS
        <4> QED BY <1>1, <3>1, FlowsAssumption DEF BeginPoll, ControlInv, None
      <3> QED BY <1>1, <3>1, <3>2
              DEF Next, Apply, TimePasses, SendDirective, SendPair, ApplyAdjust, ApplyReset, ApplyForce, ApplyNothing,
                  BeginPause, EndPause, BeginResume, EndResume, Applies, Handles, EndPoll, BeginReport, EndReport
    <2> QED BY <1>1, <2>2, SkipStep
  <1>2. ControlInv /\ [Next]_vars => [Lands]_vars
    BY <1>1
  <1> QED BY <1>2, ControlAlways, PTL DEF Spec, SkipLands
=============================================================================
