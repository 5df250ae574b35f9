------------------------- MODULE ScenarioThreadProofs -------------------------
(***************************************************************************)
(* Proofs about ScenarioThread, for any deployments and any bounds.        *)
(***************************************************************************)
EXTENDS ScenarioThread, TLAPS

-----------------------------------------------------------------------------
(* The heap *)

\* A heap of events.
HeapOK(h) == IsABag(h) /\ BagToSet(h) \subseteq Event

\* schedule adds an event, pop_next removes one occurrence of it.
LEMMA ScheduleFact ==
  ASSUME NEW h, HeapOK(h), NEW e \in Event
  PROVE  HeapOK(schedule(h, e)) /\ BagToSet(schedule(h, e)) = BagToSet(h) \cup {e}
  <1>1. CASE e \in DOMAIN h
    BY <1>1 DEF HeapOK, IsABag, BagToSet, schedule, BagAdd
  <1>2. CASE e \notin DOMAIN h
    BY <1>2 DEF HeapOK, IsABag, BagToSet, schedule, BagAdd
  <1> QED BY <1>1, <1>2

LEMMA RemoveFact ==
  ASSUME NEW h, HeapOK(h), NEW e \in BagToSet(h)
  PROVE  /\ HeapOK(BagRemove(h, e))
         /\ BagToSet(BagRemove(h, e)) \subseteq BagToSet(h)
         /\ BagToSet(h) \subseteq BagToSet(BagRemove(h, e)) \cup {e}
  <1>1. CASE h[e] = 1
    BY <1>1 DEF HeapOK, IsABag, BagToSet, BagRemove
  <1>2. CASE h[e] # 1
    BY <1>2 DEF HeapOK, IsABag, BagToSet, BagRemove
  <1> QED BY <1>1, <1>2

\* A clock that is set back by k takes every event with it.
LEMMA RebaseFact ==
  ASSUME NEW h, HeapOK(h), NEW k \in Nat, \A e \in BagToSet(h) : e.at >= k
  PROVE  /\ HeapOK(Rebase(h, k))
         /\ BagToSet(Rebase(h, k)) = {Due(e.at - k, e.ev) : e \in BagToSet(h)}
  <1> DEFINE D == {Due(e.at - k, e.ev) : e \in BagToSet(h)}
  <1>1. DOMAIN Rebase(h, k) = D
    BY DEF Rebase
  <1>2. ASSUME NEW x \in D PROVE x \in Event /\ Rebase(h, k)[x] \in {n \in Nat : n > 0}
    <2>1. PICK e \in BagToSet(h) : x = Due(e.at - k, e.ev)
      OBVIOUS
    <2>2. e \in Event /\ e.at \in Nat /\ e.at >= k /\ e.ev \in {"packet", "poll", "tick"}
      BY DEF HeapOK, Event
    <2>3. e.at - k \in Nat /\ (e.at - k) + k = e.at
      BY <2>2
    <2>4. x \in Event /\ x.at = e.at - k /\ x.ev = e.ev
      BY <2>1, <2>2, <2>3 DEF Due, Event
    <2>5. Due(x.at + k, x.ev) = e
      BY <2>2, <2>3, <2>4 DEF Due, Event
    <2>6. Rebase(h, k)[x] = h[e]
      BY <2>5 DEF Rebase
    <2>7. h[e] \in {n \in Nat : n > 0}
      BY <2>1 DEF HeapOK, IsABag, BagToSet
    <2> QED BY <2>4, <2>6, <2>7
  <1>3. Rebase(h, k) = [x \in DOMAIN Rebase(h, k) |-> Rebase(h, k)[x]]
    BY DEF Rebase
  <1> HIDE DEF D
  <1>4. Rebase(h, k) \in [DOMAIN Rebase(h, k) -> {n \in Nat : n > 0}]
    BY <1>1, <1>2, <1>3
  <1> QED BY <1>1, <1>2, <1>4 DEF HeapOK, IsABag, BagToSet, D

-----------------------------------------------------------------------------
(* The attack orchestrator *)

StageStatus == {"pending", "in_progress", "completed", "skipped"}
AttackState ==
    [loaded : BOOLEAN, is_active : BOOLEAN, is_paused : BOOLEAN, is_completed : BOOLEAN,
     stage : Nat \ {0}, since : Nat, late : BOOLEAN, fired : SUBSET AllActions,
     status : {"in_progress", "completed", "stopped"}, ended : BOOLEAN,
     stages : [Stages -> StageStatus], emitted : [Stages -> SUBSET AllActions]]

\* What a change of the report or of the clock of a stage leaves alone.
Kept(a, b) ==
    /\ b.loaded = a.loaded /\ b.is_active = a.is_active /\ b.is_paused = a.is_paused
    /\ b.is_completed = a.is_completed /\ b.stage = a.stage

\* ReportFollows of one attack.
Follows(a) ==
    a.is_active /\ ~a.is_completed /\ ~a.ended =>
        \A i \in Stages : a.stages[i] = IF i < a.stage THEN "completed"
                                       ELSE IF i = a.stage THEN "in_progress" ELSE "pending"

LEMMA ClockStartFact ==
  ASSUME NEW a \in AttackState, NEW t \in Nat
  PROVE  /\ ClockStart(a, t) \in AttackState /\ Kept(a, ClockStart(a, t))
         /\ ClockStart(a, t).ended = a.ended /\ ClockStart(a, t).stages = a.stages
  BY DEF ClockStart, AttackState, Kept

LEMMA MarkStageFact ==
  ASSUME NEW a \in AttackState, NEW i \in Nat, NEW s \in StageStatus
  PROVE  /\ MarkStage(a, i, s) \in AttackState /\ Kept(a, MarkStage(a, i, s))
         /\ MarkStage(a, i, s).ended = a.ended
         /\ \A j \in Stages : MarkStage(a, i, s).stages[j] = IF j = i THEN s ELSE a.stages[j]
  <1>1. CASE i \in Stages
    BY <1>1 DEF MarkStage, AttackState, Kept
  <1>2. CASE i \notin Stages
    BY <1>2 DEF MarkStage, AttackState, Kept
  <1> QED BY <1>1, <1>2

LEMMA StartedFact ==
  ASSUME NEW a \in AttackState
  PROVE  /\ MarkReportStarted(a) \in AttackState /\ Kept(a, MarkReportStarted(a))
         /\ MarkReportStarted(a).ended = a.ended
         /\ \A j \in Stages : MarkReportStarted(a).stages[j] = IF j = a.stage THEN "in_progress" ELSE a.stages[j]
  <1> DEFINE b == MarkStage(a, a.stage, "in_progress")
  <1>1. a.stage \in Nat /\ "in_progress" \in StageStatus
    BY DEF AttackState, StageStatus
  <1>2. /\ b \in AttackState /\ Kept(a, b) /\ b.ended = a.ended
        /\ \A j \in Stages : b.stages[j] = IF j = a.stage THEN "in_progress" ELSE a.stages[j]
    BY <1>1, MarkStageFact
  <1>3. MarkReportStarted(a) = [b EXCEPT !.status = "in_progress"]
    BY DEF MarkReportStarted
  <1> HIDE DEF b
  <1> QED BY <1>2, <1>3 DEF AttackState, Kept

LEMMA EndedFact ==
  ASSUME NEW a \in AttackState, NEW s \in {"completed", "stopped"}
  PROVE  /\ MarkReportCompleted(a, s) \in AttackState /\ Kept(a, MarkReportCompleted(a, s))
         /\ MarkReportCompleted(a, s).ended
  <1> DEFINE b == [a EXCEPT !.ended = TRUE, !.status = s]
             r == IF s = "completed" THEN "completed" ELSE "skipped"
             c == MarkStage(b, a.stage, r)
  <1>1. b \in AttackState /\ Kept(a, b) /\ b.ended
    BY DEF AttackState, Kept
  <1>2. a.stage \in Nat /\ r \in StageStatus
    BY DEF AttackState, StageStatus
  <1> HIDE DEF b, r
  <1>3. c \in AttackState /\ Kept(b, c) /\ c.ended = b.ended
    BY <1>1, <1>2, MarkStageFact
  <1>4. MarkReportCompleted(a, s) \in {b, c} \/ (a.ended /\ MarkReportCompleted(a, s) = a)
    BY DEF MarkReportCompleted, b, c, r
  <1> HIDE DEF c
  <1> QED BY <1>1, <1>3, <1>4 DEF Kept

\* _advance_stage: the next stage is reported, or the attack completed.
LEMMA AdvanceFact ==
  ASSUME NEW a \in AttackState, NEW t \in Nat, NEW b, b = AdvanceStage(a, t)
  PROVE  /\ b \in AttackState /\ b.stage = a.stage + 1
         /\ b.is_active = a.is_active
         /\ b.is_completed <=> (a.is_completed \/ b.stage \notin Stages)
         /\ a.ended => b.ended
         /\ a.is_active /\ Follows(a) => Follows(b)
  <1> DEFINE m == MarkStage(a, a.stage, "completed")
             n == [m EXCEPT !.stage = @ + 1, !.fired = {}]
  <1>0. a.stage \in Nat /\ a.stage + 1 \in Nat \ {0}
    BY DEF AttackState
  <1>1. /\ m \in AttackState /\ Kept(a, m) /\ m.ended = a.ended
        /\ \A j \in Stages : m.stages[j] = IF j = a.stage THEN "completed" ELSE a.stages[j]
    <2>1. "completed" \in StageStatus
      BY DEF StageStatus
    <2> QED BY <1>0, <2>1, MarkStageFact
  <1> HIDE DEF m
  <1>2. /\ n \in AttackState /\ n.stage = a.stage + 1 /\ n.is_active = a.is_active
        /\ n.is_completed = a.is_completed /\ n.ended = a.ended /\ n.stages = m.stages
    BY <1>0, <1>1 DEF AttackState, Kept
  <1> HIDE DEF n
  <1>3. CASE n.stage \in Stages
    <2> DEFINE c == ClockStart(n, t)
    <2>1. c \in AttackState /\ Kept(n, c) /\ c.ended = n.ended /\ c.stages = n.stages
      BY <1>2, ClockStartFact
    <2>2. b = MarkStage(c, n.stage, "in_progress")
      BY <1>3 DEF AdvanceStage, m, n
    <2> HIDE DEF c
    <2>3. /\ b \in AttackState /\ Kept(c, b) /\ b.ended = c.ended
          /\ \A j \in Stages : b.stages[j] = IF j = n.stage THEN "in_progress" ELSE c.stages[j]
      <3>1. "in_progress" \in StageStatus /\ n.stage \in Nat
        BY <1>0, <1>2 DEF StageStatus
      <3> QED BY <2>1, <2>2, <3>1, MarkStageFact
    <2>4. /\ b.stage = a.stage + 1 /\ b.is_active = a.is_active /\ b.is_completed = a.is_completed
          /\ b.ended = a.ended
      BY <1>2, <2>1, <2>3 DEF Kept
    <2>5. ASSUME a.is_active, Follows(a) PROVE Follows(b)
      <3> SUFFICES ASSUME ~b.is_completed, ~b.ended, NEW i \in Stages
                   PROVE  b.stages[i] = IF i < b.stage THEN "completed"
                                        ELSE IF i = b.stage THEN "in_progress" ELSE "pending"
        BY DEF Follows
      <3>1. i \in Nat
        BY DEF Stages
      <3>2. a.stages[i] = IF i < a.stage THEN "completed" ELSE IF i = a.stage THEN "in_progress" ELSE "pending"
        BY <2>4, <2>5 DEF Follows
      <3>3. b.stages[i] = IF i = a.stage + 1 THEN "in_progress"
                          ELSE IF i = a.stage THEN "completed" ELSE a.stages[i]
        BY <1>1, <1>2, <2>1, <2>3
      <3> QED BY <1>0, <2>4, <3>1, <3>2, <3>3
    <2> QED BY <1>3, <1>2, <2>3, <2>4, <2>5
  <1>4. CASE n.stage \notin Stages
    <2> DEFINE c == [n EXCEPT !.is_completed = TRUE]
    <2>1. /\ c \in AttackState /\ c.stage = n.stage /\ c.is_active = n.is_active /\ c.is_completed
      BY <1>2 DEF AttackState
    <2>2. b = MarkReportCompleted(c, "completed")
      BY <1>4 DEF AdvanceStage, m, n
    <2> HIDE DEF c
    <2>3. b \in AttackState /\ Kept(c, b) /\ b.ended
      BY <2>1, <2>2, EndedFact
    <2> QED BY <1>2, <1>4, <2>1, <2>3 DEF Kept, Follows
  <1> QED BY <1>3, <1>4

\* An attack that can be commanded: its report follows it, and it is active or its report
\* is closed.
Sound(a) == Follows(a) /\ (a.is_active \/ a.ended)

\* _process_pending_command: an advance_stage takes the attack one stage on, and no
\* command spoils a sound report.
LEMMA ProcessFact ==
  ASSUME NEW a \in AttackState, NEW c, NEW t \in Nat, NEW b, b = ProcessCommand(a, c, t)
  PROVE  /\ b \in AttackState
         /\ b.stage = 1 \/ b.stage = a.stage \/ (c = "advance_stage" /\ b.stage = a.stage + 1)
         /\ Sound(a) => Sound(b)
  <1> DEFINE s == Restart(a, t)
  <1>0. /\ s \in AttackState /\ s.stage = 1 /\ ~s.is_completed
        /\ s.is_active = a.is_active /\ s.ended = a.ended /\ s.stages = a.stages
    <2> DEFINE k == ClockStart(a, t)
    <2>1. k \in AttackState /\ Kept(a, k) /\ k.ended = a.ended /\ k.stages = a.stages
      BY ClockStartFact
    <2>2. s = [k EXCEPT !.stage = 1, !.fired = {}, !.is_completed = FALSE]
      BY DEF Restart
    <2> DEFINE m == [k EXCEPT !.stage = 1]
    <2> HIDE DEF k, s
    <2>3. m \in AttackState /\ m.stage = 1 /\ m.is_active = k.is_active /\ m.ended = k.ended /\ m.stages = k.stages
      BY <2>1 DEF AttackState
    <2>4. s = [m EXCEPT !.fired = {}, !.is_completed = FALSE]
      BY <2>2
    <2> HIDE DEF m
    <2>5. /\ s \in AttackState /\ s.stage = m.stage /\ ~s.is_completed
          /\ s.is_active = m.is_active /\ s.ended = m.ended /\ s.stages = m.stages
      BY <2>3, <2>4 DEF AttackState
    <2> QED BY <2>1, <2>3, <2>5 DEF Kept
  <1> HIDE DEF s
  <1>1. CASE c = "start" /\ ~a.is_active
    <2> DEFINE p == [s EXCEPT !.is_active = TRUE, !.is_paused = FALSE]
    <2>1. p \in AttackState /\ p.stage = 1 /\ p.is_active /\ p.ended = a.ended
      BY <1>0 DEF AttackState
    <2>2. b = MarkReportStarted(p)
      BY <1>1, Zenon DEF ProcessCommand, s
    <2> HIDE DEF p
    <2>3. b \in AttackState /\ Kept(p, b) /\ b.ended = p.ended
      BY <2>1, <2>2, StartedFact
    <2> QED BY <1>1, <2>1, <2>3 DEF Kept, Sound, Follows
  <1>2. CASE c = "start" /\ a.is_active /\ a.is_completed
    <2> DEFINE p == ResetReport(s)
    <2>1. p \in AttackState /\ p.stage = 1 /\ p.is_active /\ \A i \in Stages : p.stages[i] = "pending"
      BY <1>0, <1>2 DEF AttackState, ResetReport, StageStatus
    <2>2. b = MarkReportStarted(p)
      BY <1>2, Zenon DEF ProcessCommand, s
    <2> HIDE DEF p
    <2>3. /\ b \in AttackState /\ Kept(p, b)
          /\ \A j \in Stages : b.stages[j] = IF j = p.stage THEN "in_progress" ELSE p.stages[j]
      BY <2>1, <2>2, StartedFact
    <2>4. \A j \in Stages : j \in Nat /\ j >= 1
      BY DEF Stages
    <2>5. Follows(b) /\ b.stage = 1 /\ b.is_active
      BY <2>1, <2>3, <2>4 DEF Kept, Follows
    <2> QED BY <2>3, <2>5 DEF Sound
  <1>3. CASE c = "stop"
    <2> DEFINE p == [a EXCEPT !.is_active = FALSE, !.is_completed = TRUE]
    <2>1. p \in AttackState /\ p.stage = a.stage
      BY DEF AttackState
    <2>2. b = MarkReportCompleted(p, "stopped")
      <3>1. ~(c = "start") /\ c # "advance_stage" /\ c \notin {"pause", "resume"}
        BY <1>3
      <3> QED BY <1>3, <3>1, Zenon DEF ProcessCommand
    <2> HIDE DEF p
    <2>3. b \in AttackState /\ Kept(p, b) /\ b.ended
      BY <2>1, <2>2, EndedFact
    <2> QED BY <2>1, <2>3 DEF Kept, Sound, Follows
  <1>4. CASE c = "advance_stage"
    <2>1. b = AdvanceStage(a, t)
      <3>1. ~(c = "start") /\ c # "stop" /\ c \notin {"pause", "resume"}
        BY <1>4
      <3> QED BY <1>4, <3>1, Zenon DEF ProcessCommand
    <2>2. /\ b \in AttackState /\ b.stage = a.stage + 1 /\ b.is_active = a.is_active
          /\ a.ended => b.ended
          /\ a.is_active /\ Follows(a) => Follows(b)
      BY <2>1, AdvanceFact
    <2> QED BY <1>4, <2>2 DEF Sound, Follows
  <1>5. CASE c \in {"pause", "resume"}
    <2>1. b = [a EXCEPT !.is_paused = (c = "pause")]
      <3>1. ~(c = "start") /\ c # "stop" /\ c # "advance_stage"
        BY <1>5
      <3> QED BY <1>5, <3>1, Zenon DEF ProcessCommand
    <2>2. (c = "pause") \in BOOLEAN
      OBVIOUS
    <2>3. /\ b \in AttackState /\ b.stage = a.stage /\ b.is_active = a.is_active /\ b.is_completed = a.is_completed
          /\ b.ended = a.ended /\ b.stages = a.stages
      BY <2>1, <2>2 DEF AttackState
    <2> QED BY <2>3 DEF Sound, Follows
  <1>6. CASE /\ ~(c = "start" /\ (~a.is_active \/ a.is_completed)) 
             /\ c \notin {"stop", "advance_stage", "pause", "resume"}
    <2>1. b = a
      BY <1>6 DEF ProcessCommand
    <2> QED BY <2>1
  <1> QED BY <1>1, <1>2, <1>3, <1>4, <1>5, <1>6

\* What a step of the attack may do to the heap h at time t: events are added, none before
\* t, and an attack a that goes on has a tick.
Scheduled(a, h, g, t) ==
    /\ HeapOK(g) /\ BagToSet(h) \subseteq BagToSet(g)
    /\ \A e \in BagToSet(g) : e \in BagToSet(h) \/ e.at >= t
    /\ a.is_active /\ ~a.is_completed => \E e \in BagToSet(g) : e.ev = "tick"

LEMMA DueFact ==
  ASSUME NEW t \in Nat, NEW ev \in {"packet", "poll", "tick"}
  PROVE  Due(t, ev) \in Event /\ Due(t, ev).at = t /\ Due(t, ev).ev = ev
  BY DEF Due, Event

LEMMA WaitsFact ==
  ASSUME scope \in Scope, NEW a, NEW t \in Nat, NEW h, HeapOK(h)
  PROVE  Waits(a, t, h).attack = a /\ Scheduled(a, h, Waits(a, t, h).heap, t)
  <1> DEFINE d == Due(t + scope.tick, "tick")
  <1>1. t + scope.tick \in Nat /\ t + scope.tick >= t
    BY DEF Scope
  <1>2. d \in Event /\ d.at >= t /\ d.ev = "tick"
    BY <1>1, DueFact
  <1>3. Waits(a, t, h).attack = a /\ Waits(a, t, h).heap = schedule(h, d)
    BY DEF Waits
  <1> HIDE DEF d
  <1>4. HeapOK(schedule(h, d)) /\ BagToSet(schedule(h, d)) = BagToSet(h) \cup {d}
    BY <1>2, ScheduleFact
  <1> QED BY <1>2, <1>3, <1>4 DEF Scheduled

\* The actions n have fired in the stage of a, and those that are not mute are recorded.
Fires(a, c, n, mute) ==
    /\ Kept(a, c) /\ c.since = a.since /\ c.ended = a.ended /\ c.stages = a.stages
    /\ c.fired = a.fired \cup n
    /\ c.emitted = [a.emitted EXCEPT ![a.stage] = @ \cup (n \ mute)]

\* _generate_stage_packets: what it fires and records, and the tick and packets it schedules.
LEMMA FiresFact ==
  ASSUME scope \in Scope, NEW a \in AttackState, a.stage \in Stages, NEW t \in Nat, NEW h, HeapOK(h),
         NEW p, NEW mute, NEW r, r = RunStage(a, t, h, p, mute),
         NEW d, d = Due(t + scope.interval, "tick"), NEW k, k = Due(t, "packet")
  PROVE  /\ r.attack \in AttackState /\ Fires(a, r.attack, Triggers(a, t, p), mute)
         /\ HeapOK(r.heap)
         /\ BagToSet(h) \subseteq BagToSet(r.heap) /\ d \in BagToSet(r.heap)
         /\ \A x \in BagToSet(r.heap) : x \in BagToSet(h) \/ x = d \/ x = k
  <1> DEFINE n == schedule(h, d)
             q == schedule(n, k)
             new == Triggers(a, t, p)
             x == a.fired \cup new
             y == [a.emitted EXCEPT ![a.stage] = @ \cup (new \ mute)]
  <1>1. t + scope.interval \in Nat
    BY DEF Scope
  <1>2. d \in Event /\ k \in Event
    BY <1>1, DueFact
  <1>3. r.attack = [a EXCEPT !.fired = x, !.emitted = y] /\ r.heap \in {n, q}
    BY DEF RunStage, AttackState
  <1>4. new \subseteq AllActions
    BY DEF Triggers, AllActions
  <1> HIDE DEF new
  <1>5. x \in SUBSET AllActions /\ y \in [Stages -> SUBSET AllActions]
    BY <1>4 DEF AttackState
  <1>6. HeapOK(n) /\ BagToSet(n) = BagToSet(h) \cup {d}
    BY <1>2, ScheduleFact
  <1> HIDE DEF n
  <1>7. HeapOK(q) /\ BagToSet(q) = BagToSet(n) \cup {k}
    BY <1>2, <1>6, ScheduleFact
  <1> HIDE DEF q
  <1>8. /\ HeapOK(r.heap) /\ BagToSet(h) \subseteq BagToSet(r.heap) /\ d \in BagToSet(r.heap)
        /\ \A e \in BagToSet(r.heap) : e \in BagToSet(h) \/ e = d \/ e = k
    BY <1>3, <1>6, <1>7
  <1> HIDE DEF x, y
  <1>9. /\ r.attack \in AttackState /\ Kept(a, r.attack) /\ r.attack.ended = a.ended /\ r.attack.stages = a.stages
        /\ r.attack.since = a.since /\ r.attack.fired = x /\ r.attack.emitted = y
    BY <1>3, <1>5 DEF AttackState, Kept
  <1>10. Fires(a, r.attack, new, mute)
    BY <1>9 DEF Fires, x, y
  <1> QED BY <1>8, <1>9, <1>10 DEF new

\* A stage that runs is not left.
LEMMA RunStageFact ==
  ASSUME scope \in Scope, NEW a \in AttackState, a.stage \in Stages, NEW t \in Nat, NEW h, HeapOK(h),
         NEW p, NEW mute, NEW r, r = RunStage(a, t, h, p, mute)
  PROVE  /\ r.attack \in AttackState /\ r.attack.stage = a.stage
         /\ Scheduled(r.attack, h, r.heap, t)
         /\ Sound(a) => Sound(r.attack)
  <1> DEFINE d == Due(t + scope.interval, "tick")
             k == Due(t, "packet")
  <1>1. t + scope.interval \in Nat /\ t + scope.interval >= t
    BY DEF Scope
  <1>2. d.at >= t /\ d.ev = "tick" /\ k.at = t
    BY <1>1, DueFact
  <1>d. d = Due(t + scope.interval, "tick") /\ k = Due(t, "packet")
    OBVIOUS
  <1> HIDE DEF d, k
  <1>3. /\ r.attack \in AttackState /\ Fires(a, r.attack, Triggers(a, t, p), mute)
        /\ HeapOK(r.heap) /\ BagToSet(h) \subseteq BagToSet(r.heap) /\ d \in BagToSet(r.heap)
        /\ \A x \in BagToSet(r.heap) : x \in BagToSet(h) \/ x = d \/ x = k
    BY <1>d, FiresFact
  <1>4. Scheduled(r.attack, h, r.heap, t)
    BY <1>2, <1>3 DEF Scheduled
  <1> QED BY <1>3, <1>4 DEF Fires, Kept, Sound, Follows

\* handle_tick: an attack that goes on has its next tick, and a sound report stays sound.
LEMMA TickFact ==
  ASSUME scope \in Scope, attack \in AttackState, NEW c, NEW t \in Nat, NEW h, HeapOK(h),
         NEW p, NEW mute, NEW r, r = HandleTick(c, t, h, p, mute)
  PROVE  /\ r.attack \in AttackState
         /\ \/ r.attack.stage <= Len(scope.stages) + 1
            \/ r.attack.stage = attack.stage
            \/ c = "advance_stage" /\ r.attack.stage = attack.stage + 1
         /\ Scheduled(r.attack, h, r.heap, t)
         /\ Sound(attack) => Sound(r.attack)
  <1> DEFINE a == ProcessCommand(attack, c, t)
             b == AdvanceStage(a, t)
             m == MarkReportCompleted([a EXCEPT !.is_completed = TRUE], "completed")
             \* the attack q as the tick leaves it: in the stage of a, or one further
             After(q, g) == /\ q \in AttackState /\ Scheduled(q, h, g, t) /\ (Sound(a) => Sound(q))
                            /\ q.stage = a.stage \/ (a.stage \in Stages /\ q.stage = a.stage + 1)
  <1>0. Len(scope.stages) \in Nat
    BY DEF Scope
  <1>1. /\ a \in AttackState
        /\ a.stage = 1 \/ a.stage = attack.stage \/ (c = "advance_stage" /\ a.stage = attack.stage + 1)
        /\ Sound(attack) => Sound(a)
    BY ProcessFact
  <1>2. a.stage \in Nat /\ attack.stage \in Nat
    BY <1>1 DEF AttackState
  <1>3. a.is_active \in BOOLEAN /\ a.is_paused \in BOOLEAN /\ a.is_completed \in BOOLEAN
    BY <1>1 DEF AttackState
  <1>4. r = CASE a.is_completed -> Ends(a, h)
              [] ~a.is_completed /\ (~a.is_active \/ a.is_paused) -> Waits(a, t, h)
              [] ~a.is_completed /\ a.is_active /\ ~a.is_paused ->
                   IF a.stage \notin Stages THEN Ends(m, h)
                   ELSE IF ~Expired(a, t) THEN RunStage(a, t, h, p, mute)
                   ELSE IF ~scope.auto THEN Waits(a, t, h)
                   ELSE IF b.is_completed THEN Ends(b, h) ELSE RunStage(b, t, h, p, mute)
    BY DEF HandleTick
  <1> HIDE DEF a
  <1>5. \/ r = Ends(a, h) /\ a.is_completed
        \/ r = Waits(a, t, h)
        \/ r = Ends(m, h)
        \/ a.stage \in Stages /\ r = RunStage(a, t, h, p, mute)
        \/ a.stage \in Stages /\ r = Ends(b, h) /\ b.is_completed
        \/ a.stage \in Stages /\ r = RunStage(b, t, h, p, mute) /\ ~a.is_completed /\ ~b.is_completed
    BY <1>3, <1>4, Zenon
  <1>6. \A q : Scheduled(q, h, h, t) \/ (q.is_active /\ ~q.is_completed)
    BY DEF Scheduled
  <1>7. \A q : Ends(q, h).attack = q /\ Ends(q, h).heap = h
    BY DEF Ends
  <1>8. After(r.attack, r.heap)
    <2>1. CASE r = Ends(a, h) /\ a.is_completed
      BY <1>1, <1>6, <1>7, <2>1
    <2>2. CASE r = Waits(a, t, h)
      BY <1>1, <2>2, WaitsFact
    <2>3. CASE r = Ends(m, h)
      <3> DEFINE n == [a EXCEPT !.is_completed = TRUE]
      <3>1. n \in AttackState /\ n.is_completed /\ n.stage = a.stage
        BY <1>1 DEF AttackState
      <3> HIDE DEF n
      <3>2. m \in AttackState /\ Kept(n, m) /\ m.ended
        BY <3>1, EndedFact DEF n
      <3> HIDE DEF m
      <3> QED BY <1>6, <1>7, <2>3, <3>1, <3>2 DEF Kept, Sound, Follows
    <2>4. CASE a.stage \in Stages /\ r = RunStage(a, t, h, p, mute)
      BY <1>1, <2>4, RunStageFact
    <2>5. /\ b \in AttackState /\ b.stage = a.stage + 1 /\ b.is_active = a.is_active
          /\ b.is_completed <=> (a.is_completed \/ b.stage \notin Stages)
          /\ a.ended => b.ended
          /\ a.is_active /\ Follows(a) => Follows(b)
      BY <1>1, AdvanceFact
    <2> HIDE DEF b
    <2>6. Sound(a) => Sound(b)
      BY <2>5 DEF Sound, Follows
    <2>7. CASE a.stage \in Stages /\ r = Ends(b, h) /\ b.is_completed
      BY <1>6, <1>7, <2>5, <2>6, <2>7
    <2>8. CASE a.stage \in Stages /\ r = RunStage(b, t, h, p, mute) /\ ~a.is_completed /\ ~b.is_completed
      <3>1. b.stage \in Stages
        BY <2>5, <2>8
      <3>2. /\ r.attack \in AttackState /\ r.attack.stage = b.stage
            /\ Scheduled(r.attack, h, r.heap, t) /\ (Sound(b) => Sound(r.attack))
        BY <2>5, <2>8, <3>1, RunStageFact
      <3> QED BY <2>5, <2>6, <2>8, <3>2
    <2> QED BY <1>5, <2>1, <2>2, <2>3, <2>4, <2>7, <2>8
  <1> HIDE DEF b, m
  <1>9. a.stage \in Stages => a.stage + 1 <= Len(scope.stages) + 1
    BY <1>0, <1>2 DEF Stages
  <1> QED BY <1>0, <1>1, <1>2, <1>8, <1>9

LEMMA WarmupFact ==
  ASSUME scope \in Scope
  PROVE  Warmup \in Nat
  BY DEF Scope, Warmup, Live, Min2, Max2

LEMMA NoAttackFact ==
  ASSUME scope \in Scope
  PROVE  /\ NoAttack \in AttackState /\ NoAttack.stage = 1 /\ ~NoAttack.is_active /\ Follows(NoAttack)
         /\ Created \in AttackState /\ Created.stage = 1 /\ ~Created.is_active /\ Follows(Created)
         /\ \A i \in Stages : Created.stages[i] = "pending"
  <1>1. /\ NoAttack \in AttackState /\ NoAttack.stage = 1 /\ ~NoAttack.is_active
        /\ \A i \in Stages : NoAttack.stages[i] = "pending"
    BY DEF NoAttack, AttackState, StageStatus
  <1>2. /\ Created \in AttackState /\ Created.stage = 1 /\ ~Created.is_active
        /\ \A i \in Stages : Created.stages[i] = "pending"
    BY <1>1 DEF Created, AttackState
  <1> QED BY <1>1, <1>2 DEF Follows

\* register_attack_orchestrator: a manual attack waits, any other has its first tick.
LEMMA RegisterFact ==
  ASSUME scope \in Scope, NEW mode, NEW h, HeapOK(h), NEW r, r = Register(mode, h)
  PROVE  /\ r.attack \in AttackState /\ r.attack.stage = 1 /\ Follows(r.attack)
         /\ HeapOK(r.heap)
         /\ mode = "manual" => r.heap = h /\ ~r.attack.is_active
         /\ mode # "manual" => /\ BagToSet(r.heap) = BagToSet(h) \cup {Due(Warmup, "tick")}
                               /\ r.attack.is_active
  <1>0. Warmup \in Nat /\ Due(Warmup, "tick") \in Event
    BY WarmupFact, DueFact
  <1>1. CASE mode = "manual"
    BY <1>1, NoAttackFact DEF Register
  <1>2. CASE mode # "manual"
    <2> DEFINE k == ClockStart(Created, Warmup)
               p == [k EXCEPT !.is_active = TRUE]
    <2>1. k \in AttackState /\ Kept(Created, k) /\ k.stages = Created.stages
      BY <1>0, NoAttackFact, ClockStartFact
    <2> HIDE DEF k
    <2>2. p \in AttackState /\ p.is_active /\ p.stage = k.stage /\ p.stages = k.stages
      BY <2>1 DEF AttackState
    <2>3. r.attack = MarkReportStarted(p) /\ r.heap = schedule(h, Due(Warmup, "tick"))
      BY <1>2 DEF Register, InitialAttack, k
    <2> HIDE DEF p
    <2>4. /\ r.attack \in AttackState /\ Kept(p, r.attack)
          /\ \A j \in Stages : r.attack.stages[j] = IF j = p.stage THEN "in_progress" ELSE p.stages[j]
      BY <2>2, <2>3, StartedFact
    <2>5. \A i \in Stages : i \in Nat /\ i >= 1
      BY DEF Stages
    <2>6. p.stage = 1 /\ \A i \in Stages : p.stages[i] = "pending"
      BY <2>1, <2>2, NoAttackFact DEF Kept
    <2>7. Follows(r.attack) /\ r.attack.stage = 1 /\ r.attack.is_active
      BY <2>2, <2>4, <2>5, <2>6 DEF Kept, Follows
    <2> QED BY <1>0, <1>2, <2>3, <2>4, <2>7, ScheduleFact
  <1> QED BY <1>1, <1>2

-----------------------------------------------------------------------------
(* The inductive invariant *)

\* The state outside the attack and the heap.
PlainOK ==
    /\ scope \in Scopes
    /\ at \in {"top", "register", "wall", "pop", "shutdown", "drain", "done"}
    /\ pending \in Commands \cup {None} /\ injection \in Modes \cup {None}
    /\ taken \in Modes \cup {None} /\ (at = "register") = (taken # None)
    /\ stop \in {"no", "asked", "set"} /\ result \in {None, "ok", "error"}
    /\ "inject" \notin scope.env => injection = None /\ taken = None

\* Only an advance_stage that was sent takes the attack past its last stage: each one
\* sent, and not pending any more, may have taken it one further.
StageOK ==
    /\ attack \in AttackState
    /\ sent \in 0 .. MaxCommands
    /\ pending = "advance_stage" => sent > 0
    /\ attack.stage + (IF pending = "advance_stage" THEN 1 ELSE 0) <= Len(scope.stages) + 1 + sent

\* The clock is behind everything on the heap, but for the tick of an injection.
ClockOK ==
    /\ HeapOK(heap)
    /\ now \in Nat /\ (Live => now <= MaxAge)
    /\ "inject" \notin scope.env => \A e \in BagToSet(heap) : now <= e.at

\* Where nothing is injected, an attack that ticks is active or its report is closed:
\* a start never finds an open report with stages that are not pending.
ReportOK ==
    "inject" \notin scope.env =>
        /\ Follows(attack)
        /\ Ticked => attack.is_active \/ attack.ended

ThreadInv == PlainOK /\ StageOK /\ ClockOK /\ ActiveIsTicked /\ ReportOK
\* There is a tick on the heap.
TickOn(h) == \E e \in BagToSet(h) : e.ev = "tick"

\* The invariant of an attack a, a heap h and a clock t, with the command c pending, n
\* commands sent and the loop running or not.
Good(a, h, t, c, n, running) ==
    /\ a \in AttackState /\ n \in 0 .. MaxCommands
    /\ c = "advance_stage" => n > 0
    /\ a.stage + (IF c = "advance_stage" THEN 1 ELSE 0) <= Len(scope.stages) + 1 + n
    /\ HeapOK(h) /\ t \in Nat /\ (Live => t <= MaxAge)
    /\ running /\ a.is_active /\ ~a.is_completed => TickOn(h)
    /\ "inject" \notin scope.env =>
          /\ \A e \in BagToSet(h) : t <= e.at
          /\ Follows(a)
          /\ TickOn(h) => a.is_active \/ a.ended

LEMMA InvIsGood ==
  ASSUME ThreadInv
  PROVE  PlainOK /\ Good(attack, heap, now, pending, sent, Running)
  BY DEF ThreadInv, StageOK, ClockOK, ActiveIsTicked, ReportOK, Good, Ticked, Events, TickOn

LEMMA GoodIsInv ==
  ASSUME scope' = scope, PlainOK', Good(attack', heap', now', pending', sent', Running')
  PROVE  ThreadInv'
  <1>1. StageOK'
    BY DEF StageOK, Good, AttackState, Stages, Actions, AllActions
  <1>2. ClockOK'
    BY DEF ClockOK, Good, Live
  <1>3. ActiveIsTicked'
    BY DEF ActiveIsTicked, Good, Ticked, Events, TickOn
  <1>4. ReportOK'
    BY DEF ReportOK, Good, Ticked, Events, TickOn, Follows, Stages
  <1> QED BY <1>1, <1>2, <1>3, <1>4 DEF ThreadInv

\* A scope has the fields of its type.
LEMMA ScopeFact ==
  ASSUME PlainOK
  PROVE  scope \in Scope /\ Len(scope.stages) \in Nat
  BY ThreadAssumption DEF PlainOK, Scope

\* The event that is due first is taken at its time; a clock that has run too far is set
\* back with everything that is left on the heap g.
LEMMA PopFact ==
  ASSUME PlainOK, Good(attack, heap, now, pending, sent, Running),
         NEW e \in Earliest(heap), NEW a \in AttackState, NEW c, NEW running,
         c = "advance_stage" => sent > 0,
         a.stage + (IF c = "advance_stage" THEN 1 ELSE 0) <= Len(scope.stages) + 1 + sent,
         NEW g, HeapOK(g), \A x \in BagToSet(g) : x.at >= e.at,
         running /\ a.is_active /\ ~a.is_completed => TickOn(g),
         "inject" \notin scope.env => Follows(a) /\ (TickOn(g) => a.is_active \/ a.ended)
  PROVE  /\ Good(a, Rebase(g, Shift(e.at)), e.at - Shift(e.at), c, sent, running)
         /\ "inject" \notin scope.env => now <= e.at - Shift(e.at)
  <1> DEFINE k == Shift(e.at)
             f == Rebase(g, k)
  <1>1. e \in BagToSet(heap) /\ e.at \in Nat
    BY DEF Earliest, Good, HeapOK, Event
  <1>2. now \in Nat /\ (Live => now <= MaxAge) /\ MaxAge \in Nat /\ ("inject" \notin scope.env => now <= e.at)
    BY <1>1, ThreadAssumption DEF Good
  <1>3. k \in Nat /\ k <= e.at /\ (Live => e.at - k <= MaxAge) /\ e.at - k \in Nat
        /\ ("inject" \notin scope.env => now <= e.at - k)
    <2>1. CASE Live /\ e.at > MaxAge
      BY <1>1, <1>2, <2>1 DEF Shift
    <2>2. CASE ~(Live /\ e.at > MaxAge)
      <3>1. k = 0
        BY <2>2, Zenon DEF Shift
      <3> QED BY <1>1, <1>2, <2>2, <3>1
    <2> QED BY <2>1, <2>2
  <1> HIDE DEF k
  <1>4. \A x \in BagToSet(g) : x.at \in Nat /\ x.ev \in {"packet", "poll", "tick"} /\ x.at >= e.at
    BY DEF HeapOK, Event
  <1>5. HeapOK(f) /\ BagToSet(f) = {Due(x.at - k, x.ev) : x \in BagToSet(g)}
    <2>1. \A x \in BagToSet(g) : x.at >= k
      BY <1>1, <1>3, <1>4
    <2> QED BY <1>3, <2>1, RebaseFact
  <1> HIDE DEF f
  <1>6. \A y \in BagToSet(f) : y.at >= e.at - k
    <2> SUFFICES ASSUME NEW y \in BagToSet(f) PROVE y.at >= e.at - k
      OBVIOUS
    <2>1. PICK x \in BagToSet(g) : y = Due(x.at - k, x.ev)
      BY <1>5
    <2>2. y.at = x.at - k
      BY <2>1 DEF Due
    <2> QED BY <1>1, <1>3, <1>4, <2>2
  <1>7. TickOn(f) <=> TickOn(g)
    <2>1. \A x \in BagToSet(g) : Due(x.at - k, x.ev) \in BagToSet(f) /\ Due(x.at - k, x.ev).ev = x.ev
      BY <1>5 DEF Due
    <2>2. \A y \in BagToSet(f) : \E x \in BagToSet(g) : y.ev = x.ev
      BY <1>5 DEF Due
    <2> QED BY <2>1, <2>2 DEF TickOn
  <1>8. sent \in 0 .. MaxCommands
    BY DEF Good
  <1>9. Good(a, f, e.at - k, c, sent, running)
    BY <1>1, <1>3, <1>5, <1>6, <1>7, <1>8 DEF Good
  <1> QED BY <1>3, <1>9 DEF f, k

\* What is left on the heap when the first event e is taken: nothing earlier, and every
\* tick but e.
LEMMA LeftFact ==
  ASSUME HeapOK(heap), NEW e \in Earliest(heap)
  PROVE  /\ e \in BagToSet(heap) /\ e.at \in Nat
         /\ HeapOK(Left(e)) /\ \A x \in BagToSet(Left(e)) : x \in BagToSet(heap) /\ x.at >= e.at
         /\ e.ev # "tick" /\ TickOn(heap) => TickOn(Left(e))
         /\ TickOn(Left(e)) => TickOn(heap)
         /\ e.ev = "tick" => TickOn(heap)
  <1>1. e \in BagToSet(heap) /\ e.at \in Nat /\ \A x \in BagToSet(heap) : x.at \in Nat /\ e.at <= x.at
    BY DEF Earliest, HeapOK, Event
  <1>2. /\ HeapOK(Left(e)) /\ BagToSet(Left(e)) \subseteq BagToSet(heap)
        /\ BagToSet(heap) \subseteq BagToSet(Left(e)) \cup {e}
    BY <1>1, RemoveFact DEF Left
  <1> QED BY <1>1, <1>2 DEF TickOn
-----------------------------------------------------------------------------
(* The invariant holds *)

LEMMA InitInv ==
  ASSUME Init
  PROVE  ThreadInv
  <1>1. PlainOK
    BY DEF Init, PlainOK, Commands, Modes, None
  <1>2. scope \in Scope /\ Len(scope.stages) \in Nat /\ MaxCommands \in Nat /\ MaxAge \in Nat
    BY <1>1, ScopeFact, ThreadAssumption
  <1>3. PICK d \in scope.poll :
             IF scope.start = "none" THEN attack = NoAttack /\ heap = FirstEvents(d)
             ELSE attack = Register(scope.start, FirstEvents(d)).attack
                  /\ heap = Register(scope.start, FirstEvents(d)).heap
    BY DEF Init
  <1>4. HeapOK(FirstEvents(d)) /\ ~TickOn(FirstEvents(d))
    <2> DEFINE p == Due(0, "packet")
               q == Due(d, "poll")
               h == SetToBag({p})
    <2>1. d \in Nat
      BY <1>2 DEF Scope
    <2>2. p \in Event /\ p.ev = "packet" /\ q \in Event /\ q.ev = "poll"
      BY <2>1, DueFact
    <2> HIDE DEF p, q
    <2>3. HeapOK(h) /\ BagToSet(h) = {p}
      BY <2>2 DEF HeapOK, IsABag, BagToSet, SetToBag
    <2> HIDE DEF h
    <2>4. HeapOK(schedule(h, q)) /\ BagToSet(schedule(h, q)) = {p, q}
      BY <2>2, <2>3, ScheduleFact
    <2>5. FirstEvents(d) = schedule(h, q)
      BY DEF FirstEvents, h, p, q
    <2> QED BY <2>2, <2>4, <2>5 DEF TickOn
  <1>5. /\ attack \in AttackState /\ attack.stage = 1 /\ Follows(attack) /\ HeapOK(heap)
        /\ attack.is_active <=> TickOn(heap)
    <2>1. CASE scope.start = "none"
      BY <1>2, <1>3, <1>4, <2>1, NoAttackFact
    <2>2. CASE scope.start # "none"
      <3> DEFINE r == Register(scope.start, FirstEvents(d))
      <3>1. attack = r.attack /\ heap = r.heap
        BY <1>3, <2>2
      <3>2. /\ r.attack \in AttackState /\ r.attack.stage = 1 /\ Follows(r.attack) /\ HeapOK(r.heap)
            /\ scope.start = "manual" => r.heap = FirstEvents(d) /\ ~r.attack.is_active
            /\ scope.start # "manual" =>
                  /\ BagToSet(r.heap) = BagToSet(FirstEvents(d)) \cup {Due(Warmup, "tick")}
                  /\ r.attack.is_active
        BY <1>2, <1>4, RegisterFact
      <3>3. Due(Warmup, "tick").ev = "tick"
        BY DEF Due
      <3> HIDE DEF r
      <3> QED BY <1>4, <3>1, <3>2, <3>3 DEF TickOn
    <2> QED BY <2>1, <2>2
  <1>6. now = 0 /\ sent = 0 /\ pending = "none"
    BY DEF Init, None
  <1>7. \A e \in BagToSet(heap) : e.at \in Nat
    BY <1>5 DEF HeapOK, Event
  <1>8. StageOK
    BY <1>2, <1>5, <1>6 DEF StageOK
  <1>9. ClockOK
    BY <1>2, <1>5, <1>6, <1>7 DEF ClockOK
  <1>10. ActiveIsTicked /\ ReportOK
    BY <1>5 DEF ActiveIsTicked, ReportOK, Ticked, TickOn, Events
  <1> QED BY <1>1, <1>8, <1>9, <1>10 DEF ThreadInv

LEMMA PlainStep ==
  ASSUME PlainOK, Next
  PROVE  PlainOK' /\ scope' = scope
  <1> USE DEF PlainOK, outside, Modes, None
  <1>1. ASSUME NoEvents \/ TakeInjection \/ AttachInjection \/ RefuseInjection
        PROVE  PlainOK' /\ scope' = scope
    BY <1>1 DEF NoEvents, TakeInjection, AttachInjection, RefuseInjection
  <1>2. ASSUME CheckWallTime \/ StopReceived \/ BeginShutdown \/ ShutdownFails \/ Complete
        PROVE  PlainOK' /\ scope' = scope
    BY <1>2 DEF CheckWallTime, StopReceived, BeginShutdown, ShutdownFails, Complete
  <1>3. ASSUME NEW e \in Events,
               \/ DurationReached(e) \/ WritePacket(e) \/ HandlePoll(e) \/ PollFails(e) \/ HandleAttackTick(e)
               \/ TickFails(e) \/ Drain(e) \/ DrainFails(e)
        PROVE  PlainOK' /\ scope' = scope
    BY <1>3 DEF DurationReached, WritePacket, HandlePoll, PollFails, HandleAttackTick, TickFails, Drain, DrainFails,
                Dispatch
  <1>4. ASSUME NEW c \in Commands, SendCommand(c)
        PROVE  PlainOK' /\ scope' = scope
    BY <1>4 DEF SendCommand
  <1>5. ASSUME NEW m \in Modes, InjectAttack(m)
        PROVE  PlainOK' /\ scope' = scope
    BY <1>5 DEF InjectAttack
  <1>6. ASSUME StopAttack \/ SetStopEvent \/ StageExpires \/ Ended
        PROVE  PlainOK' /\ scope' = scope
    BY <1>6 DEF StopAttack, SetStopEvent, StageExpires, Ended, vars, Commands
  <1> QED BY <1>1, <1>2, <1>3, <1>4, <1>5, <1>6, Zenon DEF Next, Thread

\* The steps that take an event off the heap.
LEMMA PopStep ==
  ASSUME PlainOK, Good(attack, heap, now, pending, sent, Running), NEW e \in Events,
         \/ DurationReached(e) \/ WritePacket(e) \/ HandlePoll(e) \/ PollFails(e) \/ HandleAttackTick(e)
         \/ TickFails(e) \/ Drain(e) \/ DrainFails(e)
  PROVE  /\ Good(attack', heap', now', pending', sent', Running')
         /\ "inject" \notin scope.env => now <= now'
  <1>0. scope \in Scope /\ Len(scope.stages) \in Nat
    BY ScopeFact
  <1>1. e \in Earliest(heap) /\ now' = e.at - Shift(e.at)
    BY DEF DurationReached, WritePacket, HandlePoll, PollFails, HandleAttackTick, TickFails, Drain, DrainFails,
           Dispatch, Pop
  <1>2. /\ HeapOK(heap) /\ attack \in AttackState /\ attack.stage \in Nat /\ sent \in Nat
        /\ pending = "advance_stage" => sent > 0
        /\ attack.stage + (IF pending = "advance_stage" THEN 1 ELSE 0) <= Len(scope.stages) + 1 + sent
        /\ Running /\ attack.is_active /\ ~attack.is_completed => TickOn(heap)
        /\ "inject" \notin scope.env => Follows(attack) /\ (TickOn(heap) => attack.is_active \/ attack.ended)
    BY DEF Good, AttackState
  <1>3. /\ e \in BagToSet(heap) /\ e.at \in Nat
        /\ HeapOK(Left(e)) /\ \A x \in BagToSet(Left(e)) : x \in BagToSet(heap) /\ x.at >= e.at
        /\ e.ev # "tick" /\ TickOn(heap) => TickOn(Left(e))
        /\ TickOn(Left(e)) => TickOn(heap)
        /\ e.ev = "tick" => TickOn(heap)
    BY <1>1, <1>2, LeftFact
  <1>4. ASSUME DurationReached(e)
        PROVE  /\ Good(attack', heap', now', pending', sent', Running')
               /\ "inject" \notin scope.env => now <= now'
    <2>1. /\ UNCHANGED <<attack, pending, sent>> /\ heap' = Left(e) /\ ~Running' /\ ~Live
      BY <1>4 DEF DurationReached, outside, Running, InTime
    <2>2. now' = e.at
      BY <1>1, <1>3, <2>1 DEF Shift
    <2>3. "inject" \notin scope.env => now <= e.at
      BY <1>3 DEF Good
    <2>4. \A x \in BagToSet(Left(e)) : e.at <= x.at
      BY <1>3
    <2>5. sent \in 0 .. MaxCommands
      BY DEF Good
    <2> QED BY <1>2, <1>3, <2>1, <2>2, <2>3, <2>4, <2>5 DEF Good
  <1>5. ASSUME WritePacket(e) \/ PollFails(e) \/ Drain(e) \/ DrainFails(e)
        PROVE  /\ Good(attack', heap', now', pending', sent', Running')
               /\ "inject" \notin scope.env => now <= now'
    <2>1. /\ UNCHANGED <<attack, pending, sent>> /\ heap' = Rebase(Left(e), Shift(e.at))
          /\ ~Running' \/ (Running /\ e.ev = "packet")
      BY <1>5 DEF WritePacket, PollFails, Drain, DrainFails, Dispatch, Heap, outside, Running
    <2>2. Running' /\ attack.is_active /\ ~attack.is_completed => TickOn(Left(e))
      BY <1>2, <1>3, <2>1
    <2>3. /\ Good(attack, Rebase(Left(e), Shift(e.at)), e.at - Shift(e.at), pending, sent, Running')
          /\ "inject" \notin scope.env => now <= e.at - Shift(e.at)
      BY <1>1, <1>2, <1>3, <2>2, PopFact
    <2> QED BY <1>1, <2>1, <2>3
  <1>6. ASSUME HandlePoll(e)
        PROVE  /\ Good(attack', heap', now', pending', sent', Running')
               /\ "inject" \notin scope.env => now <= now'
    <2>1. PICK d \in scope.poll :
               heap' = Rebase(IF Live \/ e.at + d < scope.duration
                              THEN schedule(schedule(Left(e), Due(e.at, "packet")), Due(e.at + d, "poll"))
                              ELSE schedule(Left(e), Due(e.at, "packet")), Shift(e.at))
      BY <1>6 DEF HandlePoll, Heap
    <2>2. UNCHANGED <<attack, pending, sent>> /\ Running /\ e.ev = "poll"
      BY <1>6 DEF HandlePoll, Dispatch, outside, Running
    <2> DEFINE p == Due(e.at, "packet")
               q == Due(e.at + d, "poll")
               c == schedule(Left(e), p)
               n == schedule(c, q)
    <2>3. d \in Nat /\ e.at + d \in Nat /\ e.at + d >= e.at
      BY <1>0, <1>3 DEF Scope
    <2>4. p \in Event /\ p.at = e.at /\ p.ev = "packet" /\ q \in Event /\ q.at >= e.at /\ q.ev = "poll"
      BY <1>3, <2>3, DueFact
    <2> HIDE DEF p, q
    <2>5. HeapOK(c) /\ BagToSet(c) = BagToSet(Left(e)) \cup {p}
      BY <1>3, <2>4, ScheduleFact
    <2>6. HeapOK(n) /\ BagToSet(n) = BagToSet(c) \cup {q}
      BY <2>4, <2>5, ScheduleFact
    <2> HIDE DEF c, n
    <2>7. PICK g \in {c, n} : heap' = Rebase(g, Shift(e.at))
      BY <2>1 DEF c, n, p, q
    <2>8. HeapOK(g) /\ \A x \in BagToSet(g) : x.at >= e.at
      BY <1>3, <2>4, <2>5, <2>6
    <2>9. TickOn(g) <=> TickOn(heap)
      BY <1>3, <2>2, <2>4, <2>5, <2>6 DEF TickOn
    <2>10. /\ Good(attack, Rebase(g, Shift(e.at)), e.at - Shift(e.at), pending, sent, Running')
           /\ "inject" \notin scope.env => now <= e.at - Shift(e.at)
      BY <1>1, <1>2, <2>2, <2>8, <2>9, PopFact
    <2> QED BY <1>1, <2>2, <2>7, <2>10
  <1>7. ASSUME HandleAttackTick(e) \/ TickFails(e)
        PROVE  /\ Good(attack', heap', now', pending', sent', Running')
               /\ "inject" \notin scope.env => now <= now'
    <2>0. PICK p \in Progress, mute \in Muted :
               LET r == HandleTick(pending, e.at, Left(e), p, mute)
               IN  /\ attack' = r.attack /\ pending' = "none" /\ sent' = sent /\ e.ev = "tick"
                   /\ \/ heap' = Rebase(r.heap, Shift(e.at))
                      \/ heap' = Rebase(Left(e), Shift(e.at)) /\ ~Running'
      BY <1>7 DEF HandleAttackTick, TickFails, Heap, None, Running
    <2> DEFINE r == HandleTick(pending, e.at, Left(e), p, mute)
    <2>1. PICK g \in {r.heap, Left(e)} :
               /\ attack' = r.attack /\ pending' = "none" /\ sent' = sent /\ e.ev = "tick"
               /\ heap' = Rebase(g, Shift(e.at))
               /\ g = r.heap \/ ~Running'
      BY <2>0
    <2>2. /\ r.attack \in AttackState
          /\ \/ r.attack.stage <= Len(scope.stages) + 1
             \/ r.attack.stage = attack.stage
             \/ pending = "advance_stage" /\ r.attack.stage = attack.stage + 1
          /\ Scheduled(r.attack, Left(e), r.heap, e.at)
          /\ Sound(attack) => Sound(r.attack)
      BY <1>0, <1>2, <1>3, TickFact
    <2> HIDE DEF r
    <2>3. r.attack.stage \in Nat
      BY <2>2 DEF AttackState
    <2>4. r.attack.stage <= Len(scope.stages) + 1 + sent
      BY <1>0, <1>2, <2>2, <2>3
    <2>5. /\ HeapOK(g) /\ \A x \in BagToSet(g) : x.at >= e.at
          /\ Running' /\ r.attack.is_active /\ ~r.attack.is_completed => TickOn(g)
      BY <1>3, <2>1, <2>2 DEF Scheduled, TickOn
    <2>6. "inject" \notin scope.env => Follows(r.attack) /\ (r.attack.is_active \/ r.attack.ended)
      BY <1>2, <1>3, <2>1, <2>2 DEF Sound
    <2>7. "none" # "advance_stage" /\ r.attack.stage + 0 = r.attack.stage
      BY <2>3
    <2>8. /\ Good(r.attack, Rebase(g, Shift(e.at)), e.at - Shift(e.at), "none", sent, Running')
          /\ "inject" \notin scope.env => now <= e.at - Shift(e.at)
      BY <1>1, <2>2, <2>4, <2>5, <2>6, <2>7, PopFact
    <2> QED BY <1>1, <2>1, <2>8
  <1> QED BY <1>4, <1>5, <1>6, <1>7

\* The other steps of the thread.
LEMMA ThreadStep ==
  ASSUME PlainOK, Good(attack, heap, now, pending, sent, Running),
         \/ NoEvents \/ TakeInjection \/ AttachInjection \/ RefuseInjection \/ CheckWallTime
         \/ StopReceived \/ BeginShutdown \/ ShutdownFails \/ Complete
  PROVE  Good(attack', heap', now', pending', sent', Running') /\ now' = now
  <1>0. scope \in Scope /\ Len(scope.stages) \in Nat
    BY ScopeFact
  <1>1. CASE NoEvents \/ StopReceived \/ ShutdownFails \/ Complete
    <2>1. UNCHANGED <<attack, heap, now, pending, sent>> /\ ~Running'
      BY <1>1 DEF NoEvents, StopReceived, ShutdownFails, Complete, outside, Running
    <2> QED BY <2>1 DEF Good
  <1>2. CASE TakeInjection \/ RefuseInjection
    <2>1. UNCHANGED <<attack, heap, now, pending, sent>> /\ Running
      BY <1>2 DEF TakeInjection, RefuseInjection, Running
    <2> QED BY <2>1 DEF Good
  <1>3. CASE AttachInjection
    <2> DEFINE r == Register(taken, heap)
    <2>1. /\ attack' = r.attack /\ heap' = r.heap /\ pending' = "none" /\ UNCHANGED <<now, sent>>
          /\ "inject" \in scope.env
      BY <1>3 DEF AttachInjection, PlainOK, None
    <2>2. /\ r.attack \in AttackState /\ r.attack.stage = 1 /\ HeapOK(r.heap)
          /\ taken = "manual" => r.heap = heap /\ ~r.attack.is_active
          /\ taken # "manual" => BagToSet(r.heap) = BagToSet(heap) \cup {Due(Warmup, "tick")}
      BY <1>0, RegisterFact DEF Good
    <2>3. Due(Warmup, "tick").ev = "tick"
      BY DEF Due
    <2> HIDE DEF r
    <2>4. r.attack.is_active => TickOn(r.heap)
      BY <2>2, <2>3 DEF TickOn
    <2>5. 1 + 0 <= Len(scope.stages) + 1 + sent
      BY <1>0 DEF Good
    <2> QED BY <2>1, <2>2, <2>4, <2>5 DEF Good
  <1>4. CASE CheckWallTime
    <2>0. UNCHANGED <<now, pending, sent>> /\ Running
      BY <1>4 DEF CheckWallTime, outside, Running
    <2>1. CASE ~Advances
      <3>1. UNCHANGED <<attack, heap>>
        BY <1>4, <2>1 DEF CheckWallTime
      <3> QED BY <2>0, <3>1 DEF Good
    <2>2. CASE Advances
      <3> DEFINE b == AdvanceStage(attack, now)
                 d == Due(now + 1, "tick")
      <3>1. attack' = b /\ heap' = IF b.is_completed THEN heap ELSE schedule(heap, d)
        BY <1>4, <2>2 DEF CheckWallTime
      <3>2. attack.is_active /\ attack.stage \in Stages
        BY <2>2 DEF Advances
      <3>3. attack \in AttackState /\ now \in Nat /\ HeapOK(heap) /\ ("inject" \notin scope.env => Follows(attack))
        BY DEF Good
      <3>4. /\ b \in AttackState /\ b.stage = attack.stage + 1 /\ b.is_active = attack.is_active
            /\ attack.is_active /\ Follows(attack) => Follows(b)
        BY <3>3, AdvanceFact
      <3>5. d \in Event /\ d.at = now + 1 /\ d.ev = "tick"
        BY <3>3, DueFact
      <3> HIDE DEF b, d
      <3>6. HeapOK(schedule(heap, d)) /\ BagToSet(schedule(heap, d)) = BagToSet(heap) \cup {d}
        BY <3>3, <3>5, ScheduleFact
      <3>7. b.stage \in Nat /\ b.stage <= Len(scope.stages) + 1
        BY <1>0, <3>2, <3>4 DEF Stages
      <3>8. b.stage + (IF pending = "advance_stage" THEN 1 ELSE 0) <= Len(scope.stages) + 1 + sent
        BY <1>0, <3>7 DEF Good
      <3>9. /\ HeapOK(heap') /\ (~b.is_completed => TickOn(heap'))
            /\ "inject" \notin scope.env => \A x \in BagToSet(heap') : now <= x.at
        <4>1. CASE b.is_completed
          BY <3>1, <3>3, <4>1 DEF Good
        <4>2. CASE ~b.is_completed
          BY <3>1, <3>3, <3>5, <3>6, <4>2 DEF Good, TickOn
        <4> QED BY <4>1, <4>2
      <3> QED BY <2>0, <3>1, <3>2, <3>3, <3>4, <3>8, <3>9 DEF Good
    <2> QED BY <2>1, <2>2
  <1>5. CASE BeginShutdown
    <2> DEFINE d == Due(now, "packet")
    <2>1. UNCHANGED <<attack, now, pending, sent>> /\ heap' = schedule(heap, d) /\ ~Running'
      BY <1>5 DEF BeginShutdown, outside, Running
    <2>2. now \in Nat /\ HeapOK(heap)
      BY DEF Good
    <2>3. d \in Event /\ d.at = now /\ d.ev = "packet"
      BY <2>2, DueFact
    <2> HIDE DEF d
    <2>4. HeapOK(heap') /\ BagToSet(heap') = BagToSet(heap) \cup {d}
      BY <2>1, <2>2, <2>3, ScheduleFact
    <2>5. TickOn(heap') => TickOn(heap)
      BY <2>3, <2>4 DEF TickOn
    <2>6. "inject" \notin scope.env => \A x \in BagToSet(heap') : now <= x.at
      BY <2>2, <2>3, <2>4 DEF Good
    <2> QED BY <2>1, <2>4, <2>5, <2>6 DEF Good
  <1> QED BY <1>1, <1>2, <1>3, <1>4, <1>5

\* One more command sent allows one stage more.
LEMMA OneMoreStage ==
  ASSUME NEW q \in Nat, NEW x \in {0, 1}, NEW k \in Nat, NEW n \in Nat, q <= k + 1 + n
  PROVE  q + x <= k + 1 + (n + 1)
  OBVIOUS

\* The steps of the agent's event loop, and of time.
LEMMA OutsideStep ==
  ASSUME PlainOK, Good(attack, heap, now, pending, sent, Running),
         \/ \E c \in Commands : SendCommand(c)
         \/ \E m \in Modes : InjectAttack(m)
         \/ StopAttack \/ SetStopEvent \/ StageExpires \/ Ended
  PROVE  Good(attack', heap', now', pending', sent', Running') /\ now' = now
  <1>0. scope \in Scope /\ Len(scope.stages) \in Nat /\ MaxCommands \in Nat
    BY ScopeFact, ThreadAssumption
  <1>1. attack.stage \in Nat /\ attack \in AttackState /\ sent \in 0 .. MaxCommands
    BY DEF Good, AttackState
  <1>2. ASSUME NEW c \in Commands, SendCommand(c)
        PROVE  Good(attack', heap', now', pending', sent', Running') /\ now' = now
    <2>1. UNCHANGED <<at, attack, heap, now>> /\ pending' = c /\ sent' = sent + 1 /\ sent < MaxCommands
      BY <1>2 DEF SendCommand
    <2>2. attack.stage <= Len(scope.stages) + 1 + sent
      BY <1>0, <1>1 DEF Good
    <2>3. attack.stage + (IF c = "advance_stage" THEN 1 ELSE 0) <= Len(scope.stages) + 1 + (sent + 1)
      <3> DEFINE x == IF c = "advance_stage" THEN 1 ELSE 0
      <3>1. x \in {0, 1} /\ sent \in Nat
        BY <1>0, <1>1
      <3> HIDE DEF x
      <3>2. attack.stage + x <= Len(scope.stages) + 1 + (sent + 1)
        BY <1>0, <1>1, <2>2, <3>1, OneMoreStage
      <3> QED BY <3>2 DEF x
    <2>4. sent + 1 \in 0 .. MaxCommands /\ sent + 1 > 0
      BY <1>0, <1>1, <2>1
    <2>5. Running' = Running
      BY <2>1 DEF Running
    <2> QED BY <2>1, <2>3, <2>4, <2>5 DEF Good
  <1>3. ASSUME NEW m \in Modes, InjectAttack(m)
        PROVE  Good(attack', heap', now', pending', sent', Running') /\ now' = now
    <2>1. UNCHANGED <<at, attack, heap, now, pending>> /\ sent' = sent + 1 /\ sent < MaxCommands
      BY <1>3 DEF InjectAttack
    <2>2. attack.stage + (IF pending = "advance_stage" THEN 1 ELSE 0) <= Len(scope.stages) + 1 + (sent + 1)
      <3> DEFINE x == IF pending = "advance_stage" THEN 1 ELSE 0
      <3>1. x \in {0, 1} /\ sent \in Nat
        BY <1>0, <1>1
      <3>2. attack.stage <= Len(scope.stages) + 1 + sent
        BY <1>0, <1>1 DEF Good
      <3> HIDE DEF x
      <3>3. attack.stage + x <= Len(scope.stages) + 1 + (sent + 1)
        BY <1>0, <1>1, <3>1, <3>2, OneMoreStage
      <3> QED BY <3>3 DEF x
    <2>3. sent + 1 \in 0 .. MaxCommands /\ sent + 1 > 0
      BY <1>0, <1>1, <2>1
    <2>4. Running' = Running
      BY <2>1 DEF Running
    <2> QED BY <2>1, <2>2, <2>3, <2>4 DEF Good
  <1>4. CASE StopAttack
    <2>1. UNCHANGED <<at, attack, heap, now, sent>> /\ pending' \in {"stop", pending}
      BY <1>4 DEF StopAttack
    <2>2. /\ pending' = "advance_stage" => pending = "advance_stage"
          /\ attack.stage + (IF pending' = "advance_stage" THEN 1 ELSE 0) <= Len(scope.stages) + 1 + sent
      BY <1>0, <1>1, <2>1 DEF Good
    <2>3. Running' = Running
      BY <2>1 DEF Running
    <2> QED BY <2>1, <2>2, <2>3 DEF Good
  <1>5. CASE SetStopEvent \/ Ended
    <2>1. UNCHANGED <<at, attack, heap, now, pending, sent>>
      BY <1>5 DEF SetStopEvent, Ended, vars
    <2>2. Running' = Running
      BY <2>1 DEF Running
    <2> QED BY <2>1, <2>2
  <1>6. CASE StageExpires
    <2>1. UNCHANGED <<at, heap, now, pending, sent>> /\ attack' = [attack EXCEPT !.late = TRUE]
      BY <1>6 DEF StageExpires, outside
    <2>2. /\ attack' \in AttackState /\ Kept(attack, attack')
          /\ attack'.ended = attack.ended /\ attack'.stages = attack.stages
      BY <1>1, <2>1 DEF AttackState, Kept
    <2>3. Follows(attack) => Follows(attack')
      BY <2>2 DEF Kept, Follows
    <2>4. Running' = Running
      BY <2>1 DEF Running
    <2> QED BY <2>1, <2>2, <2>3, <2>4 DEF Good, Kept
  <1> QED BY <1>2, <1>3, <1>4, <1>5, <1>6

\* Every step keeps the invariant, and takes the clock forward unless there are injections.
LEMMA NextInv ==
  ASSUME ThreadInv, [Next]_vars
  PROVE  ThreadInv' /\ (now' >= now \/ "inject" \in scope.env)
  <1>1. PlainOK /\ Good(attack, heap, now, pending, sent, Running) /\ now \in Nat
    BY InvIsGood DEF Good
  <1>2. CASE Next
    <2>1. PlainOK' /\ scope' = scope
      BY <1>1, <1>2, PlainStep
    <2>2. /\ Good(attack', heap', now', pending', sent', Running')
          /\ "inject" \notin scope.env => now <= now'
      <3>1. ASSUME NEW e \in Events,
                   \/ DurationReached(e) \/ WritePacket(e) \/ HandlePoll(e) \/ PollFails(e)
                   \/ HandleAttackTick(e) \/ TickFails(e) \/ Drain(e) \/ DrainFails(e)
            PROVE  /\ Good(attack', heap', now', pending', sent', Running')
                   /\ "inject" \notin scope.env => now <= now'
        BY <1>1, <3>1, PopStep
      <3>2. CASE \/ NoEvents \/ TakeInjection \/ AttachInjection \/ RefuseInjection \/ CheckWallTime
                 \/ StopReceived \/ BeginShutdown \/ ShutdownFails \/ Complete
        BY <1>1, <3>2, ThreadStep
      <3>3. CASE \/ \E c \in Commands : SendCommand(c)
                 \/ \E m \in Modes : InjectAttack(m)
                 \/ StopAttack \/ SetStopEvent \/ StageExpires \/ Ended
        BY <1>1, <3>3, OutsideStep
      <3> QED BY <1>2, <3>1, <3>2, <3>3, Zenon DEF Next, Thread
    <2>3. now' \in Nat
      BY <2>2 DEF Good
    <2>4. ThreadInv'
      BY <2>1, <2>2, GoodIsInv
    <2> QED BY <1>1, <2>2, <2>3, <2>4
  <1>3. CASE UNCHANGED vars
    <2>1. UNCHANGED <<scope, attack, heap, now, pending, sent, Running>> /\ PlainOK'
      BY <1>1, <1>3 DEF vars, Running, PlainOK
    <2>2. ThreadInv'
      BY <1>1, <2>1, GoodIsInv
    <2> QED BY <1>1, <2>1, <2>2
  <1> QED BY <1>2, <1>3

LEMMA ThreadInvariant == Spec => []ThreadInv
  <1>1. Init => ThreadInv
    BY InitInv
  <1>2. ThreadInv /\ [Next]_vars => ThreadInv'
    BY NextInv
  <1> QED BY <1>1, <1>2, PTL DEF Spec

-----------------------------------------------------------------------------
(* The planned durations: PlannedUpTo, by induction on the number of stages *)

WF == INSTANCE WellFoundedInduction

\* A nonempty set of numbers has a least one.
LEMMA LeastFact ==
  ASSUME NEW I, I \subseteq Nat, I # {}
  PROVE  \E m \in I : \A k \in I : m <= k
  <1> DEFINE R == {ss \in Nat \X Nat : ss[1] < ss[2]}
  <1>1. R = WF!OpToRel(<, Nat)
    BY Zenon DEF WF!OpToRel
  <1>2. WF!IsWellFoundedOn(R, Nat)
    BY <1>1, WF!NatLessThanWellFounded, Zenon
  <1>3. PICK m \in I : \A k \in I : <<k, m>> \notin R
    <2>0. I \subseteq Nat /\ I # {}
      OBVIOUS
    <2> HIDE DEF R
    <2> QED BY <1>2, <2>0, WF!WFMin
  <1>4. ASSUME NEW k \in I PROVE m <= k
    <2>1. <<k, m>> \in Nat \X Nat /\ <<k, m>>[1] = k /\ <<k, m>>[2] = m
      OBVIOUS
    <2> QED BY <1>3, <2>1
  <1> QED BY <1>4

\* The stages' planned durations are at least a second.
LEMMA PlannedStageFact ==
  ASSUME scope \in Scope, NEW i \in Stages
  PROVE  PlannedStage(i) \in Nat /\ PlannedStage(i) >= 1000
  <1>1. scope.stages[i].duration \in Nat
    <2>1. scope.stages \in Seq(Stage) /\ i \in 1 .. Len(scope.stages)
      BY DEF Scope, Stages
    <2>2. scope.stages[i] \in Stage
      BY <2>1
    <2> QED BY <2>2 DEF Stage
  <1> QED BY <1>1 DEF PlannedStage, Max2

\* PlannedUpTo is what its definition says: there is a function that satisfies it.
LEMMA PlannedUpToDef ==
  ASSUME scope \in Scope
  PROVE  PlannedUpTo = [i \in 0 .. Len(scope.stages) |->
                           IF i = 0 THEN 0 ELSE PlannedUpTo[i - 1] + PlannedStage(i)]
  <1> DEFINE N == Len(scope.stages)
             Sums(f, k) == f = [i \in 0 .. k |-> IF i = 0 THEN 0 ELSE f[i - 1] + PlannedStage(i)]
             S == {k \in 0 .. N : ~\E f : Sums(f, k)}
  <1>0. N \in Nat
    BY DEF Scope
  <1>1. S = {}
    <2> SUFFICES ASSUME S # {} PROVE FALSE
      OBVIOUS
    <2>1. S \subseteq Nat
      BY <1>0
    <2>2. PICK m \in S : \A k \in S : m <= k
      <3> HIDE DEF S
      <3> QED BY <2>1, LeastFact
    <2>3. m # 0
      <3> DEFINE z == [i \in 0 .. 0 |-> 0]
      <3>1. Sums(z, 0)
        OBVIOUS
      <3>2. 0 \notin S
        BY <3>1
      <3> QED BY <2>2, <3>2
    <2>4. m \in Nat /\ m - 1 \in 0 .. N /\ m - 1 \notin S
      <3>1. m \in 0 .. N
        BY <2>2
      <3> HIDE DEF S
      <3> QED BY <1>0, <2>2, <2>3, <3>1
    <2>5. PICK f : Sums(f, m - 1)
      BY <2>4
    <2> DEFINE g == [i \in 0 .. m |-> IF i = m THEN f[m - 1] + PlannedStage(m) ELSE f[i]]
    <2>6. ASSUME NEW i \in 0 .. m
          PROVE  g[i] = IF i = 0 THEN 0 ELSE g[i - 1] + PlannedStage(i)
      <3>1. CASE i = m
        BY <2>3, <2>4, <3>1
      <3>2. CASE i # m
        <4>1. i \in 0 .. m - 1 /\ g[i] = f[i] /\ (i # 0 => g[i - 1] = f[i - 1])
          BY <2>4, <3>2
        <4>2. f[i] = IF i = 0 THEN 0 ELSE f[i - 1] + PlannedStage(i)
          BY <2>5, <4>1
        <4> QED BY <4>1, <4>2
      <3> QED BY <3>1, <3>2
    <2>7. Sums(g, m)
      <3>1. g = [i \in 0 .. m |-> g[i]]
        OBVIOUS
      <3> HIDE DEF g
      <3> QED BY <2>6, <3>1
    <2> QED BY <2>2, <2>7
  <1>2. \E f : Sums(f, N)
    BY <1>0, <1>1
  <1>3. PlannedUpTo = CHOOSE f : Sums(f, N)
    BY DEF PlannedUpTo
  <1>4. Sums(PlannedUpTo, N)
    <2> HIDE DEF Sums
    <2> QED BY <1>2, <1>3
  <1> QED BY <1>4

\* The sums grow up to the planned duration of the whole kill chain.
LEMMA PlannedUpToFact ==
  ASSUME scope \in Scope
  PROVE  /\ PlannedUpTo[0] = 0
         /\ \A i \in Stages : PlannedUpTo[i] = PlannedUpTo[i - 1] + PlannedStage(i)
         /\ \A i \in 0 .. Len(scope.stages) : PlannedUpTo[i] \in Nat /\ PlannedUpTo[i] <= Planned
  <1> DEFINE N == Len(scope.stages)
             F == PlannedUpTo
  <1>0. N \in Nat
    BY DEF Scope
  <1>1. F[0] = 0 /\ \A i \in 1 .. N : F[i] = F[i - 1] + PlannedStage(i)
    BY <1>0, PlannedUpToDef
  <1>2. \A i \in 1 .. N : PlannedStage(i) \in Nat
    BY PlannedStageFact DEF Stages
  <1> HIDE DEF F
  <1>3. \A i \in 0 .. N : F[i] \in Nat
    <2> DEFINE S == {i \in 0 .. N : F[i] \notin Nat}
    <2> SUFFICES ASSUME S # {} PROVE FALSE
      OBVIOUS
    <2>1. PICK m \in S : \A k \in S : m <= k
      <3>1. S \subseteq Nat
        BY <1>0
      <3> HIDE DEF S
      <3> QED BY <3>1, LeastFact
    <2>2. m # 0 /\ m \in 1 .. N
      BY <1>0, <1>1, <2>1
    <2>3. m - 1 \in 0 .. N /\ m - 1 \notin S
      BY <1>0, <2>1, <2>2
    <2> QED BY <1>1, <1>2, <2>1, <2>2, <2>3
  <1>4. \A i \in 0 .. N : F[i] <= F[N]
    <2> DEFINE S == {j \in 0 .. N : F[N - j] > F[N]}
    <2>1. S = {}
      <3> SUFFICES ASSUME S # {} PROVE FALSE
        OBVIOUS
      <3>1. PICK m \in S : \A k \in S : m <= k
        <4>1. S \subseteq Nat
          BY <1>0
        <4> HIDE DEF S
        <4> QED BY <4>1, LeastFact
      <3>2. m # 0
        <4>1. N - 0 = N /\ F[N] \in Nat
          BY <1>0, <1>3
        <4> QED BY <1>0, <1>3, <3>1, <4>1
      <3>3. m \in 0 .. N /\ m - 1 \in 0 .. N /\ m - 1 \notin S
        <4>1. m \in 0 .. N
          BY <3>1
        <4> HIDE DEF S
        <4> QED BY <1>0, <3>1, <3>2, <4>1
      <3>4. PICK q \in 1 .. N : q = N - (m - 1) /\ q - 1 = N - m
        BY <1>0, <3>2, <3>3
      <3>5. ~(F[q] > F[N])
        BY <3>3, <3>4
      <3>6. F[q - 1] > F[N]
        BY <3>1, <3>4
      <3>7. F[q] = F[q - 1] + PlannedStage(q) /\ PlannedStage(q) \in Nat
        BY <1>1, <1>2
      <3>8. F[q - 1] \in Nat /\ F[q] \in Nat /\ F[N] \in Nat
        <4>1. q - 1 \in 0 .. N /\ q \in 0 .. N /\ N \in 0 .. N
          BY <1>0
        <4> QED BY <1>3, <4>1
      <3> HIDE DEF S, N
      <3> QED BY <3>5, <3>6, <3>7, <3>8
    <2> SUFFICES ASSUME NEW i \in 0 .. N PROVE F[i] <= F[N]
      OBVIOUS
    <2>2. N - i \in 0 .. N /\ N - (N - i) = i
      BY <1>0
    <2>3. ~(F[i] > F[N])
      <3>1. N - i \notin S
        BY <2>1
      <3> QED BY <2>2, <3>1
    <2>4. F[i] \in Nat /\ F[N] \in Nat
      BY <1>0, <1>3
    <2> QED BY <2>3, <2>4
  <1> QED BY <1>1, <1>3, <1>4 DEF Stages, Planned, F

-----------------------------------------------------------------------------
(* The budget of a kill chain *)

\* Products, for the solver.
LEMMA DivFact ==
  ASSUME NEW x \in Nat, NEW d \in Nat, d > 0
  PROVE  (x + d - 1) \div d \in Nat /\ ((x + d - 1) \div d - 1) * d <= x
  <1> DEFINE q == (x + d - 1) \div d
             r == (x + d - 1) % d
  <1>1. q \in Int /\ r \in 0 .. d - 1 /\ x + d - 1 = d * q + r
    OBVIOUS
  <1> HIDE DEF q, r
  <1>2. (q - 1) * d = d * q - d
    BY <1>1
  <1>3. q \in Nat
    BY <1>1
  <1>4. (q - 1) * d <= x
    BY <1>1, <1>2
  <1> QED BY <1>3, <1>4 DEF q

LEMMA TimesFact ==
  ASSUME NEW x \in Int, NEW y \in Int, NEW d \in Nat, x <= y
  PROVE  x * d <= y * d
  OBVIOUS

LEMMA UntimesFact ==
  ASSUME NEW x \in Int, NEW y \in Int, NEW d \in Nat, d > 0, x * d <= d * y
  PROVE  x <= y
  OBVIOUS

LEMMA SumFact ==
  ASSUME NEW x \in Int, NEW y \in Int, NEW a \in Int, NEW b \in Int, NEW d \in Nat, NEW w \in Nat,
         x * d <= a * w, y * d <= b * w
  PROVE  (x + y) * d <= (a + b) * w
  <1>1. (x + y) * d = x * d + y * d /\ (a + b) * w = a * w + b * w
    OBVIOUS
  <1>2. x * d \in Int /\ y * d \in Int /\ a * w \in Int /\ b * w \in Int
    OBVIOUS
  <1> QED BY <1>1, <1>2

LEMMA HeldFact ==
  ASSUME NEW f \in Nat, NEW w \in Nat, NEW k \in Nat, k * 5 <= w, 100 * f <= 15 * w
  PROVE  f <= w - k * 2 /\ k * 3 <= w - k * 2 /\ k * 3 \in Nat
  OBVIOUS

\* The sizes of _apply_time_compression in a capture.
LEMMA SizesFact ==
  ASSUME scope \in Scope, scope.mode = "pcap", Stages # {}
  PROVE  /\ Warmup \in Nat /\ scope.duration \in Nat /\ scope.interval \in Nat /\ scope.tick \in Nat
         /\ Available \in Nat /\ Margin \in Nat /\ Usable \in Nat
         /\ Planned \in Nat /\ Planned > 0 /\ Len(scope.stages) \in Nat
         /\ \A i \in Stages : Scaled(i) \in Nat /\ (Scaled(i) - 1) * Planned <= PlannedStage(i) * Usable
  <1>1. /\ Warmup \in Nat /\ scope.duration \in Nat /\ scope.interval \in Nat /\ scope.tick \in Nat
        /\ Len(scope.stages) \in Nat
    BY WarmupFact DEF Scope
  <1>2. Available \in Nat
    BY <1>1 DEF Available, Max2
  <1>3. (Available * 15) \div 100 \in Nat /\ scope.tick * 3 \in Nat
    BY <1>1, <1>2
  <1>4. Margin \in Nat
    BY <1>3, Zenon DEF Margin, Max2
  <1>5. Usable \in Nat
    BY <1>1, <1>2, <1>4 DEF Usable, Max2
  <1>6. Planned \in Nat /\ Planned > 0
    <2>1. PICK i \in Stages : TRUE
      OBVIOUS
    <2>2. i \in 0 .. Len(scope.stages) /\ i - 1 \in 0 .. Len(scope.stages)
      BY <1>1, <2>1 DEF Stages
    <2>3. /\ PlannedUpTo[i] \in Nat /\ PlannedUpTo[i - 1] \in Nat /\ PlannedUpTo[i] <= Planned
          /\ PlannedUpTo[i] = PlannedUpTo[i - 1] + PlannedStage(i)
      BY <2>1, <2>2, PlannedUpToFact
    <2>4. Planned \in Nat
      <3>1. Len(scope.stages) \in 0 .. Len(scope.stages)
        BY <1>1
      <3> QED BY <3>1, PlannedUpToFact DEF Planned
    <2> QED BY <2>1, <2>3, <2>4, PlannedStageFact
  <1>7. ASSUME NEW i \in Stages
        PROVE  Scaled(i) \in Nat /\ (Scaled(i) - 1) * Planned <= PlannedStage(i) * Usable
    <2> DEFINE x == PlannedStage(i) * Usable
    <2>1. x \in Nat
      BY <1>5, PlannedStageFact
    <2>2. Scaled(i) = (x + Planned - 1) \div Planned
      BY DEF Scaled
    <2> HIDE DEF x
    <2>3. Scaled(i) \in Nat /\ (Scaled(i) - 1) * Planned <= x
      BY <1>6, <2>1, <2>2, DivFact
    <2> QED BY <2>3 DEF x
  <1> QED BY <1>1, <1>2, <1>4, <1>5, <1>6, <1>7

\* The share of the window that a kill chain gets, for each millisecond that is planned.
Whole == IF Planned <= Available THEN 1 ELSE Usable
Share == IF Planned <= Available THEN 1 ELSE Planned

\* The time t is one at which k stages may have ended: the scaled durations of these
\* stages have passed, and a tick more for each of them.
InBudget(t, k) == (t - Warmup - k * scope.interval) * Share <= PlannedUpTo[k] * Whole

LEMMA ShareFact ==
  ASSUME scope \in Scope, RoomyCapture, NEW i \in Stages
  PROVE  /\ StageDuration(i) \in Nat /\ StageDuration(i) >= 1000
         /\ Share \in Nat /\ Whole \in Nat
         /\ (StageDuration(i) - 1) * Share <= PlannedStage(i) * Whole
  <1>1. /\ Planned \in Nat /\ Available \in Nat /\ Usable \in Nat
        /\ Scaled(i) \in Nat /\ (Scaled(i) - 1) * Planned <= PlannedStage(i) * Usable
    BY SizesFact DEF RoomyCapture
  <1>2. PlannedStage(i) \in Nat /\ PlannedStage(i) >= 1000
    BY PlannedStageFact
  <1>3. CASE Planned <= Available
    <2>1. StageDuration(i) = PlannedStage(i) /\ Share = 1 /\ Whole = 1
      BY <1>3 DEF StageDuration, Share, Whole
    <2> QED BY <1>2, <2>1
  <1>4. CASE ~(Planned <= Available)
    <2>1. Scaled(i) >= 3000
      BY <1>4 DEF RoomyCapture, Roomy
    <2>2. Max2(3000, Scaled(i)) = Scaled(i)
      BY <1>1, <2>1 DEF Max2
    <2>3. StageDuration(i) = Scaled(i) /\ Share = Planned /\ Whole = Usable
      BY <1>4, <2>2 DEF StageDuration, Share, Whole
    <2> QED BY <1>1, <2>1, <2>3
  <1> QED BY <1>3, <1>4

\* A stage that begins in the budget and runs over by less than a tick ends in it.
LEMMA BudgetStep ==
  ASSUME scope \in Scope, RoomyCapture, NEW k \in Stages, NEW s \in Nat, InBudget(s, k - 1),
         NEW t \in Nat, t <= s + StageDuration(k) + scope.interval - 1
  PROVE  InBudget(t, k)
  <1> DEFINE I == scope.interval
             D == StageDuration(k)
             x == s - Warmup - (k - 1) * I
             z == t - Warmup - k * I
  <1>1. Warmup \in Nat /\ I \in Nat /\ Len(scope.stages) \in Nat
    BY SizesFact DEF RoomyCapture
  <1>2. /\ D \in Nat /\ Share \in Nat /\ Whole \in Nat
        /\ (D - 1) * Share <= PlannedStage(k) * Whole /\ PlannedStage(k) \in Nat
    BY ShareFact, PlannedStageFact
  <1>3. k \in Nat /\ k - 1 \in 0 .. Len(scope.stages)
    BY <1>1 DEF Stages
  <1>4. PlannedUpTo[k] = PlannedUpTo[k - 1] + PlannedStage(k) /\ PlannedUpTo[k - 1] \in Nat
    BY <1>3, PlannedUpToFact
  <1>5. x * Share <= PlannedUpTo[k - 1] * Whole
    BY DEF InBudget
  <1> HIDE DEF D, I
  <1>6. k * I = (k - 1) * I + I /\ (k - 1) * I \in Int
    BY <1>1, <1>3
  <1>7. x \in Int /\ z \in Int /\ z <= x + (D - 1)
    <2> DEFINE m == (k - 1) * I
               n == k * I
    <2>1. n = m + I /\ m \in Int
      BY <1>6
    <2>2. x = s - Warmup - m /\ z = t - Warmup - n /\ t <= s + D + I - 1
      BY DEF D, I
    <2> HIDE DEF m, n, x, z
    <2> QED BY <1>1, <1>2, <2>1, <2>2
  <1> HIDE DEF x, z
  <1>8. (x + (D - 1)) * Share <= PlannedUpTo[k] * Whole
    <2> DEFINE y == D - 1
    <2>1. y \in Int /\ y * Share <= PlannedStage(k) * Whole
      BY <1>2
    <2> HIDE DEF y
    <2>2. (x + y) * Share <= (PlannedUpTo[k - 1] + PlannedStage(k)) * Whole
      BY <1>2, <1>4, <1>5, <1>7, <2>1, SumFact
    <2> QED BY <1>4, <2>2 DEF y
  <1>9. z * Share <= (x + (D - 1)) * Share
    <2> DEFINE y == x + (D - 1)
    <2>1. y \in Int /\ z <= y
      BY <1>2, <1>7
    <2> HIDE DEF y
    <2>2. z * Share <= y * Share
      BY <1>2, <1>7, <2>1, TimesFact
    <2> QED BY <2>2 DEF y
  <1>10. z * Share <= PlannedUpTo[k] * Whole
    <2> DEFINE p == z * Share
               q == (x + (D - 1)) * Share
               r == PlannedUpTo[k] * Whole
    <2>1. p \in Int /\ q \in Int /\ r \in Int
      BY <1>2, <1>4, <1>7
    <2>2. p <= q /\ q <= r
      BY <1>8, <1>9
    <2> HIDE DEF p, q, r
    <2>3. p <= r
      BY <2>1, <2>2
    <2> QED BY <2>3 DEF p, r
  <1> QED BY <1>10 DEF InBudget, z, I

\* What is in the budget is in the window of the capture.
LEMMA BudgetEnd ==
  ASSUME scope \in Scope, RoomyCapture, NEW k \in Stages, NEW t \in Nat, InBudget(t, k)
  PROVE  t <= scope.duration
  <1> DEFINE I == scope.interval
             N == Len(scope.stages)
             wu == Warmup
             window == scope.duration - wu
             x == t - wu - k * I
             B == IF Planned <= Available THEN Planned ELSE Usable
  <1>1. /\ wu \in Nat /\ I \in Nat /\ N \in Nat /\ scope.duration \in Nat /\ scope.tick \in Nat
        /\ Planned \in Nat /\ Planned > 0 /\ Usable \in Nat /\ Available \in Nat
    BY SizesFact DEF RoomyCapture
  <1>2. k \in Nat /\ k <= N /\ k \in 0 .. N
    BY <1>1 DEF Stages
  <1>3. PlannedUpTo[k] \in Nat /\ PlannedUpTo[k] <= Planned
    BY <1>2, PlannedUpToFact
  <1>4. k * I <= N * I /\ k * I \in Nat /\ N * I \in Nat
    BY <1>1, <1>2, TimesFact
  <1>5. x \in Int
    BY <1>1, <1>4
  <1>6. x <= B /\ B \in Nat
    <2>1. x * Share <= PlannedUpTo[k] * Whole
      BY DEF InBudget
    <2> HIDE DEF x
    <2>2. CASE Planned <= Available
      <3>1. Share = 1 /\ Whole = 1 /\ B = Planned
        BY <2>2, Zenon DEF Share, Whole
      <3> QED BY <1>1, <1>3, <1>5, <2>1, <3>1
    <2>3. CASE ~(Planned <= Available)
      <3>1. Share = Planned /\ Whole = Usable /\ B = Usable
        BY <2>3, Zenon DEF Share, Whole
      <3>2. PlannedUpTo[k] * Usable <= Planned * Usable
        BY <1>1, <1>3, TimesFact
      <3>3. x * Planned <= Planned * Usable
        <4> DEFINE p == x * Planned
                   q == PlannedUpTo[k] * Usable
                   r == Planned * Usable
        <4>1. p \in Int /\ q \in Int /\ r \in Int /\ p <= q /\ q <= r
          BY <1>1, <1>3, <1>5, <2>1, <3>1, <3>2
        <4> HIDE DEF p, q, r
        <4>2. p <= r
          BY <4>1
        <4> QED BY <4>2 DEF p, r
      <3> QED BY <1>1, <1>5, <3>1, <3>3, UntimesFact
    <2> QED BY <2>2, <2>3
  <1>7. B + N * I <= window
    <2> DEFINE o == N * I
    <2>1. o \in Nat
      BY <1>4
    <2>2. CASE Planned <= Available
      BY <2>2 DEF RoomyCapture, Roomy
    <2>3. CASE ~(Planned <= Available)
      <3> DEFINE held == Max2((window * 15) \div 100, scope.tick * 3)
      <3>1. o <= held /\ Max2(1000, scope.tick * 5) <= window
        BY <2>3 DEF RoomyCapture, Roomy
      <3>2. 1000 <= window /\ scope.tick * 5 <= window /\ window \in Nat
        <4> DEFINE five == scope.tick * 5
        <4>1. five \in Nat /\ window \in Int
          BY <1>1
        <4>2. Max2(1000, five) <= window
          BY <3>1
        <4> HIDE DEF five, window
        <4>3. 1000 <= window /\ five <= window
          BY <4>1, <4>2 DEF Max2
        <4>4. window \in Nat
          BY <4>1, <4>3
        <4> QED BY <4>3, <4>4 DEF five
      <3> HIDE DEF window
      <3>3. Available = window
        BY <3>2 DEF Available, Max2, window
      <3> DEFINE f == (window * 15) \div 100
      <3>4. f \in Nat /\ 100 * f <= 15 * window
        BY <3>2
      <3> HIDE DEF f
      <3>5. held \in Nat /\ held <= window - scope.tick * 2 /\ held = Margin
        <4>1. held = Max2(f, scope.tick * 3)
          BY DEF f
        <4>2. held = Margin
          BY <3>3 DEF Margin
        <4> HIDE DEF held
        <4>3. held = f \/ held = scope.tick * 3
          BY <4>1, Zenon DEF Max2
        <4>4. f <= window - scope.tick * 2 /\ scope.tick * 3 <= window - scope.tick * 2 /\ scope.tick * 3 \in Nat
          BY <1>1, <3>2, <3>4, HeldFact
        <4> QED BY <3>4, <4>2, <4>3, <4>4
      <3> HIDE DEF held, o
      <3>6. Usable <= window - held
        BY <1>1, <3>2, <3>3, <3>5 DEF Usable, Max2
      <3>7. B = Usable
        BY <2>3, Zenon
      <3>8. Usable + o <= window
        BY <1>1, <2>1, <3>1, <3>2, <3>5, <3>6
      <3> QED BY <3>7, <3>8 DEF o
    <2> QED BY <2>2, <2>3
  <1>8. t = x + wu + k * I
    BY <1>1, <1>4
  <1> HIDE DEF B, x, I, N, wu
  <1>9. window = scope.duration - wu
    BY DEF wu
  <1> QED BY <1>1, <1>4, <1>5, <1>6, <1>7, <1>8, <1>9

-----------------------------------------------------------------------------
(* A capture renders its kill chain *)

\* What the marks of the report leave alone.
Unmarked(a, b) == b.since = a.since /\ b.fired = a.fired /\ b.emitted = a.emitted

LEMMA MarkStageKeeps ==
  ASSUME NEW a \in AttackState, NEW i \in Nat, NEW s \in StageStatus
  PROVE  Unmarked(a, MarkStage(a, i, s)) /\ MarkStage(a, i, s).status = a.status
  <1>1. CASE i \in Stages
    BY <1>1 DEF MarkStage, AttackState, Unmarked
  <1>2. CASE i \notin Stages
    BY <1>2 DEF MarkStage, Unmarked
  <1> QED BY <1>1, <1>2

LEMMA CompletedKeeps ==
  ASSUME NEW a \in AttackState, ~a.ended, NEW c, c = MarkReportCompleted(a, "completed")
  PROVE  Unmarked(a, c) /\ c.status = "completed"
  <1> DEFINE b == [a EXCEPT !.ended = TRUE, !.status = "completed"]
             m == MarkStage(b, a.stage, "completed")
  <1>1. b \in AttackState /\ Unmarked(a, b) /\ b.status = "completed"
    BY DEF AttackState, Unmarked
  <1>2. a.stage \in Nat /\ "completed" \in StageStatus
    BY DEF AttackState, StageStatus
  <1>3. c \in {b, m}
    BY DEF MarkReportCompleted
  <1> HIDE DEF b
  <1>4. Unmarked(b, m) /\ m.status = b.status
    BY <1>1, <1>2, MarkStageKeeps
  <1> HIDE DEF m
  <1> QED BY <1>1, <1>3, <1>4 DEF Unmarked

\* _advance_stage in a capture: the next stage starts at t, or the report is completed.
LEMMA AdvanceKeeps ==
  ASSUME ~Live, NEW a \in AttackState, NEW t \in Nat, NEW b, b = AdvanceStage(a, t)
  PROVE  /\ b.is_paused = a.is_paused /\ b.fired = {} /\ b.emitted = a.emitted
         /\ b.stage \in Stages => b.since = t /\ b.ended = a.ended
         /\ b.stage \notin Stages /\ ~a.ended => b.status = "completed"
         /\ b.stage \notin Stages =>
               \A j \in Stages : b.stages[j] = IF j = a.stage THEN "completed" ELSE a.stages[j]
  <1> DEFINE m == MarkStage(a, a.stage, "completed")
             n == [m EXCEPT !.stage = @ + 1, !.fired = {}]
  <1>0. a.stage \in Nat /\ a.stage + 1 \in Nat \ {0}
    BY DEF AttackState
  <1>1. /\ m \in AttackState /\ Kept(a, m) /\ m.ended = a.ended /\ Unmarked(a, m)
        /\ \A j \in Stages : m.stages[j] = IF j = a.stage THEN "completed" ELSE a.stages[j]
    <2>1. "completed" \in StageStatus
      BY DEF StageStatus
    <2> QED BY <1>0, <2>1, MarkStageFact, MarkStageKeeps
  <1> HIDE DEF m
  <1>2. /\ n \in AttackState /\ n.stage = a.stage + 1 /\ n.is_paused = a.is_paused
        /\ n.fired = {} /\ n.emitted = a.emitted /\ n.ended = a.ended /\ n.stages = m.stages
    BY <1>0, <1>1 DEF AttackState, Kept, Unmarked
  <1> HIDE DEF n
  <1>3. CASE n.stage \in Stages
    <2> DEFINE c == ClockStart(n, t)
    <2>1. /\ c \in AttackState /\ Kept(n, c) /\ c.ended = n.ended
          /\ c.since = t /\ c.fired = n.fired /\ c.emitted = n.emitted
      BY <1>2, ClockStartFact DEF ClockStart, AttackState
    <2>2. b = MarkStage(c, n.stage, "in_progress")
      BY <1>3 DEF AdvanceStage, m, n
    <2> HIDE DEF c
    <2>3. Kept(c, b) /\ b.ended = c.ended /\ Unmarked(c, b)
      <3>1. "in_progress" \in StageStatus /\ n.stage \in Nat
        BY <1>0, <1>2 DEF StageStatus
      <3> QED BY <2>1, <2>2, <3>1, MarkStageFact, MarkStageKeeps
    <2> QED BY <1>2, <1>3, <2>1, <2>3 DEF Kept, Unmarked
  <1>4. CASE n.stage \notin Stages
    <2> DEFINE c == [n EXCEPT !.is_completed = TRUE]
    <2>1. /\ c \in AttackState /\ c.stage = n.stage /\ c.is_paused = n.is_paused
          /\ c.fired = n.fired /\ c.emitted = n.emitted /\ c.ended = n.ended /\ c.stages = n.stages
      BY <1>2 DEF AttackState
    <2>2. b = MarkReportCompleted(c, "completed")
      BY <1>4 DEF AdvanceStage, m, n
    <2> HIDE DEF c
    <2>3. Kept(c, b)
      BY <2>1, <2>2, EndedFact
    <2>4. CASE c.ended
      <3>1. b = c
        BY <2>2, <2>4 DEF MarkReportCompleted
      <3> QED BY <1>1, <1>2, <1>4, <2>1, <2>4, <3>1
    <2>5. CASE ~c.ended
      <3>1. Unmarked(c, b) /\ b.status = "completed"
        BY <2>1, <2>2, <2>5, CompletedKeeps
      <3>2. b = [c EXCEPT !.ended = TRUE, !.status = "completed"]
        BY <1>4, <2>1, <2>2, <2>5 DEF MarkReportCompleted
      <3>3. b.stages = c.stages
        BY <2>1, <3>2 DEF AttackState
      <3> QED BY <1>1, <1>2, <1>4, <2>1, <2>3, <3>1, <3>3 DEF Kept, Unmarked
    <2> QED BY <2>4, <2>5
  <1> QED BY <1>3, <1>4

\* The last tick of a stage: the stage has run for its duration and for less than a tick.
Deadline(a) == a.since + StageDuration(a.stage) + scope.interval - 1

\* A tick at u is in time for the action k: the action has fired, or the tick comes right at
\* the start of the stage, or one interval earlier the trigger point was not reached.
Awaits(a, k, u) ==
    \/ k \in a.fired
    \/ u <= a.since + 1
    \/ ~Reached(a.stage, k, Max2(0, u - scope.interval - a.since))

\* The next tick comes before the stage is overdue, and in time for its actions.
TicksInTime(a, h) ==
    \E e \in BagToSet(h) :
        e.ev = "tick" /\ e.at <= Deadline(a) /\ \A k \in Actions(a.stage) : Awaits(a, k, e.at)

\* The report has the actions that have fired in this stage, and the timely ones of the
\* stages before it.
Recorded(a) ==
    "mute" \notin scope.env =>
        \A i \in Stages : \A k \in Actions(i) :
            (i < a.stage /\ Timely(i, k)) \/ (i = a.stage /\ k \in a.fired) => k \in a.emitted[i]

\* A kill chain that is being rendered: the stages so far have fired and ended in time.
OnTime(a, h) ==
    /\ a.is_active /\ ~a.is_paused /\ ~a.ended /\ a.stage \in Stages
    /\ Recorded(a)
    /\ InBudget(a.since, a.stage - 1)
    /\ TicksInTime(a, h)

Rendered(a) ==
    /\ a.status = "completed"
    /\ \A i \in Stages :
          /\ a.stages[i] = "completed"
          /\ "mute" \notin scope.env => \A k \in Actions(i) : Timely(i, k) => k \in a.emitted[i]
Renders(a, h, running) == IF a.is_completed THEN Rendered(a) ELSE running /\ OnTime(a, h)

\* No one speaks to a capture, and it does not leave its loop before its kill chain ends.
RenderInv == RoomyCapture => pending = None /\ stop = "no" /\ Renders(attack, heap, Running)

\* The facts that the steps below use.
LEMMA CaptureFact ==
  ASSUME PlainOK, RoomyCapture
  PROVE  /\ scope \in Scope /\ ~Live /\ scope.auto /\ "inject" \notin scope.env
         /\ "command" \notin scope.env /\ "stop" \notin scope.env /\ "fail" \notin scope.env
         /\ injection = None /\ taken = None /\ at # "register"
         /\ scope.interval \in Nat /\ scope.duration \in Nat /\ Len(scope.stages) \in Nat
  <1>1. scope \in Scope
    BY ScopeFact
  <1>2. /\ "inject" \notin scope.env /\ "command" \notin scope.env
        /\ "stop" \notin scope.env /\ "fail" \notin scope.env
    BY DEF RoomyCapture
  <1> QED BY <1>1, <1>2 DEF RoomyCapture, PlainOK, Live, Scope

\* A trigger point that is reached stays reached.
LEMMA ReachedFact ==
  ASSUME scope \in Scope, NEW i \in Stages, StageDuration(i) \in Nat, NEW k \in Actions(i),
         NEW x \in Nat, NEW y \in Nat, x <= y, Reached(i, k, x)
  PROVE  Reached(i, k, y)
  <1> DEFINE n == Len(scope.stages[i].actions)
             z == (k - 1) * Max2(1000, StageDuration(i))
  <1>1. n \in Nat /\ k \in Int
    BY DEF Scope, Stage, Stages, Actions
  <1>2. Max2(1000, StageDuration(i)) \in Nat
    BY DEF Max2
  <1>3. z \in Int
    BY <1>1, <1>2
  <1> HIDE DEF n
  <1>4. x * n <= y * n /\ x * n \in Int /\ y * n \in Int
    BY <1>1, TimesFact
  <1>5. scope.stages[i].actions[k] = "repeat" \/ z <= x * n
    BY DEF Reached, n
  <1> HIDE DEF z
  <1>6. scope.stages[i].actions[k] = "repeat" \/ z <= y * n
    BY <1>3, <1>4, <1>5
  <1> QED BY <1>6 DEF Reached, n, z

\* The timely actions of the stage of a have fired.
AllFired(a) == \A k \in Actions(a.stage) : Timely(a.stage, k) => k \in a.fired

\* An event that is due before the next tick is in the window of the capture, and a stage
\* that is over by then has fired its timely actions.
LEMMA InTimeFact ==
  ASSUME scope \in Scope, ~Live, RoomyCapture, NEW a \in AttackState, NEW h, HeapOK(h), OnTime(a, h),
         NEW t \in Nat, \A e \in BagToSet(h) : t <= e.at
  PROVE  /\ t <= Deadline(a) /\ InBudget(t, a.stage) /\ t <= scope.duration
         /\ Expired(a, t) => AllFired(a)
         /\ ~Expired(a, t) => t + scope.interval <= Deadline(a)
  <1>1. PICK e \in BagToSet(h) : e.at <= Deadline(a) /\ \A k \in Actions(a.stage) : Awaits(a, k, e.at)
    BY DEF OnTime, TicksInTime
  <1>2. e.at \in Nat /\ t <= e.at
    BY <1>1 DEF HeapOK, Event
  <1>3. a.stage \in Stages /\ a.since \in Nat /\ InBudget(a.since, a.stage - 1)
    BY DEF OnTime, AttackState
  <1>4. /\ StageDuration(a.stage) \in Nat /\ StageDuration(a.stage) >= 1000
        /\ scope.interval \in Nat
    <2>1. StageDuration(a.stage) \in Nat /\ StageDuration(a.stage) >= 1000
      BY <1>3, ShareFact
    <2>2. scope.interval \in Nat
      BY DEF Scope
    <2> QED BY <2>1, <2>2
  <1>5. t <= Deadline(a)
    BY <1>1, <1>2, <1>3, <1>4 DEF Deadline
  <1>6. InBudget(t, a.stage)
    BY <1>3, <1>4, <1>5, BudgetStep DEF Deadline
  <1>7. t <= scope.duration
    BY <1>3, <1>6, BudgetEnd
  <1>8. Expired(a, t) <=> t - a.since >= StageDuration(a.stage)
    BY <1>3, <1>4 DEF Expired, Elapsed, Max2
  <1>9. ASSUME Expired(a, t), NEW k \in Actions(a.stage), Timely(a.stage, k) PROVE k \in a.fired
    <2> DEFINE x == Max2(0, StageDuration(a.stage) - scope.interval)
               y == Max2(0, e.at - scope.interval - a.since)
    <2>1. x \in Nat /\ y \in Nat /\ x <= y
      BY <1>2, <1>3, <1>4, <1>8, <1>9 DEF Max2
    <2>2. ~(e.at <= a.since + 1)
      BY <1>2, <1>3, <1>4, <1>8, <1>9
    <2>3. Reached(a.stage, k, x)
      BY <1>9 DEF Timely
    <2> HIDE DEF x, y
    <2>4. Reached(a.stage, k, y)
      BY <1>3, <1>4, <1>9, <2>1, <2>3, ReachedFact
    <2> QED BY <1>1, <1>9, <2>2, <2>4 DEF Awaits, y
  <1>10. ~Expired(a, t) => t + scope.interval <= Deadline(a)
    BY <1>3, <1>4, <1>8 DEF Deadline
  <1> QED BY <1>5, <1>6, <1>7, <1>9, <1>10 DEF AllFired

\* A stage b that begins at t, with the stages before it recorded and in the budget.
Begins(b, t) ==
    /\ b.is_active /\ ~b.is_paused /\ ~b.ended /\ b.stage \in Stages /\ b.fired = {} /\ b.since = t
    /\ Recorded(b)
    /\ InBudget(t, b.stage - 1)
    /\ StageDuration(b.stage) \in Nat /\ StageDuration(b.stage) >= 1000

\* A stage that ends in time, having fired: the next one begins, or the kill chain is
\* rendered.
LEMMA NextStage ==
  ASSUME scope \in Scope, ~Live, RoomyCapture, NEW a \in AttackState, NEW h, OnTime(a, h), Follows(a),
         ~a.is_completed, AllFired(a), NEW t \in Nat, InBudget(t, a.stage), NEW b, b = AdvanceStage(a, t)
  PROVE  /\ b \in AttackState
         /\ b.is_completed => Rendered(b)
         /\ ~b.is_completed => Begins(b, t)
  <1>1. /\ b \in AttackState /\ b.stage = a.stage + 1 /\ b.is_active = a.is_active
        /\ b.is_completed <=> (a.is_completed \/ b.stage \notin Stages)
    BY AdvanceFact
  <1>2. /\ b.is_paused = a.is_paused /\ b.fired = {} /\ b.emitted = a.emitted
        /\ b.stage \in Stages => b.since = t /\ b.ended = a.ended
        /\ b.stage \notin Stages /\ ~a.ended => b.status = "completed"
        /\ b.stage \notin Stages =>
              \A j \in Stages : b.stages[j] = IF j = a.stage THEN "completed" ELSE a.stages[j]
    BY AdvanceKeeps
  <1>3. /\ a.is_active /\ ~a.is_paused /\ ~a.ended /\ a.stage \in Stages /\ Recorded(a)
    BY DEF OnTime
  <1>4. Len(scope.stages) \in Nat /\ a.stage \in Nat /\ \A i \in Stages : i \in Nat /\ i <= Len(scope.stages)
    BY <1>3 DEF Scope, Stages
  <1>5. ASSUME "mute" \notin scope.env, NEW i \in Stages, i < b.stage, NEW k \in Actions(i), Timely(i, k)
        PROVE  k \in b.emitted[i]
    <2>1. i < a.stage \/ i = a.stage
      BY <1>1, <1>4, <1>5
    <2>2. CASE i < a.stage
      BY <1>2, <1>3, <1>5, <2>2 DEF Recorded
    <2>3. CASE i = a.stage
      <3>1. k \in a.fired
        BY <1>5, <2>3 DEF AllFired
      <3> QED BY <1>2, <1>3, <1>5, <2>3, <3>1 DEF Recorded
    <2> QED BY <2>1, <2>2, <2>3
  <1>6. CASE b.stage \notin Stages
    <2>1. a.stage = Len(scope.stages)
      BY <1>1, <1>3, <1>4, <1>6 DEF Stages
    <2>2. \A i \in Stages : i < b.stage /\ (i < a.stage \/ i = a.stage)
      BY <1>1, <1>4, <2>1
    <2>3. \A i \in Stages : b.stages[i] = "completed"
      <3>1. \A i \in Stages : i < a.stage => a.stages[i] = "completed"
        BY <1>3 DEF Follows
      <3> QED BY <1>2, <1>6, <2>2, <3>1
    <2> QED BY <1>1, <1>2, <1>3, <1>5, <1>6, <2>2, <2>3 DEF Rendered
  <1>7. CASE b.stage \in Stages
    <2>1. b.stage - 1 = a.stage
      BY <1>1, <1>4
    <2>2. StageDuration(b.stage) \in Nat /\ StageDuration(b.stage) >= 1000
      BY <1>7, ShareFact
    <2>3. Recorded(b)
      BY <1>2, <1>5 DEF Recorded
    <2> QED BY <1>1, <1>2, <1>3, <1>7, <2>1, <2>2, <2>3 DEF Begins
  <1> QED BY <1>6, <1>7

\* A stage that runs records the actions that are due and has its next tick.
LEMMA RunInTime ==
  ASSUME scope \in Scope, ~Live, NEW a \in AttackState, ~a.is_completed,
         a.is_active, ~a.is_paused, ~a.ended, a.stage \in Stages, Recorded(a),
         InBudget(a.since, a.stage - 1),
         NEW t \in Nat, t + scope.interval <= Deadline(a), NEW h, HeapOK(h),
         NEW p, NEW mute \in Muted, NEW r, r = RunStage(a, t, h, p, mute)
  PROVE  Renders(r.attack, r.heap, TRUE)
  <1> DEFINE d == Due(t + scope.interval, "tick")
             n == Due(t, "packet")
             c == r.attack
             new == Triggers(a, t, p)
  <1>1. t + scope.interval \in Nat /\ scope.interval \in Nat /\ a.since \in Nat
    BY DEF Scope, AttackState
  <1>2. d.at = t + scope.interval /\ d.ev = "tick"
    BY <1>1, DueFact
  <1>3. d = Due(t + scope.interval, "tick") /\ n = Due(t, "packet")
    OBVIOUS
  <1> HIDE DEF d, n
  <1>4. Fires(a, r.attack, Triggers(a, t, p), mute) /\ d \in BagToSet(r.heap)
    BY <1>3, FiresFact
  <1>5. /\ c.is_active /\ ~c.is_paused /\ ~c.ended /\ ~c.is_completed
        /\ c.stage = a.stage /\ c.since = a.since /\ c.fired = a.fired \cup new
        /\ c.emitted = [a.emitted EXCEPT ![a.stage] = @ \cup (new \ mute)]
    BY <1>4 DEF Fires, Kept
  <1>6. new = {k \in Actions(a.stage) \ a.fired : Reached(a.stage, k, Elapsed(a, t))}
    BY DEF Triggers
  <1> HIDE DEF c, new
  <1>7. Deadline(c) = Deadline(a)
    BY <1>5 DEF Deadline
  <1>8. ASSUME NEW k \in Actions(c.stage) PROVE Awaits(c, k, d.at)
    <2>1. Max2(0, d.at - scope.interval - c.since) = Elapsed(a, t)
      BY <1>1, <1>2, <1>5 DEF Elapsed
    <2> QED BY <1>5, <1>6, <2>1 DEF Awaits
  <1>9. TicksInTime(c, r.heap)
    BY <1>2, <1>4, <1>7, <1>8 DEF TicksInTime
  <1>10. Recorded(c)
    <2> SUFFICES ASSUME "mute" \notin scope.env, NEW i \in Stages, NEW k \in Actions(i),
                        (i < a.stage /\ Timely(i, k)) \/ (i = a.stage /\ k \in c.fired)
                 PROVE  k \in c.emitted[i]
      BY <1>5 DEF Recorded
    <2>1. mute = {}
      BY DEF Muted
    <2>2. i \in Int /\ a.stage \in Int /\ a.emitted \in [Stages -> SUBSET AllActions]
      BY DEF Stages, AttackState
    <2>3. CASE i # a.stage
      BY <1>5, <2>2, <2>3 DEF Recorded
    <2>4. CASE i = a.stage
      <3>1. k \in a.fired \/ k \in new
        BY <1>5, <2>2, <2>4
      <3>2. c.emitted[i] = a.emitted[i] \cup new
        BY <1>5, <2>1, <2>2, <2>4
      <3>3. k \in a.fired => k \in a.emitted[i]
        BY <2>4 DEF Recorded
      <3> QED BY <3>1, <3>2, <3>3
    <2> QED BY <2>3, <2>4
  <1>11. OnTime(c, r.heap)
    BY <1>5, <1>9, <1>10 DEF OnTime
  <1> QED BY <1>5, <1>11 DEF Renders, c

\* handle_tick at a time t that comes before every tick on the heap h, on what is left of it.
LEMMA TickInTime ==
  ASSUME scope \in Scope, ~Live, scope.auto, RoomyCapture, attack \in AttackState, Follows(attack),
         NEW h, HeapOK(h), Renders(attack, h, TRUE),
         NEW t \in Nat, \A e \in BagToSet(h) : t <= e.at,
         NEW g, HeapOK(g), NEW p, NEW mute \in Muted, NEW r, r = HandleTick(None, t, g, p, mute)
  PROVE  Renders(r.attack, r.heap, TRUE)
  <1> DEFINE b == AdvanceStage(attack, t)
  <1>1. ProcessCommand(attack, None, t) = attack
    BY DEF ProcessCommand, None
  <1>2. attack.is_completed \in BOOLEAN /\ attack.is_active \in BOOLEAN /\ attack.is_paused \in BOOLEAN
    BY DEF AttackState
  <1>3. \A q : Ends(q, g).attack = q /\ Ends(q, g).heap = g
    BY DEF Ends
  <1>4. CASE attack.is_completed
    <2>1. r = Ends(attack, g)
      BY <1>1, <1>4, Zenon DEF HandleTick
    <2> QED BY <1>3, <1>4, <2>1 DEF Renders
  <1>5. CASE ~attack.is_completed
    <2>1. OnTime(attack, h)
      BY <1>5 DEF Renders
    <2>2. /\ InBudget(t, attack.stage)
          /\ Expired(attack, t) => AllFired(attack)
          /\ ~Expired(attack, t) => t + scope.interval <= Deadline(attack)
      BY <2>1, InTimeFact
    <2>3. attack.is_active /\ ~attack.is_paused /\ attack.stage \in Stages
      BY <2>1 DEF OnTime
    <2>4. r = IF ~Expired(attack, t) THEN RunStage(attack, t, g, p, mute)
              ELSE IF b.is_completed THEN Ends(b, g) ELSE RunStage(b, t, g, p, mute)
      <3> HIDE DEF b
      <3>1. r = CASE attack.is_completed -> Ends(attack, g)
              [] ~attack.is_completed /\ (~attack.is_active \/ attack.is_paused) -> Waits(attack, t, g)
              [] ~attack.is_completed /\ attack.is_active /\ ~attack.is_paused ->
                   IF attack.stage \notin Stages
                   THEN Ends(MarkReportCompleted([attack EXCEPT !.is_completed = TRUE], "completed"), g)
                   ELSE IF ~Expired(attack, t) THEN RunStage(attack, t, g, p, mute)
                   ELSE IF ~scope.auto THEN Waits(attack, t, g)
                   ELSE IF b.is_completed THEN Ends(b, g) ELSE RunStage(b, t, g, p, mute)
        BY <1>1, Zenon DEF HandleTick, b
      <3> QED BY <1>5, <2>3, <3>1, Zenon
    <2>5. CASE ~Expired(attack, t)
      <3>1. r = RunStage(attack, t, g, p, mute)
        BY <2>4, <2>5, Zenon
      <3> QED BY <1>5, <2>1, <2>2, <2>5, <3>1, RunInTime DEF OnTime
    <2>6. CASE Expired(attack, t)
      <3>1. /\ b \in AttackState
            /\ b.is_completed => Rendered(b)
            /\ ~b.is_completed => Begins(b, t)
        BY <1>5, <2>1, <2>2, <2>6, NextStage
      <3>2. r = IF b.is_completed THEN Ends(b, g) ELSE RunStage(b, t, g, p, mute)
        BY <2>4, <2>6, Zenon
      <3> HIDE DEF b
      <3>3. CASE b.is_completed
        BY <1>3, <3>1, <3>2, <3>3 DEF Renders
      <3>4. CASE ~b.is_completed
        <4>1. t + scope.interval <= Deadline(b)
          BY <3>1, <3>4 DEF Deadline, Scope, Begins
        <4>2. InBudget(b.since, b.stage - 1) /\ Recorded(b)
          BY <3>1, <3>4 DEF Begins
        <4>3. r = RunStage(b, t, g, p, mute)
          BY <3>2, <3>4
        <4>4. b \in AttackState /\ b.is_active /\ ~b.is_paused /\ ~b.ended /\ b.stage \in Stages
          BY <3>1, <3>4 DEF Begins
        <4> QED BY <3>4, <4>1, <4>2, <4>3, <4>4, RunInTime
      <3> QED BY <3>3, <3>4
    <2> QED BY <2>5, <2>6
  <1> QED BY <1>4, <1>5

\* The virtual clock of a capture is not set back.
LEMMA NotRebased ==
  ASSUME ~Live, NEW g, HeapOK(g), NEW t
  PROVE  BagToSet(Rebase(g, Shift(t))) = BagToSet(g)
  <1>1. Shift(t) = 0
    BY Zenon DEF Shift
  <1>2. \A e \in BagToSet(g) : e.at >= 0 /\ Due(e.at - 0, e.ev) = e
    BY DEF HeapOK, Event, Due
  <1>3. BagToSet(Rebase(g, 0)) = {Due(e.at - 0, e.ev) : e \in BagToSet(g)}
    BY <1>2, RebaseFact
  <1> QED BY <1>1, <1>2, <1>3

\* What is being rendered goes on with every heap that has the same ticks or more.
LEMMA RendersOn ==
  ASSUME NEW a, NEW h, NEW g, NEW run, Renders(a, h, run), NEW more, run => more,
         \A e \in BagToSet(h) : e.ev = "tick" => e \in BagToSet(g)
  PROVE  Renders(a, g, more)
  BY Zenon DEF Renders, OnTime, TicksInTime

LEMMA RenderInit ==
  ASSUME Init, PlainOK
  PROVE  RenderInv
  <1> SUFFICES ASSUME RoomyCapture
               PROVE  pending = None /\ stop = "no" /\ Renders(attack, heap, Running)
    BY DEF RenderInv
  <1>1. scope \in Scope /\ ~Live /\ scope.start = "with_deployment" /\ Len(scope.stages) \in Nat
    BY CaptureFact DEF RoomyCapture
  <1>2. PICK d \in scope.poll :
             /\ attack = Register(scope.start, FirstEvents(d)).attack
             /\ heap = Register(scope.start, FirstEvents(d)).heap
    BY <1>1 DEF Init
  <1> DEFINE k == ClockStart(Created, Warmup)
             p == [k EXCEPT !.is_active = TRUE]
             m == MarkStage(p, p.stage, "in_progress")
             w == Due(Warmup, "tick")
  <1>3. /\ attack = MarkReportStarted(p) /\ heap = schedule(FirstEvents(d), w)
    BY <1>1, <1>2 DEF Register, InitialAttack
  <1>4. Warmup \in Nat /\ w \in Event /\ w.at = Warmup /\ w.ev = "tick"
    BY <1>1, WarmupFact, DueFact
  <1>5. Created \in AttackState /\ Created.stage = 1
        /\ ~Created.is_completed /\ ~Created.is_paused /\ ~Created.ended /\ Created.fired = {}
    BY <1>1, NoAttackFact DEF Created, NoAttack
  <1>6. k \in AttackState /\ Kept(Created, k) /\ k.ended = Created.ended /\ k.since = Warmup /\ k.fired = Created.fired
    BY <1>1, <1>4, <1>5, ClockStartFact DEF ClockStart, AttackState
  <1> HIDE DEF k
  <1>7. /\ p \in AttackState /\ p.is_active /\ p.stage = 1 /\ ~p.is_completed /\ ~p.is_paused
        /\ ~p.ended /\ p.fired = {} /\ p.since = Warmup
    BY <1>5, <1>6 DEF AttackState, Kept
  <1> HIDE DEF p
  <1>8. m \in AttackState /\ Kept(p, m) /\ m.ended = p.ended /\ Unmarked(p, m)
    <2>1. "in_progress" \in StageStatus /\ p.stage \in Nat
      BY <1>7 DEF StageStatus
    <2> QED BY <1>7, <2>1, MarkStageFact, MarkStageKeeps
  <1>9. attack = [m EXCEPT !.status = "in_progress"]
    BY <1>3 DEF MarkReportStarted
  <1> HIDE DEF m
  <1>10. /\ attack \in AttackState /\ attack.is_active /\ attack.stage = 1 /\ ~attack.is_completed /\ ~attack.is_paused
         /\ ~attack.ended /\ attack.fired = {} /\ attack.since = Warmup
    BY <1>7, <1>8, <1>9 DEF AttackState, Kept, Unmarked
  <1>11. w \in BagToSet(heap)
    <2>1. HeapOK(FirstEvents(d))
      <3> DEFINE x == Due(0, "packet")
                 y == Due(d, "poll")
                 h == SetToBag({x})
      <3>1. x \in Event /\ y \in Event
        BY <1>1, DueFact DEF Scope
      <3> HIDE DEF x, y
      <3>2. HeapOK(h)
        BY <3>1 DEF HeapOK, IsABag, BagToSet, SetToBag
      <3> HIDE DEF h
      <3>3. HeapOK(schedule(h, y))
        BY <3>1, <3>2, ScheduleFact
      <3> QED BY <3>3 DEF FirstEvents, h, x, y
    <2> HIDE DEF w
    <2> QED BY <1>3, <1>4, <2>1, ScheduleFact
  <1>12. 1 \in Stages /\ \A i \in Stages : ~(i < 1)
    BY <1>1 DEF RoomyCapture, Stages
  <1>13. /\ StageDuration(1) \in Nat /\ StageDuration(1) >= 1000
         /\ Share \in Nat /\ Whole \in Nat /\ scope.interval \in Nat
    BY <1>1, <1>12, ShareFact, CaptureFact
  <1> HIDE DEF w
  <1>14. TicksInTime(attack, heap)
    <2>1. w.at <= Deadline(attack) /\ w.at <= attack.since + 1
      BY <1>4, <1>10, <1>13 DEF Deadline
    <2> QED BY <1>4, <1>11, <2>1 DEF TicksInTime, Awaits
  <1>15. InBudget(attack.since, attack.stage - 1)
    <2>1. attack.stage - 1 = 0 /\ PlannedUpTo[0] = 0
      BY <1>1, <1>10, PlannedUpToFact
    <2>2. (Warmup - Warmup - 0 * scope.interval) * Share = 0 /\ 0 * Whole = 0
      BY <1>4, <1>13
    <2>3. /\ (attack.since - Warmup - (attack.stage - 1) * scope.interval) * Share = 0
          /\ PlannedUpTo[attack.stage - 1] * Whole = 0
      BY <1>10, <2>1, <2>2
    <2> QED BY <2>3 DEF InBudget
  <1>16. OnTime(attack, heap)
    BY <1>10, <1>12, <1>14, <1>15 DEF OnTime, Recorded
  <1>17. pending = None /\ stop = "no" /\ Running
    BY DEF Init, Running
  <1> QED BY <1>10, <1>16, <1>17 DEF Renders

\* The deployment does not change, and nothing that is computed from it.
LEMMA SameRoom ==
  ASSUME scope' = scope
  PROVE  /\ RoomyCapture' <=> RoomyCapture
         /\ Renders(attack', heap', Running') => Renders(attack, heap, Running)'
  <1>1. PlannedUpTo' = PlannedUpTo /\ Stages' = Stages /\ Warmup' = Warmup
    <2>1. PlannedUpTo' = PlannedUpTo
      BY DEF PlannedUpTo, PlannedStage
    <2> QED BY <2>1 DEF Stages, Warmup, Live
  <1>2. Planned' = Planned /\ Available' = Available
    BY <1>1 DEF Planned, Available
  <1>3. Usable' = Usable
    BY <1>2 DEF Usable, Margin
  <1>4. \A i : Scaled(i)' = Scaled(i) /\ StageDuration(i)' = StageDuration(i)
    BY <1>2, <1>3 DEF Scaled, PlannedStage, StageDuration
  <1>5. Share' = Share /\ Whole' = Whole
    BY <1>2, <1>3 DEF Share, Whole
  <1>6. RoomyCapture' <=> RoomyCapture
    BY <1>1, <1>2, <1>4 DEF RoomyCapture, Roomy
  <1>7. Deadline(attack)' = Deadline(attack')
    BY <1>4 DEF Deadline
  <1>r. /\ \A i : Actions(i)' = Actions(i)
        /\ \A i, k, x : Reached(i, k, x)' <=> Reached(i, k, x)
        /\ \A i, k : Timely(i, k)' <=> Timely(i, k)
    BY <1>4 DEF Actions, Reached, Timely
  <1>8. TicksInTime(attack', heap') => TicksInTime(attack, heap)'
    <2>1. ASSUME NEW k, NEW u, Awaits(attack', k, u) PROVE Awaits(attack, k, u)'
      BY <1>r, <2>1 DEF Awaits
    <2> QED BY <1>7, <1>r, <2>1 DEF TicksInTime
  <1>e. Recorded(attack') => Recorded(attack)'
    BY <1>1, <1>r DEF Recorded
  <1>9. OnTime(attack', heap') => OnTime(attack, heap)'
    BY <1>1, <1>5, <1>8, <1>e DEF OnTime, InBudget
  <1>10. Renders(attack', heap', Running') => Renders(attack, heap, Running)'
    BY <1>1, <1>9, <1>r DEF Renders, Rendered
  <1> QED BY <1>6, <1>10

\* Every step of a capture keeps its kill chain on time.
LEMMA RenderNext ==
  ASSUME ThreadInv, Next, RoomyCapture, RenderInv
  PROVE  pending' = None /\ stop' = "no" /\ Renders(attack', heap', Running')
  <1>1. PlainOK /\ Good(attack, heap, now, pending, sent, Running)
    BY InvIsGood
  <1>2. /\ scope \in Scope /\ ~Live /\ scope.auto /\ "inject" \notin scope.env
        /\ "command" \notin scope.env /\ "stop" \notin scope.env /\ "fail" \notin scope.env
        /\ injection = None /\ taken = None /\ at # "register"
    BY <1>1, CaptureFact
  <1>3. /\ attack \in AttackState /\ HeapOK(heap) /\ now \in Nat /\ Follows(attack)
        /\ \A e \in BagToSet(heap) : now <= e.at
    BY <1>1, <1>2 DEF Good
  <1>4. pending = None /\ stop = "no" /\ Renders(attack, heap, Running)
    BY DEF RenderInv
  <1>5. attack.is_completed \in BOOLEAN
    BY <1>3 DEF AttackState
  <1>6. ~attack.is_completed => Running /\ OnTime(attack, heap) /\ \E e \in BagToSet(heap) : e.ev = "tick"
    BY <1>4 DEF Renders, OnTime, TicksInTime
  <1>7. ASSUME attack.is_completed, UNCHANGED <<attack, pending, stop>>
        PROVE  pending' = None /\ stop' = "no" /\ Renders(attack', heap', Running')
    BY <1>4, <1>7 DEF Renders
  <1>8. CASE NoEvents
    <2>1. BagToSet(heap) = {} /\ UNCHANGED <<attack, pending, stop>>
      BY <1>8 DEF NoEvents, EmptyBag, SetToBag, BagToSet, outside
    <2> QED BY <1>6, <1>7, <2>1
  <1>9. CASE TakeInjection \/ AttachInjection \/ RefuseInjection \/ StopReceived
    BY <1>2, <1>4, <1>9 DEF TakeInjection, AttachInjection, RefuseInjection, StopReceived
  <1>10. CASE CheckWallTime
    <2>1. UNCHANGED <<pending, stop>> /\ Running' 
      BY <1>10 DEF CheckWallTime, outside, Running
    <2>2. CASE ~Advances
      <3>1. UNCHANGED <<attack, heap>>
        BY <1>10, <2>2 DEF CheckWallTime
      <3> QED BY <1>4, <2>1, <3>1, RendersOn
    <2>3. CASE Advances
      <3> DEFINE b == AdvanceStage(attack, now)
                 d == Due(now + 1, "tick")
      <3>1. attack' = b /\ heap' = IF b.is_completed THEN heap ELSE schedule(heap, d)
        BY <1>10, <2>3 DEF CheckWallTime
      <3>2. ~attack.is_completed /\ Expired(attack, now)
        BY <2>3 DEF Advances
      <3>3. OnTime(attack, heap)
        BY <1>6, <3>2
      <3>4. InBudget(now, attack.stage) /\ AllFired(attack)
        BY <1>2, <1>3, <3>2, <3>3, InTimeFact
      <3>5. /\ b \in AttackState
            /\ b.is_completed => Rendered(b)
            /\ ~b.is_completed => Begins(b, now)
        BY <1>2, <1>3, <3>2, <3>3, <3>4, NextStage
      <3>6. d \in Event /\ d.at = now + 1 /\ d.ev = "tick"
        BY <1>3, DueFact
      <3> HIDE DEF b, d
      <3>7. CASE b.is_completed
        BY <1>4, <2>1, <3>1, <3>5, <3>7 DEF Renders
      <3>8. CASE ~b.is_completed
        <4>1. d \in BagToSet(heap')
          BY <1>3, <3>1, <3>6, <3>8, ScheduleFact
        <4>2. d.at <= Deadline(b) /\ d.at <= b.since + 1
          BY <1>2, <1>3, <3>5, <3>6, <3>8 DEF Deadline, Scope, Begins
        <4>3. TicksInTime(b, heap')
          BY <3>6, <4>1, <4>2 DEF TicksInTime, Awaits
        <4>4. OnTime(b, heap')
          BY <3>5, <3>8, <4>3 DEF OnTime, Begins
        <4> QED BY <1>4, <2>1, <3>1, <3>8, <4>4 DEF Renders
      <3> QED BY <3>7, <3>8
    <2> QED BY <2>2, <2>3
  <1>11. ASSUME NEW e \in Events,
                \/ DurationReached(e) \/ WritePacket(e) \/ HandlePoll(e) \/ HandleAttackTick(e)
                \/ Drain(e) \/ DrainFails(e)
         PROVE  pending' = None /\ stop' = "no" /\ Renders(attack', heap', Running')
    <2>1. e \in Earliest(heap)
      BY <1>11 DEF DurationReached, WritePacket, HandlePoll, HandleAttackTick, Drain, DrainFails, Dispatch, Pop
    <2>2. /\ e \in BagToSet(heap) /\ e.at \in Nat /\ HeapOK(Left(e))
          /\ \A x \in BagToSet(heap) : e.at <= x.at
      BY <1>3, <2>1, LeftFact DEF Earliest
    <2>3. \A x \in BagToSet(heap) : x \in BagToSet(Left(e)) \/ x = e
      BY <1>3, <2>2, RemoveFact DEF Left
    <2>4. CASE DurationReached(e)
      <3>1. UNCHANGED <<attack, pending, stop>> /\ ~(e.at <= scope.duration)
        BY <1>2, <2>4 DEF DurationReached, InTime, outside
      <3>2. ~attack.is_completed => e.at <= scope.duration
        BY <1>2, <1>3, <1>6, <2>2, InTimeFact
      <3> QED BY <1>7, <3>1, <3>2
    <2>5. CASE Drain(e) \/ DrainFails(e)
      <3>1. UNCHANGED <<attack, pending, stop>> /\ ~Running
        BY <2>5 DEF Drain, DrainFails, outside, Running
      <3> QED BY <1>6, <1>7, <3>1
    <2>6. CASE WritePacket(e)
      <3>1. UNCHANGED <<attack, pending, stop>> /\ Running' /\ heap' = Rebase(Left(e), Shift(e.at)) /\ e.ev = "packet"
        BY <2>6 DEF WritePacket, outside, Running, Heap
      <3>2. BagToSet(heap') = BagToSet(Left(e))
        BY <1>2, <2>2, <3>1, NotRebased
      <3>3. \A x \in BagToSet(heap) : x.ev = "tick" => x \in BagToSet(heap')
        BY <2>3, <3>1, <3>2
      <3>4. Renders(attack, heap', Running')
        BY <1>4, <3>1, <3>3, RendersOn
      <3> QED BY <1>4, <3>1, <3>4
    <2>7. CASE HandlePoll(e)
      <3>1. /\ UNCHANGED <<attack, pending, stop>> /\ Running' /\ e.ev = "poll"
            /\ \E d \in scope.poll :
                  LET cycle == schedule(Left(e), Due(e.at, "packet"))
                  IN  heap' = Rebase(IF Live \/ e.at + d < scope.duration
                                     THEN schedule(cycle, Due(e.at + d, "poll")) ELSE cycle, Shift(e.at))
        BY <2>7 DEF HandlePoll, outside, Running, Heap
      <3> DEFINE p == Due(e.at, "packet")
                 c == schedule(Left(e), p)
      <3>2. PICK d \in scope.poll :
                 heap' = Rebase(IF Live \/ e.at + d < scope.duration
                                THEN schedule(c, Due(e.at + d, "poll")) ELSE c, Shift(e.at))
        BY <3>1
      <3> DEFINE q == Due(e.at + d, "poll")
                 n == schedule(c, q)
      <3>3. p \in Event /\ q \in Event
        <4>1. e.at + d \in Nat
          BY <1>2, <2>2 DEF Scope
        <4> QED BY <2>2, <4>1, DueFact
      <3> HIDE DEF p, q
      <3>4. HeapOK(c) /\ BagToSet(Left(e)) \subseteq BagToSet(c)
        BY <2>2, <3>3, ScheduleFact
      <3> HIDE DEF c
      <3>5. HeapOK(n) /\ BagToSet(c) \subseteq BagToSet(n)
        BY <3>3, <3>4, ScheduleFact
      <3>6. PICK g \in {c, n} : heap' = Rebase(g, Shift(e.at))
        BY <3>2 DEF n, q
      <3> HIDE DEF n
      <3>7. BagToSet(heap') = BagToSet(g)
        BY <1>2, <3>4, <3>5, <3>6, NotRebased
      <3>8. \A x \in BagToSet(heap) : x.ev = "tick" => x \in BagToSet(heap')
        BY <2>3, <3>1, <3>4, <3>5, <3>6, <3>7
      <3>9. Renders(attack, heap', Running')
        BY <1>4, <3>1, <3>8, RendersOn
      <3> QED BY <1>4, <3>1, <3>9
    <2>8. CASE HandleAttackTick(e)
      <3>0. PICK p \in Progress, mute \in Muted :
                 LET r == HandleTick(pending, e.at, Left(e), p, mute)
                 IN  attack' = r.attack /\ heap' = Rebase(r.heap, Shift(e.at))
        BY <2>8 DEF HandleAttackTick, Heap
      <3> DEFINE r == HandleTick(pending, e.at, Left(e), p, mute)
      <3>1. /\ attack' = r.attack /\ heap' = Rebase(r.heap, Shift(e.at)) /\ pending' = None /\ stop' = stop
            /\ Running' /\ Running
        BY <2>8, <3>0 DEF HandleAttackTick, Running, Dispatch
      <3>2. Scheduled(r.attack, Left(e), r.heap, e.at)
        BY <1>2, <1>3, <2>2, TickFact
      <3>3. Renders(attack, heap, TRUE)
        BY <1>4 DEF Renders
      <3>4. Renders(r.attack, r.heap, TRUE)
        BY <1>2, <1>3, <1>4, <2>2, <3>3, TickInTime
      <3> HIDE DEF r
      <3>5. BagToSet(heap') = BagToSet(r.heap)
        BY <1>2, <3>1, <3>2, NotRebased DEF Scheduled
      <3>6. Renders(attack', heap', Running')
        BY <3>1, <3>4, <3>5, RendersOn
      <3> QED BY <1>4, <3>1, <3>6
    <2> QED BY <1>11, <2>4, <2>5, <2>6, <2>7, <2>8
  <1>12. CASE BeginShutdown \/ Complete
    <2>1. UNCHANGED <<attack, pending, stop>> /\ ~Running
      BY <1>12 DEF BeginShutdown, Complete, outside, Running
    <2> QED BY <1>6, <1>7, <2>1
  <1>13. CASE \/ \E c \in Commands : SendCommand(c)
              \/ \E m \in Modes : InjectAttack(m)
              \/ StopAttack \/ SetStopEvent \/ StageExpires
    BY <1>2, <1>4, <1>13 DEF SendCommand, InjectAttack, StopAttack, SetStopEvent, StageExpires
  <1>f. ~ShutdownFails /\ \A e \in Events : ~PollFails(e) /\ ~TickFails(e)
    BY <1>2 DEF ShutdownFails, PollFails, TickFails
  <1>14. CASE Ended
    <2>1. UNCHANGED <<attack, heap, pending, stop>> /\ Running' = Running
      BY <1>14 DEF Ended, vars, Running
    <2> QED BY <1>4, <2>1
  <1> QED BY <1>8, <1>9, <1>10, <1>11, <1>12, <1>13, <1>14, <1>f, Zenon DEF Next, Thread

LEMMA RenderInvariant == Spec => [](ThreadInv /\ RenderInv)
  <1>1. Init => ThreadInv /\ RenderInv
    BY InitInv, RenderInit DEF ThreadInv
  <1>2. ThreadInv /\ RenderInv /\ [Next]_vars => (ThreadInv /\ RenderInv)'
    <2> SUFFICES ASSUME ThreadInv, RenderInv, [Next]_vars PROVE (ThreadInv /\ RenderInv)'
      OBVIOUS
    <2>1. ThreadInv'
      BY NextInv
    <2>2. scope' = scope
      BY PlainStep DEF ThreadInv, vars
    <2>3. ASSUME RoomyCapture
          PROVE  pending' = None /\ stop' = "no" /\ Renders(attack', heap', Running')
      <3>1. CASE Next
        BY <2>3, <3>1, RenderNext
      <3>2. CASE UNCHANGED vars
        <4>1. UNCHANGED <<attack, heap, pending, stop>> /\ Running' = Running
          BY <3>2 DEF vars, Running
        <4>2. pending = None /\ stop = "no" /\ Renders(attack, heap, Running)
          BY <2>3 DEF RenderInv
        <4> QED BY <4>1, <4>2
      <3> QED BY <3>1, <3>2
    <2>4. RenderInv'
      BY <2>2, <2>3, SameRoom DEF RenderInv, None
    <2> QED BY <2>1, <2>4
  <1> QED BY <1>1, <1>2, PTL DEF Spec

-----------------------------------------------------------------------------
(* The theorems *)

\* The state of a scenario's thread has its type, and however stages expire and commands
\* come, the attack never passes its last stage by more than the commands sent to it.
THEOREM ThreadTypeOK == Spec => []TypeOK
  <1>1. ThreadInv => TypeOK
    <2> SUFFICES ASSUME ThreadInv PROVE TypeOK
      OBVIOUS
    <2>1. PlainOK /\ Good(attack, heap, now, pending, sent, Running)
      BY InvIsGood
    <2>2. Len(scope.stages) \in Nat /\ MaxCommands \in Nat
      BY <2>1, ScopeFact, ThreadAssumption
    <2>3. /\ attack.stage \in Nat \ {0} /\ attack.stages \in [Stages -> StageStatus]
          /\ attack.status \in {"in_progress", "completed", "stopped"} 
          /\ attack.fired \subseteq AllActions /\ attack.emitted \in [Stages -> SUBSET AllActions]
      BY <2>1 DEF Good, AttackState
    <2>4. attack.stage \in 1 .. Len(scope.stages) + MaxCommands + 1
      BY <2>1, <2>2, <2>3 DEF Good
    <2>5. now \in Nat /\ IsABag(heap) /\ Events \subseteq Event
      BY <2>1 DEF Good, HeapOK, Events
    <2> QED BY <2>1, <2>3, <2>4, <2>5 DEF TypeOK, PlainOK, StageStatus
  <1> QED BY <1>1, ThreadInvariant, PTL

\* The chain of ticks never breaks: handle_tick, check_wall_time_advancement and
\* register_attack_orchestrator leave an attack that runs with a tick on the heap, for any
\* deployments, commands and injections.
THEOREM ThreadActiveIsTicked == Spec => []ActiveIsTicked
  <1>1. ThreadInv => ActiveIsTicked
    BY DEF ThreadInv
  <1> QED BY <1>1, ThreadInvariant, PTL

\* The virtual clock of run() never runs backwards where no attack is injected.
THEOREM ThreadClockForward == Spec => ClockForward
  <1>1. ThreadInv /\ [Next]_vars => [now' >= now \/ "inject" \in scope.env]_vars
    BY NextInv
  <1> QED BY <1>1, ThreadInvariant, PTL DEF Spec, ClockForward

\* Where no attack is injected, the report of the kill chain follows the attack through
\* any commands: _mark_report_started never finds stages of an earlier run that are open.
THEOREM ThreadReportFollows == Spec => []ReportFollows
  <1>1. ThreadInv => ReportFollows
    BY DEF ThreadInv, ReportOK, Follows, ReportFollows
  <1> QED BY <1>1, ThreadInvariant, PTL

\* A capture with room for its kill chain renders it to its end, for any number of stages
\* and actions, any durations and intensity: _apply_time_compression and the margin that it
\* holds back make every stage end before run() leaves its loop at the end of the window, and
\* _generate_stage_packets has recorded by then every action whose trigger point is a tick
\* away from the end of its stage.
THEOREM ThreadKillChainRenders == Spec => []KillChainRenders
  <1>1. ThreadInv /\ RenderInv => KillChainRenders
    BY DEF RenderInv, Renders, Rendered, Running, KillChainRenders
  <1> QED BY <1>1, RenderInvariant, PTL
=============================================================================
