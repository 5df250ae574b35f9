------------------------ MODULE OrchestratorPoolProofs ------------------------
(***************************************************************************)
(* Proofs about OrchestratorPool, for any set of scenarios, any number of  *)
(* contexts and any backlog of the status queue.                           *)
(***************************************************************************)
EXTENDS OrchestratorPool, TLAPS, SequenceTheorems

\* The scenario of contexts that do not exist yet is one.
LEMMA AnyScenarioIsScenario == AnyScenario \in Scenarios
  BY ScenariosAssumption DEF AnyScenario

\* Context numbers, and the next one.
LEMMA ContextFacts ==
  /\ Contexts \subseteq Nat
  /\ NoContext \notin Contexts
  /\ created \in 0..MaxContexts /\ created < MaxContexts
       => created + 1 \in Contexts /\ created + 1 \in 0..MaxContexts
  BY BoundsAssumption DEF Contexts, NoContext

\* The inductive invariant.
IInv == TypeOK /\ ContextInv /\ NoOrphanGenerator

\* An empty pool.
LEMMA PoolInit == Init => IInv
  <1> SUFFICES ASSUME Init PROVE IInv
    OBVIOUS
  <1>1. TypeOK
    BY AnyScenarioIsScenario, BoundsAssumption
    DEF Init, TypeOK, Idle, LoopState, ScenarioState, ThreadPoint, NoContext
  <1>2. ContextInv
    BY DEF Init, ContextInv, Idle, LoopFree, Active, Dead
  <1>3. NoOrphanGenerator
    BY DEF Init, NoOrphanGenerator, Live
  <1> QED BY <1>1, <1>2, <1>3 DEF IInv

\* A step that creates a context, seen from the pool's variables.
LEMMA NewContextInv ==
  ASSUME IInv, NEW s \in Scenarios, NewContext(s), ~IsActive(s),
         loop' \in LoopState, (~LoopFree)' => FALSE,
         UNCHANGED <<status_queue, reported>>
  PROVE  IInv'
  <1> DEFINE n == created + 1
  <1>1. n \in Contexts /\ n \in 0..MaxContexts /\ created \in Nat
    BY ContextFacts, BoundsAssumption DEF IInv, TypeOK, NewContext
  <1>2. TypeOK'
    BY <1>1 DEF IInv, TypeOK, NewContext, ThreadPoint, Live, Dead
  <1>3. thread[n] = "none" /\ state[n] = "starting" /\ ~stop_event[n]
    BY <1>1, ContextFacts DEF IInv, ContextInv
  <1>4. ContextInv'
    <2> USE DEF IInv, TypeOK, NewContext
    <2>1. \A r \in Scenarios : scenarios'[r] # NoContext =>
             scenarios'[r] <= created' /\ sid'[scenarios'[r]] = r
      <3> SUFFICES ASSUME NEW r \in Scenarios, scenarios'[r] # NoContext
                   PROVE scenarios'[r] <= created' /\ sid'[scenarios'[r]] = r
        OBVIOUS
      <3>1. CASE r = s
        BY <1>1, <3>1
      <3>2. CASE r # s
        <4>1. scenarios'[r] = scenarios[r] /\ scenarios[r] \in Contexts
          BY <3>2
        <4>2. scenarios[r] <= created /\ sid[scenarios[r]] = r
          BY <4>1 DEF ContextInv
        <4>3. scenarios[r] # n /\ scenarios[r] <= created'
          <5>1. scenarios[r] \in Nat /\ created' = created + 1
            BY <4>1, ContextFacts
          <5> HIDE DEF IInv, TypeOK, NewContext
          <5> QED BY <5>1, <4>2, <1>1
        <4> QED BY <4>1, <4>2, <4>3, <1>1
      <3> QED BY <3>1, <3>2
    <2>2. \A c \in Contexts : c > created' =>
             thread'[c] = "none" /\ state'[c] = "starting" /\ ~stop_event'[c]
      <3> SUFFICES ASSUME NEW c \in Contexts, c > created'
                   PROVE thread'[c] = "none" /\ state'[c] = "starting" /\ ~stop_event'[c]
        OBVIOUS
      <3>1. c > created /\ c # n
        BY <1>1, ContextFacts
      <3> QED BY <1>1, <3>1 DEF ContextInv
    <2>3. \A c \in Contexts : state'[c] = "stopping" => stop_event'[c]
      BY DEF ContextInv
    <2>4. \A c \in Contexts : state'[c] \in {"stopped", "error"} => thread'[c] \in {"say_final"} \cup Dead
      BY <1>1, <1>3 DEF ContextInv
    <2>5. \A c \in Contexts : thread'[c] \in {"say_final", "finished"} => state'[c] \notin Active
      BY <1>1, <1>3 DEF ContextInv
    <2>6. LoopFree'
      OBVIOUS
    <2>7. loop'.at \notin {"stop_state", "stop_notify"}
      BY <2>6 DEF LoopFree
    <2> QED BY <2>1, <2>2, <2>3, <2>4, <2>5, <2>6, <2>7 DEF ContextInv
  <1>5. NoOrphanGenerator'
    <2> SUFFICES ASSUME NEW c \in Contexts, thread'[c] \in Live, scenarios'[sid'[c]] # c
                 PROVE stop_event'[c]
      BY DEF NoOrphanGenerator
    <2> USE DEF IInv, TypeOK, NewContext
    <2>1. c # n
      BY <1>1
    <2>2. thread[c] \in Live /\ sid[c] = sid'[c] /\ sid[c] \in Scenarios /\ stop_event'[c] = stop_event[c]
      BY <2>1, <1>1
    <2>3. CASE scenarios[sid[c]] # c
      BY <2>2, <2>3 DEF NoOrphanGenerator
    <2>4. CASE scenarios[sid[c]] = c
      <3>1. sid[c] = s
        BY <2>2, <2>4
      <3>2. state[c] \in {"stopping", "stopped", "error"}
        BY <3>1, <2>4, ContextFacts DEF IsActive, Active, ScenarioState
      <3>3. state[c] = "stopping"
        BY <3>2, <2>2 DEF ContextInv, Live, Dead
      <3> QED BY <3>3, <2>2 DEF ContextInv
    <2> QED BY <2>3, <2>4
  <1> QED BY <1>2, <1>4, <1>5 DEF IInv

\* A notification keeps the type of the queue.
LEMMA NotifyType ==
  ASSUME TypeOK, NEW c \in Contexts, Notify(c)
  PROVE  status_queue' \in [Scenarios -> Seq(ScenarioState)]
  BY DEF TypeOK, Notify

\* A scenario thread writes its state and moves on: to "running" on its way into
\* orchestrator.run, or to a final state on its way out.
LEMMA WriteAndMove ==
  ASSUME IInv, NEW c \in Contexts, thread[c] \in Live,
         NEW st, NEW pt,
         \/ st = "running" /\ pt = "say_running"
         \/ st \in {"stopped", "error"} /\ pt = "say_final",
         state' = [state EXCEPT ![c] = st],
         thread' = [thread EXCEPT ![c] = pt],
         UNCHANGED <<scenarios, created, sid, stop_event, loop, status_queue, reported>>
  PROVE  IInv'
  <1> USE DEF IInv
  <1>1. TypeOK'
    BY DEF TypeOK, ScenarioState, ThreadPoint, Live, Dead
  <1>2. ContextInv'
    <2> USE DEF TypeOK
    <2>1. \A d \in Contexts : d > created' =>
             thread'[d] = "none" /\ state'[d] = "starting" /\ ~stop_event'[d]
      BY DEF ContextInv, Live
    <2>2. \A d \in Contexts : state'[d] = "stopping" => stop_event'[d]
      BY DEF ContextInv
    <2>3. ASSUME NEW d \in Contexts
          PROVE /\ state'[d] \in {"stopped", "error"} => thread'[d] \in {"say_final"} \cup Dead
                /\ thread'[d] \in {"say_final", "finished"} => state'[d] \notin Active
      <3>1. CASE d = c
        BY <3>1 DEF Active
      <3>2. CASE d # c
        BY <3>2 DEF ContextInv
      <3> QED BY <3>1, <3>2
    <2> QED BY <2>1, <2>2, <2>3 DEF ContextInv, LoopFree
  <1>3. NoOrphanGenerator'
    BY DEF TypeOK, NoOrphanGenerator, Live
  <1> QED BY <1>1, <1>2, <1>3

\* Every action of the event loop and of the threads preserves it.
LEMMA PoolNext == IInv /\ [Next]_vars => IInv'
  <1> SUFFICES ASSUME IInv, [Next]_vars PROVE IInv'
    OBVIOUS
  <1> USE DEF IInv
  <1>1. ASSUME NEW s \in Scenarios, StartScenario(s) PROVE IInv'
    <2>1. loop' \in LoopState /\ LoopFree'
      BY <1>1 DEF StartScenario, TypeOK, LoopFree
    <2> QED BY <1>1, <2>1, NewContextInv DEF StartScenario
  <1>2. ASSUME NEW s \in Scenarios, StartRefused(s) PROVE IInv'
    BY <1>2 DEF StartRefused, ctxVars, ScenarioState, TypeOK, ContextInv, NoOrphanGenerator, LoopFree
  <1>3. ASSUME NEW s \in Scenarios, NEW then \in {"idle", "sleep"}, StopCheck(s, then)
        PROVE IInv'
    <2>1. loop' \in LoopState
      BY <1>3 DEF TypeOK, StopCheck, LoopState, Sleeping, IsActive, NoContext
    <2>2. TypeOK'
      BY <1>3, <2>1 DEF TypeOK, StopCheck, ctxVars
    <2>3. (~LoopFree)' => loop'.ctx \in Contexts /\ loop'.ctx <= created'
      BY <1>3 DEF TypeOK, ContextInv, StopCheck, Sleeping, IsActive, NoContext, LoopFree
    <2>4. loop'.at \notin {"stop_state", "stop_notify"}
      BY <1>3 DEF StopCheck, Sleeping
    <2> QED BY <1>3, <2>2, <2>3, <2>4 DEF StopCheck, ctxVars, ContextInv, NoOrphanGenerator
  <1>4. CASE StopSetEvent
    <2>1. loop.ctx \in Contexts /\ loop.ctx <= created
      BY <1>4 DEF StopSetEvent, ContextInv, LoopFree
    <2>2. loop' \in LoopState /\ loop'.ctx = loop.ctx /\ loop'.at = "stop_state"
      BY <1>4 DEF StopSetEvent, TypeOK, LoopState
    <2> QED BY <1>4, <2>1, <2>2, ContextFacts
            DEF StopSetEvent, TypeOK, ContextInv, NoOrphanGenerator, LoopFree
  <1>5. CASE StopSetState
    <2>1. loop.ctx \in Contexts /\ loop.ctx <= created /\ stop_event[loop.ctx]
      BY <1>5 DEF StopSetState, ContextInv, LoopFree
    <2>2. loop' \in LoopState /\ loop'.ctx = loop.ctx /\ loop'.at = "stop_notify"
      BY <1>5 DEF StopSetState, TypeOK, LoopState
    <2> QED BY <1>5, <2>1, <2>2, ContextFacts
            DEF StopSetState, TypeOK, ContextInv, NoOrphanGenerator, LoopFree, ScenarioState, Active
  <1>6. CASE StopNotify
    <2>1. loop.ctx \in Contexts
      BY <1>6 DEF StopNotify, ContextInv, LoopFree
    <2>2. status_queue' \in [Scenarios -> Seq(ScenarioState)]
      BY <1>6, <2>1, NotifyType DEF StopNotify
    <2>3. loop' \in LoopState /\ loop'.at \in {"idle", "sleep"}
      BY <1>6, AnyScenarioIsScenario DEF StopNotify, TypeOK, LoopState, Sleeping, Idle
    <2> QED BY <1>6, <2>2, <2>3 DEF StopNotify, TypeOK, ContextInv, NoOrphanGenerator, LoopFree, ctxVars
  <1>7. CASE UpdateStart
    <2>1. loop' \in LoopState /\ LoopFree'
      BY <1>7, AnyScenarioIsScenario DEF UpdateStart, Idle, LoopState, LoopFree
    <2>2. loop.scenario \in Scenarios
      BY DEF TypeOK, LoopState
    <2>3. CASE NewContext(loop.scenario) /\ ~IsActive(loop.scenario)
      BY <1>7, <2>1, <2>2, <2>3, NewContextInv DEF UpdateStart
    <2>4. CASE UNCHANGED <<scenarios, created, ctxVars>>
      BY <1>7, <2>1, <2>4 DEF UpdateStart, ctxVars, TypeOK, ContextInv, NoOrphanGenerator, LoopFree
    <2> QED BY <1>7, <2>3, <2>4 DEF UpdateStart
  <1>8. CASE CheckThreadHealth
    <2>1. TypeOK'
      BY <1>8 DEF CheckThreadHealth, TypeOK, ScenarioState
    <2>2. \A c \in Contexts : state'[c] # state[c] => state'[c] = "error" /\ thread[c] \in Dead
      BY <1>8 DEF CheckThreadHealth, Unhealthy
    <2>3. \A c \in Contexts : thread[c] = "none" => state'[c] = state[c]
      BY <2>2 DEF Dead
    <2>4. ContextInv'
      BY <1>8, <2>2, <2>3 DEF CheckThreadHealth, ContextInv, LoopFree, Active
    <2> QED BY <1>8, <2>1, <2>4 DEF CheckThreadHealth, NoOrphanGenerator
  <1>9. ASSUME NEW s \in Scenarios, ReportChange(s) PROVE IInv'
    BY <1>9 DEF ReportChange, ctxVars, TypeOK, ContextInv, NoOrphanGenerator, LoopFree
  <1>10. CASE ReportPeriodic
    BY <1>10 DEF ReportPeriodic, ctxVars, TypeOK, ContextInv, NoOrphanGenerator, LoopFree, IsActive
  <1>11. ASSUME NEW c \in Contexts, ScenarioThread(c) PROVE IInv'
    <2>0. c <= created \/ thread[c] = "none"
      BY ContextFacts, BoundsAssumption DEF TypeOK, ContextInv
    <2>1. CASE ThreadBegin(c)
      BY <2>0, <2>1, ContextFacts DEF ThreadBegin, TypeOK, ContextInv, NoOrphanGenerator, LoopFree,
           ScenarioState, ThreadPoint, Live, Dead, Active
    <2>2. CASE ThreadNotify(c)
      <3>1. TypeOK'
        BY <2>2, NotifyType DEF ThreadNotify, TypeOK, ScenarioState, ThreadPoint, Live, Dead
      <3>2. ContextInv'
        <4> USE <2>2 DEF ThreadNotify, TypeOK
        <4>1. \A d \in Contexts : d > created' =>
                 thread'[d] = "none" /\ state'[d] = "starting" /\ ~stop_event'[d]
          BY <2>0 DEF ContextInv
        <4>2. \A d \in Contexts : state'[d] = "stopping" => stop_event'[d]
          BY DEF ContextInv
        <4>3. \A d \in Contexts : state'[d] \in {"stopped", "error"} => thread'[d] \in {"say_final"} \cup Dead
          BY ZenonT(60) DEF ContextInv, Dead
        <4>4. \A d \in Contexts : thread'[d] \in {"say_final", "finished"} => state'[d] \notin Active
          BY DEF ContextInv, Active
        <4> QED BY <4>1, <4>2, <4>3, <4>4 DEF ContextInv, LoopFree
      <3>3. NoOrphanGenerator'
        BY <2>2 DEF ThreadNotify, TypeOK, NoOrphanGenerator, Live
      <3> QED BY <3>1, <3>2, <3>3
    <2>3. CASE ThreadBuild(c)
      <3>1. CASE state' = [state EXCEPT ![c] = "running"] /\ thread' = [thread EXCEPT ![c] = "say_running"]
        BY <2>3, <3>1, WriteAndMove DEF ThreadBuild, Live
      <3>2. CASE state' = [state EXCEPT ![c] = "error"] /\ thread' = [thread EXCEPT ![c] = "say_final"]
        BY <2>3, <3>2, WriteAndMove DEF ThreadBuild, Live
      <3> QED BY <2>3, <3>1, <3>2 DEF ThreadBuild
    <2>4. CASE ThreadStops(c) \/ ThreadFails(c)
      <3>1. PICK final \in {"stopped", "error"} : state' = [state EXCEPT ![c] = final]
        BY <2>4 DEF ThreadStops, ThreadFails
      <3> QED BY <2>4, <3>1, WriteAndMove DEF ThreadStops, ThreadFails, Live
    <2>5. CASE ThreadEnds(c)
      BY <2>0, <2>5, NotifyType, ContextFacts DEF ThreadEnds, TypeOK, ContextInv, NoOrphanGenerator, LoopFree,
           ScenarioState, ThreadPoint, Live, Dead, Active
    <2> QED BY <1>11, <2>1, <2>2, <2>3, <2>4, <2>5 DEF ScenarioThread
  <1>12. CASE UNCHANGED vars
    BY <1>12 DEF vars, TypeOK, ContextInv, NoOrphanGenerator, LoopFree
  <1> QED
    BY <1>1, <1>2, <1>3, <1>4, <1>5, <1>6, <1>7, <1>8, <1>9, <1>10, <1>11, <1>12
    DEF Next, Command, Background, StopScenario, UpdateScenario

\* So it holds in every reachable state.
LEMMA PoolInvariant == Spec => []IInv
  BY PoolInit, PoolNext, PTL DEF Spec

\* The pool's variables keep their types, whatever the event loop and the
\* scenario threads do.
THEOREM PoolTypeOK == Spec => []TypeOK
  <1>1. IInv => TypeOK
    BY DEF IInv
  <1> QED BY <1>1, PoolInvariant, PTL

\* However START, STOP and UPDATE commands interleave with the scenario threads, a
\* thread that is no longer in the dictionary has been told to stop.
THEOREM PoolNoOrphanGenerator == Spec => []NoOrphanGenerator
  <1>1. IInv => NoOrphanGenerator
    BY DEF IInv
  <1> QED BY <1>1, PoolInvariant, PTL

\* A scenario a heartbeat lists as running never belongs to a thread that has run
\* to its end.
THEOREM PoolFinishedNotListed == Spec => []FinishedNotListed
  <1>1. IInv => FinishedNotListed
    <2> SUFFICES ASSUME IInv, NEW s \in Scenarios, IsActive(s)
                 PROVE thread[scenarios[s]] # "finished"
      BY DEF FinishedNotListed, running_scenarios
    <2>1. scenarios[s] \in Contexts
      BY DEF IInv, TypeOK, IsActive
    <2> QED BY <2>1 DEF IInv, ContextInv, IsActive
  <1> QED BY <1>1, PoolInvariant, PTL
-----------------------------------------------------------------------------
(* The last word of the status reporter *)

\* What the server hears last: the end of the queue, or what it has been told.
LastOf(q, r) == IF q = <<>> THEN r ELSE q[Len(q)]
LastWord(s) == LastOf(status_queue[s], reported[s])

\* Context c may still change its state or report it.
Unfinished(c) == thread[c] \notin Dead \/ state[c] \in Active \/ (~LoopFree /\ loop.ctx = c)

\* Somebody will still correct a last word that says "starting" or "running".
WordInv ==
    \A s \in Scenarios :
        LastWord(s) \in Active => \E c \in Contexts : c <= created /\ sid[c] = s /\ Unfinished(c)

\* A change that is queued is the last word; one that is sent leaves the last
\* word what it was.
LEMMA QueueFact ==
  ASSUME NEW S, NEW q \in Seq(S)
  PROVE  /\ \A e \in S : Append(q, e) # <<>> /\ Append(q, e)[Len(Append(q, e))] = e
         /\ q # <<>> => q[Len(q)] = IF Tail(q) = <<>> THEN Head(q) ELSE Tail(q)[Len(Tail(q))]
  <1>1. \A e \in S : Append(q, e) # <<>> /\ Append(q, e)[Len(Append(q, e))] = e
    BY AppendProperties
  <1>2. ASSUME q # <<>> PROVE q[Len(q)] = IF Tail(q) = <<>> THEN Head(q) ELSE Tail(q)[Len(Tail(q))]
    <2>1. /\ Tail(q) \in Seq(S) /\ Len(Tail(q)) = Len(q) - 1
          /\ \A i \in 1 .. Len(Tail(q)) : Tail(q)[i] = q[i + 1]
      BY <1>2, HeadTailProperties
    <2>2. Len(q) \in Nat \ {0} /\ Head(q) = q[1]
      BY <1>2, EmptySeq
    <2>3. CASE Tail(q) = <<>>
      <3>1. Len(<<>>) = 0
        OBVIOUS
      <3>2. Len(Tail(q)) = 0
        BY <2>3, <3>1, Zenon
      <3>3. Len(q) = 1
        <4>1. Len(q) - 1 = 0
          BY <2>1, <3>2, Zenon
        <4> QED BY <2>2, <4>1
      <3> QED BY <2>2, <2>3, <3>3
    <2>4. CASE Tail(q) # <<>>
      <3>1. Len(Tail(q)) \in 1 .. Len(Tail(q)) /\ Len(Tail(q)) + 1 = Len(q)
        BY <2>1, <2>2, <2>4, EmptySeq
      <3> QED BY <2>1, <2>4, <3>1
    <2> QED BY <2>3, <2>4
  <1> QED BY <1>1, <1>2

\* Whatever the loop and the threads do, a scenario of which the last word says
\* that it is active has a context that is not finished.
LEMMA WordStep == ASSUME IInv, WordInv, [Next]_vars PROVE WordInv'
  <1> SUFFICES ASSUME NEW s \in Scenarios, LastOf(status_queue'[s], reported'[s]) \in Active
               PROVE  \E c \in Contexts : c <= created' /\ sid'[c] = s /\ Unfinished(c)'
    BY DEF WordInv, LastWord, LastOf
  <1> DEFINE Goal == \E c \in Contexts : c <= created' /\ sid'[c] = s /\ Unfinished(c)'
  <1>0. TypeOK /\ ContextInv /\ created \in Nat /\ Contexts \subseteq Nat /\ status_queue[s] \in Seq(ScenarioState)
    BY ContextFacts, BoundsAssumption DEF IInv, TypeOK
  <1>1. \A c \in Contexts : thread[c] # "none" => c <= created
    BY <1>0 DEF ContextInv
  \* A step after which the last word is what it was.
  <1>2. ASSUME LastOf(status_queue'[s], reported'[s]) = LastOf(status_queue[s], reported[s]),
               created' \in Nat, created <= created',
               \A c \in Contexts : c <= created /\ sid[c] = s /\ Unfinished(c) => sid'[c] = s /\ Unfinished(c)'
        PROVE  Goal
    <2>1. PICK c \in Contexts : c <= created /\ sid[c] = s /\ Unfinished(c)
      BY <1>2 DEF WordInv, LastWord
    <2>2. c <= created' /\ sid'[c] = s /\ Unfinished(c)'
      BY <1>0, <1>2, <2>1
    <2> QED BY <2>2
  \* A notification of context c.
  <1>3. ASSUME NEW c \in Contexts, Notify(c), UNCHANGED reported
        PROVE  /\ sid[c] = s => LastOf(status_queue'[s], reported'[s]) = state[c]
               /\ sid[c] # s => status_queue'[s] = status_queue[s]
    <2>1. sid[c] \in Scenarios /\ state[c] \in ScenarioState
      BY <1>0 DEF TypeOK
    <2>2. sid[c] = s => status_queue'[s] = Append(status_queue[s], state[c])
      BY <1>0, <1>3, <2>1 DEF Notify, TypeOK
    <2>3. sid[c] # s => status_queue'[s] = status_queue[s]
      BY <1>0, <1>3, <2>1 DEF Notify, TypeOK
    <2> QED BY <1>0, <2>1, <2>2, <2>3, QueueFact DEF LastOf
  <1> HIDE DEF Goal
  <1>4. ASSUME NEW r \in Scenarios, NewContext(r), LoopFree, UNCHANGED <<status_queue, reported>> PROVE Goal
    <2>1. \A c \in Contexts : c <= created => sid'[c] = sid[c] /\ thread'[c] = thread[c] /\ state'[c] = state[c]
      BY <1>0, <1>4, ContextFacts DEF NewContext, TypeOK
    <2>2. created' \in Nat /\ created <= created'
      BY <1>0, <1>4 DEF NewContext
    <2> QED BY <1>2, <1>4, <2>1, <2>2 DEF Unfinished
  <1>5. ASSUME NEW r \in Scenarios, StartScenario(r) PROVE Goal
    BY <1>4, <1>5 DEF StartScenario, LoopFree
  <1>6. ASSUME NEW r \in Scenarios, StartRefused(r) PROVE Goal
    <2>1. LastOf(status_queue'[s], reported'[s]) = LastOf(status_queue[s], reported[s])
      BY <1>0, <1>6 DEF StartRefused, LastOf, Active, TypeOK
    <2> QED BY <1>0, <1>2, <1>6, <2>1 DEF StartRefused, Unfinished, ctxVars, LoopFree
  <1>7. ASSUME NEW r \in Scenarios, NEW then \in {"idle", "sleep"}, StopCheck(r, then) PROVE Goal
    <2>1. \A c \in Contexts : Unfinished(c) => Unfinished(c)'
      BY <1>7 DEF StopCheck, Unfinished, ctxVars, LoopFree
    <2> QED BY <1>0, <1>2, <1>7, <2>1 DEF StopCheck, ctxVars
  <1>8. ASSUME StopSetEvent PROVE Goal
    <2>1. loop'.ctx = loop.ctx /\ loop'.at = "stop_state" /\ loop.at = "stop_event"
      BY <1>0, <1>8 DEF StopSetEvent, TypeOK, LoopState
    <2>2. \A c \in Contexts : Unfinished(c) => Unfinished(c)'
      BY <1>8, <2>1 DEF StopSetEvent, Unfinished, LoopFree
    <2> QED BY <1>0, <1>2, <1>8, <2>2 DEF StopSetEvent
  <1>9. ASSUME StopSetState PROVE Goal
    <2>1. loop'.ctx = loop.ctx /\ loop'.at = "stop_notify" /\ loop.at = "stop_state"
      BY <1>0, <1>9 DEF StopSetState, TypeOK, LoopState
    <2>2. \A c \in Contexts : Unfinished(c) => Unfinished(c)'
      BY <1>0, <1>9, <2>1 DEF StopSetState, Unfinished, LoopFree, TypeOK
    <2> QED BY <1>0, <1>2, <1>9, <2>2 DEF StopSetState
  <1>10. ASSUME StopNotify PROVE Goal
    <2>1. loop.ctx \in Contexts /\ loop.ctx <= created
      BY <1>0, <1>10 DEF StopNotify, ContextInv, LoopFree
    <2>2. CASE sid[loop.ctx] = s
      <3>1. state[loop.ctx] \in Active
        BY <1>3, <1>10, <2>1, <2>2 DEF StopNotify
      <3>2. loop.ctx <= created' /\ sid'[loop.ctx] = s /\ state'[loop.ctx] \in Active
        BY <1>10, <2>1, <2>2, <3>1 DEF StopNotify, ctxVars
      <3> QED BY <2>1, <3>2 DEF Goal, Unfinished
    <2>3. CASE sid[loop.ctx] # s
      <3>1. status_queue'[s] = status_queue[s] /\ reported' = reported
        BY <1>3, <1>10, <2>1, <2>3 DEF StopNotify
      <3>2. \A c \in Contexts : sid[c] = s /\ Unfinished(c) => Unfinished(c)'
        BY <1>10, <2>3 DEF StopNotify, Unfinished, ctxVars
      <3>3. created' = created /\ sid' = sid
        BY <1>10 DEF StopNotify, ctxVars
      <3>4. LastOf(status_queue'[s], reported'[s]) = LastOf(status_queue[s], reported[s])
        BY <3>1
      <3>5. created' \in Nat /\ created <= created'
        BY <1>0, <3>3
      <3> QED BY <1>2, <3>2, <3>3, <3>4, <3>5
    <2> QED BY <2>2, <2>3
  <1>11. ASSUME UpdateStart PROVE Goal
    <2>1. loop.scenario \in Scenarios /\ LoopFree /\ LoopFree'
      BY <1>0, <1>11 DEF UpdateStart, TypeOK, LoopState, LoopFree, Idle
    <2>2. CASE NewContext(loop.scenario)
      BY <1>4, <1>11, <2>1, <2>2 DEF UpdateStart
    <2>3. CASE UNCHANGED <<scenarios, created, ctxVars>>
      <3>1. \A c \in Contexts : Unfinished(c) => Unfinished(c)'
        BY <2>1, <2>3 DEF Unfinished, ctxVars
      <3> QED BY <1>0, <1>2, <1>11, <2>3, <3>1 DEF UpdateStart, ctxVars
    <2> QED BY <1>11, <2>2, <2>3 DEF UpdateStart
  <1>12. ASSUME CheckThreadHealth PROVE Goal
    <2>1. CASE Unhealthy(s)
      <3>1. status_queue'[s] = Append(status_queue[s], "error")
        BY <1>12, <2>1 DEF CheckThreadHealth
      <3>2. LastOf(status_queue'[s], reported'[s]) = "error"
        <4>1. "error" \in ScenarioState
          BY DEF ScenarioState
        <4> QED BY <1>0, <3>1, <4>1, QueueFact DEF LastOf
      <3> QED BY <3>2 DEF Active
    <2>2. CASE ~Unhealthy(s)
      <3>1. status_queue'[s] = status_queue[s] /\ reported' = reported
        BY <1>12, <2>2 DEF CheckThreadHealth
      <3>2. ASSUME NEW c \in Contexts, sid[c] = s PROVE state'[c] = state[c]
        <4>1. ASSUME NEW r \in Scenarios, Unhealthy(r), scenarios[r] = c PROVE FALSE
          <5>1. r = s
            BY <1>0, <3>2, <4>1 DEF ContextInv, Unhealthy, IsActive
          <5> QED BY <2>2, <4>1, <5>1
        <4> QED BY <1>12, <4>1 DEF CheckThreadHealth
      <3>3. \A c \in Contexts : sid[c] = s /\ Unfinished(c) => Unfinished(c)'
        BY <1>12, <3>2 DEF CheckThreadHealth, Unfinished, LoopFree
      <3> QED BY <1>0, <1>2, <1>12, <3>1, <3>3 DEF CheckThreadHealth
    <2> QED BY <2>1, <2>2
  <1>13. ASSUME NEW r \in Scenarios, ReportChange(r) PROVE Goal
    <2>1. LastOf(status_queue'[s], reported'[s]) = LastOf(status_queue[s], reported[s])
      <3>1. CASE r = s
        <4>1. /\ status_queue[s] # <<>> /\ reported'[s] = Head(status_queue[s])
              /\ status_queue'[s] = Tail(status_queue[s])
          BY <1>0, <1>13, <3>1 DEF ReportChange, TypeOK
        <4> QED BY <1>0, <4>1, QueueFact DEF LastOf
      <3>2. CASE r # s
        BY <1>0, <1>13, <3>2 DEF ReportChange, TypeOK
      <3> QED BY <3>1, <3>2
    <2>2. \A c \in Contexts : Unfinished(c) => Unfinished(c)'
      BY <1>13 DEF ReportChange, Unfinished, ctxVars, LoopFree
    <2> QED BY <1>0, <1>2, <1>13, <2>1, <2>2 DEF ReportChange, ctxVars
  <1>14. ASSUME ReportPeriodic PROVE Goal
    <2>1. UNCHANGED <<created, sid, thread, state, loop, status_queue>>
      BY <1>14 DEF ReportPeriodic, ctxVars
    <2>2. CASE IsActive(s)
      <3>1. /\ scenarios[s] \in Contexts /\ scenarios[s] <= created /\ sid[scenarios[s]] = s
            /\ state[scenarios[s]] \in Active
        BY <1>0, <2>2 DEF TypeOK, ContextInv, IsActive
      <3> QED BY <2>1, <3>1 DEF Goal, Unfinished
    <2>3. CASE ~IsActive(s)
      <3>1. reported'[s] = reported[s]
        BY <1>14, <2>3 DEF ReportPeriodic
      <3>2. \A c \in Contexts : Unfinished(c) => Unfinished(c)'
        BY <2>1 DEF Unfinished, LoopFree
      <3> QED BY <1>0, <1>2, <2>1, <3>1, <3>2
    <2> QED BY <2>2, <2>3
  <1>15. ASSUME NEW c \in Contexts, ScenarioThread(c) PROVE Goal
    <2>1. CASE ThreadBegin(c) \/ ThreadBuild(c) \/ ThreadStops(c) \/ ThreadFails(c)
      <3>1. UNCHANGED <<created, sid, loop, status_queue, reported>>
        BY <2>1 DEF ThreadBegin, ThreadBuild, ThreadStops, ThreadFails
      <3>2. thread'[c] \notin Dead /\ \A d \in Contexts : d # c => thread'[d] = thread[d] /\ state'[d] = state[d]
        BY <1>0, <2>1 DEF ThreadBegin, ThreadBuild, ThreadStops, ThreadFails, Dead, TypeOK
      <3>3. \A d \in Contexts : Unfinished(d) => Unfinished(d)'
        BY <3>1, <3>2 DEF Unfinished, LoopFree
      <3> QED BY <1>0, <1>2, <3>1, <3>3
    <2>2. CASE ThreadNotify(c)
      <3>1. /\ UNCHANGED <<created, sid, state, loop, reported>> /\ Notify(c)
            /\ thread'[c] \notin Dead /\ thread[c] # "none"
            /\ \A d \in Contexts : d # c => thread'[d] = thread[d]
        BY <1>0, <2>2 DEF ThreadNotify, Dead, TypeOK
      <3>2. CASE sid[c] = s
        <4>1. c <= created' /\ sid'[c] = s
          BY <1>1, <3>1, <3>2
        <4> QED BY <3>1, <4>1 DEF Goal, Unfinished
      <3>3. CASE sid[c] # s
        <4>1. status_queue'[s] = status_queue[s]
          BY <1>3, <3>1, <3>3
        <4>2. \A d \in Contexts : Unfinished(d) => Unfinished(d)'
          BY <3>1 DEF Unfinished, LoopFree
        <4> QED BY <1>0, <1>2, <3>1, <4>1, <4>2
      <3> QED BY <3>2, <3>3
    <2>3. CASE ThreadEnds(c)
      <3>1. /\ UNCHANGED <<created, sid, state, loop, reported>> /\ Notify(c)
            /\ state[c] \notin Active
            /\ \A d \in Contexts : d # c => thread'[d] = thread[d]
        BY <1>0, <2>3 DEF ThreadEnds, TypeOK, ContextInv
      <3>2. sid[c] # s
        BY <1>3, <3>1
      <3>3. status_queue'[s] = status_queue[s]
        BY <1>3, <3>1, <3>2
      <3>4. \A d \in Contexts : sid[d] = s /\ Unfinished(d) => Unfinished(d)'
        BY <3>1, <3>2 DEF Unfinished, LoopFree
      <3> QED BY <1>0, <1>2, <3>1, <3>3, <3>4
    <2> QED BY <1>15, <2>1, <2>2, <2>3 DEF ScenarioThread
  <1>16. ASSUME UNCHANGED vars PROVE Goal
    BY <1>0, <1>2, <1>16 DEF vars, Unfinished, LoopFree
  <1>17. Goal
    BY <1>5, <1>6, <1>7, <1>8, <1>9, <1>10, <1>11, <1>12, <1>13, <1>14, <1>15, <1>16
    DEF Next, Command, Background, StopScenario, UpdateScenario
  <1> QED BY <1>17 DEF Goal

\* The status reporter never leaves the server with "starting" or "running" for a
\* scenario whose contexts are all over, however notifications, refused starts and
\* the periodic report interleave.
THEOREM PoolQuietReport == Spec => []QuietReport
  <1>1. Init => WordInv
    BY DEF Init, WordInv, LastWord, LastOf, Active
  <1>2. IInv /\ WordInv /\ [Next]_vars => WordInv'
    BY WordStep
  <1>3. WordInv => QuietReport
    <2> SUFFICES ASSUME WordInv, NEW s \in Scenarios, status_queue[s] = <<>>, LoopFree, reported[s] \in Active,
                        \A c \in Contexts : sid[c] = s /\ c <= created => thread[c] \in Dead /\ state[c] \notin Active
                 PROVE  FALSE
      BY DEF QuietReport
    <2>1. LastWord(s) \in Active
      BY DEF LastWord, LastOf
    <2> QED BY <2>1 DEF WordInv, Unfinished
  <1> QED BY <1>1, <1>2, <1>3, PoolInvariant, PTL DEF Spec
=============================================================================
