-------------------------- MODULE DeploymentHubOffline --------------------------
(***************************************************************************)
(* The proof that the table tells when an agent is away: an active row of  *)
(* an agent that is not registered has a coroutine that will still put it  *)
(* right.  The one exception, a row removed while a deployments page is    *)
(* about to repair what it wrote, is the hypothesis of the theorem.        *)
(***************************************************************************)
EXTENDS DeploymentHubProofs

\* A handler past its greeting: it ends by marking the rows of its agent.
Cleaning(q) ==
    \/ q.at \in {"loop", "status", "status_memory", "sync", "resume_check", "unregister", "mark"}
    \/ InReplay(q)

\* Coroutine p, with local variables q, will still write row i of agent a: as a
\* handler of a, as the deploy that made the row and has yet to learn whether START
\* was sent, or as a page that repairs what it showed as running.
Covers(p, q, i, a) ==
    \/ Cleaning(q) /\ q.agent = a
    \/ q.at \in {"send_start", "send_failed"} /\ q.row = i /\ q.agent = a
    \/ p \in Requests /\ q.at = "page_fix" /\ i \in 1 .. Len(q.view) /\ q.view[i] = "running"

Covered ==
    \A i \in 1 .. Len(rows) :
        rows[i].state \in Active /\ conn[rows[i].agent].ws = 0
            => \E p \in Procs : Covers(p, proc[p], i, rows[i].agent)

\* The rows that a page is about to repair still exist.
FixReads ==
    \A r \in Requests :
        proc[r].at = "page_fix" =>
            \A i \in 1 .. Len(proc[r].view) : rows[i].state = "deleted" => proc[r].view[i] = "deleted"

\* No request is about to delete a row while another is about to repair some.
RemoveAlone ==
    \A r, q \in Requests : proc[r].at = "page_fix" => proc[q].at # "remove"

-----------------------------------------------------------------------------
(* The table *)

\* Table R activates no row.
Calm(R) == \A i \in 1 .. Len(R) : R[i].state \in Active => i \in 1 .. Len(rows) /\ rows[i].state \in Active

\* Table R deletes no row.
Intact(R) == \A i \in 1 .. Len(rows) : R[i].state = "deleted" => rows[i].state = "deleted"

\* A commit leaves a row alone or gives it the state that its session chose, and it
\* writes them all if none of them is gone.
LEMMA CommittedStates ==
    ASSUME rows \in Seq(RowType), NEW v \in Seq(RowState), Len(v) <= Len(rows), NEW new,
           \A i \in DOMAIN v : new[i] \in RowState, NEW k \in 1 .. Len(rows)
    PROVE  /\ \/ Committed(v, new)[k] = rows[k]
              \/ /\ k \in 1 .. Len(v) /\ new[k] # v[k] /\ rows[k].state # "deleted"
                 /\ Committed(v, new)[k].state = new[k]
           /\ (\A i \in 1 .. Len(v) : new[i] # v[i] => rows[i].state # "deleted")
                 => (k \in 1 .. Len(v) /\ new[k] # v[k] => Committed(v, new)[k].state = new[k])
<1> DEFINE dirty == {i \in DOMAIN v : new[i] # v[i]}
           R == Committed(v, new)
<1>0. DOMAIN v = 1 .. Len(v) /\ k \in DOMAIN rows /\ rows[k] \in RowType
  BY LenProperties, RowsFact
<1>1. CASE \E i \in dirty : rows[i].state = "deleted"
  <2>1. R = rows
    BY <1>1 DEF Committed
  <2>2. ~(\A i \in 1 .. Len(v) : new[i] # v[i] => rows[i].state # "deleted")
    BY <1>0, <1>1
  <2> QED BY <2>1, <2>2
<1>2. CASE ~\E i \in dirty : rows[i].state = "deleted"
  <2>1. k \in dirty => rows[k].state # "deleted" /\ k \in 1 .. Len(v) /\ new[k] # v[k]
    BY <1>0, <1>2
  <2>2. k \in 1 .. Len(v) /\ new[k] # v[k] => k \in dirty
    BY <1>0
  <2>3. R = [i \in DOMAIN rows |-> IF i \in dirty THEN [rows[i] EXCEPT !.state = new[i]] ELSE rows[i]]
    <3> HIDE DEF dirty
    <3> QED BY <1>2 DEF Committed, dirty
  <2> HIDE DEF dirty
  <2>4. k \in dirty => R[k] = [rows[k] EXCEPT !.state = new[k]]
    BY <1>0, <2>3
  <2>5. k \notin dirty => R[k] = rows[k]
    BY <1>0, <2>3
  <2>6. [rows[k] EXCEPT !.state = new[k]].state = new[k]
    BY <1>0 DEF RowType
  <2> HIDE DEF R
  <2>7. k \in dirty => R[k].state = new[k]
    BY <2>4, <2>6
  <2>8. \/ R[k] = rows[k]
        \/ k \in 1 .. Len(v) /\ new[k] # v[k] /\ rows[k].state # "deleted" /\ R[k].state = new[k]
    BY <2>1, <2>5, <2>7
  <2>9. k \in 1 .. Len(v) /\ new[k] # v[k] => R[k].state = new[k]
    BY <2>2, <2>7
  <2> QED BY <2>8, <2>9 DEF R
<1> QED BY <1>1, <1>2

\* The states that a session of a handler of agent a chooses: it activates rows of a
\* only, and deletes none.
LEMMA HandlerStates ==
    ASSUME NEW v \in Seq(RowState)
    PROVE  /\ \A a, s : \A st \in {"running", "stopping", "stopped", "error"} : \A i \in DOMAIN v :
                 StatusStates(v, a, s, st)[i] # v[i] =>
                    rows[i].agent = a /\ StatusStates(v, a, s, st)[i] # "deleted"
           /\ \A a, S : \A i \in DOMAIN v :
                 SyncStates(v, a, S)[i] # v[i] =>
                    rows[i].agent = a /\ SyncStates(v, a, S)[i] # "deleted"
<1>1. ASSUME NEW a, NEW s, NEW i \in DOMAIN v, NEW st \in {"running", "stopping", "stopped", "error"}, StatusStates(v, a, s, st)[i] # v[i]
      PROVE  rows[i].agent = a /\ StatusStates(v, a, s, st)[i] # "deleted"
  <2> DEFINE I == RowsIn(v, a, s, {"starting", "running", "stopping", "disconnected"}
                                \cup (IF st = "running" THEN {"stopped"} ELSE {}))
             n == Newest(I)
  <2>1. StatusStates(v, a, s, st)[i] = IF i \notin I THEN v[i] ELSE IF i = n THEN st
                                       ELSE IF v[i] \in Active \cup {"disconnected"} THEN "stopped" ELSE v[i]
    BY Zenon DEF StatusStates
  <2>2. i \in I => rows[i].agent = a
    BY DEF RowsIn
  <2>3. st # "deleted"
    OBVIOUS
  <2> HIDE DEF I, n
  <2>4. i \in I /\ StatusStates(v, a, s, st)[i] \in {st, "stopped"}
    BY <1>1, <2>1, Zenon
  <2> QED BY <2>2, <2>3, <2>4
<1>2. ASSUME NEW a, NEW i \in DOMAIN v, NEW S, SyncStates(v, a, S)[i] # v[i]
      PROVE  rows[i].agent = a /\ SyncStates(v, a, S)[i] # "deleted"
  <2> DEFINE s == rows[i].scenario
             I == RowsIn(v, a, s, Present)
             n == Newest(I)
  <2>1. SyncStates(v, a, S)[i] = IF s \notin S \/ i \notin I THEN v[i]
                                 ELSE IF i = n THEN IF v[i] \in {"stopping", "stopped"} THEN v[i] ELSE "running"
                                 ELSE IF v[i] \in Active \cup {"disconnected"} THEN "stopped" ELSE v[i]
    BY Zenon DEF SyncStates
  <2>2. i \in I => rows[i].agent = a
    BY DEF RowsIn
  <2> HIDE DEF I, n, s
  <2>3. i \in I /\ SyncStates(v, a, S)[i] \in {"running", "stopped"}
    BY <1>2, <2>1, Zenon
  <2> QED BY <2>2, <2>3
<1> QED BY <1>1, <1>2

\* The states that a deployments page chooses: it shows rows as running, then repairs
\* them, and what runs according to its view is closed if the agent is not registered.
LEMMA PageStatesFact ==
    ASSUME NEW v \in Seq(RowState), NEW i \in DOMAIN v
    PROVE  /\ \A seen : PageStates(v, seen)[i] # v[i] => PageStates(v, seen)[i] = "running"
           /\ \A stale : FixStates(v, stale)[i] # v[i] =>
                  /\ FixStates(v, stale)[i] \notin Active \cup {"deleted"}
                  /\ v[i] # "deleted"
           /\ \A stale : v[i] = "running" /\ conn[rows[i].agent].ws = 0 =>
                  FixStates(v, stale)[i] = "disconnected"
<1>1. \A seen : PageStates(v, seen)[i] \in {"running", v[i]}
  BY Zenon DEF PageStates
<1>2. ASSUME NEW stale
      PROVE  /\ FixStates(v, stale)[i] # v[i] => /\ FixStates(v, stale)[i] \notin Active \cup {"deleted"}
                                                 /\ v[i] # "deleted"
             /\ v[i] = "running" /\ conn[rows[i].agent].ws = 0 => FixStates(v, stale)[i] = "disconnected"
  <2> DEFINE c == conn[rows[i].agent]
             gone == rows[i].scenario \notin c.running
             away == c.ws = 0
  <2>1. FixStates(v, stale)[i] =
           CASE v[i] = "stopping" /\ gone -> "stopped"
             [] v[i] = "running" /\ away -> "disconnected"
             [] v[i] = "running" /\ ~away /\ gone -> "stopped"
             [] v[i] = "starting" /\ away /\ i \in stale -> "error"
             [] OTHER -> v[i]
    BY Zenon DEF FixStates
  <2> HIDE DEF c, gone, away
  <2>2. /\ FixStates(v, stale)[i] # v[i] => /\ FixStates(v, stale)[i] \notin Active \cup {"deleted"}
                                            /\ v[i] # "deleted"
        /\ v[i] = "running" /\ away => FixStates(v, stale)[i] = "disconnected"
    BY <2>1 DEF Active
  <2> QED BY <2>2 DEF c, away
<1> QED BY <1>1, <1>2

-----------------------------------------------------------------------------
(* Steps of the table *)

\* A step that writes no row.
LEMMA UnwrittenCalm == ASSUME UNCHANGED rows PROVE Calm(rows') /\ Intact(rows')
  BY DEF Calm, Intact

\* One row is written.
LEMMA WriteOne ==
    ASSUME TypeOK, NEW i \in 1 .. Len(rows), NEW y, rows' = [rows EXCEPT ![i] = y], y.state \notin Active
    PROVE  /\ Calm(rows') /\ rows'[i] = y /\ Len(rows') = Len(rows)
           /\ y.state # "deleted" => Intact(rows')
<1>1. rows \in Seq(RowType) /\ i \in DOMAIN rows /\ DOMAIN rows = 1 .. Len(rows)
  BY RowsFact DEF TypeOK
<1>2. rows'[i] = y /\ \A k \in 1 .. Len(rows) : k # i => rows'[k] = rows[k]
  BY <1>1
<1>3. Len(rows') = Len(rows)
  BY <1>1
<1>4. Calm(rows')
  BY <1>2, <1>3 DEF Calm
<1>5. y.state # "deleted" => Intact(rows')
  BY <1>2 DEF Intact
<1> QED BY <1>2, <1>3, <1>4, <1>5

\* A deploy that failed, a deletion and a replay close the row they name.
LEMMA CloseOne ==
    ASSUME TypeOK, Locals, NEW p \in Procs
    PROVE  /\ DeployFailed(p) => /\ Calm(rows') /\ Intact(rows') /\ proc[p].row \in 1 .. Len(rows)
                                 /\ rows'[proc[p].row].state \notin Active
           /\ RemoveWrite(p) => Calm(rows')
           /\ ResumeNext(p) => Calm(rows') /\ Intact(rows')
<1>0. rows \in Seq(RowType) /\ \A k \in 1 .. Len(rows) : rows[k] \in RowType
  BY RowsFact DEF TypeOK
<1>1. ASSUME DeployFailed(p)
      PROVE  Calm(rows') /\ Intact(rows') /\ proc[p].row \in 1 .. Len(rows) /\ rows'[proc[p].row].state \notin Active
  <2> DEFINE i == proc[p].row
             y == [rows[i] EXCEPT !.state = "error"]
  <2>1. i \in 1 .. Len(rows)
    <3>1. i \in Nat /\ i <= Len(rows) /\ i # 0 /\ Len(rows) \in Nat
      BY <1>1, ProcFact, RowsFact DEF DeployFailed, LocalAt, TypeOK
    <3> QED BY <3>1
  <2>2. CASE rows[i].state = "deleted"
    BY <1>1, <2>1, <2>2, UnwrittenCalm DEF DeployFailed, Active
  <2>3. CASE rows[i].state # "deleted"
    <3>1. rows' = [rows EXCEPT ![i] = y]
      BY <1>1, <2>3 DEF DeployFailed
    <3>2. y.state = "error"
      BY <1>0, <2>1 DEF RowType
    <3> HIDE DEF y, i
    <3>3. y.state \notin Active /\ y.state # "deleted"
      BY <3>2 DEF Active
    <3>4. Calm(rows') /\ Intact(rows') /\ rows'[i] = y
      BY <2>1, <3>1, <3>3, WriteOne
    <3> QED BY <2>1, <3>3, <3>4 DEF i
  <2> QED BY <2>2, <2>3
<1>2. ASSUME RemoveWrite(p) PROVE Calm(rows')
  <2> DEFINE i == proc[p].row
             y == [rows[i] EXCEPT !.state = "deleted"]
  <2>1. i \in 1 .. Len(rows)
    <3>1. i \in Nat /\ i <= Len(rows) /\ i # 0 /\ Len(rows) \in Nat
      BY <1>2, ProcFact, RowsFact DEF RemoveWrite, LocalAt, TypeOK
    <3> QED BY <3>1
  <2>2. rows' = [rows EXCEPT ![i] = y]
    BY <1>2 DEF RemoveWrite
  <2>3. y.state = "deleted"
    BY <1>0, <2>1 DEF RowType
  <2> HIDE DEF y, i
  <2> QED BY <2>1, <2>2, <2>3, WriteOne DEF Active
<1>3. ASSUME ResumeNext(p) PROVE Calm(rows') /\ Intact(rows')
  <2> DEFINE i == Newest(proc[p].todo)
             y == [rows[i] EXCEPT !.state = "stopped", !.why = "replay"]
  <2>1. i \in 1 .. Len(rows)
    BY <1>3, ResumeNextTable
  <2>2. rows' = rows \/ rows' = [rows EXCEPT ![i] = y]
    BY <1>0, <1>3, <2>1, RowsFact DEF ResumeNext
  <2>3. y.state = "stopped"
    BY <1>0, <2>1 DEF RowType
  <2> HIDE DEF y, i
  <2>4. CASE rows' = [rows EXCEPT ![i] = y]
    BY <2>1, <2>3, <2>4, WriteOne DEF Active
  <2> QED BY <2>2, <2>4, UnwrittenCalm
<1> QED BY <1>1, <1>2, <1>3

\* The rows of an agent that is gone are not active.
LEMMA DisconnectedStates ==
    ASSUME TypeOK, NEW A, rows' = Disconnected(A)
    PROVE  /\ Calm(rows') /\ Intact(rows') /\ Len(rows') = Len(rows)
           /\ \A i \in 1 .. Len(rows) : rows'[i].agent \in A => rows'[i].state \notin Active
<1>1. rows \in Seq(RowType) /\ Kept(rows') /\ Len(rows') = Len(rows)
  BY DisconnectedFact DEF TypeOK
<1>2. ASSUME NEW k \in 1 .. Len(rows)
      PROVE  /\ rows'[k].state \in Active => rows[k].state \in Active /\ rows'[k].agent \notin A
             /\ rows'[k].state = "deleted" => rows[k].state = "deleted"
  <2>1. rows[k] \in RowType /\ k \in DOMAIN rows
    BY <1>1, RowsFact
  <2>2. rows'[k] = IF rows[k].agent \in A /\ rows[k].state \in Active \cup {"stopping"}
                   THEN [rows[k] EXCEPT !.state = "disconnected"] ELSE rows[k]
    BY <2>1, Zenon DEF Disconnected
  <2>3. /\ [rows[k] EXCEPT !.state = "disconnected"].state = "disconnected"
        /\ [rows[k] EXCEPT !.state = "disconnected"].agent = rows[k].agent
    BY <2>1 DEF RowType
  <2> QED BY <2>2, <2>3 DEF Active
<1> QED BY <1>1, <1>2 DEF Calm, Intact

\* What a coroutine commits: a stop and a repair activate nothing, a handler only
\* rows of its agent, and none of them deletes a row.
LEMMA CommitStates ==
    ASSUME TypeOK, Locals, NEW p \in Procs
    PROVE  /\ StopWrite(p) => Calm(rows') /\ Intact(rows')
           /\ PageFix(p) => Calm(rows') /\ Intact(rows')
           /\ WriteStatus(p) \/ SyncRunning(p) =>
                 /\ Intact(rows') /\ Len(rows') = Len(rows)
                 /\ \A i \in 1 .. Len(rows) :
                        rows'[i].state \in Active => rows[i].state \in Active \/ rows'[i].agent = proc[p].agent
<1> DEFINE v == proc[p].view
<1>1. rows \in Seq(RowType) /\ Len(rows) \in Nat /\ v \in Seq(RowState) /\ Len(v) <= Len(rows) /\ DOMAIN v = 1 .. Len(v)
  BY RowsFact, ProcFact, LenProperties DEF TypeOK, LocalAt
<1>2. \A i \in DOMAIN v : v[i] \in RowState
  BY <1>1, ElementOfSeq
<1>3. ASSUME StopWrite(p) PROVE Calm(rows') /\ Intact(rows')
  <2> DEFINE mine == RowsIn(v, proc[p].agent, proc[p].scenario, Active)
             st == [i \in DOMAIN v |-> IF i \in mine THEN "stopping" ELSE v[i]]
             new == Committed(v, st)
  <2>1. \A i \in DOMAIN v : st[i] \in RowState /\ (st[i] # v[i] => st[i] = "stopping")
    <3>1. "stopping" \in RowState
      BY DEF RowState
    <3> HIDE DEF mine, v
    <3> QED BY <1>2, <3>1
  <2>2. rows' = [i \in DOMAIN rows |-> IF i \in mine THEN [new[i] EXCEPT !.why = "user"] ELSE new[i]]
    BY <1>3 DEF StopWrite
  <2> HIDE DEF mine, st, v
  <2>3. Kept(new)
    BY <1>1, <2>1, CommittedFact
  <2>4. \A k \in 1 .. Len(rows) : new[k] = rows[k] \/ new[k].state = "stopping"
    BY <1>1, <2>1, CommittedStates
  <2> HIDE DEF new
  <2>5. ASSUME NEW k \in 1 .. Len(rows) PROVE rows'[k].state = new[k].state
    <3>1. new[k] \in RowType /\ k \in DOMAIN rows
      BY <1>1, <2>3, RowsFact DEF Kept, SameRow
    <3>2. rows'[k] = IF k \in mine THEN [new[k] EXCEPT !.why = "user"] ELSE new[k]
      BY <2>2, <3>1
    <3>3. [new[k] EXCEPT !.why = "user"].state = new[k].state
      BY <3>1 DEF RowType
    <3> QED BY <3>2, <3>3
  <2>6. Len(rows') = Len(rows)
    <3>1. DOMAIN rows' = 1 .. Len(rows)
      BY <1>1, <2>2, RowsFact
    <3>2. Kept(rows')
      BY <1>3, StopWriteTable
    <3>3. DOMAIN rows' = 1 .. Len(rows') /\ Len(rows') \in Nat
      BY <3>2, LenProperties DEF Kept
    <3> QED BY <1>1, <3>1, <3>3
  <2> QED BY <2>4, <2>5, <2>6 DEF Calm, Intact, Active
<1>4. ASSUME PageFix(p) PROVE Calm(rows') /\ Intact(rows')
  <2>1. PICK stale : rows' = Committed(v, FixStates(v, stale))
    BY <1>4 DEF PageFix
  <2> DEFINE new == FixStates(v, stale)
  <2>2. \A i \in DOMAIN v : new[i] \in RowState /\ (new[i] # v[i] => new[i] \notin Active \cup {"deleted"})
    BY <1>1, StatesFact, PageStatesFact
  <2> HIDE DEF new, v
  <2>3. rows' = Committed(v, new)
    BY <2>1 DEF new, v
  <2>4. Len(rows') = Len(rows)
    BY <1>1, <2>2, <2>3, CommittedFact
  <2>5. ASSUME NEW k \in 1 .. Len(rows)
        PROVE  rows'[k] = rows[k] \/ rows'[k].state \notin Active \cup {"deleted"}
    <3>1. \A i \in DOMAIN v : new[i] \in RowState
      BY <2>2
    <3>2. \/ Committed(v, new)[k] = rows[k]
          \/ k \in 1 .. Len(v) /\ new[k] # v[k] /\ Committed(v, new)[k].state = new[k]
      BY <1>1, <3>1, CommittedStates
    <3>3. k \in 1 .. Len(v) /\ new[k] # v[k] => new[k] \notin Active \cup {"deleted"}
      BY <1>1, <2>2
    <3> QED BY <2>3, <3>2, <3>3
  <2> QED BY <2>4, <2>5 DEF Calm, Intact
<1>5. ASSUME WriteStatus(p) \/ SyncRunning(p)
      PROVE  /\ Intact(rows') /\ Len(rows') = Len(rows)
             /\ \A i \in 1 .. Len(rows) :
                    rows'[i].state \in Active => rows[i].state \in Active \/ rows'[i].agent = proc[p].agent
  <2>1. PICK new : /\ rows' = Committed(v, new)
                   /\ \A i \in DOMAIN v : new[i] \in RowState
                   /\ \A i \in DOMAIN v : new[i] # v[i] => rows[i].agent = proc[p].agent /\ new[i] # "deleted"
    <3>1. CASE WriteStatus(p)
      <4> DEFINE m == proc[p].msg
                 new == StatusStates(v, proc[p].agent, m.scenario, m.state)
      <4>1. m.state \in {"running", "stopping", "stopped", "error"}
        BY <3>1, ProcFact DEF WriteStatus, LocalAt, Status
      <4>2. \A i \in DOMAIN v : new[i] \in RowState
        BY <1>1, <4>1, StatesFact
      <4>3. \A i \in DOMAIN v : new[i] # v[i] => rows[i].agent = proc[p].agent /\ new[i] # "deleted"
        BY <1>1, <4>1, HandlerStates
      <4>4. rows' = Committed(v, new)
        BY <3>1 DEF WriteStatus
      <4> HIDE DEF new, v
      <4> WITNESS new
      <4> QED BY <4>2, <4>3, <4>4, Zenon
    <3>2. CASE SyncRunning(p)
      <4> DEFINE new == SyncStates(v, proc[p].agent, proc[p].msg.running)
      <4>1. \A i \in DOMAIN v : new[i] \in RowState
        BY <1>1, StatesFact
      <4>2. \A i \in DOMAIN v : new[i] # v[i] => rows[i].agent = proc[p].agent /\ new[i] # "deleted"
        BY <1>1, HandlerStates
      <4>3. rows' = Committed(v, new)
        BY <3>2 DEF SyncRunning
      <4> HIDE DEF new, v
      <4> WITNESS new
      <4> QED BY <4>1, <4>2, <4>3, Zenon
    <3> QED BY <1>5, <3>1, <3>2
  <2> HIDE DEF v
  <2>2. Kept(rows') /\ Len(rows') = Len(rows)
    BY <1>1, <2>1, CommittedFact
  <2>3. ASSUME NEW k \in 1 .. Len(rows)
        PROVE  /\ rows'[k].state = "deleted" => rows[k].state = "deleted"
               /\ rows'[k].state \in Active => rows[k].state \in Active \/ rows'[k].agent = proc[p].agent
    <3>1. \/ rows'[k] = rows[k]
          \/ k \in DOMAIN v /\ new[k] # v[k] /\ rows'[k].state = new[k]
      BY <1>1, <2>1, CommittedStates
    <3>2. rows'[k].agent = rows[k].agent
      BY <2>2 DEF Kept, SameRow
    <3> QED BY <2>1, <3>1, <3>2
  <2> QED BY <2>2, <2>3 DEF Intact
<1> QED BY <1>3, <1>4, <1>5

\* The rows that a page adds are shown as running.
LEMMA OrphanStates ==
    ASSUME NEW O, O \subseteq Agents \X Scenarios
    PROVE  \A j \in 1 .. Len(OrphanRows(O)) : OrphanRows(O)[j].state = "running"
<1> DEFINE order == CHOOSE q \in [1 .. Cardinality(O) -> O] : \A o \in O : \E i \in DOMAIN q : q[i] = o
<1>1. OrphanRows(O) = [i \in DOMAIN order |-> NewRow(order[i][1], order[i][2], "running", 0)]
  BY DEF OrphanRows
<1>2. DOMAIN OrphanRows(O) = 1 .. Len(OrphanRows(O))
  BY OrphanRowsFact, LenProperties
<1> HIDE DEF order
<1>3. \A j \in DOMAIN OrphanRows(O) : OrphanRows(O)[j] = NewRow(order[j][1], order[j][2], "running", 0)
  BY <1>1
<1>4. \A a, s : NewRow(a, s, "running", 0).state = "running"
  BY DEF NewRow
<1> QED BY <1>2, <1>3, <1>4

\* What a page activates it shows as running, and it goes on to repair just that.
LEMMA PageSyncStates ==
    ASSUME TypeOK, Locals, NEW r \in Requests, PageSync(r)
    PROVE  /\ Intact(rows')
           /\ \/ rows' = rows /\ proc'[r] = Idle("idle", AnyAgent)
              \/ /\ proc'[r].at = "page_fix" /\ Len(proc'[r].view) = Len(rows')
                 /\ \A i \in 1 .. Len(rows') :
                       /\ proc'[r].view[i] = rows'[i].state
                       /\ rows'[i].state \in Active =>
                             rows'[i].state = "running" \/ (i \in 1 .. Len(rows) /\ rows[i].state \in Active)
<1> DEFINE v == proc[r].view
           seen == proc[r].msg.seen
           new == PageStates(v, seen)
           R == Committed(v, new)
           O == Orphans(v, seen)
           T == OrphanRows(O)
           vw == [k \in DOMAIN rows' |-> rows'[k].state]
           q == [Idle("page_fix", AnyAgent) EXCEPT !.view = vw]
<1>0. r \in Procs /\ proc \in [Procs -> ProcType]
  BY ProcsFact DEF TypeOK
<1>1. /\ rows \in Seq(RowType) /\ Len(rows) \in Nat /\ v \in Seq(RowState) /\ Len(v) <= Len(rows)
      /\ DOMAIN v = 1 .. Len(v)
  BY <1>0, RowsFact, ProcFact, LenProperties DEF TypeOK, LocalAt
<1>2. \A i \in DOMAIN v : new[i] \in RowState /\ (new[i] # v[i] => new[i] = "running")
  BY <1>1, StatesFact, PageStatesFact
<1>3. /\ Kept(R) /\ Len(R) = Len(rows)
      /\ \A k \in 1 .. Len(rows) : R[k] = rows[k] \/ R[k].state = "running"
  <2> HIDE DEF new, v
  <2> QED BY <1>1, <1>2, CommittedFact, CommittedStates
<1>4. T \in Seq(RowType) /\ Len(T) \in Nat /\ \A j \in 1 .. Len(T) : T[j].state = "running"
  <2>1. O \subseteq Agents \X Scenarios
    BY DEF Orphans
  <2> HIDE DEF O
  <2> QED BY <2>1, OrphanRowsFact, OrphanStates, LenProperties
<1>5. \/ rows' = rows /\ proc' = [proc EXCEPT ![r] = Idle("idle", AnyAgent)]
      \/ rows' = R \o T /\ proc' = [proc EXCEPT ![r] = q]
  BY DEF PageSync
<1>6. Kept(rows')
  BY <1>0, PageSyncTable
<1>7. CASE rows' = rows /\ proc' = [proc EXCEPT ![r] = Idle("idle", AnyAgent)]
  BY <1>0, <1>7, UnwrittenCalm
<1>8. CASE rows' = R \o T /\ proc' = [proc EXCEPT ![r] = q]
  <2> HIDE DEF R, T
  <2>1. R \in Seq(RowType)
    BY <1>3 DEF Kept
  <2>2. /\ Len(R \o T) = Len(rows) + Len(T)
        /\ \A i \in 1 .. Len(rows) + Len(T) : (R \o T)[i] = IF i <= Len(rows) THEN R[i] ELSE T[i - Len(rows)]
    <3>1. /\ Len(R \o T) = Len(R) + Len(T)
          /\ \A i \in 1 .. Len(R) + Len(T) : (R \o T)[i] = IF i <= Len(R) THEN R[i] ELSE T[i - Len(R)]
      BY <1>4, <2>1, ConcatProperties, Zenon
    <3> QED BY <1>3, <3>1
  <2>3. ASSUME NEW i \in 1 .. Len(rows')
        PROVE  IF i <= Len(rows) THEN rows'[i] = rows[i] \/ rows'[i].state = "running" ELSE rows'[i].state = "running"
    <3>1. CASE i <= Len(rows)
      BY <1>1, <1>3, <1>8, <2>2, <3>1
    <3>2. CASE ~(i <= Len(rows))
      <4>1. rows'[i] = T[i - Len(rows)] /\ i - Len(rows) \in 1 .. Len(T)
        BY <1>1, <1>4, <1>8, <2>2, <3>2
      <4> QED BY <1>4, <3>2, <4>1
    <3> QED BY <3>1, <3>2
  <2>4. Len(rows) <= Len(rows') /\ Len(rows') \in Nat /\ DOMAIN rows' = 1 .. Len(rows')
    BY <1>6, LenProperties DEF Kept
  <2>5. vw \in Seq(RowState) /\ Len(vw) = Len(rows') /\ \A i \in 1 .. Len(rows') : vw[i] = rows'[i].state
    <3>1. rows' \in Seq(RowType)
      BY <1>6 DEF Kept
    <3> QED BY <2>4, <3>1, ViewFact
  <2>6. proc'[r].at = "page_fix" /\ proc'[r].view = vw
    <3> HIDE DEF vw
    <3> QED BY <1>0, <1>8 DEF Idle
  <2> HIDE DEF vw
  <2>7. Intact(rows')
    BY <1>1, <2>3, <2>4 DEF Intact
  <2>8. \A i \in 1 .. Len(rows') : rows'[i].state \in Active =>
            rows'[i].state = "running" \/ (i \in 1 .. Len(rows) /\ rows[i].state \in Active)
    BY <1>1, <2>3, <2>4
  <2> QED BY <2>5, <2>6, <2>7, <2>8
<1> QED BY <1>5, <1>7, <1>8

-----------------------------------------------------------------------------
(* Steps that keep the rows covered *)

\* A step of coroutine p.
LEMMA CoverStep ==
    ASSUME Covered, NEW p \in Procs, \A x \in Procs : x # p => proc'[x] = proc[x],
           \A i \in 1 .. Len(rows') :
               rows'[i].state \in Active /\ conn'[rows'[i].agent].ws = 0 =>
                   \/ Covers(p, proc'[p], i, rows'[i].agent)
                   \/ /\ i \in 1 .. Len(rows) /\ rows[i].state \in Active
                      /\ rows[i].agent = rows'[i].agent /\ conn[rows[i].agent].ws = 0
                      /\ ~Covers(p, proc[p], i, rows[i].agent)
    PROVE  Covered'
<1> SUFFICES ASSUME NEW i \in 1 .. Len(rows'), rows'[i].state \in Active, conn'[rows'[i].agent].ws = 0
             PROVE  \E x \in Procs : Covers(x, proc'[x], i, rows'[i].agent)
  BY DEF Covered, Covers, Cleaning, InReplay
<1>1. CASE Covers(p, proc'[p], i, rows'[i].agent)
  BY <1>1
<1>2. CASE ~Covers(p, proc'[p], i, rows'[i].agent)
  <2>1. /\ i \in 1 .. Len(rows) /\ rows[i].state \in Active
        /\ rows[i].agent = rows'[i].agent /\ conn[rows[i].agent].ws = 0
        /\ ~Covers(p, proc[p], i, rows[i].agent)
    BY <1>2
  <2>2. PICK x \in Procs : Covers(x, proc[x], i, rows[i].agent)
    BY <2>1 DEF Covered
  <2>3. x # p
    BY <2>1, <2>2
  <2> QED BY <2>1, <2>2, <2>3
<1> QED BY <1>1, <1>2

\* A step of coroutine p that activates no row and registers whom it likes: what p
\* covered and still needs it must go on covering.
LEMMA CalmStep ==
    ASSUME Covered, Kept(rows'), Calm(rows'), \A a \in Agents : conn'[a].ws = 0 => conn[a].ws = 0,
           NEW p \in Procs, \A x \in Procs : x # p => proc'[x] = proc[x],
           \A i \in 1 .. Len(rows), a \in Agents :
               Covers(p, proc[p], i, a) /\ conn'[a].ws = 0 /\ rows'[i].state \in Active /\ rows'[i].agent = a
                   => Covers(p, proc'[p], i, a)
    PROVE  Covered'
<1>1. ASSUME NEW i \in 1 .. Len(rows'), rows'[i].state \in Active, conn'[rows'[i].agent].ws = 0
      PROVE  \/ Covers(p, proc'[p], i, rows'[i].agent)
             \/ /\ i \in 1 .. Len(rows) /\ rows[i].state \in Active
                /\ rows[i].agent = rows'[i].agent /\ conn[rows[i].agent].ws = 0
                /\ ~Covers(p, proc[p], i, rows[i].agent)
  <2>1. i \in 1 .. Len(rows) /\ rows[i].state \in Active
    BY <1>1 DEF Calm
  <2>2. rows'[i].agent = rows[i].agent /\ rows'[i].agent \in Agents
    BY <2>1 DEF Kept, SameRow, RowType
  <2> QED BY <1>1, <2>1, <2>2
<1> QED BY <1>1, CoverStep

\* A step of no coroutine.
LEMMA CoverUnchanged ==
    ASSUME Covered, UNCHANGED rows, UNCHANGED proc, \A a \in Agents : conn'[a].ws = 0 => conn[a].ws = 0, TypeOK
    PROVE  Covered'
<1> SUFFICES ASSUME NEW i \in 1 .. Len(rows), rows[i].state \in Active, conn'[rows[i].agent].ws = 0
             PROVE  \E x \in Procs : Covers(x, proc[x], i, rows[i].agent)
  BY DEF Covered, Covers, Cleaning, InReplay
<1>1. rows[i].agent \in Agents
  BY RowsFact DEF TypeOK, RowType
<1> QED BY <1>1 DEF Covered

\* Steps that say nothing about the registration of an agent.
LEMMA SameConn ==
    ASSUME TypeOK
    PROVE  /\ UNCHANGED conn => \A a \in Agents : conn'[a].ws = 0 => conn[a].ws = 0
           /\ \A p \in Procs : TrackDeployment(p) => \A a \in Agents : conn'[a].ws = 0 => conn[a].ws = 0
           /\ \A p \in Procs : HandleStatus(p) => \A a \in Agents : conn'[a].ws = 0 => conn[a].ws = 0
           /\ \A b \in Agents : Connect(b) => \A a \in Agents : conn'[a].ws = 0 => conn[a].ws = 0
<1>0. conn \in [Agents -> Connection]
  BY DEF TypeOK
<1>1. ASSUME NEW b, NEW S, conn' = [conn EXCEPT ![b].running = S], NEW a \in Agents PROVE conn'[a].ws = conn[a].ws
  BY <1>0, <1>1 DEF Connection
<1>2. ASSUME NEW p \in Procs, TrackDeployment(p) \/ HandleStatus(p), NEW a \in Agents
      PROVE  conn'[a].ws = conn[a].ws
  <2>1. conn' = conn \/ \E S : conn' = [conn EXCEPT ![proc[p].agent].running = S]
    <3>1. CASE TrackDeployment(p)
      BY <3>1, Zenon DEF TrackDeployment
    <3>2. CASE HandleStatus(p)
      BY <3>2, Zenon DEF HandleStatus
    <3> QED BY <1>2, <3>1, <3>2
  <2> QED BY <1>1, <2>1
<1>3. ASSUME NEW b \in Agents, Connect(b), NEW a \in Agents, conn'[a].ws = 0 PROVE conn[a].ws = 0
  <2>1. accepted + 1 # 0
    BY <1>3, ConnectFact
  <2>2. conn' = [conn EXCEPT ![b] = [ws |-> accepted + 1, running |-> {}]]
    BY <1>3, Zenon DEF Connect
  <2>3. a # b
    BY <1>0, <1>3, <2>1, <2>2
  <2> QED BY <1>0, <1>3, <2>2, <2>3
<1> QED BY <1>2, <1>3

\* execute_deployment: the row it makes is covered until START is sent to a
\* registered agent or the row is in error.
LEMMA DeployCover ==
    ASSUME TypeOK, Locals, Covered, NEW p \in Procs, ExecuteDeployment(p), Kept(rows')
    PROVE  Covered'
<1>0. proc \in [Procs -> ProcType] /\ proc[p] \in ProcType
  BY DEF TypeOK
<1>1. \A x \in Procs : x # p => proc'[x] = proc[x]
  BY <1>0 DEF ExecuteDeployment, CreateRow, SendStart, TrackDeployment, DeployFailed, DeployRefused,
                    Goto, Return
<1>2. CASE CreateRow(p)
  <2> DEFINE k == Len(rows) + 1
  <2>1. /\ proc[p].at = "new_row" /\ proc'[p].at = "send_start" /\ proc'[p].row = k
        /\ proc'[p].then = proc[p].then /\ proc'[p].agent = proc[p].agent
    <3> HIDE DEF k
    <3>1. proc' = [proc EXCEPT ![p] = [proc[p] EXCEPT !.at = "send_start", !.row = k]]
      BY <1>0, <1>2 DEF CreateRow, k
    <3>2. proc[p].at = "new_row"
      BY <1>2 DEF CreateRow
    <3>3. proc'[p] = [proc[p] EXCEPT !.at = "send_start", !.row = k]
      BY <1>0, <3>1
    <3> QED BY <1>0, <3>2, <3>3 DEF ProcType
  <2>2. /\ Len(rows') = k /\ rows'[k].agent = proc[p].agent /\ \A i \in 1 .. Len(rows) : rows'[i] = rows[i]
        /\ Len(rows) \in Nat /\ UNCHANGED conn
    <3>1. rows'[k].agent = proc[p].agent
      <4>1. rows'[k] = NewRow(proc[p].agent, proc[p].scenario, "starting", proc[p].row)
        BY <1>2, CreateRowTable
      <4>2. NewRow(proc[p].agent, proc[p].scenario, "starting", proc[p].row).agent = proc[p].agent
        BY DEF NewRow
      <4> QED BY <4>1, <4>2
    <3>2. Len(rows) \in Nat /\ UNCHANGED conn
      BY <1>2, RowsFact DEF TypeOK, CreateRow, manager
    <3> QED BY <1>2, <3>1, <3>2, CreateRowTable
  <2>3. ASSUME NEW i \in 1 .. Len(rows'), rows'[i].state \in Active, conn'[rows'[i].agent].ws = 0
        PROVE  \/ Covers(p, proc'[p], i, rows'[i].agent)
               \/ /\ i \in 1 .. Len(rows) /\ rows[i].state \in Active
                  /\ rows[i].agent = rows'[i].agent /\ conn[rows[i].agent].ws = 0
                  /\ ~Covers(p, proc[p], i, rows[i].agent)
    <3>1. CASE i = k
      BY <2>1, <2>2, <3>1 DEF Covers
    <3>2. CASE i # k
      <4>1. i \in 1 .. Len(rows) /\ rows'[i] = rows[i]
        BY <2>2, <3>2
      <4>2. Covers(p, proc[p], i, rows[i].agent) => Covers(p, proc'[p], i, rows[i].agent)
        BY <2>1 DEF Covers, Cleaning, InReplay, Deploying
      <4> QED BY <2>2, <2>3, <4>1, <4>2
    <3> QED BY <3>1, <3>2
  <2> QED BY <1>1, <2>3, CoverStep
<1>3. CASE SendStart(p)
  <2>1. /\ proc[p].at = "send_start" /\ UNCHANGED rows /\ UNCHANGED conn
        /\ \/ proc' = [proc EXCEPT ![p].at = "track"] /\ conn[proc[p].agent].ws # 0
           \/ proc' = [proc EXCEPT ![p].at = "send_failed"]
    BY <1>3, Zenon DEF SendStart, Goto, Registered, db, manager
  <2>2. /\ proc'[p].row = proc[p].row /\ proc'[p].then = proc[p].then /\ proc'[p].agent = proc[p].agent
        /\ proc'[p].at = "send_failed" \/ (proc'[p].at = "track" /\ conn'[proc[p].agent].ws # 0)
    BY <1>0, <2>1 DEF ProcType
  <2>3. ASSUME NEW i \in 1 .. Len(rows), NEW a \in Agents, Covers(p, proc[p], i, a), conn'[a].ws = 0
        PROVE  Covers(p, proc'[p], i, a)
    BY <2>1, <2>2, <2>3 DEF Covers, Cleaning, InReplay, Deploying
  <2> QED BY <1>1, <2>1, <2>3, SameConn, UnwrittenCalm, CalmStep
<1>4. ASSUME TrackDeployment(p) \/ DeployFailed(p) \/ DeployRefused(p)
      PROVE  /\ proc[p].at \in {"new_row", "track", "send_failed"}
             /\ \A i, a : InReplay(proc[p]) /\ proc[p].agent = a => Covers(p, proc'[p], i, a)
  <2>1. proc[p].at \in {"new_row", "track", "send_failed"} /\ proc[p].then \in {"idle", "greet", "resume"}
    BY <1>4, ProcFact DEF TrackDeployment, DeployFailed, DeployRefused, LocalAt, Deploying
  <2>2. proc'[p] = [Idle(proc[p].then, proc[p].agent) EXCEPT !.todo = proc[p].todo, !.msg = proc[p].msg]
    BY <1>0, <1>4 DEF TrackDeployment, DeployFailed, DeployRefused, Return
  <2>3. proc'[p].at = proc[p].then /\ proc'[p].agent = proc[p].agent
    BY <2>2 DEF Idle
  <2> QED BY <2>1, <2>3 DEF Covers, Cleaning, InReplay
<1>5. CASE TrackDeployment(p) \/ DeployRefused(p)
  <2>1. UNCHANGED rows /\ proc[p].at \in {"new_row", "track"}
    BY <1>5 DEF TrackDeployment, DeployRefused, db
  <2>2. ASSUME NEW i \in 1 .. Len(rows), NEW a \in Agents, Covers(p, proc[p], i, a)
        PROVE  Covers(p, proc'[p], i, a)
    <3>1. InReplay(proc[p]) /\ proc[p].agent = a
      BY <2>1, <2>2 DEF Covers, Cleaning
    <3> QED BY <1>4, <1>5, <3>1
  <2>3. \A a \in Agents : conn'[a].ws = 0 => conn[a].ws = 0
    BY <1>5, SameConn DEF DeployRefused, manager
  <2> QED BY <1>1, <2>1, <2>2, <2>3, UnwrittenCalm, CalmStep
<1>6. CASE DeployFailed(p)
  <2>1. UNCHANGED conn /\ proc[p].at = "send_failed"
    BY <1>6 DEF DeployFailed, manager
  <2>2. Calm(rows') /\ rows'[proc[p].row].state \notin Active
    BY <1>6, CloseOne
  <2>3. ASSUME NEW i \in 1 .. Len(rows), NEW a \in Agents, Covers(p, proc[p], i, a), rows'[i].state \in Active
        PROVE  Covers(p, proc'[p], i, a)
    <3>1. InReplay(proc[p]) /\ proc[p].agent = a
      BY <2>1, <2>2, <2>3 DEF Covers, Cleaning
    <3> QED BY <1>4, <1>6, <3>1
  <2> QED BY <1>1, <2>1, <2>2, <2>3, SameConn, CalmStep
<1> QED BY <1>2, <1>3, <1>5, <1>6 DEF ExecuteDeployment

\* The handler of a connection, once it has greeted, covers the rows of its agent
\* until it has marked them; before that it covers nothing.
LEMMA HandlerCover ==
    ASSUME TypeOK, Locals, Covered, NEW w \in Conns, Handler(w), Kept(rows')
    PROVE  Covered'
<1> USE ProcsFact
<1>0. proc \in [Procs -> ProcType] /\ proc[w] \in ProcType /\ w \in Procs /\ proc[w].agent \in Agents
  BY ProcFact DEF TypeOK
<1>1. \A x \in Procs : x # w => proc'[x] = proc[x]
  BY <1>0, Zenon DEF Handler, ReadPending, ClearPending, Greet, ReceiveStatus, WriteStatus, HandleStatus,
            ReceiveHeartbeat, SyncRunning, ResumeBegin, ResumeNext, ResumeSkip, ResumeEnd, NoticeClosed, Unregister,
            MarkDisconnected, Goto
<1>2. CASE ReadPending(w) \/ ClearPending(w) \/ Greet(w)
  <2>1. proc[w].at \in {"accepted", "clear", "greet"} /\ UNCHANGED rows /\ UNCHANGED conn
    BY <1>2 DEF ReadPending, ClearPending, Greet, db, manager
  <2>2. \A i, a : ~Covers(w, proc[w], i, a)
    BY <2>1 DEF Covers, Cleaning, InReplay, Deploying
  <2> QED BY <1>0, <1>1, <2>1, <2>2, SameConn, UnwrittenCalm, CalmStep
<1>3. ASSUME ReceiveStatus(w) \/ HandleStatus(w) \/ ReceiveHeartbeat(w) \/ ResumeBegin(w) \/ ResumeEnd(w)
             \/ NoticeClosed(w) \/ ResumeNext(w) \/ ResumeSkip(w) \/ WriteStatus(w) \/ SyncRunning(w)
             \/ Unregister(w)
      PROVE  /\ \A i : Covers(w, proc'[w], i, proc[w].agent)
             /\ \A i, a : Covers(w, proc[w], i, a) => a = proc[w].agent
  <2>1. proc[w].at \in {"loop", "status", "status_memory", "sync", "resume_check", "resume", "unregister"}
    BY <1>3 DEF ReceiveStatus, HandleStatus, ReceiveHeartbeat, ResumeBegin, ResumeEnd,
                NoticeClosed, ResumeNext, ResumeSkip, WriteStatus, SyncRunning, Unregister
  <2>2. proc'[w].agent = proc[w].agent /\ Cleaning(proc'[w])
    <3>1. CASE ReceiveStatus(w) \/ WriteStatus(w) \/ ReceiveHeartbeat(w) \/ SyncRunning(w)
      <4>1. /\ proc'[w].at \in {"status", "status_memory", "sync", "resume_check"}
            /\ proc'[w].agent = proc[w].agent
        BY <1>0, <3>1 DEF ReceiveStatus, WriteStatus, ReceiveHeartbeat, SyncRunning, ProcType
      <4> QED BY <4>1 DEF Cleaning
    <3>2. CASE NoticeClosed(w) \/ Unregister(w)
      <4>1. proc'[w].at \in {"unregister", "mark"} /\ proc'[w].agent = proc[w].agent
        BY <1>0, <3>2 DEF NoticeClosed, Unregister, Goto, ProcType
      <4> QED BY <4>1 DEF Cleaning
    <3>3. CASE HandleStatus(w) \/ ResumeEnd(w)
      <4>1. proc'[w] = Idle("loop", proc[w].agent)
        BY <1>0, <3>3 DEF HandleStatus, ResumeEnd
      <4> QED BY <4>1 DEF Cleaning, Idle
    <3>4. CASE ResumeBegin(w)
      <4> DEFINE lost == Lost(proc[w].agent, proc[w].msg.running)
      <4>1. \/ proc'[w] = Idle("loop", proc[w].agent)
            \/ proc'[w] = [proc[w] EXCEPT !.at = "resume", !.todo = lost]
        <5> HIDE DEF lost
        <5> QED BY <1>0, <3>4 DEF ResumeBegin, lost
      <4> HIDE DEF lost
      <4>2. CASE proc'[w] = Idle("loop", proc[w].agent)
        BY <4>2 DEF Cleaning, Idle
      <4>3. CASE proc'[w] = [proc[w] EXCEPT !.at = "resume", !.todo = lost]
        <5>1. proc'[w].at = "resume" /\ proc'[w].agent = proc[w].agent
          BY <1>0, <4>3 DEF ProcType
        <5> QED BY <5>1 DEF Cleaning, InReplay
      <4> QED BY <4>1, <4>2, <4>3
    <3>5. CASE ResumeNext(w)
      <4> DEFINE n == Newest(proc[w].todo)
                 s == rows[n].scenario
                 t == proc[w].todo \ {n}
      <4>1. \/ proc'[w] = [proc[w] EXCEPT !.todo = {}]
            \/ proc'[w] = [proc[w] EXCEPT !.at = "new_row", !.scenario = s, !.row = n, !.todo = t, !.then = "resume"]
        BY <1>0, <3>5 DEF ResumeNext
      <4> HIDE DEF n, s, t
      <4>2. CASE proc'[w] = [proc[w] EXCEPT !.todo = {}]
        <5>1. proc'[w].at = "resume" /\ proc'[w].agent = proc[w].agent
          BY <1>0, <3>5, <4>2 DEF ProcType, ResumeNext
        <5> QED BY <5>1 DEF Cleaning, InReplay
      <4>3. CASE proc'[w] = [proc[w] EXCEPT !.at = "new_row", !.scenario = s, !.row = n, !.todo = t, !.then = "resume"]
        <5>1. proc'[w].at = "new_row" /\ proc'[w].then = "resume" /\ proc'[w].agent = proc[w].agent
          BY <1>0, <4>3 DEF ProcType
        <5> QED BY <5>1 DEF Cleaning, InReplay, Deploying
      <4> QED BY <4>1, <4>2, <4>3
    <3>6. CASE ResumeSkip(w)
      <4>1. proc'[w].at = "resume" /\ proc'[w].agent = proc[w].agent
        BY <3>6, ResumeFact
      <4> QED BY <4>1 DEF Cleaning, InReplay
    <3> QED BY <1>3, <3>1, <3>2, <3>3, <3>4, <3>5, <3>6
  <2>3. \A i, a : Covers(w, proc[w], i, a) => a = proc[w].agent
    BY <2>1 DEF Covers
  <2> QED BY <2>2, <2>3 DEF Covers
<1>4. CASE ReceiveStatus(w) \/ ReceiveHeartbeat(w) \/ ResumeBegin(w) \/ ResumeEnd(w)
           \/ NoticeClosed(w) \/ HandleStatus(w) \/ ResumeNext(w) \/ ResumeSkip(w)
  <2>1. Calm(rows')
    <3>1. CASE ResumeNext(w)
      BY <1>0, <3>1, CloseOne
    <3>2. CASE ~ResumeNext(w)
      <4>1. UNCHANGED rows
        BY <1>4, <3>2 DEF ReceiveStatus, ReceiveHeartbeat, ResumeBegin, ResumeSkip, ResumeEnd, NoticeClosed,
                          HandleStatus, db
      <4> QED BY <4>1, UnwrittenCalm
    <3> QED BY <3>1, <3>2
  <2>2. \A a \in Agents : conn'[a].ws = 0 => conn[a].ws = 0
    <3>1. HandleStatus(w) \/ UNCHANGED conn
      BY <1>4 DEF ReceiveStatus, ReceiveHeartbeat, ResumeBegin, ResumeEnd, NoticeClosed, ResumeNext, ResumeSkip,
                  manager
    <3> QED BY <1>0, <3>1, SameConn
  <2>3. \A i, a : Covers(w, proc[w], i, a) => Covers(w, proc'[w], i, a)
    BY <1>3, <1>4
  <2> QED BY <1>0, <1>1, <2>1, <2>2, <2>3, CalmStep
<1>5. CASE WriteStatus(w) \/ SyncRunning(w)
  <2>1. /\ Len(rows') = Len(rows) /\ UNCHANGED conn
        /\ \A i \in 1 .. Len(rows) :
               rows'[i].state \in Active => rows[i].state \in Active \/ rows'[i].agent = proc[w].agent
    <3>1. UNCHANGED conn
      BY <1>5 DEF WriteStatus, SyncRunning, manager
    <3> QED BY <1>0, <1>5, <3>1, CommitStates
  <2>2. ASSUME NEW i \in 1 .. Len(rows'), rows'[i].state \in Active, conn'[rows'[i].agent].ws = 0
        PROVE  \/ Covers(w, proc'[w], i, rows'[i].agent)
               \/ /\ i \in 1 .. Len(rows) /\ rows[i].state \in Active
                  /\ rows[i].agent = rows'[i].agent /\ conn[rows[i].agent].ws = 0
                  /\ ~Covers(w, proc[w], i, rows[i].agent)
    <3>1. i \in 1 .. Len(rows) /\ rows'[i].agent = rows[i].agent
      BY <2>1 DEF Kept, SameRow
    <3> QED BY <1>3, <1>5, <2>1, <2>2, <3>1
  <2> QED BY <1>0, <1>1, <2>2, CoverStep
<1>6. CASE Unregister(w)
  <2>1. /\ UNCHANGED rows /\ conn \in [Agents -> Connection]
        /\ conn' = [conn EXCEPT ![proc[w].agent] = [ws |-> 0, running |-> {}]]
    BY <1>6 DEF Unregister, db, TypeOK
  <2>2. ASSUME NEW i \in 1 .. Len(rows'), rows'[i].state \in Active, conn'[rows'[i].agent].ws = 0
        PROVE  \/ Covers(w, proc'[w], i, rows'[i].agent)
               \/ /\ i \in 1 .. Len(rows) /\ rows[i].state \in Active
                  /\ rows[i].agent = rows'[i].agent /\ conn[rows[i].agent].ws = 0
                  /\ ~Covers(w, proc[w], i, rows[i].agent)
    <3>1. rows[i].agent \in Agents
      BY <2>1, RowsFact DEF TypeOK, RowType
    <3>2. rows[i].agent = proc[w].agent \/ conn[rows[i].agent].ws = 0
      BY <2>1, <2>2, <3>1
    <3> QED BY <1>3, <1>6, <2>1, <2>2, <3>2
  <2> QED BY <1>0, <1>1, <2>2, CoverStep
<1>7. CASE MarkDisconnected(w)
  <2>1. proc[w].at = "mark" /\ rows' = Disconnected({proc[w].agent}) /\ UNCHANGED conn
    BY <1>7 DEF MarkDisconnected, manager
  <2>2. Calm(rows') /\ \A i \in 1 .. Len(rows) : rows'[i].agent = proc[w].agent => rows'[i].state \notin Active
    BY <2>1, DisconnectedStates
  <2>3. \A i, a : Covers(w, proc[w], i, a) => a = proc[w].agent
    BY <2>1 DEF Covers
  <2> QED BY <1>0, <1>1, <2>1, <2>2, <2>3, SameConn, CalmStep
<1> QED BY <1>2, <1>4, <1>5, <1>6, <1>7 DEF Handler

\* The HTTP requests: a page covers what it showed as running until it repairs it,
\* which succeeds because the rows it read still exist.
LEMMA RequestCover ==
    ASSUME TypeOK, Locals, Covered, FixReads, NEW r \in Requests, NewRequest(r) \/ Request(r), Kept(rows')
    PROVE  Covered'
<1> USE ProcsFact
<1>0. proc \in [Procs -> ProcType] /\ r \in Procs
  BY DEF TypeOK
<1>1. \A x \in Procs : x # r => proc'[x] = proc[x]
  BY <1>0, Zenon DEF NewRequest, Request, DeployRequest, StopRequest, StopOrphan, RemoveRequest, PageRequest,
               StopSend, StopWrite, RemoveWrite, PageRead, PageSync, PageFix, Goto
<1>2. UNCHANGED conn
  BY Zenon DEF NewRequest, Request, DeployRequest, StopRequest, StopOrphan, RemoveRequest, PageRequest,
               StopSend, StopWrite, RemoveWrite, PageRead, PageSync, PageFix, manager
<1>3. CASE NewRequest(r) \/ StopSend(r) \/ StopWrite(r) \/ RemoveWrite(r) \/ PageRead(r)
  <2>1. proc[r].at \in {"idle", "stop_send", "stop_write", "remove", "page_read"}
    BY <1>3 DEF NewRequest, DeployRequest, StopRequest, StopOrphan, RemoveRequest, PageRequest,
                StopSend, StopWrite, RemoveWrite, PageRead
  <2>2. Calm(rows')
    <3>1. CASE NewRequest(r) \/ StopSend(r) \/ PageRead(r)
      <4>1. UNCHANGED rows
        BY <3>1, Zenon DEF NewRequest, DeployRequest, StopRequest, StopOrphan, RemoveRequest, PageRequest,
                    StopSend, PageRead, db
      <4> QED BY <4>1, UnwrittenCalm
    <3>2. CASE StopWrite(r) \/ RemoveWrite(r)
      BY <1>0, <3>2, CommitStates, CloseOne
    <3> QED BY <1>3, <3>1, <3>2
  <2>3. \A i, a : ~Covers(r, proc[r], i, a)
    BY <2>1 DEF Covers, Cleaning, InReplay, Deploying
  <2> QED BY <1>0, <1>1, <1>2, <2>2, <2>3, SameConn, CalmStep
<1>4. CASE PageSync(r)
  <2>1. proc[r].at = "page_sync"
    BY <1>4 DEF PageSync
  <2>2. \A i, a : ~Covers(r, proc[r], i, a)
    BY <2>1 DEF Covers, Cleaning, InReplay, Deploying
  <2>3. CASE rows' = rows
    BY <1>0, <1>1, <1>2, <2>2, <2>3, SameConn, UnwrittenCalm, CalmStep
  <2>4. CASE rows' # rows
    <3>1. ASSUME NEW i \in 1 .. Len(rows'), rows'[i].state \in Active, conn'[rows'[i].agent].ws = 0
          PROVE  \/ Covers(r, proc'[r], i, rows'[i].agent)
                 \/ /\ i \in 1 .. Len(rows) /\ rows[i].state \in Active
                    /\ rows[i].agent = rows'[i].agent /\ conn[rows[i].agent].ws = 0
                    /\ ~Covers(r, proc[r], i, rows[i].agent)
      <4>1. /\ proc'[r].at = "page_fix" /\ i \in 1 .. Len(proc'[r].view) /\ proc'[r].view[i] = rows'[i].state
            /\ rows'[i].state = "running" \/ (i \in 1 .. Len(rows) /\ rows[i].state \in Active)
        BY <1>4, <2>4, <3>1, PageSyncStates
      <4>2. CASE rows'[i].state = "running"
        BY <4>1, <4>2 DEF Covers
      <4>3. CASE i \in 1 .. Len(rows) /\ rows[i].state \in Active
        <5>1. rows'[i].agent = rows[i].agent
          BY <4>3 DEF Kept, SameRow
        <5> QED BY <1>2, <2>2, <3>1, <4>3, <5>1
      <4> QED BY <4>1, <4>2, <4>3
    <3> QED BY <1>0, <1>1, <3>1, CoverStep
  <2> QED BY <2>3, <2>4
<1>5. CASE PageFix(r)
  <2> DEFINE v == proc[r].view
  <2>1. proc[r].at = "page_fix"
    BY <1>5 DEF PageFix
  <2>2. PICK stale : rows' = Committed(v, FixStates(v, stale))
    BY <1>5 DEF PageFix
  <2>3. rows \in Seq(RowType) /\ v \in Seq(RowState) /\ Len(v) <= Len(rows) /\ DOMAIN v = 1 .. Len(v)
    BY <1>0, ProcFact, LenProperties DEF TypeOK, LocalAt
  <2> DEFINE new == FixStates(v, stale)
  <2>4. /\ \A i \in 1 .. Len(v) : new[i] \in RowState /\ (new[i] # v[i] => v[i] # "deleted")
        /\ \A i \in 1 .. Len(v) : v[i] = "running" /\ conn[rows[i].agent].ws = 0 => new[i] = "disconnected"
    BY <2>3, StatesFact, PageStatesFact
  <2>5. \A i \in 1 .. Len(v) : rows[i].state = "deleted" => v[i] = "deleted"
    BY <2>1 DEF FixReads
  <2>6. \A i \in 1 .. Len(v) : new[i] # v[i] => rows[i].state # "deleted"
    <3> HIDE DEF new, v
    <3> QED BY <2>4, <2>5
  <2>7. Calm(rows')
    BY <1>0, <1>5, CommitStates
  <2>8. ASSUME NEW i \in 1 .. Len(rows), NEW a \in Agents, Covers(r, proc[r], i, a), conn'[a].ws = 0,
               rows'[i].agent = a
        PROVE  rows'[i].state \notin Active
    <3>1. i \in 1 .. Len(v) /\ v[i] = "running"
      BY <2>1, <2>8 DEF Covers, Cleaning, InReplay, Deploying
    <3>2. conn[rows[i].agent].ws = 0
      BY <1>2, <2>8 DEF Kept, SameRow
    <3>3. new[i] = "disconnected" /\ new[i] # v[i]
      <4> HIDE DEF new, v
      <4> QED BY <2>4, <3>1, <3>2
    <3>4. rows'[i].state = new[i]
      <4>1. rows' = Committed(v, new) /\ \A k \in DOMAIN v : new[k] \in RowState
        BY <2>2, <2>3, <2>4
      <4> HIDE DEF new, v
      <4> QED BY <2>3, <2>6, <3>1, <3>3, <4>1, CommittedStates
    <3> HIDE DEF new
    <3> QED BY <3>3, <3>4 DEF Active
  <2> QED BY <1>0, <1>1, <1>2, <2>7, <2>8, SameConn, CalmStep
<1> QED BY <1>3, <1>4, <1>5 DEF Request

LEMMA CoveredStep == ASSUME TypeOK, Locals, Fresh, Covered, FixReads, [Next]_vars PROVE Covered'
<1>0. Kept(rows')
  BY TableStep
<1>1. CASE UNCHANGED vars
  BY <1>1, SameConn, CoverUnchanged DEF vars
<1>2. ASSUME NEW a \in Agents, Agent(a) PROVE Covered'
  <2>1. CASE Connect(a)
    <3> DEFINE w == accepted + 1
    <3>1. w \in Conns /\ w \in Procs /\ w > accepted /\ proc \in [Procs -> ProcType]
      BY <2>1, ConnectFact, ProcsFact DEF TypeOK
    <3>2. proc[w].at = "none"
      BY <3>1 DEF Fresh
    <3>3. UNCHANGED rows /\ proc' = [proc EXCEPT ![w] = Idle("accepted", a)]
      BY <2>1 DEF Connect, db
    <3>4. \A b \in Agents : conn'[b].ws = 0 => conn[b].ws = 0
      BY <2>1, SameConn
    <3> HIDE DEF w
    <3>5. \A x \in Procs : x # w => proc'[x] = proc[x]
      BY <3>1, <3>3
    <3>6. \A i, b : ~Covers(w, proc[w], i, b)
      BY <3>2 DEF Covers, Cleaning, InReplay, Deploying
    <3> QED BY <1>0, <3>1, <3>3, <3>4, <3>5, <3>6, UnwrittenCalm, CalmStep
  <2>2. CASE ~Connect(a)
    <3>1. UNCHANGED <<rows, proc, conn>>
      BY <1>2, <2>2 DEF Agent, AgentDrop, AgentRestart, AgentCommand, SendHeartbeat, ScenarioEnds, SendStatus,
                        db, manager
    <3> QED BY <3>1, SameConn, CoverUnchanged
  <2> QED BY <2>1, <2>2
<1>3. CASE BackendRestart
  <2>1. rows' = Disconnected(Agents)
    BY <1>3 DEF BackendRestart
  <2>2. /\ Len(rows') = Len(rows)
        /\ \A i \in 1 .. Len(rows) : rows'[i].agent \in Agents => rows'[i].state \notin Active
    BY <2>1, DisconnectedStates
  <2>3. \A i \in 1 .. Len(rows) : rows'[i].agent \in Agents
    BY <1>0 DEF Kept, SameRow, RowType
  <2> QED BY <2>2, <2>3 DEF Covered
<1>4. ASSUME NEW p \in Conns \cup Requests, ExecuteDeployment(p) PROVE Covered'
  BY <1>0, <1>4, DeployCover DEF Procs
<1>5. ASSUME NEW w \in Conns, Handler(w) PROVE Covered'
  BY <1>0, <1>5, HandlerCover
<1>6. ASSUME NEW r \in Requests, NewRequest(r) \/ Request(r) PROVE Covered'
  BY <1>0, <1>6, RequestCover
<1> QED BY <1>1, <1>2, <1>3, <1>4, <1>5, <1>6 DEF Next

-----------------------------------------------------------------------------
(* What a page is about to repair still exists *)

\* Only PageSync leads to the repair of a page.
LEMMA FixEntry ==
    ASSUME TypeOK, Locals, [Next]_vars, NEW r \in Requests, proc'[r].at = "page_fix"
    PROVE  proc'[r] = proc[r] \/ PageSync(r)
<1> USE ProcsFact
<1>0. proc \in [Procs -> ProcType] /\ r \in Procs /\ r \notin Conns
  BY DEF TypeOK
<1>1. ASSUME NEW p \in Procs, ExecuteDeployment(p) PROVE proc'[r] = proc[r]
  <2>1. CASE p # r
    BY <1>0, <1>1, <2>1 DEF ExecuteDeployment, CreateRow, SendStart, TrackDeployment, DeployFailed, DeployRefused,
                    Goto, Return
  <2>2. CASE p = r
    <3>1. CASE CreateRow(r) \/ SendStart(r)
      <4>1. proc'[r].at \in {"send_start", "track", "send_failed"}
        BY <1>0, <3>1 DEF CreateRow, SendStart, Goto, ProcType
      <4> QED BY <4>1
    <3>2. CASE TrackDeployment(r) \/ DeployFailed(r) \/ DeployRefused(r)
      <4>1. proc[r].then \in {"idle", "greet", "resume"}
        BY <1>0, <3>2, ProcFact DEF TrackDeployment, DeployFailed, DeployRefused, LocalAt, Deploying
      <4>2. proc'[r] = [Idle(proc[r].then, proc[r].agent) EXCEPT !.todo = proc[r].todo, !.msg = proc[r].msg]
        BY <1>0, <3>2 DEF TrackDeployment, DeployFailed, DeployRefused, Return
      <4>3. proc'[r].at = proc[r].then
        BY <4>2 DEF Idle
      <4> QED BY <4>1, <4>3
    <3> QED BY <1>1, <2>2, <3>1, <3>2 DEF ExecuteDeployment
  <2> QED BY <2>1, <2>2
<1>2. ASSUME NEW w \in Conns, Handler(w) PROVE proc'[r] = proc[r]
  <2>1. r # w
    BY <1>0
  <2> QED BY <1>0, <1>2, <2>1, Zenon DEF Handler, ReadPending, ClearPending, Greet, ReceiveStatus, WriteStatus,
            HandleStatus, ReceiveHeartbeat, SyncRunning, ResumeBegin, ResumeNext, ResumeSkip, ResumeEnd,
            NoticeClosed, Unregister, MarkDisconnected, Goto
<1>3. ASSUME NEW x \in Requests, NewRequest(x) \/ Request(x) PROVE proc'[r] = proc[r] \/ PageSync(r)
  <2>1. CASE x # r
    BY <1>0, <1>3, <2>1, Zenon DEF NewRequest, Request, DeployRequest, StopRequest, StopOrphan, RemoveRequest, PageRequest,
               StopSend, StopWrite, RemoveWrite, PageRead, PageSync, PageFix, Goto
  <2>2. CASE x = r
    <3>1. CASE StopWrite(r) \/ RemoveWrite(r) \/ PageFix(r)
      <4>1. proc'[r] = Idle("idle", AnyAgent)
        BY <1>0, <3>1 DEF StopWrite, RemoveWrite, PageFix
      <4> QED BY <4>1 DEF Idle
    <3>2. CASE StopSend(r)
      <4>1. proc[r].then \in {"idle", "greet", "resume", "stop_write", "remove"}
        BY <1>0, ProcFact
      <4>2. proc'[r].at = proc[r].then
        BY <1>0, <3>2 DEF StopSend, Goto, ProcType
      <4> QED BY <4>1, <4>2
    <3>3. CASE PageRead(r)
      <4>1. proc'[r].at = "page_sync"
        BY <1>0, <3>3 DEF PageRead, ProcType
      <4> QED BY <4>1
    <3>4. CASE NewRequest(r)
      <4>1. proc'[r].at \in {"new_row", "stop_send", "remove", "page_read"}
        <5>1. ASSUME NEW a \in Agents, NEW s \in Scenarios,
                     DeployRequest(r, a, s) \/ StopRequest(r, a, s) \/ StopOrphan(r, a, s)
              PROVE  proc'[r].at \in {"new_row", "stop_send"}
          BY <1>0, <5>1 DEF DeployRequest, StopRequest, StopOrphan, Idle
        <5>2. ASSUME NEW i \in DOMAIN rows, RemoveRequest(r, i)
              PROVE  proc'[r].at \in {"stop_send", "remove"}
          <6>1. PICK at \in {"stop_send", "remove"} :
                   proc'[r] = [Idle(at, rows[i].agent) EXCEPT !.scenario = rows[i].scenario, !.row = i, !.then = "remove"]
            BY <1>0, <5>2 DEF RemoveRequest
          <6> QED BY <6>1 DEF Idle
        <5>3. ASSUME PageRequest(r) PROVE proc'[r].at = "page_read"
          BY <1>0, <5>3 DEF PageRequest, Idle
        <5> QED BY <3>4, <5>1, <5>2, <5>3 DEF NewRequest
      <4> QED BY <4>1
    <3> QED BY <1>3, <2>2, <3>1, <3>2, <3>3, <3>4 DEF Request
  <2> QED BY <2>1, <2>2
<1>4. ASSUME NEW a \in Agents, Agent(a) PROVE proc'[r] = proc[r]
  <2>1. CASE Connect(a)
    <3>1. accepted + 1 # r
      BY <1>0, <2>1, ConnectFact
    <3> QED BY <1>0, <2>1, <3>1 DEF Connect
  <2>2. CASE ~Connect(a)
    BY <1>4, <2>2 DEF Agent, AgentDrop, AgentRestart, AgentCommand, SendHeartbeat, ScenarioEnds, SendStatus
  <2> QED BY <2>1, <2>2
<1>5. CASE BackendRestart
  <2>1. proc'[r] = Idle("idle", AnyAgent)
    BY <1>0, <1>5 DEF BackendRestart
  <2> QED BY <2>1 DEF Idle
<1> QED BY <1>1, <1>2, <1>3, <1>4, <1>5 DEF Next, vars, Procs

\* Only the remove route deletes.
LEMMA IntactStep ==
    ASSUME TypeOK, Locals, [Next]_vars, \A r \in Requests : ~RemoveWrite(r)
    PROVE  Intact(rows')
<1> USE ProcsFact
<1>1. ASSUME NEW p \in Procs, ExecuteDeployment(p) PROVE Intact(rows')
  <2>1. CASE CreateRow(p)
    BY <2>1, CreateRowTable DEF Intact
  <2>2. CASE DeployFailed(p)
    BY <2>2, CloseOne
  <2>3. CASE SendStart(p) \/ TrackDeployment(p) \/ DeployRefused(p)
    BY <2>3, UnwrittenCalm DEF SendStart, TrackDeployment, DeployRefused, db
  <2> QED BY <1>1, <2>1, <2>2, <2>3 DEF ExecuteDeployment
<1>2. ASSUME NEW w \in Conns, Handler(w) PROVE Intact(rows')
  <2>1. CASE WriteStatus(w) \/ SyncRunning(w)
    BY <2>1, CommitStates
  <2>2. CASE ResumeNext(w)
    BY <2>2, CloseOne
  <2>3. CASE MarkDisconnected(w)
    BY <2>3, DisconnectedStates DEF MarkDisconnected
  <2>4. CASE ReadPending(w) \/ ClearPending(w) \/ Greet(w) \/ ReceiveStatus(w) \/ HandleStatus(w)
             \/ ReceiveHeartbeat(w) \/ ResumeBegin(w) \/ ResumeSkip(w) \/ ResumeEnd(w) \/ NoticeClosed(w)
             \/ Unregister(w)
    <3>1. UNCHANGED rows
      BY <2>4 DEF ReadPending, ClearPending, Greet, ReceiveStatus, HandleStatus, ReceiveHeartbeat,
                  ResumeBegin, ResumeSkip, ResumeEnd, NoticeClosed, Unregister, db
    <3> QED BY <3>1, UnwrittenCalm
  <2> QED BY <1>2, <2>1, <2>2, <2>3, <2>4 DEF Handler
<1>3. ASSUME NEW r \in Requests, NewRequest(r) \/ Request(r) PROVE Intact(rows')
  <2>1. CASE NewRequest(r) \/ StopSend(r) \/ PageRead(r)
    <3>1. UNCHANGED rows
      BY <2>1, Zenon DEF NewRequest, DeployRequest, StopRequest, StopOrphan, RemoveRequest, PageRequest,
                  StopSend, PageRead, db
    <3> QED BY <3>1, UnwrittenCalm
  <2>2. CASE StopWrite(r) \/ PageFix(r)
    BY <2>2, CommitStates
  <2>3. CASE PageSync(r)
    BY <2>3, PageSyncStates
  <2> QED BY <1>3, <2>1, <2>2, <2>3 DEF Request
<1>4. ASSUME NEW a \in Agents, Agent(a) PROVE Intact(rows')
  <2>1. UNCHANGED rows
    BY <1>4 DEF Agent, Connect, AgentDrop, AgentRestart, AgentCommand, SendHeartbeat, ScenarioEnds, SendStatus, db
  <2> QED BY <2>1, UnwrittenCalm
<1>5. CASE BackendRestart
  BY <1>5, DisconnectedStates DEF BackendRestart
<1>6. CASE UNCHANGED vars
  BY <1>6, UnwrittenCalm DEF vars
<1> QED BY <1>1, <1>2, <1>3, <1>4, <1>5, <1>6 DEF Next, Procs

LEMMA FixReadsStep == ASSUME TypeOK, Locals, FixReads, RemoveAlone, [Next]_vars PROVE FixReads'
<1> SUFFICES ASSUME NEW r \in Requests, proc'[r].at = "page_fix",
                    NEW i \in 1 .. Len(proc'[r].view), rows'[i].state = "deleted"
             PROVE  proc'[r].view[i] = "deleted"
  BY DEF FixReads
<1>1. CASE PageSync(r)
  <2>1. proc'[r].at # "idle"
    OBVIOUS
  <2>2. proc'[r] # Idle("idle", AnyAgent)
    BY <2>1 DEF Idle
  <2> QED BY <1>1, <2>2, PageSyncStates
<1>2. CASE proc'[r] = proc[r]
  <2>1. \A x \in Requests : ~RemoveWrite(x)
    BY <1>2 DEF RemoveAlone, RemoveWrite
  <2>2. i \in 1 .. Len(rows)
    <3>1. proc[r].view \in Seq(RowState) /\ Len(proc[r].view) <= Len(rows) /\ Len(rows) \in Nat
      BY ProcFact, ProcsFact, RowsFact DEF LocalAt, TypeOK
    <3>2. Len(proc[r].view) \in Nat
      BY <3>1, LenProperties
    <3> QED BY <1>2, <3>1, <3>2
  <2>3. rows[i].state = "deleted"
    BY <2>1, <2>2, IntactStep DEF Intact
  <2> QED BY <1>2, <2>3 DEF FixReads
<1> QED BY <1>1, <1>2, FixEntry

-----------------------------------------------------------------------------
(* The theorem *)

OfflineInv == HubInv /\ Covered /\ FixReads

LEMMA OfflineInit == Init => OfflineInv
<1> SUFFICES ASSUME Init PROVE OfflineInv
  OBVIOUS
<1>1. HubInv
  BY HubInit
<1>2. Covered
  <2>1. 1 .. Len(rows) = {}
    BY EmptySeq DEF Init
  <2> QED BY <2>1 DEF Covered
<1>3. FixReads
  <2>1. ASSUME NEW r \in Requests PROVE proc[r].at # "page_fix"
    <3>1. r \in Conns \cup Requests /\ r \notin Conns
      BY ProcsFact
    <3>2. proc[r] = Idle("idle", AnyAgent)
      BY <3>1 DEF Init
    <3> QED BY <3>2 DEF Idle
  <2> QED BY <2>1 DEF FixReads
<1> QED BY <1>1, <1>2, <1>3 DEF OfflineInv

LEMMA OfflineNext == OfflineInv /\ RemoveAlone /\ [Next]_vars => OfflineInv'
  BY HubNext, CoveredStep, FixReadsStep DEF OfflineInv, HubInv

LEMMA OfflineFact == OfflineInv => OfflineIsVisible
<1> SUFFICES ASSUME OfflineInv, NEW a \in Agents,
                    ~Registered(a),
                    \A w \in Conns : proc[w].agent = a => proc[w].at \in {"none"} \cup Ended,
                    \A r \in Requests : proc[r].at = "idle",
                    NEW i \in DOMAIN rows, rows[i].agent = a
             PROVE  rows[i].state \notin Active
  BY DEF OfflineIsVisible
<1>1. i \in 1 .. Len(rows) /\ conn[rows[i].agent].ws = 0
  BY RowsFact DEF OfflineInv, HubInv, TypeOK, Registered
<1>2. ASSUME NEW p \in Procs, Covers(p, proc[p], i, a) PROVE FALSE
  <2>1. CASE p \in Requests
    BY <1>2, <2>1 DEF Covers, Cleaning, InReplay, Deploying
  <2>2. CASE p \in Conns
    <3>1. p \notin Requests
      BY <2>2, ProcsFact
    <3>2. proc[p].agent = a
      BY <1>2, <3>1 DEF Covers
    <3>3. proc[p].at \in {"none", "closed", "aborted"}
      BY <2>2, <3>2 DEF Ended
    <3> QED BY <1>2, <3>1, <3>3 DEF Covers, Cleaning, InReplay, Deploying
  <2> QED BY <2>1, <2>2 DEF Procs
<1> QED BY <1>1, <1>2 DEF OfflineInv, Covered

\* Once nothing is left of an agent on the backend, none of its rows is active, for
\* any number of agents, connections and requests and whatever sockets, handlers and
\* routes do, as long as no row is removed between the two commits of a deployments
\* page: a removed row fails the second commit, which was to close what the first
\* had shown as running (list_deployments).
THEOREM HubOfflineIsVisible == Spec /\ []RemoveAlone => []OfflineIsVisible
  BY OfflineInit, OfflineNext, OfflineFact, PTL DEF Spec

\* In particular where requests come one at a time.
COROLLARY HubOfflineOneRequest == MaxRequests <= 1 => (Spec => []OfflineIsVisible)
<1> SUFFICES ASSUME MaxRequests <= 1 PROVE Spec => []OfflineIsVisible
  OBVIOUS
<1>1. RemoveAlone
  <2>1. MaxRequests \in Nat /\ MaxConns \in Nat
    BY HubAssumption
  <2>2. \A r, q \in Requests : r = q
    BY <2>1 DEF Requests
  <2> QED BY <2>2 DEF RemoveAlone
<1> QED BY <1>1, HubOfflineIsVisible, PTL
=============================================================================
