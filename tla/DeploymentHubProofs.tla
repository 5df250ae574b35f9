-------------------------- MODULE DeploymentHubProofs --------------------------
(***************************************************************************)
(* Proofs about DeploymentHub: its type invariant, that an agent has one   *)
(* replay at a time, and that no lost row is replayed twice.               *)
(***************************************************************************)
EXTENDS DeploymentHub, TLAPS, FiniteSetTheorems, SequenceTheorems, NaturalsInduction

\* What the local variables of coroutine p may be at each of its places, in a table
\* of n rows.
LocalAt(p, q, n) ==
    /\ Len(q.view) <= n /\ q.todo \subseteq 1 .. n /\ q.row <= n
    /\ q.at \in {"send_start", "track", "send_failed", "remove"} => q.row # 0
    /\ q.at = "stop_send" /\ q.then = "remove" => q.row # 0
    /\ q.at \in {"status", "status_memory"} => q.msg \in Status
    /\ q.at \in {"sync", "resume_check"} => q.msg \in Heartbeat
    /\ q.at \in {"page_read", "page_sync"} => q.msg \in Page
    /\ q.at \in {"accepted", "clear"} => q.row = 0
    /\ q.at = "clear" => q.then = "greet"
    /\ q.at \in Deploying => q.then \in {"idle", "greet", "resume"}
    /\ q.at = "new_row" /\ q.then # "resume" => q.row = 0
    /\ p \in Requests => q.then # "resume"

Locals == \A p \in Procs : LocalAt(p, proc[p], Len(rows))

-----------------------------------------------------------------------------
(* Sets and sequences *)

\* A nonempty set of row numbers has a last one, and Newest finds it.
LEMMA NewestFact ==
    ASSUME NEW n \in Nat, NEW I, I \subseteq 1 .. n, I # {}
    PROVE  Newest(I) \in I /\ \A j \in I : j <= Newest(I)
<1> DEFINE R == {ss \in Nat \X Nat : ss[1] < ss[2]}
           S == {n - i : i \in I}
<1>1. R = OpToRel(<, Nat)
  BY Zenon DEF OpToRel
<1>2. IsWellFoundedOn(R, Nat)
  BY <1>1, NatLessThanWellFounded, Zenon
<1>3. S \subseteq Nat /\ S # {}
  <2>1. PICK i \in I : TRUE
    OBVIOUS
  <2>2. n - i \in S
    BY <2>1
  <2>3. \A j \in I : n - j \in Nat
    OBVIOUS
  <2> QED BY <2>2, <2>3
<1>4. PICK m \in S : \A k \in S : <<k, m>> \notin R
  <2> HIDE DEF R, S
  <2> QED BY <1>2, <1>3, WFMin
<1>5. PICK i \in I : m = n - i
  BY <1>4
<1>6. \A j \in I : j <= i
  <2> SUFFICES ASSUME NEW j \in I PROVE j <= i
    OBVIOUS
  <2>1. n - j \in S /\ n - j \in Nat /\ m \in Nat
    BY <1>3, <1>4
  <2>2. ~(n - j < m)
    <3>1. <<n - j, m>> \in Nat \X Nat /\ <<n - j, m>>[1] = n - j /\ <<n - j, m>>[2] = m
      BY <2>1
    <3> QED BY <1>4, <2>1, <3>1
  <2> QED BY <1>5, <2>1, <2>2
<1> QED BY <1>5, <1>6 DEF Newest

\* The elements of a finite set can be put in an order.
LEMMA OrderFact ==
    ASSUME NEW S, IsFiniteSet(S)
    PROVE  /\ Cardinality(S) \in Nat
           /\ (CHOOSE q \in [1 .. Cardinality(S) -> S] : \A s \in S : \E i \in DOMAIN q : q[i] = s)
                 \in [1 .. Cardinality(S) -> S]
<1>1. Cardinality(S) \in Nat /\ ExistsBijection(1 .. Cardinality(S), S)
  BY FS_CardinalityType
<1>2. PICK q \in [1 .. Cardinality(S) -> S] : \A s \in S : \E i \in 1 .. Cardinality(S) : q[i] = s
  BY <1>1 DEF ExistsBijection, Bijection, Surjection, Injection
<1>3. \A s \in S : \E i \in DOMAIN q : q[i] = s
  BY <1>2
<1> QED BY <1>1, <1>2, <1>3

\* A function on 1 .. n is a sequence of length n.
LEMMA SeqOf ==
    ASSUME NEW S, NEW n \in Nat, NEW f \in [1 .. n -> S]
    PROVE  f \in Seq(S) /\ Len(f) = n /\ DOMAIN f = 1 .. n
<1>1. f \in Seq(S)
  BY SeqDef
<1>2. Len(f) \in Nat /\ 1 .. Len(f) = 1 .. n
  BY <1>1, LenProperties
<1>3. ASSUME Len(f) < n PROVE FALSE
  <2>1. n \in 1 .. n /\ n \notin 1 .. Len(f)
    BY <1>2, <1>3
  <2> QED BY <1>2, <2>1
<1>4. ASSUME n < Len(f) PROVE FALSE
  <2>1. Len(f) \in 1 .. Len(f) /\ Len(f) \notin 1 .. n
    BY <1>2, <1>4
  <2> QED BY <1>2, <2>1
<1> QED BY <1>1, <1>2, <1>3, <1>4

\* The rows of the table.
LEMMA RowsFact ==
    ASSUME rows \in Seq(RowType)
    PROVE  /\ Len(rows) \in Nat /\ DOMAIN rows = 1 .. Len(rows)
           /\ \A i \in 1 .. Len(rows) : rows[i] \in RowType
  BY ElementOfSeq, LenProperties

LEMMA StopAllFact ==
    ASSUME NEW S, S \subseteq Scenarios
    PROVE  StopAll(S) \in Seq(Command)
<1>1. IsFiniteSet(S)
  BY HubAssumption, FS_Subset
<1> DEFINE order == CHOOSE q \in [1 .. Cardinality(S) -> S] : \A s \in S : \E i \in DOMAIN q : q[i] = s
<1>2. Cardinality(S) \in Nat /\ order \in [1 .. Cardinality(S) -> S]
  BY <1>1, OrderFact
<1>3. StopAll(S) = [i \in DOMAIN order |-> CommandOf("STOP", order[i])]
  BY DEF StopAll
<1> HIDE DEF order
<1>4. StopAll(S) \in [1 .. Cardinality(S) -> Command]
  BY <1>2, <1>3 DEF CommandOf, Command
<1> QED BY <1>2, <1>4, SeqDef

-----------------------------------------------------------------------------
(* The table *)

\* Row y is row x after a write: what it is about never changes, and a deleted
\* row stays deleted.
SameRow(x, y) ==
    /\ y \in RowType
    /\ y.agent = x.agent /\ y.scenario = x.scenario /\ y.src = x.src
    /\ x.state = "deleted" => y.state = "deleted"

\* R is the table after a step.
Kept(R) ==
    /\ R \in Seq(RowType) /\ Len(rows) <= Len(R)
    /\ \A i \in 1 .. Len(rows) : SameRow(rows[i], R[i])

\* The rows that R adds replay no other.
Plain(R) == \A j \in Len(rows) + 1 .. Len(R) : R[j].src = 0

\* The writes to a row.
LEMMA SameRowFact ==
    ASSUME NEW x \in RowType
    PROVE  /\ SameRow(x, x)
           /\ SameRow(x, [x EXCEPT !.state = "deleted"])
           /\ \A y \in {"none", "user", "replay"} : SameRow(x, [x EXCEPT !.why = y])
           /\ x.state # "deleted" =>
                 \A st \in RowState :
                     /\ SameRow(x, [x EXCEPT !.state = st])
                     /\ \A y \in {"none", "user", "replay"} : SameRow(x, [x EXCEPT !.state = st, !.why = y])
<1> USE DEF SameRow, RowType, RowState
<1>1. SameRow(x, x)
  OBVIOUS
<1>2. SameRow(x, [x EXCEPT !.state = "deleted"])
  OBVIOUS
<1>3. \A y \in {"none", "user", "replay"} : SameRow(x, [x EXCEPT !.why = y])
  OBVIOUS
<1>4. ASSUME x.state # "deleted", NEW st \in RowState PROVE SameRow(x, [x EXCEPT !.state = st])
  BY <1>4
<1>5. ASSUME x.state # "deleted", NEW st \in RowState, NEW y \in {"none", "user", "replay"}
      PROVE  SameRow(x, [x EXCEPT !.state = st, !.why = y])
  BY <1>5
<1> QED BY <1>1, <1>2, <1>3, <1>4, <1>5

\* Rows are written where they are.
LEMMA WrittenFact ==
    ASSUME rows \in Seq(RowType), NEW R, DOMAIN R = 1 .. Len(rows), R = [i \in DOMAIN R |-> R[i]],
           \A i \in 1 .. Len(rows) : SameRow(rows[i], R[i])
    PROVE  Kept(R) /\ Len(R) = Len(rows) /\ Plain(R)
<1>1. Len(rows) \in Nat
  BY RowsFact
<1>2. R \in [1 .. Len(rows) -> RowType]
  BY DEF SameRow
<1>3. R \in Seq(RowType) /\ Len(R) = Len(rows)
  BY <1>1, <1>2, SeqOf
<1>4. Kept(R)
  BY <1>1, <1>3 DEF Kept
<1>5. Len(rows) + 1 .. Len(R) = {}
  BY <1>1, <1>3
<1> QED BY <1>3, <1>4, <1>5 DEF Plain

\* A table that does not change.
LEMMA UnwrittenFact ==
    ASSUME rows \in Seq(RowType)
    PROVE  Kept(rows) /\ Plain(rows)
<1>1. DOMAIN rows = 1 .. Len(rows) /\ rows = [i \in DOMAIN rows |-> rows[i]]
  BY RowsFact
<1>2. \A i \in 1 .. Len(rows) : SameRow(rows[i], rows[i])
  BY RowsFact, SameRowFact, Zenon
<1> QED BY <1>1, <1>2, WrittenFact

\* A commit writes the states that its session changed.
LEMMA CommittedFact ==
    ASSUME rows \in Seq(RowType), NEW v \in Seq(RowState), NEW new,
           \A i \in DOMAIN v : new[i] \in RowState
    PROVE  Kept(Committed(v, new)) /\ Len(Committed(v, new)) = Len(rows) /\ Plain(Committed(v, new))
<1> DEFINE dirty == {i \in DOMAIN v : new[i] # v[i]}
           R == Committed(v, new)
<1>1. CASE \E i \in dirty : rows[i].state = "deleted"
  <2>1. R = rows
    BY <1>1 DEF Committed
  <2> QED BY <2>1, UnwrittenFact
<1>2. CASE ~\E i \in dirty : rows[i].state = "deleted"
  <2> HIDE DEF dirty
  <2>1. R = [i \in DOMAIN rows |-> IF i \in dirty THEN [rows[i] EXCEPT !.state = new[i]] ELSE rows[i]]
    BY <1>2 DEF Committed, dirty
  <2>2. DOMAIN R = 1 .. Len(rows) /\ R = [i \in DOMAIN R |-> R[i]]
    BY <2>1, RowsFact
  <2>3. ASSUME NEW i \in 1 .. Len(rows)
        PROVE  SameRow(rows[i], R[i])
    <3>1. rows[i] \in RowType /\ i \in DOMAIN rows
      BY RowsFact
    <3>2. CASE i \in dirty
      <4>1. new[i] \in RowState /\ rows[i].state # "deleted"
        BY <1>2, <3>2 DEF dirty
      <4>2. R[i] = [rows[i] EXCEPT !.state = new[i]]
        BY <2>1, <3>1, <3>2
      <4>3. SameRow(rows[i], [rows[i] EXCEPT !.state = new[i]])
        BY <3>1, <4>1, SameRowFact, Zenon
      <4> QED BY <4>2, <4>3
    <3>3. CASE i \notin dirty
      <4>1. R[i] = rows[i]
        BY <2>1, <3>1, <3>3
      <4> QED BY <3>1, <4>1, SameRowFact, Zenon
    <3> QED BY <3>2, <3>3
  <2> HIDE DEF R
  <2>4. Kept(R) /\ Len(R) = Len(rows) /\ Plain(R)
    BY <2>2, <2>3, WrittenFact
  <2> QED BY <2>4 DEF R
<1> QED BY <1>1, <1>2

\* A coroutine and its message.
LEMMA ProcFact ==
    ASSUME TypeOK, Locals, NEW p \in Procs
    PROVE  /\ proc[p] \in ProcType /\ proc[p].at \in Places
           /\ proc[p].agent \in Agents /\ proc[p].scenario \in Scenarios
           /\ proc[p].row \in Nat /\ proc[p].view \in Seq(RowState) /\ proc[p].todo \in SUBSET Nat
           /\ proc[p].then \in {"idle", "greet", "resume", "stop_write", "remove"}
           /\ LocalAt(p, proc[p], Len(rows))
<1>1. proc[p] \in ProcType
  BY DEF TypeOK
<1> QED BY <1>1 DEF ProcType, Locals

\* The states that a session computes are states of rows.
LEMMA StatesFact ==
    ASSUME NEW v \in Seq(RowState)
    PROVE  /\ \A a, s : \A st \in {"running", "stopping", "stopped", "error"} :
                 \A i \in DOMAIN v : StatusStates(v, a, s, st)[i] \in RowState
           /\ \A a, S : \A i \in DOMAIN v : SyncStates(v, a, S)[i] \in RowState
           /\ \A seen : \A i \in DOMAIN v : PageStates(v, seen)[i] \in RowState
           /\ \A stale : \A i \in DOMAIN v : FixStates(v, stale)[i] \in RowState
<1>1. \A i \in DOMAIN v : v[i] \in RowState
  BY ElementOfSeq, LenProperties
<1> USE <1>1
<1>2. ASSUME NEW a, NEW s, NEW st \in {"running", "stopping", "stopped", "error"}, NEW i \in DOMAIN v
      PROVE  StatusStates(v, a, s, st)[i] \in RowState
  <2> DEFINE I == RowsIn(v, a, s, {"starting", "running", "stopping", "disconnected"}
                                \cup (IF st = "running" THEN {"stopped"} ELSE {}))
             n == Newest(I)
  <2>1. StatusStates(v, a, s, st)[i] = IF i \notin I THEN v[i] ELSE IF i = n THEN st
                                       ELSE IF v[i] \in Active \cup {"disconnected"} THEN "stopped" ELSE v[i]
    BY Zenon DEF StatusStates
  <2>2. st \in RowState /\ "stopped" \in RowState
    BY DEF RowState
  <2> HIDE DEF I, n
  <2> QED BY <2>1, <2>2, Zenon
<1>3. ASSUME NEW a, NEW S, NEW i \in DOMAIN v
      PROVE  SyncStates(v, a, S)[i] \in RowState
  <2> DEFINE s == rows[i].scenario
             I == RowsIn(v, a, s, Present)
             n == Newest(I)
  <2>1. SyncStates(v, a, S)[i] = IF s \notin S \/ i \notin I THEN v[i]
                                 ELSE IF i = n THEN IF v[i] \in {"stopping", "stopped"} THEN v[i] ELSE "running"
                                 ELSE IF v[i] \in Active \cup {"disconnected"} THEN "stopped" ELSE v[i]
    BY Zenon DEF SyncStates
  <2>2. "running" \in RowState /\ "stopped" \in RowState
    BY DEF RowState
  <2> HIDE DEF I, n, s
  <2> QED BY <2>1, <2>2, Zenon
<1>4. ASSUME NEW seen, NEW i \in DOMAIN v
      PROVE  PageStates(v, seen)[i] \in RowState
  <2>1. PageStates(v, seen)[i] \in {"running", v[i]}
    BY Zenon DEF PageStates
  <2>2. "running" \in RowState
    BY DEF RowState
  <2> QED BY <2>1, <2>2
<1>5. ASSUME NEW stale, NEW i \in DOMAIN v
      PROVE  FixStates(v, stale)[i] \in RowState
  <2> DEFINE c == conn[rows[i].agent]
             gone == rows[i].scenario \notin c.running
  <2>1. FixStates(v, stale)[i] =
           CASE v[i] = "stopping" /\ gone -> "stopped"
             [] v[i] = "running" /\ c.ws = 0 -> "disconnected"
             [] v[i] = "running" /\ c.ws # 0 /\ gone -> "stopped"
             [] v[i] = "starting" /\ c.ws = 0 /\ i \in stale -> "error"
             [] OTHER -> v[i]
    BY Zenon DEF FixStates
  <2>2. {"stopped", "disconnected", "error"} \subseteq RowState
    BY DEF RowState
  <2> HIDE DEF c, gone
  <2> QED BY <2>1, <2>2
<1> QED BY <1>2, <1>3, <1>4, <1>5

\* One row is written.
LEMMA RowWritten ==
    ASSUME rows \in Seq(RowType), NEW i \in 1 .. Len(rows), NEW y, SameRow(rows[i], y)
    PROVE  /\ Kept([rows EXCEPT ![i] = y]) /\ Len([rows EXCEPT ![i] = y]) = Len(rows)
           /\ Plain([rows EXCEPT ![i] = y])
<1> DEFINE R == [rows EXCEPT ![i] = y]
<1>1. DOMAIN R = 1 .. Len(rows) /\ R = [k \in DOMAIN R |-> R[k]]
  BY RowsFact
<1>2. ASSUME NEW k \in 1 .. Len(rows) PROVE SameRow(rows[k], R[k])
  <2>1. CASE k = i
    BY <2>1, RowsFact
  <2>2. CASE k # i
    <3>1. R[k] = rows[k]
      BY <2>2, RowsFact
    <3> HIDE DEF R
    <3> QED BY <3>1, RowsFact, SameRowFact, Zenon
  <2> QED BY <2>1, <2>2
<1> HIDE DEF R
<1>3. Kept(R) /\ Len(R) = Len(rows) /\ Plain(R)
  BY <1>1, <1>2, WrittenFact
<1> QED BY <1>3 DEF R

\* The rows of agents that are gone.
LEMMA DisconnectedFact ==
    ASSUME rows \in Seq(RowType), NEW A
    PROVE  Kept(Disconnected(A)) /\ Len(Disconnected(A)) = Len(rows) /\ Plain(Disconnected(A))
<1> DEFINE R == Disconnected(A)
<1>1. DOMAIN R = 1 .. Len(rows) /\ R = [k \in DOMAIN R |-> R[k]]
  BY RowsFact, Zenon DEF Disconnected
<1>2. ASSUME NEW k \in 1 .. Len(rows) PROVE SameRow(rows[k], R[k])
  <2>1. rows[k] \in RowType /\ k \in DOMAIN rows
    BY RowsFact
  <2>2. \/ R[k] = rows[k]
        \/ rows[k].state \in Active \cup {"stopping"} /\ R[k] = [rows[k] EXCEPT !.state = "disconnected"]
    BY <2>1, Zenon DEF Disconnected
  <2>3. CASE R[k] = rows[k]
    BY <2>1, <2>3, SameRowFact, Zenon
  <2>4. CASE rows[k].state \in Active \cup {"stopping"} /\ R[k] = [rows[k] EXCEPT !.state = "disconnected"]
    <3>1. rows[k].state # "deleted" /\ "disconnected" \in RowState
      BY <2>4 DEF Active, RowState
    <3>2. SameRow(rows[k], [rows[k] EXCEPT !.state = "disconnected"])
      BY <2>1, <3>1, SameRowFact, Zenon
    <3> QED BY <2>4, <3>2
  <2> QED BY <2>2, <2>3, <2>4
<1> HIDE DEF R
<1>3. Kept(R) /\ Len(R) = Len(rows) /\ Plain(R)
  BY <1>1, <1>2, WrittenFact
<1> QED BY <1>3 DEF R

\* The rows that the deployments page adds.
LEMMA OrphanRowsFact ==
    ASSUME NEW O, O \subseteq Agents \X Scenarios
    PROVE  /\ OrphanRows(O) \in Seq(RowType)
           /\ \A j \in 1 .. Len(OrphanRows(O)) : OrphanRows(O)[j].src = 0
<1>1. IsFiniteSet(O)
  BY HubAssumption, FS_Product, FS_Subset
<1> DEFINE order == CHOOSE q \in [1 .. Cardinality(O) -> O] : \A o \in O : \E i \in DOMAIN q : q[i] = o
<1>2. Cardinality(O) \in Nat /\ order \in [1 .. Cardinality(O) -> O]
  BY <1>1, OrderFact
<1>3. OrphanRows(O) = [i \in DOMAIN order |-> NewRow(order[i][1], order[i][2], "running", 0)]
  BY DEF OrphanRows
<1> HIDE DEF order
<1>4. \A o \in O : NewRow(o[1], o[2], "running", 0) \in RowType /\ NewRow(o[1], o[2], "running", 0).src = 0
  BY DEF NewRow, RowType, RowState
<1>5. /\ OrphanRows(O) \in [1 .. Cardinality(O) -> RowType]
      /\ \A j \in 1 .. Cardinality(O) : OrphanRows(O)[j].src = 0
  <2>1. DOMAIN order = 1 .. Cardinality(O) /\ \A i \in 1 .. Cardinality(O) : order[i] \in O
    BY <1>2
  <2>2. ASSUME NEW i \in 1 .. Cardinality(O)
        PROVE  OrphanRows(O)[i] \in RowType /\ OrphanRows(O)[i].src = 0
    <3>1. OrphanRows(O)[i] = NewRow(order[i][1], order[i][2], "running", 0)
      BY <1>3, <2>1
    <3> QED BY <1>4, <2>1, <3>1
  <2>3. OrphanRows(O) = [i \in 1 .. Cardinality(O) |-> OrphanRows(O)[i]]
    BY <1>3, <2>1
  <2> HIDE <1>3
  <2> QED BY <2>2, <2>3
<1> QED BY <1>2, <1>5, SeqOf

\* Rows are added to a table.
LEMMA ConcatFact ==
    ASSUME rows \in Seq(RowType), NEW R, Kept(R), Len(R) = Len(rows), NEW T \in Seq(RowType)
    PROVE  /\ Kept(R \o T) /\ Len(R \o T) = Len(rows) + Len(T)
           /\ \A j \in Len(rows) + 1 .. Len(R \o T) : (R \o T)[j] = T[j - Len(rows)] /\ j - Len(rows) \in 1 .. Len(T)
<1>1. R \in Seq(RowType) /\ Len(rows) \in Nat /\ Len(T) \in Nat
  BY RowsFact, LenProperties DEF Kept
<1>2. /\ R \o T \in Seq(RowType) /\ Len(R \o T) = Len(rows) + Len(T)
      /\ \A i \in 1 .. Len(rows) + Len(T) : (R \o T)[i] = IF i <= Len(rows) THEN R[i] ELSE T[i - Len(rows)]
  <2>1. /\ R \o T \in Seq(RowType) /\ Len(R \o T) = Len(R) + Len(T)
        /\ \A i \in 1 .. Len(R) + Len(T) : (R \o T)[i] = IF i <= Len(R) THEN R[i] ELSE T[i - Len(R)]
    BY <1>1, ConcatProperties, Zenon
  <2> QED BY <2>1
<1>3. \A i \in 1 .. Len(rows) : (R \o T)[i] = R[i]
  BY <1>1, <1>2
<1>4. Kept(R \o T)
  <2>1. Len(rows) <= Len(R \o T)
    BY <1>1, <1>2
  <2>2. ASSUME NEW i \in 1 .. Len(rows) PROVE SameRow(rows[i], (R \o T)[i])
    BY <1>3 DEF Kept
  <2> QED BY <1>2, <2>1, <2>2 DEF Kept
<1>5. ASSUME NEW j \in Len(rows) + 1 .. Len(R \o T)
      PROVE  (R \o T)[j] = T[j - Len(rows)] /\ j - Len(rows) \in 1 .. Len(T)
  BY <1>1, <1>2
<1> QED BY <1>2, <1>4, <1>5

-----------------------------------------------------------------------------
(* Steps of the table *)

\* A step that writes no row.
LEMMA NoWrite == ASSUME TypeOK, UNCHANGED rows PROVE Kept(rows') /\ Plain(rows')
  BY UnwrittenFact DEF TypeOK

LEMMA CreateRowTable ==
    ASSUME TypeOK, Locals, NEW p \in Procs, CreateRow(p)
    PROVE  /\ Kept(rows') /\ Len(rows') = Len(rows) + 1
           /\ rows'[Len(rows) + 1] = NewRow(proc[p].agent, proc[p].scenario, "starting", proc[p].row)
           /\ \A i \in 1 .. Len(rows) : rows'[i] = rows[i]
<1> DEFINE x == NewRow(proc[p].agent, proc[p].scenario, "starting", proc[p].row)
<1>1. x \in RowType
  BY ProcFact DEF NewRow, RowType, RowState
<1>2. rows \in Seq(RowType) /\ rows' = Append(rows, x)
  BY DEF TypeOK, CreateRow
<1> HIDE DEF x
<1>3. /\ rows' \in Seq(RowType) /\ Len(rows') = Len(rows) + 1 /\ rows'[Len(rows) + 1] = x
      /\ \A i \in 1 .. Len(rows) : rows'[i] = rows[i]
  BY <1>1, <1>2, AppendProperties
<1>4. \A i \in 1 .. Len(rows) : SameRow(rows[i], rows'[i])
  BY <1>2, <1>3, RowsFact, SameRowFact, Zenon
<1>5. Len(rows) <= Len(rows')
  BY <1>2, <1>3, RowsFact
<1> QED BY <1>3, <1>4, <1>5 DEF Kept, x

LEMMA DeployFailedTable ==
    ASSUME TypeOK, Locals, NEW p \in Procs, DeployFailed(p)
    PROVE  Kept(rows') /\ Plain(rows')
<1> DEFINE i == proc[p].row
<1>1. rows \in Seq(RowType) /\ Len(rows) \in Nat
  BY RowsFact DEF TypeOK
<1>2. i \in 1 .. Len(rows)
  <2>1. i \in Nat /\ i <= Len(rows) /\ i # 0
    BY ProcFact DEF DeployFailed, LocalAt
  <2> QED BY <1>1, <2>1
<1>3. CASE rows[i].state = "deleted"
  BY <1>3, NoWrite DEF DeployFailed
<1>4. CASE rows[i].state # "deleted"
  <2>1. rows' = [rows EXCEPT ![i] = [rows[i] EXCEPT !.state = "error"]]
    BY <1>4 DEF DeployFailed
  <2>2. SameRow(rows[i], [rows[i] EXCEPT !.state = "error"])
    <3>1. "error" \in RowState /\ rows[i] \in RowType
      BY <1>1, <1>2, RowsFact DEF RowState
    <3> QED BY <1>4, <3>1, SameRowFact, Zenon
  <2> HIDE DEF i
  <2> QED BY <1>1, <1>2, <2>1, <2>2, RowWritten
<1> QED BY <1>3, <1>4

LEMMA RemoveWriteTable ==
    ASSUME TypeOK, Locals, NEW p \in Procs, RemoveWrite(p)
    PROVE  Kept(rows') /\ Plain(rows')
<1> DEFINE i == proc[p].row
<1>1. rows \in Seq(RowType) /\ Len(rows) \in Nat
  BY RowsFact DEF TypeOK
<1>2. i \in 1 .. Len(rows)
  <2>1. i \in Nat /\ i <= Len(rows) /\ i # 0
    BY ProcFact DEF RemoveWrite, LocalAt
  <2> QED BY <1>1, <2>1
<1>3. rows' = [rows EXCEPT ![i] = [rows[i] EXCEPT !.state = "deleted"]]
  BY DEF RemoveWrite
<1>4. SameRow(rows[i], [rows[i] EXCEPT !.state = "deleted"])
  BY <1>1, <1>2, RowsFact, SameRowFact, Zenon
<1> HIDE DEF i
<1> QED BY <1>1, <1>2, <1>3, <1>4, RowWritten

\* The row that a replay takes is one of those it has still to do.
LEMMA ResumeNextTable ==
    ASSUME TypeOK, Locals, NEW p \in Procs, ResumeNext(p)
    PROVE  /\ Kept(rows') /\ Len(rows') = Len(rows) /\ Plain(rows')
           /\ Newest(proc[p].todo) \in proc[p].todo /\ Newest(proc[p].todo) \in 1 .. Len(rows)
<1> DEFINE i == Newest(proc[p].todo)
<1>1. rows \in Seq(RowType) /\ Len(rows) \in Nat
  BY RowsFact DEF TypeOK
<1>2. i \in proc[p].todo /\ i \in 1 .. Len(rows)
  <2>1. proc[p].todo \subseteq 1 .. Len(rows) /\ proc[p].todo # {}
    BY ProcFact DEF ResumeNext, LocalAt
  <2> QED BY <1>1, <2>1, NewestFact
<1>3. CASE rows[i].state = "deleted"
  BY <1>2, <1>3, NoWrite DEF ResumeNext
<1>4. CASE rows[i].state # "deleted"
  <2>1. rows' = [rows EXCEPT ![i] = [rows[i] EXCEPT !.state = "stopped", !.why = "replay"]]
    BY <1>2, <1>4, RowsFact DEF ResumeNext, TypeOK
  <2>2. SameRow(rows[i], [rows[i] EXCEPT !.state = "stopped", !.why = "replay"])
    <3>1. "stopped" \in RowState /\ rows[i] \in RowType
      BY <1>1, <1>2, RowsFact DEF RowState
    <3> QED BY <1>4, <3>1, SameRowFact, Zenon
  <2>3. Kept(rows') /\ Len(rows') = Len(rows) /\ Plain(rows')
    <3> HIDE DEF i
    <3> QED BY <1>1, <1>2, <2>1, <2>2, RowWritten
  <2> QED BY <1>2, <2>3
<1> QED BY <1>3, <1>4

LEMMA StopWriteTable ==
    ASSUME TypeOK, Locals, NEW p \in Procs, StopWrite(p)
    PROVE  Kept(rows') /\ Plain(rows')
<1> DEFINE v == proc[p].view
           mine == RowsIn(v, proc[p].agent, proc[p].scenario, Active)
           st == [i \in DOMAIN v |-> IF i \in mine THEN "stopping" ELSE v[i]]
           new == Committed(v, st)
<1>1. rows \in Seq(RowType) /\ Len(rows) \in Nat /\ v \in Seq(RowState)
  BY RowsFact, ProcFact DEF TypeOK
<1>2. \A i \in DOMAIN v : st[i] \in RowState
  <2>1. "stopping" \in RowState /\ \A i \in DOMAIN v : v[i] \in RowState
    BY <1>1, ElementOfSeq, LenProperties DEF RowState
  <2> QED BY <2>1
<1>3. rows' = [i \in DOMAIN rows |-> IF i \in mine THEN [new[i] EXCEPT !.why = "user"] ELSE new[i]]
  BY DEF StopWrite
<1> HIDE DEF mine, st, v
<1>4. Kept(new)
  BY <1>1, <1>2, CommittedFact
<1> HIDE DEF new
<1>5. DOMAIN rows' = 1 .. Len(rows) /\ rows' = [k \in DOMAIN rows' |-> rows'[k]]
  BY <1>1, <1>3, RowsFact
<1>6. ASSUME NEW k \in 1 .. Len(rows) PROVE SameRow(rows[k], rows'[k])
  <2>1. SameRow(rows[k], new[k]) /\ new[k] \in RowType /\ k \in DOMAIN rows
    BY <1>1, <1>4, RowsFact DEF Kept, SameRow
  <2>2. SameRow(new[k], [new[k] EXCEPT !.why = "user"])
    BY <2>1, SameRowFact, Zenon
  <2>3. SameRow(rows[k], [new[k] EXCEPT !.why = "user"])
    BY <2>1, <2>2, Zenon DEF SameRow
  <2>4. rows'[k] = IF k \in mine THEN [new[k] EXCEPT !.why = "user"] ELSE new[k]
    BY <1>3, <2>1
  <2> QED BY <2>1, <2>3, <2>4, Zenon
<1> QED BY <1>1, <1>5, <1>6, WrittenFact

LEMMA CommitTables ==
    ASSUME TypeOK, Locals, NEW p \in Procs, WriteStatus(p) \/ SyncRunning(p) \/ PageFix(p)
    PROVE  Kept(rows') /\ Plain(rows')
<1> DEFINE v == proc[p].view
<1>1. rows \in Seq(RowType) /\ v \in Seq(RowState)
  BY ProcFact DEF TypeOK
<1>2. CASE WriteStatus(p)
  <2> DEFINE m == proc[p].msg
             new == StatusStates(v, proc[p].agent, m.scenario, m.state)
  <2>1. m.state \in {"running", "stopping", "stopped", "error"}
    BY <1>2, ProcFact DEF WriteStatus, LocalAt, Status
  <2>2. \A i \in DOMAIN v : new[i] \in RowState
    BY <1>1, <2>1, StatesFact
  <2>3. rows' = Committed(v, new)
    BY <1>2 DEF WriteStatus
  <2> HIDE DEF new, v
  <2> QED BY <1>1, <2>2, <2>3, CommittedFact
<1>3. CASE SyncRunning(p)
  <2> DEFINE new == SyncStates(v, proc[p].agent, proc[p].msg.running)
  <2>1. \A i \in DOMAIN v : new[i] \in RowState
    BY <1>1, StatesFact
  <2>2. rows' = Committed(v, new)
    BY <1>3 DEF SyncRunning
  <2> HIDE DEF new, v
  <2> QED BY <1>1, <2>1, <2>2, CommittedFact
<1>4. CASE PageFix(p)
  <2>1. PICK stale : rows' = Committed(v, FixStates(v, stale))
    BY <1>4 DEF PageFix
  <2> DEFINE new == FixStates(v, stale)
  <2>2. \A i \in DOMAIN v : new[i] \in RowState
    BY <1>1, StatesFact
  <2> HIDE DEF new, v
  <2>3. rows' = Committed(v, new)
    BY <2>1 DEF new, v
  <2> QED BY <1>1, <2>2, <2>3, CommittedFact
<1> QED BY <1>2, <1>3, <1>4

LEMMA PageSyncTable ==
    ASSUME TypeOK, Locals, NEW p \in Procs, PageSync(p)
    PROVE  Kept(rows') /\ Plain(rows')
<1> DEFINE v == proc[p].view
           seen == proc[p].msg.seen
           new == PageStates(v, seen)
           R == Committed(v, new)
           O == Orphans(v, seen)
           T == OrphanRows(O)
<1>1. rows \in Seq(RowType) /\ Len(rows) \in Nat /\ v \in Seq(RowState)
  BY RowsFact, ProcFact DEF TypeOK
<1>2. \A i \in DOMAIN v : new[i] \in RowState
  BY <1>1, StatesFact
<1>3. Kept(R) /\ Len(R) = Len(rows)
  <2> HIDE DEF new, v
  <2> QED BY <1>1, <1>2, CommittedFact
<1>4. T \in Seq(RowType) /\ \A j \in 1 .. Len(T) : T[j].src = 0
  <2>1. O \subseteq Agents \X Scenarios
    BY DEF Orphans
  <2> HIDE DEF O
  <2> QED BY <2>1, OrphanRowsFact
<1>5. rows' = rows \/ rows' = R \o T
  BY DEF PageSync
<1>6. Kept(R \o T) /\ Plain(R \o T)
  <2> HIDE DEF R, T
  <2>1. /\ Kept(R \o T)
        /\ \A j \in Len(rows) + 1 .. Len(R \o T) : (R \o T)[j] = T[j - Len(rows)] /\ j - Len(rows) \in 1 .. Len(T)
    BY <1>1, <1>3, <1>4, ConcatFact
  <2> QED BY <1>4, <2>1 DEF Plain
<1> HIDE DEF R, T
<1> QED BY <1>5, <1>6, NoWrite

\* The table after any step: only CreateRow adds a row that replays another.
LEMMA TableStep ==
    ASSUME TypeOK, Locals, [Next]_vars
    PROVE  Kept(rows') /\ (Plain(rows') \/ \E p \in Procs : CreateRow(p))
<1> USE DEF Procs
<1>1. CASE UNCHANGED vars
  BY <1>1, NoWrite DEF vars
<1>2. ASSUME NEW p \in Procs, ExecuteDeployment(p)
      PROVE  Kept(rows') /\ (Plain(rows') \/ \E q \in Procs : CreateRow(q))
  <2>1. CASE CreateRow(p)
    BY <2>1, CreateRowTable
  <2>2. CASE DeployFailed(p)
    BY <2>2, DeployFailedTable
  <2>3. CASE SendStart(p) \/ TrackDeployment(p) \/ DeployRefused(p)
    BY <2>3, NoWrite DEF SendStart, TrackDeployment, DeployRefused, db
  <2> QED BY <1>2, <2>1, <2>2, <2>3 DEF ExecuteDeployment
<1>3. ASSUME NEW w \in Conns, Handler(w)
      PROVE  Kept(rows') /\ Plain(rows')
  <2>1. CASE WriteStatus(w) \/ SyncRunning(w)
    BY <2>1, CommitTables
  <2>2. CASE ResumeNext(w)
    BY <2>2, ResumeNextTable
  <2>3. CASE MarkDisconnected(w)
    BY <2>3, DisconnectedFact DEF MarkDisconnected, TypeOK
  <2>4. CASE ReadPending(w) \/ ClearPending(w) \/ Greet(w) \/ ReceiveStatus(w) \/ HandleStatus(w)
             \/ ReceiveHeartbeat(w) \/ ResumeBegin(w) \/ ResumeSkip(w) \/ ResumeEnd(w) \/ NoticeClosed(w)
             \/ Unregister(w)
    <3>1. UNCHANGED rows
      BY <2>4 DEF ReadPending, ClearPending, Greet, ReceiveStatus, HandleStatus, ReceiveHeartbeat,
                  ResumeBegin, ResumeSkip, ResumeEnd, NoticeClosed, Unregister, db
    <3> QED BY <3>1, NoWrite
  <2> QED BY <1>3, <2>1, <2>2, <2>3, <2>4 DEF Handler
<1>4. ASSUME NEW r \in Requests, NewRequest(r) \/ Request(r)
      PROVE  Kept(rows') /\ Plain(rows')
  <2>1. CASE NewRequest(r)
    <3>1. UNCHANGED rows
      BY <2>1, Zenon DEF NewRequest, DeployRequest, StopRequest, StopOrphan, RemoveRequest, PageRequest, db
    <3> QED BY <3>1, NoWrite
  <2>2. CASE StopSend(r) \/ PageRead(r)
    <3>1. UNCHANGED rows
      BY <2>2 DEF StopSend, PageRead, db
    <3> QED BY <3>1, NoWrite
  <2>3. CASE StopWrite(r)
    BY <2>3, StopWriteTable
  <2>4. CASE RemoveWrite(r)
    BY <2>4, RemoveWriteTable
  <2>5. CASE PageSync(r)
    BY <2>5, PageSyncTable
  <2>6. CASE PageFix(r)
    BY <2>6, CommitTables
  <2> QED BY <1>4, <2>1, <2>2, <2>3, <2>4, <2>5, <2>6 DEF Request
<1>5. ASSUME NEW a \in Agents, Agent(a)
      PROVE  Kept(rows') /\ Plain(rows')
  <2>1. UNCHANGED rows
    BY <1>5 DEF Agent, Connect, AgentDrop, AgentRestart, AgentCommand, SendHeartbeat, ScenarioEnds, SendStatus, db
  <2> QED BY <2>1, NoWrite
<1>6. CASE BackendRestart
  BY <1>6, DisconnectedFact DEF BackendRestart, TypeOK
<1> QED BY <1>1, <1>2, <1>3, <1>4, <1>5, <1>6 DEF Next

-----------------------------------------------------------------------------
(* Steps of the coroutines *)

\* Handlers and requests are different coroutines.
LEMMA ProcsFact ==
    /\ Conns \subseteq Procs /\ Requests \subseteq Procs /\ Conns \cap Requests = {}
    /\ Conns \subseteq Nat /\ AnyAgent \in Agents /\ AnyScenario \in Scenarios
  BY HubAssumption DEF Procs, Conns, Requests, AnyAgent, AnyScenario

\* The table may grow behind a coroutine that awaits.
LEMMA LocalGrows ==
    ASSUME NEW p, NEW q \in ProcType, NEW n \in Nat, NEW m \in Nat, n <= m, LocalAt(p, q, n)
    PROVE  LocalAt(p, q, m)
<1>1. Len(q.view) \in Nat /\ q.row \in Nat
  BY LenProperties DEF ProcType
<1>2. Len(q.view) <= m /\ q.row <= m /\ q.todo \subseteq 1 .. m
  BY <1>1 DEF LocalAt
<1> QED BY <1>2 DEF LocalAt

LEMMA KeptLen == ASSUME TypeOK, Kept(rows') PROVE Len(rows) \in Nat /\ Len(rows') \in Nat /\ Len(rows) <= Len(rows')
  BY RowsFact, LenProperties DEF TypeOK, Kept

\* A step of coroutine p.
LEMMA ProcWritten ==
    ASSUME TypeOK, Locals, Kept(rows'), NEW p \in Procs, NEW q \in ProcType,
           proc' = [proc EXCEPT ![p] = q], LocalAt(p, q, Len(rows'))
    PROVE  proc' \in [Procs -> ProcType] /\ Locals'
<1>1. proc' \in [Procs -> ProcType]
  BY DEF TypeOK
<1>2. ASSUME NEW x \in Procs PROVE LocalAt(x, proc'[x], Len(rows'))
  <2>1. CASE x = p
    BY <2>1 DEF TypeOK
  <2>2. CASE x # p
    <3>1. proc'[x] = proc[x] /\ proc[x] \in ProcType /\ LocalAt(x, proc[x], Len(rows))
      BY <2>2, ProcFact DEF TypeOK
    <3> QED BY <3>1, KeptLen, LocalGrows
  <2> QED BY <2>1, <2>2
<1>3. Locals'
  BY <1>2 DEF Locals, LocalAt
<1> QED BY <1>1, <1>3

\* A step of anything else.
LEMMA ProcUnwritten ==
    ASSUME TypeOK, Locals, Kept(rows'), UNCHANGED proc
    PROVE  proc' \in [Procs -> ProcType] /\ Locals'
<1>1. ASSUME NEW x \in Procs PROVE LocalAt(x, proc'[x], Len(rows'))
  BY ProcFact, KeptLen, LocalGrows
<1> QED BY <1>1 DEF Locals, LocalAt, TypeOK

\* A coroutine that starts afresh.
LEMMA IdleFact ==
    ASSUME NEW p, NEW a \in Agents, NEW n \in Nat,
           NEW at \in Places \ {"clear", "send_start", "track", "send_failed", "remove", "status",
                                "status_memory", "sync", "resume_check", "page_read", "page_sync"}
    PROVE  Idle(at, a) \in ProcType /\ LocalAt(p, Idle(at, a), n)
<1>1. Idle(at, a) \in ProcType
  BY ProcsFact, EmptySeq DEF Idle, ProcType
<1>2. Len(Idle(at, a).view) = 0
  BY EmptySeq DEF Idle
<1> QED BY <1>1, <1>2 DEF Idle, LocalAt

\* What a session reads.
LEMMA ViewFact ==
    ASSUME NEW R \in Seq(RowType)
    PROVE  [i \in DOMAIN R |-> R[i].state] \in Seq(RowState) /\ Len([i \in DOMAIN R |-> R[i].state]) = Len(R)
<1>1. DOMAIN R = 1 .. Len(R) /\ Len(R) \in Nat /\ \A i \in 1 .. Len(R) : R[i] \in RowType
  BY ElementOfSeq, LenProperties
<1>2. [i \in DOMAIN R |-> R[i].state] \in [1 .. Len(R) -> RowState]
  BY <1>1 DEF RowType
<1> QED BY <1>1, <1>2, SeqOf

\* execute_deployment.
LEMMA DeployProcs ==
    ASSUME TypeOK, Locals, Kept(rows'), NEW p \in Procs, ExecuteDeployment(p)
    PROVE  proc' \in [Procs -> ProcType] /\ Locals'
<1>0. proc[p] \in ProcType /\ LocalAt(p, proc[p], Len(rows)) /\ proc \in [Procs -> ProcType]
  BY ProcFact DEF TypeOK
<1>1. LocalAt(p, proc[p], Len(rows')) /\ Len(rows) \in Nat /\ Len(rows') \in Nat
  BY <1>0, KeptLen, LocalGrows
<1>2. CASE CreateRow(p)
  <2> DEFINE k == Len(rows) + 1
             q == [proc[p] EXCEPT !.at = "send_start", !.row = k]
  <2>1. proc' = [proc EXCEPT ![p] = q]
    BY <1>0, <1>2 DEF CreateRow
  <2>2. k \in Nat \ {0} /\ Len(rows') = k
    BY <1>1, <1>2, CreateRowTable
  <2> HIDE DEF k
  <2>3. q \in ProcType
    BY <1>0, <2>2 DEF ProcType, Places, Deploying
  <2>4. LocalAt(p, q, Len(rows'))
    BY <1>0, <1>1, <1>2, <2>2 DEF LocalAt, CreateRow, ProcType, Deploying
  <2> HIDE DEF q
  <2> QED BY <2>1, <2>3, <2>4, ProcWritten
<1>3. CASE SendStart(p)
  <2>1. PICK at \in {"track", "send_failed"} : proc' = [proc EXCEPT ![p].at = at]
    BY <1>3, Zenon DEF SendStart, Goto
  <2> DEFINE q == [proc[p] EXCEPT !.at = at]
  <2>2. proc' = [proc EXCEPT ![p] = q]
    BY <2>1
  <2>3. q \in ProcType
    BY <1>0 DEF ProcType, Places, Deploying
  <2>4. LocalAt(p, q, Len(rows'))
    BY <1>0, <1>1, <1>3 DEF LocalAt, SendStart, ProcType, Deploying
  <2> HIDE DEF q
  <2> QED BY <2>2, <2>3, <2>4, ProcWritten
<1>4. CASE TrackDeployment(p) \/ DeployFailed(p) \/ DeployRefused(p)
  <2> DEFINE i == Idle(proc[p].then, proc[p].agent)
             q == [i EXCEPT !.todo = proc[p].todo, !.msg = proc[p].msg]
  <2>1. proc' = [proc EXCEPT ![p] = q]
    BY <1>4, Zenon DEF TrackDeployment, DeployFailed, DeployRefused, Return
  <2>2. proc[p].then \in {"idle", "greet", "resume"}
    BY <1>0, <1>4 DEF TrackDeployment, DeployFailed, DeployRefused, LocalAt, Deploying
  <2>3. i \in ProcType /\ LocalAt(p, i, Len(rows'))
    <3>1. proc[p].then \in Places \ {"clear", "send_start", "track", "send_failed", "remove", "status",
                                "status_memory", "sync", "resume_check", "page_read", "page_sync"}
      BY <2>2 DEF Places
    <3> QED BY <1>1, <3>1, ProcFact, IdleFact
  <2>4. i.at \in {"idle", "greet", "resume"} /\ i.then = "idle"
    BY <2>2 DEF Idle
  <2> HIDE DEF i
  <2>5. q \in ProcType
    BY <1>0, <2>3 DEF ProcType
  <2>6. LocalAt(p, q, Len(rows'))
    <3>1. /\ q.at = i.at /\ q.then = i.then /\ q.view = i.view /\ q.row = i.row
          /\ q.todo = proc[p].todo
      BY <2>3 DEF ProcType
    <3>2. proc[p].todo \subseteq 1 .. Len(rows')
      BY <1>1 DEF LocalAt
    <3> HIDE DEF q
    <3> QED BY <2>3, <2>4, <3>1, <3>2 DEF LocalAt, Deploying
  <2> HIDE DEF q
  <2> QED BY <2>1, <2>5, <2>6, ProcWritten
<1> QED BY <1>2, <1>3, <1>4 DEF ExecuteDeployment

\* The handlers of the connections.
LEMMA HandlerProcs ==
    ASSUME TypeOK, Locals, Kept(rows'), NEW w \in Conns, Handler(w)
    PROVE  proc' \in [Procs -> ProcType] /\ Locals'
<1> USE ProcsFact
<1>0. /\ proc[w] \in ProcType /\ LocalAt(w, proc[w], Len(rows)) /\ proc \in [Procs -> ProcType]
      /\ proc[w].agent \in Agents
  BY ProcFact DEF TypeOK
<1>1. LocalAt(w, proc[w], Len(rows')) /\ Len(rows) \in Nat /\ Len(rows') \in Nat /\ Len(rows) <= Len(rows')
  BY <1>0, KeptLen, LocalGrows
<1>2. ASSUME NEW at \in {"loop", "aborted", "closed"}, proc' = [proc EXCEPT ![w] = Idle(at, proc[w].agent)]
      PROVE  proc' \in [Procs -> ProcType] /\ Locals'
  <2>1. at \in Places \ {"clear", "send_start", "track", "send_failed", "remove", "status",
                         "status_memory", "sync", "resume_check", "page_read", "page_sync"}
    BY DEF Places
  <2>2. Idle(at, proc[w].agent) \in ProcType /\ LocalAt(w, Idle(at, proc[w].agent), Len(rows'))
    BY <1>0, <1>1, <2>1, IdleFact
  <2> QED BY <1>2, <2>2, ProcWritten
<1>3. ASSUME NEW at \in {"greet", "unregister", "mark"}, proc' = [proc EXCEPT ![w].at = at]
      PROVE  proc' \in [Procs -> ProcType] /\ Locals'
  <2> DEFINE q == [proc[w] EXCEPT !.at = at]
  <2>1. proc' = [proc EXCEPT ![w] = q]
    BY <1>3
  <2>2. q \in ProcType
    BY <1>0 DEF ProcType, Places
  <2>3. LocalAt(w, q, Len(rows'))
    BY <1>0, <1>1 DEF LocalAt, ProcType, Deploying
  <2> HIDE DEF q
  <2> QED BY <2>1, <2>2, <2>3, ProcWritten
<1>4. CASE ReadPending(w)
  <2> DEFINE s == pending[proc[w].agent]
             q == [proc[w] EXCEPT !.at = "clear", !.scenario = s, !.then = "greet"]
  <2>1. CASE s = NoScenario
    <3>1. proc' = [proc EXCEPT ![w].at = "greet"]
      BY <1>4, <2>1 DEF ReadPending
    <3> QED BY <1>3, <3>1
  <2>2. CASE s # NoScenario
    <3>1. s \in Scenarios
      BY <1>0, <2>2 DEF TypeOK
    <3>2. proc' = [proc EXCEPT ![w] = q]
      BY <1>0, <1>4, <2>2 DEF ReadPending
    <3> HIDE DEF s
    <3>3. q \in ProcType
      BY <1>0, <3>1 DEF ProcType, Places
    <3>4. LocalAt(w, q, Len(rows'))
      BY <1>0, <1>1, <1>4 DEF LocalAt, ProcType, Deploying, ReadPending
    <3> HIDE DEF q
    <3> QED BY <3>2, <3>3, <3>4, ProcWritten
  <2> QED BY <2>1, <2>2
<1>5. CASE ClearPending(w)
  <2> DEFINE q == [proc[w] EXCEPT !.at = "new_row"]
  <2>1. proc' = [proc EXCEPT ![w] = q]
    BY <1>5 DEF ClearPending, Goto
  <2>2. q \in ProcType
    BY <1>0 DEF ProcType, Places, Deploying
  <2>3. LocalAt(w, q, Len(rows'))
    BY <1>0, <1>1, <1>5 DEF LocalAt, ProcType, Deploying, ClearPending
  <2> HIDE DEF q
  <2> QED BY <2>1, <2>2, <2>3, ProcWritten
<1>6. CASE ReceiveStatus(w) \/ ReceiveHeartbeat(w)
  <2>1. up[w] \in Seq(Status \cup Heartbeat) /\ up[w] # <<>>
    BY <1>6 DEF TypeOK, ReceiveStatus, ReceiveHeartbeat
  <2>2. Head(up[w]) \in Status \cup Heartbeat
    BY <2>1, HeadTailProperties
  <2>3. View \in Seq(RowState) /\ Len(View) = Len(rows)
    BY ViewFact DEF View, TypeOK
  <2>4. PICK at \in {"status", "sync"} :
           /\ proc' = [proc EXCEPT ![w].at = at, ![w].msg = Head(up[w]), ![w].view = View]
           /\ at = "status" => Head(up[w]).type = "STATUS"
           /\ at = "sync" => Head(up[w]).type = "HEARTBEAT"
    BY <1>6 DEF ReceiveStatus, ReceiveHeartbeat
  <2> DEFINE m == Head(up[w])
             vw == View
             q == [proc[w] EXCEPT !.at = at, !.msg = m, !.view = vw]
  <2>5. (at = "status" => m \in Status) /\ (at = "sync" => m \in Heartbeat)
    BY <2>2, <2>4 DEF Status, Heartbeat
  <2> HIDE DEF m, vw
  <2>6. proc' = [proc EXCEPT ![w] = q]
    BY <1>0, <2>4 DEF m, vw
  <2>7. m \in Status \cup Heartbeat /\ vw \in Seq(RowState) /\ Len(vw) <= Len(rows')
    BY <1>1, <2>2, <2>3 DEF m, vw
  <2>8. q \in ProcType
    BY <1>0, <2>7 DEF ProcType, Places
  <2>9. LocalAt(w, q, Len(rows'))
    <3>1. q.at = at /\ q.msg = m /\ q.view = vw /\ q.todo = proc[w].todo /\ q.row = proc[w].row /\ q.then = proc[w].then
      BY <1>0 DEF ProcType
    <3> HIDE DEF q
    <3> QED BY <1>1, <2>5, <2>7, <3>1 DEF LocalAt, Deploying
  <2> HIDE DEF q
  <2> QED BY <2>6, <2>8, <2>9, ProcWritten
<1>7. CASE WriteStatus(w) \/ SyncRunning(w)
  <2>1. PICK at \in {"status_memory", "resume_check"} :
           /\ proc' = [proc EXCEPT ![w].at = at, ![w].view = <<>>]
           /\ at = "status_memory" => proc[w].at = "status"
           /\ at = "resume_check" => proc[w].at = "sync"
    BY <1>7 DEF WriteStatus, SyncRunning
  <2> DEFINE vw == <<>>
             q == [proc[w] EXCEPT !.at = at, !.view = vw]
  <2>2. proc' = [proc EXCEPT ![w] = q]
    BY <1>0, <2>1
  <2>3. vw \in Seq(RowState) /\ Len(vw) = 0
    BY EmptySeq
  <2> HIDE DEF vw
  <2>4. q \in ProcType
    BY <1>0, <2>3 DEF ProcType, Places
  <2>5. LocalAt(w, q, Len(rows'))
    <3>1. q.at = at /\ q.msg = proc[w].msg /\ q.view = vw /\ q.todo = proc[w].todo /\ q.row = proc[w].row /\ q.then = proc[w].then
      BY <1>0 DEF ProcType
    <3> HIDE DEF q
    <3> QED BY <1>1, <2>1, <2>3, <3>1 DEF LocalAt, Deploying
  <2> HIDE DEF q
  <2> QED BY <2>2, <2>4, <2>5, ProcWritten
<1>8. CASE ResumeBegin(w)
  <2> DEFINE lost == Lost(proc[w].agent, proc[w].msg.running)
             q == [proc[w] EXCEPT !.at = "resume", !.todo = lost]
  <2>1. lost \subseteq 1 .. Len(rows') /\ lost \subseteq Nat
    <3>1. lost \subseteq 1 .. Len(rows)
      BY RowsFact DEF Lost, TypeOK
    <3> QED BY <1>1, <3>1
  <2> HIDE DEF lost
  <2>2. proc' = [proc EXCEPT ![w] = Idle("loop", proc[w].agent)] \/ proc' = [proc EXCEPT ![w] = q]
    BY <1>0, <1>8 DEF ResumeBegin, lost
  <2>3. q \in ProcType
    BY <1>0, <2>1 DEF ProcType, Places
  <2>4. LocalAt(w, q, Len(rows'))
    BY <1>0, <1>1, <2>1 DEF LocalAt, ProcType, Deploying
  <2> HIDE DEF q
  <2>5. CASE proc' = [proc EXCEPT ![w] = q]
    BY <2>3, <2>4, <2>5, ProcWritten
  <2> QED BY <1>2, <2>2, <2>5
<1>9. CASE ResumeNext(w)
  <2> DEFINE i == Newest(proc[w].todo)
             q0 == [proc[w] EXCEPT !.todo = {}]
             t == proc[w].todo \ {i}
             s == rows[i].scenario
             q1 == [proc[w] EXCEPT !.at = "new_row", !.scenario = s, !.row = i, !.todo = t, !.then = "resume"]
  <2>1. i \in 1 .. Len(rows) /\ s \in Scenarios
    <3>1. i \in 1 .. Len(rows)
      BY <1>9, ResumeNextTable
    <3> QED BY <3>1, RowsFact DEF RowType, TypeOK
  <2>2. t \subseteq 1 .. Len(rows') /\ t \subseteq Nat /\ i \in Nat /\ i <= Len(rows')
    BY <1>1, <2>1 DEF LocalAt
  <2>3. proc' = [proc EXCEPT ![w] = q0] \/ proc' = [proc EXCEPT ![w] = q1]
    BY <1>0, <1>9 DEF ResumeNext
  <2> HIDE DEF i, s, t
  <2>4. CASE proc' = [proc EXCEPT ![w] = q0]
    <3>1. q0 \in ProcType
      BY <1>0 DEF ProcType
    <3>2. LocalAt(w, q0, Len(rows'))
      BY <1>0, <1>1 DEF LocalAt, ProcType, Deploying
    <3> HIDE DEF q0
    <3> QED BY <2>4, <3>1, <3>2, ProcWritten
  <2>5. CASE proc' = [proc EXCEPT ![w] = q1]
    <3>1. q1 \in ProcType
      BY <1>0, <2>1, <2>2 DEF ProcType, Places, Deploying
    <3>2. LocalAt(w, q1, Len(rows'))
      <4>1. q1.at = "new_row" /\ q1.view = proc[w].view /\ q1.todo = t /\ q1.row = i /\ q1.then = "resume"
        BY <1>0 DEF ProcType
      <4> HIDE DEF q1
      <4> QED BY <1>1, <2>2, <4>1 DEF LocalAt, Deploying
    <3> HIDE DEF q1
    <3> QED BY <2>5, <3>1, <3>2, ProcWritten
  <2> QED BY <2>3, <2>4, <2>5
<1>10. CASE ResumeSkip(w)
  <2> DEFINE t == proc[w].todo \ {Newest(proc[w].todo)}
             q == [proc[w] EXCEPT !.todo = t]
  <2>1. t \subseteq 1 .. Len(rows') /\ t \subseteq Nat
    BY <1>1 DEF LocalAt
  <2>2. proc' = [proc EXCEPT ![w] = q]
    BY <1>0, <1>10 DEF ResumeSkip
  <2> HIDE DEF t
  <2>3. q \in ProcType
    BY <1>0, <2>1 DEF ProcType
  <2>4. LocalAt(w, q, Len(rows'))
    BY <1>0, <1>1, <2>1 DEF LocalAt, ProcType, Deploying
  <2> HIDE DEF q
  <2> QED BY <2>2, <2>3, <2>4, ProcWritten
<1>11. CASE Greet(w) \/ HandleStatus(w) \/ ResumeEnd(w) \/ MarkDisconnected(w)
  <2>1. \E at \in {"loop", "aborted", "closed"} : proc' = [proc EXCEPT ![w] = Idle(at, proc[w].agent)]
    BY <1>11, Zenon DEF Greet, HandleStatus, ResumeEnd, MarkDisconnected
  <2> QED BY <1>2, <2>1
<1>12. CASE NoticeClosed(w) \/ Unregister(w)
  <2>1. \E at \in {"greet", "unregister", "mark"} : proc' = [proc EXCEPT ![w].at = at]
    BY <1>12, Zenon DEF NoticeClosed, Unregister, Goto
  <2> QED BY <1>3, <2>1
<1> QED BY <1>4, <1>5, <1>6, <1>7, <1>8, <1>9, <1>10, <1>11, <1>12 DEF Handler

\* The HTTP requests.
LEMMA RequestProcs ==
    ASSUME TypeOK, Locals, Kept(rows'), NEW r \in Requests, NewRequest(r) \/ Request(r)
    PROVE  proc' \in [Procs -> ProcType] /\ Locals'
<1> USE ProcsFact
<1>0. /\ proc[r] \in ProcType /\ LocalAt(r, proc[r], Len(rows)) /\ proc \in [Procs -> ProcType]
      /\ proc[r].agent \in Agents
  BY ProcFact DEF TypeOK
<1>1. LocalAt(r, proc[r], Len(rows')) /\ Len(rows) \in Nat /\ Len(rows') \in Nat /\ Len(rows) <= Len(rows')
  BY <1>0, KeptLen, LocalGrows
<1>2. ASSUME NEW at \in {"idle", "new_row", "stop_send", "page_fix"}, NEW a \in Agents
      PROVE  /\ Idle(at, a) \in ProcType /\ LocalAt(r, Idle(at, a), Len(rows'))
             /\ Idle(at, a).at = at /\ Idle(at, a).then = "idle" /\ Idle(at, a).row = 0 /\ Idle(at, a).todo = {}
  <2>1. at \in Places \ {"clear", "send_start", "track", "send_failed", "remove", "status",
                         "status_memory", "sync", "resume_check", "page_read", "page_sync"}
    BY DEF Places, Deploying
  <2>2. Idle(at, a) \in ProcType /\ LocalAt(r, Idle(at, a), Len(rows'))
    BY <1>1, <2>1, IdleFact
  <2> QED BY <2>2 DEF Idle
<1>3. CASE StopWrite(r) \/ RemoveWrite(r) \/ PageFix(r)
  <2>1. proc' = [proc EXCEPT ![r] = Idle("idle", AnyAgent)]
    BY <1>3, Zenon DEF StopWrite, RemoveWrite, PageFix
  <2>2. Idle("idle", AnyAgent) \in ProcType /\ LocalAt(r, Idle("idle", AnyAgent), Len(rows'))
    BY <1>2
  <2> QED BY <2>1, <2>2, ProcWritten
<1>4. ASSUME NEW a \in Agents, NEW s \in Scenarios, NEW at \in {"new_row", "stop_send"},
             proc' = [proc EXCEPT ![r] = [Idle(at, a) EXCEPT !.scenario = s]]
      PROVE  proc' \in [Procs -> ProcType] /\ Locals'
  <2> DEFINE i == Idle(at, a)
             q == [i EXCEPT !.scenario = s]
  <2>1. i \in ProcType /\ LocalAt(r, i, Len(rows'))
    BY <1>2
  <2>2. proc' = [proc EXCEPT ![r] = q]
    BY <1>4
  <2> HIDE DEF i
  <2>3. q \in ProcType
    BY <2>1 DEF ProcType
  <2>4. LocalAt(r, q, Len(rows'))
    BY <2>1 DEF LocalAt, ProcType, Deploying
  <2> HIDE DEF q
  <2> QED BY <2>2, <2>3, <2>4, ProcWritten
<1>5. ASSUME NEW a \in Agents, NEW s \in Scenarios, StopRequest(r, a, s)
      PROVE  proc' \in [Procs -> ProcType] /\ Locals'
  <2> DEFINE i == Idle("stop_send", a)
             vw == View
             q == [i EXCEPT !.scenario = s, !.view = vw, !.then = "stop_write"]
  <2>1. i \in ProcType /\ LocalAt(r, i, Len(rows')) /\ i.at = "stop_send"
    BY <1>2
  <2>2. vw \in Seq(RowState) /\ Len(vw) <= Len(rows')
    BY <1>1, ViewFact DEF View, TypeOK
  <2>3. proc' = [proc EXCEPT ![r] = q]
    BY <1>5 DEF StopRequest
  <2> HIDE DEF i, vw
  <2>4. q \in ProcType
    BY <2>1, <2>2 DEF ProcType
  <2>5. LocalAt(r, q, Len(rows'))
    <3>1. q.at = "stop_send" /\ q.view = vw /\ q.todo = i.todo /\ q.row = i.row /\ q.then = "stop_write"
      BY <2>1 DEF ProcType
    <3> HIDE DEF q
    <3> QED BY <2>1, <2>2, <3>1 DEF LocalAt, Deploying
  <2> HIDE DEF q
  <2> QED BY <2>3, <2>4, <2>5, ProcWritten
<1>6. ASSUME NEW k \in DOMAIN rows, RemoveRequest(r, k)
      PROVE  proc' \in [Procs -> ProcType] /\ Locals'
  <2>1. k \in 1 .. Len(rows) /\ rows[k].agent \in Agents /\ rows[k].scenario \in Scenarios
    <3>1. k \in 1 .. Len(rows) /\ rows[k] \in RowType
      BY RowsFact DEF TypeOK
    <3> QED BY <3>1 DEF RowType
  <2>2. PICK at \in {"stop_send", "remove"} :
           proc' = [proc EXCEPT ![r] = [Idle(at, rows[k].agent) EXCEPT !.scenario = rows[k].scenario,
                                                                      !.row = k, !.then = "remove"]]
    BY <1>6 DEF RemoveRequest
  <2> DEFINE i == Idle(at, rows[k].agent)
             s == rows[k].scenario
             q == [i EXCEPT !.scenario = s, !.row = k, !.then = "remove"]
  <2>3. i \in ProcType /\ i.at = at /\ i.todo = {} /\ i.view = <<>>
    BY <2>1, EmptySeq DEF Idle, ProcType, Places
  <2>4. proc' = [proc EXCEPT ![r] = q]
    BY <2>2
  <2>5. s \in Scenarios /\ k \in Nat \ {0} /\ k <= Len(rows') /\ Len(<<>>) = 0
    BY <1>1, <2>1, EmptySeq
  <2> HIDE DEF i, s
  <2>6. q \in ProcType
    BY <2>3, <2>5 DEF ProcType
  <2>7. LocalAt(r, q, Len(rows'))
    <3>1. q.at = at /\ q.view = <<>> /\ q.todo = {} /\ q.row = k /\ q.then = "remove"
      BY <2>3 DEF ProcType
    <3> HIDE DEF q
    <3> QED BY <1>1, <2>5, <3>1 DEF LocalAt, Deploying
  <2> HIDE DEF q
  <2> QED BY <2>4, <2>6, <2>7, ProcWritten
<1>7. CASE PageRequest(r)
  <2> DEFINE i == Idle("page_read", AnyAgent)
             m == [type |-> "PAGE", seen |-> conn]
             q == [i EXCEPT !.msg = m]
  <2>1. i \in ProcType /\ i.at = "page_read" /\ i.todo = {} /\ i.view = <<>> /\ i.row = 0 /\ i.then = "idle"
    BY EmptySeq DEF Idle, ProcType, Places
  <2>2. m \in Page /\ Len(<<>>) = 0
    BY EmptySeq DEF Page, TypeOK
  <2>3. proc' = [proc EXCEPT ![r] = q]
    BY <1>7 DEF PageRequest
  <2> HIDE DEF i, m
  <2>4. q \in ProcType
    BY <2>1, <2>2 DEF ProcType
  <2>5. LocalAt(r, q, Len(rows'))
    <3>1. q.at = "page_read" /\ q.view = <<>> /\ q.todo = {} /\ q.row = 0 /\ q.then = "idle" /\ q.msg = m
      BY <2>1 DEF ProcType
    <3> HIDE DEF q
    <3> QED BY <1>1, <2>2, <3>1 DEF LocalAt, Deploying
  <2> HIDE DEF q
  <2> QED BY <2>3, <2>4, <2>5, ProcWritten
<1>8. CASE PageRead(r)
  <2> DEFINE vw == View
             q == [proc[r] EXCEPT !.at = "page_sync", !.view = vw]
  <2>1. vw \in Seq(RowState) /\ Len(vw) <= Len(rows')
    BY <1>1, ViewFact DEF View, TypeOK
  <2>2. proc' = [proc EXCEPT ![r] = q]
    BY <1>0, <1>8 DEF PageRead
  <2> HIDE DEF vw
  <2>3. q \in ProcType
    BY <1>0, <2>1 DEF ProcType, Places
  <2>4. LocalAt(r, q, Len(rows'))
    <3>1. /\ q.at = "page_sync" /\ q.view = vw /\ q.todo = proc[r].todo /\ q.row = proc[r].row
          /\ q.then = proc[r].then /\ q.msg = proc[r].msg
      BY <1>0 DEF ProcType
    <3> HIDE DEF q
    <3> QED BY <1>1, <1>8, <2>1, <3>1 DEF LocalAt, Deploying, PageRead
  <2> HIDE DEF q
  <2> QED BY <2>2, <2>3, <2>4, ProcWritten
<1>9. CASE PageSync(r)
  <2> DEFINE i == Idle("page_fix", AnyAgent)
             vw == [k \in DOMAIN rows' |-> rows'[k].state]
             q == [i EXCEPT !.view = vw]
  <2>1. i \in ProcType /\ LocalAt(r, i, Len(rows')) /\ i.at = "page_fix"
    BY <1>2
  <2>2. vw \in Seq(RowState) /\ Len(vw) = Len(rows')
    <3>1. rows' \in Seq(RowType)
      BY DEF Kept
    <3> QED BY <3>1, ViewFact
  <2>3. proc' = [proc EXCEPT ![r] = Idle("idle", AnyAgent)] \/ proc' = [proc EXCEPT ![r] = q]
    BY <1>9, Zenon DEF PageSync
  <2> HIDE DEF i, vw
  <2>4. q \in ProcType
    BY <2>1, <2>2 DEF ProcType
  <2>5. LocalAt(r, q, Len(rows'))
    <3>1. /\ q.at = "page_fix" /\ q.view = vw /\ q.todo = i.todo /\ q.row = i.row
          /\ q.then = i.then /\ q.msg = i.msg
      BY <2>1 DEF ProcType
    <3>2. Len(vw) <= Len(rows')
      BY <1>1, <2>2
    <3> HIDE DEF q
    <3> QED BY <2>1, <3>1, <3>2 DEF LocalAt, Deploying
  <2> HIDE DEF q
  <2>6. CASE proc' = [proc EXCEPT ![r] = Idle("idle", AnyAgent)]
    BY <1>2, <2>6, ProcWritten
  <2>7. CASE proc' = [proc EXCEPT ![r] = q]
    BY <2>4, <2>5, <2>7, ProcWritten
  <2> QED BY <2>3, <2>6, <2>7
<1>10. CASE StopSend(r)
  <2> DEFINE at == proc[r].then
             q == [proc[r] EXCEPT !.at = at]
  <2>1. at \in {"idle", "greet", "stop_write", "remove"}
    BY ProcFact DEF LocalAt
  <2>2. proc' = [proc EXCEPT ![r] = q]
    BY <1>10 DEF StopSend, Goto
  <2>3. at = "remove" => proc[r].row # 0
    BY <1>10, <1>0 DEF StopSend, LocalAt
  <2> HIDE DEF at
  <2>4. q \in ProcType
    BY <1>0, <2>1 DEF ProcType, Places
  <2>5. LocalAt(r, q, Len(rows'))
    <3>1. /\ q.at = at /\ q.view = proc[r].view /\ q.todo = proc[r].todo /\ q.row = proc[r].row
          /\ q.then = proc[r].then /\ q.msg = proc[r].msg
      BY <1>0 DEF ProcType
    <3> HIDE DEF q
    <3> QED BY <1>1, <2>1, <2>3, <3>1 DEF LocalAt, Deploying
  <2> HIDE DEF q
  <2> QED BY <2>2, <2>4, <2>5, ProcWritten
<1>11. ASSUME NEW a \in Agents, NEW s \in Scenarios, DeployRequest(r, a, s) \/ StopOrphan(r, a, s)
       PROVE  proc' \in [Procs -> ProcType] /\ Locals'
  <2>1. \E at \in {"new_row", "stop_send"} : proc' = [proc EXCEPT ![r] = [Idle(at, a) EXCEPT !.scenario = s]]
    BY <1>11, Zenon DEF DeployRequest, StopOrphan
  <2> QED BY <1>4, <2>1
<1> QED BY <1>3, <1>5, <1>6, <1>7, <1>8, <1>9, <1>10, <1>11 DEF NewRequest, Request

\* A backend that starts again has no coroutine left.
LEMMA RestartProcs ==
    ASSUME TypeOK, Locals, Kept(rows'), BackendRestart
    PROVE  proc' \in [Procs -> ProcType] /\ Locals'
<1>1. Len(rows) \in Nat /\ Len(rows') \in Nat
  BY KeptLen
<1>2. ASSUME NEW p \in Procs PROVE proc'[p] \in ProcType /\ LocalAt(p, proc'[p], Len(rows'))
  <2>1. proc'[p] \in {Idle("idle", AnyAgent), proc[p], Idle("closed", proc[p].agent)}
    BY Zenon DEF BackendRestart, TypeOK
  <2>2. proc[p] \in ProcType /\ LocalAt(p, proc[p], Len(rows'))
    BY ProcFact, KeptLen, LocalGrows
  <2>3. Idle("idle", AnyAgent) \in ProcType /\ LocalAt(p, Idle("idle", AnyAgent), Len(rows'))
    BY <1>1, IdleFact, ProcsFact DEF Places
  <2>4. Idle("closed", proc[p].agent) \in ProcType /\ LocalAt(p, Idle("closed", proc[p].agent), Len(rows'))
    BY <1>1, IdleFact, ProcFact DEF Places
  <2> QED BY <2>1, <2>2, <2>3, <2>4
<1>3. proc' = [p \in Procs |-> proc'[p]]
  BY DEF BackendRestart, TypeOK
<1>4. proc' \in [Procs -> ProcType]
  BY <1>2, <1>3
<1> QED BY <1>2, <1>4 DEF Locals, LocalAt

\* A new connection has a number of its own.
LEMMA ConnectFact ==
    ASSUME TypeOK, NEW a \in Agents, Connect(a)
    PROVE  accepted \in Nat /\ accepted + 1 \in Conns /\ accepted' = accepted + 1
<1>1. accepted \in Nat /\ accepted' = accepted + 1 /\ accepted + 1 <= scope.conns
  BY ProcsFact DEF TypeOK, Connect
<1>2. scope.conns \in 1 .. MaxConns
  BY HubAssumption DEF TypeOK
<1>3. MaxConns \in Nat
  BY HubAssumption
<1> QED BY <1>1, <1>2, <1>3 DEF Conns

LEMMA ProcStep ==
    ASSUME TypeOK, Locals, [Next]_vars
    PROVE  proc' \in [Procs -> ProcType] /\ Locals'
<1>0. Kept(rows')
  BY TableStep
<1>1. CASE UNCHANGED vars
  BY <1>0, <1>1, ProcUnwritten DEF vars
<1>2. ASSUME NEW a \in Agents, Agent(a)
      PROVE  proc' \in [Procs -> ProcType] /\ Locals'
  <2>1. CASE Connect(a)
    <3> DEFINE w == accepted + 1
    <3>1. w \in Procs
      BY <2>1, ConnectFact, ProcsFact
    <3>2. proc' = [proc EXCEPT ![w] = Idle("accepted", a)]
      BY <2>1 DEF Connect
    <3>3. Idle("accepted", a) \in ProcType /\ LocalAt(w, Idle("accepted", a), Len(rows'))
      BY <1>0, KeptLen, IdleFact DEF Places
    <3> HIDE DEF w
    <3> QED BY <1>0, <3>1, <3>2, <3>3, ProcWritten
  <2>2. CASE ~Connect(a)
    <3>1. UNCHANGED proc
      BY <1>2, <2>2 DEF Agent, AgentDrop, AgentRestart, AgentCommand, SendHeartbeat, ScenarioEnds, SendStatus
    <3> QED BY <1>0, <3>1, ProcUnwritten
  <2> QED BY <2>1, <2>2
<1>3. ASSUME NEW p \in Conns \cup Requests, ExecuteDeployment(p)
      PROVE  proc' \in [Procs -> ProcType] /\ Locals'
  BY <1>0, <1>3, DeployProcs DEF Procs
<1> QED BY <1>0, <1>1, <1>2, <1>3, HandlerProcs, RequestProcs, RestartProcs DEF Next

-----------------------------------------------------------------------------
(* The manager's memory and the sockets *)

\* What a step leaves of AgentManager and of the queued deploys.
LEMMA MemoryStep ==
    ASSUME TypeOK, Locals, [Next]_vars
    PROVE  /\ conn' \in [Agents -> Connection]
           /\ tracked' \in [Scenarios -> Agents \cup {NoAgent}]
           /\ resuming' \in SUBSET Agents
           /\ pending' \in [Agents -> Scenarios \cup {NoScenario}]
<1> DEFINE Goal == /\ conn' \in [Agents -> Connection]
                   /\ tracked' \in [Scenarios -> Agents \cup {NoAgent}]
                   /\ resuming' \in SUBSET Agents
                   /\ pending' \in [Agents -> Scenarios \cup {NoScenario}]
<1> USE ProcsFact
<1>0. /\ conn \in [Agents -> Connection] /\ tracked \in [Scenarios -> Agents \cup {NoAgent}]
      /\ resuming \in SUBSET Agents /\ pending \in [Agents -> Scenarios \cup {NoScenario}]
  BY DEF TypeOK
<1>1. ASSUME UNCHANGED <<manager, pending>> PROVE Goal
  BY <1>0, <1>1 DEF manager
<1>2. ASSUME NEW p \in Procs, TrackDeployment(p) PROVE Goal
  <2>1. proc[p].agent \in Agents /\ proc[p].scenario \in Scenarios
    BY ProcFact
  <2>2. conn' \in [Agents -> Connection]
    BY <1>0, <1>2, <2>1 DEF TrackDeployment, Connection
  <2> QED BY <1>0, <1>2, <2>1, <2>2 DEF TrackDeployment, db
<1>3. ASSUME NEW p \in Procs, HandleStatus(p) PROVE Goal
  <2>1. proc[p].agent \in Agents /\ proc[p].msg \in Status
    BY <1>3, ProcFact DEF HandleStatus, LocalAt
  <2>2. proc[p].msg.scenario \in Scenarios
    BY <2>1 DEF Status
  <2>3. conn' \in [Agents -> Connection]
    BY <1>0, <1>3, <2>1, <2>2 DEF HandleStatus, Connection
  <2>4. tracked' \in [Scenarios -> Agents \cup {NoAgent}]
    BY <1>0, <1>3, <2>1, <2>2 DEF HandleStatus
  <2> QED BY <1>0, <1>3, <2>3, <2>4 DEF HandleStatus, db
<1>4. ASSUME NEW p \in Procs, ClearPending(p) PROVE Goal
  BY <1>0, <1>4, ProcFact DEF ClearPending, manager
<1>5. ASSUME NEW p \in Procs, ResumeBegin(p) \/ ResumeEnd(p) PROVE Goal
  <2>1. resuming' \in SUBSET Agents
    BY <1>0, <1>5, ProcFact DEF ResumeBegin, ResumeEnd
  <2> QED BY <1>0, <1>5, <2>1 DEF ResumeBegin, ResumeEnd, db
<1>6. ASSUME NEW p \in Procs, Unregister(p) PROVE Goal
  <2>1. conn' \in [Agents -> Connection]
    BY <1>0, <1>6, ProcFact DEF Unregister, Connection
  <2> QED BY <1>0, <1>6, <2>1 DEF Unregister, db
<1>7. ASSUME NEW a \in Agents, Connect(a) PROVE Goal
  <2>1. conn' = [conn EXCEPT ![a] = [ws |-> accepted + 1, running |-> {}]]
    BY <1>7 DEF Connect
  <2>2. conn' \in [Agents -> Connection]
    BY <1>0, <1>7, <2>1, ConnectFact DEF Connection
  <2> QED BY <1>0, <1>7, <2>2 DEF Connect, db
<1>8. ASSUME BackendRestart PROVE Goal
  BY <1>0, <1>8 DEF BackendRestart, Connection
<1> HIDE DEF Goal
<1>9. ASSUME UNCHANGED vars PROVE Goal
  BY <1>1, <1>9 DEF vars, manager
<1>10. ASSUME NEW p \in Procs, ExecuteDeployment(p) PROVE Goal
  <2>1. CASE CreateRow(p) \/ SendStart(p) \/ DeployFailed(p) \/ DeployRefused(p)
    BY <1>1, <2>1 DEF CreateRow, SendStart, DeployFailed, DeployRefused, db
  <2> QED BY <1>2, <1>10, <2>1 DEF ExecuteDeployment
<1>11. ASSUME NEW w \in Conns, Handler(w) PROVE Goal
  <2>1. CASE ReadPending(w) \/ Greet(w) \/ ReceiveStatus(w) \/ WriteStatus(w) \/ ReceiveHeartbeat(w)
             \/ SyncRunning(w) \/ ResumeNext(w) \/ ResumeSkip(w) \/ NoticeClosed(w) \/ MarkDisconnected(w)
    <3>1. UNCHANGED <<manager, pending>>
      BY <2>1 DEF ReadPending, Greet, ReceiveStatus, WriteStatus, ReceiveHeartbeat,
                  SyncRunning, ResumeNext, ResumeSkip, NoticeClosed, MarkDisconnected, db
    <3> QED BY <1>1, <3>1, SMTT(30)
  <2> QED BY <1>3, <1>4, <1>5, <1>6, <1>11, <2>1 DEF Handler
<1>12. ASSUME NEW r \in Requests, NewRequest(r) \/ Request(r) PROVE Goal
  <2>1. UNCHANGED <<manager, pending>>
    BY <1>12, Zenon DEF NewRequest, Request, DeployRequest, StopRequest, StopOrphan, RemoveRequest, PageRequest,
                 StopSend, StopWrite, RemoveWrite, PageRead, PageSync, PageFix, db
  <2> QED BY <1>1, <2>1
<1>13. ASSUME NEW a \in Agents, Agent(a) PROVE Goal
  <2>1. CASE ~Connect(a)
    <3>1. UNCHANGED <<manager, pending>>
      BY <1>13, <2>1 DEF Agent, AgentDrop, AgentRestart, AgentCommand, SendHeartbeat, ScenarioEnds, SendStatus, db
    <3> QED BY <1>1, <3>1
  <2> QED BY <1>7, <2>1
<1>14. Goal
  BY <1>8, <1>9, <1>10, <1>11, <1>12, <1>13 DEF Next, Procs
<1> QED BY <1>14 DEF Goal

\* A command, or some, for an agent.
LEMMA DeliverFact ==
    ASSUME TypeOK, NEW a \in Agents, NEW cmds \in Seq(Command), Deliver(a, cmds)
    PROVE  down' \in [Conns -> Seq(Command)]
<1>1. down \in [Conns -> Seq(Command)]
  BY DEF TypeOK
<1>2. CASE Reachable(a)
  <2>1. conn[a].ws \in Conns
    BY <1>2 DEF Reachable, Registered, TypeOK, Connection
  <2>2. down' = [down EXCEPT ![conn[a].ws] = down[conn[a].ws] \o cmds]
    BY <1>2 DEF Deliver
  <2>3. down[conn[a].ws] \o cmds \in Seq(Command)
    BY <1>1, <2>1, ConcatProperties
  <2> QED BY <1>1, <2>1, <2>2, <2>3
<1>3. CASE ~Reachable(a)
  BY <1>1, <1>3 DEF Deliver
<1> QED BY <1>2, <1>3

\* A message of an agent.
LEMMA ReportFact ==
    ASSUME TypeOK, NEW a \in Agents, NEW m \in Status \cup Heartbeat, Report(a, m)
    PROVE  up' \in [Conns -> Seq(Status \cup Heartbeat)]
<1>1. up \in [Conns -> Seq(Status \cup Heartbeat)] /\ agentWs[a] \in {0} \cup Conns
  BY DEF TypeOK
<1>2. CASE agentWs[a] # 0
  <2>1. up' = [up EXCEPT ![agentWs[a]] = Append(up[agentWs[a]], m)]
    BY <1>2 DEF Report
  <2>2. Append(up[agentWs[a]], m) \in Seq(Status \cup Heartbeat)
    BY <1>1, <1>2, AppendProperties
  <2> QED BY <1>1, <1>2, <2>1, <2>2
<1>3. CASE agentWs[a] = 0
  BY <1>1, <1>3 DEF Report
<1> QED BY <1>2, <1>3

\* The sockets and the agents after a step.
LEMMA NetStep ==
    ASSUME TypeOK, Locals, [Next]_vars
    PROVE  /\ scope' \in Scopes /\ accepted' \in {0} \cup Conns
           /\ up' \in [Conns -> Seq(Status \cup Heartbeat)]
           /\ down' \in [Conns -> Seq(Command)]
           /\ agentWs' \in [Agents -> {0} \cup Conns]
           /\ running' \in [Agents -> SUBSET Scenarios]
<1> DEFINE Goal == /\ scope' \in Scopes /\ accepted' \in {0} \cup Conns
                   /\ up' \in [Conns -> Seq(Status \cup Heartbeat)]
                   /\ down' \in [Conns -> Seq(Command)]
                   /\ agentWs' \in [Agents -> {0} \cup Conns]
                   /\ running' \in [Agents -> SUBSET Scenarios]
<1> USE ProcsFact
<1>0. /\ scope \in Scopes /\ accepted \in {0} \cup Conns
      /\ up \in [Conns -> Seq(Status \cup Heartbeat)] /\ down \in [Conns -> Seq(Command)]
      /\ agentWs \in [Agents -> {0} \cup Conns] /\ running \in [Agents -> SUBSET Scenarios]
  BY DEF TypeOK
<1>e. /\ \A f \in [Conns -> Seq(Command)] : \A w : [f EXCEPT ![w] = <<>>] \in [Conns -> Seq(Command)]
      /\ \A f \in [Conns -> Seq(Status \cup Heartbeat)] : \A w :
            [f EXCEPT ![w] = <<>>] \in [Conns -> Seq(Status \cup Heartbeat)]
  <2>1. <<>> \in Seq(Command) /\ <<>> \in Seq(Status \cup Heartbeat)
    BY EmptySeq
  <2> QED BY <2>1
<1>1. ASSUME UNCHANGED net PROVE Goal
  BY <1>0, <1>1 DEF net
<1>2. ASSUME NEW p \in Procs, SendStart(p) PROVE Goal
  <2> DEFINE c == <<CommandOf("START", proc[p].scenario)>>
  <2>1. c \in Seq(Command)
    <3>1. CommandOf("START", proc[p].scenario) \in Command
      BY ProcFact DEF CommandOf, Command
    <3> QED BY <3>1
  <2>2. Deliver(proc[p].agent, c) \/ down' = down
    BY <1>2 DEF SendStart
  <2> HIDE DEF c
  <2>3. down' \in [Conns -> Seq(Command)]
    BY <1>0, <2>1, <2>2, ProcFact, DeliverFact
  <2> QED BY <1>0, <1>2, <2>3 DEF SendStart
<1>3. ASSUME NEW w \in Conns, ReceiveStatus(w) \/ ReceiveHeartbeat(w) PROVE Goal
  <2>1. up[w] \in Seq(Status \cup Heartbeat) /\ up[w] # <<>>
    BY <1>0, <1>3 DEF ReceiveStatus, ReceiveHeartbeat
  <2>2. Tail(up[w]) \in Seq(Status \cup Heartbeat)
    BY <2>1, HeadTailProperties
  <2>3. up' = [up EXCEPT ![w] = Tail(up[w])]
    BY <1>3 DEF ReceiveStatus, ReceiveHeartbeat
  <2>4. up' \in [Conns -> Seq(Status \cup Heartbeat)]
    BY <1>0, <2>2, <2>3
  <2> QED BY <1>0, <1>3, <2>4 DEF ReceiveStatus, ReceiveHeartbeat
<1>4. ASSUME NEW w \in Conns, SyncRunning(w) PROVE Goal
  <2> DEFINE S == StillStopped(proc[w].view, proc[w].agent, proc[w].msg.running)
  <2>1. proc[w].msg \in Heartbeat /\ proc[w].agent \in Agents
    BY <1>4, ProcFact DEF SyncRunning, LocalAt
  <2>2. S \subseteq Scenarios
    BY <2>1 DEF StillStopped, Heartbeat
  <2>3. Deliver(proc[w].agent, StopAll(S))
    BY <1>4 DEF SyncRunning
  <2> HIDE DEF S
  <2>4. StopAll(S) \in Seq(Command)
    BY <2>2, StopAllFact
  <2>5. down' \in [Conns -> Seq(Command)]
    BY <2>1, <2>3, <2>4, DeliverFact
  <2> QED BY <1>0, <1>4, <2>5 DEF SyncRunning
<1>5. ASSUME NEW w \in Conns, NoticeClosed(w) PROVE Goal
  <2>1. up' = [up EXCEPT ![w] = <<>>]
    BY <1>5 DEF NoticeClosed
  <2>2. up' \in [Conns -> Seq(Status \cup Heartbeat)]
    BY <1>0, <1>e, <2>1
  <2> QED BY <1>0, <1>5, <2>2 DEF NoticeClosed
<1>6. ASSUME NEW r \in Requests, StopSend(r) PROVE Goal
  <2> DEFINE s == proc[r].scenario
             c == <<CommandOf("STOP", s)>>
  <2>1. c \in Seq(Command)
    <3>1. CommandOf("STOP", s) \in Command
      BY ProcFact DEF CommandOf, Command
    <3> QED BY <3>1
  <2>2. StopTargets(s) \subseteq Agents
    <3>1. s \in Scenarios
      BY ProcFact
    <3> HIDE DEF s
    <3> QED BY <3>1 DEF StopTargets, TypeOK
  <2>3. down' = down \/ \E a \in StopTargets(s) : Deliver(a, c)
    BY <1>6, Zenon DEF StopSend
  <2> HIDE DEF c, s
  <2>4. down' \in [Conns -> Seq(Command)]
    BY <1>0, <2>1, <2>2, <2>3, DeliverFact, SMTT(30)
  <2> QED BY <1>0, <1>6, <2>4 DEF StopSend
<1>7. ASSUME NEW r \in Requests, PageSync(r) PROVE Goal
  <2> DEFINE v == proc[r].view
             seen == proc[r].msg.seen
  <2>1. seen \in [Agents -> Connection]
    BY <1>7, ProcFact DEF PageSync, LocalAt, Page
  <2>2. ASSUME NEW w \in Conns
        PROVE  down[w] \o StopAll(StillStopped(v, proc[w].agent, seen[proc[w].agent].running)) \in Seq(Command)
    <3> DEFINE S == StillStopped(v, proc[w].agent, seen[proc[w].agent].running)
    <3>1. proc[w].agent \in Agents
      BY ProcFact
    <3>2. S \subseteq Scenarios
      BY <2>1, <3>1 DEF StillStopped, Connection
    <3> HIDE DEF S
    <3>3. StopAll(S) \in Seq(Command) /\ down[w] \in Seq(Command)
      BY <1>0, <3>2, StopAllFact
    <3>4. down[w] \o StopAll(S) \in Seq(Command)
      BY <3>3, ConcatProperties
    <3> QED BY <3>4 DEF S
  <2>3. ASSUME NEW w \in Conns
        PROVE  down'[w] \in {down[w], down[w] \o StopAll(StillStopped(v, proc[w].agent, seen[proc[w].agent].running))}
    BY <1>7, Zenon DEF PageSync
  <2>4. down' = [w \in Conns |-> down'[w]]
    BY <1>7, Zenon DEF PageSync
  <2> HIDE DEF v, seen
  <2>5. ASSUME NEW w \in Conns PROVE down'[w] \in Seq(Command)
    BY <1>0, <2>2, <2>3
  <2>6. down' \in [Conns -> Seq(Command)]
    BY <2>4, <2>5
  <2> QED BY <1>0, <1>7, <2>6, SMTT(30) DEF PageSync
<1>8. ASSUME NEW a \in Agents, Connect(a) PROVE Goal
  <2>1. agentWs' = [agentWs EXCEPT ![a] = accepted + 1]
    BY <1>8 DEF Connect
  <2> QED BY <1>0, <1>8, <2>1, ConnectFact DEF Connect
<1>9. ASSUME NEW a \in Agents, AgentDrop(a) \/ AgentRestart(a) PROVE Goal
  <2>1. down' = [down EXCEPT ![agentWs[a]] = <<>>]
    BY <1>9 DEF AgentDrop, AgentRestart
  <2>2. down' \in [Conns -> Seq(Command)]
    BY <1>0, <1>e, <2>1
  <2> QED BY <1>0, <1>9, <2>2 DEF AgentDrop, AgentRestart
<1>10. ASSUME NEW a \in Agents, AgentCommand(a) PROVE Goal
  <2> DEFINE w == agentWs[a]
             c == Head(down[w])
             s == c.scenario
  <2>1. w \in Conns /\ down[w] \in Seq(Command) /\ down[w] # <<>>
    BY <1>0, <1>10 DEF AgentCommand
  <2>2. c \in Command /\ Tail(down[w]) \in Seq(Command)
    BY <2>1, HeadTailProperties
  <2>3. s \in Scenarios
    BY <2>2 DEF Command
  <2>4. down' \in [Conns -> Seq(Command)]
    <3>1. down' = [down EXCEPT ![w] = Tail(down[w])]
      BY <1>10 DEF AgentCommand
    <3> QED BY <1>0, <2>1, <2>2, <3>1
  <2>5. \A st \in {"running", "stopping", "stopped", "error"} : StatusOf(s, st) \in Status
    BY <2>3 DEF StatusOf, Status
  <2>6. up' = up \/ \E st \in {"running", "stopping", "stopped", "error"} : Report(a, StatusOf(s, st))
    <3> HIDE DEF s
    <3> QED BY <1>10, Zenon DEF AgentCommand, s
  <2>7. up' \in [Conns -> Seq(Status \cup Heartbeat)]
    <3> HIDE DEF s
    <3> QED BY <1>0, <2>5, <2>6, ReportFact
  <2>8. running' \in [Agents -> SUBSET Scenarios]
    <3>1. \/ running' = running \/ running' = [running EXCEPT ![a] = running[a] \cup {s}]
          \/ running' = [running EXCEPT ![a] = running[a] \ {s}]
      <4> HIDE DEF s
      <4> QED BY <1>10, Zenon DEF AgentCommand, s
    <3> HIDE DEF s
    <3> QED BY <1>0, <2>3, <3>1
  <2> QED BY <1>0, <1>10, <2>4, <2>7, <2>8 DEF AgentCommand
<1>11. ASSUME NEW a \in Agents, NEW s \in Scenarios, ScenarioEnds(a, s) \/ SendStatus(a, s) PROVE Goal
  <2>1. \A st \in {"running", "stopping", "stopped", "error"} : StatusOf(s, st) \in Status
    BY DEF StatusOf, Status
  <2>2. \E st \in {"running", "stopping", "stopped", "error"} : Report(a, StatusOf(s, st))
    BY <1>11, Zenon DEF ScenarioEnds, SendStatus
  <2>3. up' \in [Conns -> Seq(Status \cup Heartbeat)]
    BY <2>1, <2>2, ReportFact
  <2>4. running' \in [Agents -> SUBSET Scenarios]
    BY <1>0, <1>11 DEF ScenarioEnds, SendStatus
  <2> QED BY <1>0, <1>11, <2>3, <2>4 DEF ScenarioEnds, SendStatus
<1>12. ASSUME NEW a \in Agents, SendHeartbeat(a) PROVE Goal
  <2> DEFINE m == [type |-> "HEARTBEAT", running |-> running[a]]
  <2>1. m \in Heartbeat
    BY <1>0 DEF Heartbeat
  <2>2. Report(a, m)
    BY <1>12 DEF SendHeartbeat
  <2> HIDE DEF m
  <2>3. up' \in [Conns -> Seq(Status \cup Heartbeat)]
    BY <2>1, <2>2, ReportFact
  <2> QED BY <1>0, <1>12, <2>3 DEF SendHeartbeat
<1>13. ASSUME BackendRestart PROVE Goal
  <2>1. up' \in [Conns -> Seq(Status \cup Heartbeat)] /\ down' \in [Conns -> Seq(Command)]
    <3>1. <<>> \in Seq(Command) /\ <<>> \in Seq(Status \cup Heartbeat)
      BY EmptySeq
    <3>2. up' = [w \in Conns |-> <<>>] /\ down' = [w \in Conns |-> <<>>]
      BY <1>13 DEF BackendRestart
    <3> QED BY <3>1, <3>2
  <2> QED BY <1>0, <1>13, <2>1 DEF BackendRestart
<1> HIDE DEF Goal
<1>14. ASSUME UNCHANGED vars PROVE Goal
  BY <1>1, <1>14 DEF vars, net
<1>15. ASSUME NEW p \in Procs, ExecuteDeployment(p) PROVE Goal
  <2>1. CASE CreateRow(p) \/ TrackDeployment(p) \/ DeployFailed(p) \/ DeployRefused(p)
    BY <1>1, <2>1 DEF CreateRow, TrackDeployment, DeployFailed, DeployRefused
  <2> QED BY <1>2, <1>15, <2>1 DEF ExecuteDeployment
<1>16. ASSUME NEW w \in Conns, Handler(w) PROVE Goal
  <2>1. CASE ReadPending(w) \/ ClearPending(w) \/ Greet(w) \/ WriteStatus(w) \/ HandleStatus(w)
             \/ ResumeBegin(w) \/ ResumeNext(w) \/ ResumeSkip(w) \/ ResumeEnd(w) \/ Unregister(w)
             \/ MarkDisconnected(w)
    <3>1. UNCHANGED net
      BY <2>1 DEF ReadPending, ClearPending, Greet, WriteStatus, HandleStatus, ResumeBegin, ResumeNext,
                  ResumeSkip, ResumeEnd, Unregister, MarkDisconnected
    <3> QED BY <1>1, <3>1, SMTT(30)
  <2> QED BY <1>3, <1>4, <1>5, <1>16, <2>1 DEF Handler
<1>17. ASSUME NEW r \in Requests, NewRequest(r) \/ Request(r) PROVE Goal
  <2>1. CASE NewRequest(r) \/ StopWrite(r) \/ RemoveWrite(r) \/ PageRead(r) \/ PageFix(r)
    <3>1. UNCHANGED net
      BY <2>1, Zenon DEF NewRequest, DeployRequest, StopRequest, StopOrphan, RemoveRequest, PageRequest,
                 StopWrite, RemoveWrite, PageRead, PageFix
    <3> QED BY <1>1, <3>1
  <2> QED BY <1>6, <1>7, <1>17, <2>1 DEF Request
<1>18. ASSUME NEW a \in Agents, Agent(a) PROVE Goal
  BY <1>8, <1>9, <1>10, <1>11, <1>12, <1>18 DEF Agent
<1>19. Goal
  BY <1>13, <1>14, <1>15, <1>16, <1>17, <1>18 DEF Next, Procs
<1> QED BY <1>19 DEF Goal

LEMMA TypeStep == ASSUME TypeOK, Locals, [Next]_vars PROVE TypeOK' /\ Locals'
<1>1. rows' \in Seq(RowType)
  BY TableStep DEF Kept
<1> QED BY <1>1, ProcStep, MemoryStep, NetStep DEF TypeOK

-----------------------------------------------------------------------------
(* One replay at a time *)

\* A coroutine with local variables q replays the lost rows of its agent.
InReplay(q) == q.at = "resume" \/ (q.at \in Deploying /\ q.then = "resume")

\* A connection that has not been accepted has no handler.
Fresh == \A w \in Conns : w > accepted => proc[w].at = "none"

\* What q was doing for a replay, it goes on doing as r.
Same(q, r) ==
    /\ InReplay(r) <=> InReplay(q)
    /\ InReplay(q) => /\ r.agent = q.agent /\ r.todo \subseteq q.todo
                      /\ r.at = "new_row" => q.at = "new_row" /\ r.row = q.row /\ r.scenario = q.scenario

LEMMA FreshStep == ASSUME TypeOK, Locals, Fresh, [Next]_vars PROVE Fresh'
<1> SUFFICES ASSUME NEW w \in Conns, w > accepted' PROVE proc'[w].at = "none"
  BY DEF Fresh
<1> USE ProcsFact
<1>0. proc \in [Procs -> ProcType] /\ accepted \in Nat /\ w \in Procs
  BY DEF TypeOK
<1>1. ASSUME NEW p \in Procs, proc[p].at # "none", accepted' = accepted,
             \A x \in Procs : x # p => proc'[x] = proc[x]
      PROVE  proc'[w].at = "none"
  <2>1. proc[w].at = "none"
    BY <1>1 DEF Fresh
  <2>2. w # p
    BY <1>1, <2>1
  <2> QED BY <1>0, <1>1, <2>1, <2>2
<1>2. CASE UNCHANGED <<proc, accepted>>
  BY <1>2 DEF Fresh
<1>3. ASSUME NEW p \in Procs, ExecuteDeployment(p) PROVE proc'[w].at = "none"
  <2>1. proc[p].at # "none" /\ accepted' = accepted
    BY <1>3 DEF ExecuteDeployment, CreateRow, SendStart, TrackDeployment, DeployFailed, DeployRefused, net
  <2>2. \A x \in Procs : x # p => proc'[x] = proc[x]
    BY <1>0, <1>3 DEF ExecuteDeployment, CreateRow, SendStart, TrackDeployment, DeployFailed, DeployRefused, Goto,
                       Return
  <2> QED BY <1>1, <2>1, <2>2
<1>4. ASSUME NEW p \in Conns, Handler(p) PROVE proc'[w].at = "none"
  <2>1. proc[p].at # "none" /\ accepted' = accepted
    BY <1>4, Zenon DEF Handler, ReadPending, ClearPending, Greet, ReceiveStatus, WriteStatus, HandleStatus,
                ReceiveHeartbeat, SyncRunning, ResumeBegin, ResumeNext, ResumeSkip, ResumeEnd, NoticeClosed, Unregister,
                MarkDisconnected, net
  <2>2. \A x \in Procs : x # p => proc'[x] = proc[x]
    BY <1>0, <1>4, Zenon DEF Handler, ReadPending, ClearPending, Greet, ReceiveStatus, WriteStatus, HandleStatus,
                ReceiveHeartbeat, SyncRunning, ResumeBegin, ResumeNext, ResumeSkip, ResumeEnd, NoticeClosed, Unregister,
                MarkDisconnected, Goto
  <2> QED BY <1>1, <2>1, <2>2
<1>5. ASSUME NEW r \in Requests, NewRequest(r) \/ Request(r) PROVE proc'[w].at = "none"
  <2>1. accepted' = accepted
    BY <1>5, Zenon DEF NewRequest, Request, DeployRequest, StopRequest, StopOrphan, RemoveRequest, PageRequest,
                 StopSend, StopWrite, RemoveWrite, PageRead, PageSync, PageFix, net
  <2>2. \A x \in Procs : x # r => proc'[x] = proc[x]
    BY <1>0, <1>5, Zenon DEF NewRequest, Request, DeployRequest, StopRequest, StopOrphan, RemoveRequest, PageRequest,
                 StopSend, StopWrite, RemoveWrite, PageRead, PageSync, PageFix, Goto
  <2>3. w # r /\ proc[w].at = "none"
    BY <2>1 DEF Fresh
  <2> QED BY <1>0, <2>2, <2>3
<1>6. ASSUME NEW a \in Agents, Agent(a) PROVE proc'[w].at = "none"
  <2>1. CASE Connect(a)
    <3>1. accepted' = accepted + 1 /\ w # accepted + 1 /\ w > accepted
      BY <1>0, <2>1, ConnectFact
    <3>2. proc'[w] = proc[w]
      BY <1>0, <2>1, <3>1 DEF Connect
    <3> QED BY <3>1, <3>2 DEF Fresh
  <2>2. CASE ~Connect(a)
    <3>1. UNCHANGED <<proc, accepted>>
      BY <1>6, <2>2 DEF Agent, AgentDrop, AgentRestart, AgentCommand, SendHeartbeat, ScenarioEnds, SendStatus
    <3> QED BY <1>2, <3>1
  <2> QED BY <2>1, <2>2
<1>7. CASE BackendRestart
  <2>1. proc[w].at = "none" /\ w \notin Requests
    BY <1>7 DEF BackendRestart, Fresh
  <2>2. proc'[w] = proc[w]
    BY <1>0, <1>7, <2>1 DEF BackendRestart
  <2> QED BY <2>1, <2>2
<1>8. CASE UNCHANGED vars
  BY <1>2, <1>8 DEF vars
<1> QED BY <1>3, <1>4, <1>5, <1>6, <1>7, <1>8 DEF Next, Procs

\* Most steps neither begin nor end a replay.
LEMMA ReplaySteps ==
    ASSUME TypeOK, Locals, Fresh, [Next]_vars,
           ~BackendRestart, \A p \in Conns : ~ResumeBegin(p) /\ ~ResumeNext(p) /\ ~ResumeSkip(p) /\ ~ResumeEnd(p)
    PROVE  resuming' = resuming /\ \A w \in Conns : Same(proc[w], proc'[w])
<1> DEFINE Goal == resuming' = resuming /\ \A w \in Conns : Same(proc[w], proc'[w])
<1> USE ProcsFact
<1>0. proc \in [Procs -> ProcType]
  BY DEF TypeOK
<1>1. \A q : Same(q, q)
  BY DEF Same
<1>2. ASSUME NEW p \in Procs, resuming' = resuming, \A x \in Procs : x # p => proc'[x] = proc[x],
             p \in Conns => Same(proc[p], proc'[p])
      PROVE  Goal
  <2>1. ASSUME NEW w \in Conns PROVE Same(proc[w], proc'[w])
    <3>1. CASE w = p
      BY <1>2, <3>1
    <3>2. CASE w # p
      <4>1. proc'[w] = proc[w]
        BY <1>2, <3>2
      <4> QED BY <1>1, <4>1
    <3> QED BY <3>1, <3>2
  <2> QED BY <1>2, <2>1
<1>3. ASSUME UNCHANGED <<resuming, proc>> PROVE Goal
  BY <1>1, <1>3
<1> HIDE DEF Goal
<1>4. ASSUME NEW p \in Procs, ExecuteDeployment(p) PROVE Goal
  <2>1. resuming' = resuming
    BY <1>4 DEF ExecuteDeployment, CreateRow, SendStart, TrackDeployment, DeployFailed, DeployRefused, manager
  <2>2. \A x \in Procs : x # p => proc'[x] = proc[x]
    BY <1>0, <1>4 DEF ExecuteDeployment, CreateRow, SendStart, TrackDeployment, DeployFailed, DeployRefused, Goto,
                       Return
  <2>3. CASE CreateRow(p) \/ SendStart(p)
    <3>1. /\ proc'[p].at \in {"send_start", "track", "send_failed"} /\ proc[p].at \in {"new_row", "send_start"}
          /\ proc'[p].then = proc[p].then /\ proc'[p].agent = proc[p].agent /\ proc'[p].todo = proc[p].todo
      BY <1>0, <2>3 DEF CreateRow, SendStart, Goto, ProcType
    <3>2. Same(proc[p], proc'[p])
      BY <3>1 DEF Same, InReplay, Deploying
    <3> QED BY <1>2, <2>1, <2>2, <3>2
  <2>4. CASE TrackDeployment(p) \/ DeployFailed(p) \/ DeployRefused(p)
    <3>1. proc[p].at \in {"new_row", "track", "send_failed"} /\ proc[p].then \in {"idle", "greet", "resume"}
      BY <2>4, ProcFact DEF TrackDeployment, DeployFailed, DeployRefused, LocalAt, Deploying
    <3>2. proc'[p] = [Idle(proc[p].then, proc[p].agent) EXCEPT !.todo = proc[p].todo, !.msg = proc[p].msg]
      BY <1>0, <2>4 DEF TrackDeployment, DeployFailed, DeployRefused, Return
    <3>3. /\ proc'[p].at = proc[p].then /\ proc'[p].then = "idle" /\ proc'[p].agent = proc[p].agent
          /\ proc'[p].todo = proc[p].todo
      BY <3>2 DEF Idle
    <3>4. Same(proc[p], proc'[p])
      BY <3>1, <3>3 DEF Same, InReplay, Deploying
    <3> QED BY <1>2, <2>1, <2>2, <3>4
  <2> QED BY <1>4, <2>3, <2>4 DEF ExecuteDeployment
<1>5. ASSUME NEW p \in Conns, Handler(p) PROVE Goal
  <2>1. resuming' = resuming
    BY <1>5 DEF Handler, ReadPending, ClearPending, Greet, ReceiveStatus, WriteStatus, HandleStatus,
                ReceiveHeartbeat, SyncRunning, NoticeClosed, Unregister, MarkDisconnected, manager
  <2>2. \A x \in Procs : x # p => proc'[x] = proc[x]
    BY <1>0, <1>5 DEF Handler, ReadPending, ClearPending, Greet, ReceiveStatus, WriteStatus, HandleStatus,
                ReceiveHeartbeat, SyncRunning, NoticeClosed, Unregister, MarkDisconnected, Goto
  <2>3. CASE ClearPending(p)
    <3>1. proc[p].at = "clear" /\ proc[p].then = "greet"
      BY <2>3, ProcFact DEF ClearPending, LocalAt
    <3>2. proc'[p].at = "new_row" /\ proc'[p].then = "greet"
      BY <1>0, <2>3, <3>1 DEF ClearPending, Goto, ProcType
    <3>3. Same(proc[p], proc'[p])
      BY <3>1, <3>2 DEF Same, InReplay, Deploying
    <3> QED BY <1>2, <2>1, <2>2, <3>3
  <2>4. CASE ~ClearPending(p)
    <3>1. proc[p].at \in {"accepted", "greet", "loop", "status", "status_memory", "sync", "unregister", "mark"}
      BY <1>5, <2>4 DEF Handler, ReadPending, Greet, ReceiveStatus, WriteStatus, HandleStatus,
                ReceiveHeartbeat, SyncRunning, NoticeClosed, Unregister, MarkDisconnected
    <3>2. proc'[p].at \in {"clear", "greet", "loop", "aborted", "status", "status_memory", "sync", "resume_check",
                           "unregister", "mark", "closed"}
      <4>1. CASE ReadPending(p)
        BY <1>0, <4>1 DEF ReadPending, ProcType
      <4>2. CASE ReceiveStatus(p) \/ WriteStatus(p) \/ ReceiveHeartbeat(p) \/ SyncRunning(p)
        BY <1>0, <4>2 DEF ReceiveStatus, WriteStatus, ReceiveHeartbeat, SyncRunning, ProcType
      <4>3. CASE NoticeClosed(p) \/ Unregister(p)
        BY <1>0, <4>3 DEF NoticeClosed, Unregister, Goto, ProcType
      <4>4. CASE Greet(p) \/ HandleStatus(p) \/ MarkDisconnected(p)
        <5>1. \E at \in {"loop", "aborted", "closed"} : proc' = [proc EXCEPT ![p] = Idle(at, proc[p].agent)]
          BY <4>4, Zenon DEF Greet, HandleStatus, MarkDisconnected
        <5> QED BY <1>0, <5>1 DEF Idle
      <4> QED BY <1>5, <2>4, <4>1, <4>2, <4>3, <4>4 DEF Handler
    <3>3. Same(proc[p], proc'[p])
      BY <3>1, <3>2 DEF Same, InReplay, Deploying
    <3> QED BY <1>2, <2>1, <2>2, <3>3
  <2> QED BY <2>3, <2>4
<1>6. ASSUME NEW r \in Requests, NewRequest(r) \/ Request(r) PROVE Goal
  <2>1. resuming' = resuming
    BY <1>6, Zenon DEF NewRequest, Request, DeployRequest, StopRequest, StopOrphan, RemoveRequest, PageRequest,
                 StopSend, StopWrite, RemoveWrite, PageRead, PageSync, PageFix, manager
  <2>2. \A x \in Procs : x # r => proc'[x] = proc[x]
    BY <1>0, <1>6, Zenon DEF NewRequest, Request, DeployRequest, StopRequest, StopOrphan, RemoveRequest, PageRequest,
                 StopSend, StopWrite, RemoveWrite, PageRead, PageSync, PageFix, Goto
  <2>3. r \notin Conns
    OBVIOUS
  <2> QED BY <1>2, <2>1, <2>2, <2>3, Zenon
<1>7. ASSUME NEW a \in Agents, Agent(a) PROVE Goal
  <2>1. CASE Connect(a)
    <3> DEFINE w == accepted + 1
    <3>1. w \in Conns /\ w > accepted
      BY <2>1, ConnectFact
    <3>2. proc[w].at = "none"
      BY <3>1 DEF Fresh
    <3>3. resuming' = resuming /\ proc' = [proc EXCEPT ![w] = Idle("accepted", a)]
      BY <2>1 DEF Connect
    <3> HIDE DEF w
    <3>4. proc'[w].at = "accepted" /\ \A x \in Procs : x # w => proc'[x] = proc[x]
      BY <1>0, <3>1, <3>3 DEF Idle
    <3>5. Same(proc[w], proc'[w])
      BY <3>2, <3>4 DEF Same, InReplay, Deploying
    <3> QED BY <1>2, <3>1, <3>3, <3>4, <3>5
  <2>2. CASE ~Connect(a)
    <3>1. UNCHANGED <<resuming, proc>>
      BY <1>7, <2>2 DEF Agent, AgentDrop, AgentRestart, AgentCommand, SendHeartbeat, ScenarioEnds, SendStatus, manager
    <3> QED BY <1>3, <3>1
  <2> QED BY <2>1, <2>2
<1>8. ASSUME UNCHANGED vars PROVE Goal
  BY <1>3, <1>8 DEF vars
<1>9. Goal
  BY <1>4, <1>5, <1>6, <1>7, <1>8 DEF Next, Procs
<1> QED BY <1>9 DEF Goal

\* The steps that begin, advance and end the replay of handler p, seen from it.
LEMMA ResumeFact ==
    ASSUME TypeOK, Locals, NEW p \in Conns
    PROVE  /\ ResumeBegin(p) \/ ResumeNext(p) \/ ResumeSkip(p) \/ ResumeEnd(p) =>
                 /\ proc'[p].agent = proc[p].agent
                 /\ \A x \in Procs : x # p => proc'[x] = proc[x]
           /\ ResumeBegin(p) =>
                 /\ ~InReplay(proc[p])
                 /\ \/ resuming' = resuming /\ ~InReplay(proc'[p])
                    \/ /\ proc[p].agent \notin resuming /\ resuming' = resuming \cup {proc[p].agent}
                       /\ proc'[p].at = "resume" /\ proc'[p].todo = Lost(proc[p].agent, proc[p].msg.running)
           /\ ResumeNext(p) =>
                 /\ proc[p].at = "resume" /\ resuming' = resuming
                 /\ \/ proc'[p].at = "resume" /\ proc'[p].todo = {}
                    \/ LET i == Newest(proc[p].todo)
                       IN  /\ proc'[p].at = "new_row" /\ proc'[p].then = "resume" /\ proc'[p].row = i
                           /\ proc'[p].todo = proc[p].todo \ {i} /\ proc'[p].scenario = rows[i].scenario
           /\ ResumeSkip(p) => /\ proc[p].at = "resume" /\ proc'[p].at = "resume" /\ resuming' = resuming
                               /\ proc'[p].todo \subseteq proc[p].todo
           /\ ResumeEnd(p) => /\ proc[p].at = "resume" /\ ~InReplay(proc'[p])
                              /\ resuming' = resuming \ {proc[p].agent}
<1> USE ProcsFact
<1>0. proc \in [Procs -> ProcType] /\ p \in Procs
  BY DEF TypeOK
<1>1. \A a : Idle("loop", a).agent = a /\ ~InReplay(Idle("loop", a))
  BY DEF Idle, InReplay, Deploying
<1>2. ASSUME ResumeBegin(p)
      PROVE  /\ proc'[p].agent = proc[p].agent
             /\ \A x \in Procs : x # p => proc'[x] = proc[x]
             /\ ~InReplay(proc[p])
             /\ \/ resuming' = resuming /\ ~InReplay(proc'[p])
                \/ /\ proc[p].agent \notin resuming /\ resuming' = resuming \cup {proc[p].agent}
                   /\ proc'[p].at = "resume" /\ proc'[p].todo = Lost(proc[p].agent, proc[p].msg.running)
  <2> DEFINE lost == Lost(proc[p].agent, proc[p].msg.running)
  <2>1. ~InReplay(proc[p])
    BY <1>2 DEF ResumeBegin, InReplay, Deploying
  <2>2. \/ /\ proc' = [proc EXCEPT ![p] = Idle("loop", proc[p].agent)] /\ resuming' = resuming
        \/ /\ proc[p].agent \notin resuming /\ resuming' = resuming \cup {proc[p].agent}
           /\ proc' = [proc EXCEPT ![p].at = "resume", ![p].todo = lost]
    BY <1>2 DEF ResumeBegin
  <2> HIDE DEF lost
  <2>3. CASE proc' = [proc EXCEPT ![p] = Idle("loop", proc[p].agent)] /\ resuming' = resuming
    BY <1>0, <1>1, <2>1, <2>3
  <2>4. CASE /\ proc[p].agent \notin resuming /\ resuming' = resuming \cup {proc[p].agent}
             /\ proc' = [proc EXCEPT ![p].at = "resume", ![p].todo = lost]
    <3>1. proc'[p].at = "resume" /\ proc'[p].todo = lost /\ proc'[p].agent = proc[p].agent
      BY <1>0, <2>4 DEF ProcType
    <3>2. \A x \in Procs : x # p => proc'[x] = proc[x]
      BY <1>0, <2>4
    <3> QED BY <2>1, <2>4, <3>1, <3>2 DEF lost
  <2> QED BY <2>2, <2>3, <2>4
<1>3. ASSUME ResumeNext(p)
      PROVE  /\ proc'[p].agent = proc[p].agent
             /\ \A x \in Procs : x # p => proc'[x] = proc[x]
             /\ proc[p].at = "resume" /\ resuming' = resuming
             /\ \/ proc'[p].at = "resume" /\ proc'[p].todo = {}
                \/ LET i == Newest(proc[p].todo)
                   IN  /\ proc'[p].at = "new_row" /\ proc'[p].then = "resume" /\ proc'[p].row = i
                       /\ proc'[p].todo = proc[p].todo \ {i} /\ proc'[p].scenario = rows[i].scenario
  <2> DEFINE i == Newest(proc[p].todo)
             s == rows[i].scenario
             t == proc[p].todo \ {i}
  <2>1. \/ proc' = [proc EXCEPT ![p].todo = {}]
        \/ proc' = [proc EXCEPT ![p].at = "new_row", ![p].scenario = s, ![p].row = i, ![p].todo = t, ![p].then = "resume"]
    BY <1>0, <1>3 DEF ResumeNext
  <2>2. proc[p].at = "resume" /\ resuming' = resuming
    BY <1>3 DEF ResumeNext, manager
  <2> HIDE DEF i, s, t
  <2>3. CASE proc' = [proc EXCEPT ![p].todo = {}]
    BY <1>0, <2>2, <2>3 DEF ProcType
  <2>4. CASE proc' = [proc EXCEPT ![p].at = "new_row", ![p].scenario = s, ![p].row = i, ![p].todo = t, ![p].then = "resume"]
    <3>1. /\ proc'[p].at = "new_row" /\ proc'[p].then = "resume" /\ proc'[p].row = i /\ proc'[p].todo = t
          /\ proc'[p].scenario = s /\ proc'[p].agent = proc[p].agent
      BY <1>0, <2>4 DEF ProcType
    <3>2. \A x \in Procs : x # p => proc'[x] = proc[x]
      BY <1>0, <2>4
    <3> QED BY <2>2, <3>1, <3>2 DEF i, s, t
  <2> QED BY <2>1, <2>3, <2>4
<1>4. ASSUME ResumeEnd(p)
      PROVE  /\ proc'[p].agent = proc[p].agent
             /\ \A x \in Procs : x # p => proc'[x] = proc[x]
             /\ proc[p].at = "resume" /\ ~InReplay(proc'[p])
             /\ resuming' = resuming \ {proc[p].agent}
  <2>1. /\ proc' = [proc EXCEPT ![p] = Idle("loop", proc[p].agent)] /\ proc[p].at = "resume"
        /\ resuming' = resuming \ {proc[p].agent}
    BY <1>4 DEF ResumeEnd
  <2> QED BY <1>0, <1>1, <2>1
<1>5. ASSUME ResumeSkip(p)
      PROVE  /\ proc'[p].agent = proc[p].agent
             /\ \A x \in Procs : x # p => proc'[x] = proc[x]
             /\ proc[p].at = "resume" /\ proc'[p].at = "resume" /\ resuming' = resuming
             /\ proc'[p].todo \subseteq proc[p].todo
  <2> DEFINE t == proc[p].todo \ {Newest(proc[p].todo)}
  <2>1. proc' = [proc EXCEPT ![p].todo = t] /\ proc[p].at = "resume" /\ resuming' = resuming
    BY <1>0, <1>5 DEF ResumeSkip, manager
  <2>2. t \subseteq proc[p].todo
    OBVIOUS
  <2> HIDE DEF t
  <2> QED BY <1>0, <2>1, <2>2 DEF ProcType
<1> QED BY <1>2, <1>3, <1>4, <1>5

LEMMA RestartFact ==
    ASSUME TypeOK, BackendRestart
    PROVE  resuming' = {} /\ \A w \in Conns : ~InReplay(proc'[w])
<1>1. ASSUME NEW w \in Conns PROVE proc'[w].at \in {"none", "closed"}
  <2>1. proc'[w] = IF proc[w].at = "none" THEN proc[w] ELSE Idle("closed", proc[w].agent)
    BY ProcsFact DEF BackendRestart, TypeOK
  <2>2. Idle("closed", proc[w].agent).at = "closed"
    BY DEF Idle
  <2> QED BY <2>1, <2>2
<1> QED BY <1>1 DEF BackendRestart, InReplay, Deploying

\* OneReplay, of the local variables.
LEMMA OneReplayDef ==
    OneReplay <=>
        \A a \in Agents :
            /\ a \in resuming <=> \E w \in Conns : proc[w].agent = a /\ InReplay(proc[w])
            /\ \A v, w \in Conns : InReplay(proc[v]) /\ InReplay(proc[w]) /\ proc[v].agent = proc[w].agent => v = w
  BY DEF OneReplay, Replaying, InReplay

LEMMA OneReplayStep ==
    ASSUME TypeOK, Locals, Fresh, OneReplay, [Next]_vars
    PROVE  OneReplay'
<1> DEFINE One(C, R, P) ==
        \A a \in Agents :
            /\ a \in R <=> \E w \in Conns : P[w].agent = a /\ w \in C
            /\ \A v, w \in Conns : v \in C /\ w \in C /\ P[v].agent = P[w].agent => v = w
           C0 == {w \in Conns : InReplay(proc[w])}
           C1 == {w \in Conns : InReplay(proc'[w])}
<1>1. One(C0, resuming, proc)
  BY OneReplayDef
<1>2. SUFFICES One(C1, resuming', proc')
  BY DEF OneReplay, Replaying, InReplay
<1>3. CASE /\ resuming' = resuming /\ C1 = C0
           /\ \A w \in C0 : proc'[w].agent = proc[w].agent
  <2> HIDE DEF C0, C1
  <2> QED BY <1>1, <1>3
<1>4. ASSUME NEW p \in Conns, ResumeBegin(p)
      PROVE  One(C1, resuming', proc')
  <2>1. /\ proc'[p].agent = proc[p].agent /\ \A x \in Conns : x # p => proc'[x] = proc[x]
        /\ p \notin C0
    BY <1>4, ResumeFact, ProcsFact
  <2>2. CASE resuming' = resuming /\ ~InReplay(proc'[p])
    <3>1. C1 = C0
      BY <2>1, <2>2
    <3>2. \A w \in C0 : proc'[w].agent = proc[w].agent
      BY <2>1
    <3> QED BY <1>3, <2>2, <3>1, <3>2
  <2>3. CASE /\ proc[p].agent \notin resuming /\ resuming' = resuming \cup {proc[p].agent}
             /\ proc'[p].at = "resume"
    <3>1. C1 = C0 \cup {p}
      BY <2>1, <2>3 DEF InReplay
    <3>2. \A w \in Conns : proc'[w].agent = proc[w].agent
      BY <2>1
    <3>3. proc[p].agent \in Agents
      BY ProcFact, ProcsFact
    <3>4. ASSUME NEW w \in C0, w \in Conns PROVE proc[w].agent # proc[p].agent
      <4> HIDE DEF C0, C1
      <4> QED BY <1>1, <2>3, <3>3, <3>4
    <3> HIDE DEF C0, C1
    <3>5. ASSUME NEW a \in Agents PROVE a \in resuming' <=> \E w \in Conns : proc'[w].agent = a /\ w \in C1
      BY <1>1, <2>3, <3>1, <3>2
    <3>6. ASSUME NEW v \in Conns, NEW w \in Conns, v \in C1, w \in C1, proc'[v].agent = proc'[w].agent
          PROVE  v = w
      BY <1>1, <3>1, <3>2, <3>3, <3>4, <3>6
    <3> QED BY <3>5, <3>6
  <2> QED BY <1>4, <2>2, <2>3, ResumeFact
<1>5. ASSUME NEW p \in Conns, ResumeNext(p) \/ ResumeSkip(p)
      PROVE  One(C1, resuming', proc')
  <2>1. /\ proc'[p].agent = proc[p].agent /\ \A x \in Conns : x # p => proc'[x] = proc[x]
        /\ resuming' = resuming /\ p \in C0 /\ p \in C1
    BY <1>5, ResumeFact, ProcsFact DEF InReplay, Deploying
  <2>2. C1 = C0
    BY <2>1
  <2>3. \A w \in C0 : proc'[w].agent = proc[w].agent
    BY <2>1
  <2> QED BY <1>3, <2>1, <2>2, <2>3
<1>6. ASSUME NEW p \in Conns, ResumeEnd(p)
      PROVE  One(C1, resuming', proc')
  <2>1. /\ proc'[p].agent = proc[p].agent /\ \A x \in Conns : x # p => proc'[x] = proc[x]
        /\ resuming' = resuming \ {proc[p].agent} /\ p \in C0 /\ p \notin C1
    BY <1>6, ResumeFact, ProcsFact DEF InReplay, Deploying
  <2>2. C1 = C0 \ {p} /\ \A w \in Conns : proc'[w].agent = proc[w].agent
    BY <2>1
  <2>3. proc[p].agent \in Agents
    BY ProcFact, ProcsFact
  <2> HIDE DEF C0, C1
  <2>4. ASSUME NEW a \in Agents PROVE a \in resuming' <=> \E w \in Conns : proc'[w].agent = a /\ w \in C1
    BY <1>1, <2>1, <2>2, <2>3
  <2>5. ASSUME NEW v \in Conns, NEW w \in Conns, v \in C1, w \in C1, proc'[v].agent = proc'[w].agent
        PROVE  v = w
    BY <1>1, <2>2, <2>3, <2>5
  <2> QED BY <2>4, <2>5
<1>7. CASE BackendRestart
  <2>1. C1 = {} /\ resuming' = {}
    BY <1>7, RestartFact
  <2> HIDE DEF C1
  <2> QED BY <2>1
<1>8. CASE ~BackendRestart /\ \A p \in Conns : ~ResumeBegin(p) /\ ~ResumeNext(p) /\ ~ResumeSkip(p) /\ ~ResumeEnd(p)
  <2>1. resuming' = resuming /\ \A w \in Conns : Same(proc[w], proc'[w])
    BY <1>8, ReplaySteps
  <2>2. C1 = C0 /\ \A w \in C0 : proc'[w].agent = proc[w].agent
    BY <2>1 DEF Same
  <2> QED BY <1>3, <2>1, <2>2
<1> QED BY <1>4, <1>5, <1>6, <1>7, <1>8

-----------------------------------------------------------------------------
(* No row is replayed twice *)

\* A row of table R that exists replays row i.
Replayed(R, i) == \E j \in 1 .. Len(R) : R[j].state # "deleted" /\ R[j].src = i

\* Row i of agent a may still be replayed.
Free(R, a, i) == i \in 1 .. Len(R) /\ R[i].agent = a /\ ~Replayed(R, i)

\* A replay is about a row of the same scenario and agent, and comes after it.
Sources ==
    \A j \in 1 .. Len(rows) :
        rows[j].src # 0 =>
            /\ rows[j].src \in 1 .. j - 1
            /\ rows[rows[j].src].agent = rows[j].agent /\ rows[rows[j].src].scenario = rows[j].scenario

\* A replay has only rows before it that no row replays.
ReplayOf(R, q) ==
    InReplay(q) =>
        /\ \A i \in q.todo : Free(R, q.agent, i)
        /\ q.at = "new_row" => /\ q.row \notin q.todo /\ Free(R, q.agent, q.row)
                               /\ R[q.row].scenario = q.scenario

ReplayInv == \A w \in Conns : ReplayOf(rows, proc[w])

\* Steps that add no replay.
LEMMA PlainStep ==
    ASSUME TypeOK, Kept(rows'), Plain(rows')
    PROVE  /\ \A a, i : Free(rows, a, i) => Free(rows', a, i) /\ rows'[i].scenario = rows[i].scenario
           /\ Sources => Sources'
           /\ ReplayOnce => ReplayOnce'
<1>0. /\ Len(rows) \in Nat /\ Len(rows') \in Nat /\ Len(rows) <= Len(rows')
      /\ DOMAIN rows = 1 .. Len(rows) /\ DOMAIN rows' = 1 .. Len(rows')
  BY KeptLen, RowsFact, LenProperties DEF TypeOK, Kept
<1>1. ASSUME NEW j \in 1 .. Len(rows')
      PROVE  \/ j \notin 1 .. Len(rows) /\ rows'[j].src = 0
             \/ j \in 1 .. Len(rows) /\ SameRow(rows[j], rows'[j])
  <2>1. CASE j \in 1 .. Len(rows)
    BY <2>1 DEF Kept
  <2>2. CASE j \notin 1 .. Len(rows)
    <3>1. j \in Len(rows) + 1 .. Len(rows')
      BY <1>0, <2>2
    <3> QED BY <2>2, <3>1 DEF Plain
  <2> QED BY <2>1, <2>2
<1>2. ASSUME NEW j \in 1 .. Len(rows'), rows'[j].src # 0
      PROVE  /\ j \in 1 .. Len(rows) /\ rows'[j].src = rows[j].src
             /\ rows'[j].agent = rows[j].agent /\ rows'[j].scenario = rows[j].scenario
             /\ rows'[j].state # "deleted" => rows[j].state # "deleted"
  BY <1>1, <1>2 DEF SameRow
<1>3. ASSUME NEW i \in 1 .. Len(rows)
      PROVE  i \in 1 .. Len(rows') /\ rows'[i].agent = rows[i].agent /\ rows'[i].scenario = rows[i].scenario
  BY <1>0 DEF Kept, SameRow
<1>4. ASSUME NEW a, NEW i, Free(rows, a, i) PROVE Free(rows', a, i) /\ rows'[i].scenario = rows[i].scenario
  <2>1. i \in 1 .. Len(rows) /\ i # 0
    BY <1>4 DEF Free
  <2>2. ASSUME NEW j \in 1 .. Len(rows'), rows'[j].state # "deleted", rows'[j].src = i PROVE FALSE
    <3>1. j \in 1 .. Len(rows) /\ rows[j].src = i /\ rows[j].state # "deleted"
      BY <1>2, <2>1, <2>2
    <3> QED BY <1>4, <3>1 DEF Free, Replayed
  <2> QED BY <1>3, <1>4, <2>1, <2>2 DEF Free, Replayed
<1>5. ASSUME Sources, NEW j \in 1 .. Len(rows'), rows'[j].src # 0
      PROVE  /\ rows'[j].src \in 1 .. j - 1
             /\ rows'[rows'[j].src].agent = rows'[j].agent /\ rows'[rows'[j].src].scenario = rows'[j].scenario
  <2> DEFINE i == rows[j].src
  <2>1. j \in 1 .. Len(rows) /\ rows'[j].src = i
    BY <1>2, <1>5
  <2>2. i \in 1 .. j - 1 /\ rows[i].agent = rows[j].agent /\ rows[i].scenario = rows[j].scenario
    BY <1>5, <2>1 DEF Sources
  <2>3. i \in 1 .. Len(rows)
    BY <1>0, <2>1, <2>2
  <2> HIDE DEF i
  <2>4. rows'[i].agent = rows[i].agent /\ rows'[i].scenario = rows[i].scenario
    BY <1>3, <2>3
  <2> QED BY <1>2, <1>5, <2>1, <2>2, <2>4
<1>6. ASSUME ReplayOnce, NEW i \in DOMAIN rows', NEW j \in DOMAIN rows', i # j,
             rows'[i].src # 0, rows'[i].src = rows'[j].src, rows'[i].state # "deleted", rows'[j].state # "deleted"
      PROVE  FALSE
  <2>1. i \in DOMAIN rows /\ j \in DOMAIN rows /\ rows[i].src = rows'[i].src /\ rows[j].src = rows'[j].src
    BY <1>0, <1>2, <1>6
  <2>2. rows[i].state # "deleted" /\ rows[j].state # "deleted"
    BY <1>0, <1>2, <1>6
  <2> QED BY <1>6, <2>1, <2>2 DEF ReplayOnce
<1> QED BY <1>4, <1>5, <1>6 DEF Sources, ReplayOnce

\* The rows that a handler takes to replay are free.
LEMMA LostIsFree ==
    ASSUME TypeOK, Sources, NEW a \in Agents, NEW S, NEW i \in Lost(a, S)
    PROVE  Free(rows, a, i)
<1> DEFINE s == rows[i].scenario
           I == RowsIn(View, a, s, Present)
<1>0. Len(rows) \in Nat /\ DOMAIN rows = 1 .. Len(rows)
  BY RowsFact DEF TypeOK
<1>1. i \in 1 .. Len(rows) /\ rows[i].agent = a /\ i = Newest(I)
  BY <1>0 DEF Lost
<1>2. ASSUME NEW j \in 1 .. Len(rows), rows[j].state # "deleted", rows[j].src = i PROVE FALSE
  <2>1. i \in 1 .. j - 1 /\ rows[j].agent = a /\ rows[j].scenario = s
    BY <1>1, <1>2 DEF Sources
  <2>2. rows[j].state \in Present
    BY <1>2, RowsFact DEF TypeOK, RowType, Present
  <2>3. j \in I
    BY <1>0, <2>1, <2>2 DEF RowsIn, View
  <2>4. I \subseteq 1 .. Len(rows)
    BY <1>0 DEF RowsIn, View
  <2> HIDE DEF I
  <2>5. j <= i
    BY <1>0, <1>1, <2>3, <2>4, NewestFact
  <2> QED BY <2>1, <2>5
<1> QED BY <1>1, <1>2 DEF Free, Replayed

\* What a replay may rely on survives the steps of others.
LEMMA ReplaySame ==
    ASSUME NEW q, NEW r, Same(q, r), ReplayOf(rows, q),
           \A i : Free(rows, q.agent, i) /\ (i \in q.todo \/ (r.at = "new_row" /\ i = q.row)) =>
                     Free(rows', q.agent, i) /\ rows'[i].scenario = rows[i].scenario
    PROVE  ReplayOf(rows', r)
<1> SUFFICES ASSUME InReplay(r)
             PROVE  /\ \A i \in r.todo : Free(rows', r.agent, i)
                    /\ r.at = "new_row" => /\ r.row \notin r.todo /\ Free(rows', r.agent, r.row)
                                           /\ rows'[r.row].scenario = r.scenario
  BY DEF ReplayOf
<1>1. /\ InReplay(q) /\ r.agent = q.agent /\ r.todo \subseteq q.todo
      /\ r.at = "new_row" => q.at = "new_row" /\ r.row = q.row /\ r.scenario = q.scenario
  BY DEF Same
<1>2. /\ \A i \in q.todo : Free(rows, q.agent, i)
      /\ q.at = "new_row" => /\ q.row \notin q.todo /\ Free(rows, q.agent, q.row)
                             /\ rows[q.row].scenario = q.scenario
  BY <1>1 DEF ReplayOf
<1>3. \A i \in r.todo : Free(rows', r.agent, i)
  <2> SUFFICES ASSUME NEW i \in r.todo PROVE Free(rows', q.agent, i)
    BY <1>1
  <2>1. i \in q.todo /\ Free(rows, q.agent, i)
    BY <1>1, <1>2
  <2> QED BY <2>1
<1>4. ASSUME r.at = "new_row"
      PROVE  r.row \notin r.todo /\ Free(rows', r.agent, r.row) /\ rows'[r.row].scenario = r.scenario
  <2>1. r.row = q.row /\ r.scenario = q.scenario /\ q.row \notin r.todo /\ Free(rows, q.agent, q.row)
        /\ rows[q.row].scenario = q.scenario
    BY <1>1, <1>2, <1>4
  <2>2. Free(rows', q.agent, q.row) /\ rows'[q.row].scenario = rows[q.row].scenario
    BY <1>4, <2>1
  <2> QED BY <1>1, <2>1, <2>2
<1> QED BY <1>3, <1>4

\* ReplayInv after a step.
LEMMA ReplayInvPrime ==
    ASSUME \A w \in Conns : ReplayOf(rows', proc'[w])
    PROVE  ReplayInv'
  BY DEF ReplayInv, ReplayOf, InReplay, Free, Replayed

\* The row that a replay inserts.
LEMMA CreateStep ==
    ASSUME TypeOK, Locals, Fresh, OneReplay, Sources, ReplayInv, ReplayOnce, [Next]_vars,
           NEW p \in Procs, CreateRow(p)
    PROVE  Sources' /\ ReplayInv' /\ ReplayOnce'
<1> DEFINE n == Len(rows) + 1
           i == proc[p].row
<1>0. Len(rows) \in Nat /\ DOMAIN rows = 1 .. Len(rows) /\ Kept(rows')
  BY RowsFact, TableStep DEF TypeOK
<1>1. /\ Len(rows') = n /\ DOMAIN rows' = 1 .. n
      /\ rows'[n].agent = proc[p].agent /\ rows'[n].scenario = proc[p].scenario /\ rows'[n].src = i
      /\ \A k \in 1 .. Len(rows) : rows'[k] = rows[k]
  <2>1. /\ Len(rows') = n
        /\ rows'[n] = NewRow(proc[p].agent, proc[p].scenario, "starting", i)
        /\ \A k \in 1 .. Len(rows) : rows'[k] = rows[k]
    BY CreateRowTable
  <2>2. DOMAIN rows' = 1 .. Len(rows')
    BY <1>0, LenProperties DEF Kept
  <2> QED BY <2>1, <2>2 DEF NewRow
<1>2. proc[p].at = "new_row" /\ proc'[p].at = "send_start"
  BY DEF CreateRow, TypeOK, ProcType
<1>3. \A w \in Conns : Same(proc[w], proc'[w])
  <2>1. ~BackendRestart
    <3> SUFFICES ASSUME BackendRestart PROVE FALSE
      OBVIOUS
    <3>1. Len(rows') = Len(rows)
      BY DisconnectedFact DEF BackendRestart, TypeOK
    <3>2. Len(rows') = Len(rows) + 1
      BY <1>1
    <3> QED BY <1>0, <3>1, <3>2
  <2>2. ASSUME NEW w \in Conns, ResumeBegin(w) \/ ResumeNext(w) \/ ResumeSkip(w) \/ ResumeEnd(w) PROVE FALSE
    <3>1. Len(rows') = Len(rows)
      BY <2>2, ResumeNextTable, ProcsFact DEF ResumeBegin, ResumeSkip, ResumeEnd, db
    <3> QED BY <1>0, <1>1, <3>1
  <2> QED BY <2>1, <2>2, ReplaySteps
<1>4. CASE ~InReplay(proc[p])
  <2>1. i = 0
    BY <1>2, <1>4, ProcFact DEF LocalAt, InReplay, Deploying
  <2>2. Plain(rows')
    <3>1. \A j \in Len(rows) + 1 .. Len(rows') : j = n
      BY <1>0, <1>1
    <3> QED BY <1>1, <2>1, <3>1 DEF Plain
  <2>3. ASSUME NEW w \in Conns
        PROVE  ReplayOf(rows', proc'[w])
    <3>1. Same(proc[w], proc'[w]) /\ ReplayOf(rows, proc[w])
      BY <1>3 DEF ReplayInv
    <3>2. \A a, k : Free(rows, a, k) => Free(rows', a, k) /\ rows'[k].scenario = rows[k].scenario
      BY <1>0, <2>2, PlainStep
    <3> QED BY <3>1, <3>2, ReplaySame
  <2> QED BY <1>0, <2>2, <2>3, PlainStep, ReplayInvPrime
<1>5. CASE InReplay(proc[p])
  <2>1. p \in Conns
    BY <1>2, <1>5, ProcFact DEF LocalAt, InReplay, Procs
  <2>2. i \notin proc[p].todo /\ Free(rows, proc[p].agent, i) /\ rows[i].scenario = proc[p].scenario
    BY <1>2, <1>5, <2>1 DEF ReplayInv, ReplayOf
  <2>3. i \in 1 .. Len(rows) /\ rows[i].agent = proc[p].agent /\ ~Replayed(rows, i)
    BY <2>2 DEF Free
  <2> HIDE DEF i
  <2>4. ASSUME NEW a, NEW k, Free(rows, a, k), k # i PROVE Free(rows', a, k) /\ rows'[k].scenario = rows[k].scenario
    <3>1. k \in 1 .. Len(rows) /\ rows[k].agent = a /\ ~Replayed(rows, k)
      BY <2>4 DEF Free
    <3>2. ASSUME NEW j \in 1 .. Len(rows'), rows'[j].state # "deleted", rows'[j].src = k PROVE FALSE
      <4>1. j # n
        BY <1>1, <2>4, <3>2
      <4>2. j \in 1 .. Len(rows) /\ rows'[j] = rows[j]
        BY <1>0, <1>1, <4>1
      <4> QED BY <3>1, <3>2, <4>2 DEF Replayed
    <3>3. k \in 1 .. Len(rows') /\ rows'[k] = rows[k]
      BY <1>0, <1>1, <3>1
    <3> QED BY <3>1, <3>2, <3>3 DEF Free, Replayed
  <2>5. Sources'
    <3> SUFFICES ASSUME NEW j \in 1 .. Len(rows'), rows'[j].src # 0
                 PROVE  /\ rows'[j].src \in 1 .. j - 1
                        /\ rows'[rows'[j].src].agent = rows'[j].agent /\ rows'[rows'[j].src].scenario = rows'[j].scenario
      BY DEF Sources
    <3>1. CASE j = n
      BY <1>0, <1>1, <2>2, <2>3, <3>1
    <3>2. CASE j # n
      <4>1. j \in 1 .. Len(rows) /\ rows'[j] = rows[j]
        BY <1>0, <1>1, <3>2
      <4>2. /\ rows[j].src \in 1 .. j - 1 /\ rows[rows[j].src].agent = rows[j].agent
            /\ rows[rows[j].src].scenario = rows[j].scenario
        BY <4>1 DEF Sources
      <4>3. rows[j].src \in 1 .. Len(rows)
        BY <1>0, <4>1, <4>2
      <4> QED BY <1>1, <4>1, <4>2, <4>3
    <3> QED BY <3>1, <3>2
  <2>6. ReplayOnce'
    <3> SUFFICES ASSUME NEW j \in 1 .. n, NEW k \in 1 .. n, j # k,
                        rows'[j].src # 0, rows'[j].src = rows'[k].src,
                        rows'[j].state # "deleted", rows'[k].state # "deleted"
                 PROVE  FALSE
      BY <1>1 DEF ReplayOnce
    <3>1. ASSUME NEW x \in 1 .. Len(rows), rows'[x].state # "deleted", rows'[x].src = i PROVE FALSE
      BY <1>1, <2>3, <3>1 DEF Replayed
    <3>2. CASE j = n
      <4>1. k \in 1 .. Len(rows)
        BY <1>0, <3>2
      <4> QED BY <1>1, <3>1, <3>2, <4>1
    <3>3. CASE k = n
      <4>1. j \in 1 .. Len(rows)
        BY <1>0, <3>3
      <4> QED BY <1>1, <3>1, <3>3, <4>1
    <3>4. CASE j # n /\ k # n
      <4>1. j \in DOMAIN rows /\ k \in DOMAIN rows
        BY <1>0, <3>4
      <4>2. rows'[j] = rows[j] /\ rows'[k] = rows[k]
        BY <1>0, <1>1, <4>1
      <4> QED BY <4>1, <4>2 DEF ReplayOnce
    <3> QED BY <3>2, <3>3, <3>4
  <2>7. ASSUME NEW w \in Conns
        PROVE  ReplayOf(rows', proc'[w])
    <3>1. Same(proc[w], proc'[w]) /\ ReplayOf(rows, proc[w])
      BY <1>3 DEF ReplayInv
    <3>2. CASE w = p
      <4>1. ASSUME NEW k, Free(rows, proc[w].agent, k), k \in proc[w].todo \/ (proc'[w].at = "new_row" /\ k = proc[w].row)
            PROVE  Free(rows', proc[w].agent, k) /\ rows'[k].scenario = rows[k].scenario
        <5>1. k # i
          BY <1>2, <2>2, <3>2, <4>1
        <5>2. \A a : Free(rows, a, k) => Free(rows', a, k) /\ rows'[k].scenario = rows[k].scenario
          BY <2>4, <5>1
        <5> QED BY <4>1, <5>2
      <4> QED BY <3>1, <4>1, ReplaySame
    <3>3. CASE w # p
      <4> SUFFICES ASSUME InReplay(proc'[w])
                   PROVE  ReplayOf(rows', proc'[w])
        BY DEF ReplayOf
      <4>1. InReplay(proc[w])
        BY <3>1 DEF Same
      <4>2. proc[w].agent # proc[p].agent
        BY <1>5, <2>1, <3>3, <4>1, OneReplayDef, ProcFact, ProcsFact
      <4>3. ASSUME NEW k, Free(rows, proc[w].agent, k)
            PROVE  Free(rows', proc[w].agent, k) /\ rows'[k].scenario = rows[k].scenario
        <5>1. k # i
          BY <2>3, <4>2, <4>3 DEF Free
        <5>2. \A a : Free(rows, a, k) => Free(rows', a, k) /\ rows'[k].scenario = rows[k].scenario
          BY <2>4, <5>1
        <5> QED BY <4>3, <5>2
      <4> QED BY <3>1, <4>3, ReplaySame
    <3> QED BY <3>2, <3>3
  <2> QED BY <2>5, <2>6, <2>7, ReplayInvPrime
<1> QED BY <1>4, <1>5

\* The other steps.
LEMMA ReplayStep ==
    ASSUME TypeOK, Locals, Fresh, OneReplay, Sources, ReplayInv, ReplayOnce, [Next]_vars
    PROVE  Sources' /\ ReplayInv' /\ ReplayOnce'
<1>1. CASE \E p \in Procs : CreateRow(p)
  BY <1>1, CreateStep
<1>2. CASE ~\E p \in Procs : CreateRow(p)
  <2>1. Kept(rows') /\ Plain(rows')
    BY <1>2, TableStep
  <2>2. /\ \A a, i : Free(rows, a, i) => Free(rows', a, i) /\ rows'[i].scenario = rows[i].scenario
        /\ Sources' /\ ReplayOnce'
    BY <2>1, PlainStep
  <2>3. ASSUME NEW w \in Conns, Same(proc[w], proc'[w])
        PROVE  ReplayOf(rows', proc'[w])
    <3>1. ReplayOf(rows, proc[w])
      BY DEF ReplayInv
    <3> QED BY <2>2, <2>3, <3>1, ReplaySame
  <2>4. CASE BackendRestart
    <3>1. \A w \in Conns : ~InReplay(proc'[w])
      BY <2>4, RestartFact
    <3>2. \A w \in Conns : ReplayOf(rows', proc'[w])
      BY <3>1 DEF ReplayOf
    <3> QED BY <2>2, <3>2, ReplayInvPrime
  <2>5. CASE ~BackendRestart /\ \A p \in Conns : ~ResumeBegin(p) /\ ~ResumeNext(p) /\ ~ResumeSkip(p) /\ ~ResumeEnd(p)
    BY <2>2, <2>3, <2>5, ReplaySteps, ReplayInvPrime
  <2>6. ASSUME NEW p \in Conns, ResumeBegin(p) \/ ResumeNext(p) \/ ResumeSkip(p) \/ ResumeEnd(p)
        PROVE  ReplayInv'
    <3>1. proc'[p].agent = proc[p].agent /\ \A x \in Conns : x # p => Same(proc[x], proc'[x])
      <4>1. proc'[p].agent = proc[p].agent /\ \A x \in Conns : x # p => proc'[x] = proc[x]
        BY <2>6, ResumeFact, ProcsFact
      <4> QED BY <4>1 DEF Same
    <3>2. ASSUME InReplay(proc'[p])
          PROVE  /\ \A i \in proc'[p].todo : Free(rows', proc'[p].agent, i)
                 /\ proc'[p].at = "new_row" => /\ proc'[p].row \notin proc'[p].todo /\ Free(rows', proc'[p].agent, proc'[p].row)
                                               /\ rows'[proc'[p].row].scenario = proc'[p].scenario
      <4>1. CASE ResumeBegin(p)
        <5>1. proc'[p].at = "resume" /\ proc'[p].todo = Lost(proc[p].agent, proc[p].msg.running)
          BY <3>2, <4>1, ResumeFact
        <5>2. \A i \in proc'[p].todo : Free(rows, proc[p].agent, i)
          BY <5>1, LostIsFree, ProcFact, ProcsFact
        <5> QED BY <2>2, <3>1, <5>1, <5>2
      <4>2. CASE ResumeNext(p)
        <5> DEFINE i == Newest(proc[p].todo)
        <5>1. i \in proc[p].todo
          BY <4>2, ResumeNextTable, ProcsFact
        <5>2. \A k \in proc[p].todo : Free(rows, proc[p].agent, k)
          BY <4>2, ResumeFact DEF ReplayInv, ReplayOf, InReplay
        <5> HIDE DEF i
        <5>3. CASE proc'[p].at = "resume" /\ proc'[p].todo = {}
          BY <5>3
        <5>4. CASE /\ proc'[p].at = "new_row" /\ proc'[p].then = "resume" /\ proc'[p].row = i
                   /\ proc'[p].todo = proc[p].todo \ {i} /\ proc'[p].scenario = rows[i].scenario
          <6>1. \A k \in proc[p].todo : Free(rows', proc[p].agent, k) /\ rows'[k].scenario = rows[k].scenario
            BY <2>2, <5>2
          <6> QED BY <3>1, <5>1, <5>4, <6>1
        <5> QED BY <4>2, <5>3, <5>4, ResumeFact DEF i
      <4>3. CASE ResumeSkip(p)
        <5>1. proc'[p].at = "resume" /\ proc'[p].todo \subseteq proc[p].todo
          BY <4>3, ResumeFact
        <5>2. \A k \in proc[p].todo : Free(rows, proc[p].agent, k)
          BY <4>3, ResumeFact DEF ReplayInv, ReplayOf, InReplay
        <5> QED BY <2>2, <3>1, <5>1, <5>2
      <4>4. CASE ResumeEnd(p)
        BY <3>2, <4>4, ResumeFact
      <4> QED BY <2>6, <4>1, <4>2, <4>3, <4>4
    <3>3. ASSUME NEW w \in Conns
          PROVE  ReplayOf(rows', proc'[w])
      <4>1. CASE w = p
        BY <3>2, <4>1 DEF ReplayOf
      <4>2. CASE w # p
        BY <2>3, <3>1, <4>2
      <4> QED BY <4>1, <4>2
    <3> QED BY <3>3, ReplayInvPrime
  <2> QED BY <2>2, <2>4, <2>5, <2>6
<1> QED BY <1>1, <1>2

-----------------------------------------------------------------------------
(* Theorems *)

\* The inductive invariant.
HubInv == TypeOK /\ Locals /\ Fresh /\ OneReplay /\ Sources /\ ReplayInv /\ ReplayOnce

LEMMA HubInit == Init => HubInv
<1> SUFFICES ASSUME Init PROVE HubInv
  OBVIOUS
<1> USE DEF Init
<1>1. rows \in Seq(RowType) /\ Len(rows) = 0 /\ DOMAIN rows = {} /\ 1 .. Len(rows) = {}
  <2>1. rows \in Seq(RowType) /\ Len(rows) = 0
    BY EmptySeq
  <2>2. DOMAIN rows = 1 .. Len(rows)
    BY <2>1, LenProperties
  <2> QED BY <2>1, <2>2
<1>2. ASSUME NEW p \in Procs
      PROVE  /\ proc[p] \in ProcType /\ LocalAt(p, proc[p], 0) /\ ~InReplay(proc[p])
             /\ p \in Conns => proc[p].at = "none"
  <2> DEFINE at == IF p \in Conns THEN "none" ELSE "idle"
  <2>1. proc[p] = Idle(at, AnyAgent)
    BY DEF Procs
  <2>2. at \in {"none", "idle"}
    OBVIOUS
  <2>3. Idle("none", AnyAgent) \in ProcType /\ LocalAt(p, Idle("none", AnyAgent), 0)
    BY IdleFact, ProcsFact DEF Places
  <2>4. Idle("idle", AnyAgent) \in ProcType /\ LocalAt(p, Idle("idle", AnyAgent), 0)
    BY IdleFact, ProcsFact DEF Places
  <2>5. Idle(at, AnyAgent).at = at
    BY DEF Idle
  <2>6. ~InReplay(proc[p])
    BY <2>1, <2>2, <2>5 DEF InReplay, Deploying
  <2> QED BY <2>1, <2>3, <2>4, <2>5, <2>6
<1>3. TypeOK
  <2>1. proc \in [Procs -> ProcType]
    <3>1. proc = [p \in Procs |-> proc[p]]
      BY DEF Procs
    <3> QED BY <1>2, <3>1
  <2>2. up \in [Conns -> Seq(Status \cup Heartbeat)] /\ down \in [Conns -> Seq(Command)]
    <3>1. <<>> \in Seq(Status \cup Heartbeat) /\ <<>> \in Seq(Command)
      BY EmptySeq
    <3> QED BY <3>1
  <2>3. conn \in [Agents -> Connection] /\ tracked \in [Scenarios -> Agents \cup {NoAgent}]
    BY DEF Connection
  <2>4. pending \in [Agents -> Scenarios \cup {NoScenario}]
    OBVIOUS
  <2> QED BY <1>1, <2>1, <2>2, <2>3, <2>4 DEF TypeOK
<1>4. Locals /\ Fresh
  BY <1>1, <1>2, ProcsFact DEF Locals, Fresh
<1>5. OneReplay /\ ReplayInv
  BY <1>2, ProcsFact, OneReplayDef DEF ReplayInv, ReplayOf
<1>6. Sources /\ ReplayOnce
  BY <1>1 DEF Sources, ReplayOnce
<1> QED BY <1>3, <1>4, <1>5, <1>6 DEF HubInv

LEMMA HubNext == HubInv /\ [Next]_vars => HubInv'
  BY TypeStep, FreshStep, OneReplayStep, ReplayStep DEF HubInv

LEMMA HubAlways == Spec => []HubInv
  BY HubInit, HubNext, PTL DEF Spec

\* The variables of the control plane keep their types: a coroutine resumes only
\* where it can, on rows that exist, and what it sends and writes are commands and
\* states that the other side knows.
THEOREM HubTypeOK == Spec => []TypeOK
<1>1. HubInv => TypeOK
  BY DEF HubInv
<1> QED BY <1>1, HubAlways, PTL

\* _resume_inflight is held exactly by the one handler of an agent that replays its
\* lost rows, for any number of agents, connections and requests.
THEOREM HubOneReplay == Spec => []OneReplay
<1>1. HubInv => OneReplay
  BY DEF HubInv
<1> QED BY <1>1, HubAlways, PTL

\* resume_disconnected_deployments never replays a lost row twice, however
\* heartbeats, reconnects, page requests and deletions are interleaved with it.
THEOREM HubReplayOnce == Spec => []ReplayOnce
<1>1. HubInv => ReplayOnce
  BY DEF HubInv
<1> QED BY <1>1, HubAlways, PTL
=============================================================================
