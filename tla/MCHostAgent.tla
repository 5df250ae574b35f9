------------------------------ MODULE MCHostAgent ------------------------------
(***************************************************************************)
(* Instances of HostAgent for TLC: two labs of one Center, a cell on one   *)
(* of them, and the faults of each run.                                    *)
(***************************************************************************)
EXTENDS HostAgent

CONSTANTS l1, l2, c1, d1, d2, r1

TheLabOf == [c \in Cells |-> l1]
TheRegistry == [l \in Labs |-> r1]

Within(items, fs, n, k) == [items |-> items, faults |-> fs, maxFaults |-> n, maxRequests |-> k]

\* Labs: the faults of the host and of the Center, of the operations and of the request
\* queue.  A lab and its cell: one fault of each kind that matters to it, and a reconcile
\* that is asked for.
HostScopes ==
    {Within({l1, l2}, {"crash"}, 1, 0),
     Within({l1}, {"crash", "leak"}, 2, 0),
     Within({l1, l2}, {"center"}, 2, 0),
     Within({l1}, {"docker", "center"}, 2, 0),
     Within({l1}, {"docker", "reboot", "submit", "op"}, 2, 0),
     Within({l1, c1}, {"crash"}, 1, 0),
     Within({l1, c1}, {"op"}, 1, 0),
     Within({l1, c1}, {"reboot"}, 1, 0),
     Within({l1}, {}, 0, 1)}

\* One lab, with crashes of the host agent.
CrashScopes == {Within({l1}, {"crash"}, 1, 0)}
=============================================================================
