---------------------------- MODULE MCHealthMonitor ----------------------------
(***************************************************************************)
(* Instances of HealthMonitor for TLC: the scopes of its runs.             *)
(***************************************************************************)
EXTENDS HealthMonitor

CONSTANTS a1, a2, s1, s2

Scope(as, ss, ls, env) == [agents |-> as, scenarios |-> ss, limits |-> ls, env |-> env]

\* One scenario that users move between two agents, two scenarios of one agent, and
\* everything that can happen to one scenario of one agent.
HealthScopes ==
    {Scope({a1, a2}, {s1}, {1}, {"stop", "drop"}),
     Scope({a1}, {s1, s2}, {1}, {"silent", "hour"}),
     Scope({a1}, {s1}, {1, 2}, {"config", "silent", "missing", "hour"}),
     Scope({a1}, {s1}, {1}, {"silent", "late", "drop", "restart", "traffic"}),
     Scope({a1}, {s1}, {1}, {"silent", "late", "load", "traffic"})}

StallScopes == {Scope({a1}, {s1}, {1}, {"traffic"})}
=============================================================================
