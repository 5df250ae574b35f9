---------------------------- MODULE MCDeploymentHub ----------------------------
(***************************************************************************)
(* Instances of DeploymentHub for TLC: the scopes of its runs.             *)
(***************************************************************************)
EXTENDS DeploymentHub

Scope(routes, faults, conns) == [routes |-> routes, faults |-> faults, conns |-> conns]

\* Replay with three connections of an agent, and the other routes with two.
SafetyScopes ==
    {Scope({"deploy"}, {"drop", "agent_restart", "refuse"}, 3),
     Scope({"deploy", "remove", "stop_orphan", "page"}, {"drop"}, 2)}

\* Every fault, and the deploy queued for a new lab.
LiveScopes ==
    {Scope({"deploy", "stop"}, {"drop", "agent_restart", "backend_restart", "end", "refuse"}, 2),
     Scope({"new_lab"}, {"drop"}, 2)}

\* A stop in progress while the connection is lost.
StopScopes == {Scope({"deploy", "stop"}, {"drop"}, 2)}
=============================================================================
