-------------------------- MODULE MCAdaptiveControl --------------------------
(***************************************************************************)
(* Instances of AdaptiveControl for TLC: the scopes of its run.            *)
(***************************************************************************)
EXTENDS AdaptiveControl

CONSTANTS f1, f2, p1

\* Two flows of one protocol.
OneProtocol == [f \in {f1, f2} |-> p1]

Controls == {"skip", "force", "pause", "resume"}

\* Directives alone; the controls of repeating cycles, one with a phase without a duration,
\* and of one that ends, with the reporter and without.
AdaptiveScopes ==
    {[ends |-> <<1>>, cycle |-> TRUE, dormant |-> {}, flows |-> Flows,
      sends |-> {"adjust", "reset"}, reports |-> FALSE],
     [ends |-> <<2, 3>>, cycle |-> TRUE, dormant |-> {<<f1, 2>>}, flows |-> {f1},
      sends |-> Controls, reports |-> TRUE],
     [ends |-> <<1, 1, 3, 4>>, cycle |-> TRUE, dormant |-> {}, flows |-> {f1},
      sends |-> Controls, reports |-> FALSE],
     [ends |-> <<1, 3>>, cycle |-> FALSE, dormant |-> {}, flows |-> {f1},
      sends |-> Controls, reports |-> TRUE]}
=============================================================================
