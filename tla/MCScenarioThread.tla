--------------------------- MODULE MCScenarioThread ---------------------------
(***************************************************************************)
(* Instances of ScenarioThread for TLC: the scopes of its runs.            *)
(***************************************************************************)
EXTENDS ScenarioThread

\* A kill chain: the planned durations of its stages, all of which have the same actions.
Chain(durations, actions) == [i \in DOMAIN durations |-> [duration |-> durations[i], actions |-> actions]]
One == <<"single">>
Two == <<"single", "single">>
Three == <<"single", "single", "single">>
Mixed == <<"single", "single", "repeat", "single">>

\* A live scenario with two stages, in units in which a tick is 2 and a poll 3 or 4.
LiveScope(start, auto, actions, env) ==
    [mode |-> "live", start |-> start, auto |-> auto, stages |-> Chain(<<1, 1>>, actions), duration |-> 0,
     tick |-> 2, interval |-> 2, poll |-> {3}, warmup |-> 2, env |-> env]

\* A capture, in milliseconds: ticks every two seconds, a flow that is polled every one and
\* a half, and the interval of the ticks while a stage runs, at the intensities 3, 1 and 0.1.
Capture(stages, duration, interval, env) ==
    [mode |-> "pcap", start |-> "with_deployment", auto |-> TRUE, stages |-> stages, duration |-> duration,
     tick |-> 2000, interval |-> interval, poll |-> {1500}, warmup |-> 0, env |-> env]
Fast == 667
Normal == 2000
Slow == 20000

\* Live: an attack deployed with the scenario, with commands or with two actions per stage,
\* one that is advanced by hand, one that is injected, and none at all.  Captures: kill chains that fit, with the least room that is
\* enough too, or are compressed, into the least margin too, at three intensities; and ones
\* without the room: a chain that just fits, stretched stages, ticks that are too far apart.
ThreadScopes ==
    {LiveScope("with_deployment", TRUE, One, {"command", "stop"}),
     LiveScope("with_deployment", TRUE, Two, {"stop", "mute"}),
     LiveScope("with_deployment", FALSE, One, {"command", "fail"}),
     LiveScope("none", TRUE, One, {"inject", "command"}),
     LiveScope("none", TRUE, One, {"stop", "write", "fail"}),
     Capture(Chain(<<5000, 9000>>, Mixed), 40000, Normal, {"write"}),
     Capture(Chain(<<12000, 500, 15000>>, Two), 44000, Normal, {}),
     Capture(Chain(<<5000>>, One), 60000, Slow, {}),
     Capture(Chain(<<25000, 40000, 30000>>, Three), 60000, Normal, {}),
     Capture(Chain(<<25000, 40000>>, Two), 60000, Normal, {"mute"}),
     Capture(Chain(<<45000, 45000, 45000>>, Mixed), 50000, Normal, {}),
     Capture(Chain(<<30000, 30000, 30000, 30000, 30000, 30000, 30000, 30000>>, Two), 40000, Fast, {}),
     Capture(Chain(<<40000, 40000, 40000>>, Three), 20000, Normal, {}),
     Capture(Chain(<<7900, 8100>>, One), 20000, Normal, {}),
     Capture(Chain(<<40000, 40000, 40000>>, Two), 60000, Slow, {}),
     Capture(Chain(<<30000, 30000, 90000>>, One), 20000, Normal, {})}

\* An attack that waits for START_ATTACK.
StartScopes == {LiveScope("manual", TRUE, One, {"command"})}
=============================================================================
