--------------------------- MODULE MCDeltaHistory ---------------------------
(* Graphs with delta channels for TLC.                                     *)
EXTENDS DeltaHistory

MCChs == {"x", "y"}

task(w) == [w |-> w, ow |-> FALSE, asks |-> FALSE]
asker(w) == [w |-> w, ow |-> FALSE, asks |-> TRUE]
overwriter(w) == [w |-> w, ow |-> TRUE, asks |-> FALSE]

Base == [steps |-> <<>>, input |-> <<"x">>, freq |-> [x |-> 2, y |-> 3], before |-> {}, after |-> {},
         saver |-> "memory", modes |-> {"sync", "exit"}, addressed |-> TRUE, turns |-> TRUE,
         stops |-> FALSE, updates |-> FALSE, maxRuns |-> 3, maxFaults |-> 1]

\* Two supersteps on one channel, drained, failing and time travelled.
Line == [Base EXCEPT !.steps = << <<task(<<"x">>)>>, <<task(<<"x">>)>> >>, !.stops = TRUE]

\* A task completes beside one that asks; no new turns.
Fan == [Base EXCEPT !.steps = << <<task(<<"y">>), asker(<<"x">>)>>, <<task(<<"x">>)>> >>,
                    !.turns = FALSE, !.stops = TRUE]

\* The same over turns, both channels written before the pause.
FanTurns == [Base EXCEPT !.steps = << <<task(<<"y">>)>>, <<task(<<"y">>), asker(<<"x">>)>> >>,
                         !.maxFaults = 0]

\* A saver that orders by path, under exit durability only.
ByPath == [Base EXCEPT !.steps = << <<task(<<"x">>)>>, <<task(<<"x">>), asker(<<"x">>)>>, <<task(<<"x">>)>> >>,
                       !.freq = [x |-> 9, y |-> 9], !.saver = "sql", !.modes = {"exit"},
                       !.addressed = FALSE, !.stops = TRUE, !.maxFaults = 0]

\* An overwrite, breakpoints on both sides, and updates.
Breaks == [Base EXCEPT !.steps = << <<overwriter(<<"x">>)>>, <<task(<<"x">>)>> >>,
                       !.before = {2}, !.after = {1}, !.updates = TRUE]

(* Graphs outside the run: on each of them the code loses, repeats or      *)
(* misplaces a write, as the README's list of limits tells.                *)

\* A task writes two channels under exit durability: only the first is kept.
TwoChannels == [Base EXCEPT !.steps = << <<task(<<"x", "y">>)>> >>, !.freq = [x |-> 9, y |-> 9], !.modes = {"exit"},
                            !.turns = FALSE, !.maxRuns = 1, !.maxFaults = 0]

\* A saver that orders by path, and an exit resume behind interrupt_after.
PathAfter == [Base EXCEPT !.steps = << <<task(<<"x">>), task(<<"x">>)>>, <<task(<<"x">>)>> >>, !.freq = [x |-> 9, y |-> 9],
                          !.after = {1}, !.saver = "sql", !.turns = FALSE, !.addressed = FALSE, !.maxFaults = 0]

\* A pause clears the seal of a channel it suppresses.
SealLost == [ByPath EXCEPT !.saver = "memory", !.addressed = TRUE]

\* An accumulated write fails at a pause that suppresses its channel.
SuppressedFails == [ByPath EXCEPT !.saver = "memory", !.turns = FALSE, !.maxRuns = 1, !.maxFaults = 1]

\* A channel is first written by a sibling of an interrupt, and the pause is
\* abandoned by a new turn.
FirstWrite == [Base EXCEPT !.steps = << <<task(<<"y">>), asker(<<"x">>)>> >>, !.addressed = FALSE, !.maxFaults = 0]

MCGraphs == {Line, Fan, FanTurns, ByPath, Breaks}
=============================================================================
