------------------------------ MODULE MCAgent ------------------------------
(* Agents for TLC.                                                         *)
EXTENDS Agent

limit(t, r, x) == [thread |-> t, run |-> r, exit |-> x]
callLimit(t, r, x, ns) == [thread |-> t, run |-> r, exit |-> x, names |-> ns]
NoLimit == callLimit(None, None, "continue", {})

\* One tool, no middleware but the limit on model calls.
Plain == [tools |-> {"a"}, names |-> {"a"}, structured |-> {}, handleErrors |-> TRUE,
          direct |-> {}, review |-> {}, edits |-> {}, asks |-> {},
          model |-> limit(2, None, "end"), calls |-> NoLimit,
          modelAttempts |-> 1, onFailure |-> "error", toolAttempts |-> 1, declines |-> FALSE,
          before |-> {}, after |-> {}]

\* Calls of one tool are reviewed; edits may name the other or no tool.
Reviewed == [Plain EXCEPT !.tools = {"a", "b"}, !.names = {"a", "b"}, !.review = {"a"},
                          !.edits = {"b", "unknown"}, !.direct = {"b"}]

\* Edits name no tool, which is an error nobody converts.
EditedAway == [Plain EXCEPT !.review = {"a"}, !.edits = {"unknown"}, !.declines = TRUE,
                            !.model = limit(1, None, "end")]

\* Reviewed calls under a limit of one.
LimitedReview == [Plain EXCEPT !.review = {"a"}, !.edits = {"a"},
                               !.calls = callLimit(1, None, "continue", {"a"}),
                               !.model = limit(3, None, "error")]

\* Retries of model and tools, an error nobody converts, hooks that jump.
Hooked == [Plain EXCEPT !.names = {"a", "other"}, !.modelAttempts = 2, !.onFailure = "continue",
                        !.toolAttempts = 2, !.declines = TRUE,
                        !.before = {"model", "end"}, !.after = {"model", "end"}]

\* An output tool beside a client tool, with and without error handling.
Structured == [Plain EXCEPT !.names = {"a", "out"}, !.structured = {"out"},
                            !.model = limit(None, 2, "end")]
Raising == [Structured EXCEPT !.handleErrors = FALSE, !.tools = {}, !.names = {"out"}]

\* The limit ends the run, or fails it.
Ending == [Plain EXCEPT !.names = {"a", "b"}, !.tools = {"a", "b"},
                        !.calls = callLimit(1, 2, "end", {"a"}), !.onFailure = "continue"]
Failing == [Plain EXCEPT !.calls = callLimit(1, 2, "error", {"a"}), !.declines = TRUE]

\* The tool asks its caller.
Asking == [Plain EXCEPT !.asks = {"a"}]

MCAgents == {Plain, Reviewed, EditedAway, LimitedReview, Hooked, Structured, Raising, Ending, Failing, Asking}
=============================================================================
