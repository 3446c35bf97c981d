------------------------------- MODULE Agent -------------------------------
(***************************************************************************)
(* The agent CreateAgent compiles (langchain/agents): a graph whose nodes  *)
(* call the model, have a human review its tool calls, run the tools in    *)
(* parallel and route back to the model, on one checkpointed thread.       *)
(* Every node commits its update in one step of the graph (see Pregel for  *)
(* the loop below it); a node that fails or is cut off by a crash commits  *)
(* nothing and is what the thread plans next.                              *)
(*                                                                         *)
(* A tool call is a tool's name; its ID is its position in the message, so *)
(* that IDs recur from one model response to the next; an invalid call has *)
(* an ID of its own.                                                       *)
(***************************************************************************)
EXTENDS Integers, Sequences, FiniteSets, SequencesExt

CONSTANTS
    Agents,         \* the agents of the behaviours: see AgentShape
    MaxTurns,       \* bound: invocations with a new human message
    MaxRetries,     \* bound: invocations that retry a failed node
    MaxFaults,      \* bound: model, tool and process failures, bad decisions
    MaxJumps        \* bound: jumps of after_agent hooks back to the model

None == -1          \* an unset limit
Limits == Nat \cup {None}

\* The options of CreateAgent and the middleware installed.
AgentShape(a) ==
    /\ a.tools \subseteq a.names            \* client tools; names: what the model may call
    /\ a.structured \subseteq a.names       \* ToolStrategy's output tools
    /\ a.handleErrors \in BOOLEAN           \* ToolStrategy.HandleErrors elects retry
    /\ a.direct \subseteq a.tools           \* return-direct tools
    /\ a.review \subseteq a.names           \* HumanInTheLoop in interrupt mode
    /\ a.edits \subseteq a.names \cup {"unknown"}
    /\ a.asks \subseteq a.tools             \* tools that call Interrupt
    /\ {a.model.thread, a.model.run} \subseteq Limits /\ a.model.exit \in {"end", "error"}
    /\ {a.calls.thread, a.calls.run} \subseteq Limits
    /\ a.calls.exit \in {"continue", "end", "error"} /\ a.calls.names \subseteq a.names
    /\ a.modelAttempts \in Nat \ {0} /\ a.onFailure \in {"continue", "error"}
    /\ a.toolAttempts \in Nat \ {0} /\ a.declines \in BOOLEAN  \* UnhandledToolError
    /\ a.before \subseteq {"model", "end"}  \* what hooks may jump to
    /\ a.after \subseteq {"model", "end"}

ASSUME AgentsAssumption ==
    /\ \A a \in Agents : AgentShape(a)
    /\ {MaxTurns, MaxRetries, MaxFaults, MaxJumps} \subseteq Nat

VARIABLES
    agent,      \* the agent of this behaviour; it never changes
    \* the thread's state channels
    msgs,       \* messages
    counts,     \* model and tool call counts, per thread and per run
    response,   \* structured_response is present
    edited,     \* edited tool calls: call ID -> tool
    \* the run
    phase,      \* "idle", "running", "paused", "failed"
    node,       \* the node the graph runs or plans
    attempt,    \* failed attempts of this model call
    answer,     \* what the model answered, or NoAnswer
    out,        \* the tools node: call ID -> outcome, or NotStarted
    resumed,    \* the resume queue of the tools node holds an answer
    \* bounds and history
    turns, retries, faults, jumps,
    round,      \* model responses so far
    executed,   \* <<round, ID, tool>>: a tool ran for a call
    verdicts,   \* <<round, ID>> -> the reviewer's last decision
    blocked     \* calls the limit refused

channelVars == <<agent, msgs, counts, response, edited>>
runVars == <<phase, node, attempt, answer, out, resumed>>
boundVars == <<turns, retries, faults, jumps>>
historyVars == <<round, executed, verdicts, blocked>>
vars == <<channelVars, runVars, boundVars, historyVars>>

NotStarted == [i \in {0} |-> "none"]      \* no call has ID 0
NoAnswer == [calls |-> <<>>, invalid |-> FALSE, parses |-> FALSE]
Empty == [x \in {} |-> x]
Override(f, g) == [x \in DOMAIN f \cup DOMAIN g |-> IF x \in DOMAIN g THEN g[x] ELSE f[x]]
Human == [k |-> "human"]
AI(r, id, calls, invalid) == [k |-> "ai", r |-> r, id |-> id, calls |-> calls, invalid |-> invalid]
ToolMsg(call, name) == [k |-> "tool", call |-> call, name |-> name]
TextAI == AI(0, 0, <<>>, FALSE)             \* an artificial closing message

Fault == faults < MaxFaults /\ faults' = faults + 1
HasHITL == agent.review # {} /\ agent.tools # {}
FinalNode == IF agent.after # {} THEN "after_agent" ELSE "END"
-----------------------------------------------------------------------------
(* Messages.                                                               *)

AIs(ms) == {i \in DOMAIN ms : ms[i].k = "ai"}

\* fetchLastAIAndToolMessages.
LastAI(ms) == CHOOSE i \in AIs(ms) : \A j \in AIs(ms) : j <= i
ToolMsgsAfter(ms, i) == {ms[j] : j \in {n \in DOMAIN ms : n > i /\ ms[n].k = "tool"}}
Answered(ms) == {m.call : m \in ToolMsgsAfter(ms, LastAI(ms))}

\* unansweredToolCalls: of the last AI message, as call IDs.
unansweredToolCalls(ms) ==
    IF AIs(ms) = {} THEN {} ELSE DOMAIN ms[LastAI(ms)].calls \ Answered(ms)

Same(m, n) == m.k = "ai" /\ n.k = "ai" /\ n.id # 0 /\ m.id = n.id

\* MessagesReducer: a message with a known ID replaces it in place, every
\* other is appended.
MessagesReducer(ms, new) ==
    LET Known(n) == \E i \in DOMAIN ms : Same(ms[i], n)
        Latest(m) == IF \E j \in DOMAIN new : Same(m, new[j])
                     THEN new[CHOOSE j \in DOMAIN new : Same(m, new[j])] ELSE m
    IN  [i \in DOMAIN ms |-> Latest(ms[i])]
            \o FlattenSeq([j \in DOMAIN new |-> IF Known(new[j]) THEN <<>> ELSE <<new[j]>>])

\* repairInvalidToolCalls: an error message for every invalid call of the
\* history and of the new messages that nothing answers.
InvalidID(r) == 0 - r
repairInvalidToolCalls(ms) ==
    LET Open(m) == /\ m.k = "ai" /\ m.invalid
                   /\ ~ \E j \in DOMAIN ms : ms[j].k = "tool" /\ ms[j].call = InvalidID(m.r)
    IN  FlattenSeq([i \in DOMAIN ms |->
            IF Open(ms[i]) THEN <<ToolMsg(InvalidID(ms[i].r), "error")>> ELSE <<>>])
-----------------------------------------------------------------------------
(* Routing.                                                                *)

\* buildRouteAfterModel.
RouteAfterModel(ms, sr) ==
    IF AIs(ms) = {} \/ ms[LastAI(ms)].calls = <<>> THEN FinalNode
    ELSE IF \E i \in unansweredToolCalls(ms) : ms[LastAI(ms)].calls[i] \notin agent.structured
         THEN "tools"
    ELSE IF sr THEN FinalNode
    ELSE "model"

\* buildRouteStructuredOnly: output tools and no client tools.
RouteStructuredOnly(sr) == IF sr THEN FinalNode ELSE "model"

\* Mutant: the hitl node routes as the model node does.
RouteToReview(ms, sr) == IF RouteAfterModel(ms, sr) = "tools" THEN "hitl" ELSE RouteAfterModel(ms, sr)

\* The conditional edge out of the hitl node.
RouteFromHITL(ms, sr) == RouteAfterModel(ms, sr)

\* routeAfterModelWithHITL: the way to the tools leads through the review.
RouteFromModel(ms, sr) ==
    IF agent.tools = {}
    THEN IF agent.structured = {} THEN FinalNode ELSE RouteStructuredOnly(sr)
    ELSE LET dest == RouteAfterModel(ms, sr)
         IN  IF HasHITL /\ dest = "tools" THEN "hitl" ELSE dest

\* buildRouteAfterTools: the run ends when every client tool that ran for a
\* call of the message returns directly.
RouteAfterTools(ms) ==
    LET ai == ms[LastAI(ms)]
        Ran(i) == LET named == {m.name : m \in {t \in ToolMsgsAfter(ms, LastAI(ms)) : t.call = i}}
                  IN  IF named \cap agent.tools # {} THEN CHOOSE n \in named \cap agent.tools : TRUE
                      ELSE ai.calls[i]
        client == {i \in DOMAIN ai.calls : Ran(i) \in agent.tools}
    IN  IF AIs(ms) # {} /\ client # {} /\ \A i \in client : Ran(i) \in agent.direct
        THEN FinalNode ELSE "model"

\* resolveJumpTarget.
JumpTarget(j, final) == IF j = "model" THEN "model" ELSE final

\* The graph goes on to node n, or ends.
Goto(n) ==
    /\ phase' = IF n = "END" THEN "idle" ELSE "running"
    /\ node' = n
    /\ attempt' = 0 /\ answer' = NoAnswer /\ out' = NotStarted /\ resumed' = FALSE

\* The run returns an error; the thread still plans the node.
Fail ==
    /\ phase' = "failed"
    /\ attempt' = 0 /\ answer' = NoAnswer /\ out' = NotStarted /\ resumed' = FALSE
    /\ UNCHANGED <<agent, msgs, counts, response, edited, node>>
-----------------------------------------------------------------------------
(* The model node.                                                         *)

Exceeded(limit, n) == limit # None /\ n >= limit

\* ModelCallLimit.BeforeModel.
ModelLimitReached == Exceeded(agent.model.thread, counts.tm) \/ Exceeded(agent.model.run, counts.rm)

\* ModelCallLimit.AfterModel.
CountModelCall(c) == [c EXCEPT !.tm = @ + 1, !.rm = @ + 1]

\* ToolCallLimit.separateToolCalls: the calls that still fit, in order.
Limited(calls) == {i \in DOMAIN calls : calls[i] \in agent.calls.names}
AllowedCalls(calls, c) ==
    {i \in Limited(calls) :
        LET before == Cardinality({j \in Limited(calls) : j < i})
        IN  ~Exceeded(agent.calls.thread, c.tt + before) /\ ~Exceeded(agent.calls.run, c.rt + before)}
BlockedCalls(calls, c) == Limited(calls) \ AllowedCalls(calls, c)

\* Mutant: the thread's count is not written back.
CountRunOnly(calls, c) == [c EXCEPT !.rt = @ + Cardinality(Limited(calls))]

\* The run count takes the blocked calls too.
CountToolCalls(calls, c) ==
    [c EXCEPT !.tt = @ + Cardinality(AllowedCalls(calls, c)), !.rt = @ + Cardinality(Limited(calls))]

\* Mutant: the response keeps the empty ID the model gave it.
NoMessageID(r) == 0

\* mintAIMessageIDs: only an agent with a hitl node needs the ID.
mintAIMessageID(r) == IF HasHITL THEN r ELSE 0

\* detectStructuredOutput.
Matched(calls) == {i \in DOMAIN calls : calls[i] \in agent.structured}
StructuredDone(resp) == Cardinality(Matched(resp.calls)) = 1 /\ resp.parses
StructuredError(resp) == Matched(resp.calls) # {} /\ ~StructuredDone(resp)

ErrorMessages(calls, ids) ==
    FlattenSeq([i \in DOMAIN calls |-> IF i \in ids THEN <<ToolMsg(i, calls[i])>> ELSE <<>>])

\* The responses of a model: up to two calls, an invalid call beside them,
\* arguments of an output tool that parse or do not.
Responses ==
    {r \in [calls : BoundedSeq(agent.names, 2), invalid : {FALSE}, parses : BOOLEAN] :
        r.parses \/ Matched(r.calls) # {}}
    \cup [calls : BoundedSeq(agent.tools, 1), invalid : {TRUE}, parses : {TRUE}]

\* BeforeModel: the limit is reached.
LimitEnds ==
    /\ phase = "running" /\ node = "model" /\ answer = NoAnswer
    /\ ModelLimitReached
    /\ \/ agent.model.exit = "error" /\ Fail
       \/ /\ agent.model.exit = "end"
          /\ msgs' = Append(msgs, TextAI)
          /\ Goto(FinalNode)
          /\ UNCHANGED <<agent, counts, response, edited>>
    /\ UNCHANGED <<boundVars, historyVars>>

\* Mutant: one attempt too many.
MayRetryOneMore(n) == n < agent.modelAttempts

\* ModelRetry: after n failed attempts.
MayRetry(n) == n + 1 < agent.modelAttempts

\* An attempt at the model call: it answers, or ModelRetry and ModelFallback
\* make another one, or give up with an error or a closing message.
CallModel ==
    /\ phase = "running" /\ node = "model" /\ answer = NoAnswer
    /\ ~ModelLimitReached
    /\ \/ /\ answer' \in Responses
          /\ UNCHANGED <<channelVars, phase, node, attempt, out, resumed, faults>>
       \/ /\ Fault /\ MayRetry(attempt)
          /\ attempt' = attempt + 1
          /\ UNCHANGED <<channelVars, phase, node, answer, out, resumed>>
       \/ /\ Fault /\ ~MayRetry(attempt) /\ agent.onFailure = "continue"
          /\ answer' = [NoAnswer EXCEPT !.parses = TRUE]
          /\ UNCHANGED <<channelVars, phase, node, attempt, out, resumed>>
       \/ /\ Fault /\ ~MayRetry(attempt) /\ agent.onFailure = "error"
          /\ Fail
    /\ UNCHANGED <<turns, retries, jumps, historyVars>>

\* From the model's response to the node's update: structured output, repair
\* of invalid calls, then the AfterModel hooks.
ModelNode ==
    /\ phase = "running" /\ node = "model" /\ answer # NoAnswer
    /\ LET calls == answer.calls
           r == round + 1
           ai == AI(r, mintAIMessageID(r), calls, answer.invalid)
           retry == IF StructuredError(answer) THEN ErrorMessages(calls, Matched(calls)) ELSE <<>>
           repaired == repairInvalidToolCalls(Append(msgs, ai))
           stopped == BlockedCalls(calls, counts)
           others == {i \in DOMAIN calls : calls[i] \notin agent.calls.names}
           ends == stopped # {} /\ agent.calls.exit = "end"
           raises == \/ StructuredError(answer) /\ ~agent.handleErrors
                     \/ stopped # {} /\ agent.calls.exit = "error"
                     \/ ends /\ others # {}
       IN
       /\ round' = r
       /\ \/ \* structuredDone: the run is over, no hook runs
             /\ StructuredDone(answer)
             /\ msgs' = MessagesReducer(msgs, <<ai>> \o ErrorMessages(calls, Matched(calls)))
             /\ response' = TRUE
             /\ Goto(FinalNode)
             /\ UNCHANGED <<agent, counts, edited, blocked>>
          \/ \* the strategy raises, or a limit does
             /\ ~StructuredDone(answer) /\ raises
             /\ Fail
             /\ UNCHANGED blocked
          \/ /\ ~StructuredDone(answer) /\ ~raises
             /\ msgs' = MessagesReducer(msgs, <<ai>> \o retry \o repaired \o ErrorMessages(calls, stopped)
                                                 \o (IF ends THEN <<TextAI>> ELSE <<>>))
             /\ counts' = CountToolCalls(calls, CountModelCall(counts))
             /\ blocked' = blocked \cup {<<r, i>> : i \in stopped}
             /\ Goto(IF ends THEN FinalNode ELSE RouteFromModel(msgs', response))
             /\ UNCHANGED <<agent, response, edited>>
    /\ UNCHANGED <<boundVars, executed, verdicts>>
-----------------------------------------------------------------------------
(* The hitl node: HumanInTheLoop in interrupt mode.                        *)

\* reviewableCalls.
Reviewable(ms) ==
    {i \in DOMAIN ms[LastAI(ms)].calls : ms[LastAI(ms)].calls[i] \in agent.review}

\* AfterModelNode: nothing to review clears the edits, else the run pauses.
HITLNode ==
    /\ phase = "running" /\ node = "hitl"
    /\ \/ /\ Reviewable(msgs) = {}
          /\ edited' = Empty
          /\ Goto(RouteFromHITL(msgs, response))
       \/ /\ Reviewable(msgs) # {}
          /\ phase' = "paused"
          /\ UNCHANGED <<edited, node, attempt, answer, out, resumed>>
    /\ UNCHANGED <<agent, msgs, counts, response, boundVars, historyVars>>

Decisions ==
    [type : {"approve", "reject", "respond"}, tool : {"none"}] \cup [type : {"edit"}, tool : agent.edits]

\* Mutant: the edits of an earlier review stay.
EditsAccumulate(d) == Override(edited, [i \in {j \in DOMAIN d : d[j].type = "edit"} |-> d[i].tool])

\* applyHITLDecisions: the edits of this review, and of no other.
EditsOf(d) == [i \in {j \in DOMAIN d : d[j].type = "edit"} |-> d[i].tool]

\* The resume runs the hitl node again, now with a decision per call.
ResumeReview ==
    /\ phase = "paused" /\ node = "hitl"
    /\ LET ai == msgs[LastAI(msgs)] IN
       \/ \E d \in [Reviewable(msgs) -> Decisions] :
             LET answers == {i \in DOMAIN d : d[i].type \in {"reject", "respond"}}
                 after == MessagesReducer(msgs, <<ai>> \o ErrorMessages(ai.calls, answers))
             IN
             /\ msgs' = after
             /\ edited' = EditsOf(d)
             /\ verdicts' = Override(verdicts, [i \in {<<ai.r, j>> : j \in DOMAIN d} |-> d[i[2]]])
             /\ Goto(RouteFromHITL(after, response))
             /\ UNCHANGED faults
       \/ \* the decisions do not match the request: the thread stays paused
          /\ Fault
          /\ UNCHANGED <<msgs, edited, verdicts, runVars>>
    /\ UNCHANGED <<agent, counts, response, turns, retries, jumps, round, executed, blocked>>
-----------------------------------------------------------------------------
(* The tools node: one worker per unanswered call.                         *)

Calls == msgs[LastAI(msgs)].calls

\* HumanInTheLoop.WrapToolCall: the reviewer's action replaces the call.
ToolFor(i) == IF i \in DOMAIN edited THEN edited[i] ELSE Calls[i]

ToolsNode ==
    /\ phase = "running" /\ node = "tools" /\ out = NotStarted
    /\ out' = [i \in unansweredToolCalls(msgs) |-> [st |-> "run", n |-> 0]]
    /\ UNCHANGED <<channelVars, phase, node, attempt, answer, resumed, boundVars, historyVars>>

Outcome(i, st, name) == out' = [out EXCEPT ![i] = [st |-> st, name |-> name]]

\* An error of the call: ToolRetry, then the node's conversion, which a declining
\* ToolErrorMiddleware keeps from making a message of it.
ToolError(i) ==
    IF out[i].n + 1 < agent.toolAttempts
    THEN out' = [out EXCEPT ![i].n = @ + 1]
    ELSE Outcome(i, "done", Calls[i]) \/ (agent.declines /\ Outcome(i, "raised", "error"))

\* runOne: an attempt of one call, and what becomes of its error.
RunTool(i) ==
    /\ phase = "running" /\ node = "tools" /\ out # NotStarted
    /\ i \in DOMAIN out /\ out[i].st = "run"
    /\ ToolFor(i) \in agent.asks => resumed
    /\ \/ \* no such tool: a message when the model named it, an error when the reviewer did
          /\ ToolFor(i) \notin agent.tools
          /\ IF ToolFor(i) = Calls[i] THEN Outcome(i, "done", Calls[i]) ELSE ToolError(i)
          /\ UNCHANGED <<faults, executed>>
       \/ /\ ToolFor(i) \in agent.tools
          /\ executed' = executed \cup {<<msgs[LastAI(msgs)].r, i, ToolFor(i)>>}
          /\ \/ Outcome(i, "done", ToolFor(i)) /\ UNCHANGED faults
             \/ Fault /\ ToolError(i)
    /\ UNCHANGED <<channelVars, phase, node, attempt, answer, resumed, turns, retries, jumps,
                   round, verdicts, blocked>>

\* A tool calls Interrupt.  A single call runs in the node's own goroutine
\* and pauses the run; beside another call it runs in a worker of
\* ParallelMap, where nothing recovers the panic.
ToolAsks(i) ==
    /\ phase = "running" /\ node = "tools" /\ out # NotStarted
    /\ i \in DOMAIN out /\ out[i].st = "run"
    /\ ToolFor(i) \in agent.asks /\ ~resumed
    /\ executed' = executed \cup {<<msgs[LastAI(msgs)].r, i, ToolFor(i)>>}
    /\ phase' = IF DOMAIN out = {i} THEN "paused" ELSE "failed"
    /\ out' = NotStarted
    /\ UNCHANGED <<channelVars, node, attempt, answer, resumed, boundVars, round, verdicts, blocked>>

\* The tools node runs again with the answer.
ResumeTool ==
    /\ phase = "paused" /\ node = "tools"
    /\ phase' = "running" /\ resumed' = TRUE
    /\ UNCHANGED <<channelVars, node, attempt, answer, out, boundVars, historyVars>>

\* All workers are done: results in call order, or the joined error.
ToolsDone ==
    /\ phase = "running" /\ node = "tools" /\ out # NotStarted
    /\ \A i \in DOMAIN out : out[i].st # "run"
    /\ \/ /\ \E i \in DOMAIN out : out[i].st = "raised"
          /\ Fail
       \/ /\ \A i \in DOMAIN out : out[i].st = "done"
          /\ msgs' = msgs \o FlattenSeq([i \in DOMAIN Calls |->
                IF i \in DOMAIN out THEN <<ToolMsg(i, out[i].name)>> ELSE <<>>])
          /\ Goto(RouteAfterTools(msgs'))
          /\ UNCHANGED <<agent, counts, response, edited>>
    /\ UNCHANGED <<boundVars, historyVars>>
-----------------------------------------------------------------------------
(* The nodes around the loop, and the caller.                              *)

BeforeAgent ==
    /\ phase = "running" /\ node = "before_agent"
    /\ \E j \in agent.before : Goto(JumpTarget(j, FinalNode))
    /\ UNCHANGED <<channelVars, boundVars, historyVars>>

\* buildAfterAgentNode.
AfterAgent ==
    /\ phase = "running" /\ node = "after_agent"
    /\ \E j \in agent.after :
          /\ j = "model" => jumps < MaxJumps
          /\ jumps' = IF j = "model" THEN jumps + 1 ELSE jumps
          /\ Goto(JumpTarget(j, "END"))
    /\ UNCHANGED <<channelVars, turns, retries, faults, historyVars>>

\* A new human message starts over from the entry node, whatever the thread
\* was about to do.
Invoke ==
    /\ phase # "running" /\ turns < MaxTurns
    /\ turns' = turns + 1
    /\ msgs' = Append(msgs, Human)
    /\ Goto(IF agent.before # {} THEN "before_agent" ELSE "model")
    /\ UNCHANGED <<agent, counts, response, edited, retries, faults, jumps, historyVars>>

\* An invocation without input runs the planned node again.
Retry ==
    /\ phase = "failed" /\ retries < MaxRetries
    /\ retries' = retries + 1
    /\ phase' = "running"
    /\ UNCHANGED <<channelVars, node, attempt, answer, out, resumed, turns, faults, jumps, historyVars>>

Crash ==
    /\ phase = "running" /\ Fault
    /\ Fail
    /\ UNCHANGED <<turns, retries, jumps, historyVars>>
-----------------------------------------------------------------------------
Init ==
    /\ agent \in Agents
    /\ msgs = <<>> /\ counts = [tm |-> 0, rm |-> 0, tt |-> 0, rt |-> 0]
    /\ response = FALSE /\ edited = Empty
    /\ phase = "idle" /\ node = "END" /\ attempt = 0
    /\ answer = NoAnswer /\ out = NotStarted /\ resumed = FALSE
    /\ turns = 0 /\ retries = 0 /\ faults = 0 /\ jumps = 0
    /\ round = 0 /\ executed = {} /\ verdicts = Empty /\ blocked = {}

Running ==
    \/ LimitEnds \/ CallModel \/ ModelNode \/ HITLNode \/ ToolsNode \/ ToolsDone \/ BeforeAgent \/ AfterAgent
    \/ \E i \in 1..2 : RunTool(i) \/ ToolAsks(i)

Next == Running \/ ResumeReview \/ ResumeTool \/ Invoke \/ Retry \/ Crash

\* The graph's loop and the workers are scheduled.
Spec == Init /\ [][Next]_vars /\ WF_vars(Running)
-----------------------------------------------------------------------------
\* Every variable keeps its shape.
TypeOK ==
    /\ phase \in {"idle", "running", "paused", "failed"}
    /\ node \in {"before_agent", "model", "hitl", "tools", "after_agent", "END"}
    /\ \A i \in DOMAIN msgs : msgs[i].k \in {"human", "ai", "tool"}
    /\ {counts.tm, counts.rm, counts.tt, counts.rt} \subseteq Nat
    /\ DOMAIN edited \subseteq 1..2
    /\ attempt \in 0..(agent.modelAttempts - 1)
    /\ response \in BOOLEAN /\ resumed \in BOOLEAN

\* A tool runs for a call only as the reviewer decided it for this very
\* response: approved, or edited to that tool; never a rejected call, never
\* another round's edit, never a call the limit blocked.  A call that needs
\* no review runs as the model made it.
ExecutedAsDecided ==
    \A e \in executed :
        LET id == <<e[1], e[2]>>
            ai == msgs[CHOOSE i \in AIs(msgs) : msgs[i].r = e[1]]
        IN
        /\ id \notin blocked
        /\ IF ai.calls[e[2]] \in agent.review
           THEN /\ id \in DOMAIN verdicts
                /\ \/ verdicts[id].type = "approve" /\ e[3] = ai.calls[e[2]]
                   \/ verdicts[id].type = "edit" /\ e[3] = verdicts[id].tool
           ELSE e[3] = ai.calls[e[2]]

\* Messages of the current turn.
Turn == LET humans == {i \in DOMAIN msgs : msgs[i] = Human}
        IN  {i \in DOMAIN msgs : \A h \in humans : i >= h}

\* When the model is called again, each of its responses in this turn stands
\* in the history once and each of its calls, invalid ones included, has been
\* answered before the next response: what providers require of a history.
HistoryAnswered ==
    (phase = "running" /\ node = "model") =>
        \A i \in Turn \cap AIs(msgs) :
            LET next == {j \in AIs(msgs) : j > i}
                answers == {msgs[j].call : j \in {n \in Turn : /\ msgs[n].k = "tool" /\ n > i
                                                              /\ \A m \in next : n < m}}
            IN  /\ DOMAIN msgs[i].calls \subseteq answers
                /\ msgs[i].invalid => InvalidID(msgs[i].r) \in answers
                /\ msgs[i].r # 0 => ~ \E j \in next : msgs[j].r = msgs[i].r

\* The thread's limits hold over turns, retries and crashes: responses that
\* are not a structured result, and calls of limited tools that ran.
LimitsHold ==
    /\ agent.model.thread # None =>
          Cardinality({i \in AIs(msgs) : /\ msgs[i].r # 0
                                         /\ Cardinality(Matched(msgs[i].calls)) # 1}) <= agent.model.thread
    /\ agent.calls.thread # None =>
          Cardinality({<<e[1], e[2]>> : e \in {x \in executed : x[3] \in agent.calls.names
                          /\ ~(<<x[1], x[2]>> \in DOMAIN verdicts /\ verdicts[<<x[1], x[2]>>].type = "edit")}})
              <= agent.calls.thread

\* An invocation comes to rest: done, paused or failed.
TurnEnds == phase = "running" ~> phase # "running"
=============================================================================
