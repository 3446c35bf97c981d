------------------------------- MODULE Pregel -------------------------------
(***************************************************************************)
(* The execution loop of langgraph/graph (CompiledGraph.run): one thread,  *)
(* a sequence of runs on it, and the checkpoint saver that outlives them.  *)
(* A run loads a checkpoint, plans the first tasks (entry point, or the    *)
(* resume plan of the loaded checkpoint), and repeats supersteps: stop at  *)
(* a breakpoint or a drain, dispatch the planned tasks, then commit their  *)
(* writes, pause on an in-node interrupt, or abort.  Saver calls happen in *)
(* program order but separately, so a crash can fall between any two.      *)
(*                                                                         *)
(* The graph's state is a list-reducer channel holding one token per       *)
(* applied task, and one barrier channel per join edge.                    *)
(***************************************************************************)
EXTENDS Integers, Sequences, FiniteSets, SequencesExt

CONSTANTS
    END,                \* types.END
    NoArg,              \* a task without a Send argument (Go's nil)
    Graphs              \* the compiled graphs, call options and bounds considered

VARIABLES
    graph,      \* the compiled graph and options of this behaviour; it never changes
    \* the saver
    store,      \* checkpoint ID -> [st, next, w]; the latest is the highest ID
    lastId,     \* last checkpoint ID minted (NewID is increasing)
    \* the current run
    phase,      \* "idle", "loop", "tasks", "flush"
    io,         \* saver calls made and not executed yet, in order
    cur,        \* currentCfg: ID of the run's checkpoint position
    st,         \* runState: [log, bar, ver, seen, step]
    tasks,      \* the tasks of the coming superstep: [node, arg, id, handler]
    outs,       \* outcome of each active task
    rv,         \* resumeValues: task ID -> queue
    skip,       \* resumingNode ({} or {n})
    steps,      \* supersteps of this run
    drain,      \* RunControl.RequestDrain was called
    result,     \* what the last run returned
    \* history
    turns, faults,
    execs,      \* executions of each node
    calls,      \* runs that carried resume values
    given       \* task IDs answered by this run that have not run with their answer yet

saverVars == <<graph, store, lastId>>
historyVars == <<turns, faults, execs, calls, given>>
runVars == <<phase, io, cur, st, tasks, outs, rv, skip, steps, drain, result>>
vars == <<saverVars, runVars, historyVars>>

Nodes == graph.nodes
Args == graph.args                          \* Send arguments
Entry == graph.entry                        \* the entry tasks: a sequence of destinations
Route == graph.route                        \* Route[n]: the lists n's edges or router can give
Goto == graph.goto                          \* Goto[n]: the Command.Goto lists n can return
Joins == graph.joins                        \* sequence of [parents, child]: AddJoinEdge
InterruptBefore == graph.interruptBefore    \* WithInterruptBefore
InterruptAfter == graph.interruptAfter      \* WithInterruptAfter
Asks == graph.asks                          \* Asks[n]: how many times n calls Interrupt
Fails == graph.fails                        \* nodes that may return an error
Handled == graph.handled                    \* nodes with an ErrorHandlerPolicy
Durability == graph.durability              \* "sync" or "async"
TimeTravel == graph.timeTravel              \* may a run name a CheckpointID
RecursionLimit == graph.recursionLimit
MaxIds == graph.maxIds                      \* bound: checkpoint IDs minted
MaxTurns == graph.maxTurns                  \* bound: runs with fresh input
MaxCalls == graph.maxCalls                  \* bound: runs with resume values
MaxFaults == graph.maxFaults                \* bound: crashes, node errors, drain requests

To(n) == [node |-> n, arg |-> NoArg]

\* What Compile and the options accept.
WellFormed(g) ==
    LET dests == [node : g.nodes \cup {END}, arg : g.args \cup {NoArg}] IN
    /\ END \notin g.nodes
    /\ NoArg \notin g.args
    /\ g.entry \in Seq(dests)
    /\ \A n \in g.nodes : /\ g.route[n] \subseteq Seq(dests)
                          /\ g.goto[n] \subseteq Seq(dests)
                          /\ g.asks[n] \in Nat
    /\ g.joins \in Seq([parents : SUBSET g.nodes, child : g.nodes])
    /\ \A j \in DOMAIN g.joins : \E m, n \in g.joins[j].parents : m # n
    /\ g.interruptBefore \cup g.interruptAfter \cup g.fails \cup g.handled \subseteq g.nodes
    /\ g.durability \in {"sync", "async"}
    /\ g.timeTravel \in BOOLEAN
    /\ {g.recursionLimit, g.maxIds, g.maxTurns, g.maxCalls, g.maxFaults} \subseteq Nat

ASSUME GraphAssumption == \A g \in Graphs : WellFormed(g)
-----------------------------------------------------------------------------
(* Tasks and their identities.                                             *)

\* The elements of s at the positions in I, in order.
Chosen(s, I) == FlattenSeq([i \in DOMAIN s |-> IF i \in I THEN <<s[i]>> ELSE <<>>])

\* The hash of taskid.go, taken as injective.
TaskID(cp, step, d) == [cp |-> cp, step |-> step, node |-> d.node, arg |-> d.arg]
NoId == [cp |-> -1, step |-> 0, node |-> END, arg |-> NoArg]
BoundaryId(n) == [cp |-> -1, step |-> 0, node |-> n, arg |-> NoArg]

NewTask(d) == [node |-> d.node, arg |-> d.arg, id |-> NoId, handler |-> FALSE]
NewTasks(ds) == [i \in DOMAIN ds |-> NewTask(ds[i])]
Active(ts) == Chosen(ts, {i \in DOMAIN ts : ts[i].node # END})

plannedID(t, cp, step) == IF t.id # NoId THEN t.id ELSE TaskID(cp, step, t)

\* plannedTasks + stampDispatchIDs: the Next of a pause checkpoint keeps the
\* identities the tasks were, or would be, dispatched under.
StampDispatchIDs(ts, cp, step) ==
    LET a == Active(ts) IN
    [i \in DOMAIN a |-> [node |-> a[i].node, arg |-> a[i].arg, id |-> plannedID(a[i], cp, step)]]

\* saveCheckpoint: the Next of a commit checkpoint is stamped against it.
StampNew(ts, cp, step) ==
    LET a == Active(ts) IN
    [i \in DOMAIN a |-> [node |-> a[i].node, arg |-> a[i].arg, id |-> TaskID(cp, step, a[i])]]
-----------------------------------------------------------------------------
(* Channels: state.go and channels/barrier.go.  Channel 0 is the list      *)
(* channel, channel j > 0 the barrier of join edge j.                      *)

JoinIdx == DOMAIN Joins
Channels == {0} \cup JoinIdx
ArrivesAt(n) == {j \in JoinIdx : n \in Joins[j].parents}
\* Mutant: the barrier is open after the first arrival.
AnyArrival(s, j) == s.bar[j] # {}

Full(s, j) == s.bar[j] = Joins[j].parents

EmptyState ==
    [log |-> <<>>, bar |-> [j \in JoinIdx |-> {}], ver |-> [k \in Channels |-> 0],
     seen |-> [n \in Nodes |-> [k \in Channels |-> 0]], step |-> -1]

\* A task's write batch: tokens for channel 0, arrivals at barriers.
Write(n, tok, arr) == [node |-> n, tok |-> tok, arr |-> arr]

applyWrites(s, ws) ==
    LET next == 1 + Max({s.ver[k] : k \in Channels})
        tokens == FlattenSeq([i \in DOMAIN ws |-> ws[i].tok])
        bar == [j \in JoinIdx |->
                  s.bar[j] \cup {ws[i].node : i \in {k \in DOMAIN ws : j \in ws[k].arr}}]
        changed == {k \in Channels : IF k = 0 THEN tokens # <<>> ELSE bar[k] # s.bar[k]}
    IN [s EXCEPT
          !.log = @ \o tokens,
          !.bar = bar,
          !.ver = [k \in Channels |-> IF k \in changed THEN next ELSE @[k]],
          !.seen = [n \in Nodes |->
                      IF \E i \in DOMAIN ws : ws[i].node = n THEN s.ver ELSE @[n]]]

\* A join child that ran because of its barrier resets it.
Consume(s, ran) ==
    [s EXCEPT !.bar = [j \in JoinIdx |->
        IF /\ Joins[j].child \in ran
           /\ s.seen[Joins[j].child][j] >= s.ver[j]
           /\ Full(s, j)
        THEN {} ELSE @[j]]]

\* Waiting-edge triggers: a full barrier whose version the child has not seen.
Triggered(s) == {j \in JoinIdx : Full(s, j) /\ s.seen[Joins[j].child][j] < s.ver[j]}
MarkSeen(s) ==
    [s EXCEPT !.seen = [n \in Nodes |-> [k \in Channels |->
        IF k \in Triggered(s) /\ Joins[k].child = n THEN s.ver[k] ELSE @[n][k]]]]
TriggeredTasks(s) == Chosen([j \in JoinIdx |-> NewTask(To(Joins[j].child))], Triggered(s))
-----------------------------------------------------------------------------
(* The saver: MemorySaver.Put, PutWrites and the lookup of the latest.     *)

\* A pending write: kind is "done" (completed task), "ask" (ReservedInterrupt
\* and ReservedResume), "err" (ReservedError), "before" or "after".  pre is the
\* answers the task consumed, nth the Interrupt call behind them: the question an
\* "ask" write puts.
Pending(id, kind, tok, arr, sends, pre) ==
    [id |-> id, kind |-> kind, tok |-> tok, arr |-> arr, sends |-> sends, pre |-> pre,
     nth |-> Len(pre) + 1]
Reserved(id, kind, pre) == Pending(id, kind, <<>>, {}, <<>>, pre)

\* A (task, idx) slot: the first regular write wins, a reserved one is replaced.
PutWrites(w, r) ==
    IF r.kind = "done" /\ \E x \in w : x.id = r.id /\ x.kind = "done"
    THEN w
    ELSE {x \in w : ~(x.id = r.id /\ x.kind = r.kind)} \cup {r}

\* Mutant: the checkpoint is stored under the next ID.
PutNextId(id, s, next) == [op |-> "put", cp |-> id + 1, rec |-> [st |-> s, next |-> next, w |-> {}]]
PutCall(id, s, next) == [op |-> "put", cp |-> id, rec |-> [st |-> s, next |-> next, w |-> {}]]
WritesCall(id, r) == [op |-> "writes", cp |-> id, rec |-> r]

Latest == Max(DOMAIN store)

\* The oldest outstanding saver call is executed.
SaverStep ==
    /\ io # <<>>
    /\ LET q == Head(io) IN
       store' = [c \in DOMAIN store \cup {q.cp} |->
                   IF c # q.cp THEN store[c]
                   ELSE IF q.op = "put" THEN q.rec
                   ELSE [store[c] EXCEPT !.w = PutWrites(@, q.rec)]]
    /\ io' = Tail(io)
    /\ UNCHANGED <<graph, lastId, phase, cur, st, tasks, outs, rv, skip, steps, drain, result,
                   historyVars>>

\* In sync mode every call has been executed before the run goes on.
Ready == Durability = "sync" => io = <<>>
-----------------------------------------------------------------------------
(* Starting a run.                                                         *)

\* The work of task t in its node's k-th execution: d is where it goes on to, a
\* the answers it consumed.
Token(t, k, d, a) == [n |-> t.node, arg |-> t.arg, k |-> k, d |-> d, a |-> a]
InputToken == Token(To(END), turns + 1, <<>>, <<>>)

\* The checkpoints a run may load: the latest, or a pinned one.
Loadable == IF DOMAIN store = {} \/ TimeTravel THEN DOMAIN store ELSE {Latest}

Begin(newSt, ts, queues, skipped) ==
    /\ phase' = "loop"
    /\ st' = newSt
    /\ tasks' = ts
    /\ rv' = queues
    /\ skip' = skipped
    /\ outs' = <<>>
    /\ steps' = 0
    /\ drain' = FALSE
    /\ result' = "none"

\* Fresh input: it is applied on the empty or restored state, the entry tasks
\* are planned and the input checkpoint naming them is saved.
InvokeFrom(s) ==
    LET s1 == applyWrites(s, <<Write(END, <<InputToken>>, {})>>)
        entry == NewTasks(Entry)
    IN /\ turns < MaxTurns /\ lastId < MaxIds
       /\ turns' = turns + 1
       /\ lastId' = lastId + 1
       /\ cur' = lastId + 1
       /\ io' = <<PutCall(lastId + 1, s1, StampNew(entry, lastId + 1, s1.step + 1))>>
       /\ Begin(s1, entry, <<>>, {})
       /\ given' = {}
       /\ UNCHANGED <<graph, store, faults, execs, calls>>

InvokeFresh == phase = "idle" /\ DOMAIN store = {} /\ InvokeFrom(EmptyState)
InvokeNewTurn(c) == phase = "idle" /\ InvokeFrom(store[c].st)

\* planResume: what the pending writes of checkpoint c say about planned task i.
TaskWrites(c, i, kind) ==
    {r \in store[c].w : r.id = store[c].next[i].id /\ r.kind = kind}
Asked(c, i) == TaskWrites(c, i, "ask") # {}
Completed(c, i) == ~Asked(c, i) /\ TaskWrites(c, i, "done") # {}
\* Mutant: a stored ERROR write is not looked at.
NeverFailedTask(c, i) == FALSE
FailedTask(c, i) == ~Asked(c, i) /\ ~Completed(c, i) /\ TaskWrites(c, i, "err") # {}
DoneWrite(c, i) == CHOOSE r \in TaskWrites(c, i, "done") : TRUE
AskedBy(c, i) == CHOOSE r \in TaskWrites(c, i, "ask") : TRUE
ConsumedPrefix(c, i) == AskedBy(c, i).pre

\* What this call answers planned task i: an answer is named by the call that
\* gave it and carries the question it was given to.
Answer(c, i) == [call |-> calls + 1, to |-> AskedBy(c, i).nth]

PlanIdx(c) == DOMAIN store[c].next
AskIds(c) == {store[c].next[i].id : i \in {k \in PlanIdx(c) : Asked(c, k)}}
PendingInterrupts(c) == {r \in store[c].w : r.kind \in {"ask", "before", "after"}}

\* Completed tasks are replayed and not run again; the others are dispatched
\* under the identity the checkpoint recorded.
ReplayWrites(c) ==
    FlattenSeq([i \in PlanIdx(c) |->
        IF Completed(c, i)
        THEN <<Write(store[c].next[i].node, DoneWrite(c, i).tok, DoneWrite(c, i).arr)>> ELSE <<>>])
\* Mutant: restored tasks do not keep the identity the checkpoint recorded.
RestoredAnonymously(c) ==
    Chosen([i \in PlanIdx(c) |->
              [node |-> store[c].next[i].node, arg |-> store[c].next[i].arg,
               id |-> NoId, handler |-> FailedTask(c, i)]],
           {i \in PlanIdx(c) : ~Completed(c, i)})

RestoredTasks(c) ==
    Chosen([i \in PlanIdx(c) |->
              [node |-> store[c].next[i].node, arg |-> store[c].next[i].arg,
               id |-> store[c].next[i].id, handler |-> FailedTask(c, i)]],
           {i \in PlanIdx(c) : ~Completed(c, i)})
\* Mutant: of the sends of a replayed task to one node, only the last is kept.
OneSendPerNode(c) ==
    LET Kept(ds) == Chosen(ds, {k \in DOMAIN ds : \A h \in DOMAIN ds : ds[h].node = ds[k].node => h <= k})
    IN FlattenSeq([i \in PlanIdx(c) |-> IF Completed(c, i) THEN NewTasks(Kept(DoneWrite(c, i).sends)) ELSE <<>>])
ReplaySends(c) ==
    FlattenSeq([i \in PlanIdx(c) |-> IF Completed(c, i) THEN NewTasks(DoneWrite(c, i).sends) ELSE <<>>])

AskingTask(c, id) == CHOOSE k \in PlanIdx(c) : store[c].next[k].id = id

\* Mutant: the queue is rebuilt from this call's value alone.
NewAnswerOnly(c, answered) ==
    [id \in AskIds(c) |->
       IF id \in answered THEN <<Answer(c, AskingTask(c, id))>> ELSE <<>>]

\* Mutant: the prefix of a task this call does not answer is forgotten.
PrefixOfAnsweredOnly(c, answered) ==
    [id \in AskIds(c) |->
       LET i == AskingTask(c, id) IN
       IF id \in answered THEN Append(ConsumedPrefix(c, i), Answer(c, i)) ELSE <<>>]

\* resumeValuesFor: the persisted prefix, then this call's value if it names
\* the task's interrupt.
ResumeQueues(c, answered) ==
    [id \in AskIds(c) |->
       LET i == AskingTask(c, id) IN
       ConsumedPrefix(c, i) \o (IF id \in answered THEN <<Answer(c, i)>> ELSE <<>>)]

\* Mutant: the node resumed from is not exempted.
NoSkipNode(c) == {}
resumeSkipNode(c) == {r.id.node : r \in {x \in store[c].w : x.kind = "before"}}

\* A resume from checkpoint c answering the interrupts of the tasks in answered:
\* none for a nil resume, the only one for a scalar, any of them for a map.
Resume(c, answered) ==
    /\ phase = "idle"
    /\ answered # {} => calls < MaxCalls
    /\ LET replay == ReplayWrites(c)
           s == store[c].st
       IN Begin(IF replay = <<>> THEN s ELSE applyWrites(s, replay),
                RestoredTasks(c) \o ReplaySends(c),
                ResumeQueues(c, answered), resumeSkipNode(c))
    /\ cur' = c
    /\ calls' = IF answered = {} THEN calls ELSE calls + 1
    /\ given' = answered
    /\ io' = <<>>
    /\ UNCHANGED <<saverVars, turns, faults, execs>>
-----------------------------------------------------------------------------
(* The head of the loop.                                                   *)

AtHead == phase = "loop" /\ Ready

Stop(res) ==
    /\ phase' = "flush"
    /\ result' = res
    /\ UNCHANGED <<st, tasks, outs, rv, skip, steps, drain>>

\* No task left: the run is complete.
Finish ==
    /\ AtHead /\ Active(tasks) = <<>>
    /\ Stop("ok")
    /\ UNCHANGED <<saverVars, io, cur, historyVars>>

\* A streaming run observes the cancellation of its context here.
Cancel ==
    /\ AtHead
    /\ Stop("error")
    /\ UNCHANGED <<saverVars, io, cur, historyVars>>

\* The first active task to stop in front of, but for the node resumed from.
findInterruptBefore ==
    LET a == Active(tasks)
        hits == {i \in DOMAIN a : a[i].node \notin skip /\ a[i].node \in InterruptBefore}
    IN IF hits = {} THEN {} ELSE {a[Min(hits)].node}

\* saveCheckpoint, followed by the writes the run anchors on the checkpoint.
SaveCheckpoint(s, next, writes) ==
    /\ lastId < MaxIds
    /\ lastId' = lastId + 1
    /\ cur' = lastId + 1
    /\ io' = io \o <<PutCall(lastId + 1, s, next)>>
                 \o [i \in DOMAIN writes |-> WritesCall(lastId + 1, writes[i])]
    /\ UNCHANGED <<graph, store>>

PauseBefore ==
    /\ AtHead
    /\ \E n \in findInterruptBefore :
         SaveCheckpoint(st, StampDispatchIDs(tasks, cur, st.step + 1),
                   <<Reserved(BoundaryId(n), "before", <<>>)>>)
    /\ Stop("interrupt")
    /\ UNCHANGED historyVars

PastBreakpoints == AtHead /\ Active(tasks) # <<>> /\ findInterruptBefore = {}

\* A requested drain stops the run on the checkpoint it last committed.
Drained ==
    /\ PastBreakpoints /\ drain
    /\ Stop("drained")
    /\ UNCHANGED <<saverVars, io, cur, historyVars>>

RecursionError ==
    /\ PastBreakpoints /\ ~drain
    /\ steps >= RecursionLimit
    /\ Stop("error")
    /\ UNCHANGED <<saverVars, io, cur, historyVars>>

Outcome(s, tok, sends, route, pre, nodeErr) ==
    [s |-> s, tok |-> tok, sends |-> sends, route |-> route, pre |-> pre, nodeErr |-> nodeErr]
Undecided == Outcome("run", <<>>, <<>>, <<>>, <<>>, FALSE)
HandlerRuns == Outcome("handler", <<>>, <<>>, <<>>, <<>>, TRUE)

Dispatch ==
    /\ PastBreakpoints /\ ~drain
    /\ steps < RecursionLimit
    /\ lastId < MaxIds
    /\ phase' = "tasks"
    /\ tasks' = Active(tasks)
    /\ outs' = [i \in DOMAIN Active(tasks) |->
                  IF Active(tasks)[i].handler THEN HandlerRuns ELSE Undecided]
    /\ skip' = {}
    /\ steps' = steps + 1
    /\ UNCHANGED <<saverVars, io, cur, st, rv, drain, result, historyVars>>
-----------------------------------------------------------------------------
(* The tasks of a superstep, running concurrently.                         *)

Queue(t) == IF t.id \in DOMAIN rv THEN rv[t.id] ELSE <<>>

\* The routings a completed task can choose: a Command.Goto or its edges.
Routings(n) == {<<g, <<>>>> : g \in Goto[n]} \cup {<<<<>>, r>> : r \in Route[n]}

Decide(i, out) ==
    /\ outs' = [outs EXCEPT ![i] = out]
    /\ UNCHANGED <<saverVars, phase, cur, st, tasks, rv, skip, steps, drain, result,
                   turns, calls>>

Complete(i, q, nodeErr) ==
    LET n == tasks[i].node IN
    \E c \in Routings(n) :
       LET dests == IF c[1] # <<>> THEN c[1] ELSE c[2] IN
       Decide(i, Outcome("done", <<Token(tasks[i], execs[n] + 1, dests, q)>>, c[1], c[2], <<>>, nodeErr))

\* The task holds the value this run was called with, at the end of its queue.
HoldsNewAnswer(t) == Queue(t) # <<>> /\ Last(Queue(t)).call = calls

Executes(i) ==
    /\ execs' = [execs EXCEPT ![tasks[i].node] = @ + 1]
    /\ given' = IF HoldsNewAnswer(tasks[i]) THEN given \ {tasks[i].id} ELSE given

\* The node asks for more answers than it has been given: GraphInterrupt.
TaskInterrupts(i) ==
    /\ phase = "tasks" /\ outs[i].s = "run"
    /\ Len(Queue(tasks[i])) < Asks[tasks[i].node]
    /\ Decide(i, Outcome("ask", <<>>, <<>>, <<>>, Queue(tasks[i]), FALSE))
    /\ Executes(i)
    /\ UNCHANGED <<io, faults>>

TaskCompletes(i) ==
    /\ phase = "tasks" /\ outs[i].s = "run"
    /\ Len(Queue(tasks[i])) >= Asks[tasks[i].node]
    /\ Complete(i, Queue(tasks[i]), FALSE)
    /\ Executes(i)
    /\ UNCHANGED <<io, faults>>

\* The node fails; with a handler its ERROR write is persisted first.
TaskFails(i) ==
    /\ phase = "tasks" /\ outs[i].s = "run"
    /\ tasks[i].node \in Fails /\ faults < MaxFaults
    /\ faults' = faults + 1
    /\ Executes(i)
    /\ IF tasks[i].node \in Handled
       THEN /\ Decide(i, HandlerRuns)
            /\ io' = Append(io, WritesCall(cur,
                        Reserved(plannedID(tasks[i], cur, st.step + 1), "err", <<>>)))
       ELSE /\ Decide(i, Outcome("err", <<>>, <<>>, <<>>, <<>>, FALSE))
            /\ UNCHANGED io

HandlerCompletes(i) ==
    /\ phase = "tasks" /\ outs[i].s = "handler" /\ Ready
    /\ Complete(i, <<>>, TRUE)
    /\ Executes(i)
    /\ UNCHANGED <<io, faults>>

HandlerFails(i) ==
    /\ phase = "tasks" /\ outs[i].s = "handler" /\ Ready
    /\ faults < MaxFaults
    /\ faults' = faults + 1
    /\ Decide(i, Outcome("err", <<>>, <<>>, <<>>, <<>>, TRUE))
    /\ UNCHANGED <<io, execs, given>>
-----------------------------------------------------------------------------
(* The end of a superstep.                                                 *)

Having(s) == {i \in DOMAIN outs : outs[i].s = s}
AllOut == phase = "tasks" /\ Ready /\ Having("run") \cup Having("handler") = {}

\* Mutant: a completed task's arrivals are left out of its pending writes.
WritesWithoutArrivals(i, id) == Pending(id, "done", outs[i].tok, {}, outs[i].sends, <<>>)

\* completedTaskWrites, with the arrivals at the barriers the node feeds.
CompletedWrites(i, id) ==
    Pending(id, "done", outs[i].tok, ArrivesAt(tasks[i].node), outs[i].sends, <<>>)

\* A task failed: the superstep's writes are dropped.  When an error handler was
\* in play, a pause checkpoint naming the tasks and their ERROR writes is saved.
Abort ==
    /\ AllOut /\ Having("err") # {}
    /\ LET next == StampDispatchIDs(tasks, cur, st.step + 1)
           failed == {i \in DOMAIN outs : outs[i].nodeErr}
       IN IF failed = {}
          THEN UNCHANGED <<saverVars, io, cur>>
          ELSE SaveCheckpoint(st, next,
                    Chosen([i \in DOMAIN outs |-> Reserved(next[i].id, "err", <<>>)], failed))
    /\ Stop("error")
    /\ UNCHANGED historyVars

\* In-node interrupt: the superstep is not committed.
PauseWrites(next, i) ==
    (IF outs[i].nodeErr THEN <<Reserved(next[i].id, "err", <<>>)>> ELSE <<>>) \o
    (IF outs[i].s = "ask" THEN <<Reserved(next[i].id, "ask", outs[i].pre)>>
                          ELSE <<CompletedWrites(i, next[i].id)>>)

\* Mutant: the pause checkpoint folds in the writes it also anchors.
PauseInNodeCommitted ==
    /\ AllOut /\ Having("err") = {} /\ Having("ask") # {}
    /\ LET next == StampDispatchIDs(tasks, cur, st.step + 1)
           ws == [i \in DOMAIN outs |->
                    Write(tasks[i].node, outs[i].tok, ArrivesAt(tasks[i].node))]
       IN SaveCheckpoint(applyWrites(st, ws), next,
                         FlattenSeq([i \in DOMAIN outs |-> PauseWrites(next, i)]))
    /\ Stop("interrupt")
    /\ UNCHANGED historyVars

PauseInNode ==
    /\ AllOut /\ Having("err") = {} /\ Having("ask") # {}
    /\ LET next == StampDispatchIDs(tasks, cur, st.step + 1) IN
       SaveCheckpoint(st, next, FlattenSeq([i \in DOMAIN outs |-> PauseWrites(next, i)]))
    /\ Stop("interrupt")
    /\ UNCHANGED historyVars

\* The state after the superstep's writes, barriers reset and triggers marked.
Committed ==
    LET ws == [i \in DOMAIN outs |->
                 Write(tasks[i].node, outs[i].tok, ArrivesAt(tasks[i].node))]
        ran == {tasks[i].node : i \in DOMAIN tasks}
    IN Consume([applyWrites(st, ws) EXCEPT !.step = @ + 1], ran)

\* Goto wins over edges; barrier tasks follow.
NextTasks ==
    FlattenSeq([i \in DOMAIN outs |->
        NewTasks(IF outs[i].sends # <<>> THEN outs[i].sends ELSE outs[i].route)])
    \o TriggeredTasks(Committed)

\* Each task's writes, keyed by its identity against the new checkpoint.
RanWrites(cp, step) ==
    [i \in DOMAIN outs |-> CompletedWrites(i, TaskID(cp, step, tasks[i]))]

BreaksAfter == {i \in DOMAIN tasks : tasks[i].node \in InterruptAfter}

Commit ==
    LET s == MarkSeen(Committed)
        new == lastId + 1
    IN /\ AllOut /\ Having("err") = {} /\ Having("ask") = {}
       /\ st' = s
       /\ tasks' = NextTasks
       /\ outs' = <<>>
       /\ rv' = <<>>
       /\ IF BreaksAfter # {}
          THEN /\ SaveCheckpoint(s, StampDispatchIDs(NextTasks, cur, s.step + 1),
                     <<Reserved(BoundaryId(tasks[Min(BreaksAfter)].node), "after", <<>>)>>
                        \o RanWrites(new, s.step + 1))
               /\ phase' = "flush" /\ result' = "interrupt"
          ELSE /\ SaveCheckpoint(s, StampNew(NextTasks, new, s.step + 1),
                     RanWrites(new, s.step + 1))
               /\ phase' = "loop" /\ UNCHANGED result
       /\ UNCHANGED <<skip, steps, drain, historyVars>>
-----------------------------------------------------------------------------
(* The end of a run, and what the environment may do to it.                *)

Reset ==
    /\ phase' = "idle" /\ io' = <<>> /\ cur' = 0 /\ st' = EmptyState
    /\ tasks' = <<>> /\ outs' = <<>> /\ rv' = <<>> /\ skip' = {}
    /\ steps' = 0 /\ drain' = FALSE /\ given' = {}

\* The deferred flush waits for the outstanding saver calls.
Flush ==
    /\ phase = "flush" /\ io = <<>>
    /\ Reset
    /\ UNCHANGED <<saverVars, result, turns, faults, execs, calls>>

\* The process dies: calls not executed are lost with the run.
Crash ==
    /\ phase # "idle" /\ faults < MaxFaults
    /\ faults' = faults + 1
    /\ Reset
    /\ result' = "crash"
    /\ UNCHANGED <<saverVars, turns, execs, calls>>

RequestDrain ==
    /\ phase \in {"loop", "tasks"} /\ ~drain /\ faults < MaxFaults
    /\ faults' = faults + 1
    /\ drain' = TRUE
    /\ UNCHANGED <<saverVars, phase, io, cur, st, tasks, outs, rv, skip, steps, result,
                   turns, execs, calls, given>>

Init ==
    /\ graph \in Graphs
    /\ store = <<>> /\ lastId = 0
    /\ phase = "idle" /\ io = <<>> /\ cur = 0 /\ st = EmptyState
    /\ tasks = <<>> /\ outs = <<>> /\ rv = <<>> /\ skip = {}
    /\ steps = 0 /\ drain = FALSE /\ result = "none"
    /\ turns = 0 /\ faults = 0 /\ execs = [n \in Nodes |-> 0]
    /\ calls = 0 /\ given = {}

Starts == \/ InvokeFresh
          \/ \E c \in Loadable : InvokeNewTurn(c)
          \/ \E c \in Loadable : \E a \in SUBSET AskIds(c) : Resume(c, a)
HeadStep == Finish \/ PauseBefore \/ Drained \/ RecursionError \/ Dispatch
TaskStep == \E i \in DOMAIN outs :
               \/ TaskInterrupts(i) \/ TaskCompletes(i) \/ TaskFails(i)
               \/ HandlerCompletes(i) \/ HandlerFails(i)
EndStep == Abort \/ PauseInNode \/ Commit

\* No run is in progress and the caller starts none.
Rest == phase = "idle" /\ UNCHANGED vars

Next == \/ Starts \/ HeadStep \/ TaskStep \/ EndStep \/ SaverStep \/ Flush
        \/ Cancel \/ Crash \/ RequestDrain \/ Rest

Spec == Init /\ [][Next]_vars

\* A caller that keeps resuming, answering every pending interrupt, on a process
\* that neither crashes nor cancels.
ResumeAll == \E c \in Loadable : Resume(c, AskIds(c))
CooperativeNext ==
    InvokeFresh \/ ResumeAll \/ HeadStep \/ TaskStep \/ EndStep \/ SaverStep \/ Flush
CooperativeSpec ==
    /\ Init /\ [][CooperativeNext]_vars
    /\ WF_vars(InvokeFresh) /\ WF_vars(ResumeAll)
    /\ WF_vars(HeadStep) /\ WF_vars(TaskStep) /\ WF_vars(EndStep)
    /\ WF_vars(SaverStep) /\ WF_vars(Flush)
-----------------------------------------------------------------------------
(* Properties.                                                             *)

TaskIDs == [cp : -1 .. MaxIds, step : -1 .. MaxIds + 1, node : Nodes \cup {END},
            arg : Args \cup {NoArg}]

TypeOK ==
    /\ DOMAIN store \subseteq 1 .. lastId /\ lastId \in 0 .. MaxIds
    /\ phase \in {"idle", "loop", "tasks", "flush"}
    /\ cur \in 0 .. lastId
    /\ \A c \in DOMAIN store : \A i \in PlanIdx(c) : store[c].next[i].id \in TaskIDs
    /\ st.step \in -1 .. MaxIds
    /\ \A i \in DOMAIN tasks : tasks[i].id \in TaskIDs
    /\ DOMAIN outs \subseteq DOMAIN tasks \/ phase # "tasks"
    /\ DOMAIN rv \subseteq TaskIDs /\ skip \subseteq Nodes /\ given \subseteq DOMAIN rv \cup TaskIDs
    /\ result \in {"none", "ok", "interrupt", "drained", "error", "crash"}

Logs == {st.log} \cup {store[c].st.log : c \in DOMAIN store}

\* The work of one task reaches the graph state at most once, whatever pauses,
\* crashes, drains and resumes lie between its execution and its commit: a
\* resumed run never replays writes the loaded checkpoint already folds in.
AppliedOnce == \A l \in Logs : IsInjective(l)

Completion == phase = "flush" /\ result = "ok"

\* The part of the state written since the last input (input tokens are END's).
TurnStart(l) == Max({0} \cup {i \in DOMAIN l : l[i].n = END})
InTurn(l) == TurnStart(l) + 1 .. Len(l)

\* When a run completes, every task applied in this turn has been followed by
\* its successors: an edge, a router's choice and each Send of a Command.Goto, with
\* its argument, are honoured across pauses and restarts.
EverySuccessorRuns ==
    Completion => \A i \in InTurn(st.log) : \A k \in DOMAIN st.log[i].d :
        LET d == st.log[i].d[k] IN
        d.node # END => \E j \in i + 1 .. Len(st.log) : st.log[j].n = d.node /\ st.log[j].arg = d.arg

\* A join child never runs ahead of its parents: its k-th execution is preceded
\* by k executions of each of them (in graphs that reach it by the join only).
JoinNeverEarly ==
    \A l \in Logs : \A j \in JoinIdx : \A i \in DOMAIN l : l[i].n = Joins[j].child =>
        \A p \in Joins[j].parents :
            Cardinality({k \in 1 .. i : l[k].n = Joins[j].child}) <=
            Cardinality({k \in 1 .. i : l[k].n = p})

\* A join child is triggered once all its parents have committed: a completed
\* turn in which every parent ran has run the child.
JoinFires ==
    Completion => \A j \in JoinIdx :
        Joins[j].parents \subseteq {st.log[i].n : i \in InTurn(st.log)} =>
            Joins[j].child \in {st.log[i].n : i \in InTurn(st.log)}

\* The x-th answer of q was given to the x-th question, by a later call than the
\* answers in front of it.
Aligned(q) == \A x \in DOMAIN q : /\ q[x].to = x
                                /\ \A y \in x + 1 .. Len(q) : q[x].call < q[y].call

\* The first Interrupt call of a node that runs returns the answer to its first
\* question, the second the answer to its second, each from a later call of the
\* caller, and so did the calls of the nodes applied: whatever prefix a pause
\* persisted, or Abort or a crash lost since, no resume misaligns a value onto a
\* question it was not given to.
AnswersInOrder ==
    /\ \A i \in Having("run") : Aligned(Queue(tasks[i]))
    /\ \A l \in Logs : \A i \in DOMAIN l : Aligned(l[i].a)

\* A task that pauses again still has every answer it paused with before.  The
\* promise is for consecutive pauses: a later checkpoint that names the task
\* without its interrupt (Abort's, a breakpoint's, or a pause whose writes were
\* lost in a crash) carries no prefix, and a resume from it asks all over again.
AnswersKept ==
    ~TimeTravel => \A c, d \in DOMAIN store :
        c < d => \A r \in store[c].w : \A q \in store[d].w :
            /\ r.kind = "ask" /\ q.kind = "ask" /\ r.id = q.id
            /\ \A e \in DOMAIN store : c < e /\ e < d => r.id \in AskIds(e)
            => IsPrefix(r.pre, q.pre)

\* An answer handed to a resumed run reaches the node that asked, behind the ones
\* it consumed before, before the run pauses again.
AnswerDelivered == phase = "flush" /\ result = "interrupt" => given = {}

\* A task whose ERROR write is stored on the checkpoint the run stands on is
\* resumed into its error handler: its node function does not run again.
NodeNotRerunAfterError ==
    phase = "tasks" => \A i \in DOMAIN outs : outs[i].s = "run" /\ cur \in DOMAIN store =>
        \A r \in store[cur].w :
            ~(r.kind = "err" /\ r.id = plannedID(tasks[i], cur, st.step + 1))

\* A superstep stops in front of the same node at most once: resuming a boundary
\* pause gets past it (a run sent back to an earlier checkpoint may stop again).
BreakpointPassed ==
    ~TimeTravel => \A c, d \in DOMAIN store :
        c # d /\ store[c].next = store[d].next =>
            \A r \in store[c].w : \A q \in store[d].w :
                r.kind = "before" /\ q.kind = "before" => r.id # q.id

\* A caller that answers every interrupt sees the thread complete.
Completes == <>(result = "ok")
=============================================================================
