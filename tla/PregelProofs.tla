----------------------------- MODULE PregelProofs -----------------------------
(***************************************************************************)
(* Theorems of Pregel for every compiled graph, durability and bound.      *)
(* The proofs see the saver through two sets: what has been saved          *)
(* (checkpoints) and what has been written (pending writes), whether the   *)
(* saver has executed the call or it is still on its way.  Executing a     *)
(* call never adds to them, and a crash only takes away.                   *)
(***************************************************************************)
EXTENDS Pregel, SequenceLemmas, FiniteSetTheorems

(* The shape of states, plans, writes and calls.                            *)

Dests == [node : Nodes \cup {END}, arg : Args \cup {NoArg}]
Answers == [call : Nat, to : Nat]
AnswerSeqs == {q \in Seq(Answers) : Aligned(q)}
\* What a node has consumed: answers given so far, in order.
Heard(n) == {q \in AnswerSeqs : \A x \in DOMAIN q : q[x].call <= n}
Tokens == [n : Nodes \cup {END}, arg : Args \cup {NoArg}, k : Nat, d : Seq(Dests), a : AnswerSeqs]
Barriers == {b \in [JoinIdx -> SUBSET Nodes] : \A j \in JoinIdx : b[j] \subseteq Joins[j].parents}
States == [log : Seq(Tokens), bar : Barriers, ver : [Channels -> Nat],
           seen : [Nodes -> [Channels -> Nat]], step : Int]

\* Identities of tasks that run, and the entries of a plan.
RealIDs == [cp : 1 .. MaxIds, step : 0 .. MaxIds, node : Nodes, arg : Args \cup {NoArg}]
Plans == Seq({e \in [node : Nodes, arg : Args \cup {NoArg}, id : RealIDs] :
                 e.id.node = e.node /\ e.id.arg = e.arg})
TaskRecs == {t \in [node : Nodes \cup {END}, arg : Args \cup {NoArg}, id : RealIDs \cup {NoId},
                    handler : BOOLEAN] :
                t.id # NoId => t.id.node = t.node /\ t.id.arg = t.arg}

\* The work of one task: its token.
Work(n, tok) == Len(tok) = 1 /\ tok[1].n = n
\* The work of the task of t's node and argument.
WorkOf(t, tok) == Work(t.node, tok) /\ tok[1].arg = t.arg
Boundaries == {BoundaryId(n) : n \in Nodes}
WriteRecs ==
    {r \in [id : RealIDs \cup Boundaries, kind : {"done", "ask", "err", "before", "after"},
            tok : Seq(Tokens), arr : SUBSET JoinIdx, sends : Seq(Dests), pre : AnswerSeqs,
            nth : Nat] :
        /\ r.kind \in {"before", "after"} <=> r.id \in Boundaries
        /\ r.kind = "done" => WorkOf(r.id, r.tok) /\ r.arr = ArrivesAt(r.id.node)
        /\ r.nth = Len(r.pre) + 1}
Outs == [s : {"run", "handler", "ask", "done", "err"}, tok : Seq(Tokens), sends : Seq(Dests),
         route : Seq(Dests), pre : AnswerSeqs, nodeErr : BOOLEAN]
Recs == [st : States, next : Plans, w : SUBSET WriteRecs]
SaverCalls == [op : {"put"}, cp : Nat, rec : {r \in Recs : r.w = {}}] \cup [op : {"writes"}, cp : Nat, rec : WriteRecs]

(* What has been saved and written, be the saver's call executed or not.    *)

StoredPuts(sto) == {<<c, sto[c].st, sto[c].next>> : c \in DOMAIN sto}
StoredWrites(sto) == UNION {{<<c, r>> : r \in sto[c].w} : c \in DOMAIN sto}
NewPuts(q) == {<<q[i].cp, q[i].rec.st, q[i].rec.next>> : i \in {k \in DOMAIN q : q[k].op = "put"}}
NewWrites(q) == {<<q[i].cp, q[i].rec>> : i \in {k \in DOMAIN q : q[k].op = "writes"}}
PutsOf(sto, q) == StoredPuts(sto) \cup NewPuts(q)
WritesOf(sto, q) == StoredWrites(sto) \cup NewWrites(q)
Saved == PutsOf(store, io)
Written == WritesOf(store, io)

\* A write is behind the put of its checkpoint.
Anchored(sto, q) ==
    \A i \in DOMAIN q : q[i].op = "writes" =>
        q[i].cp \in DOMAIN sto \/ \E j \in 1 .. i - 1 : q[j].op = "put" /\ q[j].cp = q[i].cp

Saver ==
    /\ graph \in Graphs /\ lastId \in 0 .. MaxIds
    /\ DOMAIN store \subseteq 1 .. lastId /\ \A c \in DOMAIN store : store[c] \in Recs
    /\ io \in Seq(SaverCalls) /\ Anchored(store, io)
    /\ \A p \in Saved : p[1] \in 1 .. lastId /\ p[2].step \in -1 .. p[1] - 2
    /\ \A p \in Written : p[1] \in 1 .. lastId /\ p[2].pre \in Heard(calls)

Run ==
    /\ phase \in {"idle", "loop", "tasks", "flush"}
    /\ result \in {"none", "ok", "interrupt", "drained", "error", "crash"}
    /\ calls \in Nat /\ turns \in Nat /\ execs \in [Nodes -> Nat]
    /\ st \in States /\ tasks \in Seq(TaskRecs)
    /\ DOMAIN rv \subseteq RealIDs /\ \A id \in DOMAIN rv : rv[id] \in Heard(calls)
    /\ skip \subseteq Nodes /\ given \subseteq RealIDs
    /\ IF phase = "idle" THEN io = <<>> /\ cur = 0 /\ st.step = -1
       ELSE st.step \in -1 .. cur - 2 /\ \E p \in Saved : p[1] = cur

\* The outcome of task i, while the superstep runs.
OutOK(out, t, c) ==
    /\ out \in Outs /\ out.pre \in Heard(c)
    /\ IF out.s = "done" THEN WorkOf(t, out.tok) ELSE out.tok = <<>>
Superstep ==
    phase = "tasks" => /\ outs \in Seq(Outs) /\ DOMAIN outs = DOMAIN tasks
                       /\ \A i \in DOMAIN tasks : tasks[i].node \in Nodes /\ OutOK(outs[i], tasks[i], calls)

Base == Saver /\ Run /\ Superstep

-----------------------------------------------------------------------------
(* Graphs.                                                                  *)

\* What GraphAssumption says of the graph of a behaviour.
GraphShape ==
    /\ END \notin Nodes /\ NoArg \notin Args
    /\ Entry \in Seq(Dests)
    /\ \A n \in Nodes : Route[n] \subseteq Seq(Dests) /\ Goto[n] \subseteq Seq(Dests) /\ Asks[n] \in Nat
    /\ Len(Joins) \in Nat /\ JoinIdx = 1 .. Len(Joins)
    /\ \A j \in JoinIdx : Joins[j].parents \subseteq Nodes /\ Joins[j].parents # {} /\ Joins[j].child \in Nodes
    /\ InterruptBefore \subseteq Nodes /\ InterruptAfter \subseteq Nodes
    /\ Fails \subseteq Nodes /\ Handled \subseteq Nodes
    /\ {RecursionLimit, MaxIds, MaxTurns, MaxCalls, MaxFaults} \subseteq Nat

LEMMA Shape ==
    ASSUME graph \in Graphs PROVE GraphShape
<1>1. WellFormed(graph)
    BY GraphAssumption
<1>2. graph.joins \in Seq([parents : SUBSET graph.nodes, child : graph.nodes])
    BY <1>1 DEF WellFormed
<1>3. Len(Joins) \in Nat /\ JoinIdx = 1 .. Len(Joins)
    BY <1>2 DEF Joins, JoinIdx
<1>4. \A j \in JoinIdx : Joins[j].parents \subseteq Nodes /\ Joins[j].child \in Nodes
    <2> DEFINE S == [parents : SUBSET graph.nodes, child : graph.nodes]
               js == graph.joins
    <2>1. ASSUME NEW j \in DOMAIN js PROVE js[j].parents \subseteq graph.nodes /\ js[j].child \in graph.nodes
        <3>1. js \in Seq(S)
            BY <1>2
        <3> HIDE DEF S, js
        <3>2. js[j] \in S
            BY <3>1
        <3>3. QED
            BY <3>2 DEF S
    <2>2. QED
        BY <2>1 DEF Joins, JoinIdx, Nodes
<1>5. /\ END \notin Nodes /\ NoArg \notin Args
      /\ Entry \in Seq(Dests)
      /\ \A n \in Nodes : Route[n] \subseteq Seq(Dests) /\ Goto[n] \subseteq Seq(Dests) /\ Asks[n] \in Nat
    BY <1>1 DEF WellFormed, Nodes, Args, Entry, Route, Goto, Asks, Dests
<1>6. /\ InterruptBefore \subseteq Nodes /\ InterruptAfter \subseteq Nodes
      /\ Fails \subseteq Nodes /\ Handled \subseteq Nodes
      /\ {RecursionLimit, MaxIds, MaxTurns, MaxCalls, MaxFaults} \subseteq Nat
    BY <1>1 DEF WellFormed, Nodes, InterruptBefore, InterruptAfter, Fails, Handled,
                RecursionLimit, MaxIds, MaxTurns, MaxCalls, MaxFaults
<1>7. \A j \in JoinIdx : Joins[j].parents # {}
    BY <1>1 DEF WellFormed, Joins, JoinIdx
<1>8. QED
    BY <1>3, <1>4, <1>5, <1>6, <1>7 DEF GraphShape

\* The graph never changes, nor does anything read off it.
SameGraph ==
    /\ Nodes' = Nodes /\ Args' = Args /\ Joins' = Joins /\ JoinIdx' = JoinIdx /\ Channels' = Channels
    /\ MaxIds' = MaxIds /\ Asks' = Asks /\ Fails' = Fails /\ Handled' = Handled /\ EmptyState' = EmptyState
    /\ Goto' = Goto /\ Route' = Route /\ Entry' = Entry /\ InterruptBefore' = InterruptBefore
    /\ Dests' = Dests /\ Tokens' = Tokens /\ Barriers' = Barriers /\ States' = States /\ RealIDs' = RealIDs
    /\ Plans' = Plans /\ TaskRecs' = TaskRecs /\ Boundaries' = Boundaries /\ WriteRecs' = WriteRecs
    /\ Outs' = Outs /\ Recs' = Recs /\ SaverCalls' = SaverCalls /\ TaskIDs' = TaskIDs
LEMMA GraphFixed ==
    ASSUME graph' = graph PROVE SameGraph
BY DEF SameGraph, Nodes, Args, Joins, JoinIdx, Channels, MaxIds, Asks, Fails, Handled, EmptyState, Goto, Route, Entry,
       InterruptBefore, Dests, Tokens, Barriers, States, RealIDs, Plans, TaskRecs, Boundaries, WriteRecs, Outs,
       Recs, SaverCalls, TaskIDs, ArrivesAt
-----------------------------------------------------------------------------
(* Identities and plans.                                                    *)

\* A plan names the node n.
Names(ts, n) == \E i \in DOMAIN ts : ts[i].node = n

\* The tasks that run, in order.
LEMMA ActiveFacts ==
    ASSUME NEW T, NEW ts \in Seq(T)
    PROVE /\ Active(ts) \in Seq(T)
          /\ Elements(Active(ts)) = {ts[i] : i \in {k \in DOMAIN ts : ts[k].node # END}}
          /\ InOrder(Active(ts), ts, {k \in DOMAIN ts : ts[k].node # END})
<1> DEFINE I == {k \in DOMAIN ts : ts[k].node # END}
           s == [i \in DOMAIN ts |-> IF i \in I THEN <<ts[i]>> ELSE <<>>]
<1>1. Len(ts) \in Nat /\ DOMAIN ts = 1 .. Len(ts) /\ \A i \in DOMAIN ts : ts[i] \in T
    OBVIOUS
<1>2. Selects(s, ts, I, Len(ts), T)
    BY <1>1 DEF Selects
<1> HIDE DEF I, s
<1>3. /\ FlattenSeq(s) \in Seq(T) /\ Elements(FlattenSeq(s)) = {ts[i] : i \in I}
      /\ InOrder(FlattenSeq(s), ts, I)
    BY <1>2, SelectionFacts, SelectionInOrder
<1>4. Active(ts) = FlattenSeq(s)
    BY DEF Active, Chosen, s, I
<1>5. QED
    BY <1>3, <1>4 DEF I

\* Active tasks are tasks of a node.
LEMMA ActiveTasks ==
    ASSUME NEW ts \in Seq(TaskRecs)
    PROVE /\ Active(ts) \in Seq(TaskRecs)
          /\ \A i \in DOMAIN Active(ts) : Active(ts)[i].node \in Nodes /\ Active(ts)[i] \in Elements(ts)
<1>1. Active(ts) \in Seq(TaskRecs)
    BY ActiveFacts
<1>2. ASSUME NEW i \in DOMAIN Active(ts)
      PROVE Active(ts)[i].node \in Nodes /\ Active(ts)[i] \in Elements(ts)
    <2>1. Active(ts)[i] \in Elements(Active(ts))
        BY DEF Elements
    <2>2. PICK k \in {j \in DOMAIN ts : ts[j].node # END} : Active(ts)[i] = ts[k]
        <3>1. Elements(Active(ts)) = {ts[j] : j \in {k \in DOMAIN ts : ts[k].node # END}}
            BY ActiveFacts
        <3> HIDE DEF Active
        <3>2. QED
            BY <2>1, <3>1
    <2>3. ts[k] \in TaskRecs
        OBVIOUS
    <2>4. QED
        BY <2>2, <2>3 DEF TaskRecs, Elements
<1>3. QED
    BY <1>1, <1>2

\* New tasks have no identity yet.
LEMMA NewTaskFacts ==
    ASSUME NEW ds \in Seq(Dests)
    PROVE /\ NewTasks(ds) \in Seq(TaskRecs)
          /\ DOMAIN NewTasks(ds) = DOMAIN ds
          /\ \A i \in DOMAIN NewTasks(ds) : i \in DOMAIN ds /\ NewTasks(ds)[i] = NewTask(ds[i])
<1>1. Len(ds) \in Nat /\ DOMAIN ds = 1 .. Len(ds) /\ \A i \in DOMAIN ds : ds[i] \in Dests
    OBVIOUS
<1>2. \A i \in DOMAIN ds : NewTask(ds[i]) \in TaskRecs
    BY <1>1 DEF NewTask, TaskRecs, Dests
<1>3. QED
    BY <1>1, <1>2 DEF NewTasks

\* The identity a task is dispatched under.
LEMMA PlannedIDFacts ==
    ASSUME graph \in Graphs, NEW t \in TaskRecs, t.node \in Nodes,
           NEW c \in 1 .. MaxIds, NEW s \in 0 .. MaxIds
    PROVE /\ plannedID(t, c, s) \in RealIDs
          /\ plannedID(t, c, s).node = t.node /\ plannedID(t, c, s).arg = t.arg
          /\ TaskID(c, s, t) \in RealIDs
          /\ TaskID(c, s, t).node = t.node /\ TaskID(c, s, t).arg = t.arg
<1>1. TaskID(c, s, t) \in RealIDs /\ TaskID(c, s, t).node = t.node /\ TaskID(c, s, t).arg = t.arg
    BY DEF TaskID, RealIDs, TaskRecs
<1>2. CASE t.id = NoId
    BY <1>1, <1>2 DEF plannedID
<1>3. CASE t.id # NoId
    <2>1. t.id \in RealIDs /\ t.id.node = t.node /\ t.id.arg = t.arg
        BY <1>3 DEF TaskRecs
    <2>2. QED
        BY <1>1, <1>3, <2>1 DEF plannedID
<1>4. QED
    BY <1>2, <1>3

\* The Next of a checkpoint is a plan that names the active tasks, in order.
LEMMA StampFacts ==
    ASSUME graph \in Graphs, NEW ts \in Seq(TaskRecs), NEW c \in 1 .. MaxIds, NEW s \in 0 .. MaxIds
    PROVE /\ StampDispatchIDs(ts, c, s) \in Plans /\ DOMAIN StampDispatchIDs(ts, c, s) = DOMAIN Active(ts)
          /\ StampNew(ts, c, s) \in Plans /\ DOMAIN StampNew(ts, c, s) = DOMAIN Active(ts)
<1> DEFINE a == Active(ts)
           E == {e \in [node : Nodes, arg : Args \cup {NoArg}, id : RealIDs] :
                   e.id.node = e.node /\ e.id.arg = e.arg}
           p(i) == [node |-> a[i].node, arg |-> a[i].arg, id |-> plannedID(a[i], c, s)]
           q(i) == [node |-> a[i].node, arg |-> a[i].arg, id |-> TaskID(c, s, a[i])]
<1>1. /\ a \in Seq(TaskRecs) /\ Len(a) \in Nat /\ DOMAIN a = 1 .. Len(a)
      /\ \A i \in DOMAIN a : a[i] \in TaskRecs /\ a[i].node \in Nodes
    BY ActiveTasks
<1> HIDE DEF a
<1>2. ASSUME NEW i \in DOMAIN a
      PROVE p(i) \in E /\ q(i) \in E
    <2>1. a[i] \in TaskRecs /\ a[i].node \in Nodes /\ a[i].arg \in Args \cup {NoArg}
        BY <1>1 DEF TaskRecs
    <2>2. QED
        BY <2>1, PlannedIDFacts
<1> HIDE DEF E, p, q
<1>3. [i \in DOMAIN a |-> p(i)] \in Seq(E) /\ [i \in DOMAIN a |-> q(i)] \in Seq(E)
    BY <1>1, <1>2
<1>4. QED
    BY <1>3 DEF StampDispatchIDs, StampNew, Plans, E, a, p, q
-----------------------------------------------------------------------------
(* Channels.                                                                *)

\* The empty state is a state.
LEMMA EmptyStateType ==
    ASSUME graph \in Graphs PROVE EmptyState \in States /\ EmptyState.log = <<>>
<1>1. [j \in JoinIdx |-> {}] \in Barriers
    BY DEF Barriers
<1>2. [k \in Channels |-> 0] \in [Channels -> Nat] /\ <<>> \in Seq(Tokens) /\ -1 \in Int
    OBVIOUS
<1>3. QED
    BY <1>1, <1>2 DEF EmptyState, States

\* The work of a task as a commit or a replay applies it.
Batches == {w \in [node : Nodes \cup {END}, tok : Seq(Tokens), arr : SUBSET JoinIdx] :
               Work(w.node, w.tok) /\ w.arr \subseteq ArrivesAt(w.node)}
Arrivals(ws, j) == {ws[i].node : i \in {k \in DOMAIN ws : j \in ws[k].arr}}
Writers(ws) == {ws[i].node : i \in DOMAIN ws}
TokensOf(ws) == [i \in DOMAIN ws |-> ws[i].tok[1]]

\* r is s after the batches ws.
Applied(s, ws, r) ==
    /\ r \in States /\ r.step = s.step
    /\ TokensOf(ws) \in Seq(Tokens) /\ r.log = s.log \o TokensOf(ws)
    /\ \A j \in JoinIdx : /\ r.bar[j] = s.bar[j] \cup Arrivals(ws, j)
                          /\ r.bar[j] = s.bar[j] => r.ver[j] = s.ver[j]
                          /\ r.bar[j] # s.bar[j] => s.ver[j] < r.ver[j]
    /\ \A n \in Nodes : r.seen[n] = IF n \in Writers(ws) THEN s.ver ELSE s.seen[n]

\* The next version is a number.
LEMMA NextVersion ==
    ASSUME graph \in Graphs, NEW v \in [Channels -> Nat]
    PROVE /\ 1 + Max({v[k] : k \in Channels}) \in Nat
          /\ \A k \in Channels : v[k] < 1 + Max({v[h] : h \in Channels})
<1>1. Len(Joins) \in Nat /\ Channels = {0} \cup 1 .. Len(Joins)
    BY Shape DEF GraphShape, Channels
<1>2. PICK b \in Nat : \A i \in 1 .. Len(Joins) : v[i] <= b
    BY <1>1, Bounded
<1>3. v[0] \in Nat /\ b + v[0] \in Nat
    BY <1>1
<1> DEFINE S == {v[k] : k \in Channels}
<1>4. S \subseteq Nat /\ S # {}
    BY <1>1
<1>5. \A x \in S : x <= b + v[0]
    <2> SUFFICES ASSUME NEW k \in Channels PROVE v[k] <= b + v[0]
        OBVIOUS
    <2>1. v[k] \in Nat
        OBVIOUS
    <2>2. CASE k = 0
        BY <1>3, <2>1, <2>2
    <2>3. CASE k # 0
        <3>1. v[k] <= b
            BY <1>1, <1>2, <2>3
        <3>2. QED
            BY <1>3, <2>1, <3>1
    <2>4. QED
        BY <2>2, <2>3
<1>6. \A k \in Channels : v[k] \in S
    OBVIOUS
<1> HIDE DEF S
<1>7. Max(S) \in Nat /\ \A x \in S : x \in Nat /\ x <= Max(S)
    BY <1>3, <1>4, <1>5, MaxFacts
<1>8. 1 + Max(S) \in Nat /\ \A x \in S : x < 1 + Max(S)
    BY <1>7
<1>9. QED
    BY <1>6, <1>8 DEF S

LEMMA TokensFlat ==
    ASSUME NEW ws \in Seq(Batches)
    PROVE /\ TokensOf(ws) \in Seq(Tokens)
          /\ FlattenSeq([i \in DOMAIN ws |-> ws[i].tok]) = TokensOf(ws)
<1>1. Len(ws) \in Nat /\ DOMAIN ws = 1 .. Len(ws) /\ \A i \in DOMAIN ws : ws[i] \in Batches
    OBVIOUS
<1>2. \A i \in DOMAIN ws : ws[i].tok \in Seq(Tokens) /\ Len(ws[i].tok) = 1
    BY <1>1 DEF Batches, Work
<1>3. \A i \in DOMAIN ws : ws[i].tok[1] \in Tokens /\ ws[i].tok = <<ws[i].tok[1]>>
    BY <1>2
<1> DEFINE f == [i \in DOMAIN ws |-> ws[i].tok[1]]
           s == [i \in DOMAIN ws |-> ws[i].tok]
<1>4. f \in Seq(Tokens) /\ Len(f) = Len(ws)
    BY <1>1, <1>3
<1>5. s = [i \in 1 .. Len(f) |-> <<f[i]>>]
    BY <1>1, <1>3, <1>4
<1> HIDE DEF f, s
<1>6. FlattenSeq(s) = f
    BY <1>4, <1>5, FlattenSingles
<1>7. QED
    BY <1>4, <1>6 DEF f, s, TokensOf

LEMMA ApplyFacts ==
    ASSUME graph \in Graphs, NEW s \in States, NEW ws \in Seq(Batches)
    PROVE Applied(s, ws, applyWrites(s, ws))
<1> DEFINE next == 1 + Max({s.ver[k] : k \in Channels})
           tokens == FlattenSeq([i \in DOMAIN ws |-> ws[i].tok])
           bar == [j \in JoinIdx |-> s.bar[j] \cup Arrivals(ws, j)]
           changed == {k \in Channels : IF k = 0 THEN tokens # <<>> ELSE bar[k] # s.bar[k]}
           ver == [k \in Channels |-> IF k \in changed THEN next ELSE s.ver[k]]
           seen == [n \in Nodes |-> IF \E i \in DOMAIN ws : ws[i].node = n THEN s.ver ELSE s.seen[n]]
           r == [s EXCEPT !.log = s.log \o tokens, !.bar = bar, !.ver = ver, !.seen = seen]
<1>1. r = applyWrites(s, ws)
    BY DEF applyWrites, Arrivals, States
<1>2. /\ s.log \in Seq(Tokens) /\ s.bar \in Barriers /\ s.ver \in [Channels -> Nat]
      /\ s.seen \in [Nodes -> [Channels -> Nat]] /\ s.step \in Int
    BY DEF States
<1>3. tokens = TokensOf(ws) /\ TokensOf(ws) \in Seq(Tokens)
    BY TokensFlat
<1>4. next \in Nat /\ \A k \in Channels : s.ver[k] < next
    BY <1>2, NextVersion
<1>5. bar \in Barriers
    <2>1. ASSUME NEW j \in JoinIdx PROVE Arrivals(ws, j) \subseteq Joins[j].parents
        <3> SUFFICES ASSUME NEW k \in DOMAIN ws, j \in ws[k].arr PROVE ws[k].node \in Joins[j].parents
            BY DEF Arrivals
        <3>1. ws[k] \in Batches
            OBVIOUS
        <3>2. QED
            BY <3>1 DEF Batches, ArrivesAt
    <2>2. \A j \in JoinIdx : s.bar[j] \subseteq Joins[j].parents /\ Joins[j].parents \subseteq Nodes
        BY <1>2, Shape DEF Barriers, GraphShape
    <2>3. QED
        BY <2>1, <2>2 DEF Barriers
<1> HIDE DEF tokens, next, bar
<1>6. ver \in [Channels -> Nat]
    BY <1>2, <1>4
<1>7. seen \in [Nodes -> [Channels -> Nat]]
    BY <1>2
<1>8. s.log \o tokens \in Seq(Tokens)
    BY <1>2, <1>3
<1>9. \A j \in JoinIdx : IF bar[j] = s.bar[j] THEN ver[j] = s.ver[j] ELSE s.ver[j] < ver[j]
    <2>1. \A j \in JoinIdx : j \in Channels /\ j # 0
        BY Shape DEF GraphShape, Channels
    <2>2. QED
        BY <1>4, <2>1
<1>10. \A n \in Nodes : seen[n] = IF n \in Writers(ws) THEN s.ver ELSE s.seen[n]
    BY DEF Writers
<1> HIDE DEF ver, seen
<1>11. /\ r \in States /\ r.step = s.step /\ r.log = s.log \o tokens /\ r.bar = bar /\ r.ver = ver /\ r.seen = seen
    BY <1>2, <1>5, <1>6, <1>7, <1>8 DEF States
<1> HIDE DEF r
<1>12. \A j \in JoinIdx : bar[j] = s.bar[j] \cup Arrivals(ws, j)
    BY DEF bar
<1>13. QED
    BY <1>1, <1>3, <1>9, <1>10, <1>11, <1>12 DEF Applied

\* Consume and MarkSeen keep a state a state.
LEMMA ConsumeFacts ==
    ASSUME graph \in Graphs, NEW s \in States, NEW ran
    PROVE /\ Consume(s, ran) \in States
          /\ Consume(s, ran).log = s.log /\ Consume(s, ran).step = s.step
          /\ Consume(s, ran).ver = s.ver /\ Consume(s, ran).seen = s.seen
          /\ \A j \in JoinIdx : Consume(s, ran).bar[j] =
                IF /\ Joins[j].child \in ran /\ s.seen[Joins[j].child][j] >= s.ver[j] /\ Full(s, j)
                THEN {} ELSE s.bar[j]
<1> DEFINE bar == [j \in JoinIdx |->
                IF /\ Joins[j].child \in ran /\ s.seen[Joins[j].child][j] >= s.ver[j] /\ Full(s, j)
                THEN {} ELSE s.bar[j]]
<1>1. s.bar \in Barriers
    BY DEF States
<1>2. bar \in Barriers
    BY <1>1 DEF Barriers
<1>3. Consume(s, ran) = [s EXCEPT !.bar = bar]
    BY DEF Consume
<1> HIDE DEF bar
<1>4. /\ [s EXCEPT !.bar = bar] \in States /\ [s EXCEPT !.bar = bar].bar = bar
      /\ [s EXCEPT !.bar = bar].log = s.log /\ [s EXCEPT !.bar = bar].step = s.step
      /\ [s EXCEPT !.bar = bar].ver = s.ver /\ [s EXCEPT !.bar = bar].seen = s.seen
    BY <1>2 DEF States
<1>5. QED
    BY <1>3, <1>4 DEF bar

LEMMA MarkSeenFacts ==
    ASSUME graph \in Graphs, NEW s \in States
    PROVE /\ MarkSeen(s) \in States
          /\ MarkSeen(s).log = s.log /\ MarkSeen(s).step = s.step
          /\ MarkSeen(s).ver = s.ver /\ MarkSeen(s).bar = s.bar
          /\ \A n \in Nodes : \A k \in Channels : MarkSeen(s).seen[n][k] =
                IF k \in Triggered(s) /\ Joins[k].child = n THEN s.ver[k] ELSE s.seen[n][k]
<1> DEFINE seen == [n \in Nodes |-> [k \in Channels |->
                IF k \in Triggered(s) /\ Joins[k].child = n THEN s.ver[k] ELSE s.seen[n][k]]]
<1>1. s.ver \in [Channels -> Nat] /\ s.seen \in [Nodes -> [Channels -> Nat]]
    BY DEF States
<1> HIDE DEF Triggered
<1>2. seen \in [Nodes -> [Channels -> Nat]]
    <2>1. \A n \in Nodes : \A k \in Channels : s.ver[k] \in Nat /\ s.seen[n][k] \in Nat
        BY <1>1
    <2>2. QED
        BY <2>1
<1>3. MarkSeen(s) = [s EXCEPT !.seen = seen]
    BY <1>1 DEF MarkSeen, States
<1>4. \A n \in Nodes : \A k \in Channels : seen[n][k] =
                IF k \in Triggered(s) /\ Joins[k].child = n THEN s.ver[k] ELSE s.seen[n][k]
    OBVIOUS
<1> HIDE DEF seen
<1>5. /\ [s EXCEPT !.seen = seen] \in States /\ [s EXCEPT !.seen = seen].seen = seen
      /\ [s EXCEPT !.seen = seen].log = s.log /\ [s EXCEPT !.seen = seen].step = s.step
      /\ [s EXCEPT !.seen = seen].ver = s.ver /\ [s EXCEPT !.seen = seen].bar = s.bar
    BY <1>2 DEF States
<1>6. QED
    BY <1>3, <1>4, <1>5
-----------------------------------------------------------------------------
(* The effect of saver calls.                                               *)

\* Where the elements of a concatenation are.
Joined(u, q, t) ==
    /\ Len(q) \in Nat /\ Len(t) \in Nat /\ DOMAIN q = 1 .. Len(q) /\ DOMAIN t = 1 .. Len(t)
    /\ DOMAIN u = 1 .. Len(q) + Len(t)
    /\ \A i \in DOMAIN q : u[i] = q[i]
    /\ \A i \in DOMAIN t : u[Len(q) + i] = t[i]
LEMMA ConcatFacts ==
    ASSUME NEW C, NEW q \in Seq(C), NEW t \in Seq(C), NEW u, u = q \o t
    PROVE u \in Seq(C) /\ Joined(u, q, t)
BY DEF Joined

\* Calls behind calls.
LEMMA CallsAppended ==
    ASSUME NEW sto, NEW u, NEW q, NEW t, Joined(u, q, t)
    PROVE /\ PutsOf(sto, u) = PutsOf(sto, q) \cup NewPuts(t)
          /\ WritesOf(sto, u) = WritesOf(sto, q) \cup NewWrites(t)
<1>1. /\ Len(q) \in Nat /\ Len(t) \in Nat /\ DOMAIN q = 1 .. Len(q) /\ DOMAIN t = 1 .. Len(t)
      /\ DOMAIN u = 1 .. Len(q) + Len(t)
      /\ \A i \in DOMAIN q : u[i] = q[i]
      /\ \A i \in DOMAIN t : u[Len(q) + i] = t[i]
    BY DEF Joined
<1>2. /\ \A i \in DOMAIN q : i \in DOMAIN u
      /\ \A i \in DOMAIN t : Len(q) + i \in DOMAIN u
      /\ \A i \in DOMAIN u : i \in DOMAIN q \/ \E k \in DOMAIN t : i = Len(q) + k
    <2>1. ASSUME NEW i \in DOMAIN u, i \notin DOMAIN q PROVE \E k \in DOMAIN t : i = Len(q) + k
        <3>1. i - Len(q) \in DOMAIN t /\ i = Len(q) + (i - Len(q))
            BY <1>1, <2>1
        <3>2. QED
            BY <3>1
    <2>2. QED
        BY <1>1, <2>1
<1>3. NewPuts(u) = NewPuts(q) \cup NewPuts(t)
    <2>1. \A x : x \in NewPuts(u) <=> x \in NewPuts(q) \cup NewPuts(t)
        BY <1>1, <1>2 DEF NewPuts
    <2>2. QED
        BY <2>1
<1>4. NewWrites(u) = NewWrites(q) \cup NewWrites(t)
    <2>1. \A x : x \in NewWrites(u) <=> x \in NewWrites(q) \cup NewWrites(t)
        BY <1>1, <1>2 DEF NewWrites
    <2>2. QED
        BY <2>1
<1>5. QED
    BY <1>3, <1>4 DEF PutsOf, WritesOf

\* The calls of a save, and what they add.
LEMMA PutFacts ==
    ASSUME graph \in Graphs, NEW c \in Nat, NEW s \in States, NEW next \in Plans
    PROVE /\ <<PutCall(c, s, next)>> \in Seq(SaverCalls)
          /\ NewPuts(<<PutCall(c, s, next)>>) = {<<c, s, next>>}
          /\ NewWrites(<<PutCall(c, s, next)>>) = {}
<1>1. PutCall(c, s, next) \in SaverCalls
    BY DEF PutCall, SaverCalls, Recs
<1>2. PutCall(c, s, next).op = "put" /\ PutCall(c, s, next).cp = c
      /\ PutCall(c, s, next).rec.st = s /\ PutCall(c, s, next).rec.next = next
    BY DEF PutCall
<1> HIDE DEF PutCall
<1>3. DOMAIN <<PutCall(c, s, next)>> = {1} /\ <<PutCall(c, s, next)>>[1] = PutCall(c, s, next)
    OBVIOUS
<1>4. QED
    BY <1>1, <1>2, <1>3 DEF NewPuts, NewWrites

LEMMA WritesFacts ==
    ASSUME graph \in Graphs, NEW c \in Nat, NEW ws \in Seq(WriteRecs)
    PROVE /\ [i \in DOMAIN ws |-> WritesCall(c, ws[i])] \in Seq(SaverCalls)
          /\ NewPuts([i \in DOMAIN ws |-> WritesCall(c, ws[i])]) = {}
          /\ NewWrites([i \in DOMAIN ws |-> WritesCall(c, ws[i])]) = {<<c, r>> : r \in Elements(ws)}
<1> DEFINE t == [i \in DOMAIN ws |-> WritesCall(c, ws[i])]
<1>1. Len(ws) \in Nat /\ DOMAIN ws = 1 .. Len(ws)
    OBVIOUS
<1>2. \A i \in DOMAIN ws : ws[i] \in WriteRecs
    <2> HIDE DEF WriteRecs
    <2>1. QED
        OBVIOUS
<1>3. \A i \in DOMAIN ws : WritesCall(c, ws[i]) \in SaverCalls
    BY <1>2 DEF WritesCall, SaverCalls
<1>4. /\ DOMAIN t = DOMAIN ws
      /\ \A i \in DOMAIN ws : t[i].op = "writes" /\ t[i].cp = c /\ t[i].rec = ws[i] /\ t[i] \in SaverCalls
    BY <1>3 DEF WritesCall
<1>5. t \in Seq(SaverCalls)
    <2> HIDE DEF SaverCalls
    <2>1. QED
        BY <1>1, <1>3
<1> HIDE DEF t
<1>6. NewPuts(t) = {} /\ NewWrites(t) = {<<c, r>> : r \in Elements(ws)}
    BY <1>4 DEF NewPuts, NewWrites, Elements
<1>7. QED
    BY <1>5, <1>6 DEF t

\* Anchors survive calls behind them.
LEMMA AnchoredAppend ==
    ASSUME NEW sto, NEW C, NEW q \in Seq(C), NEW t \in Seq(C), Anchored(sto, q),
           \A i \in DOMAIN t : t[i].op = "writes" =>
              \/ t[i].cp \in DOMAIN sto
              \/ \E j \in DOMAIN q : q[j].op = "put" /\ q[j].cp = t[i].cp
    PROVE Anchored(sto, q \o t)
<1> DEFINE u == q \o t
<1>1. /\ Len(q) \in Nat /\ Len(t) \in Nat /\ DOMAIN q = 1 .. Len(q) /\ DOMAIN t = 1 .. Len(t)
      /\ DOMAIN u = 1 .. Len(q) + Len(t)
      /\ \A i \in DOMAIN q : u[i] = q[i]
      /\ \A i \in DOMAIN t : u[Len(q) + i] = t[i]
    OBVIOUS
<1> HIDE DEF u
<1> SUFFICES ASSUME NEW i \in DOMAIN u, u[i].op = "writes", u[i].cp \notin DOMAIN sto
             PROVE \E j \in 1 .. i - 1 : u[j].op = "put" /\ u[j].cp = u[i].cp
    BY DEF Anchored, u
<1>2. CASE i \in DOMAIN q
    <2>1. PICK j \in 1 .. i - 1 : q[j].op = "put" /\ q[j].cp = q[i].cp
        BY <1>1, <1>2 DEF Anchored
    <2>2. j \in DOMAIN q /\ u[j] = q[j] /\ u[i] = q[i]
        BY <1>1, <1>2
    <2>3. QED
        BY <2>1, <2>2
<1>3. CASE i \notin DOMAIN q
    <2>1. i - Len(q) \in DOMAIN t /\ i \in Nat /\ i = Len(q) + (i - Len(q))
        BY <1>1, <1>3
    <2>2. u[i] = t[i - Len(q)]
        BY <1>1, <2>1
    <2>3. PICK j \in DOMAIN q : q[j].op = "put" /\ q[j].cp = u[i].cp
        BY <2>1, <2>2
    <2>4. j \in 1 .. i - 1 /\ u[j] = q[j]
        BY <1>1, <2>1
    <2>5. QED
        BY <2>3, <2>4
<1>4. QED
    BY <1>2, <1>3

\* What the saver holds has been saved and written.
LEMMA ReadFacts ==
    ASSUME Saver, NEW c \in DOMAIN store
    PROVE /\ c \in 1 .. MaxIds /\ c \in 1 .. lastId /\ store[c] \in Recs /\ MaxIds \in Nat
          /\ store[c].st \in States /\ store[c].st.step \in -1 .. c - 2 /\ store[c].next \in Plans
          /\ <<c, store[c].st, store[c].next>> \in Saved
          /\ \A r \in store[c].w : r \in WriteRecs /\ r.pre \in Heard(calls) /\ <<c, r>> \in Written
<1>1. store[c] \in Recs /\ c \in 1 .. lastId /\ lastId \in 0 .. MaxIds /\ MaxIds \in Nat
    BY Shape DEF Saver, GraphShape
<1>2. <<c, store[c].st, store[c].next>> \in Saved
    BY DEF Saved, PutsOf, StoredPuts
<1>3. \A r \in store[c].w : <<c, r>> \in Written
    BY DEF Written, WritesOf, StoredWrites
<1>4. store[c].st.step \in -1 .. c - 2 /\ \A r \in store[c].w : r.pre \in Heard(calls)
    BY <1>2, <1>3 DEF Saver
<1>5. store[c].st \in States /\ store[c].next \in Plans /\ \A r \in store[c].w : r \in WriteRecs
    BY <1>1 DEF Recs
<1>6. c \in 1 .. MaxIds
    BY <1>1
<1>7. QED
    BY <1>1, <1>2, <1>3, <1>4, <1>5, <1>6

\* A run loads a checkpoint of the saver.
LEMMA LoadableStored ==
    ASSUME Saver, NEW c \in Loadable PROVE c \in DOMAIN store
<1>1. lastId \in Nat /\ DOMAIN store \subseteq 1 .. lastId
    BY Shape DEF Saver, GraphShape
<1>2. DOMAIN store \subseteq Nat /\ \A x \in DOMAIN store : x <= lastId
    BY <1>1
<1>3. DOMAIN store # {} => Max(DOMAIN store) \in DOMAIN store
    BY <1>1, <1>2, MaxFacts
<1>4. QED
    BY <1>3 DEF Loadable, Latest

\* The saver executes a call: nothing is added, and no checkpoint goes.
SaverExecutes ==
    /\ Saved' \subseteq Saved /\ Written' \subseteq Written
    /\ \A p \in Saved : \E q \in Saved' : q[1] = p[1]
    /\ DOMAIN store' \subseteq 1 .. lastId /\ \A c \in DOMAIN store' : store'[c] \in Recs
    /\ io' \in Seq(SaverCalls) /\ Anchored(store', io')
LEMMA SaverStepFacts ==
    ASSUME Saver, SaverStep PROVE SaverExecutes
<1> DEFINE q == Head(io)
<1>1. io # <<>> /\ io \in Seq(SaverCalls) /\ io' = Tail(io) /\ Anchored(store, io)
    BY DEF Saver, SaverStep
<1>2. /\ Len(io) \in Nat /\ Len(io) >= 1 /\ DOMAIN io = 1 .. Len(io) /\ q = io[1] /\ 1 \in DOMAIN io
      /\ Tail(io) \in Seq(SaverCalls) /\ DOMAIN Tail(io) = 1 .. Len(io) - 1
      /\ \A i \in 1 .. Len(io) - 1 : Tail(io)[i] = io[i + 1] /\ i + 1 \in DOMAIN io
    <2> HIDE DEF SaverCalls
    <2>1. QED
        BY <1>1
<1>3. q \in SaverCalls
    <2> HIDE DEF SaverCalls
    <2>1. QED
        BY <1>1, <1>2
<1>4. /\ q.op \in {"put", "writes"} /\ q.cp \in Nat
      /\ q.op = "put" => q.rec \in Recs /\ q.rec.w = {}
      /\ q.op = "writes" => q.rec \in WriteRecs
    BY <1>3 DEF SaverCalls
<1>5. DOMAIN store \subseteq 1 .. lastId /\ \A c \in DOMAIN store : store[c] \in Recs
    BY DEF Saver
<1>6. q.op = "writes" => q.cp \in DOMAIN store
    BY <1>1, <1>2 DEF Anchored
<1>7. q.op = "put" => <<q.cp, q.rec.st, q.rec.next>> \in Saved /\ q.cp \in 1 .. lastId
    <2>1. q.op = "put" => <<q.cp, q.rec.st, q.rec.next>> \in Saved
        BY <1>2 DEF Saved, PutsOf, NewPuts
    <2>2. QED
        BY <2>1 DEF Saver
<1>8. q.op = "writes" => <<q.cp, q.rec>> \in Written
    BY <1>2 DEF Written, WritesOf, NewWrites
<1> HIDE DEF q
<1>9. /\ DOMAIN store' = DOMAIN store \cup {q.cp}
      /\ \A c \in DOMAIN store' : store'[c] = IF c # q.cp THEN store[c]
              ELSE IF q.op = "put" THEN q.rec ELSE [store[c] EXCEPT !.w = PutWrites(@, q.rec)]
    BY DEF SaverStep, q
<1>10. \A w : PutWrites(w, q.rec) \subseteq w \cup {q.rec}
    BY DEF PutWrites
<1>11. q.op = "writes" =>
          /\ store'[q.cp] \in Recs /\ store'[q.cp].st = store[q.cp].st /\ store'[q.cp].next = store[q.cp].next
          /\ store'[q.cp].w \subseteq store[q.cp].w \cup {q.rec}
    <2> SUFFICES ASSUME q.op = "writes" PROVE
          /\ store'[q.cp] \in Recs /\ store'[q.cp].st = store[q.cp].st /\ store'[q.cp].next = store[q.cp].next
          /\ store'[q.cp].w \subseteq store[q.cp].w \cup {q.rec}
        OBVIOUS
    <2>1. store'[q.cp] = [store[q.cp] EXCEPT !.w = PutWrites(store[q.cp].w, q.rec)] /\ store[q.cp] \in Recs
        BY <1>5, <1>6, <1>9
    <2>2. q.rec \in WriteRecs /\ PutWrites(store[q.cp].w, q.rec) \subseteq store[q.cp].w \cup {q.rec}
        BY <1>4, <1>10
    <2> HIDE DEF PutWrites
    <2>3. QED
        BY <2>1, <2>2 DEF Recs
<1>12. \A c \in DOMAIN store' : store'[c] \in Recs
    BY <1>4, <1>5, <1>9, <1>11
<1>13. StoredPuts(store') \subseteq Saved
    <2> SUFFICES ASSUME NEW c \in DOMAIN store' PROVE <<c, store'[c].st, store'[c].next>> \in Saved
        BY DEF StoredPuts
    <2>1. c \in DOMAIN store => <<c, store[c].st, store[c].next>> \in Saved
        BY DEF Saved, PutsOf, StoredPuts
    <2>2. CASE c # q.cp
        BY <1>9, <2>1, <2>2
    <2>3. CASE c = q.cp /\ q.op = "put"
        BY <1>7, <1>9, <2>3
    <2>4. CASE c = q.cp /\ q.op = "writes"
        BY <1>6, <1>11, <2>1, <2>4
    <2>5. QED
        BY <1>4, <2>2, <2>3, <2>4
<1>14. StoredWrites(store') \subseteq Written
    <2> SUFFICES ASSUME NEW c \in DOMAIN store', NEW r \in store'[c].w PROVE <<c, r>> \in Written
        BY DEF StoredWrites
    <2>1. c \in DOMAIN store /\ r \in store[c].w => <<c, r>> \in Written
        BY DEF Written, WritesOf, StoredWrites
    <2>2. CASE c # q.cp
        BY <1>9, <2>1, <2>2
    <2>3. CASE c = q.cp /\ q.op = "put"
        BY <1>4, <1>9, <2>3
    <2>4. CASE c = q.cp /\ q.op = "writes"
        BY <1>6, <1>8, <1>11, <2>1, <2>4
    <2>5. QED
        BY <1>4, <2>2, <2>3, <2>4
<1>15. NewPuts(io') \subseteq Saved /\ NewWrites(io') \subseteq Written
    <2>1. NewPuts(io') \subseteq NewPuts(io) /\ NewWrites(io') \subseteq NewWrites(io)
        BY <1>1, <1>2 DEF NewPuts, NewWrites
    <2>2. QED
        BY <2>1 DEF Saved, Written, PutsOf, WritesOf
<1>16. \A p \in Saved : \E r \in Saved' : r[1] = p[1]
    <2>1. \A c \in DOMAIN store' : \E r \in Saved' : r[1] = c
        <3> SUFFICES ASSUME NEW c \in DOMAIN store' PROVE \E r \in Saved' : r[1] = c
            OBVIOUS
        <3>1. <<c, store'[c].st, store'[c].next>> \in Saved'
            BY DEF Saved, PutsOf, StoredPuts
        <3>2. QED
            BY <3>1
    <2>2. \A c \in DOMAIN store : c \in DOMAIN store'
        BY <1>9
    <2>3. \A p \in StoredPuts(store) : p[1] \in DOMAIN store
        BY DEF StoredPuts
    <2>4. ASSUME NEW i \in DOMAIN io, io[i].op = "put" PROVE \E r \in Saved' : r[1] = io[i].cp
        <3>1. CASE i = 1
            BY <1>2, <1>9, <2>1, <3>1
        <3>2. CASE i # 1
            <4>1. i - 1 \in DOMAIN io' /\ io'[i - 1] = io[i]
                BY <1>1, <1>2, <3>2
            <4>2. <<io[i].cp, io[i].rec.st, io[i].rec.next>> \in Saved'
                BY <2>4, <4>1 DEF Saved, PutsOf, NewPuts
            <4>3. QED
                BY <4>2
        <3>3. QED
            BY <3>1, <3>2
    <2>5. \A p \in NewPuts(io) : \E r \in Saved' : r[1] = p[1]
        BY <2>4 DEF NewPuts
    <2>6. \A p \in Saved : p \in StoredPuts(store) \/ p \in NewPuts(io)
        BY DEF Saved, PutsOf
    <2>7. QED
        BY <2>1, <2>2, <2>3, <2>5, <2>6
<1>17. Anchored(store', io')
    <2> SUFFICES ASSUME NEW i \in DOMAIN io', io'[i].op = "writes", io'[i].cp \notin DOMAIN store'
                 PROVE \E j \in 1 .. i - 1 : io'[j].op = "put" /\ io'[j].cp = io'[i].cp
        BY DEF Anchored
    <2>1. i \in 1 .. Len(io) - 1 /\ i + 1 \in DOMAIN io /\ io'[i] = io[i + 1]
        BY <1>1, <1>2
    <2>2. io[i + 1].cp \notin DOMAIN store /\ io[i + 1].cp # q.cp
        BY <1>9, <2>1
    <2>3. PICK j \in 1 .. (i + 1) - 1 : io[j].op = "put" /\ io[j].cp = io[i + 1].cp
        BY <1>1, <2>1, <2>2 DEF Anchored
    <2>4. j # 1
        BY <1>2, <2>2, <2>3
    <2>5. j - 1 \in 1 .. i - 1 /\ j - 1 \in 1 .. Len(io) - 1 /\ io'[j - 1] = io[j]
        BY <1>1, <1>2, <2>1, <2>3, <2>4
    <2>6. QED
        BY <2>1, <2>3, <2>5
<1>18. DOMAIN store' \subseteq 1 .. lastId
    BY <1>4, <1>5, <1>6, <1>7, <1>9
<1>19. Saved' \subseteq Saved /\ Written' \subseteq Written
    BY <1>13, <1>14, <1>15 DEF Saved, Written, PutsOf, WritesOf
<1>20. io' \in Seq(SaverCalls)
    BY <1>1, <1>2
<1>21. QED
    BY <1>12, <1>16, <1>17, <1>18, <1>19, <1>20 DEF SaverExecutes

\* A checkpoint is saved with the writes anchored on it.
CheckpointSaved(s, next, ws) ==
    /\ graph' = graph /\ store' = store /\ lastId' = lastId + 1 /\ cur' = lastId + 1 /\ lastId + 1 \in 1 .. MaxIds
    /\ Saved' = Saved \cup {<<lastId + 1, s, next>>}
    /\ Written' = Written \cup {<<lastId + 1, r>> : r \in Elements(ws)}
    /\ io' \in Seq(SaverCalls) /\ Anchored(store', io')
LEMMA SaveFacts ==
    ASSUME Saver, NEW s \in States, NEW next \in Plans, NEW ws \in Seq(WriteRecs), SaveCheckpoint(s, next, ws)
    PROVE CheckpointSaved(s, next, ws)
<1> DEFINE c == lastId + 1
           a == <<PutCall(c, s, next)>>
           t == [i \in DOMAIN ws |-> WritesCall(c, ws[i])]
<1>1. /\ graph' = graph /\ store' = store /\ lastId' = c /\ cur' = c /\ lastId < MaxIds
      /\ io' = (io \o a) \o t
    <2>1. io' = io \o a \o t
        BY DEF SaveCheckpoint
    <2>2. QED
        BY <2>1 DEF SaveCheckpoint
<1>2. graph \in Graphs /\ io \in Seq(SaverCalls) /\ Anchored(store, io) /\ c \in 1 .. MaxIds /\ c \in Nat
    <2>1. lastId \in 0 .. MaxIds /\ MaxIds \in Nat
        BY Shape DEF Saver, GraphShape
    <2>2. QED
        BY <1>1, <2>1 DEF Saver
<1>3. a \in Seq(SaverCalls) /\ NewPuts(a) = {<<c, s, next>>} /\ NewWrites(a) = {}
    BY <1>2, PutFacts
<1>4. t \in Seq(SaverCalls) /\ NewPuts(t) = {} /\ NewWrites(t) = {<<c, r>> : r \in Elements(ws)}
    BY <1>2, WritesFacts
<1>5. Len(a) = 1 /\ DOMAIN a = {1} /\ a[1].op = "put" /\ a[1].cp = c
    BY DEF PutCall
<1>6. \A i \in DOMAIN t : t[i].cp = c
    BY DEF WritesCall
<1> DEFINE ia == io \o a
<1> HIDE DEF a, t, c, SaverCalls
<1>0. ia = io \o a
    OBVIOUS
<1>8. Anchored(store, ia)
    BY <1>2, <1>3, <1>5, AnchoredAppend
<1> HIDE DEF ia
<1>7. ia \in Seq(SaverCalls) /\ Joined(ia, io, a)
    BY <1>0, <1>2, <1>3, ConcatFacts
<1>9. PutsOf(store, ia) = Saved \cup {<<c, s, next>>} /\ WritesOf(store, ia) = Written
    <2>1. /\ PutsOf(store, ia) = PutsOf(store, io) \cup NewPuts(a)
          /\ WritesOf(store, ia) = WritesOf(store, io) \cup NewWrites(a)
        BY <1>7, CallsAppended
    <2>2. QED
        BY <1>3, <2>1 DEF Saved, Written
<1>10. \E j \in DOMAIN ia : ia[j].op = "put" /\ ia[j].cp = c
    <2>1. Len(io) + 1 \in DOMAIN ia /\ ia[Len(io) + 1] = a[1]
        BY <1>5, <1>7 DEF Joined
    <2>2. QED
        BY <1>5, <2>1
<1>11. ia \o t \in Seq(SaverCalls)
    BY <1>4, <1>7
<1>12. Anchored(store, ia \o t)
    BY <1>4, <1>6, <1>7, <1>8, <1>10, AnchoredAppend
<1>13. /\ PutsOf(store, ia \o t) = Saved \cup {<<c, s, next>>}
       /\ WritesOf(store, ia \o t) = Written \cup {<<c, r>> : r \in Elements(ws)}
    <2> DEFINE iat == ia \o t
    <2>0. iat = ia \o t
        OBVIOUS
    <2> HIDE DEF iat
    <2>1. Joined(iat, ia, t)
        BY <1>4, <1>7, <2>0, ConcatFacts
    <2>2. /\ PutsOf(store, iat) = PutsOf(store, ia) \cup NewPuts(t)
          /\ WritesOf(store, iat) = WritesOf(store, ia) \cup NewWrites(t)
        BY <2>1, CallsAppended
    <2>3. QED
        BY <1>4, <1>9, <2>0, <2>2
<1>14. io' = ia \o t
    BY <1>1 DEF ia
<1>15. QED
    BY <1>1, <1>2, <1>11, <1>12, <1>13, <1>14 DEF CheckpointSaved, Saved, Written, c

\* A write is persisted on the checkpoint the run stands on.
LEMMA WriteFacts ==
    ASSUME Saver, NEW r \in WriteRecs, \E p \in Saved : p[1] = cur, cur \in Nat,
           io' = Append(io, WritesCall(cur, r)), store' = store
    PROVE /\ Saved' = Saved /\ Written' = Written \cup {<<cur, r>>}
          /\ io' \in Seq(SaverCalls) /\ Anchored(store', io')
<1> DEFINE ws == <<r>>
           t == [i \in DOMAIN ws |-> WritesCall(cur, ws[i])]
<1>1. graph \in Graphs /\ io \in Seq(SaverCalls) /\ Anchored(store, io)
    BY DEF Saver
<1>2. ws \in Seq(WriteRecs) /\ Elements(ws) = {r} /\ DOMAIN ws = {1}
    <2> HIDE DEF WriteRecs
    <2>1. QED
        BY DEF Elements
<1>3. t = <<WritesCall(cur, r)>>
    BY <1>2
<1>4. t \in Seq(SaverCalls) /\ NewPuts(t) = {} /\ NewWrites(t) = {<<cur, x>> : x \in Elements(ws)}
    BY <1>1, <1>2, WritesFacts
<1>5. \A i \in DOMAIN t : t[i].cp = cur
    BY DEF WritesCall
<1> HIDE DEF t, ws, SaverCalls
<1>6. io' = io \o t
    BY <1>1, <1>3
<1>7. cur \in DOMAIN store \/ \E j \in DOMAIN io : io[j].op = "put" /\ io[j].cp = cur
    <2>1. PICK p \in Saved : p[1] = cur
        OBVIOUS
    <2>2. p \in StoredPuts(store) \/ p \in NewPuts(io)
        BY DEF Saved, PutsOf
    <2>3. QED
        BY <2>1, <2>2 DEF StoredPuts, NewPuts
<1>8. Anchored(store, io \o t)
    BY <1>1, <1>4, <1>5, <1>7, AnchoredAppend
<1>9. Saved' = Saved /\ Written' = Written \cup {<<cur, r>>}
    <2> DEFINE v == io \o t
    <2>0. v = io \o t
        OBVIOUS
    <2> HIDE DEF v
    <2>1. Joined(v, io, t)
        BY <1>1, <1>4, <2>0, ConcatFacts
    <2>2. PutsOf(store, v) = PutsOf(store, io) \cup NewPuts(t) /\ WritesOf(store, v) = WritesOf(store, io) \cup NewWrites(t)
        BY <2>1, CallsAppended
    <2>3. QED
        BY <1>2, <1>4, <1>6, <2>0, <2>2 DEF Saved, Written
<1>10. io \o t \in Seq(SaverCalls)
    BY <1>1, <1>4
<1>11. QED
    BY <1>6, <1>8, <1>9, <1>10

\* The outstanding calls are lost.
LEMMA LossFacts ==
    ASSUME Saver, store' = store, io' = <<>>
    PROVE /\ Saved' \subseteq Saved /\ Written' \subseteq Written
          /\ io' \in Seq(SaverCalls) /\ Anchored(store', io')
<1>1. NewPuts(<<>>) = {} /\ NewWrites(<<>>) = {}
    BY DEF NewPuts, NewWrites
<1>2. Saved' = StoredPuts(store) /\ Written' = StoredWrites(store)
    BY <1>1 DEF Saved, Written, PutsOf, WritesOf
<1>3. QED
    BY <1>2 DEF Saved, Written, PutsOf, WritesOf, Anchored

\* Answers given so far stay so.
LEMMA HeardGrows ==
    ASSUME NEW m \in Nat, NEW n \in Nat, m <= n PROVE Heard(m) \subseteq Heard(n)
<1> SUFFICES ASSUME NEW q \in AnswerSeqs, \A x \in DOMAIN q : q[x].call <= m
             PROVE \A x \in DOMAIN q : q[x].call <= n
    BY DEF Heard
<1>1. \A x \in DOMAIN q : q[x] \in Answers
    BY DEF AnswerSeqs
<1>2. \A x \in DOMAIN q : q[x].call \in Nat
    BY <1>1 DEF Answers
<1>3. QED
    BY <1>2

\* The saver's part of the invariant, from what an action adds.
LEMMA SaverKept ==
    ASSUME Saver, calls \in Nat, calls' \in Nat, calls <= calls',
           graph' = graph, lastId' \in 0 .. MaxIds, lastId <= lastId',
           DOMAIN store' \subseteq 1 .. lastId', \A c \in DOMAIN store' : store'[c] \in Recs,
           io' \in Seq(SaverCalls), Anchored(store', io'),
           \A p \in Saved' : p \in Saved \/ (p[1] \in 1 .. lastId' /\ p[2].step \in -1 .. p[1] - 2),
           \A p \in Written' : p \in Written \/ (p[1] \in 1 .. lastId' /\ p[2].pre \in Heard(calls'))
    PROVE Saver'
<1>1. SameGraph
    BY GraphFixed
<1>2. lastId \in Int /\ lastId' \in Int
    BY Shape DEF Saver, GraphShape
<1>3. \A x \in 1 .. lastId : x \in 1 .. lastId'
    BY <1>2
<1>4. Heard(calls) \subseteq Heard(calls')
    BY HeardGrows
<1>5. \A p \in Saved' : p[1] \in 1 .. lastId' /\ p[2].step \in -1 .. p[1] - 2
    BY <1>3 DEF Saver
<1>6. \A p \in Written' : p[1] \in 1 .. lastId' /\ p[2].pre \in Heard(calls')
    BY <1>3, <1>4 DEF Saver
<1>7. graph' \in Graphs /\ lastId' \in 0 .. MaxIds'
    BY <1>1 DEF Saver, SameGraph
<1>8. (\A c \in DOMAIN store' : store'[c] \in Recs') /\ io' \in Seq(SaverCalls')
    BY <1>1 DEF SameGraph
<1>9. QED
    BY <1>5, <1>6, <1>7, <1>8 DEF Saver
-----------------------------------------------------------------------------
(* What a resume reads off its checkpoint.                                  *)

\* The plan of a stored checkpoint.
LEMMA PlanFacts ==
    ASSUME Saver, NEW c \in DOMAIN store
    PROVE /\ Len(store[c].next) \in Nat /\ PlanIdx(c) = 1 .. Len(store[c].next)
          /\ \A i \in PlanIdx(c) : /\ store[c].next[i].node \in Nodes /\ store[c].next[i].arg \in Args \cup {NoArg}
                                   /\ store[c].next[i].id \in RealIDs
                                   /\ store[c].next[i].id.node = store[c].next[i].node
                                   /\ store[c].next[i].id.arg = store[c].next[i].arg
<1> DEFINE E == {e \in [node : Nodes, arg : Args \cup {NoArg}, id : RealIDs] :
                   e.id.node = e.node /\ e.id.arg = e.arg}
           n == store[c].next
<1>1. n \in Seq(E)
    BY ReadFacts DEF Plans
<1>2. ASSUME NEW e \in E
      PROVE /\ e.node \in Nodes /\ e.arg \in Args \cup {NoArg} /\ e.id \in RealIDs
            /\ e.id.node = e.node /\ e.id.arg = e.arg
    OBVIOUS
<1> HIDE DEF E, n
<1>3. Len(n) \in Nat /\ DOMAIN n = 1 .. Len(n) /\ \A i \in DOMAIN n : n[i] \in E
    BY <1>1
<1>4. QED
    BY <1>2, <1>3 DEF PlanIdx, n

\* The work a completed task left behind is that task's.
LEMMA DoneFacts ==
    ASSUME Saver, NEW c \in DOMAIN store, NEW i \in PlanIdx(c), Completed(c, i)
    PROVE /\ DoneWrite(c, i) \in store[c].w /\ DoneWrite(c, i) \in WriteRecs
          /\ DoneWrite(c, i).kind = "done" /\ DoneWrite(c, i).id = store[c].next[i].id
          /\ DoneWrite(c, i).tok \in Seq(Tokens) /\ DoneWrite(c, i).sends \in Seq(Dests)
          /\ WorkOf(store[c].next[i], DoneWrite(c, i).tok)
          /\ DoneWrite(c, i).arr = ArrivesAt(store[c].next[i].node)
<1>1. DoneWrite(c, i) \in TaskWrites(c, i, "done")
    BY DEF Completed, DoneWrite
<1>2. /\ DoneWrite(c, i) \in store[c].w /\ DoneWrite(c, i).kind = "done"
      /\ DoneWrite(c, i).id = store[c].next[i].id
    BY <1>1 DEF TaskWrites
<1>3. DoneWrite(c, i) \in WriteRecs
    BY <1>2, ReadFacts
<1>4. /\ store[c].next[i].id.node = store[c].next[i].node
      /\ store[c].next[i].id.arg = store[c].next[i].arg
    BY PlanFacts
<1> HIDE DEF DoneWrite
<1>5. QED
    BY <1>2, <1>3, <1>4 DEF WriteRecs, WorkOf

\* The batch of a completed task, and the task of one that is not.
ReplayOf(c) == [i \in PlanIdx(c) |-> Write(store[c].next[i].node, DoneWrite(c, i).tok, DoneWrite(c, i).arr)]
RestoreOf(c) == [i \in PlanIdx(c) |-> [node |-> store[c].next[i].node, arg |-> store[c].next[i].arg,
                                       id |-> store[c].next[i].id, handler |-> FailedTask(c, i)]]
CompletedIdx(c) == {i \in PlanIdx(c) : Completed(c, i)}
OpenIdx(c) == {i \in PlanIdx(c) : ~Completed(c, i)}

LEMMA ReplayFacts ==
    ASSUME Saver, NEW c \in DOMAIN store
    PROVE /\ ReplayWrites(c) \in Seq(Batches)
          /\ Elements(ReplayWrites(c)) = {ReplayOf(c)[i] : i \in CompletedIdx(c)}
          /\ InOrder(ReplayWrites(c), ReplayOf(c), CompletedIdx(c))
<1>1. Len(store[c].next) \in Nat /\ PlanIdx(c) = 1 .. Len(store[c].next)
    BY PlanFacts
<1>2. ASSUME NEW i \in CompletedIdx(c) PROVE ReplayOf(c)[i] \in Batches
    <2>1. i \in PlanIdx(c) /\ Completed(c, i)
        BY DEF CompletedIdx
    <2>2. /\ DoneWrite(c, i).tok \in Seq(Tokens) /\ Work(store[c].next[i].node, DoneWrite(c, i).tok)
          /\ DoneWrite(c, i).arr = ArrivesAt(store[c].next[i].node) /\ store[c].next[i].node \in Nodes
        BY <2>1, DoneFacts, PlanFacts DEF WorkOf
    <2>3. ReplayOf(c)[i] = Write(store[c].next[i].node, DoneWrite(c, i).tok, DoneWrite(c, i).arr)
        BY <2>1 DEF ReplayOf
    <2>4. ArrivesAt(store[c].next[i].node) \subseteq JoinIdx
        BY DEF ArrivesAt
    <2> HIDE DEF DoneWrite
    <2>5. QED
        BY <2>2, <2>3, <2>4 DEF Write, Batches
<1> DEFINE s == [i \in PlanIdx(c) |-> IF i \in CompletedIdx(c) THEN <<ReplayOf(c)[i]>> ELSE <<>>]
<1>3. ReplayWrites(c) = FlattenSeq(s)
    BY DEF ReplayWrites, CompletedIdx, ReplayOf
<1>4. Selects(s, ReplayOf(c), CompletedIdx(c), Len(store[c].next), Batches)
    <2>1. CompletedIdx(c) \subseteq PlanIdx(c)
        BY DEF CompletedIdx
    <2>2. QED
        BY <1>1, <1>2, <2>1 DEF Selects
<1> HIDE DEF s
<1>5. QED
    BY <1>3, <1>4, SelectionFacts, SelectionInOrder

LEMMA RestoreFacts ==
    ASSUME Saver, NEW c \in DOMAIN store
    PROVE /\ RestoredTasks(c) \in Seq(TaskRecs)
          /\ Elements(RestoredTasks(c)) = {RestoreOf(c)[i] : i \in OpenIdx(c)}
          /\ InOrder(RestoredTasks(c), RestoreOf(c), OpenIdx(c))
<1>1. Len(store[c].next) \in Nat /\ PlanIdx(c) = 1 .. Len(store[c].next)
    BY PlanFacts
<1>2. ASSUME NEW i \in PlanIdx(c) PROVE RestoreOf(c)[i] \in TaskRecs
    <2>1. FailedTask(c, i) \in BOOLEAN
        BY DEF FailedTask
    <2>2. QED
        BY <2>1, PlanFacts DEF RestoreOf, TaskRecs
<1> DEFINE s == [i \in PlanIdx(c) |-> IF i \in OpenIdx(c) THEN <<RestoreOf(c)[i]>> ELSE <<>>]
<1>3. RestoredTasks(c) = FlattenSeq(s)
    BY DEF RestoredTasks, Chosen, OpenIdx, RestoreOf
<1>4. Selects(s, RestoreOf(c), OpenIdx(c), Len(store[c].next), TaskRecs)
    <2>1. OpenIdx(c) \subseteq PlanIdx(c)
        BY DEF OpenIdx
    <2>2. QED
        BY <1>1, <1>2, <2>1 DEF Selects
<1> HIDE DEF s
<1>5. QED
    BY <1>3, <1>4, SelectionFacts, SelectionInOrder

\* The destinations completed tasks sent to are planned again, as new tasks.
LEMMA ReplaySendFacts ==
    ASSUME Saver, NEW c \in DOMAIN store
    PROVE /\ ReplaySends(c) \in Seq(TaskRecs)
          /\ \A t \in Elements(ReplaySends(c)) :
                \E i \in CompletedIdx(c) : \E k \in DOMAIN DoneWrite(c, i).sends : t = NewTask(DoneWrite(c, i).sends[k])
          /\ \A i \in CompletedIdx(c) : \A k \in DOMAIN DoneWrite(c, i).sends :
                NewTask(DoneWrite(c, i).sends[k]) \in Elements(ReplaySends(c))
<1> DEFINE f(i) == NewTasks(DoneWrite(c, i).sends)
           s == [i \in PlanIdx(c) |-> IF Completed(c, i) THEN f(i) ELSE <<>>]
<1>1. Len(store[c].next) \in Nat /\ PlanIdx(c) = 1 .. Len(store[c].next)
    BY PlanFacts
<1>2. ASSUME NEW i \in PlanIdx(c), Completed(c, i)
      PROVE /\ f(i) \in Seq(TaskRecs) /\ DOMAIN f(i) = DOMAIN DoneWrite(c, i).sends
            /\ \A k \in DOMAIN f(i) : k \in DOMAIN DoneWrite(c, i).sends /\ f(i)[k] = NewTask(DoneWrite(c, i).sends[k])
    BY <1>2, DoneFacts, NewTaskFacts
<1>3. \A i \in PlanIdx(c) : s[i] = IF Completed(c, i) THEN f(i) ELSE <<>>
    OBVIOUS
<1>4. <<>> \in Seq(TaskRecs) /\ Elements(<<>>) = {}
    BY DEF Elements
<1> HIDE DEF f, TaskRecs
<1>5. s \in Seq(Seq(TaskRecs)) /\ Len(s) = Len(store[c].next)
    BY <1>1, <1>2, <1>4
<1>6. ReplaySends(c) = FlattenSeq(s)
    BY DEF ReplaySends, f
<1> HIDE DEF s
<1>7. ReplaySends(c) \in Seq(TaskRecs) /\ Elements(ReplaySends(c)) = Flat(s, Len(s))
    BY <1>5, <1>6, FlattenFacts
<1>8. ASSUME NEW t \in Flat(s, Len(s))
      PROVE \E i \in CompletedIdx(c) : \E k \in DOMAIN DoneWrite(c, i).sends : t = NewTask(DoneWrite(c, i).sends[k])
    <2>1. PICK i \in PlanIdx(c) : t \in Elements(s[i])
        BY <1>1, <1>5 DEF Flat
    <2>2. Completed(c, i) /\ t \in Elements(f(i))
        BY <1>3, <1>4, <2>1
    <2>3. PICK k \in DOMAIN f(i) : t = f(i)[k]
        BY <2>2 DEF Elements
    <2>4. i \in CompletedIdx(c)
        BY <2>1, <2>2 DEF CompletedIdx
    <2>5. QED
        BY <1>2, <2>2, <2>3, <2>4
<1>9. ASSUME NEW i \in CompletedIdx(c), NEW k \in DOMAIN DoneWrite(c, i).sends
      PROVE NewTask(DoneWrite(c, i).sends[k]) \in Flat(s, Len(s))
    <2>1. i \in PlanIdx(c) /\ Completed(c, i)
        BY DEF CompletedIdx
    <2>2. NewTask(DoneWrite(c, i).sends[k]) \in Elements(s[i])
        BY <1>2, <1>3, <2>1 DEF Elements
    <2>3. QED
        BY <1>1, <1>5, <2>1, <2>2 DEF Flat
<1>10. QED
    BY <1>7, <1>8, <1>9

\* One answer more, given to the question behind the ones answered.
LEMMA HeardMore ==
    ASSUME NEW n \in Nat, NEW q \in Heard(n)
    PROVE q \o <<[call |-> n + 1, to |-> Len(q) + 1]>> \in Heard(n + 1) /\ q \o <<>> \in Heard(n)
<1> DEFINE more == [call |-> n + 1, to |-> Len(q) + 1]
           r == q \o <<more>>
<1>1. q \in Seq(Answers) /\ Len(q) \in Nat /\ DOMAIN q = 1 .. Len(q) /\ Aligned(q)
      /\ \A x \in DOMAIN q : q[x].call <= n /\ q[x].call \in Nat
    <2>1. q \in Seq(Answers) /\ Aligned(q) /\ \A x \in DOMAIN q : q[x].call <= n
        BY DEF Heard, AnswerSeqs
    <2>2. \A x \in DOMAIN q : q[x] \in Answers
        BY <2>1
    <2>3. QED
        BY <2>1, <2>2 DEF Answers
<1>2. more \in Answers /\ more.call = n + 1 /\ more.to = Len(q) + 1
    BY <1>1 DEF Answers
<1> HIDE DEF more
<1>3. r \in Seq(Answers) /\ Len(r) = Len(q) + 1 /\ DOMAIN r = 1 .. Len(q) + 1
      /\ r[Len(q) + 1] = more /\ \A x \in DOMAIN q : r[x] = q[x]
    BY <1>1, <1>2
<1> HIDE DEF r
<1>4. ASSUME NEW x \in DOMAIN r
      PROVE r[x].call <= n + 1 /\ r[x].to = x /\ \A y \in x + 1 .. Len(r) : r[x].call < r[y].call
    <2>1. CASE x = Len(q) + 1
        BY <1>1, <1>2, <1>3, <2>1
    <2>2. CASE x \in DOMAIN q
        <3>1. r[x].to = x /\ r[x].call <= n /\ r[x].call \in Nat
            BY <1>1, <1>3, <2>2 DEF Aligned
        <3>2. ASSUME NEW y \in x + 1 .. Len(r) PROVE r[x].call < r[y].call
            <4>1. CASE y = Len(q) + 1
                BY <1>2, <1>3, <3>1, <4>1
            <4>2. CASE y # Len(q) + 1
                <5>1. y \in DOMAIN q /\ y \in x + 1 .. Len(q)
                    BY <1>1, <1>3, <2>2, <4>2
                <5>2. QED
                    BY <1>1, <1>3, <2>2, <5>1 DEF Aligned
            <4>3. QED
                BY <4>1, <4>2
        <3>3. QED
            BY <3>1, <3>2
    <2>3. QED
        BY <1>1, <1>3, <2>1, <2>2
<1>5. q \o <<>> = q
    BY <1>1
<1>6. Aligned(r)
    BY <1>4 DEF Aligned
<1>7. r \in Heard(n + 1)
    BY <1>3, <1>4, <1>6 DEF Heard, AnswerSeqs
<1>8. QED
    BY <1>5, <1>7 DEF r, more

\* The answers a resumed task is handed.
LEMMA QueueFacts ==
    ASSUME Saver, calls \in Nat, NEW c \in DOMAIN store, NEW a, a \subseteq AskIds(c)
    PROVE /\ AskIds(c) \subseteq RealIDs /\ DOMAIN ResumeQueues(c, a) = AskIds(c)
          /\ \A id \in AskIds(c) : ResumeQueues(c, a)[id] \in Heard(IF a = {} THEN calls ELSE calls + 1)
          /\ \A id \in a : ResumeQueues(c, a)[id] # <<>> /\ Last(ResumeQueues(c, a)[id]).call = calls + 1
<1>1. AskIds(c) \subseteq RealIDs
    BY PlanFacts DEF AskIds
<1>2. DOMAIN ResumeQueues(c, a) = AskIds(c)
    BY DEF ResumeQueues
<1>3. ASSUME NEW id \in AskIds(c)
      PROVE /\ ResumeQueues(c, a)[id] \in Heard(IF a = {} THEN calls ELSE calls + 1)
            /\ id \in a => /\ ResumeQueues(c, a)[id] # <<>>
                          /\ Last(ResumeQueues(c, a)[id]).call = calls + 1
    <2> DEFINE i == AskingTask(c, id)
               r == AskedBy(c, i)
               more == Answer(c, i)
    <2>1. PICK j \in PlanIdx(c) : Asked(c, j) /\ store[c].next[j].id = id
        BY DEF AskIds
    <2>2. i \in PlanIdx(c) /\ store[c].next[i].id = id
        BY <2>1 DEF AskingTask
    <2>3. Asked(c, i)
        BY <2>1, <2>2 DEF Asked, TaskWrites
    <2>4. r \in TaskWrites(c, i, "ask")
        BY <2>3 DEF Asked, AskedBy
    <2>5. r.pre \in Heard(calls) /\ r \in WriteRecs
        BY <2>4, ReadFacts DEF TaskWrites
    <2>6. ConsumedPrefix(c, i) = r.pre /\ more = [call |-> calls + 1, to |-> Len(r.pre) + 1]
        BY <2>5 DEF ConsumedPrefix, Answer, WriteRecs
    <2>7. ResumeQueues(c, a)[id] = ConsumedPrefix(c, i) \o (IF id \in a THEN <<more>> ELSE <<>>)
        BY DEF ResumeQueues
    <2> HIDE DEF i, r, more
    <2>8. r.pre \o <<more>> \in Heard(calls + 1) /\ r.pre \o <<>> \in Heard(calls)
        BY <2>5, <2>6, HeardMore
    <2>9. Heard(calls) \subseteq Heard(calls + 1)
        BY HeardGrows
    <2>10. r.pre \o <<more>> # <<>> /\ Last(r.pre \o <<more>>) = more
        <3>1. r.pre \in Seq(Answers)
            BY <2>5 DEF Heard, AnswerSeqs
        <3>2. Len(r.pre \o <<more>>) = Len(r.pre) + 1 /\ (r.pre \o <<more>>)[Len(r.pre) + 1] = more
            BY <3>1
        <3>3. QED
            BY <3>1, <3>2 DEF Last
    <2>11. ResumeQueues(c, a)[id] \in Heard(IF a = {} THEN calls ELSE calls + 1)
        BY <2>6, <2>7, <2>8, <2>9
    <2>12. QED
        BY <2>6, <2>7, <2>10, <2>11
<1>4. QED
    BY <1>1, <1>2, <1>3

\* The node a resume is let past its breakpoint.
LEMMA SkipFacts ==
    ASSUME Saver, NEW c \in DOMAIN store PROVE resumeSkipNode(c) \subseteq Nodes
<1> SUFFICES ASSUME NEW r \in store[c].w, r.kind = "before" PROVE r.id.node \in Nodes
    BY DEF resumeSkipNode
<1>1. r \in WriteRecs
    BY ReadFacts
<1>2. r.id \in Boundaries
    BY <1>1 DEF WriteRecs
<1>3. QED
    BY <1>2 DEF Boundaries, BoundaryId
-----------------------------------------------------------------------------
(* The parts of a superstep.                                                *)

\* Where a run stands.
LEMMA CurFacts ==
    ASSUME Saver, Run, phase # "idle"
    PROVE /\ graph \in Graphs /\ lastId \in Nat /\ MaxIds \in Nat /\ cur \in 1 .. lastId /\ cur \in 1 .. MaxIds
          /\ st \in States /\ st.step \in Int /\ st.step + 1 \in 0 .. cur - 1 /\ st.step + 1 \in 0 .. MaxIds
          /\ tasks \in Seq(TaskRecs)
<1>1. lastId \in 0 .. MaxIds /\ MaxIds \in Nat /\ graph \in Graphs
    BY Shape DEF Saver, GraphShape
<1>2. PICK p \in Saved : p[1] = cur
    BY DEF Run
<1>3. cur \in 1 .. lastId
    BY <1>2 DEF Saver
<1>4. st \in States /\ st.step \in -1 .. cur - 2 /\ tasks \in Seq(TaskRecs)
    BY DEF Run
<1>5. cur \in 1 .. MaxIds
    BY <1>1, <1>3
<1>6. st.step \in Int /\ st.step + 1 \in 0 .. cur - 1
    BY <1>1, <1>3, <1>4
<1>7. st.step + 1 \in 0 .. MaxIds
    BY <1>1, <1>5, <1>6
<1>8. QED
    BY <1>1, <1>3, <1>4, <1>5, <1>6, <1>7

\* The writes of pauses and failures.
LEMMA ReservedFacts ==
    ASSUME graph \in Graphs
    PROVE /\ \A id \in RealIDs, q \in AnswerSeqs : Reserved(id, "ask", q) \in WriteRecs /\ Reserved(id, "err", q) \in WriteRecs
          /\ \A n \in Nodes : /\ Reserved(BoundaryId(n), "before", <<>>) \in WriteRecs
                              /\ Reserved(BoundaryId(n), "after", <<>>) \in WriteRecs
          /\ \A m \in Nat : <<>> \in Heard(m)
<1>1. \A id \in RealIDs : id \notin Boundaries
    <2> SUFFICES ASSUME NEW id \in RealIDs, NEW n \in Nodes, id = BoundaryId(n) PROVE FALSE
        BY DEF Boundaries
    <2>1. id.cp \in 1 .. MaxIds /\ id.cp = -1
        BY DEF RealIDs, BoundaryId
    <2>2. MaxIds \in Nat
        BY Shape DEF GraphShape
    <2>3. QED
        BY <2>1, <2>2
<1>2. <<>> \in Seq(Tokens) /\ <<>> \in Seq(Dests) /\ <<>> \in Seq(Answers) /\ Len(<<>>) + 1 \in Nat
    OBVIOUS
<1>3. <<>> \in AnswerSeqs /\ \A m \in Nat : <<>> \in Heard(m)
    BY <1>2 DEF AnswerSeqs, Heard, Aligned
<1>4. \A n \in Nodes : BoundaryId(n) \in Boundaries
    BY DEF Boundaries
<1>8. \A q \in AnswerSeqs : Len(q) + 1 \in Nat
    BY DEF AnswerSeqs
<1> HIDE DEF Tokens, Dests, AnswerSeqs, BoundaryId
<1>5. \A id \in RealIDs, q \in AnswerSeqs : Reserved(id, "ask", q) \in WriteRecs /\ Reserved(id, "err", q) \in WriteRecs
    BY <1>1, <1>2, <1>8 DEF Reserved, Pending, WriteRecs
<1>6. \A n \in Nodes : /\ Reserved(BoundaryId(n), "before", <<>>) \in WriteRecs
                       /\ Reserved(BoundaryId(n), "after", <<>>) \in WriteRecs
    BY <1>2, <1>3, <1>4 DEF Reserved, Pending, WriteRecs
<1>7. QED
    BY <1>3, <1>5, <1>6

\* A superstep whose outcomes are in.
LEMMA OutFacts ==
    ASSUME Base, phase = "tasks", NEW i \in DOMAIN outs
    PROVE /\ i \in DOMAIN tasks /\ tasks[i] \in TaskRecs /\ tasks[i].node \in Nodes
          /\ outs[i] \in Outs /\ OutOK(outs[i], tasks[i], calls)
          /\ outs[i].sends \in Seq(Dests) /\ outs[i].route \in Seq(Dests) /\ outs[i].tok \in Seq(Tokens)
          /\ outs[i].pre \in Heard(calls) /\ outs[i].pre \in AnswerSeqs
          /\ outs[i].s \in {"run", "handler", "ask", "done", "err"}
<1>1. i \in DOMAIN tasks /\ tasks[i].node \in Nodes /\ OutOK(outs[i], tasks[i], calls)
    BY DEF Base, Superstep
<1>2. tasks[i] \in TaskRecs
    <2>1. tasks \in Seq(TaskRecs)
        BY DEF Base, Run
    <2> HIDE DEF TaskRecs
    <2>2. QED
        BY <1>1, <2>1
<1>3. outs[i] \in Outs /\ outs[i].pre \in Heard(calls)
    BY <1>1 DEF OutOK
<1>4. QED
    BY <1>1, <1>2, <1>3 DEF Outs, Heard

\* The work of a completed task, as it is written down.
LEMMA CompletedFacts ==
    ASSUME Base, phase = "tasks", NEW i \in DOMAIN outs, outs[i].s = "done",
           NEW id \in RealIDs, id.node = tasks[i].node, id.arg = tasks[i].arg
    PROVE CompletedWrites(i, id) \in WriteRecs
<1>1. WorkOf(id, outs[i].tok)
    BY OutFacts DEF OutOK, WorkOf
<1>2. outs[i].tok \in Seq(Tokens) /\ outs[i].sends \in Seq(Dests) /\ ArrivesAt(tasks[i].node) \subseteq JoinIdx
    BY OutFacts DEF ArrivesAt
<1>3. graph \in Graphs
    BY DEF Base, Saver
<1>4. <<>> \in AnswerSeqs /\ Len(<<>>) + 1 \in Nat
    <2>1. <<>> \in AnswerSeqs
        BY <1>3, ReservedFacts DEF Heard
    <2>2. Len(<<>>) = 0
        OBVIOUS
    <2>3. QED
        BY <2>1, <2>2
<1>5. id \notin Boundaries
    <2> SUFFICES ASSUME NEW n \in Nodes, id = BoundaryId(n) PROVE FALSE
        BY DEF Boundaries
    <2>1. id.cp \in 1 .. MaxIds /\ id.cp = -1
        BY DEF RealIDs, BoundaryId
    <2>2. MaxIds \in Nat
        BY <1>3, Shape DEF GraphShape
    <2>3. QED
        BY <2>1, <2>2
<1> HIDE DEF AnswerSeqs
<1>6. QED
    BY <1>1, <1>2, <1>4, <1>5 DEF CompletedWrites, Pending, WriteRecs

\* Every task of a superstep is active.
LEMMA AllActive ==
    ASSUME Base, phase = "tasks"
    PROVE Active(tasks) = tasks
<1>1. tasks \in Seq(TaskRecs) /\ \A i \in DOMAIN tasks : tasks[i].node # END
    BY Shape DEF Base, Saver, Run, Superstep, GraphShape
<1> HIDE DEF TaskRecs
<1> DEFINE s == [i \in 1 .. Len(tasks) |-> <<tasks[i]>>]
<1>2. Active(tasks) = FlattenSeq(s)
    <2>1. DOMAIN tasks = 1 .. Len(tasks)
        BY <1>1
    <2>2. [i \in DOMAIN tasks |-> IF i \in {k \in DOMAIN tasks : tasks[k].node # END} THEN <<tasks[i]>> ELSE <<>>] = s
        BY <1>1, <2>1
    <2> HIDE DEF s
    <2>3. QED
        BY <2>2 DEF Active, Chosen
<1>3. s = [i \in 1 .. Len(tasks) |-> <<tasks[i]>>]
    OBVIOUS
<1> HIDE DEF s
<1>4. FlattenSeq(s) = tasks
    BY <1>1, <1>3, FlattenSingles
<1>5. QED
    BY <1>2, <1>4

\* The plan of a pause names the tasks of the superstep, one by one.
Dispatched(next) ==
    /\ next \in Plans /\ DOMAIN next = DOMAIN outs /\ DOMAIN outs = DOMAIN tasks
    /\ Len(outs) \in Nat /\ DOMAIN outs = 1 .. Len(outs)
    /\ \A i \in DOMAIN outs : /\ next[i].id = plannedID(tasks[i], cur, st.step + 1) /\ next[i].id \in RealIDs
                              /\ next[i].id.node = tasks[i].node /\ next[i].id.arg = tasks[i].arg
                              /\ next[i].node = tasks[i].node /\ next[i].arg = tasks[i].arg
LEMMA DispatchedFacts ==
    ASSUME Base, phase = "tasks"
    PROVE Dispatched(StampDispatchIDs(tasks, cur, st.step + 1))
<1> DEFINE next == StampDispatchIDs(tasks, cur, st.step + 1)
<1>1. next \in Plans
    BY CurFacts, StampFacts DEF Base
<1>2. next = [i \in DOMAIN tasks |-> [node |-> tasks[i].node, arg |-> tasks[i].arg,
                                      id |-> plannedID(tasks[i], cur, st.step + 1)]]
    BY AllActive DEF StampDispatchIDs
<1>3. DOMAIN outs = DOMAIN tasks /\ outs \in Seq(Outs)
    BY DEF Base, Superstep
<1>4. Len(outs) \in Nat /\ DOMAIN outs = 1 .. Len(outs)
    BY <1>3
<1>5. ASSUME NEW i \in DOMAIN outs
      PROVE /\ plannedID(tasks[i], cur, st.step + 1) \in RealIDs
            /\ plannedID(tasks[i], cur, st.step + 1).node = tasks[i].node
            /\ plannedID(tasks[i], cur, st.step + 1).arg = tasks[i].arg
    <2>1. tasks[i] \in TaskRecs /\ tasks[i].node \in Nodes
        BY OutFacts
    <2>2. QED
        BY <2>1, CurFacts, PlannedIDFacts DEF Base
<1> HIDE DEF Plans
<1>6. QED
    BY <1>1, <1>2, <1>3, <1>4, <1>5 DEF Dispatched

\* What a pause writes.
Paused(next, ws) ==
    /\ ws \in Seq(WriteRecs)
    /\ \A r \in Elements(ws) : \E i \in DOMAIN outs :
          \/ r = Reserved(next[i].id, "err", <<>>) /\ outs[i].nodeErr
          \/ r = Reserved(next[i].id, "ask", outs[i].pre) /\ outs[i].s = "ask"
          \/ r = CompletedWrites(i, next[i].id) /\ outs[i].s = "done"
LEMMA PauseFacts ==
    ASSUME Base, phase = "tasks", NEW next, Dispatched(next), \A i \in DOMAIN outs : outs[i].s \in {"ask", "done"}
    PROVE Paused(next, FlattenSeq([i \in DOMAIN outs |-> PauseWrites(next, i)]))
<1> DEFINE s == [i \in DOMAIN outs |-> PauseWrites(next, i)]
           e(i) == Reserved(next[i].id, "err", <<>>)
           a(i) == Reserved(next[i].id, "ask", outs[i].pre)
           d(i) == CompletedWrites(i, next[i].id)
           first(i) == IF outs[i].nodeErr THEN <<e(i)>> ELSE <<>>
           second(i) == IF outs[i].s = "ask" THEN <<a(i)>> ELSE <<d(i)>>
<1>1. Len(outs) \in Nat /\ DOMAIN outs = 1 .. Len(outs) /\ graph \in Graphs
    BY DEF Dispatched, Base, Saver
<1>2. ASSUME NEW i \in DOMAIN outs
      PROVE e(i) \in WriteRecs /\ a(i) \in WriteRecs /\ (outs[i].s = "done" => d(i) \in WriteRecs)
    <2>1. next[i].id \in RealIDs /\ next[i].id.node = tasks[i].node /\ next[i].id.arg = tasks[i].arg
        BY DEF Dispatched
    <2>2. outs[i].pre \in AnswerSeqs /\ <<>> \in AnswerSeqs
        BY <1>1, OutFacts, ReservedFacts DEF Heard
    <2>3. QED
        BY <1>1, <2>1, <2>2, ReservedFacts, CompletedFacts
<1>3. ASSUME NEW i \in DOMAIN outs
      PROVE /\ s[i] \in Seq(WriteRecs)
            /\ \A r \in Elements(s[i]) : \/ r = e(i) /\ outs[i].nodeErr
                                         \/ r = a(i) /\ outs[i].s = "ask"
                                         \/ r = d(i) /\ outs[i].s = "done"
    <2>1. s[i] = first(i) \o second(i)
        BY DEF PauseWrites
    <2>2. outs[i].s = "ask" \/ outs[i].s = "done"
        OBVIOUS
    <2>3. e(i) \in WriteRecs /\ a(i) \in WriteRecs /\ (outs[i].s = "done" => d(i) \in WriteRecs)
        BY <1>2
    <2> HIDE DEF e, a, d, s, WriteRecs
    <2>4. first(i) \in Seq(WriteRecs) /\ second(i) \in Seq(WriteRecs)
        BY <2>2, <2>3
    <2>5. \A r \in Elements(first(i)) : r = e(i) /\ outs[i].nodeErr
        BY DEF Elements
    <2>6. \A r \in Elements(second(i)) : (r = a(i) /\ outs[i].s = "ask") \/ (r = d(i) /\ outs[i].s = "done")
        BY <2>2 DEF Elements
    <2> HIDE DEF first, second
    <2>7. Elements(s[i]) = Elements(first(i)) \cup Elements(second(i)) /\ s[i] \in Seq(WriteRecs)
        BY <2>1, <2>4, ConcatElements
    <2>8. QED
        BY <2>5, <2>6, <2>7
<1>4. \A i \in DOMAIN outs : PauseWrites(next, i) \in Seq(WriteRecs)
    BY <1>3
<1> HIDE DEF e, a, d, first, second, WriteRecs
<1>5. s \in Seq(Seq(WriteRecs)) /\ Len(s) = Len(outs)
    BY <1>1, <1>4
<1> HIDE DEF s
<1>6. FlattenSeq(s) \in Seq(WriteRecs) /\ Elements(FlattenSeq(s)) = Flat(s, Len(s))
    BY <1>5, FlattenFacts
<1>7. ASSUME NEW r \in Flat(s, Len(s))
      PROVE \E i \in DOMAIN outs : \/ r = e(i) /\ outs[i].nodeErr
                                   \/ r = a(i) /\ outs[i].s = "ask"
                                   \/ r = d(i) /\ outs[i].s = "done"
    <2>1. PICK i \in DOMAIN outs : r \in Elements(s[i])
        BY <1>1, <1>5 DEF Flat
    <2>2. QED
        BY <1>3, <2>1
<1>8. Paused(next, FlattenSeq(s))
    BY <1>6, <1>7 DEF Paused, e, a, d
<1>9. QED
    BY <1>8 DEF s

\* What an abort writes.
LEMMA AbortFacts ==
    ASSUME Base, phase = "tasks", NEW next, Dispatched(next), NEW failed, failed \subseteq DOMAIN outs
    PROVE LET ws == Chosen([i \in DOMAIN outs |-> Reserved(next[i].id, "err", <<>>)], failed) IN
          ws \in Seq(WriteRecs) /\ Elements(ws) = {Reserved(next[i].id, "err", <<>>) : i \in failed}
<1> DEFINE f == [i \in DOMAIN outs |-> Reserved(next[i].id, "err", <<>>)]
           s == [i \in 1 .. Len(outs) |-> IF i \in failed THEN <<f[i]>> ELSE <<>>]
<1>1. Len(outs) \in Nat /\ DOMAIN outs = 1 .. Len(outs) /\ graph \in Graphs
    BY DEF Dispatched, Base, Saver
<1>2. \A i \in DOMAIN outs : f[i] \in WriteRecs /\ f[i] = Reserved(next[i].id, "err", <<>>)
    BY <1>1, ReservedFacts DEF Dispatched, Heard
<1>3. Selects(s, f, failed, Len(outs), WriteRecs)
    BY <1>1, <1>2 DEF Selects
<1>4. Chosen(f, failed) = FlattenSeq(s)
    BY <1>1 DEF Chosen
<1> HIDE DEF s, f
<1>5. FlattenSeq(s) \in Seq(WriteRecs) /\ Elements(FlattenSeq(s)) = {f[i] : i \in failed}
    BY <1>3, SelectionFacts
<1>6. {f[i] : i \in failed} = {Reserved(next[i].id, "err", <<>>) : i \in failed}
    BY <1>2
<1>7. QED
    BY <1>4, <1>5, <1>6 DEF f

\* The batches of a commit.
CommitBatches == [i \in DOMAIN outs |-> Write(tasks[i].node, outs[i].tok, ArrivesAt(tasks[i].node))]
Ran == {tasks[i].node : i \in DOMAIN tasks}
AllDone == \A i \in DOMAIN outs : outs[i].s = "done"

LEMMA BatchFacts ==
    ASSUME Base, phase = "tasks", AllDone PROVE CommitBatches \in Seq(Batches)
<1>1. Len(outs) \in Nat /\ DOMAIN outs = 1 .. Len(outs)
    <2>1. outs \in Seq(Outs)
        BY DEF Base, Superstep
    <2>2. QED
        BY <2>1
<1>2. ASSUME NEW i \in DOMAIN outs
      PROVE Write(tasks[i].node, outs[i].tok, ArrivesAt(tasks[i].node)) \in Batches
    <2>1. tasks[i].node \in Nodes /\ outs[i].tok \in Seq(Tokens) /\ Work(tasks[i].node, outs[i].tok)
        BY OutFacts DEF AllDone, OutOK, WorkOf
    <2>2. ArrivesAt(tasks[i].node) \subseteq JoinIdx
        BY DEF ArrivesAt
    <2>3. QED
        BY <2>1, <2>2 DEF Write, Batches
<1> HIDE DEF Batches
<1>3. QED
    BY <1>1, <1>2 DEF CommitBatches

\* The state a commit leaves, from the state a with the batches applied.
Commits(a, s) ==
    /\ a \in States /\ Applied(st, CommitBatches, a)
    /\ s \in States /\ s.log = a.log /\ s.step = st.step + 1 /\ s.ver = a.ver
    /\ \A j \in JoinIdx : s.bar[j] =
          IF Joins[j].child \in Ran /\ a.seen[Joins[j].child][j] >= a.ver[j] /\ a.bar[j] = Joins[j].parents
          THEN {} ELSE a.bar[j]
    /\ \A n \in Nodes : \A k \in Channels : s.seen[n][k] =
          IF k \in Triggered(Committed) /\ Joins[k].child = n THEN a.ver[k] ELSE a.seen[n][k]
    /\ Triggered(Committed) \subseteq JoinIdx
    /\ \A j \in JoinIdx : j \in Triggered(Committed) <=>
          s.bar[j] = Joins[j].parents /\ a.seen[Joins[j].child][j] < a.ver[j]
LEMMA CommitFacts ==
    ASSUME Base, phase = "tasks", AllDone
    PROVE Commits(applyWrites(st, CommitBatches), MarkSeen(Committed)) /\ Committed \in States
<1> DEFINE a == applyWrites(st, CommitBatches)
           b == [a EXCEPT !.step = @ + 1]
<1>1. graph \in Graphs /\ st \in States
    BY DEF Base, Saver, Run
<1>2. Applied(st, CommitBatches, a)
    BY <1>1, BatchFacts, ApplyFacts
<1>3. a \in States /\ a.step = st.step /\ st.step \in Int
    BY <1>1, <1>2 DEF Applied, States
<1>4. Committed = Consume(b, Ran)
    BY DEF Committed, CommitBatches, Ran
<1> HIDE DEF a
<1>5. /\ b \in States /\ b.step = st.step + 1
      /\ b.log = a.log /\ b.ver = a.ver /\ b.seen = a.seen /\ b.bar = a.bar
    <2> DEFINE n == a.step + 1
    <2>1. n \in Int /\ n = st.step + 1 /\ b = [a EXCEPT !.step = n]
        BY <1>3
    <2> HIDE DEF n, b
    <2>2. QED
        BY <1>3, <2>1 DEF States
<1> HIDE DEF b
<1> DEFINE c == Committed
<1>6. /\ c \in States /\ c.log = b.log /\ c.step = b.step /\ c.ver = b.ver /\ c.seen = b.seen
      /\ \A j \in JoinIdx : c.bar[j] =
            IF Joins[j].child \in Ran /\ b.seen[Joins[j].child][j] >= b.ver[j] /\ Full(b, j) THEN {} ELSE b.bar[j]
    BY <1>1, <1>4, <1>5, ConsumeFacts
<1>7. /\ MarkSeen(c) \in States /\ MarkSeen(c).log = c.log /\ MarkSeen(c).step = c.step
      /\ MarkSeen(c).ver = c.ver /\ MarkSeen(c).bar = c.bar
      /\ \A n \in Nodes : \A k \in Channels : MarkSeen(c).seen[n][k] =
            IF k \in Triggered(c) /\ Joins[k].child = n THEN c.ver[k] ELSE c.seen[n][k]
    BY <1>1, <1>6, MarkSeenFacts
<1> HIDE DEF c
<1>8. \A j \in JoinIdx : Full(b, j) <=> a.bar[j] = Joins[j].parents
    BY <1>5 DEF Full
<1>9. Triggered(c) \subseteq JoinIdx /\ \A j \in JoinIdx : j \in Triggered(c) <=>
          c.bar[j] = Joins[j].parents /\ c.seen[Joins[j].child][j] < c.ver[j]
    BY DEF Triggered, Full
<1>10. Commits(a, MarkSeen(c))
    <2>1. \A j \in JoinIdx : MarkSeen(c).bar[j] =
          IF Joins[j].child \in Ran /\ a.seen[Joins[j].child][j] >= a.ver[j] /\ a.bar[j] = Joins[j].parents
          THEN {} ELSE a.bar[j]
        BY <1>5, <1>6, <1>7, <1>8
    <2>2. \A n \in Nodes : \A k \in Channels : MarkSeen(c).seen[n][k] =
          IF k \in Triggered(c) /\ Joins[k].child = n THEN a.ver[k] ELSE a.seen[n][k]
        BY <1>5, <1>6, <1>7
    <2>3. \A j \in JoinIdx : j \in Triggered(c) <=>
          MarkSeen(c).bar[j] = Joins[j].parents /\ a.seen[Joins[j].child][j] < a.ver[j]
        BY <1>5, <1>6, <1>7, <1>9
    <2>4. /\ MarkSeen(c) \in States /\ MarkSeen(c).log = a.log /\ MarkSeen(c).step = st.step + 1 /\ MarkSeen(c).ver = a.ver
        BY <1>5, <1>6, <1>7
    <2> HIDE DEF MarkSeen, Triggered
    <2>5. QED
        BY <1>2, <1>3, <1>9, <2>1, <2>2, <2>3, <2>4 DEF Commits, c
<1>11. QED
    BY <1>6, <1>10 DEF a, c

\* The tasks of triggered joins.
LEMMA TriggeredFacts ==
    ASSUME graph \in Graphs, NEW s
    PROVE /\ TriggeredTasks(s) \in Seq(TaskRecs)
          /\ Elements(TriggeredTasks(s)) = {NewTask(To(Joins[j].child)) : j \in Triggered(s)}
          /\ InOrder(TriggeredTasks(s), [j \in JoinIdx |-> NewTask(To(Joins[j].child))], Triggered(s))
<1> DEFINE f == [j \in JoinIdx |-> NewTask(To(Joins[j].child))]
           q == [j \in 1 .. Len(Joins) |-> IF j \in Triggered(s) THEN <<f[j]>> ELSE <<>>]
<1>1. /\ Len(Joins) \in Nat /\ JoinIdx = 1 .. Len(Joins)
      /\ \A j \in JoinIdx : Joins[j].child \in Nodes
    BY Shape DEF GraphShape
<1>2. \A j \in JoinIdx : f[j] \in TaskRecs /\ f[j] = NewTask(To(Joins[j].child))
    BY <1>1 DEF NewTask, To, TaskRecs
<1>3. Triggered(s) \subseteq JoinIdx
    BY DEF Triggered
<1>4. Selects(q, f, Triggered(s), Len(Joins), TaskRecs)
    <2> HIDE DEF f
    <2>1. QED
        BY <1>1, <1>2, <1>3 DEF Selects
<1>5. TriggeredTasks(s) = FlattenSeq(q)
    BY <1>1 DEF TriggeredTasks, Chosen
<1> HIDE DEF q
<1>6. /\ FlattenSeq(q) \in Seq(TaskRecs) /\ Elements(FlattenSeq(q)) = {f[j] : j \in Triggered(s)}
      /\ InOrder(FlattenSeq(q), f, Triggered(s))
    BY <1>4, SelectionFacts, SelectionInOrder
<1>7. {f[j] : j \in Triggered(s)} = {NewTask(To(Joins[j].child)) : j \in Triggered(s)}
    BY <1>2, <1>3
<1>8. QED
    BY <1>5, <1>6, <1>7

\* The tasks routed to by the superstep.
Chosens(i) == IF outs[i].sends # <<>> THEN outs[i].sends ELSE outs[i].route
RoutedTasks == FlattenSeq([i \in DOMAIN outs |-> NewTasks(Chosens(i))])
LEMMA RoutedFacts ==
    ASSUME Base, phase = "tasks"
    PROVE /\ RoutedTasks \in Seq(TaskRecs)
          /\ \A t \in Elements(RoutedTasks) : \E i \in DOMAIN outs : \E k \in DOMAIN Chosens(i) : t = NewTask(Chosens(i)[k])
          /\ \A i \in DOMAIN outs : \A k \in DOMAIN Chosens(i) : NewTask(Chosens(i)[k]) \in Elements(RoutedTasks)
<1> DEFINE f(i) == NewTasks(Chosens(i))
           s == [i \in DOMAIN outs |-> f(i)]
<1>1. Len(outs) \in Nat /\ DOMAIN outs = 1 .. Len(outs)
    <2>1. outs \in Seq(Outs)
        BY DEF Base, Superstep
    <2>2. QED
        BY <2>1
<1>2. ASSUME NEW i \in DOMAIN outs
      PROVE /\ f(i) \in Seq(TaskRecs) /\ DOMAIN f(i) = DOMAIN Chosens(i)
            /\ \A k \in DOMAIN f(i) : k \in DOMAIN Chosens(i) /\ f(i)[k] = NewTask(Chosens(i)[k])
    <2>1. Chosens(i) \in Seq(Dests)
        BY OutFacts DEF Chosens
    <2> HIDE DEF Chosens
    <2>2. QED
        BY <2>1, NewTaskFacts
<1>3. \A i \in DOMAIN outs : s[i] = f(i)
    OBVIOUS
<1> HIDE DEF f, TaskRecs
<1>4. s \in Seq(Seq(TaskRecs)) /\ Len(s) = Len(outs)
    BY <1>1, <1>2
<1>5. RoutedTasks = FlattenSeq(s)
    BY DEF RoutedTasks, f
<1> HIDE DEF s
<1>6. RoutedTasks \in Seq(TaskRecs) /\ Elements(RoutedTasks) = Flat(s, Len(s))
    BY <1>4, <1>5, FlattenFacts
<1>7. ASSUME NEW t \in Flat(s, Len(s))
      PROVE \E i \in DOMAIN outs : \E k \in DOMAIN Chosens(i) : t = NewTask(Chosens(i)[k])
    <2>1. PICK i \in DOMAIN outs : t \in Elements(s[i])
        BY <1>1, <1>4 DEF Flat
    <2>2. PICK k \in DOMAIN f(i) : t = f(i)[k]
        BY <1>3, <2>1 DEF Elements
    <2>3. QED
        BY <1>2, <2>2
<1>8. ASSUME NEW i \in DOMAIN outs, NEW k \in DOMAIN Chosens(i) PROVE NewTask(Chosens(i)[k]) \in Flat(s, Len(s))
    <2>1. NewTask(Chosens(i)[k]) \in Elements(s[i])
        BY <1>2, <1>3 DEF Elements
    <2>2. QED
        BY <1>1, <1>4, <2>1 DEF Flat
<1>9. QED
    BY <1>6, <1>7, <1>8

LEMMA NextFacts ==
    ASSUME Base, phase = "tasks"
    PROVE /\ NextTasks = RoutedTasks \o TriggeredTasks(Committed)
          /\ NextTasks \in Seq(TaskRecs)
<1>1. NextTasks = RoutedTasks \o TriggeredTasks(Committed)
    BY DEF NextTasks, RoutedTasks, Chosens
<1>2. RoutedTasks \in Seq(TaskRecs) /\ TriggeredTasks(Committed) \in Seq(TaskRecs)
    BY RoutedFacts, TriggeredFacts DEF Base, Saver
<1> HIDE DEF RoutedTasks, TriggeredTasks, TaskRecs
<1>3. QED
    BY <1>1, <1>2

\* The writes of a committed superstep.
LEMMA RanFacts ==
    ASSUME Base, phase = "tasks", AllDone, NEW c \in 1 .. MaxIds, NEW n \in 0 .. MaxIds
    PROVE /\ RanWrites(c, n) \in Seq(WriteRecs)
          /\ Elements(RanWrites(c, n)) = {CompletedWrites(i, TaskID(c, n, tasks[i])) : i \in DOMAIN outs}
<1> DEFINE w(i) == CompletedWrites(i, TaskID(c, n, tasks[i]))
<1>1. Len(outs) \in Nat /\ DOMAIN outs = 1 .. Len(outs)
    <2>1. outs \in Seq(Outs)
        BY DEF Base, Superstep
    <2>2. QED
        BY <2>1
<1>2. ASSUME NEW i \in DOMAIN outs PROVE w(i) \in WriteRecs
    <2>1. tasks[i] \in TaskRecs /\ tasks[i].node \in Nodes /\ outs[i].s = "done"
        BY OutFacts DEF AllDone
    <2>2. /\ TaskID(c, n, tasks[i]) \in RealIDs /\ TaskID(c, n, tasks[i]).node = tasks[i].node
          /\ TaskID(c, n, tasks[i]).arg = tasks[i].arg
        BY <2>1, PlannedIDFacts DEF Base, Saver
    <2>3. QED
        BY <2>1, <2>2, CompletedFacts
<1> HIDE DEF w, WriteRecs
<1>3. RanWrites(c, n) = [i \in DOMAIN outs |-> w(i)]
    BY DEF RanWrites, w
<1>4. [i \in DOMAIN outs |-> w(i)] \in Seq(WriteRecs)
    BY <1>1, <1>2
<1>5. Elements([i \in DOMAIN outs |-> w(i)]) = {w(i) : i \in DOMAIN outs}
    BY DEF Elements
<1>6. QED
    BY <1>3, <1>4, <1>5 DEF w
-----------------------------------------------------------------------------
(* Base holds initially, and every action keeps it.                         *)

LEMMA BaseInit == Init => Base
<1> SUFFICES ASSUME Init PROVE Base
    OBVIOUS
<1>1. graph \in Graphs /\ GraphShape
    BY Shape DEF Init
<1>2. st \in States /\ st.step = -1
    BY <1>1, EmptyStateType DEF Init, EmptyState
<1>3. io \in Seq(SaverCalls) /\ DOMAIN io = {} /\ DOMAIN store = {}
    BY DEF Init
<1>4. Saved = {} /\ Written = {}
    BY <1>3 DEF Saved, Written, PutsOf, WritesOf, NewPuts, NewWrites, StoredPuts, StoredWrites
<1>5. MaxIds \in Nat /\ lastId = 0
    BY <1>1 DEF GraphShape, Init
<1>6. Saver
    BY <1>1, <1>3, <1>4, <1>5 DEF Saver, Anchored
<1>7. phase = "idle" /\ result = "none" /\ calls = 0 /\ turns = 0 /\ execs \in [Nodes -> Nat]
    BY DEF Init
<1>8. tasks \in Seq(TaskRecs) /\ DOMAIN rv = {} /\ skip = {} /\ given = {} /\ cur = 0 /\ io = <<>>
    BY DEF Init
<1>9. Run
    BY <1>2, <1>7, <1>8 DEF Run
<1>10. Superstep
    BY <1>7 DEF Superstep
<1>11. QED
    BY <1>6, <1>9, <1>10 DEF Base

\* An action that makes no saver call and brings no answer keeps what is saved.
LEMMA SaverSame ==
    ASSUME Saver, calls \in Nat, UNCHANGED <<graph, store, lastId, io>>, calls' = calls \/ calls' = calls + 1
    PROVE Saver' /\ Saved' = Saved /\ Written' = Written
<1>1. Saved' = Saved /\ Written' = Written
    BY DEF Saved, Written, PutsOf, WritesOf, NewPuts, NewWrites, StoredPuts, StoredWrites
<1>2. lastId' \in 0 .. MaxIds /\ lastId <= lastId' /\ calls' \in Nat /\ calls <= calls'
    BY Shape DEF Saver, GraphShape
<1>3. /\ graph' = graph /\ DOMAIN store' \subseteq 1 .. lastId' /\ (\A c \in DOMAIN store' : store'[c] \in Recs)
      /\ io' \in Seq(SaverCalls) /\ Anchored(store', io')
    BY DEF Saver
<1>4. Saver'
    BY <1>1, <1>2, <1>3, SaverKept
<1>5. QED
    BY <1>1, <1>4

\* A saved checkpoint keeps the saver's part.
LEMMA SaverSaved ==
    ASSUME Saver, calls \in Nat, calls' = calls, NEW s \in States, NEW next, NEW ws, CheckpointSaved(s, next, ws),
           s.step \in -1 .. lastId - 1, \A r \in Elements(ws) : r.pre \in Heard(calls)
    PROVE Saver'
<1>1. lastId \in Nat /\ lastId' = lastId + 1 /\ lastId + 1 \in 1 .. MaxIds /\ MaxIds \in Nat
    BY Shape DEF Saver, GraphShape, CheckpointSaved
<1>2. \A p \in Saved' : p \in Saved \/ (p[1] \in 1 .. lastId' /\ p[2].step \in -1 .. p[1] - 2)
    <2> SUFFICES ASSUME NEW p \in Saved', p \notin Saved PROVE p[1] \in 1 .. lastId' /\ p[2].step \in -1 .. p[1] - 2
        OBVIOUS
    <2>1. p = <<lastId + 1, s, next>>
        BY DEF CheckpointSaved
    <2>2. lastId - 1 = (lastId + 1) - 2
        BY <1>1
    <2>3. p[1] = lastId + 1 /\ p[2] = s
        BY <2>1
    <2>4. lastId + 1 \in 1 .. lastId' /\ s.step \in -1 .. (lastId + 1) - 2
        BY <1>1, <2>2
    <2>5. QED
        BY <2>3, <2>4
<1>3. \A p \in Written' : p \in Written \/ (p[1] \in 1 .. lastId' /\ p[2].pre \in Heard(calls'))
    <2> SUFFICES ASSUME NEW p \in Written', p \notin Written PROVE p[1] \in 1 .. lastId' /\ p[2].pre \in Heard(calls')
        OBVIOUS
    <2>1. PICK r \in Elements(ws) : p = <<lastId + 1, r>>
        BY DEF CheckpointSaved
    <2>2. p[1] = lastId + 1 /\ p[2] = r
        BY <2>1
    <2>3. QED
        BY <1>1, <2>2
<1>4. /\ graph' = graph /\ DOMAIN store' \subseteq 1 .. lastId' /\ (\A c \in DOMAIN store' : store'[c] \in Recs)
      /\ io' \in Seq(SaverCalls) /\ Anchored(store', io')
    BY <1>1 DEF Saver, CheckpointSaved
<1>5. lastId' \in 0 .. MaxIds /\ lastId <= lastId' /\ calls' \in Nat /\ calls <= calls'
    BY <1>1
<1>6. QED
    BY <1>2, <1>3, <1>4, <1>5, SaverKept

\* The fresh input of a run.
InputBatch == <<Write(END, <<InputToken>>, {})>>
LEMMA InputFacts ==
    ASSUME graph \in Graphs, turns \in Nat
    PROVE /\ InputBatch \in Seq(Batches) /\ InputToken \in Tokens /\ InputToken.n = END
          /\ TokensOf(InputBatch) = <<InputToken>> /\ Writers(InputBatch) = {END}
          /\ \A j \in JoinIdx : Arrivals(InputBatch, j) = {}
<1>1. <<>> \in Seq(Dests) /\ <<>> \in AnswerSeqs
    <2>1. <<>> \in Seq(Answers)
        OBVIOUS
    <2>2. QED
        BY <2>1 DEF AnswerSeqs, Aligned
<1>2. InputToken \in Tokens /\ InputToken.n = END
    BY <1>1 DEF InputToken, Token, Tokens, To
<1> DEFINE w == Write(END, <<InputToken>>, {})
<1> HIDE DEF Tokens, InputToken
<1>3. w \in Batches /\ w.node = END /\ w.tok = <<InputToken>> /\ w.arr = {}
    BY <1>2 DEF Write, Batches, Work
<1> HIDE DEF w, Batches
<1>4. InputBatch = <<w>> /\ DOMAIN InputBatch = {1} /\ InputBatch[1] = w
    BY DEF InputBatch, w
<1>5. InputBatch \in Seq(Batches)
    BY <1>3, <1>4
<1>6. TokensOf(InputBatch) = <<InputToken>>
    <2>1. TokensOf(InputBatch) = [i \in {1} |-> InputToken]
        BY <1>3, <1>4 DEF TokensOf
    <2>2. QED
        BY <2>1
<1>7. Writers(InputBatch) = {END} /\ \A j \in JoinIdx : Arrivals(InputBatch, j) = {}
    BY <1>3, <1>4 DEF Writers, Arrivals
<1>8. QED
    BY <1>2, <1>5, <1>6, <1>7

\* A run with fresh input saves its input checkpoint.
LEMMA InputSaved ==
    ASSUME Base, phase = "idle", NEW s \in States, s.step \in -1 .. lastId - 1, InvokeFrom(s)
    PROVE /\ applyWrites(s, InputBatch) \in States /\ Applied(s, InputBatch, applyWrites(s, InputBatch))
          /\ NewTasks(Entry) \in Seq(TaskRecs)
          /\ CheckpointSaved(applyWrites(s, InputBatch),
                             StampNew(NewTasks(Entry), lastId + 1, applyWrites(s, InputBatch).step + 1), <<>>)
<1> DEFINE s1 == applyWrites(s, InputBatch)
           next == StampNew(NewTasks(Entry), lastId + 1, s1.step + 1)
<1>1. graph \in Graphs /\ turns \in Nat /\ io = <<>> /\ lastId \in Nat /\ MaxIds \in Nat /\ lastId < MaxIds
    BY Shape DEF Base, Saver, Run, GraphShape, InvokeFrom
<1>2. Applied(s, InputBatch, s1)
    BY <1>1, InputFacts, ApplyFacts
<1>3. s1 \in States /\ s1.step = s.step
    BY <1>2 DEF Applied
<1>4. NewTasks(Entry) \in Seq(TaskRecs)
    BY <1>1, Shape, NewTaskFacts DEF GraphShape
<1>5. lastId + 1 \in 1 .. MaxIds /\ s1.step + 1 \in 0 .. MaxIds
    BY <1>1, <1>3
<1>6. next \in Plans
    BY <1>1, <1>4, <1>5, StampFacts
<1>7. io' = <<PutCall(lastId + 1, s1, next)>> /\ lastId' = lastId + 1 /\ cur' = lastId + 1 /\ UNCHANGED <<graph, store>>
    BY DEF InvokeFrom, InputBatch
<1> HIDE DEF s1, next
<1>8. SaveCheckpoint(s1, next, <<>>)
    <2> DEFINE p == PutCall(lastId + 1, s1, next)
    <2>1. io \o <<p>> \o [i \in DOMAIN <<>> |-> WritesCall(lastId + 1, <<>>[i])] = <<p>>
        <3> HIDE DEF p
        <3>1. [i \in DOMAIN <<>> |-> WritesCall(lastId + 1, <<>>[i])] = <<>>
            OBVIOUS
        <3>2. QED
            BY <1>1, <3>1
    <2>2. QED
        BY <1>1, <1>7, <2>1 DEF SaveCheckpoint
<1>9. <<>> \in Seq(WriteRecs)
    OBVIOUS
<1>10. CheckpointSaved(s1, next, <<>>)
    BY <1>3, <1>6, <1>8, <1>9, SaveFacts DEF Base
<1>11. QED
    BY <1>2, <1>3, <1>4, <1>10 DEF s1, next

\* A run that begins.
LEMMA BaseInvoke ==
    ASSUME Base, phase = "idle", NEW s \in States, s.step \in -1 .. lastId - 1, InvokeFrom(s)
    PROVE Base'
<1> DEFINE s1 == applyWrites(s, InputBatch)
           next == StampNew(NewTasks(Entry), lastId + 1, s1.step + 1)
<1>1. /\ s1 \in States /\ s1.step = s.step /\ NewTasks(Entry) \in Seq(TaskRecs)
      /\ CheckpointSaved(s1, next, <<>>)
    BY InputSaved DEF Applied
<1>2. /\ phase' = "loop" /\ st' = s1 /\ tasks' = NewTasks(Entry) /\ rv' = <<>> /\ skip' = {} /\ result' = "none"
      /\ turns' = turns + 1 /\ given' = {} /\ UNCHANGED <<execs, calls>>
    BY DEF InvokeFrom, Begin, InputBatch
<1> HIDE DEF s1, next
<1>3. \A r \in Elements(<<>>) : r.pre \in Heard(calls)
    BY DEF Elements
<1>4. Saver'
    BY <1>1, <1>2, <1>3, SaverSaved DEF Base, Run
<1>5. SameGraph /\ lastId \in Nat /\ cur' = lastId + 1 /\ \E p \in Saved' : p[1] = cur'
    <2>1. graph' = graph /\ cur' = lastId + 1 /\ <<lastId + 1, s1, next>> \in Saved'
        BY <1>1 DEF CheckpointSaved
    <2>2. QED
        BY <2>1, GraphFixed, Shape DEF Base, Saver, GraphShape
<1>6. st'.step \in -1 .. cur' - 2
    BY <1>1, <1>2, <1>5
<1>7. /\ phase' = "loop" /\ result' = "none" /\ calls' \in Nat /\ turns' \in Nat /\ execs' \in [Nodes' -> Nat]
      /\ st' \in States' /\ tasks' \in Seq(TaskRecs') /\ DOMAIN rv' = {} /\ skip' = {} /\ given' = {}
    BY <1>1, <1>2, <1>5 DEF Base, Run, SameGraph
<1>8. Run'
    BY <1>5, <1>6, <1>7 DEF Run
<1>9. Superstep'
    BY <1>7 DEF Superstep
<1>10. QED
    BY <1>4, <1>8, <1>9 DEF Base

LEMMA BaseResume ==
    ASSUME Base, NEW c \in DOMAIN store, NEW a \in SUBSET AskIds(c), Resume(c, a)
    PROVE Base' /\ Saved' = Saved /\ Written' = Written
<1> DEFINE s == IF ReplayWrites(c) = <<>> THEN store[c].st ELSE applyWrites(store[c].st, ReplayWrites(c))
<1>1. /\ phase = "idle" /\ phase' = "loop" /\ st' = s /\ tasks' = RestoredTasks(c) \o ReplaySends(c)
      /\ rv' = ResumeQueues(c, a) /\ skip' = resumeSkipNode(c) /\ result' = "none" /\ cur' = c
      /\ calls' = (IF a = {} THEN calls ELSE calls + 1) /\ given' = a /\ io' = <<>>
      /\ UNCHANGED <<graph, store, lastId, turns, execs>>
    BY DEF Resume, Begin, saverVars
<1>2. io = <<>> /\ calls \in Nat /\ turns \in Nat /\ execs \in [Nodes -> Nat] /\ graph \in Graphs /\ Saver
    BY <1>1 DEF Base, Run, Saver
<1>3. Saver' /\ Saved' = Saved /\ Written' = Written
    BY <1>1, <1>2, SaverSame
<1>4. SameGraph
    BY <1>1, GraphFixed
<1>5. s \in States /\ s.step = store[c].st.step
    <2>1. store[c].st \in States /\ ReplayWrites(c) \in Seq(Batches)
        BY <1>2, ReadFacts, ReplayFacts
    <2>2. Applied(store[c].st, ReplayWrites(c), applyWrites(store[c].st, ReplayWrites(c)))
        BY <1>2, <2>1, ApplyFacts
    <2>3. QED
        BY <2>1, <2>2 DEF Applied
<1> HIDE DEF s
<1>6. c \in Nat /\ st'.step \in -1 .. cur' - 2 /\ \E p \in Saved' : p[1] = cur'
    <2>1. c \in 1 .. MaxIds /\ store[c].st.step \in -1 .. c - 2 /\ <<c, store[c].st, store[c].next>> \in Saved
        BY <1>2, ReadFacts
    <2>2. QED
        BY <1>1, <1>3, <1>5, <2>1
<1>7. tasks' \in Seq(TaskRecs)
    <2>1. RestoredTasks(c) \in Seq(TaskRecs) /\ ReplaySends(c) \in Seq(TaskRecs)
        BY <1>2, RestoreFacts, ReplaySendFacts
    <2> HIDE DEF TaskRecs, RestoredTasks, ReplaySends
    <2>2. QED
        BY <1>1, <2>1
<1>8. /\ DOMAIN rv' \subseteq RealIDs /\ \A id \in DOMAIN rv' : rv'[id] \in Heard(calls')
      /\ given' \subseteq RealIDs
    <2>1. a \subseteq AskIds(c)
        OBVIOUS
    <2>2. /\ AskIds(c) \subseteq RealIDs /\ DOMAIN rv' = AskIds(c)
          /\ \A id \in AskIds(c) : rv'[id] \in Heard(IF a = {} THEN calls ELSE calls + 1)
        BY <1>1, <1>2, <2>1, QueueFacts
    <2>3. QED
        BY <1>1, <2>1, <2>2
<1>9. skip' \subseteq Nodes
    BY <1>1, <1>2, SkipFacts
<1>10. calls' \in Nat
    BY <1>1, <1>2
<1>11. Run'
    BY <1>1, <1>2, <1>4, <1>5, <1>6, <1>7, <1>8, <1>9, <1>10 DEF Run, SameGraph
<1>12. Superstep'
    BY <1>1 DEF Superstep
<1>13. QED
    BY <1>3, <1>11, <1>12 DEF Base

LEMMA BaseStarts ==
    ASSUME Base, Starts PROVE Base'
<1>1. ASSUME NEW c \in Loadable, InvokeNewTurn(c) PROVE Base'
    <2>1. c \in DOMAIN store /\ Saver
        BY LoadableStored DEF Base
    <2>2. store[c].st \in States /\ store[c].st.step \in -1 .. c - 2 /\ c \in 1 .. lastId
        BY <2>1, ReadFacts
    <2>3. lastId \in Nat
        BY Shape DEF Base, Saver, GraphShape
    <2>4. store[c].st.step \in -1 .. lastId - 1
        BY <2>2, <2>3
    <2>5. QED
        BY <1>1, <2>2, <2>4, BaseInvoke DEF InvokeNewTurn
<1>2. ASSUME InvokeFresh PROVE Base'
    <2>1. graph \in Graphs /\ lastId \in Nat
        BY Shape DEF Base, Saver, GraphShape
    <2>2. EmptyState \in States /\ EmptyState.step = -1
        BY <2>1, EmptyStateType DEF EmptyState
    <2>3. EmptyState.step \in -1 .. lastId - 1
        BY <2>1, <2>2
    <2>4. QED
        BY <1>2, <2>2, <2>3, BaseInvoke DEF InvokeFresh
<1>3. ASSUME NEW c \in Loadable, NEW a \in SUBSET AskIds(c), Resume(c, a) PROVE Base'
    BY <1>3, LoadableStored, BaseResume DEF Base
<1>4. QED
    BY <1>1, <1>2, <1>3 DEF Starts

\* A run that stops at the head of the loop without a checkpoint.
StopsHere == Finish \/ Drained \/ RecursionError \/ Cancel
LEMMA BaseStopsHere ==
    ASSUME Base, StopsHere PROVE Base' /\ Saved' = Saved /\ Written' = Written
<1>1. /\ phase = "loop" /\ phase' = "flush" /\ result' \in {"ok", "drained", "error"}
      /\ UNCHANGED <<graph, store, lastId, io, cur, st, tasks, rv, skip, turns, execs, calls, given>>
    BY DEF StopsHere, Finish, Drained, RecursionError, Cancel, AtHead, PastBreakpoints, Stop, saverVars, historyVars
<1>2. calls \in Nat /\ Saver
    BY DEF Base, Run
<1>3. Saver' /\ Saved' = Saved /\ Written' = Written
    BY <1>1, <1>2, SaverSame
<1>4. SameGraph
    BY <1>1, GraphFixed
<1>5. Run'
    BY <1>1, <1>3, <1>4 DEF Base, Run, SameGraph
<1>6. Superstep'
    BY <1>1 DEF Superstep
<1>7. QED
    BY <1>3, <1>5, <1>6 DEF Base

\* A run that stops on a checkpoint it saves of the state as it is.
LEMMA BaseStopsSaved ==
    ASSUME Base, NEW next, NEW ws, CheckpointSaved(st, next, ws), \A r \in Elements(ws) : r.pre \in Heard(calls),
           phase # "idle", phase' = "flush", result' \in {"error", "interrupt"},
           UNCHANGED <<st, tasks, rv, skip, turns, execs, calls, given>>
    PROVE Base'
<1>1. Saver /\ Run /\ calls \in Nat
    BY DEF Base, Run
<1>2. cur \in 1 .. lastId /\ lastId \in Nat /\ st \in States /\ st.step \in Int /\ st.step + 1 \in 0 .. cur - 1
    BY <1>1, CurFacts
<1>3. st.step \in -1 .. lastId - 1
    BY <1>2
<1>4. Saver'
    BY <1>1, <1>2, <1>3, SaverSaved
<1>5. SameGraph /\ cur' = lastId + 1 /\ \E p \in Saved' : p[1] = cur'
    <2>1. graph' = graph /\ cur' = lastId + 1 /\ <<lastId + 1, st, next>> \in Saved'
        BY DEF CheckpointSaved
    <2>2. QED
        BY <2>1, GraphFixed
<1>6. st'.step \in -1 .. cur' - 2
    BY <1>2, <1>5
<1>7. Run'
    BY <1>1, <1>5, <1>6 DEF Run, SameGraph
<1>8. Superstep'
    BY DEF Superstep
<1>9. QED
    BY <1>4, <1>7, <1>8 DEF Base

\* The breakpoint a run stops in front of is a node.
LEMMA BreakpointFacts ==
    ASSUME Base, NEW n \in findInterruptBefore
    PROVE n \in Nodes /\ n \in InterruptBefore /\ n \notin skip /\ Names(Active(tasks), n) /\ Names(tasks, n)
<1> DEFINE a == Active(tasks)
           hits == {i \in DOMAIN a : a[i].node \notin skip /\ a[i].node \in InterruptBefore}
<1>1. a \in Seq(TaskRecs) /\ \A i \in DOMAIN a : a[i].node \in Nodes /\ a[i] \in Elements(tasks)
    BY ActiveTasks DEF Base, Run
<1>2. hits # {} /\ n = a[Min(hits)].node
    BY DEF findInterruptBefore
<1> HIDE DEF a
<1>3. DOMAIN a \subseteq Nat
    BY <1>1
<1>4. Min(hits) \in hits
    BY <1>2, <1>3, MinFacts
<1> HIDE DEF hits
<1>5. Min(hits) \in DOMAIN a /\ a[Min(hits)].node \in InterruptBefore /\ a[Min(hits)].node \notin skip
    BY <1>4 DEF hits
<1>6. Names(a, n) /\ Names(tasks, n)
    BY <1>1, <1>2, <1>5 DEF Elements, Names
<1>7. QED
    BY <1>1, <1>2, <1>5, <1>6 DEF a

LEMMA PauseBeforeFacts ==
    ASSUME Base, PauseBefore
    PROVE \E n \in Nodes : /\ n \in InterruptBefore /\ \E i \in DOMAIN tasks : tasks[i].node = n
                           /\ n \notin skip /\ Names(Active(tasks), n)
                           /\ CheckpointSaved(st, StampDispatchIDs(tasks, cur, st.step + 1),
                                              <<Reserved(BoundaryId(n), "before", <<>>)>>)
<1>1. Saver /\ Run /\ phase = "loop"
    BY DEF Base, PauseBefore, AtHead
<1>2. /\ graph \in Graphs /\ cur \in 1 .. MaxIds /\ st.step + 1 \in 0 .. MaxIds /\ tasks \in Seq(TaskRecs)
      /\ st \in States
    BY <1>1, CurFacts
<1> DEFINE next == StampDispatchIDs(tasks, cur, st.step + 1)
<1>3. next \in Plans
    BY <1>2, StampFacts
<1>4. PICK n \in findInterruptBefore :
         SaveCheckpoint(st, next, <<Reserved(BoundaryId(n), "before", <<>>)>>)
    BY DEF PauseBefore
<1>5. /\ n \in Nodes /\ n \in InterruptBefore /\ \E i \in DOMAIN tasks : tasks[i].node = n
      /\ n \notin skip /\ Names(Active(tasks), n)
    BY BreakpointFacts DEF Names
<1>6. <<Reserved(BoundaryId(n), "before", <<>>)>> \in Seq(WriteRecs)
    <2>1. Reserved(BoundaryId(n), "before", <<>>) \in WriteRecs
        BY <1>2, <1>5, ReservedFacts
    <2> HIDE DEF WriteRecs
    <2>2. QED
        BY <2>1
<1> HIDE DEF next
<1>7. CheckpointSaved(st, next, <<Reserved(BoundaryId(n), "before", <<>>)>>)
    BY <1>1, <1>2, <1>3, <1>4, <1>6, SaveFacts
<1>8. QED
    BY <1>5, <1>7 DEF next

LEMMA BasePauseBefore ==
    ASSUME Base, PauseBefore PROVE Base'
<1>1. PICK n \in Nodes : CheckpointSaved(st, StampDispatchIDs(tasks, cur, st.step + 1),
                                         <<Reserved(BoundaryId(n), "before", <<>>)>>)
    BY PauseBeforeFacts
<1>2. \A r \in Elements(<<Reserved(BoundaryId(n), "before", <<>>)>>) : r.pre \in Heard(calls)
    <2>1. <<>> \in Heard(calls)
        BY ReservedFacts DEF Base, Saver, Run
    <2>2. Reserved(BoundaryId(n), "before", <<>>).pre = <<>>
        BY DEF Reserved, Pending
    <2> HIDE DEF Reserved
    <2>3. QED
        BY <2>1, <2>2 DEF Elements
<1>3. /\ phase # "idle" /\ phase' = "flush" /\ result' \in {"error", "interrupt"}
      /\ UNCHANGED <<st, tasks, rv, skip, turns, execs, calls, given>>
    BY DEF PauseBefore, AtHead, Stop, historyVars
<1>4. QED
    BY <1>1, <1>2, <1>3, BaseStopsSaved

LEMMA BaseDispatch ==
    ASSUME Base, Dispatch PROVE Base' /\ Saved' = Saved /\ Written' = Written
<1>1. /\ phase = "loop" /\ phase' = "tasks" /\ tasks' = Active(tasks) /\ skip' = {}
      /\ outs' = [i \in DOMAIN Active(tasks) |-> IF Active(tasks)[i].handler THEN HandlerRuns ELSE Undecided]
      /\ UNCHANGED <<graph, store, lastId, io, cur, st, rv, result, turns, execs, calls, given>>
    BY DEF Dispatch, AtHead, PastBreakpoints, saverVars, historyVars
<1>2. calls \in Nat /\ Saver /\ graph \in Graphs
    BY DEF Base, Run, Saver
<1>3. Saver' /\ Saved' = Saved /\ Written' = Written
    BY <1>1, <1>2, SaverSame
<1>4. SameGraph
    BY <1>1, GraphFixed
<1>5. tasks' \in Seq(TaskRecs) /\ \A i \in DOMAIN tasks' : tasks'[i].node \in Nodes
    BY <1>1, ActiveTasks DEF Base, Run
<1>6. Run'
    BY <1>1, <1>3, <1>4, <1>5 DEF Base, Run, SameGraph
<1>7. HandlerRuns \in Outs /\ Undecided \in Outs
    <2>1. <<>> \in Seq(Tokens) /\ <<>> \in Seq(Dests) /\ <<>> \in AnswerSeqs
        BY <1>2, ReservedFacts DEF Heard
    <2>2. QED
        BY <2>1 DEF HandlerRuns, Undecided, Outcome, Outs
<1>8. \A t : OutOK(HandlerRuns, t, calls) /\ OutOK(Undecided, t, calls)
    <2>1. <<>> \in Heard(calls)
        BY <1>2, ReservedFacts
    <2>2. /\ HandlerRuns.pre = <<>> /\ HandlerRuns.s = "handler" /\ HandlerRuns.tok = <<>>
          /\ Undecided.pre = <<>> /\ Undecided.s = "run" /\ Undecided.tok = <<>>
        BY DEF HandlerRuns, Undecided, Outcome
    <2>3. QED
        BY <1>7, <2>1, <2>2 DEF OutOK
<1>9. outs' \in Seq(Outs) /\ DOMAIN outs' = DOMAIN tasks' /\ \A i \in DOMAIN tasks' : OutOK(outs'[i], tasks'[i], calls)
    <2> HIDE DEF TaskRecs, Outs, HandlerRuns, Undecided, Active
    <2>1. Len(tasks') \in Nat /\ DOMAIN tasks' = 1 .. Len(tasks') /\ DOMAIN outs' = DOMAIN tasks'
        BY <1>1, <1>5
    <2>2. \A i \in DOMAIN outs' : outs'[i] \in {HandlerRuns, Undecided}
        BY <1>1
    <2>3. outs' = [i \in 1 .. Len(tasks') |-> outs'[i]]
        BY <1>1, <2>1
    <2>4. outs' \in Seq(Outs)
        BY <1>7, <2>1, <2>2, <2>3
    <2>5. QED
        BY <1>8, <2>1, <2>2, <2>4
<1>10. Superstep'
    BY <1>1, <1>4, <1>5, <1>9 DEF Superstep, SameGraph, OutOK
<1>11. QED
    BY <1>3, <1>6, <1>10 DEF Base

\* One task of a superstep goes on to the outcome out.
Progress(i, out) ==
    /\ phase = "tasks" /\ outs[i].s \in {"run", "handler"}
    /\ out.s \in {"handler", "ask", "done", "err"} /\ OutOK(out, tasks[i], calls)
    /\ outs' = [outs EXCEPT ![i] = out]
    /\ UNCHANGED <<graph, store, lastId, phase, cur, st, tasks, rv, skip, result, turns, calls>>
    /\ execs' = execs \/ execs' = [execs EXCEPT ![tasks[i].node] = @ + 1]
    /\ \/ given' = IF HoldsNewAnswer(tasks[i]) THEN given \ {tasks[i].id} ELSE given
       \/ outs[i].s = "handler" /\ out.s = "err" /\ given' = given
    /\ out.s = "ask" => outs[i].s = "run" /\ Asks[tasks[i].node] > 0
    /\ out.s = "done" => /\ out.tok[1].k = execs[tasks[i].node] + 1
                         /\ out.tok[1].d = IF out.sends # <<>> THEN out.sends ELSE out.route
                         /\ execs' = [execs EXCEPT ![tasks[i].node] = @ + 1]
    /\ \/ out.s # "done" /\ out.sends = <<>> /\ out.route = <<>>
       \/ out.sends \in Goto[tasks[i].node] /\ out.route = <<>>
       \/ out.sends = <<>> /\ out.route \in Route[tasks[i].node]
    /\ IF out.s = "handler"
       THEN /\ outs[i].s = "run" /\ tasks[i].node \in Fails \cap Handled
            /\ io' = Append(io, WritesCall(cur, Reserved(plannedID(tasks[i], cur, st.step + 1), "err", <<>>)))
       ELSE io' = io /\ (out.nodeErr => outs[i].s = "handler")

LEMMA QueueHeard ==
    ASSUME Base, NEW t PROVE Queue(t) \in Heard(calls)
<1>1. <<>> \in Heard(calls)
    BY ReservedFacts DEF Base, Saver, Run
<1>2. QED
    BY <1>1 DEF Queue, Base, Run

\* A task that completes, with the answers q it has consumed.
LEMMA CompleteFacts ==
    ASSUME Base, phase = "tasks", NEW i \in DOMAIN outs, NEW q \in Heard(calls), NEW e \in BOOLEAN,
           outs[i].s \in {"run", "handler"}, e = TRUE => outs[i].s = "handler", Complete(i, q, e), Executes(i), io' = io
    PROVE \E out \in Outs : Progress(i, out)
<1> DEFINE n == tasks[i].node
<1>1. n \in Nodes /\ graph \in Graphs /\ execs \in [Nodes -> Nat]
    BY OutFacts DEF Base, Saver, Run
<1>2. PICK c \in Routings(n) :
         Decide(i, Outcome("done", <<Token(tasks[i], execs[n] + 1, IF c[1] # <<>> THEN c[1] ELSE c[2], q)>>,
                           c[1], c[2], <<>>, e))
    BY DEF Complete
<1> DEFINE d == IF c[1] # <<>> THEN c[1] ELSE c[2]
           tok == Token(tasks[i], execs[n] + 1, d, q)
           out == Outcome("done", <<tok>>, c[1], c[2], <<>>, e)
<1>3. \/ c[1] \in Goto[n] /\ c[2] = <<>>
      \/ c[1] = <<>> /\ c[2] \in Route[n]
    BY <1>2 DEF Routings
<1>4. c[1] \in Seq(Dests) /\ c[2] \in Seq(Dests)
    <2>1. <<>> \in Seq(Dests)
        OBVIOUS
    <2>2. Goto[n] \subseteq Seq(Dests) /\ Route[n] \subseteq Seq(Dests)
        BY <1>1, Shape DEF GraphShape
    <2>3. QED
        BY <1>3, <2>1, <2>2
<1>5. /\ d \in Seq(Dests) /\ q \in AnswerSeqs /\ execs[n] + 1 \in Nat
      /\ tasks[i].node = n /\ tasks[i].arg \in Args \cup {NoArg}
    BY <1>1, <1>4, OutFacts DEF Heard, TaskRecs
<1> HIDE DEF n, d
<1>6. tok \in Tokens /\ tok.n = n /\ tok.arg = tasks[i].arg /\ tok.k = execs[n] + 1 /\ tok.d = d
    <2> HIDE DEF Dests, AnswerSeqs
    <2>1. QED
        BY <1>1, <1>5 DEF Token, Tokens
<1> HIDE DEF tok
<1>7. /\ <<tok>> \in Seq(Tokens) /\ Work(n, <<tok>>) /\ <<tok>>[1].arg = tasks[i].arg
      /\ <<tok>>[1].k = execs[n] + 1 /\ <<tok>>[1].d = d
    <2> HIDE DEF Tokens
    <2>1. QED
        BY <1>6 DEF Work
<1>8. <<>> \in Heard(calls) /\ <<>> \in AnswerSeqs
    BY <1>1, ReservedFacts DEF Base, Run, Heard
<1>9. /\ out \in Outs /\ out.s = "done" /\ out.tok = <<tok>> /\ out.sends = c[1] /\ out.route = c[2]
      /\ out.pre = <<>> /\ out.nodeErr = e
    <2> HIDE DEF Tokens, Dests, AnswerSeqs
    <2>1. QED
        BY <1>4, <1>7, <1>8 DEF Outcome, Outs
<1>10. Decide(i, out)
    BY <1>2 DEF out, tok, d, n
<1> HIDE DEF out
<1>11. OutOK(out, tasks[i], calls)
    BY <1>5, <1>7, <1>8, <1>9 DEF OutOK, WorkOf
<1>12. outs' = [outs EXCEPT ![i] = out]
       /\ UNCHANGED <<graph, store, lastId, phase, cur, st, tasks, rv, skip, result, turns, calls>>
    BY <1>10 DEF Decide, saverVars
<1>13. /\ execs' = [execs EXCEPT ![n] = @ + 1]
       /\ given' = IF HoldsNewAnswer(tasks[i]) THEN given \ {tasks[i].id} ELSE given
    BY DEF Executes, n
<1>14. Progress(i, out)
    BY <1>3, <1>7, <1>9, <1>11, <1>12, <1>13 DEF Progress, n, d
<1>15. QED
    BY <1>9, <1>14

\* A task that interrupts, fails, or goes to its handler.
LEMMA OutcomeFacts ==
    ASSUME Base, phase = "tasks", NEW i \in DOMAIN outs, NEW s \in {"handler", "ask", "err"},
           NEW q \in Heard(calls), NEW e \in BOOLEAN
    PROVE LET out == Outcome(s, <<>>, <<>>, <<>>, q, e) IN
          /\ out \in Outs /\ OutOK(out, tasks[i], calls)
          /\ out.s = s /\ out.sends = <<>> /\ out.route = <<>> /\ out.nodeErr = e
<1> DEFINE out == Outcome(s, <<>>, <<>>, <<>>, q, e)
<1>1. <<>> \in Seq(Tokens) /\ <<>> \in Seq(Dests) /\ q \in AnswerSeqs
    BY DEF Heard
<1>2. /\ out \in Outs /\ out.s = s /\ out.tok = <<>> /\ out.sends = <<>> /\ out.route = <<>>
      /\ out.pre = q /\ out.nodeErr = e
    <2> HIDE DEF Tokens, Dests, AnswerSeqs
    <2>1. QED
        BY <1>1 DEF Outcome, Outs
<1> HIDE DEF out
<1>3. OutOK(out, tasks[i], calls)
    BY <1>2 DEF OutOK
<1>4. QED
    BY <1>2, <1>3 DEF out

LEMMA ProgressFacts ==
    ASSUME Base, TaskStep
    PROVE \E i \in DOMAIN outs : \E out \in Outs : Progress(i, out)
<1>1. PICK i \in DOMAIN outs : \/ TaskInterrupts(i) \/ TaskCompletes(i) \/ TaskFails(i)
                               \/ HandlerCompletes(i) \/ HandlerFails(i)
    BY DEF TaskStep
<1>2. phase = "tasks"
    BY <1>1 DEF TaskInterrupts, TaskCompletes, TaskFails, HandlerCompletes, HandlerFails
<1>3. tasks[i].node \in Nodes /\ <<>> \in Heard(calls) /\ Queue(tasks[i]) \in Heard(calls)
    BY <1>2, OutFacts, QueueHeard, ReservedFacts DEF Base, Saver, Run
<1>4. ASSUME TaskInterrupts(i) PROVE \E out \in Outs : Progress(i, out)
    <2> DEFINE out == Outcome("ask", <<>>, <<>>, <<>>, Queue(tasks[i]), FALSE)
    <2>1. /\ out \in Outs /\ OutOK(out, tasks[i], calls)
          /\ out.s = "ask" /\ out.sends = <<>> /\ out.route = <<>> /\ out.nodeErr = FALSE
        BY <1>2, <1>3, OutcomeFacts
    <2>2. /\ outs[i].s = "run" /\ Len(Queue(tasks[i])) < Asks[tasks[i].node] /\ Decide(i, out) /\ Executes(i) /\ io' = io
        BY <1>4 DEF TaskInterrupts
    <2>3. Asks[tasks[i].node] > 0
        <3>1. Asks[tasks[i].node] \in Nat
            BY <1>3, Shape DEF GraphShape, Base, Saver
        <3>2. Len(Queue(tasks[i])) \in Nat
            BY <1>3 DEF Heard, AnswerSeqs
        <3>3. QED
            BY <2>2, <3>1, <3>2
    <2> HIDE DEF out
    <2>4. Progress(i, out)
        BY <1>2, <2>1, <2>2, <2>3 DEF Progress, Decide, Executes, saverVars
    <2>5. QED
        BY <2>1, <2>4
<1>5. ASSUME TaskCompletes(i) PROVE \E out \in Outs : Progress(i, out)
    <2>1. outs[i].s = "run" /\ Complete(i, Queue(tasks[i]), FALSE) /\ Executes(i) /\ io' = io
        BY <1>5 DEF TaskCompletes
    <2> DEFINE q == Queue(tasks[i])
               e == FALSE
    <2>2. q \in Heard(calls) /\ Complete(i, q, e) /\ e \in BOOLEAN /\ e # TRUE
        BY <1>3, <2>1
    <2> HIDE DEF q, e
    <2>3. QED
        BY <1>2, <2>1, <2>2, CompleteFacts
<1>6. ASSUME HandlerCompletes(i) PROVE \E out \in Outs : Progress(i, out)
    <2>1. outs[i].s = "handler" /\ Complete(i, <<>>, TRUE) /\ Executes(i) /\ io' = io
        BY <1>6 DEF HandlerCompletes
    <2> DEFINE q == <<>>
               e == TRUE
    <2>2. q \in Heard(calls) /\ Complete(i, q, e) /\ e \in BOOLEAN
        BY <1>3, <2>1
    <2> HIDE DEF q, e
    <2>3. QED
        BY <1>2, <2>1, <2>2, CompleteFacts
<1>7. ASSUME HandlerFails(i) PROVE \E out \in Outs : Progress(i, out)
    <2> DEFINE out == Outcome("err", <<>>, <<>>, <<>>, <<>>, TRUE)
    <2>1. /\ out \in Outs /\ OutOK(out, tasks[i], calls)
          /\ out.s = "err" /\ out.sends = <<>> /\ out.route = <<>> /\ out.nodeErr = TRUE
        BY <1>2, <1>3, OutcomeFacts
    <2>2. outs[i].s = "handler" /\ Decide(i, out) /\ UNCHANGED <<io, execs, given>>
        BY <1>7 DEF HandlerFails
    <2> HIDE DEF out
    <2>3. Progress(i, out)
        BY <1>2, <2>1, <2>2 DEF Progress, Decide, saverVars
    <2>4. QED
        BY <2>1, <2>3
<1>8. ASSUME TaskFails(i) PROVE \E out \in Outs : Progress(i, out)
    <2>1. CASE tasks[i].node \in Handled
        <3>1. /\ HandlerRuns \in Outs /\ OutOK(HandlerRuns, tasks[i], calls)
              /\ HandlerRuns.s = "handler" /\ HandlerRuns.sends = <<>> /\ HandlerRuns.route = <<>>
            BY <1>2, <1>3, OutcomeFacts DEF HandlerRuns
        <3>2. /\ outs[i].s = "run" /\ tasks[i].node \in Fails /\ Decide(i, HandlerRuns) /\ Executes(i)
              /\ io' = Append(io, WritesCall(cur, Reserved(plannedID(tasks[i], cur, st.step + 1), "err", <<>>)))
            BY <1>8, <2>1 DEF TaskFails
        <3> HIDE DEF HandlerRuns
        <3>3. Progress(i, HandlerRuns)
            BY <1>2, <2>1, <3>1, <3>2 DEF Progress, Decide, Executes, saverVars
        <3>4. QED
            BY <3>1, <3>3
    <2>2. CASE tasks[i].node \notin Handled
        <3> DEFINE out == Outcome("err", <<>>, <<>>, <<>>, <<>>, FALSE)
        <3>1. /\ out \in Outs /\ OutOK(out, tasks[i], calls)
              /\ out.s = "err" /\ out.sends = <<>> /\ out.route = <<>> /\ out.nodeErr = FALSE
            BY <1>2, <1>3, OutcomeFacts
        <3>2. outs[i].s = "run" /\ Decide(i, out) /\ Executes(i) /\ io' = io
            BY <1>8, <2>2 DEF TaskFails
        <3> HIDE DEF out
        <3>3. Progress(i, out)
            BY <1>2, <3>1, <3>2 DEF Progress, Decide, Executes, saverVars
        <3>4. QED
            BY <3>1, <3>3
    <2>3. QED
        BY <2>1, <2>2
<1>9. QED
    BY <1>1, <1>4, <1>5, <1>6, <1>7, <1>8

\* What a task's progress adds to what is written.
LEMMA ProgressWrites ==
    ASSUME Base, NEW i \in DOMAIN outs, NEW out \in Outs, Progress(i, out)
    PROVE /\ Saved' = Saved /\ io' \in Seq(SaverCalls) /\ Anchored(store', io')
          /\ Written' = IF out.s = "handler"
                        THEN Written \cup {<<cur, Reserved(plannedID(tasks[i], cur, st.step + 1), "err", <<>>)>>}
                        ELSE Written
          /\ Saver' /\ SameGraph
<1>1. Saver /\ Run /\ phase = "tasks" /\ calls \in Nat /\ graph \in Graphs
    BY DEF Base, Progress, Run, Saver
<1>2. cur \in 1 .. lastId /\ cur \in 1 .. MaxIds /\ lastId \in Nat /\ st.step + 1 \in 0 .. MaxIds
    BY <1>1, CurFacts
<1>3. \E p \in Saved : p[1] = cur
    BY <1>1 DEF Run
<1>4. UNCHANGED <<graph, store, lastId, calls>> /\ SameGraph
    BY GraphFixed DEF Progress
<1>5. CASE out.s # "handler"
    <2>1. io' = io
        BY <1>5 DEF Progress
    <2>2. Saver' /\ Saved' = Saved /\ Written' = Written
        BY <1>1, <1>4, <2>1, SaverSame
    <2>3. QED
        BY <1>1, <1>4, <1>5, <2>1, <2>2 DEF Saver
<1>6. CASE out.s = "handler"
    <2> DEFINE r == Reserved(plannedID(tasks[i], cur, st.step + 1), "err", <<>>)
    <2>1. r \in WriteRecs /\ r.pre \in Heard(calls)
        <3>1. plannedID(tasks[i], cur, st.step + 1) \in RealIDs
            BY <1>1, <1>2, OutFacts, PlannedIDFacts
        <3>2. <<>> \in AnswerSeqs /\ <<>> \in Heard(calls)
            BY <1>1, ReservedFacts DEF Heard
        <3>3. r \in WriteRecs
            BY <1>1, <3>1, <3>2, ReservedFacts
        <3>4. r.pre = <<>>
            BY DEF Reserved, Pending
        <3>5. QED
            BY <3>2, <3>3, <3>4
    <2>2. io' = Append(io, WritesCall(cur, r)) /\ store' = store
        BY <1>4, <1>6 DEF Progress
    <2> HIDE DEF r
    <2>3. /\ Saved' = Saved /\ Written' = Written \cup {<<cur, r>>}
          /\ io' \in Seq(SaverCalls) /\ Anchored(store', io')
        BY <1>1, <1>2, <1>3, <2>1, <2>2, WriteFacts
    <2>4. \A p \in Written' : p \in Written \/ (p[1] \in 1 .. lastId' /\ p[2].pre \in Heard(calls'))
        BY <1>2, <1>4, <2>1, <2>3
    <2>5. /\ lastId' \in 0 .. MaxIds /\ lastId <= lastId' /\ calls' \in Nat /\ calls <= calls'
          /\ graph' = graph /\ DOMAIN store' \subseteq 1 .. lastId' /\ (\A c \in DOMAIN store' : store'[c] \in Recs)
        BY <1>1, <1>2, <1>4 DEF Saver
    <2>6. Saver'
        BY <1>1, <2>3, <2>4, <2>5, SaverKept
    <2>7. QED
        BY <1>4, <1>6, <2>3, <2>6 DEF r
<1>7. QED
    BY <1>5, <1>6

LEMMA BaseTask ==
    ASSUME Base, TaskStep PROVE Base'
<1>1. PICK i \in DOMAIN outs, out \in Outs : Progress(i, out)
    BY ProgressFacts
<1>2. Saver' /\ SameGraph /\ Saved' = Saved
    BY <1>1, ProgressWrites
<1>3. /\ phase = "tasks" /\ outs' = [outs EXCEPT ![i] = out] /\ OutOK(out, tasks[i], calls)
      /\ UNCHANGED <<graph, store, lastId, phase, cur, st, tasks, rv, skip, result, turns, calls>>
      /\ (execs' = execs \/ execs' = [execs EXCEPT ![tasks[i].node] = @ + 1])
      /\ given' \subseteq given
    BY <1>1 DEF Progress
<1>4. execs' \in [Nodes -> Nat]
    <2>1. execs \in [Nodes -> Nat]
        BY DEF Base, Run
    <2>2. QED
        BY <1>3, <2>1
<1>5. Run'
    BY <1>2, <1>3, <1>4 DEF Base, Run, SameGraph
<1>6. outs' \in Seq(Outs) /\ DOMAIN outs' = DOMAIN tasks
    <2>1. outs \in Seq(Outs) /\ DOMAIN outs = DOMAIN tasks
        BY <1>3 DEF Base, Superstep
    <2> HIDE DEF Outs
    <2>2. QED
        BY <1>3, <2>1
<1>7. \A k \in DOMAIN tasks : tasks[k].node \in Nodes /\ OutOK(outs'[k], tasks[k], calls)
    BY <1>3 DEF Base, Superstep
<1>8. Superstep'
    BY <1>2, <1>3, <1>6, <1>7 DEF Superstep, SameGraph, OutOK
<1>9. QED
    BY <1>2, <1>5, <1>8 DEF Base

\* The end of a superstep that is not committed.
LEMMA AllOutFacts ==
    ASSUME Base, AllOut
    PROVE /\ phase = "tasks" /\ \A i \in DOMAIN outs : outs[i].s \in {"ask", "done", "err"}
          /\ Having("err") = {} => \A i \in DOMAIN outs : outs[i].s \in {"ask", "done"}
          /\ Having("err") = {} /\ Having("ask") = {} => AllDone
<1>1. phase = "tasks" /\ \A i \in DOMAIN outs : outs[i].s # "run" /\ outs[i].s # "handler"
    BY DEF AllOut, Having
<1>2. \A i \in DOMAIN outs : outs[i].s \in {"run", "handler", "ask", "done", "err"}
    BY <1>1, OutFacts
<1>3. QED
    BY <1>1, <1>2 DEF Having, AllDone

\* A pause or an abort saves the state the superstep began in.
AbortSaves(next, ws) ==
    /\ CheckpointSaved(st, next, ws) /\ Dispatched(next) /\ ws \in Seq(WriteRecs)
    /\ Elements(ws) = {Reserved(next[i].id, "err", <<>>) : i \in {k \in DOMAIN outs : outs[k].nodeErr}}
LEMMA AbortEffect ==
    ASSUME Base, Abort
    PROVE /\ phase = "tasks"
          /\ \/ UNCHANGED <<graph, store, lastId, io, cur>>
             \/ \E next, ws : AbortSaves(next, ws)
<1>1. phase = "tasks" /\ Saver /\ Run
    BY AllOutFacts DEF Abort, Base
<1> DEFINE next == StampDispatchIDs(tasks, cur, st.step + 1)
           failed == {i \in DOMAIN outs : outs[i].nodeErr}
           ws == Chosen([i \in DOMAIN outs |-> Reserved(next[i].id, "err", <<>>)], failed)
<1>2. Dispatched(next)
    BY <1>1, DispatchedFacts
<1>3. UNCHANGED <<graph, store, lastId, io, cur>> \/ SaveCheckpoint(st, next, ws)
    BY DEF Abort, saverVars
<1> HIDE DEF next
<1>4. failed \subseteq DOMAIN outs
    OBVIOUS
<1> HIDE DEF failed
<1>5. ws \in Seq(WriteRecs) /\ Elements(ws) = {Reserved(next[i].id, "err", <<>>) : i \in failed}
    BY <1>1, <1>2, <1>4, AbortFacts
<1> HIDE DEF ws
<1>6. CASE SaveCheckpoint(st, next, ws)
    <2>1. st \in States /\ next \in Plans
        BY <1>1, <1>2, CurFacts DEF Dispatched
    <2>2. CheckpointSaved(st, next, ws)
        BY <1>1, <1>5, <1>6, <2>1, SaveFacts
    <2>3. AbortSaves(next, ws)
        BY <1>2, <1>5, <2>2 DEF AbortSaves, failed
    <2>4. QED
        BY <1>1, <2>3
<1>7. QED
    BY <1>1, <1>3, <1>6

PauseSaves(next, ws) == CheckpointSaved(st, next, ws) /\ Dispatched(next) /\ Paused(next, ws)
LEMMA PauseEffect ==
    ASSUME Base, PauseInNode
    PROVE phase = "tasks" /\ \E next, ws : PauseSaves(next, ws)
<1>1. phase = "tasks" /\ Saver /\ Run /\ \A i \in DOMAIN outs : outs[i].s \in {"ask", "done"}
    BY AllOutFacts DEF PauseInNode, Base
<1> DEFINE next == StampDispatchIDs(tasks, cur, st.step + 1)
           ws == FlattenSeq([i \in DOMAIN outs |-> PauseWrites(next, i)])
<1>2. Dispatched(next)
    BY <1>1, DispatchedFacts
<1>3. SaveCheckpoint(st, next, ws)
    BY DEF PauseInNode
<1> HIDE DEF next
<1>4. Paused(next, ws)
    BY <1>1, <1>2, PauseFacts
<1> HIDE DEF ws
<1>5. st \in States /\ next \in Plans /\ ws \in Seq(WriteRecs)
    BY <1>1, <1>2, <1>4, CurFacts DEF Dispatched, Paused
<1>6. CheckpointSaved(st, next, ws)
    BY <1>1, <1>3, <1>5, SaveFacts
<1>7. PauseSaves(next, ws)
    BY <1>2, <1>4, <1>6 DEF PauseSaves
<1>8. QED
    BY <1>1, <1>7

\* A commit saves the state it leaves, the tasks it plans and the work it applied.
CommitSaves(s, next, ws) ==
    /\ phase = "tasks" /\ AllDone /\ Commits(applyWrites(st, CommitBatches), s)
    /\ CheckpointSaved(s, next, ws) /\ next \in Plans
    /\ s.step + 1 \in 0 .. MaxIds /\ s.step \in -1 .. lastId - 1
    /\ \/ phase' = "flush" /\ next = StampDispatchIDs(NextTasks, cur, s.step + 1)
       \/ phase' = "loop" /\ next = StampNew(NextTasks, lastId + 1, s.step + 1)
    /\ ws \in Seq(WriteRecs)
    /\ \A r \in Elements(ws) : /\ r.pre = <<>>
                               /\ \/ r.kind = "after"
                                  \/ \E i \in DOMAIN outs : r = CompletedWrites(i, TaskID(lastId + 1, s.step + 1, tasks[i]))
    /\ st' = s /\ tasks' = NextTasks /\ NextTasks \in Seq(TaskRecs) /\ rv' = <<>>
    /\ UNCHANGED <<skip, turns, execs, calls, given>> /\ result' \in {result, "interrupt"}
LEMMA CommitEffect ==
    ASSUME Base, Commit
    PROVE \E s, next, ws : CommitSaves(s, next, ws)
<1> DEFINE s == MarkSeen(Committed)
           new == lastId + 1
<1>1. phase = "tasks" /\ AllDone /\ Saver /\ Run /\ graph \in Graphs
    BY AllOutFacts DEF Commit, Base, Saver
<1>2. Commits(applyWrites(st, CommitBatches), s) /\ s \in States /\ s.step = st.step + 1
    BY <1>1, CommitFacts DEF Commits
<1>3. st' = s /\ tasks' = NextTasks /\ rv' = <<>> /\ UNCHANGED <<skip, turns, execs, calls, given>>
      /\ result' \in {result, "interrupt"} /\ lastId < MaxIds
    BY DEF Commit, historyVars, SaveCheckpoint
<1>4. NextTasks \in Seq(TaskRecs)
    BY <1>1, NextFacts
<1> DEFINE br == Reserved(BoundaryId(tasks[Min(BreaksAfter)].node), "after", <<>>)
           n1 == StampDispatchIDs(NextTasks, cur, s.step + 1)
           n2 == StampNew(NextTasks, new, s.step + 1)
           rw == RanWrites(new, s.step + 1)
<1>5. \/ BreaksAfter # {} /\ phase' = "flush" /\ SaveCheckpoint(s, n1, <<br>> \o rw)
      \/ phase' = "loop" /\ SaveCheckpoint(s, n2, rw)
    BY DEF Commit
<1> HIDE DEF s
<1>6. /\ lastId \in Nat /\ MaxIds \in Nat /\ new \in 1 .. MaxIds /\ s.step + 1 \in 0 .. MaxIds /\ cur \in 1 .. MaxIds
      /\ s.step \in -1 .. lastId - 1
    <2>1. /\ lastId \in Nat /\ MaxIds \in Nat /\ cur \in 1 .. lastId /\ cur \in 1 .. MaxIds
          /\ st.step \in Int /\ st.step + 1 \in 0 .. cur - 1
        BY <1>1, CurFacts
    <2>2. QED
        BY <1>2, <1>3, <2>1
<1>7. n1 \in Plans /\ n2 \in Plans
    BY <1>1, <1>4, <1>6, StampFacts
<1>8. rw \in Seq(WriteRecs) /\ Elements(rw) = {CompletedWrites(i, TaskID(new, s.step + 1, tasks[i])) : i \in DOMAIN outs}
    BY <1>1, <1>6, RanFacts
<1>9. \A r \in Elements(rw) : r.pre = <<>> /\ \E i \in DOMAIN outs : r = CompletedWrites(i, TaskID(new, s.step + 1, tasks[i]))
    <2>1. \A i \in DOMAIN outs : CompletedWrites(i, TaskID(new, s.step + 1, tasks[i])).pre = <<>>
        BY DEF CompletedWrites, Pending
    <2>2. QED
        BY <1>8, <2>1
<1>10. BreaksAfter # {} => br \in WriteRecs
    <2>1. BreaksAfter \subseteq Nat
        <3>1. tasks \in Seq(TaskRecs)
            BY <1>1 DEF Run
        <3>2. QED
            BY <3>1 DEF BreaksAfter
    <2>2. BreaksAfter # {} => Min(BreaksAfter) \in BreaksAfter
        BY <2>1, MinFacts
    <2>3. BreaksAfter # {} => tasks[Min(BreaksAfter)].node \in Nodes
        BY <1>1, <2>2 DEF BreaksAfter, Base, Superstep
    <2>4. QED
        BY <1>1, <2>3, ReservedFacts
<1>11. br.kind = "after" /\ br.pre = <<>>
    BY DEF Reserved, Pending
<1> HIDE DEF br, n1, n2, rw, new
<1>12. ASSUME BreaksAfter # {}, phase' = "flush", SaveCheckpoint(s, n1, <<br>> \o rw)
       PROVE CommitSaves(s, n1, <<br>> \o rw)
    <2>1. <<br>> \in Seq(WriteRecs) /\ Elements(<<br>>) = {br}
        <3> HIDE DEF WriteRecs
        <3>1. QED
            BY <1>10, <1>12 DEF Elements
    <2> DEFINE b == <<br>>
               ws == b \o rw
    <2>0. b \in Seq(WriteRecs) /\ Elements(b) = {br}
        BY <2>1
    <2> HIDE DEF b
    <2>2. ws \in Seq(WriteRecs) /\ Elements(ws) = Elements(b) \cup Elements(rw) /\ Elements(b) = {br}
        BY <1>8, <2>0, ConcatElements
    <2> HIDE DEF ws
    <2>3. ws \in Seq(WriteRecs) /\ \A r \in Elements(ws) : r = br \/ r \in Elements(rw)
        BY <2>2
    <2>4. CheckpointSaved(s, n1, ws)
        BY <1>1, <1>2, <1>7, <1>12, <2>3, SaveFacts DEF ws, b
    <2>5. \A r \in Elements(ws) : /\ r.pre = <<>>
                /\ \/ r.kind = "after"
                   \/ \E i \in DOMAIN outs : r = CompletedWrites(i, TaskID(lastId + 1, s.step + 1, tasks[i]))
        BY <1>9, <1>11, <2>3 DEF new
    <2>6. CommitSaves(s, n1, ws)
        BY <1>1, <1>2, <1>3, <1>4, <1>6, <1>7, <1>12, <2>3, <2>4, <2>5 DEF CommitSaves, n1
    <2>7. QED
        BY <2>6 DEF ws, b
<1>13. ASSUME phase' = "loop", SaveCheckpoint(s, n2, rw)
       PROVE CommitSaves(s, n2, rw)
    <2>1. CheckpointSaved(s, n2, rw)
        BY <1>1, <1>2, <1>7, <1>8, <1>13, SaveFacts
    <2>2. QED
        BY <1>1, <1>2, <1>3, <1>4, <1>6, <1>7, <1>8, <1>9, <1>13, <2>1 DEF CommitSaves, n2, new
<1>14. QED
    BY <1>5, <1>12, <1>13

\* Pauses and commits keep Base.
LEMMA BaseAbort ==
    ASSUME Base, Abort PROVE Base'
<1>1. /\ phase = "tasks" /\ phase' = "flush" /\ result' = "error"
      /\ UNCHANGED <<st, tasks, rv, skip, turns, execs, calls, given>>
    BY AbortEffect DEF Abort, Stop, historyVars
<1>2. CASE UNCHANGED <<graph, store, lastId, io, cur>>
    <2>1. calls \in Nat /\ Saver
        BY DEF Base, Run
    <2>2. Saver' /\ Saved' = Saved /\ Written' = Written
        BY <1>1, <1>2, <2>1, SaverSame
    <2>3. SameGraph
        BY <1>2, GraphFixed
    <2>4. Run'
        BY <1>1, <1>2, <2>2, <2>3 DEF Base, Run, SameGraph
    <2>5. Superstep'
        BY <1>1 DEF Superstep
    <2>6. QED
        BY <2>2, <2>4, <2>5 DEF Base
<1>3. ASSUME NEW next, NEW ws, AbortSaves(next, ws) PROVE Base'
    <2>1. CheckpointSaved(st, next, ws)
        BY <1>3 DEF AbortSaves
    <2>2. \A r \in Elements(ws) : r.pre \in Heard(calls)
        <3>1. <<>> \in Heard(calls)
            BY ReservedFacts DEF Base, Saver, Run
        <3>2. \A id : Reserved(id, "err", <<>>).pre = <<>>
            BY DEF Reserved, Pending
        <3>3. QED
            BY <1>3, <3>1, <3>2 DEF AbortSaves
    <2>3. QED
        BY <1>1, <2>1, <2>2, BaseStopsSaved
<1>4. QED
    BY <1>2, <1>3, AbortEffect

LEMMA BasePauseInNode ==
    ASSUME Base, PauseInNode PROVE Base'
<1>1. /\ phase = "tasks" /\ phase' = "flush" /\ result' = "interrupt"
      /\ UNCHANGED <<st, tasks, rv, skip, turns, execs, calls, given>>
    BY PauseEffect DEF PauseInNode, Stop, historyVars
<1>2. PICK next, ws : PauseSaves(next, ws)
    BY PauseEffect
<1>3. \A r \in Elements(ws) : r.pre \in Heard(calls)
    <2>1. <<>> \in Heard(calls)
        BY ReservedFacts DEF Base, Saver, Run
    <2>2. \A id, i : /\ Reserved(id, "err", <<>>).pre = <<>> /\ Reserved(id, "ask", outs[i].pre).pre = outs[i].pre
                     /\ CompletedWrites(i, id).pre = <<>>
        BY DEF Reserved, CompletedWrites, Pending
    <2>3. \A i \in DOMAIN outs : outs[i].pre \in Heard(calls)
        BY <1>1, OutFacts
    <2>4. ASSUME NEW r \in Elements(ws) PROVE r.pre \in Heard(calls)
        <3>1. PICK i \in DOMAIN outs : \/ r = Reserved(next[i].id, "err", <<>>)
                                       \/ r = Reserved(next[i].id, "ask", outs[i].pre)
                                       \/ r = CompletedWrites(i, next[i].id)
            BY <1>2 DEF PauseSaves, Paused
        <3>2. QED
            BY <2>1, <2>2, <2>3, <3>1
    <2>5. QED
        BY <2>4
<1>4. QED
    BY <1>1, <1>2, <1>3, BaseStopsSaved DEF PauseSaves

LEMMA BaseCommit ==
    ASSUME Base, Commit PROVE Base'
<1>1. PICK s, next, ws : CommitSaves(s, next, ws)
    BY CommitEffect
<1>2. /\ CheckpointSaved(s, next, ws) /\ s \in States /\ s.step \in -1 .. lastId - 1
      /\ st' = s /\ tasks' = NextTasks /\ NextTasks \in Seq(TaskRecs) /\ rv' = <<>>
      /\ UNCHANGED <<skip, turns, execs, calls, given>> /\ result' \in {result, "interrupt"} /\ phase' \in {"flush", "loop"}
    BY <1>1 DEF CommitSaves, Commits
<1>3. \A r \in Elements(ws) : r.pre \in Heard(calls)
    <2>1. <<>> \in Heard(calls)
        BY ReservedFacts DEF Base, Saver, Run
    <2>2. QED
        BY <1>1, <2>1 DEF CommitSaves
<1>4. Saver'
    BY <1>2, <1>3, SaverSaved DEF Base, Run
<1>5. SameGraph /\ lastId \in Nat /\ cur' = lastId + 1 /\ \E p \in Saved' : p[1] = cur'
    <2>1. graph' = graph /\ cur' = lastId + 1 /\ <<lastId + 1, s, next>> \in Saved'
        BY <1>2 DEF CheckpointSaved
    <2>2. QED
        BY <2>1, GraphFixed, Shape DEF Base, Saver, GraphShape
<1>6. st'.step \in -1 .. cur' - 2
    BY <1>2, <1>5
<1>7. DOMAIN rv' = {}
    BY <1>2
<1>8. Run'
    BY <1>2, <1>5, <1>6, <1>7 DEF Base, Run, SameGraph
<1>9. Superstep'
    BY <1>2 DEF Superstep
<1>10. QED
    BY <1>4, <1>8, <1>9 DEF Base

LEMMA BaseSaver ==
    ASSUME Base, SaverStep PROVE Base' /\ SaverExecutes
<1>1. Saver /\ Run /\ calls \in Nat /\ SaverExecutes
    BY SaverStepFacts DEF Base, Run
<1>2. UNCHANGED <<graph, lastId, phase, cur, st, tasks, outs, rv, skip, steps, drain, result, turns, execs, calls, given>>
    BY DEF SaverStep, historyVars
<1>3. lastId' \in 0 .. MaxIds /\ lastId <= lastId' /\ calls' \in Nat /\ calls <= calls'
    BY <1>1, <1>2, Shape DEF Saver, GraphShape
<1>4. Saver'
    BY <1>1, <1>2, <1>3, SaverKept DEF SaverExecutes
<1>5. SameGraph
    BY <1>2, GraphFixed
<1>6. phase # "idle"
    <2>1. io # <<>>
        BY DEF SaverStep
    <2>2. QED
        BY <1>1, <2>1 DEF Run
<1>7. \E p \in Saved' : p[1] = cur'
    BY <1>1, <1>2, <1>6 DEF Run, SaverExecutes
<1>8. Run'
    BY <1>1, <1>2, <1>5, <1>6, <1>7 DEF Run, SameGraph
<1>9. Superstep'
    BY <1>2, <1>5 DEF Base, Superstep, SameGraph, OutOK
<1>10. QED
    BY <1>1, <1>4, <1>8, <1>9 DEF Base

\* A run that ends, or dies with its process.
Ends == Flush \/ Crash
LEMMA BaseEnds ==
    ASSUME Base, Ends PROVE Base' /\ Saved' \subseteq Saved /\ Written' \subseteq Written
<1>1. Saver /\ Run /\ calls \in Nat
    BY DEF Base, Run
<1>2. /\ phase' = "idle" /\ io' = <<>> /\ cur' = 0 /\ st' = EmptyState /\ tasks' = <<>> /\ rv' = <<>> /\ skip' = {}
      /\ given' = {} /\ UNCHANGED <<graph, store, lastId, turns, execs, calls>> /\ result' \in {result, "crash"}
    BY DEF Ends, Flush, Crash, Reset, saverVars
<1>3. /\ Saved' \subseteq Saved /\ Written' \subseteq Written
      /\ io' \in Seq(SaverCalls) /\ Anchored(store', io')
    BY <1>1, <1>2, LossFacts
<1>4. /\ lastId' \in 0 .. MaxIds /\ lastId <= lastId' /\ calls' \in Nat /\ calls <= calls'
      /\ DOMAIN store' \subseteq 1 .. lastId' /\ \A c \in DOMAIN store' : store'[c] \in Recs
    BY <1>1, <1>2, Shape DEF Saver, GraphShape
<1>5. Saver'
    BY <1>1, <1>2, <1>3, <1>4, SaverKept
<1>6. SameGraph /\ EmptyState \in States /\ EmptyState.step = -1
    BY <1>1, <1>2, GraphFixed, EmptyStateType DEF Saver, EmptyState
<1>7. tasks' \in Seq(TaskRecs') /\ DOMAIN rv' = {}
    BY <1>2
<1>8. Run'
    BY <1>1, <1>2, <1>6, <1>7 DEF Run, SameGraph
<1>9. Superstep'
    BY <1>2 DEF Superstep
<1>10. QED
    BY <1>3, <1>5, <1>8, <1>9 DEF Base

\* Nothing Base speaks of changes.
Idles == RequestDrain \/ UNCHANGED vars
LEMMA BaseIdles ==
    ASSUME Base, Idles PROVE Base' /\ Saved' = Saved /\ Written' = Written
<1>1. UNCHANGED <<graph, store, lastId, phase, io, cur, st, tasks, outs, rv, skip, result, turns, execs, calls, given>>
    BY DEF Idles, RequestDrain, vars, saverVars, runVars, historyVars
<1>2. calls \in Nat /\ Saver
    BY DEF Base, Run
<1>3. Saver' /\ Saved' = Saved /\ Written' = Written
    BY <1>1, <1>2, SaverSame
<1>4. SameGraph
    BY <1>1, GraphFixed
<1>5. Run'
    BY <1>1, <1>3, <1>4 DEF Base, Run, SameGraph
<1>6. Superstep'
    BY <1>1, <1>4 DEF Base, Superstep, SameGraph, OutOK
<1>7. QED
    BY <1>3, <1>5, <1>6 DEF Base

\* The steps of Next, by what they do to the saver.
LEMMA Steps ==
    ASSUME [Next]_vars
    PROVE \/ Starts \/ StopsHere \/ PauseBefore \/ Dispatch \/ TaskStep \/ Abort \/ PauseInNode \/ Commit
          \/ SaverStep \/ Ends \/ Idles
BY DEF Next, HeadStep, EndStep, StopsHere, Ends, Idles, Rest

LEMMA BaseStep ==
    ASSUME Base, [Next]_vars PROVE Base'
BY Steps, BaseStarts, BaseStopsHere, BasePauseBefore, BaseDispatch, BaseTask, BaseAbort, BasePauseInNode,
   BaseCommit, BaseSaver, BaseEnds, BaseIdles

LEMMA BaseAlways == Spec => []Base
<1>1. Base /\ [Next]_vars => Base'
    BY BaseStep
<1>2. QED
    BY BaseInit, <1>1, PTL DEF Spec

\* Type correctness of the run loop: identities, positions and counters stay in
\* range whatever pauses, resumes, crashes and drains happen.
THEOREM PregelTypes == Spec => []TypeOK
<1>1. Base => TypeOK
    <2> SUFFICES ASSUME Base PROVE TypeOK
        OBVIOUS
    <2>1. Saver /\ Run /\ graph \in Graphs /\ MaxIds \in Nat
        BY Shape DEF Base, Saver, GraphShape
    <2>2. RealIDs \subseteq TaskIDs /\ NoId \in TaskIDs
        <3>1. 1 .. MaxIds \subseteq -1 .. MaxIds /\ 0 .. MaxIds \subseteq -1 .. MaxIds + 1
              /\ -1 \in -1 .. MaxIds /\ 0 \in -1 .. MaxIds + 1
            BY <2>1
        <3>2. QED
            BY <3>1 DEF RealIDs, TaskIDs, NoId
    <2>3. /\ DOMAIN store \subseteq 1 .. lastId /\ lastId \in 0 .. MaxIds /\ lastId \in Nat
          /\ phase \in {"idle", "loop", "tasks", "flush"}
          /\ result \in {"none", "ok", "interrupt", "drained", "error", "crash"}
        BY <2>1, Shape DEF Saver, Run, GraphShape
    <2>4. cur \in 0 .. lastId /\ st.step \in -1 .. MaxIds
        <3>1. CASE phase = "idle"
            BY <2>1, <2>3, <3>1 DEF Run
        <3>2. CASE phase # "idle"
            <4>1. cur \in 1 .. lastId /\ st.step \in Int /\ st.step + 1 \in 0 .. MaxIds
                BY <2>1, <3>2, CurFacts
            <4>2. QED
                BY <2>1, <2>3, <4>1
        <3>3. QED
            BY <3>1, <3>2
    <2>5. \A c \in DOMAIN store : \A i \in PlanIdx(c) : store[c].next[i].id \in TaskIDs
        BY <2>1, <2>2, PlanFacts
    <2>6. \A i \in DOMAIN tasks : tasks[i].id \in TaskIDs
        <3>1. tasks \in Seq(TaskRecs)
            BY <2>1 DEF Run
        <3>2. \A t \in TaskRecs : t.id \in TaskIDs
            BY <2>2 DEF TaskRecs
        <3> HIDE DEF TaskRecs
        <3>3. QED
            BY <3>1, <3>2
    <2>7. DOMAIN outs \subseteq DOMAIN tasks \/ phase # "tasks"
        BY DEF Base, Superstep
    <2>8. DOMAIN rv \subseteq TaskIDs /\ skip \subseteq Nodes /\ given \subseteq DOMAIN rv \cup TaskIDs
        BY <2>1, <2>2 DEF Run
    <2>9. QED
        BY <2>3, <2>4, <2>5, <2>6, <2>7, <2>8 DEF TypeOK
<1>2. QED
    BY BaseAlways, <1>1, PTL

\* Each Interrupt call of a node returns the answer the caller gave to that very
\* question, in the order of the caller's calls: whatever a pause persisted, and
\* whatever Abort or a crash lost since, no resume misaligns a value.
THEOREM AnswersStayInOrder == Spec => []AnswersInOrder
<1>1. Base => AnswersInOrder
    <2> SUFFICES ASSUME Base PROVE AnswersInOrder
        OBVIOUS
    <2>1. ASSUME NEW l \in Logs PROVE l \in Seq(Tokens)
        <3>1. st.log \in Seq(Tokens)
            BY DEF Base, Run, States
        <3>2. \A c \in DOMAIN store : store[c].st.log \in Seq(Tokens)
            BY ReadFacts DEF Base, States
        <3>3. QED
            BY <3>1, <3>2 DEF Logs
    <2>2. ASSUME NEW l \in Logs, NEW i \in DOMAIN l PROVE Aligned(l[i].a)
        <3>1. l \in Seq(Tokens)
            BY <2>1
        <3>2. \A t \in Tokens : t.a \in AnswerSeqs
            BY DEF Tokens
        <3> HIDE DEF Tokens
        <3>3. l[i] \in Tokens
            BY <3>1
        <3>4. QED
            BY <3>2, <3>3 DEF AnswerSeqs
    <2>3. ASSUME NEW i \in Having("run") PROVE Aligned(Queue(tasks[i]))
        BY QueueHeard DEF Heard, AnswerSeqs
    <2>4. QED
        BY <2>2, <2>3 DEF AnswersInOrder
<1>2. QED
    BY BaseAlways, <1>1, PTL
=============================================================================
