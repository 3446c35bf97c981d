---------------------------- MODULE DeltaHistory ----------------------------
(***************************************************************************)
(* What a checkpoint says of a delta channel.  A delta channel is stored   *)
(* as a value (a snapshot) only now and then; between snapshots it is      *)
(* rebuilt from the pending writes along the chain of parents.  Under exit *)
(* durability nothing is saved while the run goes on: its writes are       *)
(* accumulated and, at the end, stored on the checkpoint the run started   *)
(* from, or on the pause checkpoint, or on a stub.                         *)
(*                                                                         *)
(* One thread, one run at a time.  The graph is a sequence of supersteps;  *)
(* a superstep is a sequence of tasks [w, ow, asks]: the delta channels    *)
(* the task writes, whether it overwrites them, whether it interrupts      *)
(* until it is answered.  Every write is a token of its own and a          *)
(* channel's value is the sequence of its tokens, so that a write that is  *)
(* lost, repeated or out of order shows.  An operation's saver calls are a *)
(* sequence of which a prefix is executed when a call fails.               *)
(***************************************************************************)
EXTENDS Integers, Sequences, FiniteSets, SequencesExt, FiniteSetsExt, TLC

CONSTANTS
    Chs,            \* the delta channels of the graph
    Graphs,         \* [steps, input, freq, before, after, saver, modes, addressed, turns, stops, updates, maxRuns, maxFaults]
    MaxSupersteps,  \* DeltaMaxSuperstepsSinceSnapshot
    MaxIds          \* bound: checkpoint IDs minted

ASSUME GraphsAssumption ==
    \A g \in Graphs :
        /\ \A p \in DOMAIN g.steps : \A i \in DOMAIN g.steps[p] :
              Range(g.steps[p][i].w) \subseteq Chs
        /\ g.input \in Seq(Chs)
        /\ g.freq \in [Chs -> Nat \ {0}]
        /\ g.saver \in {"memory", "sql"}
        /\ g.modes \subseteq {"sync", "exit"}

VARIABLES
    graph,      \* the graph of this behaviour; it never changes
    saved,      \* the saver: id -> [val, vers, parent, writes, step, next, cnt, stub]
    lastId,     \* the last checkpoint ID minted
    pc,         \* "idle", or "loop": the head of the run loop
    run,        \* the run and its sink
    rs,         \* runState: [val, vers, cnt, step, forced, upd]
    \* bounds and history
    nruns, faults,
    truth,      \* id -> the values the checkpoint stands for
    anchored,   \* checkpoints that hold writes of a later exit run
    inputOn,    \* those that hold a later run's input
    start,      \* how the last run or update was seeded: [clean, val, expect]
    last        \* the checkpoint the last run stopped at, NoId if it failed or saved none

vars == <<graph, saved, lastId, pc, run, rs, nruns, faults, truth, anchored, inputOn, start, last>>

Unset == <<0>>                  \* a channel never written; tokens are positive
NoId == 0
Null == <<0, 0, 0>>             \* checkpoint.NullTaskID
Blank == [c \in Chs |-> Unset]

-----------------------------------------------------------------------------
(* Task IDs and paths: what a saver keys and orders pending writes by.     *)

RealID(t) == [form |-> "real", step |-> 0, task |-> t]

exitDeltaTaskID(s, t) == [form |-> "exit", step |-> s, task |-> t]

exitDeltaLateTaskID(s, t) == [form |-> "late", step |-> s, task |-> t]

\* Paths in the order they sort: "", "!" step path, path, "~~" step path.
PathKey(class, s, i) == class * 10000 + (s + 2) * 100 + i
InputPath == PathKey(0, 0, 0)
EarlyPath(s, i) == PathKey(1, s, i)
RealPath(i) == PathKey(2, 0, i)
LatePath(s, i) == PathKey(3, s, i)

\* Mutant: late IDs are not recognised.
ParseOnlyFirst(tid) == IF tid.form = "exit" /\ tid.task # Null THEN tid.step ELSE -9

\* The superstep of a synthetic ID, or a step before any for the others.
parseExitDeltaTaskID(tid) ==
    IF tid.form \in {"exit", "late"} /\ tid.task # Null THEN tid.step ELSE -9

\* The token task i of superstep p writes in run n; (0, 0) is the input.
Token(n, p, i) == n * 100 + p * 10 + i

\* The write batch of a task, one entry per channel in key order.
Batch(t, i, ow, chs) ==
    [j \in DOMAIN chs |-> [ch |-> chs[j], tok |-> Token(t[1], t[2], t[3]), ow |-> ow, task |-> t, path |-> i]]

-----------------------------------------------------------------------------
(* The saver.                                                              *)

PutReq(id, cp) == [op |-> "put", id |-> id, cp |-> cp]

\* A batch under one task ID; the entries are numbered from 0.
WriteReq(id, batch, tid, path) ==
    [op |-> "writes", id |-> id,
     ws |-> [j \in DOMAIN batch |-> [tid |-> tid, idx |-> j - 1, path |-> path,
                                     ch |-> batch[j].ch, tok |-> batch[j].tok, ow |-> batch[j].ow]]]

\* Put replaces the checkpoint and keeps its writes.
Put(s, id, cp) ==
    (id :> [cp EXCEPT !.writes = IF id \in DOMAIN s THEN s[id].writes ELSE <<>>]) @@ s

\* The first write of a (task, idx) slot wins.
PutWrites(s, id, ws) ==
    LET taken(w) == \E v \in Range(s[id].writes) : v.tid = w.tid /\ v.idx = w.idx
    IN  [s EXCEPT ![id].writes = @ \o SelectSeq(ws, LAMBDA w : ~taken(w))]

Execute(s, r) == IF r.op = "put" THEN Put(s, r.id, r.cp) ELSE PutWrites(s, r.id, r.ws)

ExecuteAll(s, reqs) == FoldLeft(Execute, s, reqs)

\* How GetTuple orders a checkpoint's writes: as inserted, or by path and
\* position.
PendingWrites(cp) ==
    IF graph.saver = "memory" THEN cp.writes
    ELSE SortSeq(cp.writes, LAMBDA v, w : v.path < w.path \/ (v.path = w.path /\ v.idx < w.idx))

Latest(s) == Max(DOMAIN s)

-----------------------------------------------------------------------------
(* Reconstruction.                                                         *)

\* The checkpoint and its ancestors, as far as they are saved.  A chain
\* longer than the number of checkpoints is one that never ends.
Chain(s, id) ==
    LET up[k \in 0..Cardinality(DOMAIN s)] ==
            IF k = 0 THEN <<id>>
            ELSE LET p == s[Last(up[k - 1])].parent
                 IN  IF p \in DOMAIN s /\ Len(up[k - 1]) = k THEN Append(up[k - 1], p) ELSE up[k - 1]
    IN  up[Cardinality(DOMAIN s)]

Endless(s, id) == Len(Chain(s, id)) > Cardinality(DOMAIN s)

\* Overwrites reset the base; what follows the last one is appended.
ReplayWrites(base, ws) ==
    LET resets == {k \in DOMAIN ws : ws[k].ow}
        from == IF resets = {} THEN 1 ELSE Max(resets)
        toks == [k \in 1..(Len(ws) - from + 1) |-> ws[from + k - 1].tok]
    IN  IF resets = {} THEN base \o toks ELSE toks

\* The ancestors below the first that stores a value are replayed.
ReplayUpTo(s, chain, c) ==
    LET withValue == {j \in 2..Len(chain) : s[chain[j]].val[c] # Unset}
    IN  IF withValue = {} THEN Len(chain) ELSE Min(withValue) - 1

\* One channel as read at checkpoint id; skip names tasks whose writes on id
\* itself are left out.
rebuildDeltaChannel(s, id, c, skip) ==
    LET cp == s[id]
        chain == Chain(s, id)
        n == ReplayUpTo(s, chain, c)
        own(j) == SelectSeq(PendingWrites(s[chain[j]]),
                            LAMBDA w : w.ch = c /\ ~(j = 1 /\ w.tid \in skip))
        ws == FlattenSeq([k \in 1..n |-> own(n + 1 - k)])
        withValue == {j \in 2..Len(chain) : s[chain[j]].val[c] # Unset}
        seed == IF withValue = {} THEN Unset ELSE s[chain[Min(withValue)]].val[c]
    IN  CASE cp.val[c] # Unset -> cp.val[c]
          [] (cp.vers # {} \/ cp.stub) /\ c \notin cp.vers -> Unset
          [] seed = Unset /\ ws = <<>> -> Unset
          [] OTHER -> ReplayWrites(IF seed = Unset THEN <<>> ELSE seed, ws)

Hydrated(s, id, skip) == [c \in Chs |-> rebuildDeltaChannel(s, id, c, skip)]

GetState(s, id) == Hydrated(s, id, {})

-----------------------------------------------------------------------------
(* The run state.                                                          *)

FreshState == [val |-> Blank, vers |-> {}, cnt |-> [c \in Chs |-> <<0, 0>>],
               step |-> -1, forced |-> {}, upd |-> {}]

\* The state at checkpoint id, its channels hydrated.
Restore(s, id, skip, forced) ==
    [val |-> Hydrated(s, id, skip), vers |-> s[id].vers, cnt |-> s[id].cnt,
     step |-> s[id].step, forced |-> forced, upd |-> {}]

\* DeltaChannel.Update with one superstep's writes of a channel.
Update(v, ws) ==
    LET resets == {k \in DOMAIN ws : ws[k].ow}
        toks == [k \in DOMAIN ws |-> ws[k].tok]
    IN  CASE ws = <<>> -> v
          [] resets # {} -> <<ws[Max(resets)].tok>>
          [] OTHER -> (IF v = Unset THEN <<>> ELSE v) \o toks

\* One superstep's writes, in task order; an overwritten channel is snapshot
\* by the next checkpoint.
applyWrites(st, ws) ==
    LET written == {w.ch : w \in Range(ws)}
    IN  [st EXCEPT !.val = [c \in Chs |-> Update(@[c], SelectSeq(ws, LAMBDA w : w.ch = c))],
                   !.vers = @ \cup written,
                   !.upd = written,
                   !.forced = @ \cup {w.ch : w \in {v \in Range(ws) : v.ow}}]

advanceDeltaCounters(st) ==
    [c \in Chs |-> <<st.cnt[c][1] + (IF c \in st.upd THEN 1 ELSE 0), st.cnt[c][2] + 1>>]

Available(st) == {c \in Chs : st.val[c] # Unset}

DeltaChannelsToSnapshot(st, cnt) ==
    {c \in Available(st) : cnt[c][1] >= graph.freq[c] \/ cnt[c][2] >= MaxSupersteps}

Reset(cnt, snap) == [c \in Chs |-> IF c \in snap THEN <<0, 0>> ELSE cnt[c]]

checkpointValues(st, snap) == [c \in Chs |-> IF c \in snap THEN st.val[c] ELSE Unset]

\* Mutant: a pause snapshots the channels its own pending writes are for.
SnapshotAll(st, source, pause, suppress) ==
    DeltaChannelsToSnapshot(st, advanceDeltaCounters(st)) \cup st.forced
        \cup (IF source = "update" THEN Available(st) ELSE {})

SnapshotSet(st, source, pause, suppress) ==
    (DeltaChannelsToSnapshot(st, advanceDeltaCounters(st)) \cup st.forced
        \cup (IF source = "update" THEN Available(st) ELSE {}))
    \ (IF pause THEN suppress ELSE {})

\* The run state after saveCheckpoint: counters advanced and reset; the
\* forced set is consumed only by a save that is persisted.
AfterSave(st, mode, source, pause, suppress) ==
    [st EXCEPT !.cnt = Reset(advanceDeltaCounters(st), SnapshotSet(st, source, pause, suppress)),
               !.forced = IF mode # "exit" \/ pause THEN {} ELSE @]

\* The checkpoint saveCheckpoint assembles.
Checkpoint(st, source, pause, suppress, parent, next) ==
    [val |-> checkpointValues(st, SnapshotSet(st, source, pause, suppress)),
     vers |-> st.vers, parent |-> parent, writes |-> <<>>, step |-> st.step, next |-> next,
     cnt |-> Reset(advanceDeltaCounters(st), SnapshotSet(st, source, pause, suppress)),
     stub |-> FALSE]

\* repairPut: the checkpoint with every channel materialised that the pause
\* did not suppress.
Repaired(cp, st, suppress) ==
    [cp EXCEPT !.val = [c \in Chs |-> IF c \in suppress \/ st.val[c] = Unset THEN @[c] ELSE st.val[c]]]

-----------------------------------------------------------------------------
(* Saves.  reqs are the saver calls of one operation; all of them succeed, *)
(* or call k fails and, behind the put, the checkpoint is repaired.        *)

Idle == [mode |-> "sync", addressed |-> FALSE, init |-> NoId, cur |-> NoId, stubId |-> NoId,
         first |-> -9, acc |-> <<>>, pos |-> 0, active |-> {}, skip |-> FALSE, answered |-> {}]

Position == Len(graph.steps)
NextPos(p) == IF p < Position THEN p + 1 ELSE 0
Tasks(p) == graph.steps[p]
InOrder(S) == SetToSortSeq(S, <)

\* The batches of the given tasks of superstep p.
Batches(n, p, S) ==
    [k \in 1..Cardinality(S) |->
        LET i == InOrder(S)[k] IN Batch(<<n, p, i>>, i, Tasks(p)[i].ow, Tasks(p)[i].w)]

NonEmpty(batches) == SelectSeq(batches, LAMBDA b : b # <<>>)

RealWrites(id, batches) ==
    [k \in DOMAIN batches |-> WriteReq(id, batches[k], RealID(batches[k][1].task), RealPath(batches[k][1].path))]

\* exitWriteKey: the anchor superstep keeps its paths, later ones sort behind.
ExitWrite(id, w, first) ==
    LET entry == <<w>>
    IN  CASE w.task = Null -> WriteReq(id, entry, exitDeltaTaskID(w.step, w.task), InputPath)
          [] w.task # Null /\ w.step = first ->
                WriteReq(id, entry, exitDeltaTaskID(w.step, w.task), RealPath(w.path))
          [] OTHER -> WriteReq(id, entry, exitDeltaLateTaskID(w.step, w.task), LatePath(w.step, w.path))

\* exitPauseWriteKey: accumulated writes sort before the pause's own.
ExitPauseWrite(id, w) ==
    WriteReq(id, <<w>>, exitDeltaTaskID(w.step, w.task),
             IF w.task = Null THEN InputPath ELSE EarlyPath(w.step, w.path))

Accumulate(acc, batches, step) ==
    acc \o [k \in DOMAIN FlattenSeq(batches) |->
              LET w == FlattenSeq(batches)[k]
              IN  [ch |-> w.ch, tok |-> w.tok, ow |-> w.ow, task |-> w.task, path |-> w.path, step |-> step]]

EndRun(id) ==
    pc' = "idle" /\ run' = Idle /\ rs' = FreshState /\ last' = id

Fault == faults < graph.maxFaults /\ faults' = faults + 1

\* A run that loads checkpoint init (NoId: a fresh thread) and starts from
\* state st: the exit sink reserves the ID of its stub before any other.
newRun(mode, addressed, init, st) ==
    [Idle EXCEPT !.mode = mode, !.addressed = addressed, !.init = init, !.cur = init,
                 !.stubId = IF mode = "exit" /\ init = NoId THEN lastId + 1 ELSE NoId,
                 !.first = st.step + 1]

At(r, id, next) ==
    [r EXCEPT !.cur = id, !.pos = next, !.active = IF next = 0 THEN {} ELSE DOMAIN Tasks(next),
              !.skip = FALSE, !.answered = {}]

\* An input or commit checkpoint, then the writes it observed.
Save(r, st, id, source, next, batches, reqs) ==
    LET cp == Checkpoint(st, source, FALSE, {}, r.cur, next)
        all == <<PutReq(id, cp)>> \o reqs
    IN  /\ id <= MaxIds /\ lastId' = id
        /\ \/ /\ r.mode = "exit"
              /\ run' = [At(r, id, next) EXCEPT !.acc = Accumulate(@, batches, IF source = "input" THEN 0 ELSE st.step)]
              /\ rs' = AfterSave(st, "exit", source, FALSE, {})
              /\ pc' = "loop" /\ last' = NoId
              /\ UNCHANGED <<saved, truth, faults>>
           \/ /\ r.mode = "sync"
              /\ saved' = ExecuteAll(saved, all)
              /\ truth' = (id :> st.val) @@ truth
              /\ run' = At(r, id, next) /\ rs' = AfterSave(st, "sync", source, FALSE, {})
              /\ pc' = "loop" /\ last' = NoId
              /\ UNCHANGED faults
           \/ /\ r.mode = "sync" /\ Fault
              /\ EndRun(NoId)
              /\ \/ UNCHANGED <<saved, truth>>
                 \/ \E k \in 2..Len(all) :
                       /\ saved' = Put(ExecuteAll(saved, SubSeq(all, 1, k - 1)), id, Repaired(cp, st, {}))
                       /\ truth' = (id :> st.val) @@ truth

\* The interrupt record of a pause: a pending write of no channel.
Intr == "interrupt"
InterruptReq(id, tid, path) ==
    [op |-> "writes", id |-> id,
     ws |-> <<[tid |-> tid, idx |-> -1, path |-> path, ch |-> Intr, tok |-> 0, ow |-> FALSE]>>]

\* The saver calls of a pause checkpoint: under exit durability its parent is
\* the checkpoint the run started from, and the accumulated writes of
\* channels it does not snapshot follow it.
PauseReqs(id, cp, own) ==
    LET kept == SelectSeq(run.acc, LAMBDA w : cp.val[w.ch] = Unset)
    IN  <<PutReq(id, cp)>>
        \o (IF run.mode = "exit" THEN [k \in DOMAIN kept |-> ExitPauseWrite(id, kept[k])] ELSE <<>>)
        \o own

\* What a pause stands for: its state and, where it precedes the superstep,
\* the work of the siblings whose writes were stored.
PauseTruth(st, own, folds) ==
    IF folds THEN st.val
    ELSE applyWrites(st, SelectSeq(FlattenSeq([k \in DOMAIN own |-> own[k].ws]), LAMBDA w : w.ch # Intr)).val

\* Save st as a pause planning superstep next, with its own pending writes.
Pause(st, next, suppress, own, folds) ==
    LET id == lastId + 1
        cp == Checkpoint(st, "loop", TRUE, suppress, IF run.mode = "exit" THEN run.init ELSE run.cur, next)
        reqs == PauseReqs(id, cp, own)
        ahead == Len(reqs) - Len(own)
        landed(k) == SubSeq(own, 1, k - 1 - ahead)
    IN  /\ id <= MaxIds /\ lastId' = id
        /\ \/ /\ saved' = ExecuteAll(saved, reqs)
              /\ truth' = (id :> PauseTruth(st, own, folds)) @@ truth
              /\ EndRun(id)
              /\ UNCHANGED faults
           \/ /\ Fault
              /\ EndRun(NoId)
              /\ \/ UNCHANGED <<saved, truth>>
                 \/ \E k \in 2..Len(reqs) :
                       LET s == ExecuteAll(saved, SubSeq(reqs, 1, k - 1))
                       IN  /\ saved' = IF reqs[k].ws[1].ch = Intr THEN s
                                       ELSE Put(s, id, Repaired(cp, st, suppress))
                           /\ truth' = (id :> PauseTruth(st, landed(k), folds)) @@ truth
        /\ UNCHANGED <<anchored, inputOn>>

-----------------------------------------------------------------------------
(* The end of a run under exit durability.                                 *)

\* The channels the final checkpoint stores: by cadence, by force, and those
\* the run wrote where writes on its parent would be read by another branch
\* (an addressed parent) or by nobody (a parent that stores the channel).
FlushSnapshots(r, st) ==
    LET written == {w.ch : w \in Range(r.acc)} \cap Available(st)
    IN  DeltaChannelsToSnapshot(st, st.cnt) \cup st.forced
            \cup (IF r.init # NoId /\ r.addressed THEN written ELSE {})
            \cup (IF r.init # NoId THEN {c \in written : saved[r.init].val[c] # Unset} ELSE {})

Stub == [val |-> Blank, vers |-> {}, parent |-> NoId, writes |-> <<>>, step |-> -2, next |-> 0,
         cnt |-> FreshState.cnt, stub |-> TRUE]

\* Mutant: the stub's ID is minted by the flush.
StubAtFlush(r) == lastId + 1

StubID(r) == r.stubId

FinalCheckpoint(r, st, parent) ==
    LET snap == FlushSnapshots(r, st)
    IN  [val |-> checkpointValues(st, snap), vers |-> st.vers, parent |-> parent, writes |-> <<>>,
         step |-> st.step, next |-> 0, cnt |-> Reset(st.cnt, snap), stub |-> FALSE]

\* The saver calls of flushExit: the stub if the thread was fresh, the
\* accumulated writes on the anchor, the final checkpoint.
FlushReqs(r, st) ==
    LET pending == SelectSeq(r.acc, LAMBDA w : w.ch \notin FlushSnapshots(r, st))
        stub == r.init = NoId /\ pending # <<>>
        anchor == IF r.init # NoId THEN r.init ELSE IF stub THEN StubID(r) ELSE NoId
    IN  (IF stub THEN <<PutReq(anchor, Stub)>> ELSE <<>>)
        \o [k \in DOMAIN pending |-> ExitWrite(anchor, pending[k], r.first)]
        \o <<PutReq(r.cur, FinalCheckpoint(r, st, anchor))>>

\* The first n of the calls have succeeded.
Flushed(reqs, n) ==
    LET some == SubSeq(reqs, 1, n)
        puts == {some[k].id : k \in {j \in 1..n : some[j].op = "put"}}
        onInit == {w \in Range(some) : w.op = "writes" /\ w.id = run.init}
    IN  /\ saved' = ExecuteAll(saved, some)
        /\ truth' = [i \in puts |-> IF i = run.cur THEN rs.val ELSE Blank] @@ truth
        /\ anchored' = anchored \cup {w.id : w \in onInit}
        /\ inputOn' = inputOn \cup {w.id : w \in {v \in onInit : v.ws[1].tid.task = Null}}

\* The deferred flush with the run's result; call k fails, or none.
FlushExit(result) ==
    LET reqs == FlushReqs(run, rs)
    IN  \/ Flushed(reqs, Len(reqs)) /\ EndRun(result) /\ UNCHANGED <<lastId, faults>>
        \/ /\ Fault
           /\ \E k \in 1..Len(reqs) : Flushed(reqs, k - 1)
           /\ EndRun(NoId) /\ UNCHANGED lastId

\* The end of a run that saved its state on the way, or flushes it now.
End(result) ==
    \/ run.mode = "exit" /\ FlushExit(result)
    \/ /\ run.mode = "sync" /\ EndRun(result)
       /\ UNCHANGED <<saved, truth, lastId, anchored, inputOn, faults>>

-----------------------------------------------------------------------------
(* Runs.                                                                   *)

InputBatch(n) ==
    [j \in DOMAIN graph.input |->
        [ch |-> graph.input[j], tok |-> Token(n, 0, 0), ow |-> FALSE, task |-> Null, path |-> 0]]

\* persistDeltaInputWrites, behind the input checkpoint.
InputReqs(id, n) ==
    IF graph.input = <<>> THEN <<>> ELSE <<WriteReq(id, InputBatch(n), RealID(Null), InputPath)>>

\* What checkpoint id stands for, but for a channel first written by a
\* sibling of the interrupted task: it has no version yet and is not shown.
Shown(id) == [c \in Chs |-> IF c \in saved[id].vers THEN truth[id][c] ELSE Unset]

Begin == pc = "idle" /\ nruns < graph.maxRuns /\ nruns' = nruns + 1

\* The input is the first write batch of a fresh thread.
InvokeFresh(mode) ==
    LET st == applyWrites(FreshState, InputBatch(nruns + 1))
        r == newRun(mode, FALSE, NoId, st)
        id == lastId + (IF mode = "exit" THEN 2 ELSE 1)
    IN  /\ Begin /\ DOMAIN saved = {}
        /\ Save(r, st, id, "input", 1, <<InputBatch(nruns + 1)>>, InputReqs(id, nruns + 1))
        /\ start' = [clean |-> TRUE, val |-> Blank, expect |-> Blank]
        /\ UNCHANGED <<graph, anchored, inputOn>>

\* The loaded checkpoint: the latest, or one the caller addresses.
Loads(id, addressed) ==
    /\ id \in DOMAIN saved
    /\ IF addressed THEN graph.addressed ELSE id = Latest(saved)

\* New input on top of checkpoint id; channels with pending writes on it are
\* snapshot by the turn's first checkpoint.
InvokeNewTurn(mode, id, addressed) ==
    LET st0 == Restore(saved, id, {}, {w.ch : w \in Range(saved[id].writes)} \cap Chs)
        st == applyWrites(st0, InputBatch(nruns + 1))
        new == lastId + 1
    IN  /\ Begin /\ graph.turns /\ Loads(id, addressed)
        /\ Save(newRun(mode, addressed, id, st), st, new, "input", 1,
                <<InputBatch(nruns + 1)>>, InputReqs(new, nruns + 1))
        /\ start' = [clean |-> id \notin anchored /\ ~Endless(saved, id), val |-> st0.val, expect |-> Shown(id)]
        /\ UNCHANGED <<graph, anchored, inputOn>>

\* The planned tasks of checkpoint cp that have stored a write of the kind.
Recorded(cp, isIntr) ==
    IF cp.next = 0 THEN {}
    ELSE {i \in DOMAIN Tasks(cp.next) :
            \E w \in Range(cp.writes) :
                /\ w.tid.form = "real" /\ w.tid.task[2] = cp.next /\ w.tid.task[3] = i
                /\ (w.ch = Intr) = isIntr}

\* Writes an exit run stored on the checkpoint it started from: work of a
\* branch that consumed the checkpoint, not of the checkpoint.
StaleWrites(cp) == {w \in Range(cp.writes) : parseExitDeltaTaskID(w.tid) > cp.step}

\* Mutant: every channel with a pending write, interrupt records included.
SealEveryWrite(cp) == {w.ch : w \in Range(cp.writes)}

SealedChannels(cp) == {w.ch : w \in StaleWrites(cp)}

\* Continue checkpoint id: the channels are hydrated without the stale writes
\* and without those of completed siblings, which are then replayed.
Resume(mode, id, addressed) ==
    LET cp == saved[id]
        done == Recorded(cp, FALSE)
        replay == SelectSeq(PendingWrites(cp),
                            LAMBDA w : w.ch # Intr /\ w.tid.form = "real" /\ w.tid.task[2] = cp.next /\ cp.next # 0)
        skip == {w.tid : w \in StaleWrites(cp) \cup Range(replay)}
        st0 == Restore(saved, id, skip, SealedChannels(cp))
        st == IF replay = <<>> THEN st0 ELSE applyWrites(st0, replay)
    IN  /\ Begin /\ Loads(id, addressed)
        /\ rs' = st /\ pc' = "loop" /\ last' = NoId
        /\ run' = [newRun(mode, addressed, id, st) EXCEPT
                      !.pos = cp.next,
                      !.active = IF cp.next = 0 THEN {} ELSE DOMAIN Tasks(cp.next) \ done,
                      !.skip = \E w \in Range(cp.writes) : w.ch = Intr /\ w.tid.task = <<0, cp.next, 0>>,
                      !.answered = Recorded(cp, TRUE)]
        /\ start' = [clean |-> id \notin inputOn /\ ~Endless(saved, id), val |-> st.val, expect |-> truth[id]]
        /\ UNCHANGED <<graph, saved, lastId, truth, anchored, inputOn, faults>>

-----------------------------------------------------------------------------
(* The run loop.                                                           *)

Looping == pc = "loop" /\ UNCHANGED <<graph, nruns, start>>
AtTask == Looping /\ run.active # {}

\* The checkpoint the run is at, if it is one of its own.
StoppedAt == IF run.cur = run.init THEN NoId ELSE run.cur

Finish ==
    /\ Looping /\ run.active = {}
    /\ End(StoppedAt)

PausesBefore == run.pos \in graph.before /\ ~run.skip

PauseBefore ==
    /\ AtTask /\ PausesBefore
    /\ Pause(rs, run.pos, {}, <<InterruptReq(lastId + 1, RealID(<<0, run.pos, 0>>), InputPath)>>, TRUE)

\* A drain request stops the run at the boundary; under exit durability the
\* boundary is saved like a pause.
Drain ==
    /\ AtTask /\ ~PausesBefore /\ graph.stops
    /\ \/ run.mode = "exit" /\ Pause(rs, run.pos, {}, <<>>, TRUE)
       \/ /\ run.mode = "sync"
          /\ EndRun(StoppedAt)
          /\ UNCHANGED <<saved, truth, lastId, anchored, inputOn, faults>>

\* A node returns an error: the run ends with it, and with the flush.
NodeFails ==
    /\ AtTask /\ ~PausesBefore /\ graph.stops
    /\ End(NoId)

Askers == {i \in run.active : Tasks(run.pos)[i].asks /\ i \notin run.answered}

\* Some tasks interrupt: the state before the superstep is saved, with the
\* interrupts and the writes of the tasks that completed.
PauseInNode ==
    LET id == lastId + 1
        order == InOrder(run.active)
        own(i) == IF i \in Askers
                  THEN <<InterruptReq(id, RealID(<<nruns, run.pos, i>>), RealPath(i))>>
                  ELSE RealWrites(id, NonEmpty(Batches(nruns, run.pos, {i})))
        suppress == UNION {Range(Tasks(run.pos)[i].w) : i \in run.active \ Askers}
    IN  /\ AtTask /\ ~PausesBefore /\ Askers # {}
        /\ Pause(rs, run.pos, suppress, FlattenSeq([k \in DOMAIN order |-> own(order[k])]), FALSE)

\* All tasks complete: their writes are applied, then saved with a commit or
\* an interrupt_after checkpoint planning the next superstep.
Commit ==
    LET batches == NonEmpty(Batches(nruns, run.pos, run.active))
        st == [applyWrites(rs, FlattenSeq(batches)) EXCEPT !.step = @ + 1]
        id == lastId + 1
        next == NextPos(run.pos)
    IN  /\ AtTask /\ ~PausesBefore /\ Askers = {}
        /\ IF run.pos \in graph.after
           THEN Pause(st, next, {},
                      <<InterruptReq(id, RealID(<<0, 0, 0>>), InputPath)>> \o RealWrites(id, batches), TRUE)
           ELSE /\ Save(run, st, id, "loop", next, batches, RealWrites(id, batches))
                /\ UNCHANGED <<anchored, inputOn>>

\* UpdateState between runs, as a node of superstep p: every available delta
\* channel is stored.
UpdateState(id, c, p) ==
    LET st0 == Restore(saved, id, {}, {})
        w == [ch |-> c, tok |-> Token(nruns + 1, 9, 0), ow |-> FALSE, task |-> Null, path |-> 0]
        st == [applyWrites(st0, <<w>>) EXCEPT !.step = @ + 1]
        new == lastId + 1
    IN  /\ Begin /\ graph.updates /\ Loads(id, id # Latest(saved)) /\ new <= MaxIds
        /\ saved' = Put(saved, new, Checkpoint(st, "update", FALSE, {}, id, NextPos(p)))
        /\ truth' = (new :> st.val) @@ truth
        /\ lastId' = new /\ last' = new
        /\ start' = [clean |-> id \notin anchored /\ ~Endless(saved, id), val |-> st0.val, expect |-> Shown(id)]
        /\ UNCHANGED <<graph, pc, run, rs, faults, anchored, inputOn>>

Init ==
    /\ graph \in Graphs
    /\ saved = <<>> /\ lastId = NoId /\ truth = <<>>
    /\ pc = "idle" /\ run = Idle /\ rs = FreshState
    /\ nruns = 0 /\ faults = 0 /\ anchored = {} /\ inputOn = {}
    /\ start = [clean |-> TRUE, val |-> Blank, expect |-> Blank]
    /\ last = NoId

Invoke ==
    \E mode \in graph.modes :
        \/ InvokeFresh(mode)
        \/ \E id \in DOMAIN saved, addressed \in BOOLEAN :
              InvokeNewTurn(mode, id, addressed) \/ Resume(mode, id, addressed)

Next ==
    \/ Invoke
    \/ \E id \in DOMAIN saved, c \in Chs, p \in DOMAIN graph.steps : UpdateState(id, c, p)
    \/ Finish \/ PauseBefore \/ Drain \/ NodeFails \/ PauseInNode \/ Commit

Spec == Init /\ [][Next]_vars

-----------------------------------------------------------------------------
(* Properties.                                                             *)

TypeOK ==
    /\ lastId \in 0..MaxIds /\ DOMAIN saved \subseteq 1..MaxIds
    /\ DOMAIN truth = DOMAIN saved
    /\ pc \in {"idle", "loop"}
    /\ run.cur \in 0..MaxIds /\ run.init \in DOMAIN saved \cup {NoId}
    /\ run.pos \in 0..Position
    /\ rs.forced \subseteq Chs /\ rs.upd \subseteq Chs /\ rs.vers \subseteq Chs
    /\ anchored \subseteq DOMAIN saved /\ inputOn \subseteq anchored

\* A saved checkpoint reads every delta channel as the state it was saved
\* from, whatever mix of snapshots, commit writes, accumulated writes of exit
\* durability, pauses, repairs and forks its history holds: no write is lost,
\* repeated or out of order (rebuildDeltaChannels).  A checkpoint a later exit
\* run stored its own writes on is read through that run's checkpoint.
ReadsAsSaved ==
    \A id \in DOMAIN saved \ anchored :
        ~Endless(saved, id) => GetState(saved, id) = Shown(id)

\* A run or update starts from the state its checkpoint stands for, with the
\* work of completed siblings applied once; a resume does so even from a
\* checkpoint that an exit run has already consumed, or failed to
\* (resumeFromTuple's skip of stale writes).
SeededAsSaved == start.clean => start.val = start.expect

\* The checkpoint a run stopped at is the thread's latest, so that the next
\* run continues from it: neither the stub nor an earlier branch shadows it.
StopIsLatest == last # NoId => last = Latest(saved)
=============================================================================
