----------------------------- MODULE Functional -----------------------------
(***************************************************************************)
(* The functional API (langgraph/fn): an entrypoint function f dispatches  *)
(* tasks that run in goroutines of their own, may dispatch tasks in turn,  *)
(* and may pause the run with Interrupt.  A run that pauses or fails       *)
(* leaves its tasks' results on the thread's latest checkpoint, and the    *)
(* run that continues it replays them by (parent path, call index) instead *)
(* of executing the tasks again.                                           *)
(*                                                                         *)
(* A program is a set of function bodies; a body is a sequence of          *)
(* operations: Call a task, Get the k-th future, ask (Interrupt), work (an *)
(* effect that may fail).  "main" is f.  The graph around f is the single- *)
(* node graph compileEntrypoint builds, under sync durability.             *)
(***************************************************************************)
EXTENDS Integers, Sequences, FiniteSets

CONSTANTS
    Programs,       \* the programs of the behaviours: [body, attempts, cached]
    MaxTurns,       \* bound: runs with fresh input
    MaxResumes,     \* bound: runs with a resume value
    MaxFaults       \* bound: task errors, saver and cache errors, crashes, cancellations

\* The operations of a body: a call names a task of the program.
Ops(g) == [op : {"call"}, task : DOMAIN g.body] \cup [op : {"get"}, k : Nat \ {0}]
          \cup [op : {"ask", "work"}]

ASSUME BoundsAssumption ==
    /\ {MaxTurns, MaxResumes, MaxFaults} \subseteq Nat
    /\ \A g \in Programs :
          /\ "main" \in DOMAIN g.body
          /\ \A t \in DOMAIN g.body : g.body[t] \in Seq(Ops(g))
          /\ g.attempts \in [DOMAIN g.body -> Nat \ {0}]  \* the retry policies
          /\ g.cached \subseteq DOMAIN g.body              \* tasks with TaskOpts.Cache

VARIABLES
    prog,       \* the program of this behaviour; it never changes
    \* the thread's checkpoints and the task cache
    store,      \* sequence of [source, next, prev, w, rq, asked]; the last is the latest
    cache,      \* task -> value: EntrypointOpts.Cache under the default key
    \* the current run
    phase,      \* "idle", "running", "returned" (the graph has returned), "saving"
    ended,      \* how the graph's run ended: "none", "ok", "intr", "err"
    prevIn,     \* the previous value f is given
    natt,       \* attempt of the entrypoint node (runTask)
    cancelled,  \* the caller cancelled the run's context
    queue, qi,  \* taskInterruptState: resume queue, and cursor per attempt of f
    replay,     \* dispatcher.replay: path -> result
    counts,     \* dispatcher.counts: parent path -> next call index
    frames,     \* live goroutines: path -> [task, site, pc, futs, att, before, node]
    futs,       \* futures: path -> [k, v, task, site]
    results,    \* dispatcher.results, then what is left of it to persist
    \* bounds and history
    turns, resumes, faults,
    epoch,      \* number of the logical run: a run and those that continue it
    saved,      \* the value the last run that completed saved
    done,       \* calls whose return value is on the checkpoint this run continues
    redone,     \* calls of done that the run executed again
    heard       \* <<ask, answer>> pairs of this run

threadVars == <<prog, store, cache>>
runVars == <<phase, ended, prevIn, natt, cancelled, queue, qi, replay, counts, frames, futs, results>>
historyVars == <<turns, resumes, faults, epoch, saved, done, redone, heard>>
vars == <<threadVars, runVars, historyVars>>

Root == <<>>                    \* call path of f
NoValue == [task |-> "none", site |-> <<>>, epoch |-> 0]
Empty == [x \in {} |-> x]
NoReplay == Empty               \* a fresh run looks its calls up in a nil map
Put(f, key, val) == [x \in DOMAIN f \cup {key} |-> IF x = key THEN val ELSE f[x]]
Live == phase \in {"running", "returned"}
Latest == store[Len(store)]

\* The logical identity of an operation: position in the body and attempt of
\* the body, from f down.  It does not depend on the interleaving.
Site(p) == Append(frames[p].site, [at |-> frames[p].att, pos |-> frames[p].pc])
Positions(s) == [i \in DOMAIN s |-> s[i].pos]
ValueOf(t, s) == [task |-> t, site |-> s, epoch |-> epoch]

Body(p) == prog.body[frames[p].task]
Op(p) == Body(p)[frames[p].pc]
At(p, op) == p \in DOMAIN frames /\ frames[p].pc <= Len(Body(p)) /\ Op(p).op = op

\* A goroutine belongs to an attempt of f, also after f has been restarted.
NewFrame(t, site, before, node) ==
    [task |-> t, site |-> site, pc |-> 1, futs |-> <<>>, att |-> 1, before |-> before, node |-> node]
Cursor(p) == qi[frames[p].node]
Advance(p) == [frames EXCEPT ![p].pc = @ + 1]
Restarted(p) ==
    [frames EXCEPT ![p].pc = 1, ![p].futs = <<>>, ![p].att = @ + 1,
                   ![p].node = IF p = Root THEN @ + 1 ELSE @]
Without(p) == [q \in DOMAIN frames \ {p} |-> frames[q]]
Result(p, s, k, v, c) == [path |-> p, site |-> s, k |-> k, v |-> v, consumed |-> c]

\* Calls whose return value a checkpoint holds.
Returned(cp) == {cp.w[c].site : c \in {d \in DOMAIN cp.w : cp.w[d].k = "ok"}}

Fault == faults < MaxFaults /\ faults' = faults + 1
NoFault == UNCHANGED faults
-----------------------------------------------------------------------------
(* The dispatcher: call indices and replay.                                *)

\* Mutant: one counter for the whole run.
RunCallIdx(parent) == Cardinality(DOMAIN futs)

\* nextCallIdx: every parent path counts its calls on its own.
nextCallIdx(parent) == IF parent \in DOMAIN counts THEN counts[parent] ELSE 0

\* replayWrite under FnTaskID: the table is keyed by what the ID hashes
\* beside the checkpoint the run continues, the path and index of the call.
ReplayHit(p) == p \in DOMAIN replay

\* Mutant: without the gates.
ReplayAlways(tup, resuming) == tup.w

\* loadReplay: gate 1, a Resume of a checkpoint with tasks to run; gate 2, a
\* thread whose last run failed leaving results on its input checkpoint.
loadReplay(tup, resuming) ==
    IF (resuming /\ tup.next) \/ (tup.source = "input" /\ DOMAIN tup.w # {})
    THEN tup.w ELSE NoReplay

\* Mutant: a replayed task leaves the cursor alone.
KeepCursor(p, n) == qi

\* A replayed task does not ask again: the values it consumed are skipped.
ReplayInterruptConsumption(p, n) == [qi EXCEPT ![frames[p].node] = @ + n]

\* Task.Call: the index is taken first; then replay, cache, or a goroutine.
Call(p) ==
    /\ Live /\ At(p, "call")
    /\ LET t == Op(p).task
           idx == nextCallIdx(p)
           c == Append(p, <<t, idx>>)
           site == Site(p)
           fr == [Advance(p) EXCEPT ![p].futs = Append(@, c)]
           Resolved(k, v, used) ==
               /\ futs' = Put(futs, c, [k |-> k, v |-> v, task |-> t, site |-> site])
               /\ frames' = fr
               /\ results' = Append(results, Result(c, site, k, v, used))
       IN
       /\ counts' = Put(counts, p, idx + 1)
       /\ \/ \* replayedCall
             /\ ReplayHit(c)
             /\ Resolved(replay[c].k, replay[c].v, replay[c].consumed)
             /\ qi' = ReplayInterruptConsumption(p, replay[c].consumed)
             /\ NoFault
          \/ \* cachedCall: a hit
             /\ ~ReplayHit(c) /\ t \in prog.cached /\ t \in DOMAIN cache
             /\ Resolved("ok", cache[t], 0)
             /\ NoFault /\ UNCHANGED qi
          \/ \* cachedCall: the lookup fails
             /\ ~ReplayHit(c) /\ t \in prog.cached
             /\ Fault
             /\ Resolved("err", NoValue, 0)
             /\ UNCHANGED qi
          \/ \* startTask
             /\ ~ReplayHit(c) /\ ~(t \in prog.cached /\ t \in DOMAIN cache)
             /\ frames' = Put(fr, c, NewFrame(t, site, Cursor(p), frames[p].node))
             /\ futs' = Put(futs, c, [k |-> "pending", v |-> NoValue, task |-> t, site |-> site])
             /\ NoFault /\ UNCHANGED <<qi, results>>
    /\ UNCHANGED <<threadVars, phase, ended, prevIn, natt, cancelled, queue, replay,
                   turns, resumes, epoch, saved, done, redone, heard>>
-----------------------------------------------------------------------------
(* How a body ends: "ok", "err", or "intr" from the ask at site s.  The    *)
(* caller accounts for the fault behind an "err".                          *)

\* Mutant: the goroutine of an interrupted task leaves its future open.
InterruptLeftOpen(p, s) == frames' = Without(p) /\ UNCHANGED futs

\* An interrupt passes through the future: not recorded, not retried.
InterruptPassthrough(p, s) ==
    /\ futs' = [futs EXCEPT ![p].k = "intr", ![p].v = [NoValue EXCEPT !.site = s]]
    /\ frames' = Without(p)

\* Mutant: the cursor itself, not its advance.
CursorAtEnd(p) == Cursor(p)

\* The resume values a task's execution consumed: the advance of the cursor
\* that f and all tasks in flight share.
Consumed(p) == Cursor(p) - frames[p].before

\* The attempt loop of startTask, after an attempt of the task at p.  An
\* attempt that TaskOpts.Timeout abandons counts as failed (runAttempt).
TaskEnd(p, out, s) ==
    LET fr == frames[p]
        v == ValueOf(fr.task, fr.site)
        Resolve(k, val) == futs' = [futs EXCEPT ![p].k = k, ![p].v = val]
        Record(k, val) == results' = Append(results, Result(p, fr.site, k, val, Consumed(p)))
    IN
    \/ /\ out = "intr"
       /\ InterruptPassthrough(p, s)
       /\ NoFault /\ UNCHANGED <<results, cache>>
    \/ \* success, stored in the cache
       /\ out = "ok"
       /\ Resolve("ok", v) /\ Record("ok", v) /\ frames' = Without(p)
       /\ cache' = IF fr.task \in prog.cached THEN Put(cache, fr.task, v) ELSE cache
       /\ NoFault
    \/ \* success, but the cache does not take it: the task fails
       /\ out = "ok" /\ fr.task \in prog.cached
       /\ Fault
       /\ Resolve("err", NoValue) /\ Record("err", NoValue) /\ frames' = Without(p)
       /\ UNCHANGED cache
    \/ \* the run is cancelled: give up, record nothing
       /\ out = "err" /\ cancelled
       /\ Resolve("err", NoValue) /\ frames' = Without(p)
       /\ UNCHANGED <<results, cache>>
    \/ \* another attempt
       /\ out = "err" /\ ~cancelled /\ fr.att < prog.attempts[fr.task]
       /\ frames' = Restarted(p)
       /\ UNCHANGED <<futs, results, cache>>
    \/ \* attempts exhausted
       /\ out = "err" /\ ~cancelled /\ fr.att >= prog.attempts[fr.task]
       /\ Resolve("err", NoValue) /\ Record("err", NoValue) /\ frames' = Without(p)
       /\ UNCHANGED cache

\* Mutant: one attempt too many.
OneMoreAttempt == natt <= prog.attempts["main"] /\ ~cancelled

\* The retry policy of the entrypoint node.
AnotherAttempt == natt < prog.attempts["main"] /\ ~cancelled

\* Mutant: the pause commits the value f was about to save.
PauseCommits(s) ==
    [source |-> "loop", next |-> TRUE, prev |-> epoch, w |-> Empty,
     rq |-> SubSeq(queue, 1, qi[natt]), asked |-> s]

\* The pause keeps the channels and the resume values consumed so far.
PauseCheckpoint(s) ==
    [source |-> "loop", next |-> TRUE, prev |-> prevIn, w |-> Empty,
     rq |-> SubSeq(queue, 1, qi[natt]), asked |-> s]

FinalCheckpoint ==
    [source |-> "loop", next |-> FALSE, prev |-> epoch, w |-> Empty, rq |-> <<>>, asked |-> <<>>]

\* runTask and the graph's loop, after an attempt of f: a pause or a final
\* checkpoint, another attempt with a fresh interrupt state, or the error.
NodeEnd(out, s) ==
    LET Ended(k) == ended' = k /\ phase' = "returned" /\ frames' = Without(Root)
    IN
    \/ /\ out = "intr"
       /\ store' = Append(store, PauseCheckpoint(s))
       /\ Ended("intr")
       /\ NoFault /\ UNCHANGED <<saved, natt, qi>>
    \/ /\ out = "ok"
       /\ store' = Append(store, FinalCheckpoint)
       /\ saved' = epoch
       /\ Ended("ok")
       /\ NoFault /\ UNCHANGED <<natt, qi>>
    \/ \* the saver refuses the checkpoint
       /\ out \in {"ok", "intr"}
       /\ Fault
       /\ Ended("err")
       /\ UNCHANGED <<store, natt, qi, saved>>
    \/ /\ out = "err" /\ AnotherAttempt
       /\ natt' = natt + 1 /\ qi' = Append(qi, 0)
       /\ frames' = Restarted(Root)
       /\ UNCHANGED <<store, ended, phase, saved>>
    \/ /\ out = "err" /\ ~AnotherAttempt
       /\ Ended("err")
       /\ UNCHANGED <<store, natt, qi, saved>>

End(p, out, s) ==
    IF p = Root
    THEN NodeEnd(out, s) /\ UNCHANGED <<futs, results, cache>>
    ELSE TaskEnd(p, out, s) /\ UNCHANGED <<store, ended, phase, saved, natt, qi>>

GoesOn(p) ==
    /\ frames' = Advance(p)
    /\ UNCHANGED <<store, ended, phase, saved, natt, futs, results, cache>>

bodyFrame == <<prog, prevIn, cancelled, queue, replay, counts, turns, resumes, epoch, done>>
-----------------------------------------------------------------------------
(* The other operations of a body.                                         *)

\* Future.Get: the result, the re-raised interrupt, or the context's error.
Get(p) ==
    /\ Live /\ At(p, "get")
    /\ LET f == futs[frames[p].futs[Op(p).k]] IN
       \/ f.k = "ok" /\ GoesOn(p) /\ NoFault /\ UNCHANGED qi
       \/ f.k = "err" /\ End(p, "err", <<>>) /\ NoFault
       \/ f.k = "intr" /\ End(p, "intr", f.v.site)
       \/ cancelled /\ End(p, "err", <<>>) /\ NoFault
    /\ UNCHANGED <<bodyFrame, redone, heard>>

\* Interrupt: the next queued resume value, or a pause.
Ask(p) ==
    /\ Live /\ At(p, "ask")
    /\ \/ /\ Cursor(p) < Len(queue)
          /\ heard' = heard \cup {<<Site(p), queue[Cursor(p) + 1]>>}
          /\ qi' = [qi EXCEPT ![frames[p].node] = @ + 1]
          /\ GoesOn(p) /\ NoFault
       \/ /\ Cursor(p) >= Len(queue)
          /\ End(p, "intr", Site(p))
          /\ UNCHANGED heard
    /\ UNCHANGED <<bodyFrame, redone>>

\* The effect of a task: it succeeds, fails, or is abandoned by its timeout.
Work(p) ==
    /\ Live /\ At(p, "work")
    /\ redone' = redone \cup ({frames[p].site} \cap done)
    /\ \/ GoesOn(p) /\ NoFault /\ UNCHANGED qi
       \/ Fault /\ End(p, "err", <<>>)
       \/ cancelled /\ End(p, "err", <<>>) /\ NoFault
    /\ UNCHANGED <<bodyFrame, heard>>

\* The body returns its value.
Return(p) ==
    /\ Live /\ p \in DOMAIN frames /\ frames[p].pc > Len(Body(p))
    /\ End(p, "ok", <<>>)
    /\ UNCHANGED <<bodyFrame, redone, heard>>
-----------------------------------------------------------------------------
(* The entrypoint: Invoke.                                                 *)

\* prepare, the input checkpoint and the first attempt of f.
Start(table, prev) ==
    /\ phase' = "running" /\ ended' = "none"
    /\ prevIn' = prev
    /\ natt' = 1 /\ cancelled' = FALSE /\ qi' = <<0>>
    /\ replay' = table
    /\ counts' = Empty /\ futs' = Empty /\ results' = <<>>
    /\ frames' = [p \in {Root} |-> NewFrame("main", <<>>, 0, 1)]
    /\ heard' = {}
    /\ UNCHANGED <<prog, cache, faults, saved, redone>>

\* Invoke with fresh input: prepare injects the thread's previous value, and
\* the graph saves the input checkpoint that plans f.
InvokeFresh ==
    /\ phase = "idle" /\ turns < MaxTurns
    /\ turns' = turns + 1
    /\ LET prev == IF store = <<>> THEN 0 ELSE Latest.prev
           continues == store # <<>> /\ Latest.source = "input"
       IN
       /\ Start(IF store = <<>> THEN NoReplay ELSE loadReplay(Latest, FALSE), prev)
       /\ store' = Append(store, [source |-> "input", next |-> TRUE, prev |-> prev,
                                  w |-> Empty, rq |-> <<>>, asked |-> <<>>])
       /\ epoch' = IF continues THEN epoch ELSE epoch + 1
       /\ done' = IF continues THEN Returned(Latest) ELSE {}
    /\ queue' = <<>>
    /\ UNCHANGED resumes

\* Invoke with Options.Resume: the paused checkpoint is continued, the answer
\* joins the resume values f had consumed when it paused.
InvokeResume ==
    /\ phase = "idle" /\ resumes < MaxResumes
    /\ store # <<>> /\ Latest.source = "loop" /\ Latest.next
    /\ resumes' = resumes + 1
    /\ Start(loadReplay(Latest, TRUE), Latest.prev)
    /\ queue' = Append(Latest.rq, Latest.asked)
    /\ done' = Returned(Latest)
    /\ UNCHANGED <<store, turns, epoch>>

\* After the graph returned: cancel, seal and snapshotResults.  What the
\* remaining goroutines do from here on reaches nothing.
Close ==
    /\ phase = "returned"
    /\ phase' = "saving"
    /\ frames' = Empty /\ futs' = Empty /\ counts' = Empty /\ replay' = NoReplay
    /\ queue' = <<>> /\ qi' = <<>> /\ heard' = {}
    /\ UNCHANGED <<threadVars, ended, prevIn, natt, cancelled, results,
                   turns, resumes, faults, epoch, saved, done, redone>>

\* putResults: one PutWrites per result on the thread's latest checkpoint;
\* the first write under an ID stays.
Persist ==
    /\ phase = "saving" /\ results # <<>>
    /\ LET r == Head(results)
           w == Latest.w
       IN    store' = [store EXCEPT ![Len(store)].w =
                          IF r.path \in DOMAIN w THEN w
                          ELSE Put(w, r.path, [k |-> r.k, v |-> r.v, site |-> r.site,
                                               consumed |-> r.consumed])]
    /\ results' = Tail(results)
    /\ UNCHANGED <<prog, cache, phase, ended, prevIn, natt, cancelled, queue, qi, replay,
                   counts, frames, futs, historyVars>>

\* The run is over: every result persisted, or a PutWrites failed.
Finish ==
    /\ phase = "saving"
    /\ \/ results = <<>> /\ NoFault
       \/ results # <<>> /\ Fault
    /\ phase' = "idle" /\ results' = <<>>
    /\ UNCHANGED <<threadVars, ended, prevIn, natt, cancelled, queue, qi, replay, counts,
                   frames, futs, turns, resumes, epoch, saved, done, redone, heard>>

\* Task.ClearCache, at any time.
ClearCache ==
    /\ \E t \in DOMAIN cache : cache' = [u \in DOMAIN cache \ {t} |-> cache[u]]
    /\ UNCHANGED <<prog, store, runVars, historyVars>>

\* The caller cancels the context of the run.
CancelRun ==
    /\ phase = "running" /\ ~cancelled
    /\ Fault
    /\ cancelled' = TRUE
    /\ UNCHANGED <<threadVars, phase, ended, prevIn, natt, queue, qi, replay, counts, frames,
                   futs, results, turns, resumes, epoch, saved, done, redone, heard>>

\* The process dies; only the checkpoints survive.
Crash ==
    /\ phase # "idle"
    /\ Fault
    /\ phase' = "idle" /\ ended' = "none" /\ cancelled' = FALSE
    /\ cache' = Empty
    /\ frames' = Empty /\ futs' = Empty /\ counts' = Empty /\ replay' = NoReplay
    /\ queue' = <<>> /\ qi' = <<>> /\ results' = <<>> /\ heard' = {}
    /\ UNCHANGED <<prog, store, prevIn, natt, turns, resumes, epoch, saved, done, redone>>
-----------------------------------------------------------------------------
Init ==
    /\ prog \in Programs
    /\ store = <<>> /\ cache = Empty
    /\ phase = "idle" /\ ended = "none" /\ prevIn = 0 /\ natt = 1 /\ cancelled = FALSE
    /\ queue = <<>> /\ qi = <<>> /\ replay = NoReplay
    /\ counts = Empty /\ frames = Empty /\ futs = Empty /\ results = <<>>
    /\ turns = 0 /\ resumes = 0 /\ faults = 0
    /\ epoch = 0 /\ saved = 0 /\ done = {} /\ redone = {} /\ heard = {}

Step == \E p \in DOMAIN frames : Call(p) \/ Get(p) \/ Ask(p) \/ Work(p) \/ Return(p)

Next ==
    \/ InvokeFresh \/ InvokeResume
    \/ Step
    \/ Close \/ Persist \/ Finish
    \/ ClearCache \/ CancelRun \/ Crash

\* Goroutines are scheduled, and Invoke goes on once the graph has returned.
Spec == Init /\ [][Next]_vars /\ WF_vars(Step) /\ WF_vars(Close \/ Persist \/ Finish)
-----------------------------------------------------------------------------
\* Every variable keeps its shape.
TypeOK ==
    /\ phase \in {"idle", "running", "returned", "saving"}
    /\ ended \in {"none", "ok", "intr", "err"}
    /\ natt \in 1..prog.attempts["main"]
    /\ qi \in Seq(Nat) /\ prevIn \in 0..epoch /\ epoch \in 0..MaxTurns
    /\ \A p \in DOMAIN frames :
          /\ frames[p].task \in DOMAIN prog.body
          /\ frames[p].pc \in 1..(Len(Body(p)) + 1)
          /\ \A i \in DOMAIN frames[p].futs : frames[p].futs[i] \in DOMAIN futs
    /\ \A c \in DOMAIN futs : futs[c].k \in {"pending", "ok", "err", "intr"}
    /\ \A i \in DOMAIN store : store[i].source \in {"input", "loop"} /\ store[i].next \in BOOLEAN

\* A call's future yields the value of that very call in this logical run,
\* also when it is replayed from a checkpoint under (path, index) after
\* retries and in whatever order the goroutines made their calls; a cached
\* task's value is a value of that task.
SameCall ==
    \A c \in DOMAIN futs : futs[c].k = "ok" =>
        IF futs[c].task \in prog.cached
        THEN futs[c].v.task = futs[c].task
        ELSE futs[c].v = ValueOf(futs[c].task, futs[c].site)

\* A task whose return value is on the checkpoint of a paused or failed run is
\* not executed again by the run that continues it.
NotRedone == redone = {}

\* A resume value reaches the Interrupt call it was given for, also when
\* replayed tasks consumed values before it.
AnswersAligned == \A h \in heard : Positions(h[1]) = Positions(h[2])

\* The cursor stays within the resume queue, which a pause slices by it, when
\* no task is in flight at an Interrupt call of another.
CursorInQueue == \A n \in DOMAIN qi : qi[n] <= Len(queue)

\* f is given what the last completed run of the thread saved, whatever
\* failed, paused or crashed since.
PreviousIsLastSaved == phase = "running" => prevIn = saved

\* Every run returns: no Get waits for a future that nobody completes.
RunReturns == [](phase # "idle" => <>(phase = "idle"))
=============================================================================
