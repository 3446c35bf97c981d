# A verification project for langchain-golang

langchain-golang is a Go port of LangChain and LangGraph. Its core logic, and
the part where correctness is hard, is `langgraph/`: a graph of node functions
executed in supersteps, whose state is saved in checkpoints so that a thread can
be paused, crash, be drained, and be resumed by another process. On top of it
stand the functional API (`langgraph/fn`) and the agents (`langchain/agents`).
This directory models that core and those two clients in TLA+, checks them with
TLC, and proves with TLAPS the safety of the checkpoint sink, of the run loop with
its resumes, of the agents' limits, reviews and histories, and of the functional
API's replay.

- [1. The system](#1-the-system)
- [2. Modules](#2-modules)
- [3. Runs](#3-runs)
- [4. Proofs](#4-proofs)
- [5. Where the code departs from its comments](#5-where-the-code-departs-from-its-comments)
- [6. What is not modelled](#6-what-is-not-modelled)
- [7. Plan](#7-plan)

## 1. The system

### 1.1 Components

| Component | State it keeps | Operations | Hard behaviour | What makes it correct |
|---|---|---|---|---|
| Run loop, `langgraph/graph/graph.go` `run` | run state (channels, versions, versions seen, step), planned tasks, position in the checkpoint chain | start, breakpoint, drain, dispatch, commit, pause, abort | tasks run concurrently; the run may stop at any boundary; the process may die between two saver calls | each task's work is applied once; every planned successor runs; a thread that is answered completes |
| Resume planning, `resume.go` | none of its own: it reads a checkpoint and its pending writes | `planResume`, `resumeValuesFor`, `resumeSkipNode`, replay | decides from what was stored whether a task completed, asked or failed | completed tasks are not re-run, others are; answers reach the node that asked, in order |
| Checkpoint sink, `checkpoint_sink.go` | mode, channel of requests, worker, first error, last put | `putCheckpoint`, `putWrites`, `putPause*`, `flush`, `repairPut` | run, task and worker goroutines share it; any saver call fails; the channel is bounded | nothing is saved past a failure, nothing is lost in silence, every run returns |
| Channels, `langgraph/channels` | one value each | `Update`, `Consume`, `Checkpoint` | barriers accumulate arrivals over supersteps and pauses; delta channels are rebuilt from writes | a join fires once per round, after all its parents |
| Savers, `langgraph/checkpoint` | checkpoints and pending writes per thread | `Put`, `PutWrites`, `GetTuple`, `List` | first write wins in a slot; "latest" is the greatest ID | what was put is what is read |
| Run control, `langgraph/runtime` | drain request | `RequestDrain` | asynchronous to the run | stops at a resumable boundary |
| Subgraphs, `subgraph.go` | a nested run per namespace | invoke, resume | interrupts cross namespaces | as the run loop, per namespace |
| State history, `snapshot.go` | - | `GetState`, `UpdateState` | rebuilds delta channels along the parents; forks the thread between runs | every checkpoint reads as it was saved |
| Exit durability, `checkpoint_sink.go`, `delta_helpers.go` | accumulated writes | accumulate, final flush, pause | stores a run's writes under synthetic IDs on a checkpoint others read | no branch sees another's writes |
| Policies, `policy.go` | node cache | retry, timeout, cache | a timeout races a late result; cache shared by runs | one outcome per task; no answer of a human is cached |
| Streaming, `stream*.go`, `events.go` | subscribers, buffered events | emit, iterate, break | consumer leaves early | the run goroutine always ends |
| Functional API, `langgraph/fn` | futures, call indices, results, cursor over answers | entrypoint, task, `Future.Get`, `Interrupt` | futures resolve concurrently; replay by call index | a resumed entrypoint sees the results it saw |
| Store, `langgraph/store` | items with TTL | put, get, search, sweep | sweeper against refresh | no live item disappears |
| Agents and middleware, `langchain/agents` | messages, counters, edits in graph state | model, review, tools, hooks | parallel calls, human decisions applied later, retries | tools run as decided; the history stays well-formed; limits hold over resumes |
| Rate limiter, `core/ratelimiters` | tokens, last refill | `Acquire` | concurrent callers, clock | rate is never exceeded |
| Indexing, `core/indexing` | record manager | index, cleanup | cleanup against timestamps | nothing current is deleted |

The remaining packages (`core` messages, prompts, parsers, runnables, callbacks;
`partners` provider clients; `textsplitters`; `modelprofiles`) convert values or
do I/O and keep no protocol state. `PROJECT.json` lists all of them with the
reason.

### 1.2 How they interact

`run` creates a sink for the run, loads a checkpoint from the saver, and either
plans the entry tasks (fresh input) or asks `planResume` for the tasks of the
loaded checkpoint. Each superstep dispatches the planned tasks as goroutines.
A task whose node fails and has an error handler calls the sink from its own
goroutine before it runs the handler. When all tasks have returned, the run
applies their writes, computes the successors (Goto, edges, full barriers),
saves a checkpoint naming them in `Next`, and stores the tasks' writes on it.
A run stopped by an in-node interrupt or a breakpoint instead saves a *pause*
checkpoint with the old state, the dispatched tasks in `Next`, and the
interrupts, answers consumed so far and completed siblings as pending writes.
`run` defers `flush`, which closes the channel, waits for the worker, and turns
a background error into the run's error.

## 2. Modules

| Module | Models |
|---|---|
| `SinkContract` | what a run may rely on: a log of accepted requests, of which the saver holds a prefix |
| `CheckpointSink` | the sink in sync and async mode, with its callers and a saver that may fail |
| `CheckpointSinkProofs`, `CheckpointReadsProofs` | its theorems; the second those on repairs and delta batches |
| `MCCheckpointSink` | small sets of write batches for TLC |
| `Pregel` | the run loop, resume planning, barriers and the memory saver of one thread |
| `PregelProofs` | its types and the answers a node sees; the layers all proofs about the loop stand on |
| `PregelResumeProofs` | what a resume makes of pending writes: work, ERROR writes, answers, successors, breakpoints |
| `PregelJoinProofs` | the theorems on waiting edges |
| `MCPregel` | small compiled graphs for TLC |
| `DeltaHistory` | what a checkpoint says of a delta channel: exit durability, snapshots, reconstruction, `UpdateState` |
| `MCDeltaHistory` | graphs with delta channels, inside and outside the run |
| `Functional` | entrypoints and tasks of the functional API on one thread |
| `FunctionalProofs` | its theorems |
| `MCFunctional` | entrypoint programs for TLC |
| `Agent` | the agent graph with its middleware on one thread |
| `SequenceLemmas` | what `FlattenSeq` returns (filtering a sequence by flattening pieces of length 0 and 1: the chosen elements, all, in order), and the least and greatest of a finite set of numbers |
| `AgentProofs` | the theorems of `Agent` |
| `MCAgent` | agents for TLC |

`Pregel` and `DeltaHistory` look at the same run loop from two sides: `Pregel`
keeps plans, barriers, answers and crashes and abstracts channel values to
tokens that are always stored; `DeltaHistory` keeps how the values are stored
and abstracts the plan to a fixed sequence of supersteps. `Functional` and
`Agent` take from the loop what `Pregel` establishes (a node's update is
committed whole or not at all, a resume re-runs the planned node) and model what
is built on it.

### 2.1 CheckpointSink

`pc`, `tried`, `ncp`, `batch`, `sent`, `runErr` are the run goroutine;
`call[c]` is the request a goroutine is carrying inside `putCheckpoint` or
`putWrites` (between the check at the head of the function and the saver call or
channel send, which other goroutines may interleave with); `writeCh`, `closed`,
`worker`, `cur` are the channel and the worker; `failed` is `poisoned` in sync
and `workerErr` in async mode; `saved`, `landed` are what the saver holds;
`accepted` and `result` are history.

| Action | Code |
|---|---|
| `PutCheckpoint`, `PutWrites`, `RunRefused` | the run enters the call; `Refused` is the check at its head |
| `SyncStore`, `SyncFail` | the saver call of sync mode, `poison` |
| `Enqueue`, `EnqueueRefused` | the second `select` of async mode: both can be possible at once |
| `Dispatch`, `PutErrorWrite`, `Collect`, `Abort` | a superstep; its tasks' ERROR writes |
| `WorkerReceive`, `WorkerStore`, `WorkerFail`, `WorkerClosed` | the worker loop |
| `RepairPut` | the re-put of the last checkpoint after a failed delta write |
| `FlushClose`, `FlushReturn` | the deferred flush |

`s.poisoned` is read and written by the tasks of a superstep without
synchronisation, so `PutErrorWrite` lets a task in sync mode either see or miss
a failure its sibling recorded. Between supersteps the run goroutine reads it
after joining them and sees it.

A batch is abstracted to whether it holds a delta channel's write, which is all
the sink looks at. A checkpoint has no content: whether it *reads complete* is
decided by the batches stored beside it or by a repair.

### 2.2 SinkContract

Four variables: `log` (accepted requests), `durable` (how many of them the saver
holds), `failed`, `verdict`. `Accept`, `Persist`, `Fail`, `Return`: a checkpoint
is never made durable past a failure, and `Return` says "ok" only when the whole
log is durable. `CheckpointSink!ImplementsContract` instantiates it with
`log <- accepted`, `durable <- Len(landed)`, `verdict <- result`.

### 2.3 Pregel

One thread, a saver, and a sequence of runs by the same or different processes.
The compiled graph is a record (`graph`), chosen in `Init` from the constant
`Graphs` and never changed, so that one run of TLC checks several graphs.

The graph's data is one list-reducer channel (`st.log`) holding one *token* per
applied task: the node, the number of its execution, the destinations it chose,
and the answers it consumed. The properties are about this list, so that they
speak of the graph's observable state and not of the bookkeeping. Barriers,
channel versions and versions seen are kept as in `state.go`.

| Action | Code |
|---|---|
| `InvokeFresh`, `InvokeNewTurn`, `Resume` | the three ways `run` starts, from the latest checkpoint or a pinned one |
| `Finish`, `Cancel`, `PauseBefore`, `Drained`, `RecursionError`, `Dispatch` | the head of the loop, in this order of precedence |
| `TaskInterrupts`, `TaskCompletes`, `TaskFails`, `HandlerCompletes`, `HandlerFails` | a task goroutine's outcome |
| `Abort`, `PauseInNode`, `Commit` | the end of a superstep |
| `SaverStep` | the oldest outstanding saver call is executed |
| `Flush`, `Crash`, `RequestDrain` | the end of a run; the environment |

Saver calls go through `io`, in program order. In sync mode the run continues
only when `io` is empty (`Ready`); in async mode it runs ahead of it. `Crash` is
possible in every state of a run and loses what is still in `io`, so a crash
falls between any two saver calls of an action.

Modelling decisions, and why they are sound for the properties:

- `TaskID` is the record of what the code hashes: the hash is taken as injective.
  Checkpoint IDs are increasing numbers (`NewID` sorts by time and sequence).
- The write batch of a task occupies one slot of the saver. The code numbers the
  writes within a batch, but always stores a batch in one `PutWrites` call.
- Saver failures are not repeated here: `CheckpointSink` shows that a failure
  ends the run, which `Pregel` contains as `Crash`.
- Retries, timeouts and the node cache decide *which* outcome a task has, and
  every outcome is allowed.
- A node is deterministic in how often it asks (`Asks[n]`). Its routing is a
  nondeterministic choice from `Route[n]` (edges or router) and `Goto[n]`.

### 2.4 DeltaHistory

A delta channel is stored as a value only when a snapshot is due; otherwise its
value is rebuilt from the pending writes of the checkpoint and its ancestors.
Under exit durability a run saves nothing on the way: its writes are accumulated
(`run.acc`) and stored at the end, on the checkpoint the run started from, on a
stub if the thread was fresh, or on the pause checkpoint.

`saved` maps a checkpoint ID to its stored values, the set of channels with a
version, parent, pending writes (task ID, index, path, channel, token), step,
planned superstep and counters. `rs` is `runState`, `run` the run and its sink.
Each write is a token of its own and a channel's value is the sequence of its
tokens, so that a write lost, repeated or out of order is visible. `truth`
remembers for each checkpoint the values of the state it was saved from.

| Action | Code |
|---|---|
| `InvokeFresh`, `InvokeNewTurn`, `Resume` | the three ways `run` starts; `Resume` is `resumeFromTuple` with its skip of stale writes and the seal of their channels |
| `Commit`, `PauseBefore`, `PauseInNode`, `Drain`, `NodeFails`, `Finish` | the ways a superstep or a run ends |
| `UpdateState` | a manual update between runs |
| `Save`, `Pause`, `FlushExit` | `putCheckpoint` + `putWrites`, `putPauseCheckpoint` + `putPauseWrites`, `flushExit`: a sequence of saver calls, of which one may fail, with `repairPut` |
| `SnapshotSet`, `AfterSave`, `FlushSnapshots` | which channels a save stores as values, and the counters and forced set after it |
| `rebuildDeltaChannel`, `Chain`, `ReplayWrites` | the ancestor walk |

The saver calls of an operation are one step of the model: a thread has one run
at a time and readers look between steps. A failing call is explicit; a crash
between two calls is not (see the limits in section 5). The maximum number of
supersteps between snapshots, 5000 in the code, is 4. Synthetic task IDs are
records, and paths are numbers in the order of the strings. Under async
durability the same calls are made in the same order (`CheckpointSink`), so only
sync and exit are distinguished.

### 2.5 Functional

A program is a set of bodies; a body is a sequence of operations: call a task,
get the k-th future, ask (`Interrupt`), work (an effect that may fail). Every
call runs in a goroutine of its own (`frames`), keyed by its call path. `replay`,
`counts`, `results` are the dispatcher's, `queue` and `qi` the answers and the
shared cursor over them.

| Action | Code |
|---|---|
| `InvokeFresh`, `InvokeResume` | `Entrypoint.Invoke` down to the node, with the replay table of the latest checkpoint |
| `Call` | `dispatch`: the call index, replay, cache, or a new goroutine |
| `Get`, `Ask`, `Work`, `Return` | the steps of a body; `TaskEnd`, `NodeEnd` their outcomes with retries |
| `Close`, `Persist`, `Finish` | the end of a run: the dispatcher is sealed, results are stored one by one, the caller gets the result |
| `ClearCache`, `CancelRun`, `Crash` | the environment |

A result is the record of the call it belongs to (task, position in the program,
logical run), so that a result handed to another call shows. The pause checkpoint
and its interrupt and resume writes are one step.

### 2.6 Agent

The thread's channels (`msgs`, `counts`, `response`, `edited`), the node the graph
runs or plans, and inside the model and tools nodes the attempt, the model's answer
and the outcome of each parallel call. A model answer is any sequence of at most
two calls over the agent's tool names, with or without an unparsable call, and a
structured answer that validates or not.

| Action | Code |
|---|---|
| `LimitEnds`, `CallModel`, `ModelNode` | `buildModelNode`: limit check, call with retry, then repair of invalid calls, structured output, limit of tool calls, message ID, routing |
| `HITLNode`, `ResumeReview` | `buildHITLNode`: pause for review; decisions applied to the message |
| `ToolsNode`, `RunTool`, `ToolAsks`, `ResumeTool`, `ToolsDone` | the tools node: each call in its own goroutine |
| `BeforeAgent`, `AfterAgent` | hooks with `jump_to` |
| `Invoke`, `Retry`, `Crash` | a new human message, a retry of the failed node, a process crash |

An error of a tool is retried, then made a message of or, where a
`ToolErrorMiddleware` declines it, raised as a failure of the node. A call of an
unknown tool is a message at once when the model named the tool, and such an error
when a reviewer's edit did (`EditedAway` in `MCAgent`).

A call is identified by its position in the message, so call IDs recur from one
answer to the next, as providers that number calls do.

## 3. Runs

### 3.1 Passing

**sink_async** (37,411 states). Two tasks, a channel of two slots, two
checkpoints with up to two batches, every saver call and repair may fail.
Two slots and three callers are enough for the channel to be full with callers
waiting while the worker stops. `RunReturns` is checked under `Fairness`: the
run goroutine, each caller, the worker and a repair keep taking steps, which is
Go's scheduling of runnable goroutines, and saver calls return.

- `WritesAreAnchored`: no write is stored ahead of its checkpoint.
- `NoSilentLoss`: "ok" means everything accepted is stored, in order.
- `ReadsComplete`: a saved checkpoint does not read its delta channels short.
- `NoCheckpointPastFailure`: after a failure no checkpoint is saved.
- `RunReturns`: nobody blocks for ever on the channel of a worker that stopped.
- `ImplementsContract`: the above as a refinement.

**sink_sync** (90,695 states). The same in sync mode with three checkpoints.
Nothing can block there, so no liveness property is checked.

In both runs a superstep hands its delta batches over before its plain ones;
section 5 says why.

**pregel** (217,223 states). Five graphs, each with the bounds in `MCPregel`:

| Graph | What it exercises |
|---|---|
| `AskAndFail` | a fan-in whose one branch asks twice while the other fails into its handler; two crashes, failures or drains |
| `TimeTravelling` | the fan-in under async durability with breakpoints on both sides, resumed from any checkpoint |
| `LoopedJoin` | branches of uneven length, so that the barrier is filled over two supersteps, in a loop that fills it again |
| `Sends` | Sends issued beside an interrupt, a plain failure, and a recursion limit that stops every run after one superstep |
| `Cycle` | a loop through a node with breakpoints before and after it, over two turns |

`maxIds` (6 to 9 checkpoints) lets each graph complete after every pause its
options allow; `maxFaults` counts crashes, node errors and drain requests. No run
uses symmetry: nodes have different roles.

- `AppliedOnce`: a task's token is never in the state twice.
- `EverySuccessorRuns`: on completion every destination chosen in the turn, its node
  with its Send argument, ran after the task that chose it. Two Sends of one task to
  one node with different arguments are two destinations (`Sends` issues such a pair).
- `JoinNeverEarly`, `JoinFires`: the k-th run of a join child comes after k runs
  of each parent, and a turn in which all parents ran has run the child. `JoinFires`
  asks whether a node ran in the turn, not how often: that a loop's second round fires
  the join a second time it does not say.
- `AnswersInOrder`: an answer is recorded with the caller's call that gave it and with
  the question it was given to, the first, second, ... `Interrupt` call of the node. The
  queue a task runs with, and the answers of every applied task, hold at position x an
  answer to question x, from a later call than those in front of it. A resume that
  drops, repeats, swaps or shifts the persisted prefix misaligns the queue.
- `AnswersKept`: a task that pauses again still has every answer it paused with
  before. It speaks of consecutive pauses, since the code does lose the prefix in three
  cases, after which the node asks from its first question on: a superstep that fails
  beside an error handler (`Abort`) saves a newer checkpoint with ERROR writes only, so
  that the answers of a sibling stay behind on the older one (`graph.go:1832-1860`); a resume that stops at a breakpoint saves a
  checkpoint with the boundary interrupt only; a crash falls between a pause's put and
  its task writes. Under time travel the caller may also go back to fewer answers. That
  such a loss stays a loss, and never hands an answer to another question, is
  `AnswersInOrder`.
- `AnswerDelivered`: an answer a resume carries is at the end of the queue of the task
  that asked, and the task runs with it, before the run pauses again.
- `NodeNotRerunAfterError`: a stored ERROR write resumes into the handler.
- `BreakpointPassed`: a superstep pauses in front of a node at most once.

**pregel_complete** (151 states). `Completes`: a caller that keeps resuming and
answers every interrupt sees the thread complete, on a process that neither
crashes nor cancels. Fairness is assumed of that caller, of the run goroutine, of
the tasks and of the sink's worker; nodes return. The graph combines two
interrupts in a node, a failing sibling with a handler and both kinds of
breakpoint under async durability. The bounds on checkpoint IDs, answers and
faults are above what a complete execution uses, so that no bound stops it.

**delta** (63,461 states). Five graphs over two delta channels, three runs or
updates each, a failing saver call on three of them, snapshots after two or three updates:

| Graph | What it exercises |
|---|---|
| `Line` | two supersteps on one channel; drains, failing nodes, resumes and new turns from any checkpoint, sync and exit runs mixed |
| `Fan` | a task that completes beside one that asks, resumed, failing and time travelled |
| `FanTurns` | the same over several turns, with the snapshot falling due at the pause |
| `ByPath` | a saver that orders by path (SQL), under exit durability |
| `Breaks` | an overwrite, breakpoints on both sides, `UpdateState` on any checkpoint |

Three runs are what it takes to save a state, to leave stale writes on it, and to
read or resume it afterwards; with `MaxSupersteps` 4 both snapshot rules fire at
commits and at pauses. `MaxIds` is never reached before the bound on runs.

- `ReadsAsSaved`: every checkpoint reads as the state it was saved from, at every
  later moment. Left out are checkpoints that hold the writes of a later exit run
  (by design these are read through that run's checkpoint) and those whose chain
  of parents does not end (section 5).
- `SeededAsSaved`: a run starts from what its checkpoint stands for, the work of
  completed siblings applied once, even on a checkpoint with stale writes.
- `StopIsLatest`: the next run continues where the last one stopped.

**functional** (260,336 states). Four programs: two tasks in flight with nested
calls to the same task (`Fan`), a task that asks (`AskInTask`), a pause with a
task in flight (`InFlight`), a cached task (`Cached`); two turns, two resumes, two
faults. Fairness: goroutines that can take a step do, and `Invoke` goes on once
the graph has returned.

- `SameCall`: a future yields the value of its own call, replayed or not.
- `NotRedone`: a task whose result was stored is not executed again.
- `AnswersAligned`: an answer reaches the `Interrupt` it was given for.
- `CursorInQueue`: the cursor stays inside the answers the pause slices.
- `PreviousIsLastSaved`: `previous` is what the last completed run saved.
- `RunReturns`: no run waits for ever for a future.

**agent** (203,785 states). Ten agents; two turns, one retry, one fault, one jump.
The calls of an answer and the model's rounds are bounded by the agents' limits.
Fairness: `WF_vars(Running)`, the scheduling of the graph's loop and workers.
Reviewers and callers are not assumed to act.

- `ExecutedAsDecided`: a tool runs only as decided for this very answer.
- `HistoryAnswered`: whenever the model is called, every earlier call of the turn
  is answered once, and no answer of the model stands twice in the history.
- `LimitsHold`: the thread limits hold over turns, retries and crashes. Run limits are
  not covered: the counts are not reset between runs (section 5).
- `TurnEnds`: an invocation ends, pauses or fails.

### 3.2 Violations

`plainfirst`, `selfloop`, `fork`, `twobreaks`, `newturn` each check one of the
properties above on the smallest instance where the code does not have it. The
passing runs leave exactly these instances out: `DeltaFirst` orders the batches;
the graphs in `Safe` have no task that follows itself with the same argument, no
static successor behind a completed sibling of an interrupted task other than
`END` or a join, no two breakpoints in one superstep, and no new turn in front of
a full barrier.

### 3.3 Mutants

Each property of a passing run comes with a mutated definition (marked `Mutant`
in the modules) that breaks it: the worker going on after a failure, a flush that
does not wait, restored tasks without their recorded identity, arrivals left out
of a pause's pending writes, and so on.

## 4. Proofs

Every theorem below is checked by TLAPS for every value of the constants that
meets the named assumptions of the component's module, and each states a property
that a run checks on small instances.

### 4.1 The checkpoint sink

For every channel capacity, set of tasks, set of batch sequences and number of
checkpoints, and for both modes:

| Theorem | Statement |
|---|---|
| `TypeCorrect` | `Spec => []TypeOK` |
| `CheckpointsFreeze` | `Spec => NoCheckpointPastFailure` |
| `NothingLostSilently` | `Spec => []NoSilentLoss` |
| `SinkImplementsContract` | `Spec => ImplementsContract` |
| `StoredWritesAreAnchored` | `Spec => []WritesAreAnchored` |
| `NoShortReads` | `Spec => []ReadsComplete`, if `DeltaBatchesFirst` |

Assumptions: the mode is sync or async, the capacity is at least 1, the run
goroutine is not a task, and the bounds are naturals (`ModeAssumption`,
`QueueCapAssumption`, `RunAssumption`, `MaxBatchAssumption`,
`BatchesAssumption`, `MaxCpAssumption`).

`NoShortReads` has a hypothesis: a superstep hands its delta batches over before
its plain ones. It is needed, as the violation run `plainfirst` shows: without it
a failed plain write freezes the sink in front of a delta write, and nothing
repairs the checkpoint. The code does not order the batches.

None of the properties is inductive by itself. The invariant is built in layers,
each preserved by the layers below it:

1. `TypeInv`: types, and that a superstep sends no more batches than it has.
2. `Control`: where a goroutine can be given the others. Between supersteps only
   the run calls the sink, during one only tasks do, and they never put; the
   worker stops at the first failure, or on a closed and empty channel; in sync
   mode a failure is the run's error and no put is under way after it. This gives
   `CheckpointsFreeze`.
3. `Queue`: until a failure, the accepted requests are the stored ones, then the
   one the worker holds, then the channel, in order. After a failure only the
   prefix remains.
4. `Verdict`: "ok" excludes a failure. With `Queue` and the empty channel of a
   worker that stopped without one, this gives `NothingLostSilently`, and step by
   step `SinkImplementsContract`.
5. `Anchor`: a write is called, accepted and stored only behind the put of its
   checkpoint. This gives `StoredWritesAreAnchored`.
6. `Order`: requests are accepted in the order of checkpoints and batches, each
   behind all that its superstep sent before it. So when a delta batch is up for
   storage, everything in front of it is stored (the `Turn` lemmas).
7. `Repaired`: after a failure every saved checkpoint but the last holds its
   delta batches, and the last holds them or has been, or is about to be, put
   again before the run returns. This gives `NoShortReads`.

### 4.2 The run loop

For every set of compiled graphs that meets `WellFormed` (what `Compile` and
`AddJoinEdge` accept), every bound on checkpoints, answers, turns and faults, in sync
and async mode, with or without time travel:

| Theorem | Statement |
|---|---|
| `PregelTypes` | `Spec => []TypeOK` |
| `AnswersStayInOrder` | `Spec => []AnswersInOrder` |
| `JoinsNeverEarly` | `Spec => []JoinNeverEarly`, if every graph is `JoinsOnly` |
| `JoinsFire` | `Spec /\ []NoTwins /\ []NothingRepeats /\ [][CleanTurn]_vars => []JoinFires` |
| `WorkAppliedOnce` | `Spec /\ []NoTwins /\ []NothingRepeats => []AppliedOnce` |
| `SuccessorsFollow` | `Spec /\ []NothingRepeats /\ []NoForks => []EverySuccessorRuns` |
| `FailedNodesRecover` | `Spec /\ []NoTwins => []NodeNotRerunAfterError`, if every graph `Recovers` |
| `AnswersDelivered` | `Spec /\ []Unmixed => []AnswerDelivered` |
| `BreakpointsPassed` | `Spec /\ []Alone => []BreakpointPassed` |

The properties from `JoinFires` on fail in the code for some graphs (section 5). Each
hypothesis names the behaviour that has to be absent:

| Hypothesis | Says | Why the code needs it |
|---|---|---|
| `JoinsOnly` | the child of a join is no entry, edge, Send or Goto target and no other join's child | a child reached another way runs without its parents, by the graph's own wish |
| `NoTwins` | no superstep has two tasks of one node and argument | they share a `TaskID` and a slot of pending writes |
| `NothingRepeats` | a commit plans no task with the node and argument of one that just ran | its writes are stored under the successor's `TaskID` (`selfloop`) |
| `NoForks` | a task that completes beside one that asks has sent, or ends | a pending write keeps the Sends and not the edges (`fork`) |
| `CleanTurn` | no new turn starts in front of a full barrier that has triggered its child | the version is seen already (`newturn`) |
| `Recovers` | a node that may fail into a handler asks nothing and is no Goto target | a stored interrupt hides a stored error; a replayed Send is looked up under another checkpoint's identity |
| `Unmixed` | no superstep has a node that asks and a breakpoint node | the breakpoint pauses first and the answer is dropped (`BreakAndAsk`) |
| `Alone` | a superstep with a breakpoint node has no other one, and no task of it asks or leaves an ERROR write | a resume exempts the node of its own checkpoint only: each of two breakpoints stops the other's resume (`twobreaks`), and a later pause of the same superstep is a checkpoint without the exemption (`BreakAndAsk`) |

`NoTwins`, `NothingRepeats`, `NoForks`, `CleanTurn`, `Unmixed` and `Alone` are statements
about the plan and not about the graph, since a router may decide at run time whether they
hold. The instances of the `pregel` run satisfy them; TLC has checked them, and the
inductive invariants below, on its graphs.

1. `Base`, in `PregelProofs`: `Saver` (what is stored, and what is under way in `io`),
   `Run` (the position in the chain of checkpoints, what may be loaded) and
   `Superstep` (outcomes belong to tasks, and a task asks only while answers last). The
   other layers never speak of `store` and `io` apart: `Saved` is every checkpoint with
   its plan, and `Written` every pending write with its checkpoint, *stored or on the
   way*. A crash makes both smaller, executing a saver call changes neither, and so an
   invariant that says "for all of `Saved`" survives both without a case of its own.
   `Base` gives `PregelTypes` and `AnswersStayInOrder`: every stored prefix, every resume
   queue and every task in a log is `Aligned`, answer x with question x. A resume keeps
   that because a pause stores, with the prefix, the number of the question behind it,
   and the new answer is given to that question. A resume from a checkpoint without the
   prefix starts over with an empty queue, which is aligned.
2. `OnceInv`: every execution number in a state's log was given out before, and a
   pending write that some checkpoint's plan would replay is not in the log saved with
   it (`PutOK`). `NothingRepeats` is used where a commit stores the writes of the tasks
   that ran on the checkpoint that plans the next ones.
3. `SuccInv`: every destination chosen in the current turn, node and argument, runs
   later in the log or is in the plan (`Followed`), for the current state and for every
   saved one. A replayed task's destinations are planned with its Sends.
4. `ErrInv`: a task whose ERROR write is on its checkpoint, stored or under way, is
   planned for its handler, and once that is dispatched its node does not run.
5. `GivenInv`: the answer a resume carries is either taken by a task or still awaited by
   an addressed task that asks, so that a run that pauses has handed it over; while it
   is awaited it stands at the end of that task's queue (`Queued`).
6. `JoinInv`: at every position of every log the child's count is at most each
   parent's, and for a parent that has arrived at a barrier that is not spent it is
   smaller (`StateJ`); a plan that names the child has the count one behind (`PlanJ`).
   A barrier is *spent* when it is full and the child has seen its version.
7. `FireInv`: unless the child has run in the turn or is planned, every parent that has
   run in the turn stands in the barrier, a full barrier has not triggered the child
   yet, and once all parents have run there is a task left to run; a stored plan keeps
   a task that its resume runs (`Left`). `NoTwins` and `NothingRepeats` come in through the replay
   of completed parents, `CleanTurn` through the start of a turn.
8. `PassInv`, without time travel: checkpoints are saved in the order of their steps,
   and the identities a plan holds were stamped no later than it (`Dated`). A checkpoint
   saved in front of a breakpoint names the node, under an identity stamped before it,
   and no later checkpoint holds that identity (`LeftBehind`); a run that has such a task
   to dispatch has the node exempted (`Passes`). A commit stamps its plan for a later
   step and fresh input under a new checkpoint, so that only pauses could repeat an
   identity, and those `Alone` keeps away from a breakpoint already passed.

What the operators do that both sides use (`applyWrites`, `Consume`, `MarkSeen`,
`NextTasks`, the merge of pending writes) is stated once as lemmas of `PregelProofs`
(`NewTaskFacts`, `RoutedFacts`, `ReplaySendFacts`, `Applied`, `ReadFacts`).

### 4.3 The functional API

For every program, number of turns, resumes and faults:

| Theorem | Statement |
|---|---|
| `FunctionalTypes` | `Spec => []TypeOK` |
| `PreviousValue` | `Spec => []PreviousIsLastSaved` |
| `ReplayFindsItsCall` | `Spec => []SameCall`, if `SingleAttempt` |
| `SavedTaskNotRedone` | `Spec => []NotRedone`, if `SingleAttempt` |

`SingleAttempt` says that a task that makes calls, and an entrypoint that does,
has one attempt. Tasks without calls may be retried as often as they like. It is
needed: the second attempt of a caller numbers its calls on from the first, and
replay goes by these numbers (section 5). A task without a retry policy has one
attempt (`task.go:226`).

1. `TypeInv`: besides types, that a goroutine stays within its body and holds only
   futures of its run, that its cursor never moves back, and that no checkpoint
   holds a value of a run to come.
2. `SavedInv`: the latest checkpoint carries the value the last completed run
   saved.
3. `SiteInv`: a call path, made of task names and call indices, determines the
   *site* of the call (the positions in the bodies along the path), for frames,
   futures, results, replay table and the latest checkpoint alike. A caller has
   numbered as many calls as stand in front of its position in the body, so that no
   index is used twice (`Fresh`); and what must not be executed again is in the
   replay table while the run lives (`DoneInReplay`).

### 4.4 The agents

For every agent (tools, reviewed tools, limits and their exits, retries,
structured output, hooks) that meets `AgentsAssumption`, every number of turns,
retries, faults and jumps, and answers with up to two calls:

| Theorem | Statement |
|---|---|
| `AgentTypes` | `Spec => []TypeOK` |
| `DecisionsHold` | `Spec => []ExecutedAsDecided` |
| `ThreadLimits` | `Spec => []LimitsHold` |
| `HistoriesAnswered` | `Spec => []HistoryAnswered`, if every agent is `Answerable` |

`Answerable` has three clauses, and TLC finds `HistoryAnswered` violated for an agent
that fails any one of them. Where an `after_agent` hook may jump back to the model, an
agent with client tools has no output tools (a structured answer leaves the client
calls beside it open), and no agent's tool call limit ends the run (the calls that
still fit, beside those it blocks, get no tool message). An agent without client tools names output tools only:
`buildRouteStructuredOnly` routes back to the model over calls of other names that
nothing answers. Without such a jump the run is over in the first two cases, and the
next turn begins with a message of its own.

Instead of each action against each layer, the proofs first show what an action
does to the variables the properties look at (`StepKinds`): the run goes on, stops
or resumes where it is (`Stays`), leaves the review and the tools (`Rests`), runs a
tool (`Runs`), gets an answer it does not commit (`Loses`) or commits one
(`Commits`), finds nothing to review (`Clears`), or applies the reviewer's
decisions (`Reviews`).

1. `Base`: types; answers are numbered in the order they came and stand in the
   history once (`Rounds`); review and tools work on the latest answer
   (`Current`); there is a worker for each unanswered call (`Workers`). That a
   merge of messages keeps `Rounds` is where message IDs matter: an answer the
   review returns again replaces itself and is not appended.
2. `Review`: everything executed was decided for the very answer it belongs to,
   and nothing of an answer still under review has run (`Past`); blocked calls are
   answered (`Stopped`); a call about to run is as the reviewer left it
   (`Pending`). This gives `DecisionsHold`.
3. `Counting`: the count of model calls covers the answers in the history, the
   count of tool calls covers what ran for earlier answers together with the
   unblocked calls of the answer at work, and neither count passes its limit. This
   gives `ThreadLimits`; it needs `Review`, since what workers execute is bounded by
   what the count took when the answer came.
4. `History`: wherever the graph may still reach the model in this turn (`Onward`),
   every answer of the turn is `Settled`, each of its calls answered in front of the
   next answer, but for the one the review or the tools work on, of which the output
   tools' calls and the invalid call are (`Begun`). No message answers an invalid call
   of an answer to come (`NotAhead`), so that `repairInvalidToolCalls` never takes a
   new one for repaired. This gives `HistoriesAnswered`: the tools node settles what it
   leaves, and a route that avoids the tools is taken only where nothing is open
   (`SettledByRoute`).

Filters over message lists are written as `FlattenSeq` of pieces of length 0 and
1, and `SequenceLemmas` says what that returns: the chosen elements, all of them,
in order.

### 4.5 Only model-checked

- The liveness properties `RunReturns` (sink and functional API), `Completes` and
  `TurnEnds`: fairness and ENABLED are out of the prover's reach.
- `AnswersKept`. The proofs follow single resumes; this relates two checkpoints across
  everything saved between them, for the behaviours without time travel.
- `AnswersAligned` and `CursorInQueue`. They are not properties of every program: a
  task in flight across another's `Interrupt` breaks them (section 5). The runs
  check them on instances without that.
- `DeltaHistory`. The value of a channel is a fold over a chain of checkpoints of
  any length, and a theorem about it needs an induction over that data.

## 5. Where the code departs from its comments

Each has a violation run whose counterexample follows the code step by step, and an
entry under `findings` in `PROJECT.json` quoting the text it disagrees with.

- **plainfirst**. A failed *plain* write poisons the sink in front of a delta
  write of the same checkpoint. Only a failed delta write triggers the repair, so
  the saved checkpoint reads its delta channel short.
- **selfloop**. A commit stores the writes of the tasks that ran under
  `TaskID(new checkpoint, step + 1, ...)`, which is also the ID of a planned
  successor with the same node and argument. A resume from that checkpoint takes
  the successor for completed, applies the writes again and does not run it.
- **fork**. A task that completed beside an interrupted sibling is replayed with
  its writes and Sends, but the destinations of its static edges are not planned.
- **newturn**. A turn abandoned in front of a join child leaves the barrier full
  and its version seen: in the next turn the join does not fire.
- **twobreaks**. With two breakpoint nodes in a superstep, each resume exempts
  one and pauses in front of the other.

Two further instances are in `MCPregel` without a run of their own: with
`Graphs <- BreakAndAsk`, `AnswerDelivered` fails (a node that is a breakpoint and
asks: the resume that carries the answer pauses at the breakpoint again, and the
answer is dropped); with `Graphs <- AskThenFail`, `NodeNotRerunAfterError` fails
(a task with both a stored interrupt and a stored error counts as interrupted).

### Limits met while modelling

Found by TLC or by reading on the way; they have no violation run of their own.
The passing runs are on instances without them. Where a graph is named it is in
`MCDeltaHistory` outside `MCGraphs`, and TLC finds `ReadsAsSaved` violated when
`MCGraphs` is set to it alone.

Delta channels and exit durability:

- Accumulated writes are stored as one-element batches under one task ID: a task
  or an input that writes two delta channels keeps only the first
  (`checkpoint_sink.go:751`, `memory.go:182`). `TwoChannels`.
- An exit run that resumes and ends before its first save (nothing planned, or
  the first superstep fails) stores the loaded checkpoint again with an empty
  `Next` and itself as parent. The plan is lost, and the ancestor walk of a
  channel without a stored value does not end.
- An exit run leaves its writes on the checkpoint it started from. Reading that
  checkpoint, or starting a new turn from it, sees them; after a failed flush they
  leak into the next new turn. A new turn's *input* left on a paused checkpoint
  also leaks into an addressed resume, since `parseExitDeltaTaskID` takes it for
  the checkpoint's own.
- A pause clears the set of sealed channels, also of those it suppresses
  (`graph.go:2268-2284`): the branch reads the abandoned writes. `SealLost`.
- If an accumulated write fails at a pause that suppresses its channel, the repair
  leaves the channel out and the checkpoint reads short. `SuppressedFails`.
- A channel first written by a sibling of an interrupted task has no version yet:
  `GetState` does not show it, and when the pause is abandoned by a new turn the
  abandoned write is read later. `FirstWrite`.
- Savers that order by path put an exit resume's first superstep between the
  writes of the commit or `interrupt_after` checkpoint it resumed. `PathAfter`.
- A failed exit run saves its final checkpoint without `Next`, so that it cannot be
  retried. A process that dies between a checkpoint and its writes leaves it short.

Resume:

- `planResume` looks up ERROR writes only for the tasks named in `Next`
  (`resume.go:402-432`). A task planned by a replayed Send is not among them: if it
  fails and the process dies before its handler is done, the next resume runs its node
  again.
- A node that has been answered in part, in a superstep that then fails with an error
  handler in play, asks all over again: the checkpoint saved at the failure has ERROR
  writes, and not the INTERRUPT and RESUME writes of the one before
  (`graph.go:1832-1860`). The same holds for a resume
  that stops at a breakpoint. `AnswersKept` is stated around it.

Functional API:

- A retried task with nested calls takes new call indices, and one that asked does
  not rewind the cursor; with `EntrypointOpts.Timeout` and a retry the indices of
  two attempts interleave. Replay by index then repeats or misses calls.
- Results are stored after the pause checkpoint, on the latest checkpoint of the
  thread: a crash in between loses them.
- Tasks in flight across an `Interrupt` of another count the same answers
  (`task.go:190-196`): the cursor may pass the end of the queue the pause slices.

Agents:

- A tool that calls `Interrupt` beside another call ends the process: `ParallelMap`
  does not recover a panic of a worker.
- Run limits are not reset between runs; an answer that completes a structured
  response is not counted; an edited call is not counted as a call of its new tool.
- `ToolCallLimit` with exit "end", and a structured answer, leave other calls of
  the same answer without a tool message, as does a new turn over a pause.
- An agent with output tools and no client tools goes back to the model over a call
  of any other name, and nothing answers it (`buildRouteStructuredOnly`).
- An old `structured_response` ends a later structured retry.

Also: two tasks with one node and argument in a superstep share a `TaskID`, so the
second batch finds its slot taken; the replay of completed siblings expires Topic
and Ephemeral channels before the interrupted task runs again.

## 6. What is not modelled

Within reach and in the plan: subgraphs, the other channel types, node timeouts
and the node cache, streaming, the store, the rate limiter and indexing. Of the
modelled components: an entrypoint composed as a subgraph, the agent cache, tool
and model Commands, `jump_to` "tools", the provider strategy for structured output,
`BulkUpdateState`, a delta channel whose type changed between deployments.

Out of reach or without a question for a model checker, and most of the
repository's 83,000 lines:

- `partners` (HTTP clients of providers and vector stores) and the database savers
  are I/O against systems outside the repository. What the rest relies on is in
  the models as calls that may fail, answers that may be anything, and orders in
  which writes come back.
- Messages, content blocks, prompts, parsers, schemas, serialisation, loaders,
  splitters, `export` and trace formatting convert one value into another. Their
  correctness is in strings and layouts that a model would have to repeat line by
  line.
- `standardtests`, `storetest`, `savertest`, `integration`, `examples` are test
  suites and samples; `modelprofiles` is a generated table.
- Most middleware rewrites one request or response and keeps nothing.

The map therefore covers a small share of the repository as a whole and most of
the code that keeps state across steps, failures and restarts: four fifths of
`checkpoint_sink.go` and `delta_helpers.go`, more than half of `graph.go`, `resume.go`,
`state.go` and the tasks and dispatcher of `fn`, half of `snapshot.go`, and a quarter
of the agent factory.

## 7. Plan

In order of importance.

1. *Done*: `SinkContract`, `CheckpointSink`, `Pregel`, `DeltaHistory`, `Functional`,
   `Agent`. Proofs of the sink, the run loop, the functional API and the agents.
2. `DeltaHistory`: `StopIsLatest` for every graph (IDs grow, the stub's is
   reserved first), and lemmas on `PutWrites` and `Put`.
3. An abstract thread specification (a multiset of pending tasks, each applied
   once) that `Pregel` implements on the graphs of `Safe`.
4. Subgraphs by composing two instances of `Pregel` through a namespace; node
   timeout against a late result; the node cache shared by concurrent runs.
5. `StoreTTL`, `RateLimiter`: small concurrent components with one invariant each.
