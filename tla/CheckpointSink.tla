--------------------------- MODULE CheckpointSink ---------------------------
(***************************************************************************)
(* The checkpoint sink of langgraph/graph/checkpoint_sink.go in its sync   *)
(* and async durability modes: the run goroutine saves a checkpoint and    *)
(* then the write batches anchored on it, task goroutines persist ERROR    *)
(* writes while a superstep is dispatched, and in async mode one worker    *)
(* goroutine executes the requests from a bounded channel.  Every saver    *)
(* call may fail.                                                          *)
(*                                                                         *)
(* A checkpoint is a number; the batches a superstep anchors on it are a   *)
(* sequence of BOOLEANs, TRUE for a batch holding a DeltaChannel write.    *)
(***************************************************************************)
EXTENDS Naturals, Sequences, FiniteSets

CONSTANTS Mode,        \* "sync" or "async"
          QueueCap,    \* capacity of writeCh (32 in the code)
          Tasks,       \* task goroutines of a superstep
          Run,         \* the run goroutine
          Batches,     \* the batch sequences a superstep may produce
          MaxBatch,    \* bound: batches in one superstep
          MaxCp        \* bound: checkpoints a run saves

ASSUME ModeAssumption == Mode \in {"sync", "async"}
ASSUME QueueCapAssumption == QueueCap \in Nat \ {0}
ASSUME RunAssumption == Run \notin Tasks
ASSUME MaxBatchAssumption == MaxBatch \in Nat
ASSUME BatchesAssumption ==
    \A b \in Batches : b \in Seq(BOOLEAN) /\ Len(b) <= MaxBatch
ASSUME MaxCpAssumption == MaxCp \in Nat

Callers == Tasks \cup {Run}
Checkpoints == 1 .. MaxCp

\* sinkRequest: i numbers the batch, 0 for a put and for a task's ERROR write.
Requests == [kind : {"put", "writes"}, cp : Checkpoints, i : 0 .. MaxBatch, delta : BOOLEAN]
NoReq == [kind |-> "none", cp |-> 0, i |-> 0, delta |-> FALSE]
PutReq(n) == [kind |-> "put", cp |-> n, i |-> 0, delta |-> FALSE]
WriteReq(n, k, d) == [kind |-> "writes", cp |-> n, i |-> k, delta |-> d]

VARIABLES
    pc,         \* run goroutine: see Phases
    call,       \* [Callers -> request inside putCheckpoint/putWrites, or NoReq]
    tried,      \* tasks of this superstep that went through an ERROR write
    ncp,        \* checkpoints the run has tried to save
    batch,      \* batch[n]: the batches folded into checkpoint n
    sent,       \* batches of checkpoint ncp handed to the sink so far
    runErr,     \* an error was returned to the run or to one of its tasks
    writeCh,    \* the buffered channel
    closed,     \* flush closed it
    worker,     \* "recv", "exec", "repair", "exited"
    cur,        \* the request the worker holds
    lastPut,    \* last checkpoint put successfully (0: none)
    failed,     \* poisoned (sync) / workerErr (async): the first failure
    mend,       \* repairPut of lastPut: "none", "due", "ok", "failed"
    saved,      \* checkpoints the saver holds
    landed,     \* requests the saver executed, in order
    accepted,   \* requests whose call returned nil, in order
    result      \* the run's verdict: "none", "ok", "error"

vars == <<pc, call, tried, ncp, batch, sent, runErr, writeCh, closed, worker, cur,
          lastPut, failed, mend, saved, landed, accepted, result>>

runVars == <<pc, tried, ncp, batch, sent, runErr, result>>
chanVars == <<writeCh, closed, worker, cur>>
saverVars == <<lastPut, failed, mend, saved, landed>>

\* "run": between supersteps; "fanout": tasks execute; "commit": outcomes are
\* in; "flush", "wait": the deferred flush; "returned".
Phases == {"run", "fanout", "commit", "flush", "wait", "returned"}

TypeOK ==
    /\ pc \in Phases
    /\ call \in [Callers -> Requests \cup {NoReq}]
    /\ tried \subseteq Tasks
    /\ ncp \in 0 .. MaxCp
    /\ batch \in [Checkpoints -> Seq(BOOLEAN)]
    /\ sent \in Nat
    /\ runErr \in BOOLEAN
    /\ writeCh \in Seq(Requests)
    /\ closed \in BOOLEAN
    /\ worker \in {"recv", "exec", "repair", "exited"}
    /\ cur \in Requests \cup {NoReq}
    /\ lastPut \in 0 .. MaxCp
    /\ failed \in BOOLEAN
    /\ mend \in {"none", "due", "ok", "failed"}
    /\ saved \subseteq Checkpoints
    /\ landed \in Seq(Requests)
    /\ accepted \in Seq(Requests)
    /\ result \in {"none", "ok", "error"}

Init ==
    /\ pc = "run"
    /\ call = [c \in Callers |-> NoReq]
    /\ tried = {}
    /\ ncp = 0
    /\ batch = [n \in Checkpoints |-> <<>>]
    /\ sent = 0
    /\ runErr = FALSE
    /\ writeCh = <<>>
    /\ closed = FALSE
    /\ worker = IF Mode = "async" THEN "recv" ELSE "exited"
    /\ cur = NoReq
    /\ lastPut = 0
    /\ failed = FALSE
    /\ mend = "none"
    /\ saved = {}
    /\ landed = <<>>
    /\ accepted = <<>>
    /\ result = "none"
-----------------------------------------------------------------------------
(* The run goroutine.                                                      *)

Idle(c) == call[c] = NoReq
AllSent == ncp > 0 => sent = Len(batch[ncp])

\* Mutant: sync mode does not look at the recorded failure.
NotPoisoned == Mode = "async" /\ worker = "exited"

\* The check at the head of putCheckpoint and putWrites: s.poisoned # nil in
\* sync mode, workerDone closed in async mode.
Refused == IF Mode = "sync" THEN failed ELSE worker = "exited"

\* The run saves a checkpoint (input, loop or pause) and enters putCheckpoint.
PutCheckpoint(b) ==
    /\ pc \in {"run", "commit"} /\ Idle(Run) /\ AllSent
    /\ ncp < MaxCp
    /\ ~Refused
    /\ pc' = "run"
    /\ ncp' = ncp + 1
    /\ batch' = [batch EXCEPT ![ncp + 1] = b]
    /\ sent' = 0
    /\ call' = [call EXCEPT ![Run] = PutReq(ncp + 1)]
    /\ UNCHANGED <<tried, runErr, chanVars, saverVars, accepted, result>>

\* Mutant: the batch number runs ahead.
PutWritesOffByOne ==
    /\ pc = "run" /\ Idle(Run) /\ ~AllSent
    /\ ~Refused
    /\ sent' = sent + 1
    /\ call' = [call EXCEPT ![Run] = WriteReq(ncp, sent + 2, batch[ncp][sent + 1])]
    /\ UNCHANGED <<pc, tried, ncp, batch, runErr, chanVars, saverVars, accepted, result>>

\* ... and hands over the next batch anchored on it.
PutWrites ==
    /\ pc = "run" /\ Idle(Run) /\ ~AllSent
    /\ ~Refused
    /\ sent' = sent + 1
    /\ call' = [call EXCEPT ![Run] = WriteReq(ncp, sent + 1, batch[ncp][sent + 1])]
    /\ UNCHANGED <<pc, tried, ncp, batch, runErr, chanVars, saverVars, accepted, result>>

\* A call is refused: the run returns the recorded error.
RunRefused ==
    /\ pc \in {"run", "commit"} /\ Idle(Run)
    /\ Refused
    /\ runErr' = TRUE
    /\ pc' = "flush"
    /\ UNCHANGED <<call, tried, ncp, batch, sent, chanVars, saverVars, accepted, result>>

\* The superstep is dispatched; its tasks run concurrently.
Dispatch ==
    /\ pc = "run" /\ Idle(Run) /\ ncp > 0 /\ AllSent
    /\ pc' = "fanout"
    /\ tried' = {}
    /\ UNCHANGED <<call, ncp, batch, sent, runErr, chanVars, saverVars, accepted, result>>

\* A task with an error handler failed: its ERROR write is persisted first.  The
\* tasks of a superstep read and write s.poisoned without synchronisation, so in
\* sync mode a task may or may not see the failure a sibling just recorded.
PutErrorWrite(t) ==
    /\ pc = "fanout" /\ Idle(t) /\ t \notin tried
    /\ tried' = tried \cup {t}
    /\ \/ /\ Refused
          /\ runErr' = TRUE
          /\ UNCHANGED call
       \/ /\ Mode = "sync" \/ ~Refused
          /\ call' = [call EXCEPT ![t] = WriteReq(ncp, 0, FALSE)]
          /\ UNCHANGED runErr
    /\ UNCHANGED <<pc, ncp, batch, sent, chanVars, saverVars, accepted, result>>

\* All tasks returned: the run commits, pauses or aborts.
Collect ==
    /\ pc = "fanout" /\ \A t \in Tasks : Idle(t)
    /\ pc' = "commit"
    /\ UNCHANGED <<call, tried, ncp, batch, sent, runErr, chanVars, saverVars, accepted, result>>

\* A task failed without a handler: the run stops and saves nothing.
Abort ==
    /\ pc = "commit"
    /\ pc' = "flush"
    /\ runErr' = TRUE
    /\ UNCHANGED <<call, tried, ncp, batch, sent, chanVars, saverVars, accepted, result>>

\* The last superstep is committed: run's deferred flush starts.
Finish ==
    /\ pc = "run" /\ Idle(Run) /\ AllSent
    /\ pc' = "flush"
    /\ UNCHANGED <<call, tried, ncp, batch, sent, runErr, chanVars, saverVars, accepted, result>>
-----------------------------------------------------------------------------
(* Sync mode: the caller executes the request itself.                      *)

\* What a successful saver call changes.
Stored(r) ==
    /\ landed' = Append(landed, r)
    /\ saved' = IF r.kind = "put" THEN saved \cup {r.cp} ELSE saved
    /\ lastPut' = IF r.kind = "put" THEN r.cp ELSE lastPut
    /\ UNCHANGED <<failed, mend>>

\* Mutant: no repair.
NotStoredUnrepaired(r) == failed' = TRUE /\ UNCHANGED <<saved, landed, lastPut, mend>>

\* What a failing one changes; a failed delta batch makes a repair due.
NotStored(r) ==
    /\ failed' = TRUE
    /\ mend' = IF r.kind = "writes" /\ r.delta /\ lastPut # 0 /\ lastPut = r.cp
               THEN "due" ELSE mend
    /\ UNCHANGED <<saved, landed, lastPut>>

SyncStore(c) ==
    /\ Mode = "sync" /\ ~Idle(c)
    /\ Stored(call[c])
    /\ accepted' = Append(accepted, call[c])
    /\ call' = [call EXCEPT ![c] = NoReq]
    /\ UNCHANGED <<runVars, chanVars>>

\* Mutant: the saver's error is swallowed.
SyncFailSwallowed(c) ==
    /\ Mode = "sync" /\ ~Idle(c)
    /\ call' = [call EXCEPT ![c] = NoReq]
    /\ UNCHANGED <<runVars, chanVars, saverVars, accepted>>

SyncFail(c) ==
    /\ Mode = "sync" /\ ~Idle(c)
    /\ NotStored(call[c])
    /\ runErr' = TRUE
    /\ call' = [call EXCEPT ![c] = NoReq]
    /\ pc' = IF c = Run THEN "flush" ELSE pc
    /\ UNCHANGED <<tried, ncp, batch, sent, result, chanVars, accepted>>

\* repairPut: lastPut is put again with full snapshots of its delta channels.
RepairPut(ok) ==
    /\ mend = "due"
    /\ mend' = IF ok THEN "ok" ELSE "failed"
    /\ worker' = IF worker = "repair" THEN "exited" ELSE worker
    /\ UNCHANGED <<runVars, call, writeCh, closed, cur, lastPut, failed, saved,
                   landed, accepted>>
-----------------------------------------------------------------------------
(* Async mode: the second select of putCheckpoint and putWrites.           *)

Enqueue(c) ==
    /\ Mode = "async" /\ ~Idle(c)
    /\ Len(writeCh) < QueueCap
    /\ writeCh' = Append(writeCh, call[c])
    /\ accepted' = Append(accepted, call[c])
    /\ call' = [call EXCEPT ![c] = NoReq]
    /\ UNCHANGED <<runVars, closed, worker, cur, saverVars>>

\* Mutant: no select on workerDone.
NeverRefused(c) == FALSE

\* ... or gives up because the worker is gone.
EnqueueRefused(c) ==
    /\ Mode = "async" /\ ~Idle(c)
    /\ worker = "exited"
    /\ runErr' = TRUE
    /\ call' = [call EXCEPT ![c] = NoReq]
    /\ pc' = IF c = Run THEN "flush" ELSE pc
    /\ UNCHANGED <<tried, ncp, batch, sent, result, chanVars, saverVars, accepted>>

(* The worker goroutine.                                                   *)

WorkerReceive ==
    /\ worker = "recv" /\ writeCh # <<>>
    /\ cur' = Head(writeCh)
    /\ writeCh' = Tail(writeCh)
    /\ worker' = "exec"
    /\ UNCHANGED <<runVars, call, closed, saverVars, accepted>>

WorkerStore ==
    /\ worker = "exec"
    /\ Stored(cur)
    /\ cur' = NoReq
    /\ worker' = "recv"
    /\ UNCHANGED <<runVars, call, writeCh, closed, accepted>>

\* Mutant: the worker goes on after a failure.
WorkerFailContinues ==
    /\ worker = "exec"
    /\ NotStored(cur)
    /\ cur' = NoReq
    /\ worker' = IF mend' = "due" THEN "repair" ELSE "recv"
    /\ UNCHANGED <<runVars, call, writeCh, closed, accepted>>

WorkerFail ==
    /\ worker = "exec"
    /\ NotStored(cur)
    /\ cur' = NoReq
    /\ worker' = IF mend' = "due" THEN "repair" ELSE "exited"
    /\ UNCHANGED <<runVars, call, writeCh, closed, accepted>>

WorkerClosed ==
    /\ worker = "recv" /\ closed /\ writeCh = <<>>
    /\ worker' = "exited"
    /\ UNCHANGED <<runVars, call, writeCh, closed, cur, saverVars, accepted>>
-----------------------------------------------------------------------------
(* flush, deferred by run.                                                 *)

FlushClose ==
    /\ pc = "flush"
    /\ mend # "due" \/ Mode = "async"
    /\ closed' = (Mode = "async")
    /\ pc' = "wait"
    /\ UNCHANGED <<call, tried, ncp, batch, sent, runErr, writeCh, worker, cur,
                   saverVars, accepted, result>>

\* Mutant: flush does not look at workerErr.
FlushIgnoresError ==
    /\ pc = "wait" /\ worker = "exited"
    /\ pc' = "returned"
    /\ result' = IF runErr THEN "error" ELSE "ok"
    /\ UNCHANGED <<call, tried, ncp, batch, sent, runErr, chanVars, saverVars, accepted>>

\* Mutant: flush does not wait for the worker.
FlushDoesNotWait ==
    /\ pc = "wait"
    /\ pc' = "returned"
    /\ result' = IF runErr \/ (Mode = "async" /\ failed) THEN "error" ELSE "ok"
    /\ UNCHANGED <<call, tried, ncp, batch, sent, runErr, chanVars, saverVars, accepted>>

\* <-workerDone; workerErr reaches the caller when the run itself succeeded.
FlushReturn ==
    /\ pc = "wait" /\ worker = "exited"
    /\ pc' = "returned"
    /\ result' = IF runErr \/ (Mode = "async" /\ failed) THEN "error" ELSE "ok"
    /\ UNCHANGED <<call, tried, ncp, batch, sent, runErr, chanVars, saverVars, accepted>>

Returned == pc = "returned" /\ UNCHANGED vars

RunStep == \/ \E b \in Batches : PutCheckpoint(b)
           \/ PutWrites \/ RunRefused \/ Dispatch \/ Collect \/ Abort \/ Finish
           \/ FlushClose \/ FlushReturn
CallStep(c) == SyncStore(c) \/ SyncFail(c) \/ Enqueue(c) \/ EnqueueRefused(c)
WorkerStep == WorkerReceive \/ WorkerStore \/ WorkerFail \/ WorkerClosed
RepairStep == \E ok \in BOOLEAN : RepairPut(ok)

Next == \/ RunStep
        \/ \E t \in Tasks : PutErrorWrite(t)
        \/ \E c \in Callers : CallStep(c)
        \/ WorkerStep
        \/ RepairStep
        \/ Returned

Spec == Init /\ [][Next]_vars

\* The scheduler runs every goroutine and a saver call returns.
Fairness ==
    /\ WF_vars(RunStep)
    /\ \A c \in Callers : WF_vars(CallStep(c))
    /\ WF_vars(WorkerStep)
    /\ WF_vars(RepairStep)

FairSpec == Spec /\ Fairness
-----------------------------------------------------------------------------
(* Properties.                                                             *)

LandedSet == {landed[k] : k \in DOMAIN landed}

\* The saver never holds a write whose checkpoint it does not hold (putWrites
\* is called only after the put it anchors on, and the channel is FIFO): a
\* saver rejects writes for an unknown checkpoint.
WritesAreAnchored == \A r \in LandedSet : r.kind = "writes" => r.cp \in saved

\* The first saver failure freezes the thread's checkpoints (poison in sync
\* mode, the worker stopping in async mode): no step of the run goroutine, of
\* a task goroutine or of the worker saves another one.
NoCheckpointPastFailure == [][failed => saved' = saved]_vars

\* A run that returns without an error has lost nothing: what putCheckpoint and
\* putWrites accepted, requests dropped in an abandoned channel included, has
\* been stored, in the order it was accepted.
NoSilentLoss == result = "ok" => landed = accepted

\* A saved checkpoint never reads short: once the run has returned, each of its
\* DeltaChannel batches is stored beside it or repairPut has materialised the
\* channels into it (unless the repair failed as well).
ReadsComplete ==
    pc = "returned" /\ mend # "failed" =>
        \A n \in saved :
            \/ mend = "ok" /\ n = lastPut
            \/ \A k \in DOMAIN batch[n] :
                   batch[n][k] => WriteReq(n, k, TRUE) \in LandedSet

\* The select on workerDone keeps callers from blocking on a full channel whose
\* reader has gone, and flush finds the worker done: every run returns.
RunReturns == <>(pc = "returned")

\* The sink keeps the contract a run relies on, in both modes: the log is what
\* the calls accepted, and the saver holds a prefix of it.
IsPutRequest(r) == r.kind = "put"
Contract == INSTANCE SinkContract
    WITH Request <- Requests, IsPut <- IsPutRequest,
         log <- accepted, durable <- Len(landed), failed <- failed, verdict <- result
ImplementsContract == Contract!ContractSpec
=============================================================================
