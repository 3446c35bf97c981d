------------------------ MODULE CheckpointSinkProofs ------------------------
(* Theorems about CheckpointSink, for every queue capacity, set of tasks,   *)
(* set of batch sequences and number of checkpoints, in both modes.         *)
EXTENDS CheckpointSink, SequenceTheorems, TLAPS

-----------------------------------------------------------------------------
(* Type correctness.                                                        *)

\* Batches are bounded, and no more of them are handed over than there are.
BatchOK == \A n \in Checkpoints : Len(batch[n]) <= MaxBatch
SentOK == ncp > 0 => sent <= Len(batch[ncp])
\* A dispatched superstep is anchored on a checkpoint.
FanoutOK == pc = "fanout" => ncp > 0
WorkerHolds == worker = "exec" => cur \in Requests

TypeInv == TypeOK /\ BatchOK /\ SentOK /\ FanoutOK /\ WorkerHolds

\* The requests a caller builds are well formed, and none of them is NoReq.
LEMMA RequestFacts ==
    /\ NoReq \notin Requests
    /\ \A r \in Requests : r.cp \in Checkpoints
    /\ \A n \in Checkpoints :
         /\ PutReq(n) \in Requests
         /\ WriteReq(n, 0, FALSE) \in Requests
         /\ \A k \in 0 .. MaxBatch, d \in BOOLEAN : WriteReq(n, k, d) \in Requests
BY MaxBatchAssumption DEF PutReq, WriteReq, Requests, NoReq

\* A new sink is well typed.
LEMMA InitTypeInv == Init => TypeInv
<1> SUFFICES ASSUME Init PROVE TypeInv
    OBVIOUS
<1>1. call \in [Callers -> Requests \cup {NoReq}]
    BY DEF Init
<1>2. batch \in [Checkpoints -> Seq(BOOLEAN)] /\ BatchOK
    BY MaxBatchAssumption DEF Init, BatchOK
<1>3. ncp \in 0 .. MaxCp /\ lastPut \in 0 .. MaxCp /\ sent \in Nat
    BY MaxCpAssumption DEF Init
<1>4. SentOK /\ FanoutOK /\ WorkerHolds
    BY ModeAssumption DEF Init, SentOK, FanoutOK, WorkerHolds
<1>5. worker \in {"recv", "exec", "repair", "exited"}
    BY ModeAssumption DEF Init
<1>6. writeCh \in Seq(Requests) /\ landed \in Seq(Requests) /\ accepted \in Seq(Requests)
    BY DEF Init
<1>7. QED
    BY <1>1, <1>2, <1>3, <1>4, <1>5, <1>6 DEF Init, TypeInv, TypeOK, Phases

\* What a saver call changes.
StoredOK ==
    /\ lastPut \in 0 .. MaxCp
    /\ failed \in BOOLEAN
    /\ mend \in {"none", "due", "ok", "failed"}
    /\ saved \subseteq Checkpoints
    /\ landed \in Seq(Requests)

\* A successful saver call keeps the types of what it changes.
LEMMA StoredTypes ==
    ASSUME TypeOK, NEW r \in Requests, Stored(r) PROVE StoredOK'
<1>1. r.cp \in Checkpoints /\ r.cp \in 0 .. MaxCp
    BY RequestFacts, MaxCpAssumption DEF Checkpoints
<1>2. CASE r.kind = "put"
    BY <1>1, <1>2 DEF Stored, StoredOK, TypeOK
<1>3. CASE r.kind # "put"
    BY <1>3 DEF Stored, StoredOK, TypeOK
<1>4. QED
    BY <1>2, <1>3

\* Every step of the run, of a task and of the worker keeps TypeInv.
LEMMA StepTypeInv == TypeInv /\ [Next]_vars => TypeInv'
<1> SUFFICES ASSUME TypeInv, [Next]_vars PROVE TypeInv'
    OBVIOUS
<1> USE RequestFacts, MaxCpAssumption, MaxBatchAssumption DEF TypeInv
<1>1. ASSUME NEW b \in Batches, PutCheckpoint(b) PROVE TypeInv'
    <2>1. b \in Seq(BOOLEAN) /\ Len(b) <= MaxBatch
        BY BatchesAssumption
    <2>2. ncp + 1 \in Checkpoints
        BY <1>1 DEF PutCheckpoint, TypeOK, Checkpoints
    <2>3. call' \in [Callers -> Requests \cup {NoReq}]
        BY <1>1, <2>2 DEF PutCheckpoint, TypeOK
    <2>4. batch' \in [Checkpoints -> Seq(BOOLEAN)] /\ BatchOK'
        BY <1>1, <2>1, <2>2 DEF PutCheckpoint, TypeOK, BatchOK
    <2>5. ncp' \in 0 .. MaxCp /\ sent' \in Nat /\ SentOK'
        BY <1>1, <2>1, <2>2 DEF PutCheckpoint, TypeOK, SentOK, Checkpoints
    <2>6. QED
        BY <1>1, <2>3, <2>4, <2>5
           DEF PutCheckpoint, TypeOK, FanoutOK, WorkerHolds, Phases, chanVars, saverVars
<1>2. ASSUME PutWrites PROVE TypeInv'
    <2>1. ncp \in Checkpoints /\ sent + 1 <= Len(batch[ncp]) /\ sent + 1 \in 0 .. MaxBatch
        BY <1>2 DEF PutWrites, AllSent, TypeOK, SentOK, BatchOK, Checkpoints
    <2>2. batch[ncp][sent + 1] \in BOOLEAN
        BY <2>1 DEF TypeOK
    <2>3. call' \in [Callers -> Requests \cup {NoReq}]
        BY <1>2, <2>1, <2>2 DEF PutWrites, TypeOK
    <2>4. SentOK' /\ sent' \in Nat
        BY <1>2, <2>1 DEF PutWrites, SentOK, TypeOK
    <2>5. QED
        BY <1>2, <2>3, <2>4
           DEF PutWrites, TypeOK, BatchOK, FanoutOK, WorkerHolds, chanVars, saverVars
<1>3. ASSUME NEW t \in Tasks, PutErrorWrite(t) PROVE TypeInv'
    <2>1. ncp \in Checkpoints
        BY <1>3 DEF PutErrorWrite, FanoutOK, TypeOK, Checkpoints
    <2>2. call' \in [Callers -> Requests \cup {NoReq}] /\ runErr' \in BOOLEAN
        <3>1. WriteReq(ncp, 0, FALSE) \in Requests
            BY <2>1
        <3>2. CASE UNCHANGED call /\ runErr' = TRUE
            BY <3>2 DEF TypeOK
        <3>3. CASE call' = [call EXCEPT ![t] = WriteReq(ncp, 0, FALSE)] /\ UNCHANGED runErr
            BY <3>1, <3>3 DEF TypeOK
        <3>4. QED
            BY <1>3, <3>2, <3>3 DEF PutErrorWrite
    <2>3. tried' \subseteq Tasks
        BY <1>3 DEF PutErrorWrite, TypeOK
    <2>4. QED
        BY <1>3, <2>2, <2>3
           DEF PutErrorWrite, TypeOK, BatchOK, SentOK, FanoutOK, WorkerHolds, chanVars, saverVars
<1>4. ASSUME RunRefused \/ Dispatch \/ Collect \/ Abort \/ Finish \/ FlushClose \/ FlushReturn \/ Returned
      PROVE TypeInv'
    <2> USE DEF TypeOK, BatchOK, SentOK, FanoutOK, WorkerHolds, Phases, chanVars, saverVars
    <2>1. CASE RunRefused
        BY <2>1 DEF RunRefused
    <2>2. CASE Dispatch
        BY <2>2 DEF Dispatch
    <2>3. CASE Collect
        BY <2>3 DEF Collect
    <2>4. CASE Abort
        BY <2>4 DEF Abort
    <2>5. CASE Finish
        BY <2>5 DEF Finish
    <2>6. CASE FlushClose
        BY <2>6 DEF FlushClose
    <2>7. CASE FlushReturn
        BY <2>7 DEF FlushReturn
    <2>8. CASE Returned
        BY <2>8 DEF Returned, vars
    <2>9. QED
        BY <1>4, <2>1, <2>2, <2>3, <2>4, <2>5, <2>6, <2>7, <2>8
<1>5. ASSUME NEW c \in Callers, CallStep(c) PROVE TypeInv'
    <2>1. call' \in [Callers -> Requests \cup {NoReq}] /\ call[c] \in Requests
        BY <1>5 DEF CallStep, SyncStore, SyncFail, Enqueue, EnqueueRefused, Idle, TypeOK
    <2>2. CASE SyncStore(c)
        <3>1. StoredOK' /\ accepted' \in Seq(Requests)
            BY <2>1, <2>2, StoredTypes DEF SyncStore, TypeOK
        <3>2. QED
            BY <2>1, <2>2, <3>1
               DEF SyncStore, StoredOK, TypeOK, BatchOK, SentOK, FanoutOK, WorkerHolds,
                   runVars, chanVars
    <2>3. CASE SyncFail(c)
        BY <1>5, <2>1, <2>3
           DEF SyncFail, NotStored, TypeOK, BatchOK, SentOK, FanoutOK, WorkerHolds, chanVars, Phases
    <2>4. CASE Enqueue(c)
        BY <1>5, <2>1, <2>4
           DEF Enqueue, TypeOK, BatchOK, SentOK, FanoutOK, WorkerHolds, runVars, saverVars
    <2>5. CASE EnqueueRefused(c)
        BY <1>5, <2>1, <2>5
           DEF EnqueueRefused, TypeOK, BatchOK, SentOK, FanoutOK, WorkerHolds, chanVars, saverVars, Phases
    <2>6. QED
        BY <1>5, <2>2, <2>3, <2>4, <2>5 DEF CallStep
<1>6. ASSUME WorkerStep PROVE TypeInv'
    <2>1. CASE WorkerReceive
        BY <2>1 DEF WorkerReceive, TypeOK, BatchOK, SentOK, FanoutOK, WorkerHolds, runVars, saverVars
    <2>2. CASE WorkerStore
        <3>1. StoredOK'
            BY <2>2, StoredTypes DEF WorkerStore, WorkerHolds
        <3>2. QED
            BY <2>2, <3>1
               DEF WorkerStore, StoredOK, TypeOK, BatchOK, SentOK, FanoutOK, WorkerHolds, runVars
    <2>3. CASE WorkerFail
        BY <2>3 DEF WorkerFail, NotStored, TypeOK, BatchOK, SentOK, FanoutOK, WorkerHolds, runVars
    <2>4. CASE WorkerClosed
        BY <2>4 DEF WorkerClosed, TypeOK, BatchOK, SentOK, FanoutOK, WorkerHolds, runVars, saverVars
    <2>5. QED
        BY <1>6, <2>1, <2>2, <2>3, <2>4 DEF WorkerStep
<1>7. ASSUME RepairStep PROVE TypeInv'
    BY <1>7 DEF RepairStep, RepairPut, TypeOK, BatchOK, SentOK, FanoutOK, WorkerHolds, runVars
<1>8. ASSUME UNCHANGED vars PROVE TypeInv'
    BY <1>8 DEF vars, TypeOK, BatchOK, SentOK, FanoutOK, WorkerHolds
<1>9. QED
    BY <1>1, <1>2, <1>3, <1>4, <1>5, <1>6, <1>7, <1>8 DEF Next, RunStep

\* Every state the sink reaches is well typed: no request names a batch or a
\* checkpoint its superstep does not have.
THEOREM TypeCorrect == Spec => []TypeOK
<1>1. Spec => []TypeInv
    BY InitTypeInv, StepTypeInv, PTL DEF Spec
<1>2. TypeInv => TypeOK
    BY DEF TypeInv
<1>3. QED
    BY <1>1, <1>2, PTL
-----------------------------------------------------------------------------
(* Who works when, and what a failure stops.                                *)

\* Only the run goroutine works between supersteps, only tasks during one.
RunIdle == pc # "run" => Idle(Run)
TasksIdle == pc # "fanout" => \A t \in Tasks : Idle(t)
TaskCalls == \A t \in Tasks : Idle(t) \/ call[t].kind = "writes"
\* flush closes the channel when nobody is inside a call any more.
ClosedOK == closed => pc \in {"wait", "returned"}
\* The run returns once the worker is gone and no repair is under way.
ResultOK == /\ (result = "none" <=> pc # "returned")
            /\ pc = "returned" => worker = "exited"
\* Sync mode: a failure is the run's error, and it stops checkpoint saves.
SyncOK == Mode = "sync" =>
    /\ worker = "exited"
    /\ failed => runErr
    /\ failed => call[Run].kind # "put"
\* Async mode: the worker stops at the first failure, or on the drained channel.
AsyncOK == Mode = "async" =>
    /\ failed => worker \in {"repair", "exited"}
    /\ worker = "repair" => failed
    /\ worker = "exited" /\ ~failed => closed /\ writeCh = <<>>

Control == RunIdle /\ TasksIdle /\ TaskCalls /\ ClosedOK /\ ResultOK /\ SyncOK /\ AsyncOK


\* A new sink satisfies Control.
LEMMA InitControl == Init => Control
BY ModeAssumption, RunAssumption
   DEF Init, Control, RunIdle, TasksIdle, TaskCalls, ClosedOK, ResultOK, SyncOK, AsyncOK,
       Idle, Callers, NoReq

\* Every step keeps Control: where each goroutine can be, given the others.
LEMMA StepControl == TypeInv /\ Control /\ [Next]_vars => Control'
<1> SUFFICES ASSUME TypeInv, Control, [Next]_vars PROVE Control'
    OBVIOUS
<1> USE ModeAssumption, RunAssumption
    DEF TypeInv, TypeOK, Control, RunIdle, TasksIdle, TaskCalls, ClosedOK, ResultOK, SyncOK,
        AsyncOK, Idle, Callers, runVars, chanVars, saverVars
<1>1. ASSUME NEW b \in Batches, PutCheckpoint(b) PROVE Control'
    BY <1>1 DEF PutCheckpoint, Refused, PutReq, NoReq
<1>2. ASSUME PutWrites PROVE Control'
    BY <1>2 DEF PutWrites, Refused, WriteReq, NoReq
<1>3. ASSUME RunRefused PROVE Control'
    BY <1>3 DEF RunRefused
<1>4. ASSUME Dispatch PROVE Control'
    BY <1>4 DEF Dispatch
<1>5. ASSUME NEW t \in Tasks, PutErrorWrite(t) PROVE Control'
    <2>1. CASE UNCHANGED call /\ runErr' = TRUE
        BY <1>5, <2>1 DEF PutErrorWrite
    <2>2. CASE call' = [call EXCEPT ![t] = WriteReq(ncp, 0, FALSE)] /\ UNCHANGED runErr
        <3>1. /\ pc = "fanout" /\ call'[Run] = call[Run]
              /\ \A u \in Tasks : call'[u] = call[u] \/ call'[u].kind = "writes"
            BY <1>5, <2>2 DEF PutErrorWrite, WriteReq
        <3>2. QED
            BY <1>5, <2>2, <3>1 DEF PutErrorWrite
    <2>3. QED
        BY <1>5, <2>1, <2>2 DEF PutErrorWrite
<1>6. ASSUME Collect PROVE Control'
    BY <1>6 DEF Collect
<1>7. ASSUME Abort PROVE Control'
    BY <1>7 DEF Abort
<1>8. ASSUME Finish PROVE Control'
    BY <1>8 DEF Finish
<1>9. ASSUME NEW c \in Callers, SyncStore(c) PROVE Control'
    BY <1>9 DEF SyncStore, Stored, NoReq
<1>10. ASSUME NEW c \in Callers, SyncFail(c) PROVE Control'
    <2>1. CASE c = Run
        BY <1>10, <2>1 DEF SyncFail, NotStored, NoReq
    <2>2. CASE c \in Tasks
        <3>1. pc = "fanout" /\ call[Run].kind = "none" /\ call'[Run] = call[Run] /\ pc' = pc
            BY <1>10, <2>2 DEF SyncFail, NoReq
        <3>2. QED
            BY <1>10, <2>2, <3>1 DEF SyncFail, NotStored, NoReq
    <2>3. QED
        BY <2>1, <2>2
<1>11. ASSUME NEW c \in Callers, Enqueue(c) PROVE Control'
    BY <1>11 DEF Enqueue, NoReq
<1>12. ASSUME NEW c \in Callers, EnqueueRefused(c) PROVE Control'
    BY <1>12 DEF EnqueueRefused, NoReq
<1>13. ASSUME WorkerReceive PROVE Control'
    BY <1>13 DEF WorkerReceive
<1>14. ASSUME WorkerStore PROVE Control'
    BY <1>14 DEF WorkerStore, Stored
<1>15. ASSUME WorkerFail PROVE Control'
    BY <1>15 DEF WorkerFail, NotStored
<1>16. ASSUME WorkerClosed PROVE Control'
    BY <1>16 DEF WorkerClosed
<1>17. ASSUME RepairStep PROVE Control'
    BY <1>17 DEF RepairStep, RepairPut
<1>18. ASSUME FlushClose PROVE Control'
    BY <1>18 DEF FlushClose
<1>19. ASSUME FlushReturn PROVE Control'
    BY <1>19 DEF FlushReturn
<1>20. ASSUME UNCHANGED vars PROVE Control'
    BY <1>20 DEF vars
<1>21. QED
    BY <1>1, <1>2, <1>3, <1>4, <1>5, <1>6, <1>7, <1>8, <1>9, <1>10, <1>11, <1>12, <1>13, <1>14, <1>15, <1>16, <1>17, <1>18, <1>19, <1>20
       DEF Next, RunStep, CallStep, WorkerStep, Returned

\* TypeInv and Control hold throughout a run.
LEMMA ControlInv == Spec => [](TypeInv /\ Control)
<1>1. Init => TypeInv /\ Control
    BY InitTypeInv, InitControl
<1>2. TypeInv /\ Control /\ [Next]_vars => (TypeInv /\ Control)'
    BY StepTypeInv, StepControl
<1>3. QED
    BY <1>1, <1>2, PTL DEF Spec

\* After the first failure no step saves a checkpoint: in sync mode the run
\* goroutine cannot be inside a put any more, in async mode the worker is gone.
THEOREM CheckpointsFreeze == Spec => NoCheckpointPastFailure
<1>1. TypeInv /\ Control /\ [Next]_vars => [failed => saved' = saved]_vars
    <2> SUFFICES ASSUME TypeInv, Control, Next, failed PROVE saved' = saved
        BY DEF vars
    <2>1. ASSUME NEW c \in Callers, SyncStore(c) PROVE saved' = saved
        <3>1. call[c].kind # "put"
            BY <2>1, RunAssumption
               DEF SyncStore, Control, SyncOK, TaskCalls, Callers, Idle
        <3>2. QED
            BY <2>1, <3>1 DEF SyncStore, Stored
    <2>2. ~WorkerStore
        BY ModeAssumption DEF WorkerStore, Control, SyncOK, AsyncOK
    <2>3. QED
        BY <2>1, <2>2
           DEF Next, RunStep, CallStep, WorkerStep, RepairStep, PutCheckpoint, PutWrites,
               RunRefused, Dispatch, Collect, Abort, Finish, FlushClose, FlushReturn,
               PutErrorWrite, SyncFail, Enqueue, EnqueueRefused, WorkerReceive, WorkerFail,
               WorkerClosed, RepairPut, Returned, NotStored, saverVars, vars
<1>2. QED
    BY <1>1, ControlInv, PTL DEF Spec, NoCheckpointPastFailure
-----------------------------------------------------------------------------
(* Where an accepted request is.                                            *)

\* The saver holds a prefix of what was accepted ...
Prefix == /\ Len(landed) <= Len(accepted)
          /\ \A i \in 1 .. Len(landed) : landed[i] = accepted[i]
SyncLanded == Mode = "sync" => Len(landed) = Len(accepted)
\* ... and until a failure the rest is with the worker and in the channel.
Held == IF worker = "exec" THEN 1 ELSE 0
InFlight == Mode = "async" /\ ~failed =>
    /\ Len(accepted) = Len(landed) + Held + Len(writeCh)
    /\ worker = "exec" => cur = accepted[Len(landed) + 1]
    /\ \A i \in 1 .. Len(writeCh) : writeCh[i] = accepted[Len(landed) + Held + i]

Queue == Prefix /\ SyncLanded /\ InFlight


\* A new sink satisfies Queue.
LEMMA InitQueue == Init => Queue
BY ModeAssumption DEF Init, Queue, Prefix, SyncLanded, InFlight, Held

\* Every step keeps Queue: accepted requests move through the channel and the
\* worker to the saver in order.
LEMMA StepQueue == TypeInv /\ Control /\ Queue /\ [Next]_vars => Queue'
<1> SUFFICES ASSUME TypeInv, Control, Queue, [Next]_vars PROVE Queue'
    OBVIOUS
<1> DEFINE n == Len(landed)
           m == Len(accepted)
           k == Len(writeCh)
<1>0. /\ landed \in Seq(Requests) /\ accepted \in Seq(Requests) /\ writeCh \in Seq(Requests)
      /\ n \in Nat /\ m \in Nat /\ k \in Nat
      /\ failed \in BOOLEAN
    BY DEF TypeInv, TypeOK
<1>1. ASSUME NEW c \in Callers, SyncStore(c) PROVE Queue'
    <2>1. call[c] \in Requests
        BY <1>1 DEF SyncStore, Idle, TypeInv, TypeOK
    <2>2. /\ Mode = "sync" /\ n = m
          /\ landed' = Append(landed, call[c]) /\ accepted' = Append(accepted, call[c])
        BY <1>1 DEF SyncStore, Stored, Queue, SyncLanded
    <2>3. /\ Len(landed') = n + 1 /\ Len(accepted') = n + 1
          /\ \A i \in 1 .. n + 1 : landed'[i] = accepted'[i]
        BY <1>0, <2>1, <2>2 DEF Queue, Prefix
    <2>4. QED
        BY <1>0, <2>2, <2>3 DEF Queue, Prefix, SyncLanded, InFlight
<1>2. ASSUME NEW c \in Callers, SyncFail(c) PROVE Queue'
    BY <1>2 DEF SyncFail, NotStored, Queue, Prefix, SyncLanded, InFlight
<1>3. ASSUME NEW c \in Callers, Enqueue(c) PROVE Queue'
    <2>1. call[c] \in Requests
        BY <1>3 DEF Enqueue, Idle, TypeInv, TypeOK
    <2>2. /\ Mode = "async"
          /\ accepted' = Append(accepted, call[c]) /\ writeCh' = Append(writeCh, call[c])
          /\ UNCHANGED <<landed, worker, cur, failed>>
        BY <1>3 DEF Enqueue, saverVars
    <2>3. /\ Len(accepted') = m + 1 /\ accepted'[m + 1] = call[c]
          /\ \A i \in 1 .. m : accepted'[i] = accepted[i]
          /\ Len(writeCh') = k + 1 /\ writeCh'[k + 1] = call[c]
          /\ \A i \in 1 .. k : writeCh'[i] = writeCh[i]
        BY <1>0, <2>1, <2>2
    <2>4. Prefix'
        BY <1>0, <2>2, <2>3 DEF Queue, Prefix
    <2>5. ASSUME ~failed PROVE InFlight'
        <3>1. /\ m = n + Held + k /\ Held \in {0, 1} /\ Held' = Held
              /\ worker = "exec" => cur = accepted[n + 1] /\ Held = 1
              /\ \A i \in 1 .. k : writeCh[i] = accepted[n + Held + i]
            BY <2>2, <2>5 DEF Queue, InFlight, Held
        <3>2. ASSUME NEW i \in 1 .. k + 1 PROVE writeCh'[i] = accepted'[n + Held + i]
            <4>1. CASE i = k + 1
                BY <1>0, <2>3, <3>1, <4>1
            <4>2. CASE i \in 1 .. k
                <5>1. n + Held + i \in 1 .. m
                    BY <1>0, <3>1, <4>2
                <5>2. QED
                    BY <2>3, <3>1, <4>2, <5>1
            <4>3. QED
                BY <1>0, <4>1, <4>2
        <3>3. worker = "exec" => cur = accepted'[n + 1]
            BY <1>0, <2>3, <3>1
        <3>4. Len(accepted') = Len(landed') + Held' + Len(writeCh')
            BY <1>0, <2>2, <2>3, <3>1
        <3>5. worker' = "exec" => cur' = accepted'[Len(landed') + 1]
            BY <2>2, <3>3
        <3>6. \A i \in 1 .. Len(writeCh') : writeCh'[i] = accepted'[Len(landed') + Held' + i]
            BY <2>2, <2>3, <3>1, <3>2
        <3>7. QED
            BY <3>4, <3>5, <3>6 DEF InFlight
    <2>6. QED
        BY <1>0, <2>2, <2>4, <2>5 DEF Queue, SyncLanded, InFlight
<1>4. ASSUME WorkerReceive PROVE Queue'
    <2>1. /\ worker = "recv" /\ worker' = "exec" /\ k > 0
          /\ cur' = writeCh[1] /\ writeCh' = Tail(writeCh)
          /\ UNCHANGED <<landed, accepted, failed>>
        BY <1>0, <1>4 DEF WorkerReceive, saverVars
    <2>2. /\ Len(writeCh') = k - 1
          /\ \A i \in 1 .. k - 1 : writeCh'[i] = writeCh[i + 1]
        BY <1>0, <2>1
    <2>3. ASSUME Mode = "async", ~failed PROVE InFlight'
        <3>1. /\ m = n + k
              /\ \A i \in 1 .. k : writeCh[i] = accepted[n + i]
            BY <1>0, <2>1, <2>3 DEF Queue, InFlight, Held
        <3>2. Held' = 1 /\ cur' = accepted[n + 1]
            BY <1>0, <2>1, <3>1 DEF Held
        <3>3. \A i \in 1 .. k - 1 : writeCh'[i] = accepted[n + 1 + i]
            BY <1>0, <2>2, <3>1
        <3>4. Len(accepted') = Len(landed') + Held' + Len(writeCh')
            <4>1. Len(accepted') = m /\ Len(landed') = n
                BY <2>1
            <4>2. m = n + 1 + (k - 1)
                BY <1>0, <3>1
            <4>3. QED
                BY <2>2, <3>2, <4>1, <4>2
        <3>5. cur' = accepted'[Len(landed') + 1]
            BY <2>1, <3>2
        <3>6. \A i \in 1 .. Len(writeCh') : writeCh'[i] = accepted'[Len(landed') + Held' + i]
            BY <2>1, <2>2, <3>2, <3>3
        <3>7. QED
            BY <3>4, <3>5, <3>6 DEF InFlight
    <2>4. QED
        BY <1>0, <2>1, <2>3 DEF Queue, Prefix, SyncLanded, InFlight
<1>5. ASSUME WorkerStore PROVE Queue'
    <2>1. Mode = "async" /\ ~failed /\ cur \in Requests /\ worker = "exec"
        BY <1>5, ModeAssumption DEF WorkerStore, TypeInv, WorkerHolds, Control, SyncOK, AsyncOK
    <2>2. /\ landed' = Append(landed, cur) /\ worker' = "recv"
          /\ UNCHANGED <<writeCh, accepted, failed>>
        BY <1>5 DEF WorkerStore, Stored
    <2>3. /\ Len(landed') = n + 1 /\ landed'[n + 1] = cur
          /\ \A i \in 1 .. n : landed'[i] = landed[i]
        BY <1>0, <2>1, <2>2
    <2>4. /\ m = n + 1 + k /\ cur = accepted[n + 1]
          /\ \A i \in 1 .. k : writeCh[i] = accepted[n + 1 + i]
        BY <2>1 DEF Queue, InFlight, Held
    <2>5. Prefix'
        <3>1. \A i \in 1 .. n : landed'[i] = accepted[i]
            BY <2>3 DEF Queue, Prefix
        <3>2. ASSUME NEW i \in 1 .. n + 1 PROVE landed'[i] = accepted[i]
            <4>1. i = n + 1 \/ i \in 1 .. n
                BY <1>0
            <4>2. QED
                BY <2>3, <2>4, <3>1, <4>1
        <3>3. QED
            BY <1>0, <2>2, <2>3, <2>4, <3>2 DEF Prefix
    <2>6. Held' = 0
        BY <2>2 DEF Held
    <2>7. InFlight'
        BY <1>0, <2>2, <2>3, <2>4, <2>6 DEF InFlight
    <2>8. QED
        BY <2>1, <2>5, <2>7 DEF Queue, SyncLanded
<1>6. ASSUME WorkerFail PROVE Queue'
    <2>1. failed' /\ landed' = landed /\ accepted' = accepted
        BY <1>6 DEF WorkerFail, NotStored
    <2>2. QED
        BY <2>1 DEF Queue, Prefix, SyncLanded, InFlight
<1>7. ASSUME WorkerClosed PROVE Queue'
    BY <1>7 DEF WorkerClosed, saverVars, Queue, Prefix, SyncLanded, InFlight, Held
<1>8. ASSUME RepairStep PROVE Queue'
    <2>1. UNCHANGED <<writeCh, cur, failed, landed, accepted>> /\ Held' = Held
          /\ (worker' = "exec" <=> worker = "exec")
        BY <1>8 DEF RepairStep, RepairPut, Held
    <2>2. QED
        BY <2>1 DEF Queue, Prefix, SyncLanded, InFlight
<1>9. ASSUME UNCHANGED <<writeCh, worker, cur, failed, landed, accepted>> PROVE Queue'
    BY <1>9 DEF Queue, Prefix, SyncLanded, InFlight, Held
<1>10. QED
    BY <1>1, <1>2, <1>3, <1>4, <1>5, <1>6, <1>7, <1>8, <1>9
       DEF Next, RunStep, CallStep, WorkerStep, PutCheckpoint, PutWrites, RunRefused, Dispatch,
           Collect, Abort, Finish, FlushClose, FlushReturn, PutErrorWrite, EnqueueRefused,
           Returned, chanVars, saverVars, vars

\* Queue holds throughout a run.
LEMMA QueueInv == Spec => [](TypeInv /\ Control /\ Queue)
<1>1. TypeInv /\ Control /\ Queue /\ [Next]_vars => Queue'
    BY StepQueue
<1>2. QED
    BY <1>1, InitQueue, ControlInv, PTL DEF Spec

\* A run that returns "ok" has seen no failure.
Verdict == result = "ok" => ~failed

\* No step returns "ok" after a failure.
LEMMA StepVerdict == TypeInv /\ Control /\ Verdict /\ [Next]_vars => Verdict'
<1> SUFFICES ASSUME TypeInv, Control, Verdict, [Next]_vars PROVE Verdict'
    OBVIOUS
<1>1. CASE FlushReturn
    BY <1>1, ModeAssumption
       DEF FlushReturn, Control, SyncOK, Verdict, TypeInv, TypeOK, saverVars
<1>2. ASSUME NEW c \in Callers, SyncFail(c) PROVE Verdict'
    <2>1. pc # "returned"
        BY <1>2 DEF SyncFail, Idle, Callers, Control, RunIdle, TasksIdle
    <2>2. QED
        BY <1>2, <2>1 DEF SyncFail, Verdict, Control, ResultOK
<1>3. CASE WorkerFail
    BY <1>3 DEF WorkerFail, Verdict, Control, ResultOK, runVars
<1>4. ASSUME UNCHANGED <<result, failed>> PROVE Verdict'
    BY <1>4 DEF Verdict
<1>5. QED
    BY <1>1, <1>2, <1>3, <1>4
       DEF Next, RunStep, CallStep, WorkerStep, RepairStep, PutCheckpoint, PutWrites, RunRefused,
           Dispatch, Collect, Abort, Finish, FlushClose, PutErrorWrite, SyncStore, Enqueue,
           EnqueueRefused, WorkerReceive, WorkerStore, WorkerClosed, RepairPut, Returned,
           Stored, runVars, saverVars, vars

\* Verdict holds throughout a run.
LEMMA VerdictInv == Spec => [](TypeInv /\ Control /\ Queue /\ Verdict)
<1>1. Init => Verdict
    BY DEF Init, Verdict
<1>2. TypeInv /\ Control /\ Verdict /\ [Next]_vars => Verdict'
    BY StepVerdict
<1>3. QED
    BY <1>1, <1>2, QueueInv, PTL DEF Spec

\* When the run returns "ok" the worker is gone and the channel is empty, so that
\* the stored prefix is all that was accepted.
LEMMA OkMeansStored == TypeInv /\ Control /\ Queue /\ Verdict /\ result = "ok" => landed = accepted
<1> SUFFICES ASSUME TypeInv, Control, Queue, Verdict, result = "ok" PROVE landed = accepted
    OBVIOUS
<1>1. landed \in Seq(Requests) /\ accepted \in Seq(Requests)
    BY DEF TypeInv, TypeOK
<1>2. Len(landed) = Len(accepted)
    <2>1. ~failed /\ worker = "exited"
        BY DEF Verdict, Control, ResultOK
    <2>2. CASE Mode = "async"
        <3>1. Len(writeCh) = 0 /\ Held = 0
            BY <2>1, <2>2 DEF Control, AsyncOK, Held
        <3>2. QED
            BY <1>1, <2>1, <2>2, <3>1 DEF Queue, InFlight
    <2>3. QED
        BY <2>2, ModeAssumption DEF Queue, SyncLanded
<1>3. QED
    BY <1>1, <1>2, SeqEqual DEF Queue, Prefix

\* A run that returns without an error has stored everything it handed over,
\* in order, whatever the channel held when the worker or the flush stopped.
THEOREM NothingLostSilently == Spec => []NoSilentLoss
<1>1. TypeInv /\ Control /\ Queue /\ Verdict => NoSilentLoss
    BY OkMeansStored DEF NoSilentLoss
<1>2. QED
    BY <1>1, VerdictInv, PTL
-----------------------------------------------------------------------------
(* The contract.                                                            *)

\* Every step of the sink is a step of the contract or changes nothing it sees.
LEMMA ContractStep ==
    TypeInv /\ Control /\ Queue /\ Verdict /\ Verdict' /\ TypeInv' /\ Control' /\ Queue' /\ [Next]_vars
        => [Contract!ContractNext]_(Contract!contractVars)
<1> SUFFICES ASSUME TypeInv, Control, Queue, Verdict, TypeInv', Control', Queue', Verdict', [Next]_vars
             PROVE [Contract!ContractNext]_(Contract!contractVars)
    OBVIOUS
<1>0. landed \in Seq(Requests) /\ accepted \in Seq(Requests) /\ failed \in BOOLEAN
    BY DEF TypeInv, TypeOK
<1>1. ASSUME NEW c \in Callers, SyncStore(c) PROVE Contract!Accept(call[c]) /\ call[c] \in Requests
    <2>1. call[c] \in Requests /\ result = "none"
        BY <1>1 DEF SyncStore, Idle, Callers, Control, RunIdle, TasksIdle, ResultOK, TypeInv, TypeOK
    <2>2. failed => ~IsPutRequest(call[c])
        BY <1>1 DEF SyncStore, Idle, Callers, Control, TaskCalls, SyncOK, IsPutRequest
    <2>3. /\ Len(landed) = Len(accepted)
          /\ landed' = Append(landed, call[c]) /\ accepted' = Append(accepted, call[c])
          /\ UNCHANGED <<failed, result>>
        BY <1>1 DEF SyncStore, Stored, Queue, SyncLanded, runVars
    <2>4. Len(landed') = Len(landed) + 1
        BY <1>0, <2>1, <2>3
    <2>5. QED
        BY <2>1, <2>2, <2>3, <2>4 DEF Contract!Accept
<1>2. ASSUME NEW c \in Callers, Enqueue(c) PROVE Contract!Accept(call[c]) /\ call[c] \in Requests
    <2>1. call[c] \in Requests /\ result = "none"
        BY <1>2 DEF Enqueue, Idle, Callers, Control, RunIdle, TasksIdle, ResultOK, TypeInv, TypeOK
    <2>2. QED
        BY <1>2, <2>1 DEF Enqueue, Contract!Accept, runVars, saverVars
<1>3. ASSUME WorkerStore PROVE Contract!Persist
    <2>1. Mode = "async" /\ ~failed /\ cur \in Requests /\ result = "none" /\ worker = "exec"
        BY <1>3, ModeAssumption
           DEF WorkerStore, Control, SyncOK, AsyncOK, ResultOK, TypeInv, WorkerHolds
    <2>2. /\ landed' = Append(landed, cur) /\ UNCHANGED <<accepted, failed, result>>
        BY <1>3 DEF WorkerStore, Stored, runVars
    <2>3. Len(landed') = Len(landed) + 1
        BY <1>0, <2>1, <2>2
    <2>4. Len(landed) < Len(accepted)
        BY <1>0, <2>2, <2>3 DEF Queue, Prefix
    <2>5. QED
        BY <2>1, <2>2, <2>3, <2>4 DEF Contract!Persist
<1>4. ASSUME WorkerFail PROVE Contract!Fail
    BY <1>4 DEF WorkerFail, NotStored, Control, ResultOK, Contract!Fail, runVars
<1>5. ASSUME NEW c \in Callers, SyncFail(c) PROVE Contract!Fail
    <2>1. result = "none"
        BY <1>5 DEF SyncFail, Idle, Callers, Control, RunIdle, TasksIdle, ResultOK
    <2>2. QED
        BY <1>5, <2>1 DEF SyncFail, NotStored, Contract!Fail
<1>6. ASSUME FlushReturn PROVE Contract!Return
    <2>1. result = "none" /\ result' \in {"ok", "error"} /\ UNCHANGED <<accepted, landed, failed>>
        BY <1>6 DEF FlushReturn, Control, ResultOK, saverVars
    <2>2. ASSUME result' = "ok" PROVE ~failed /\ Len(landed) = Len(accepted)
        <3>1. (TypeInv /\ Control /\ Queue /\ Verdict /\ result = "ok" => landed = accepted)'
            BY OkMeansStored, PTL
        <3>2. QED
            BY <2>1, <2>2, <3>1 DEF Verdict
    <2>3. QED
        BY <2>1, <2>2 DEF Contract!Return
<1>7. ASSUME UNCHANGED <<accepted, landed, failed, result>>
      PROVE UNCHANGED Contract!contractVars
    BY <1>7 DEF Contract!contractVars
<1>8. QED
    BY <1>1, <1>2, <1>3, <1>4, <1>5, <1>6, <1>7
       DEF Next, RunStep, CallStep, WorkerStep, RepairStep, PutCheckpoint, PutWrites, RunRefused,
           Dispatch, Collect, Abort, Finish, FlushClose, PutErrorWrite, EnqueueRefused,
           WorkerReceive, WorkerClosed, RepairPut, Returned, runVars, saverVars, vars,
           Contract!ContractNext

\* In both modes the sink implements the contract of SinkContract.
THEOREM SinkImplementsContract == Spec => ImplementsContract
<1>1. Init => Contract!ContractInit
    BY DEF Init, Contract!ContractInit
<1>2. QED
    BY <1>1, ContractStep, VerdictInv, PTL DEF Spec, ImplementsContract, Contract!ContractSpec
-----------------------------------------------------------------------------
(* Writes and the checkpoints they anchor on.                               *)

\* Puts that reached the saver are saved; a write is accepted behind its put.
PutsSaved == \A i \in 1 .. Len(landed) : landed[i].kind = "put" => landed[i].cp \in saved

\* The put of checkpoint n has been accepted.
Accepted(n) == \E i \in 1 .. Len(accepted) : accepted[i] = PutReq(n)
WritesBehindPuts == \A j \in 1 .. Len(accepted) : accepted[j].kind = "writes" =>
                        \E i \in 1 .. j : accepted[i] = PutReq(accepted[j].cp)
CallsBehindPuts == \A c \in Callers : call[c].kind = "writes" => Accepted(call[c].cp)
Position == /\ pc \in {"fanout", "commit"} => Accepted(ncp)
            /\ pc = "run" /\ ncp > 0 => call[Run] = PutReq(ncp) \/ Accepted(ncp)

Anchor == PutsSaved /\ WritesBehindPuts /\ CallsBehindPuts /\ Position

\* A new sink satisfies Anchor.
LEMMA InitAnchor == Init => Anchor
BY DEF Init, Anchor, PutsSaved, WritesBehindPuts, CallsBehindPuts, Position, NoReq

\* Accepting a request keeps what was accepted before.
LEMMA AcceptedGrows ==
    ASSUME accepted \in Seq(Requests), NEW r \in Requests, accepted' = Append(accepted, r),
           WritesBehindPuts, r.kind = "writes" => Accepted(r.cp)
    PROVE /\ \A n : Accepted(n) => Accepted(n)'
          /\ \A n : r = PutReq(n) => Accepted(n)'
          /\ WritesBehindPuts'
<1> DEFINE m == Len(accepted)
<1>1. /\ m \in Nat /\ Len(accepted') = m + 1 /\ accepted'[m + 1] = r
      /\ \A i \in 1 .. m : accepted'[i] = accepted[i]
    OBVIOUS
<1>2. \A n : Accepted(n) => Accepted(n)'
    BY <1>1 DEF Accepted
<1>3. \A n : r = PutReq(n) => Accepted(n)'
    BY <1>1 DEF Accepted
<1>4. ASSUME NEW j \in 1 .. m + 1, accepted'[j].kind = "writes"
      PROVE \E i \in 1 .. j : accepted'[i] = PutReq(accepted'[j].cp)
    <2>1. CASE j = m + 1
        BY <1>1, <1>4, <2>1 DEF Accepted
    <2>2. CASE j \in 1 .. m
        <3>1. PICK i \in 1 .. j : accepted[i] = PutReq(accepted[j].cp)
            BY <1>1, <1>4, <2>2 DEF WritesBehindPuts
        <3>2. i \in 1 .. m
            BY <1>1, <2>2
        <3>3. QED
            BY <1>1, <2>2, <3>1, <3>2
    <2>3. QED
        BY <1>1, <1>4, <2>1, <2>2
<1>5. QED
    BY <1>1, <1>2, <1>3, <1>4 DEF WritesBehindPuts

\* Landing the next accepted request saves its checkpoint if it is a put.
LEMMA PutsSavedGrows ==
    ASSUME landed \in Seq(Requests), NEW r \in Requests, Stored(r), PutsSaved
    PROVE PutsSaved'
<1> DEFINE n == Len(landed)
<1>1. /\ n \in Nat /\ Len(landed') = n + 1 /\ landed'[n + 1] = r
      /\ \A i \in 1 .. n : landed'[i] = landed[i]
    BY DEF Stored
<1>2. saved \subseteq saved' /\ (r.kind = "put" => r.cp \in saved')
    BY DEF Stored
<1>3. ASSUME NEW i \in 1 .. n + 1, landed'[i].kind = "put" PROVE landed'[i].cp \in saved'
    <2>1. i = n + 1 \/ i \in 1 .. n
        BY <1>1
    <2>2. QED
        BY <1>1, <1>2, <1>3, <2>1 DEF PutsSaved
<1>4. QED
    BY <1>1, <1>3 DEF PutsSaved

\* Every step keeps Anchor: a write is called, accepted and stored behind its put.
LEMMA StepAnchor == TypeInv /\ Control /\ Anchor /\ [Next]_vars => Anchor'
<1> SUFFICES ASSUME TypeInv, Control, Anchor, [Next]_vars PROVE Anchor'
    OBVIOUS
<1>0. /\ accepted \in Seq(Requests) /\ landed \in Seq(Requests)
      /\ call \in [Callers -> Requests \cup {NoReq}] /\ Run \in Callers /\ Tasks \subseteq Callers
      /\ ncp \in Nat
    BY DEF TypeInv, TypeOK, Callers
<1> USE RunAssumption
<1>1. ASSUME NEW b \in Batches, PutCheckpoint(b) PROVE Anchor'
    <2>1. UNCHANGED <<accepted, landed, saved>> /\ pc' = "run"
          /\ call' = [call EXCEPT ![Run] = PutReq(ncp + 1)] /\ ncp' = ncp + 1
        BY <1>1 DEF PutCheckpoint, saverVars
    <2>2. PutsSaved' /\ WritesBehindPuts' /\ \A n : Accepted(n) => Accepted(n)'
        BY <2>1 DEF Anchor, PutsSaved, WritesBehindPuts, Accepted
    <2>3. CallsBehindPuts'
        BY <1>0, <2>1, <2>2 DEF Anchor, CallsBehindPuts, PutReq
    <2>4. Position'
        BY <1>0, <2>1 DEF Position
    <2>5. QED
        BY <2>2, <2>3, <2>4 DEF Anchor
<1>2. ASSUME PutWrites PROVE Anchor'
    <2>1. /\ UNCHANGED <<accepted, landed, saved, ncp, pc>> /\ pc = "run" /\ ncp > 0
          /\ call' = [call EXCEPT ![Run] = WriteReq(ncp, sent + 1, batch[ncp][sent + 1])]
        BY <1>0, <1>2 DEF PutWrites, AllSent, saverVars
    <2>2. PutsSaved' /\ WritesBehindPuts' /\ \A n : Accepted(n) => Accepted(n)'
        BY <2>1 DEF Anchor, PutsSaved, WritesBehindPuts, Accepted
    <2>3. Accepted(ncp)
        BY <1>2, <2>1 DEF PutWrites, Idle, Anchor, Position, NoReq, PutReq
    <2>4. CallsBehindPuts'
        BY <1>0, <2>1, <2>2, <2>3 DEF Anchor, CallsBehindPuts, WriteReq
    <2>5. Position'
        BY <2>1, <2>2, <2>3 DEF Position
    <2>6. QED
        BY <2>2, <2>4, <2>5 DEF Anchor
<1>3. ASSUME NEW t \in Tasks, PutErrorWrite(t) PROVE Anchor'
    <2>1. /\ UNCHANGED <<accepted, landed, saved, ncp, pc>> /\ pc = "fanout" /\ Accepted(ncp)
          /\ \/ UNCHANGED call
             \/ call' = [call EXCEPT ![t] = WriteReq(ncp, 0, FALSE)]
        BY <1>3 DEF PutErrorWrite, saverVars, Anchor, Position
    <2>2. PutsSaved' /\ WritesBehindPuts' /\ \A n : Accepted(n) => Accepted(n)'
        BY <2>1 DEF Anchor, PutsSaved, WritesBehindPuts, Accepted
    <2>3. CallsBehindPuts'
        BY <1>0, <2>1, <2>2 DEF Anchor, CallsBehindPuts, WriteReq
    <2>4. QED
        BY <2>1, <2>2, <2>3 DEF Anchor, Position
<1>4. ASSUME NEW c \in Callers, CallStep(c) PROVE Anchor'
    <2>1. /\ call[c] \in Requests /\ call' = [call EXCEPT ![c] = NoReq] /\ ncp' = ncp
          /\ pc' = pc \/ pc' = "flush"
        BY <1>0, <1>4 DEF CallStep, SyncStore, SyncFail, Enqueue, EnqueueRefused, Idle, runVars
    <2>2. call[c].kind = "writes" => Accepted(call[c].cp)
        BY DEF Anchor, CallsBehindPuts
    <2>3. ASSUME accepted' = Append(accepted, call[c]), pc' = pc, PutsSaved' PROVE Anchor'
        <3>1. /\ \A n : Accepted(n) => Accepted(n)'
              /\ \A n : call[c] = PutReq(n) => Accepted(n)'
              /\ WritesBehindPuts'
            BY <1>0, <2>1, <2>2, <2>3, AcceptedGrows DEF Anchor
        <3>2. CallsBehindPuts'
            BY <1>0, <2>1, <3>1 DEF Anchor, CallsBehindPuts, NoReq
        <3>3. Position'
            BY <1>0, <2>1, <2>3, <3>1 DEF Anchor, Position
        <3>4. QED
            BY <2>3, <3>1, <3>2, <3>3 DEF Anchor
    <2>4. ASSUME UNCHANGED <<accepted, landed, saved>>, c = Run => pc' = "flush", c # Run => pc' = pc
          PROVE Anchor'
        <3>1. PutsSaved' /\ WritesBehindPuts' /\ \A n : Accepted(n) => Accepted(n)'
            BY <2>4 DEF Anchor, PutsSaved, WritesBehindPuts, Accepted
        <3>2. CallsBehindPuts'
            BY <1>0, <2>1, <3>1 DEF Anchor, CallsBehindPuts, NoReq
        <3>3. Position'
            BY <1>0, <2>1, <2>4, <3>1 DEF Anchor, Position
        <3>4. QED
            BY <3>1, <3>2, <3>3 DEF Anchor
    <2>5. CASE SyncStore(c)
        <3>1. PutsSaved'
            BY <1>0, <2>1, <2>5, PutsSavedGrows DEF SyncStore, Anchor
        <3>2. QED
            BY <2>3, <2>5, <3>1 DEF SyncStore, runVars
    <2>6. CASE Enqueue(c)
        BY <2>3, <2>6 DEF Enqueue, runVars, saverVars, Anchor, PutsSaved
    <2>7. CASE SyncFail(c) \/ EnqueueRefused(c)
        BY <2>4, <2>7 DEF SyncFail, EnqueueRefused, NotStored, saverVars
    <2>8. QED
        BY <1>4, <2>5, <2>6, <2>7 DEF CallStep
<1>5. ASSUME WorkerStore PROVE Anchor'
    <2>1. PutsSaved'
        BY <1>0, <1>5, PutsSavedGrows DEF WorkerStore, WorkerHolds, TypeInv, Anchor
    <2>2. UNCHANGED <<accepted, call, ncp, pc>>
        BY <1>5 DEF WorkerStore, runVars
    <2>3. QED
        BY <2>1, <2>2
           DEF Anchor, WritesBehindPuts, CallsBehindPuts, Position, Accepted
<1>6. ASSUME UNCHANGED <<accepted, landed, saved, call, ncp>>,
             \/ pc' = pc \/ pc' \in {"flush", "wait", "returned"}
             \/ pc' = "fanout" /\ pc = "run" /\ Idle(Run) /\ ncp > 0
             \/ pc' = "commit" /\ pc = "fanout"
      PROVE Anchor'
    <2>1. /\ PutsSaved' /\ WritesBehindPuts' /\ CallsBehindPuts'
          /\ \A n : Accepted(n) => Accepted(n)'
        BY <1>6 DEF Anchor, PutsSaved, WritesBehindPuts, CallsBehindPuts, Accepted
    <2>2. Position'
        BY <1>6, <2>1 DEF Anchor, Position, Idle, NoReq, PutReq
    <2>3. QED
        BY <2>1, <2>2 DEF Anchor
<1>7. QED
    BY <1>1, <1>2, <1>3, <1>4, <1>5, <1>6
       DEF Next, RunStep, WorkerStep, RepairStep, RunRefused, Dispatch, Collect, Abort, Finish,
           FlushClose, FlushReturn, WorkerReceive, WorkerFail, WorkerClosed, RepairPut, NotStored,
           Returned, runVars, saverVars, vars

\* A stored write never lacks its checkpoint: puts and writes go through the
\* saver in the order the run issued them, and a failed put stops the rest.
THEOREM StoredWritesAreAnchored == Spec => []WritesAreAnchored
<1>1. TypeInv /\ Queue /\ Anchor => WritesAreAnchored
    <2> SUFFICES ASSUME TypeInv, Queue, Anchor,
                        NEW j \in DOMAIN landed, landed[j].kind = "writes"
                 PROVE landed[j].cp \in saved
        BY DEF WritesAreAnchored, LandedSet
    <2>1. /\ landed \in Seq(Requests) /\ accepted \in Seq(Requests)
          /\ j \in 1 .. Len(landed)
        BY DEF TypeInv, TypeOK
    <2>2. /\ j \in 1 .. Len(accepted) /\ landed[j] = accepted[j]
        BY <2>1 DEF Queue, Prefix
    <2>3. PICK i \in 1 .. j : accepted[i] = PutReq(landed[j].cp)
        BY <2>2 DEF Anchor, WritesBehindPuts
    <2>4. i \in 1 .. Len(landed) /\ landed[i] = PutReq(landed[j].cp)
        BY <2>1, <2>3 DEF Queue, Prefix
    <2>5. QED
        BY <2>4 DEF Anchor, PutsSaved, PutReq
<1>2. TypeInv /\ Control /\ Anchor /\ [Next]_vars => Anchor'
    BY StepAnchor
<1>3. QED
    BY <1>1, <1>2, InitAnchor, QueueInv, PTL DEF Spec
=============================================================================
