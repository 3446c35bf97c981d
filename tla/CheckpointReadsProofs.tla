----------------------- MODULE CheckpointReadsProofs -----------------------
(* ReadsComplete of CheckpointSink: a saved checkpoint never reads short,   *)
(* for every queue capacity, set of tasks, number of checkpoints and, in    *)
(* both modes, every set of batch sequences that hand the delta batches     *)
(* over first.  The argument: requests are accepted in the order of the     *)
(* run (Order), so that what the first failing request leaves out is at     *)
(* most a part of the checkpoint it belongs to, which is the last one put   *)
(* (Puts), and that one is put again (Failure).                             *)
EXTENDS CheckpointSinkProofs

\* Every superstep hands its delta batches over before its plain ones: the first
\* plain batch that fails then leaves no delta batch out.
DeltaBatchesFirst ==
    \A b \in Batches : \A i, j \in DOMAIN b : i < j /\ b[j] => b[i]
-----------------------------------------------------------------------------
(* The order of the requests.                                               *)

\* The first m requests of a log.
Seen(s, m) == {s[i] : i \in 1 .. m}

\* Batch k of checkpoint n is handed over before request q.
Earlier(q, n, k) ==
    \/ n < q.cp
    \/ n = q.cp /\ q.kind = "writes" /\ (q.i = 0 \/ k < q.i)
\* S holds every batch of B that is handed over before q.
Behind(B, q, S) ==
    \A n \in Checkpoints : \A k \in DOMAIN B[n] :
        Earlier(q, n, k) => WriteReq(n, k, B[n][k]) \in S
\* A write request carries a batch of its checkpoint, or an ERROR write.
Built(B, m, q) ==
    /\ q.cp <= m
    /\ q.kind = "put" => q = PutReq(q.cp)
    /\ q.kind = "writes" =>
           \/ q.i = 0 /\ ~q.delta
           \/ q.i \in DOMAIN B[q.cp] /\ q.delta = B[q.cp][q.i]
\* The requests of S belong to q's checkpoint or to earlier ones, and a put is
\* the first request of its checkpoint.
CpOrder(q, S) == \A r \in S : r.cp <= q.cp /\ (q.kind = "put" => r.cp < q.cp)

\* q may follow the requests S.
Follows(B, m, q, S) == Built(B, m, q) /\ Behind(B, q, S) /\ CpOrder(q, S)

BatchShape == \A n \in Checkpoints : batch[n] = <<>> \/ batch[n] \in Batches
\* Every request of s may follow the ones before it.
Ordered(B, m, s) == \A j \in 1 .. Len(s) : Follows(B, m, s[j], Seen(s, j - 1))
LogOrder == Ordered(batch, ncp, accepted)
Log == Seen(accepted, Len(accepted))
CallOrder == \A c \in Callers : ~Idle(c) =>
                 call[c].cp = ncp /\ Follows(batch, ncp, call[c], Log)
\* Batch k of checkpoint n has been handed over.
Has(n, k) == WriteReq(n, k, batch[n][k]) \in Log
Handed ==
    /\ pc \in {"run", "fanout", "commit"} =>
           \A n \in Checkpoints : \A k \in DOMAIN batch[n] :
               (n < ncp \/ (n = ncp /\ k <= sent)) =>
                   Has(n, k) \/ call[Run] = WriteReq(n, k, batch[n][k])
    /\ pc \in {"fanout", "commit"} => AllSent
    /\ pc \in {"flush", "wait", "returned"} /\ ~failed =>
           \A n \in 1 .. ncp : \A k \in DOMAIN batch[n] : Has(n, k)

Order == BatchShape /\ LogOrder /\ CallOrder /\ Handed

\* A new sink satisfies Order.
LEMMA InitOrder == Init => Order
<1> SUFFICES ASSUME Init PROVE Order
    OBVIOUS
<1>1. BatchShape /\ LogOrder /\ CallOrder
    BY DEF Init, BatchShape, LogOrder, Ordered, CallOrder, Idle
<1>2. Handed
    BY DEF Init, Handed
<1>3. QED
    BY <1>1, <1>2 DEF Order

\* The log t is s with the request r behind it.
Extends(s, r, t) ==
    /\ Len(t) = Len(s) + 1 /\ t[Len(s) + 1] = r
    /\ \A i \in 1 .. Len(s) : t[i] = s[i]

\* Appending a request that may follow the log keeps the log in order.
LEMMA LogGrows ==
    ASSUME NEW B, NEW m, NEW s \in Seq(Requests), NEW r, NEW t,
           Extends(s, r, t), Ordered(B, m, s), Follows(B, m, r, Seen(s, Len(s)))
    PROVE Ordered(B, m, t) /\ Seen(t, Len(t)) = Seen(s, Len(s)) \cup {r}
<1> USE DEF Extends, Ordered
<1>1. Len(s) \in Nat
    OBVIOUS
<1>2. ASSUME NEW j \in 1 .. Len(s) + 1 PROVE Seen(t, j - 1) = Seen(s, j - 1)
    BY <1>1 DEF Seen
<1>3. ASSUME NEW j \in 1 .. Len(t) PROVE Follows(B, m, t[j], Seen(t, j - 1))
    <2>1. CASE j = Len(s) + 1
        BY <1>1, <1>2, <2>1
    <2>2. CASE j \in 1 .. Len(s)
        BY <1>1, <1>2, <2>2
    <2>3. QED
        BY <1>1, <2>1, <2>2
<1>4. Seen(t, Len(t)) = Seen(s, Len(s)) \cup {r}
    BY <1>1 DEF Seen
<1>5. QED
    BY <1>3, <1>4

\* A larger log keeps a request's place; the batches of a later checkpoint too.
LEMMA FollowsStable ==
    ASSUME NEW B, NEW C, NEW m \in Nat, NEW q, q.cp \in Checkpoints, NEW S,
           \A n \in Checkpoints : n <= m => C[n] = B[n], Follows(B, m, q, S)
    PROVE Follows(C, m + 1, q, S)
<1>1. q.cp \in Nat /\ q.cp <= m
    BY MaxCpAssumption DEF Checkpoints, Follows, Built
<1>2. Built(C, m + 1, q)
    BY <1>1 DEF Follows, Built
<1>3. ASSUME NEW n \in Checkpoints, NEW k \in DOMAIN C[n], Earlier(q, n, k)
      PROVE WriteReq(n, k, C[n][k]) \in S
    <2>1. n \in Nat /\ n <= m
        BY <1>1, <1>3, MaxCpAssumption DEF Checkpoints, Earlier
    <2>2. QED
        BY <1>3, <2>1 DEF Follows, Behind
<1>4. QED
    BY <1>2, <1>3 DEF Follows, Behind

\* When the run goroutine is outside a call and every batch is sent, the sink has
\* accepted every batch of every checkpoint.
LEMMA AllHanded ==
    ASSUME TypeInv, Handed, pc \in {"run", "fanout", "commit"}, Idle(Run), AllSent
    PROVE \A n \in 1 .. ncp : n \in Checkpoints /\ \A k \in DOMAIN batch[n] : Has(n, k)
<1> SUFFICES ASSUME NEW n \in 1 .. ncp
             PROVE n \in Checkpoints /\ \A k \in DOMAIN batch[n] : Has(n, k)
    OBVIOUS
<1>1. n \in Checkpoints /\ ncp \in Nat /\ batch[n] \in Seq(BOOLEAN)
    BY MaxCpAssumption DEF TypeInv, TypeOK, Checkpoints
<1>2. ASSUME NEW k \in DOMAIN batch[n] PROVE Has(n, k)
    <2>1. n < ncp \/ (n = ncp /\ k <= sent)
        BY <1>1, <1>2 DEF AllSent
    <2>2. Has(n, k) \/ call[Run] = WriteReq(n, k, batch[n][k])
        BY <1>1, <1>2, <2>1 DEF Handed
    <2>3. QED
        BY <2>2 DEF Idle, NoReq, WriteReq
<1>3. QED
    BY <1>1, <1>2

\* Every request of the log belongs to a checkpoint the run has tried to save.
LEMMA LogCps == ASSUME TypeInv, LogOrder PROVE \A r \in Log : r \in Requests /\ r.cp <= ncp
<1> SUFFICES ASSUME NEW r \in Log PROVE r \in Requests /\ r.cp <= ncp
    OBVIOUS
<1>1. PICK i \in 1 .. Len(accepted) : r = accepted[i]
    BY DEF Log, Seen
<1>2. r \in Requests
    BY <1>1 DEF TypeInv, TypeOK
<1>3. Built(batch, ncp, r)
    BY <1>1 DEF LogOrder, Ordered, Follows
<1>4. QED
    BY <1>2, <1>3 DEF Built

\* Every step keeps Order.
LEMMA StepOrder == TypeInv /\ Control /\ Order /\ [Next]_vars => Order'
<1> SUFFICES ASSUME TypeInv, Control, Order, [Next]_vars PROVE Order'
    OBVIOUS
<1>0. /\ accepted \in Seq(Requests) /\ batch \in [Checkpoints -> Seq(BOOLEAN)]
      /\ call \in [Callers -> Requests \cup {NoReq}] /\ Run \in Callers /\ Tasks \subseteq Callers
      /\ Callers = Tasks \cup {Run} /\ ncp \in Nat /\ sent \in Nat /\ MaxCp \in Nat
      /\ ncp <= MaxCp /\ failed \in BOOLEAN
    BY MaxCpAssumption DEF TypeInv, TypeOK, Callers
<1>1. ASSUME NEW b \in Batches, PutCheckpoint(b) PROVE Order'
    <2>1. /\ accepted' = accepted /\ pc' = "run" /\ ncp' = ncp + 1 /\ ncp < MaxCp /\ sent' = 0
          /\ call' = [call EXCEPT ![Run] = PutReq(ncp + 1)]
          /\ batch' = [batch EXCEPT ![ncp + 1] = b]
          /\ pc \in {"run", "commit"} /\ Idle(Run) /\ AllSent
        BY <1>1 DEF PutCheckpoint
    <2>2. /\ ncp + 1 \in Checkpoints /\ batch'[ncp + 1] = b
          /\ \A n \in Checkpoints : n <= ncp => batch'[n] = batch[n]
          /\ \A n \in Checkpoints : n # ncp + 1 => batch'[n] = batch[n]
        BY <1>0, <2>1 DEF Checkpoints
    <2>3. \A t \in Tasks : call'[t] = NoReq
        BY <1>0, <2>1, RunAssumption DEF Control, TasksIdle, Idle
    <2>4. BatchShape'
        BY <2>2 DEF Order, BatchShape
    <2>5. LogOrder'
        <3>1. ASSUME NEW j \in 1 .. Len(accepted)
              PROVE Follows(batch', ncp + 1, accepted[j], Seen(accepted, j - 1))
            <4>1. accepted[j].cp \in Checkpoints
                BY <1>0, <3>1, RequestFacts
            <4>2. Follows(batch, ncp, accepted[j], Seen(accepted, j - 1))
                BY DEF Order, LogOrder, Ordered
            <4>3. QED
                BY <1>0, <2>2, <4>1, <4>2, FollowsStable
        <3>2. QED
            BY <2>1, <3>1 DEF LogOrder, Ordered
    <2>6. \A n \in 1 .. ncp : n \in Checkpoints /\ \A k \in DOMAIN batch[n] : Has(n, k)
        BY <2>1, AllHanded DEF Order
    <2>7. ASSUME NEW n \in Checkpoints, NEW k \in DOMAIN batch'[n], n < ncp + 1
          PROVE WriteReq(n, k, batch'[n][k]) \in Log
        <3>1. n \in 1 .. ncp /\ batch'[n] = batch[n]
            BY <1>0, <2>2, <2>7 DEF Checkpoints
        <3>2. QED
            BY <2>6, <2>7, <3>1 DEF Has
    <2>8. Log' = Log
        BY <2>1 DEF Log
    <2>9. CallOrder'
        <3>1. call'[Run] = PutReq(ncp + 1)
            BY <1>0, <2>1
        <3>2. Built(batch', ncp + 1, PutReq(ncp + 1))
            BY <1>0 DEF Built, PutReq
        <3>3. Behind(batch', PutReq(ncp + 1), Log)
            BY <2>7 DEF Behind, PutReq, Earlier
        <3>4. CpOrder(PutReq(ncp + 1), Log)
            <4>1. \A r \in Log : r.cp \in Nat /\ r.cp <= ncp
                BY LogCps, RequestFacts, <1>0 DEF Order, Checkpoints
            <4>2. QED
                BY <1>0, <4>1 DEF CpOrder, PutReq
        <3>5. PutReq(ncp + 1).cp = ncp + 1
            BY DEF PutReq
        <3>6. QED
            BY <1>0, <2>1, <2>3, <2>8, <3>1, <3>2, <3>3, <3>4, <3>5 DEF CallOrder, Follows, Idle
    <2>10. Handed'
        <3>1. ASSUME NEW n \in Checkpoints, NEW k \in DOMAIN batch'[n],
                     n < ncp + 1 \/ (n = ncp + 1 /\ k <= 0)
              PROVE WriteReq(n, k, batch'[n][k]) \in Log
            <4>1. n < ncp + 1
                <5>1. b \in Seq(BOOLEAN)
                    BY BatchesAssumption
                <5>2. ~(n = ncp + 1 /\ k <= 0)
                    BY <2>2, <3>1, <5>1
                <5>3. QED
                    BY <3>1, <5>2
            <4>2. QED
                BY <2>7, <3>1, <4>1
        <3>2. QED
            BY <2>1, <2>8, <3>1 DEF Handed, Has
    <2>11. QED
        BY <2>4, <2>5, <2>9, <2>10 DEF Order
<1>2. ASSUME UNCHANGED <<accepted, batch, ncp>>, CallOrder', Handed' PROVE Order'
    <2>1. BatchShape' /\ LogOrder'
        BY <1>2 DEF Order, BatchShape, LogOrder
    <2>2. QED
        BY <1>2, <2>1 DEF Order
<1>3. ASSUME PutWrites PROVE Order'
    <2> DEFINE q == WriteReq(ncp, sent + 1, batch[ncp][sent + 1])
    <2>1. /\ UNCHANGED <<accepted, batch, ncp, pc, failed>> /\ pc = "run" /\ Idle(Run) /\ ncp > 0
          /\ call' = [call EXCEPT ![Run] = q] /\ sent' = sent + 1
          /\ sent # Len(batch[ncp])
        BY <1>0, <1>3 DEF PutWrites, AllSent, saverVars
    <2>2. ncp \in Checkpoints /\ sent + 1 \in DOMAIN batch[ncp] /\ batch[ncp] \in Seq(BOOLEAN)
        BY <1>0, <2>1 DEF TypeInv, SentOK, Checkpoints
    <2>3. Log' = Log
        BY <2>1 DEF Log
    <2>4. ASSUME NEW n \in Checkpoints, NEW k \in DOMAIN batch[n], n < ncp \/ (n = ncp /\ k <= sent)
          PROVE WriteReq(n, k, batch[n][k]) \in Log
        <3>1. Has(n, k) \/ call[Run] = WriteReq(n, k, batch[n][k])
            BY <2>1, <2>4 DEF Order, Handed
        <3>2. QED
            BY <2>1, <3>1 DEF Has, Idle, NoReq, WriteReq
    <2>5. Follows(batch, ncp, q, Log) /\ q.cp = ncp
        <3>1. q.cp = ncp /\ q.kind = "writes" /\ q.i = sent + 1 /\ q.delta = batch[ncp][sent + 1]
            BY DEF WriteReq
        <3> HIDE DEF q
        <3>2. Built(batch, ncp, q)
            BY <1>0, <2>2, <3>1 DEF Built
        <3>3. Behind(batch, q, Log)
            <4>1. ASSUME NEW n \in Checkpoints, NEW k \in DOMAIN batch[n], Earlier(q, n, k)
                  PROVE n < ncp \/ (n = ncp /\ k <= sent)
                BY <1>0, <2>2, <3>1, <4>1 DEF Earlier
            <4>2. QED
                BY <2>4, <4>1 DEF Behind
        <3>4. CpOrder(q, Log)
            BY <3>1, LogCps DEF Order, CpOrder
        <3>5. QED
            BY <3>1, <3>2, <3>3, <3>4 DEF Follows
    <2> HIDE DEF q
    <2>6. CallOrder'
        <3>1. \A c \in Callers : c # Run => call'[c] = call[c]
            BY <1>0, <2>1
        <3>2. call'[Run] = q
            BY <1>0, <2>1
        <3>3. QED
            BY <2>1, <2>3, <2>5, <3>1, <3>2 DEF Order, CallOrder, Idle
    <2>7. Handed'
        <3>1. call'[Run] = q
            BY <1>0, <2>1
        <3>2. ASSUME NEW n \in Checkpoints, NEW k \in DOMAIN batch[n],
                     n < ncp \/ (n = ncp /\ k <= sent + 1)
              PROVE WriteReq(n, k, batch[n][k]) \in Log \/ q = WriteReq(n, k, batch[n][k])
            <4>1. CASE n = ncp /\ k = sent + 1
                BY <4>1 DEF q
            <4>2. CASE ~(n = ncp /\ k = sent + 1)
                <5>1. n < ncp \/ (n = ncp /\ k <= sent)
                    BY <1>0, <2>2, <3>2, <4>2 DEF Checkpoints
                <5>2. QED
                    BY <2>4, <3>2, <5>1
            <4>3. QED
                BY <4>1, <4>2
        <3>3. QED
            BY <2>1, <2>3, <3>1, <3>2 DEF Handed, Has
    <2>8. QED
        BY <1>2, <2>1, <2>6, <2>7
<1>4. ASSUME NEW t \in Tasks, PutErrorWrite(t) PROVE Order'
    <2>1. /\ UNCHANGED <<accepted, batch, ncp, pc, failed, sent>> /\ pc = "fanout"
          /\ \/ UNCHANGED call
             \/ call' = [call EXCEPT ![t] = WriteReq(ncp, 0, FALSE)]
        BY <1>4 DEF PutErrorWrite, saverVars
    <2>2. Log' = Log /\ call'[Run] = call[Run] /\ Idle(Run) /\ AllSent
        BY <1>0, <2>1, RunAssumption DEF Log, Control, RunIdle, Order, Handed
    <2>3. Handed'
        BY <2>1, <2>2 DEF Order, Handed, Has, AllSent
    <2>4. \A n \in 1 .. ncp : n \in Checkpoints /\ \A k \in DOMAIN batch[n] : Has(n, k)
        BY <2>1, <2>2, AllHanded DEF Order
    <2>5. ASSUME NEW q, q = WriteReq(ncp, 0, FALSE) PROVE Follows(batch, ncp, q, Log) /\ q.cp = ncp
        <3>1. q.cp = ncp /\ q.kind = "writes" /\ q.i = 0 /\ q.delta = FALSE
            BY <2>5 DEF WriteReq
        <3>2. Behind(batch, q, Log)
            <4>1. ASSUME NEW n \in Checkpoints, NEW k \in DOMAIN batch[n], Earlier(q, n, k)
                  PROVE n \in 1 .. ncp
                BY <1>0, <3>1, <4>1 DEF Earlier, Checkpoints
            <4>2. QED
                BY <2>4, <4>1 DEF Behind, Has
        <3>3. CpOrder(q, Log)
            BY <3>1, LogCps DEF Order, CpOrder
        <3>4. Built(batch, ncp, q)
            BY <1>0, <3>1 DEF Built
        <3>5. QED
            BY <3>1, <3>2, <3>3, <3>4 DEF Follows
    <2>6. ASSUME NEW c \in Callers, ~Idle(c)' PROVE call'[c].cp = ncp /\ Follows(batch, ncp, call'[c], Log)
        <3>1. call'[c] = call[c] \/ call'[c] = WriteReq(ncp, 0, FALSE)
            BY <1>0, <2>1
        <3>2. CASE call'[c] = call[c]
            BY <2>6, <3>2 DEF Order, CallOrder, Idle
        <3>3. CASE call'[c] = WriteReq(ncp, 0, FALSE)
            BY <2>5, <3>3
        <3>4. QED
            BY <3>1, <3>2, <3>3
    <2>7. CallOrder'
        BY <2>1, <2>2, <2>6 DEF CallOrder
    <2>8. QED
        BY <1>2, <2>1, <2>3, <2>7
<1>5. ASSUME NEW c \in Callers, ~Idle(c), call' = [call EXCEPT ![c] = NoReq],
             UNCHANGED <<batch, ncp, sent>>
      PROVE /\ call[c] \in Requests /\ call[c].cp = ncp /\ Follows(batch, ncp, call[c], Log)
            /\ \A d \in Callers : d # c => call'[d] = call[d]
            /\ \A d \in Callers : d # c /\ ~Idle(d) => call[d].kind = "writes"
            /\ Idle(c)' /\ pc \in {"run", "fanout"} /\ (c = Run => pc = "run")
    <2>1. call[c] \in Requests /\ call'[c] = NoReq /\ \A d \in Callers : d # c => call'[d] = call[d]
        BY <1>0, <1>5 DEF Idle
    <2>2. call[c].cp = ncp /\ Follows(batch, ncp, call[c], Log)
        BY <1>5 DEF Order, CallOrder
    <2>3. pc \in {"run", "fanout"} /\ (c = Run => pc = "run") /\ (c \in Tasks => pc = "fanout")
        BY <1>5 DEF Control, RunIdle, TasksIdle, Callers
    <2>4. ASSUME NEW d \in Callers, d # c, ~Idle(d) PROVE call[d].kind = "writes"
        <3>1. d \in Tasks
            BY <1>0, <1>5, <2>4 DEF Control, RunIdle, TasksIdle
        <3>2. QED
            BY <2>4, <3>1 DEF Control, TaskCalls
    <2>5. QED
        BY <2>1, <2>2, <2>3, <2>4 DEF Idle
<1>6. ASSUME NEW c \in Callers, SyncStore(c) \/ Enqueue(c) PROVE Order'
    <2>1. /\ ~Idle(c) /\ accepted' = Append(accepted, call[c])
          /\ call' = [call EXCEPT ![c] = NoReq]
          /\ UNCHANGED <<batch, ncp, sent, pc, failed>>
        BY <1>6 DEF SyncStore, Stored, Enqueue, runVars, saverVars
    <2>2. /\ call[c] \in Requests /\ call[c].cp = ncp /\ Follows(batch, ncp, call[c], Log)
          /\ \A d \in Callers : d # c => call'[d] = call[d]
          /\ \A d \in Callers : d # c /\ ~Idle(d) => call[d].kind = "writes"
          /\ Idle(c)' /\ pc \in {"run", "fanout"} /\ (c = Run => pc = "run")
        BY <1>5, <2>1
    <2>3. /\ accepted' \in Seq(Requests) /\ Len(accepted') = Len(accepted) + 1
          /\ accepted'[Len(accepted) + 1] = call[c]
          /\ \A i \in 1 .. Len(accepted) : accepted'[i] = accepted[i]
        BY <1>0, <2>1, <2>2
    <2>4. Ordered(batch, ncp, accepted') /\ Log' = Log \cup {call[c]}
        <3>1. Extends(accepted, call[c], accepted')
            BY <2>3 DEF Extends
        <3>2. Ordered(batch, ncp, accepted) /\ Follows(batch, ncp, call[c], Seen(accepted, Len(accepted)))
            BY <2>2 DEF Order, LogOrder, Log
        <3>3. QED
            BY <1>0, <3>1, <3>2, LogGrows DEF Log
    <2>5. LogOrder' /\ BatchShape'
        BY <2>1, <2>4 DEF LogOrder, Order, BatchShape
    <2>6. ASSUME NEW d \in Callers, ~Idle(d)'
          PROVE call'[d].cp = ncp /\ Follows(batch, ncp, call'[d], Log')
        <3>1. d # c /\ call'[d] = call[d] /\ ~Idle(d)
            BY <2>2, <2>6 DEF Idle
        <3>2. call[d].kind = "writes" /\ call[d].cp = ncp /\ Follows(batch, ncp, call[d], Log)
            BY <2>2, <3>1 DEF Order, CallOrder
        <3>3. Built(batch, ncp, call[d]) /\ Behind(batch, call[d], Log')
            BY <2>4, <3>2 DEF Follows, Behind
        <3>4. CpOrder(call[d], Log')
            BY <1>0, <2>2, <2>4, <3>2 DEF Follows, CpOrder
        <3>5. QED
            BY <3>1, <3>2, <3>3, <3>4 DEF Follows
    <2>7. CallOrder'
        BY <2>1, <2>6 DEF CallOrder
    <2>8. Handed'
        <3>1. \A n, k : Has(n, k) => Has(n, k)'
            BY <2>1, <2>4 DEF Has
        <3>2. \A n, k : call[Run] = WriteReq(n, k, batch[n][k]) =>
                  Has(n, k)' \/ call'[Run] = WriteReq(n, k, batch[n][k])
            BY <1>0, <2>1, <2>2, <2>4 DEF Has
        <3>3. QED
            BY <2>1, <2>2, <3>1, <3>2 DEF Order, Handed, AllSent
    <2>9. QED
        BY <2>5, <2>7, <2>8 DEF Order
<1>7. ASSUME UNCHANGED <<accepted, batch, ncp>>,
             \A c \in Callers : call'[c] = call[c] \/ call'[c] = NoReq
      PROVE CallOrder' /\ Log' = Log /\ \A n, k : Has(n, k)' <=> Has(n, k)
    <2>1. Log' = Log
        BY <1>7 DEF Log
    <2>2. QED
        BY <1>7, <2>1 DEF Order, CallOrder, Idle, Has
\* While it runs, a caller finds the worker gone only after a failure.
<1>8. worker = "exited" /\ pc \in {"run", "fanout", "commit"} /\ Mode = "async" => failed
    BY DEF Control, AsyncOK, ClosedOK
<1>9. ASSUME NEW c \in Callers, SyncFail(c) \/ EnqueueRefused(c) PROVE Order'
    <2>1. /\ ~Idle(c) /\ accepted' = accepted
          /\ call' = [call EXCEPT ![c] = NoReq] /\ UNCHANGED <<batch, ncp, sent>>
          /\ pc' = IF c = Run THEN "flush" ELSE pc
          /\ \/ failed'
             \/ worker = "exited" /\ Mode = "async" /\ failed' = failed
        BY <1>9 DEF SyncFail, NotStored, EnqueueRefused, saverVars
    <2>2. /\ \A d \in Callers : d # c => call'[d] = call[d]
          /\ Idle(c)' /\ pc \in {"run", "fanout"} /\ (c = Run => pc = "run")
        BY <1>5, <2>1
    <2>3. failed'
        BY <1>8, <2>1, <2>2
    <2>4. CallOrder' /\ Log' = Log /\ \A n, k : Has(n, k)' <=> Has(n, k)
        BY <1>7, <2>1, <2>2 DEF Idle
    <2>5. Handed'
        <3>1. CASE c = Run
            BY <2>1, <2>3, <3>1 DEF Handed
        <3>2. CASE c # Run
            <4>1. pc' = pc /\ call'[Run] = call[Run] /\ pc \notin {"flush", "wait", "returned"}
                BY <1>0, <2>1, <2>2, <3>2
            <4>2. QED
                BY <2>1, <2>4, <4>1 DEF Order, Handed, AllSent
        <3>3. QED
            BY <3>1, <3>2
    <2>6. QED
        BY <1>2, <2>1, <2>4, <2>5
<1>10. ASSUME UNCHANGED <<accepted, batch, ncp, sent, call>>, Handed' PROVE Order'
    BY <1>2, <1>7, <1>10
<1>11. ASSUME UNCHANGED <<accepted, batch, ncp, sent, call>>, failed => failed',
              \/ pc' = pc
              \/ pc \in {"run", "commit"} /\ pc' = "flush" /\ failed
              \/ pc \in {"run", "commit"} /\ pc' = "flush" /\ Idle(Run) /\ AllSent
              \/ pc \in {"flush", "wait"} /\ pc' \in {"wait", "returned"}
              \/ pc = "run" /\ pc' = "fanout" /\ AllSent
              \/ pc = "fanout" /\ pc' = "commit"
       PROVE Order'
    <2>1. \A n, k : Has(n, k)' <=> Has(n, k)
        BY <1>7, <1>11
    <2>2. AllSent' <=> AllSent
        BY <1>11 DEF AllSent
    <2>3. CASE pc' = "flush" /\ Idle(Run) /\ AllSent /\ pc \in {"run", "commit"}
        <3>1. \A n \in 1 .. ncp : \A k \in DOMAIN batch[n] : Has(n, k)
            BY <2>3, AllHanded DEF Order
        <3>2. Handed'
            BY <1>11, <2>1, <2>3, <3>1 DEF Handed
        <3>3. QED
            BY <1>10, <1>11, <3>2
    <2>4. CASE ~(pc' = "flush" /\ Idle(Run) /\ AllSent /\ pc \in {"run", "commit"})
        <3>1. Handed'
            BY <1>11, <2>1, <2>2, <2>4 DEF Order, Handed
        <3>2. QED
            BY <1>10, <1>11, <3>1
    <2>5. QED
        BY <2>3, <2>4
<1>12. CASE RunRefused
    <2>1. failed /\ pc \in {"run", "commit"} /\ pc' = "flush"
        BY <1>8, <1>12, ModeAssumption DEF RunRefused, Refused
    <2>2. QED
        BY <1>11, <1>12, <2>1 DEF RunRefused, saverVars
<1>13. CASE Abort
    <2>1. pc = "commit" /\ pc' = "flush" /\ Idle(Run) /\ AllSent
        BY <1>13 DEF Abort, Control, RunIdle, Order, Handed
    <2>2. QED
        BY <1>11, <1>13, <2>1 DEF Abort, saverVars
<1>14. CASE Dispatch \/ Collect \/ Finish
    BY <1>11, <1>14 DEF Dispatch, Collect, Finish, saverVars
<1>15. CASE FlushClose \/ FlushReturn
    BY <1>11, <1>15 DEF FlushClose, FlushReturn, saverVars
<1>16. CASE WorkerStep
    BY <1>11, <1>16
       DEF WorkerStep, WorkerReceive, WorkerStore, WorkerFail, WorkerClosed, Stored, NotStored,
           runVars, saverVars
<1>17. CASE RepairStep
    BY <1>11, <1>17 DEF RepairStep, RepairPut, runVars
<1>18. CASE UNCHANGED vars
    BY <1>11, <1>18 DEF vars
<1>19. QED
    BY <1>1, <1>3, <1>4, <1>6, <1>9, <1>12, <1>13, <1>14, <1>15, <1>16, <1>17, <1>18
       DEF Next, RunStep, CallStep, Returned
-----------------------------------------------------------------------------
(* What the saver holds when a request's turn comes.                        *)

Landed == Seen(landed, Len(landed))

\* The saver call under way is for q: everything handed over before q is stored.
Turn(q) ==
    /\ q \in Requests /\ Follows(batch, ncp, q, Landed)
    /\ q.kind = "writes" => PutReq(q.cp) \in Landed

\* The stored requests are the ones of LandedSet, and they were all accepted.
LEMMA LandedFacts == ASSUME TypeInv, Queue PROVE LandedSet = Landed /\ Landed \subseteq Log
<1>1. landed \in Seq(Requests) /\ accepted \in Seq(Requests)
    BY DEF TypeInv, TypeOK
<1>2. LandedSet = Landed
    BY <1>1 DEF LandedSet, Landed, Seen
<1>3. Landed \subseteq Log
    BY <1>1 DEF Landed, Log, Seen, Queue, Prefix
<1>4. QED
    BY <1>2, <1>3

\* Sync mode: a caller executes its request when it has stored all earlier ones.
LEMMA SyncTurn ==
    ASSUME TypeInv, Queue, Anchor, Order, Mode = "sync", NEW c \in Callers, ~Idle(c)
    PROVE Turn(call[c])
<1>1. landed \in Seq(Requests) /\ accepted \in Seq(Requests) /\ call[c] \in Requests
    BY DEF TypeInv, TypeOK, Idle
<1>2. Len(landed) = Len(accepted)
    BY DEF Queue, SyncLanded
<1>3. Landed = Log
    BY <1>1, <1>2 DEF Landed, Log, Seen, Queue, Prefix
<1>4. Follows(batch, ncp, call[c], Log)
    BY DEF Order, CallOrder
<1>5. call[c].kind = "writes" => PutReq(call[c].cp) \in Log
    BY DEF Anchor, CallsBehindPuts, Accepted, Log, Seen
<1>6. QED
    BY <1>1, <1>3, <1>4, <1>5 DEF Turn

\* Async mode: the request the worker holds is the first one not stored yet.
LEMMA WorkerTurn ==
    ASSUME TypeInv, Control, Queue, Anchor, Order, worker = "exec" PROVE Turn(cur)
<1>1. /\ landed \in Seq(Requests) /\ accepted \in Seq(Requests) /\ writeCh \in Seq(Requests)
      /\ cur \in Requests
    BY DEF TypeInv, TypeOK, WorkerHolds
<1>2. Mode = "async" /\ ~failed
    BY ModeAssumption DEF Control, SyncOK, AsyncOK
<1> DEFINE j == Len(landed) + 1
<1>3. cur = accepted[j] /\ j \in 1 .. Len(accepted)
    <2>1. Len(accepted) = Len(landed) + 1 + Len(writeCh) /\ cur = accepted[j]
        BY <1>2 DEF Queue, InFlight, Held
    <2>2. QED
        BY <1>1, <2>1
<1>4. Seen(accepted, j - 1) = Landed
    BY <1>1, <1>3 DEF Landed, Seen, Queue, Prefix
<1>5. Follows(batch, ncp, accepted[j], Seen(accepted, j - 1))
    BY <1>3 DEF Order, LogOrder, Ordered
<1>6. ASSUME cur.kind = "writes" PROVE PutReq(cur.cp) \in Landed
    <2>1. PICK i \in 1 .. j : accepted[i] = PutReq(cur.cp)
        BY <1>3, <1>6 DEF Anchor, WritesBehindPuts
    <2>2. i # j
        BY <1>3, <1>6, <2>1 DEF PutReq
    <2>3. i \in 1 .. j - 1
        BY <1>1, <2>1, <2>2
    <2>4. PutReq(cur.cp) \in Seen(accepted, j - 1)
        BY <2>1, <2>3 DEF Seen
    <2>5. QED
        BY <1>4, <2>4
<1>7. QED
    BY <1>1, <1>3, <1>4, <1>5, <1>6 DEF Turn
-----------------------------------------------------------------------------
(* What a failure leaves behind.                                            *)

\* A saved checkpoint's put is stored, and lastPut is the latest of them.
Puts == /\ \A n \in saved : PutReq(n) \in Landed /\ n <= lastPut
        /\ lastPut # 0 => lastPut \in saved
\* The saver holds each delta batch of checkpoint n.
Holds(n) == \A k \in DOMAIN batch[n] : batch[n][k] => WriteReq(n, k, TRUE) \in Landed
\* After a failure only the last checkpoint can lack a delta batch, and then it
\* has been, or is about to be, put again.
Failure == failed => \A n \in saved : Holds(n) \/ (n = lastPut /\ mend # "none")
\* A repair is made before the run returns.
Mending == mend = "due" => IF Mode = "async" THEN worker = "repair"
                           ELSE pc \notin {"wait", "returned"}

Repaired == Puts /\ Failure /\ Mending

\* A new sink satisfies Repaired.
LEMMA InitRepaired == Init => Repaired
BY DEF Init, Repaired, Puts, Failure, Mending

\* A successful saver call keeps Puts and adds its request to the store.
LEMMA StoredPuts ==
    ASSUME TypeInv, Puts, NEW q, Turn(q), Stored(q)
    PROVE Puts' /\ Landed' = Landed \cup {q}
<1>1. landed \in Seq(Requests) /\ q \in Requests /\ q.cp \in Checkpoints
    BY RequestFacts DEF TypeInv, TypeOK, Turn
<1>2. /\ Len(landed') = Len(landed) + 1 /\ landed'[Len(landed) + 1] = q
      /\ \A i \in 1 .. Len(landed) : landed'[i] = landed[i]
    BY <1>1 DEF Stored
<1>3. Landed' = Landed \cup {q}
    BY <1>1, <1>2 DEF Landed, Seen
<1>4. CASE q.kind = "put"
    <2>1. saved' = saved \cup {q.cp} /\ lastPut' = q.cp /\ q.cp \in Nat
        BY <1>1, <1>4, MaxCpAssumption DEF Stored, Checkpoints
    <2>2. ASSUME NEW n \in saved PROVE n <= q.cp
        <3>1. PutReq(n) \in Landed /\ PutReq(n).cp = n
            BY DEF Puts, PutReq
        <3>2. QED
            BY <3>1 DEF Turn, Follows, CpOrder
    <2>3. q = PutReq(q.cp)
        BY <1>4 DEF Turn, Follows, Built
    <2>4. QED
        BY <1>3, <2>1, <2>2, <2>3 DEF Puts
<1>5. CASE q.kind # "put"
    BY <1>3, <1>5 DEF Stored, Puts
<1>6. QED
    BY <1>3, <1>4, <1>5

\* The first failing request leaves out a delta batch of the last checkpoint put
\* at most, and then a repair is due.
LEMMA NotStoredFailure ==
    ASSUME TypeInv, Control, Anchor, Order, Puts, Failure, DeltaBatchesFirst,
           NEW q, Turn(q), NotStored(q), UNCHANGED <<batch, ncp>>
    PROVE Puts' /\ Failure'
<1>1. /\ UNCHANGED <<saved, landed, lastPut>> /\ failed' = TRUE
      /\ mend' = IF q.kind = "writes" /\ q.delta /\ lastPut # 0 /\ lastPut = q.cp
                 THEN "due" ELSE mend
    BY DEF NotStored
<1>2. Landed' = Landed /\ \A n : Holds(n)' <=> Holds(n)
    BY <1>1 DEF Landed, Holds
<1>3. Puts'
    BY <1>1, <1>2 DEF Puts
<1>4. ASSUME NEW n \in saved PROVE Holds(n) \/ (n = lastPut /\ mend' # "none")
    <2>1. CASE failed
        BY <1>1, <2>1 DEF Failure
    <2>2. n \in Checkpoints /\ n \in Nat /\ q.cp \in Checkpoints /\ q.cp \in Nat
          /\ batch[n] \in Seq(BOOLEAN) /\ q.kind \in {"put", "writes"}
        BY RequestFacts, MaxCpAssumption DEF TypeInv, TypeOK, Turn, Checkpoints, Requests
    <2>3. PutReq(n) \in Landed /\ PutReq(n).cp = n
        BY DEF Puts, PutReq
    <2>4. n <= q.cp /\ (q.kind = "put" => n < q.cp)
        BY <2>3 DEF Turn, Follows, CpOrder
    <2>5. ASSUME NEW k \in DOMAIN batch[n], batch[n][k], Earlier(q, n, k)
          PROVE WriteReq(n, k, TRUE) \in Landed
        <3>1. WriteReq(n, k, batch[n][k]) \in Landed
            BY <2>2, <2>5 DEF Turn, Follows, Behind
        <3>2. batch[n][k] = TRUE
            BY <2>2, <2>5
        <3>3. QED
            BY <3>1, <3>2
    <2>6. CASE n < q.cp
        BY <2>5, <2>6 DEF Holds, Earlier
    <2>7. CASE n = q.cp /\ q.i = 0 /\ q.kind = "writes"
        BY <2>5, <2>7 DEF Holds, Earlier
    <2>8. CASE n = q.cp /\ q.kind = "writes" /\ q.delta
        <3>1. q.cp <= lastPut /\ lastPut # 0
            BY <2>2, <2>8 DEF Puts, Checkpoints
        <3>2. lastPut \in Nat /\ PutReq(lastPut) \in Landed /\ PutReq(lastPut).cp = lastPut
            BY <3>1 DEF Puts, PutReq, TypeInv, TypeOK
        <3>3. lastPut <= q.cp
            BY <3>2 DEF Turn, Follows, CpOrder
        <3>4. QED
            BY <1>1, <2>2, <2>8, <3>1, <3>2, <3>3
    <2>9. CASE n = q.cp /\ q.kind = "writes" /\ q.i \in DOMAIN batch[n] /\ q.delta = batch[n][q.i] /\ ~q.delta
        <3>1. batch[n] \in Batches
            BY <2>2, <2>9 DEF Order, BatchShape
        <3>2. ASSUME NEW k \in DOMAIN batch[n], batch[n][k] PROVE k < q.i
            BY <2>2, <2>9, <3>1, <3>2 DEF DeltaBatchesFirst
        <3>3. QED
            BY <2>5, <2>9, <3>2 DEF Holds, Earlier
    <2>10. n = q.cp => \/ q.i = 0
                       \/ q.i \in DOMAIN batch[n] /\ q.delta = batch[n][q.i]
        BY <2>2, <2>4 DEF Turn, Follows, Built
    <2>11. q.delta \in BOOLEAN
        BY DEF Turn, Requests
    <2>12. QED
        BY <2>1, <2>2, <2>4, <2>6, <2>7, <2>8, <2>9, <2>10, <2>11
<1>5. QED
    BY <1>1, <1>2, <1>3, <1>4 DEF Failure

\* Every step keeps Repaired.
LEMMA StepRepaired ==
    ASSUME DeltaBatchesFirst
    PROVE TypeInv /\ Control /\ Queue /\ Anchor /\ Order /\ Repaired /\ [Next]_vars => Repaired'
<1> SUFFICES ASSUME TypeInv, Control, Queue, Anchor, Order, Repaired, [Next]_vars PROVE Repaired'
    OBVIOUS
<1>0. batch \in [Checkpoints -> Seq(BOOLEAN)] /\ saved \subseteq Checkpoints /\ failed \in BOOLEAN
      /\ ncp \in Nat
    BY DEF TypeInv, TypeOK
<1>1. ASSUME UNCHANGED <<landed, saved, lastPut>>, failed' = failed, mend' = mend,
             \A n \in saved : batch'[n] = batch[n]
      PROVE Puts' /\ Failure'
    <2>1. Landed' = Landed
        BY <1>1 DEF Landed
    <2>2. \A n \in saved : Holds(n) => Holds(n)'
        BY <1>1, <2>1 DEF Holds
    <2>3. QED
        BY <1>1, <2>1, <2>2 DEF Repaired, Puts, Failure
<1>2. ASSUME NEW b \in Batches, PutCheckpoint(b) PROVE Repaired'
    <2>1. ASSUME NEW n \in saved PROVE n # ncp + 1
        <3>1. PutReq(n) \in Log /\ PutReq(n).cp = n
            BY LandedFacts DEF Repaired, Puts, PutReq
        <3>2. n <= ncp
            BY <3>1, LogCps DEF Order
        <3>3. QED
            BY <1>0, <3>2
    <2>2. \A n \in saved : batch'[n] = batch[n]
        BY <1>0, <1>2, <2>1 DEF PutCheckpoint
    <2>3. Puts' /\ Failure'
        BY <1>1, <1>2, <2>2 DEF PutCheckpoint, saverVars
    <2>4. Mending'
        BY <1>2 DEF PutCheckpoint, saverVars, chanVars, Repaired, Mending
    <2>5. QED
        BY <2>3, <2>4 DEF Repaired
<1>3. ASSUME NEW q, Turn(q), Stored(q), UNCHANGED <<batch, ncp>>, failed => q.kind # "put"
      PROVE Puts' /\ Failure'
    <2>1. Puts' /\ Landed' = Landed \cup {q}
        BY <1>3, StoredPuts DEF Repaired
    <2>2. \A n : Holds(n) => Holds(n)'
        BY <1>3, <2>1 DEF Holds
    <2>3. UNCHANGED <<failed, mend>> /\ (failed => saved' = saved /\ lastPut' = lastPut)
        BY <1>3 DEF Stored
    <2>4. QED
        BY <2>1, <2>2, <2>3 DEF Repaired, Failure
<1>4. ASSUME NEW c \in Callers, SyncStore(c) PROVE Repaired'
    <2>1. Turn(call[c])
        BY <1>4, SyncTurn DEF SyncStore
    <2>2. failed => call[c].kind # "put"
        BY <1>4 DEF SyncStore, Idle, Callers, Control, TaskCalls, SyncOK
    <2>3. Puts' /\ Failure'
        BY <1>3, <1>4, <2>1, <2>2 DEF SyncStore, runVars
    <2>4. Mending'
        BY <1>4 DEF SyncStore, Stored, runVars, chanVars, Repaired, Mending
    <2>5. QED
        BY <2>3, <2>4 DEF Repaired
<1>5. ASSUME NEW c \in Callers, SyncFail(c) PROVE Repaired'
    <2>1. Turn(call[c])
        BY <1>5, SyncTurn DEF SyncFail
    <2>2. Puts' /\ Failure'
        BY <1>5, <2>1, NotStoredFailure DEF SyncFail, Repaired
    <2>3. pc \in {"run", "fanout"}
        BY <1>5 DEF SyncFail, Control, RunIdle, TasksIdle, Callers
    <2>4. Mending'
        BY <1>5, <2>3 DEF SyncFail, Mending
    <2>5. QED
        BY <2>2, <2>4 DEF Repaired
<1>6. ASSUME WorkerStore PROVE Repaired'
    <2>1. Turn(cur) /\ ~failed
        BY <1>6, WorkerTurn, ModeAssumption DEF WorkerStore, Control, SyncOK, AsyncOK
    <2>2. Puts' /\ Failure'
        BY <1>3, <1>6, <2>1 DEF WorkerStore, runVars
    <2>3. Mending'
        BY <1>6 DEF WorkerStore, Stored, runVars, Repaired, Mending
    <2>4. QED
        BY <2>2, <2>3 DEF Repaired
<1>7. ASSUME WorkerFail PROVE Repaired'
    <2>1. Turn(cur) /\ Mode = "async"
        BY <1>7, WorkerTurn, ModeAssumption DEF WorkerFail, Control, SyncOK
    <2>2. Puts' /\ Failure'
        BY <1>7, <2>1, NotStoredFailure DEF WorkerFail, Repaired, runVars
    <2>3. Mending'
        BY <1>7, <2>1 DEF WorkerFail, Mending
    <2>4. QED
        BY <2>2, <2>3 DEF Repaired
<1>8. ASSUME RepairStep PROVE Repaired'
    <2>1. UNCHANGED <<batch, ncp, lastPut, failed, saved, landed>> /\ mend' \in {"ok", "failed"}
        BY <1>8 DEF RepairStep, RepairPut, runVars
    <2>2. Landed' = Landed /\ \A n : Holds(n)' <=> Holds(n)
        BY <2>1 DEF Landed, Holds
    <2>3. QED
        BY <2>1, <2>2 DEF Repaired, Puts, Failure, Mending
<1>9. ASSUME UNCHANGED <<batch, ncp, saverVars>>, Mending' PROVE Repaired'
    BY <1>1, <1>9 DEF saverVars, Repaired
<1>10. ASSUME PutWrites \/ RunRefused \/ Dispatch \/ Collect \/ Abort \/ Finish \/ FlushClose
                \/ FlushReturn \/ (\E t \in Tasks : PutErrorWrite(t))
                \/ WorkerReceive \/ WorkerClosed \/ (\E c \in Callers : Enqueue(c) \/ EnqueueRefused(c))
                \/ UNCHANGED vars
       PROVE Repaired'
    <2>1. UNCHANGED <<batch, ncp, saverVars>>
        BY <1>10
           DEF PutWrites, RunRefused, Dispatch, Collect, Abort, Finish, FlushClose, FlushReturn,
               PutErrorWrite, WorkerReceive, WorkerClosed, Enqueue, EnqueueRefused, runVars,
               saverVars, vars
    <2>2. CASE Mode = "async"
        <3>1. worker = "repair" => worker' = "repair"
            BY <1>10
               DEF PutWrites, RunRefused, Dispatch, Collect, Abort, Finish, FlushClose, FlushReturn,
                   PutErrorWrite, WorkerReceive, WorkerClosed, Enqueue, EnqueueRefused, chanVars, vars
        <3>2. Mending'
            BY <2>1, <2>2, <3>1 DEF Repaired, Mending, saverVars
        <3>3. QED
            BY <1>9, <2>1, <3>2
    <2>3. CASE Mode = "sync"
        <3>1. \/ pc' \notin {"wait", "returned"} \/ pc' = pc
              \/ pc = "flush" /\ mend # "due"
              \/ pc = "wait"
            BY <1>10, <2>3
               DEF PutWrites, RunRefused, Dispatch, Collect, Abort, Finish, FlushClose, FlushReturn,
                   PutErrorWrite, WorkerReceive, WorkerClosed, Enqueue, EnqueueRefused, runVars, vars
        <3>2. Mending'
            BY <2>1, <2>3, <3>1 DEF Repaired, Mending, saverVars
        <3>3. QED
            BY <1>9, <2>1, <3>2
    <2>4. QED
        BY <2>2, <2>3, ModeAssumption
<1>11. QED
    BY <1>2, <1>4, <1>5, <1>6, <1>7, <1>8, <1>10 DEF Next, RunStep, CallStep, WorkerStep, Returned

\* The layers hold throughout a run.
LEMMA RepairedInv ==
    ASSUME DeltaBatchesFirst
    PROVE Spec => [](TypeInv /\ Control /\ Queue /\ Order /\ Repaired)
<1>1. Spec => []Anchor
    BY InitAnchor, StepAnchor, ControlInv, PTL DEF Spec
<1>2. Spec => []Order
    BY InitOrder, StepOrder, ControlInv, PTL DEF Spec
<1>3. TypeInv /\ Control /\ Queue /\ Anchor /\ Order /\ Repaired /\ [Next]_vars => Repaired'
    BY StepRepaired
<1>4. QED
    BY <1>1, <1>2, <1>3, InitRepaired, QueueInv, PTL DEF Spec

\* A run that returns without a saver failure has stored every batch of every
\* checkpoint it saved.
LEMMA AllStored ==
    ASSUME TypeInv, Control, Queue, Order, Repaired, pc = "returned", ~failed, NEW n \in saved
    PROVE Holds(n)
<1>1. landed \in Seq(Requests) /\ accepted \in Seq(Requests) /\ writeCh \in Seq(Requests)
    BY DEF TypeInv, TypeOK
<1>2. Len(landed) = Len(accepted)
    <2>1. worker = "exited"
        BY DEF Control, ResultOK
    <2>2. CASE Mode = "async"
        <3>1. Len(writeCh) = 0 /\ Held = 0
            BY <2>1, <2>2 DEF Control, AsyncOK, Held
        <3>2. QED
            BY <1>1, <2>2, <3>1 DEF Queue, InFlight
    <2>3. QED
        BY <2>2, ModeAssumption DEF Queue, SyncLanded
<1>3. Landed = Log
    BY <1>1, <1>2 DEF Landed, Log, Seen, Queue, Prefix
<1>4. n \in 1 .. ncp
    <2>1. PutReq(n) \in Log /\ PutReq(n).cp = n
        BY <1>3 DEF Repaired, Puts, PutReq
    <2>2. n <= ncp /\ n \in Checkpoints
        BY <2>1, LogCps DEF Order, TypeInv, TypeOK
    <2>3. QED
        BY <2>2, MaxCpAssumption DEF Checkpoints, TypeInv, TypeOK
<1>5. ASSUME NEW k \in DOMAIN batch[n], batch[n][k] PROVE WriteReq(n, k, TRUE) \in Landed
    <2>1. WriteReq(n, k, batch[n][k]) \in Log
        BY <1>4, <1>5 DEF Order, Handed, Has
    <2>2. batch[n][k] = TRUE
        BY <1>4, <1>5 DEF TypeInv, TypeOK
    <2>3. QED
        BY <1>3, <2>1, <2>2
<1>6. QED
    BY <1>5 DEF Holds

\* A saved checkpoint never reads short, whichever saver call fails and wherever
\* the run and the worker are then: the repair of lastPut covers all a failing
\* delta batch can leave out.
THEOREM NoShortReads ==
    ASSUME DeltaBatchesFirst
    PROVE Spec => []ReadsComplete
<1>1. TypeInv /\ Control /\ Queue /\ Order /\ Repaired => ReadsComplete
    <2> SUFFICES ASSUME TypeInv, Control, Queue, Order, Repaired,
                        pc = "returned", mend # "failed", NEW n \in saved, ~(mend = "ok" /\ n = lastPut)
                 PROVE \A k \in DOMAIN batch[n] : batch[n][k] => WriteReq(n, k, TRUE) \in LandedSet
        BY DEF ReadsComplete
    <2>1. mend # "due"
        BY ModeAssumption DEF Repaired, Mending, Control, ResultOK
    <2>2. Holds(n)
        <3>1. CASE failed
            BY <2>1, <3>1 DEF Repaired, Failure, TypeInv, TypeOK
        <3>2. QED
            BY <3>1, AllStored
    <2>3. QED
        BY <2>2, LandedFacts DEF Holds
<1>2. QED
    BY <1>1, RepairedInv, PTL
=============================================================================
