-------------------------- MODULE PregelResumeProofs --------------------------
(***************************************************************************)
(* What a resume makes of the pending writes of its checkpoint, under the  *)
(* identities the plan names: the work of completed tasks is applied once, *)
(* the successors they chose run, a task that failed goes to its error     *)
(* handler, an answer reaches the task that asked, and a breakpoint that   *)
(* stopped a run is passed.  Where identities do not tell tasks apart, or  *)
(* pauses mix, they need not; the theorems state what they ask.            *)
(***************************************************************************)
EXTENDS PregelProofs
-----------------------------------------------------------------------------
(* Work.  A pending write is replayed by the resume that finds it under an   *)
(* identity its plan names: what has to hold is that such a write is not     *)
(* folded already into the state saved with it.                              *)

\* No two tasks of a plan share node and argument.
Untwinned(ts) ==
    \A i, k \in DOMAIN ts :
        ts[i].node # END /\ ts[i].node = ts[k].node /\ ts[i].arg = ts[k].arg => i = k

\* What the theorem asks of a behaviour: task identities tell tasks apart.  No
\* superstep has two tasks of the same node and argument, and none of the tasks
\* that a commit plans is one that has just run.
NoTwins == Untwinned(tasks)
NothingRepeats ==
    phase = "tasks" /\ AllDone => \A i \in DOMAIN tasks : \A k \in DOMAIN NextTasks :
        ~(NextTasks[k].node = tasks[i].node /\ NextTasks[k].arg = tasks[i].arg)

\* Tokens of one execution; execution counts and turns seen so far.
SameExec(t, u) == t.n = u.n /\ t.k = u.k
Past(t, e, u) == IF t.n = END THEN t.k <= u ELSE t.k <= e[t.n]
Unapplied(l, t) == \A i \in DOMAIN l : ~SameExec(l[i], t)
Sound(l, e, u) ==
    /\ \A i \in DOMAIN l : Past(l[i], e, u)
    /\ \A i, k \in DOMAIN l : SameExec(l[i], l[k]) => i = k

\* A saved state and its plan.
PutOK(p, e, u) == Sound(p[2].log, e, u) /\ Untwinned(p[3])
\* A pending write that a resume from p replays is not in p's state, and an
\* execution is written on a checkpoint under one identity.
Planned(p, w) == p[1] = w[1] /\ \E i \in DOMAIN p[3] : p[3][i].id = w[2].id
OneIdentity(v, w) ==
    v[2].kind = "done" /\ v[1] = w[1] /\ SameExec(v[2].tok[1], w[2].tok[1]) => v[2].id = w[2].id
WriteOK(w, P, W, e, u) ==
    w[2].kind = "done" =>
        /\ Past(w[2].tok[1], e, u)
        /\ \A p \in P : Planned(p, w) => Unapplied(p[2].log, w[2].tok[1])
        /\ \A v \in W : OneIdentity(v, w)
\* The outcomes of a superstep, on state log l.
OutOnce(i, o, l, e, u) ==
    o[i].s = "done" =>
        /\ Past(o[i].tok[1], e, u) /\ Unapplied(l, o[i].tok[1])
        /\ \A k \in DOMAIN o : o[k].s = "done" /\ SameExec(o[k].tok[1], o[i].tok[1]) => k = i

OnceInv ==
    /\ \A p \in Saved : PutOK(p, execs, turns)
    /\ \A w \in Written : WriteOK(w, Saved, Written, execs, turns)
    /\ Sound(st.log, execs, turns)
    /\ phase = "tasks" => \A i \in DOMAIN outs : OutOnce(i, outs, st.log, execs, turns)
-----------------------------------------------------------------------------
(* Logs.                                                                    *)

\* What has been saved and written has its type.
LEMMA SavedTypes ==
    ASSUME Saver
    PROVE /\ \A p \in Saved : p[2] \in States /\ p[2].log \in Seq(Tokens) /\ p[3] \in Plans
          /\ \A w \in Written : /\ w[2] \in WriteRecs
                                /\ w[2].kind = "done" => w[2].tok[1] \in Tokens /\ w[2].tok[1].n \in Nodes
<1>1. \A c \in DOMAIN store : store[c] \in Recs
    BY DEF Saver
<1>2. \A i \in DOMAIN io : io[i] \in SaverCalls
    <2>1. io \in Seq(SaverCalls)
        BY DEF Saver
    <2> HIDE DEF SaverCalls
    <2>2. QED
        BY <2>1
<1>3. ASSUME NEW p \in Saved PROVE p[2] \in States /\ p[3] \in Plans
    <2>1. CASE p \in StoredPuts(store)
        BY <1>1, <2>1 DEF StoredPuts, Recs
    <2>2. CASE p \in NewPuts(io)
        <3>1. PICK i \in DOMAIN io : io[i].op = "put" /\ p = <<io[i].cp, io[i].rec.st, io[i].rec.next>>
            BY <2>2 DEF NewPuts
        <3>2. io[i] \in SaverCalls
            BY <1>2
        <3>3. io[i].rec \in Recs
            BY <3>1, <3>2 DEF SaverCalls
        <3>4. QED
            BY <3>1, <3>3 DEF Recs
    <2>3. QED
        BY <2>1, <2>2 DEF Saved, PutsOf
<1>4. ASSUME NEW w \in Written PROVE w[2] \in WriteRecs
    <2>1. CASE w \in StoredWrites(store)
        <3>1. PICK c \in DOMAIN store : w \in {<<c, r>> : r \in store[c].w}
            BY <2>1 DEF StoredWrites
        <3>2. PICK r \in store[c].w : w = <<c, r>>
            BY <3>1
        <3>3. store[c] \in Recs
            BY <1>1
        <3>4. r \in WriteRecs
            BY <3>3 DEF Recs
        <3>5. QED
            BY <3>2, <3>4
    <2>2. CASE w \in NewWrites(io)
        <3>1. PICK i \in DOMAIN io : io[i].op = "writes" /\ w = <<io[i].cp, io[i].rec>>
            BY <2>2 DEF NewWrites
        <3>2. io[i] \in SaverCalls
            BY <1>2
        <3>3. io[i].rec \in WriteRecs
            BY <3>1, <3>2 DEF SaverCalls
        <3>4. QED
            BY <3>1, <3>3
    <2>3. QED
        BY <2>1, <2>2 DEF Written, WritesOf
<1>5. ASSUME NEW r \in WriteRecs, r.kind = "done" PROVE r.tok[1] \in Tokens /\ r.tok[1].n \in Nodes
    <2>1. r.tok \in Seq(Tokens) /\ Len(r.tok) = 1 /\ r.tok[1].n = r.id.node /\ r.id \in RealIDs
        BY <1>5 DEF WriteRecs, Work, WorkOf
    <2>2. r.tok[1] \in Tokens
        <3> HIDE DEF Tokens
        <3>1. QED
            BY <2>1
    <2>3. r.id.node \in Nodes
        BY <2>1 DEF RealIDs
    <2>4. QED
        BY <2>1, <2>2, <2>3
<1>6. \A s \in States : s.log \in Seq(Tokens)
    BY DEF States
<1>7. QED
    BY <1>3, <1>4, <1>5, <1>6

\* Counts only grow.
Grows(e, u, e2, u2) ==
    /\ e \in [Nodes -> Nat] /\ e2 \in [Nodes -> Nat] /\ u \in Nat /\ u2 \in Nat /\ u <= u2
    /\ \A n \in Nodes : e[n] <= e2[n]

LEMMA PastGrows ==
    ASSUME NEW t \in Tokens, NEW e, NEW u, NEW e2, NEW u2, Grows(e, u, e2, u2), Past(t, e, u)
    PROVE Past(t, e2, u2)
<1>1. t.k \in Nat /\ t.n \in Nodes \cup {END}
    BY DEF Tokens
<1>2. CASE t.n = END
    BY <1>1, <1>2 DEF Past, Grows
<1>3. CASE t.n # END
    <2>1. t.n \in Nodes /\ e[t.n] \in Nat /\ e2[t.n] \in Nat /\ e[t.n] <= e2[t.n] /\ t.k <= e[t.n]
        BY <1>1, <1>3 DEF Past, Grows
    <2>2. t.k <= e2[t.n]
        BY <1>1, <2>1
    <2>3. QED
        BY <1>3, <2>2 DEF Past
<1>4. QED
    BY <1>2, <1>3

LEMMA SoundGrows ==
    ASSUME NEW l \in Seq(Tokens), NEW e, NEW u, NEW e2, NEW u2, Grows(e, u, e2, u2), Sound(l, e, u)
    PROVE Sound(l, e2, u2)
<1>1. \A i \in DOMAIN l : l[i] \in Tokens
    <2> HIDE DEF Tokens
    <2>1. QED
        OBVIOUS
<1>2. QED
    BY <1>1, PastGrows DEF Sound

\* Work that is new to a log, each execution once, keeps it sound.
FreshWork(l, t, e, u) ==
    /\ \A k \in DOMAIN t : Past(t[k], e, u) /\ Unapplied(l, t[k])
    /\ \A h, k \in DOMAIN t : SameExec(t[h], t[k]) => h = k
LEMMA SoundJoined ==
    ASSUME NEW l2, NEW l, NEW t, NEW e, NEW u, Joined(l2, l, t), Sound(l, e, u), FreshWork(l, t, e, u)
    PROVE Sound(l2, e, u)
<1>1. /\ Len(l) \in Nat /\ Len(t) \in Nat /\ DOMAIN l = 1 .. Len(l) /\ DOMAIN t = 1 .. Len(t)
      /\ DOMAIN l2 = 1 .. Len(l) + Len(t)
      /\ \A i \in DOMAIN l : l2[i] = l[i]
      /\ \A i \in DOMAIN t : l2[Len(l) + i] = t[i]
    BY DEF Joined
<1>2. \A i \in DOMAIN l2 : \/ i \in DOMAIN l /\ l2[i] = l[i]
                           \/ i - Len(l) \in DOMAIN t /\ l2[i] = t[i - Len(l)] /\ i \in Int
    <2> SUFFICES ASSUME NEW i \in DOMAIN l2, i \notin DOMAIN l
                 PROVE i - Len(l) \in DOMAIN t /\ l2[i] = t[i - Len(l)] /\ i \in Int
        BY <1>1
    <2>1. i - Len(l) \in DOMAIN t /\ i = Len(l) + (i - Len(l)) /\ i \in Int
        BY <1>1
    <2>2. QED
        BY <1>1, <2>1
<1>3. ASSUME NEW i \in DOMAIN l2 PROVE Past(l2[i], e, u)
    BY <1>2 DEF Sound, FreshWork
<1>4. ASSUME NEW i \in DOMAIN l2, NEW k \in DOMAIN l2, SameExec(l2[i], l2[k]) PROVE i = k
    <2>0. SameExec(l2[k], l2[i])
        BY <1>4 DEF SameExec
    <2>1. CASE i \in DOMAIN l /\ l2[i] = l[i] /\ k \in DOMAIN l /\ l2[k] = l[k]
        BY <1>4, <2>1 DEF Sound
    <2>2. CASE i \in DOMAIN l /\ l2[i] = l[i] /\ k - Len(l) \in DOMAIN t /\ l2[k] = t[k - Len(l)]
        BY <1>4, <2>2 DEF FreshWork, Unapplied
    <2>3. CASE k \in DOMAIN l /\ l2[k] = l[k] /\ i - Len(l) \in DOMAIN t /\ l2[i] = t[i - Len(l)]
        BY <2>0, <2>3 DEF FreshWork, Unapplied
    <2>4. CASE /\ i - Len(l) \in DOMAIN t /\ l2[i] = t[i - Len(l)] /\ i \in Int
               /\ k - Len(l) \in DOMAIN t /\ l2[k] = t[k - Len(l)] /\ k \in Int
        <3>1. i - Len(l) = k - Len(l)
            BY <1>4, <2>4 DEF FreshWork
        <3>2. QED
            BY <1>1, <2>4, <3>1
    <2>5. QED
        BY <1>2, <2>1, <2>2, <2>3, <2>4
<1>5. QED
    BY <1>3, <1>4 DEF Sound

\* Applying work to a state.
LEMMA AppliedSound ==
    ASSUME NEW s \in States, NEW ws \in Seq(Batches), NEW r, Applied(s, ws, r), NEW e, NEW u,
           Sound(s.log, e, u), FreshWork(s.log, TokensOf(ws), e, u)
    PROVE Sound(r.log, e, u)
<1>1. s.log \in Seq(Tokens) /\ TokensOf(ws) \in Seq(Tokens) /\ r.log = s.log \o TokensOf(ws)
    BY DEF Applied, States
<1> HIDE DEF Tokens, TokensOf
<1>2. Joined(r.log, s.log, TokensOf(ws))
    BY <1>1, ConcatFacts
<1>3. QED
    BY <1>2, SoundJoined

\* No plan stamped from tasks without twins has twins.
LEMMA StampedUntwinned ==
    ASSUME graph \in Graphs, NEW ts \in Seq(TaskRecs), Untwinned(ts), NEW c \in 1 .. MaxIds, NEW n \in 0 .. MaxIds
    PROVE Untwinned(Active(ts)) /\ Untwinned(StampDispatchIDs(ts, c, n)) /\ Untwinned(StampNew(ts, c, n))
<1> DEFINE a == Active(ts)
           I == {k \in DOMAIN ts : ts[k].node # END}
<1>1. a \in Seq(TaskRecs) /\ InOrder(a, ts, I)
    BY ActiveFacts
<1>2. PICK m \in [DOMAIN a -> I] : /\ \A k \in DOMAIN a : a[k] = ts[m[k]]
                                   /\ \A j, k \in DOMAIN a : j < k => m[j] < m[k]
    BY <1>1 DEF InOrder
<1>3. \A k \in DOMAIN a : k \in Int /\ m[k] \in DOMAIN ts /\ m[k] \in Int
    <2> HIDE DEF TaskRecs, a
    <2>1. \A k \in DOMAIN ts : k \in Int
        OBVIOUS
    <2>2. \A k \in DOMAIN a : k \in Int
        BY <1>1
    <2>3. QED
        BY <1>2, <2>1, <2>2
<1> HIDE DEF a, I
<1>4. Untwinned(a)
    <2> SUFFICES ASSUME NEW i \in DOMAIN a, NEW k \in DOMAIN a, a[i].node # END, a[i].node = a[k].node, a[i].arg = a[k].arg
                 PROVE i = k
        BY DEF Untwinned
    <2>1. m[i] = m[k]
        BY <1>2, <1>3 DEF Untwinned
    <2>2. QED
        BY <1>2, <1>3, <2>1
<1>5. /\ DOMAIN StampDispatchIDs(ts, c, n) = DOMAIN a /\ DOMAIN StampNew(ts, c, n) = DOMAIN a
      /\ \A i \in DOMAIN a : /\ StampDispatchIDs(ts, c, n)[i].node = a[i].node /\ StampDispatchIDs(ts, c, n)[i].arg = a[i].arg
                             /\ StampNew(ts, c, n)[i].node = a[i].node /\ StampNew(ts, c, n)[i].arg = a[i].arg
    BY DEF StampDispatchIDs, StampNew, a
<1> HIDE DEF StampDispatchIDs, StampNew
<1>6. QED
    BY <1>4, <1>5 DEF Untwinned, a
-----------------------------------------------------------------------------
(* The invariant, step by step.                                             *)

\* What was saved and written stays in order as counts grow.
LEMMA OnceOld ==
    ASSUME Base, OnceInv, NEW e, NEW u, Grows(execs, turns, e, u)
    PROVE /\ \A p \in Saved : PutOK(p, e, u)
          /\ \A w \in Written : WriteOK(w, Saved, Written, e, u)
          /\ Sound(st.log, e, u)
<1>1. Saver /\ st.log \in Seq(Tokens)
    BY DEF Base, Run, States
<1>2. \A p \in Saved : PutOK(p, e, u)
    BY <1>1, SavedTypes, SoundGrows DEF PutOK, OnceInv
<1>3. ASSUME NEW w \in Written PROVE WriteOK(w, Saved, Written, e, u)
    <2>1. WriteOK(w, Saved, Written, execs, turns)
        BY DEF OnceInv
    <2>2. w[2].kind = "done" => Past(w[2].tok[1], e, u)
        <3> SUFFICES ASSUME w[2].kind = "done" PROVE Past(w[2].tok[1], e, u)
            OBVIOUS
        <3>1. w[2].tok[1] \in Tokens
            BY <1>1, SavedTypes
        <3>2. Past(w[2].tok[1], execs, turns)
            BY <2>1 DEF WriteOK
        <3>3. QED
            BY <3>1, <3>2, PastGrows
    <2>3. QED
        BY <2>1, <2>2 DEF WriteOK
<1>4. Sound(st.log, e, u)
    BY <1>1, SoundGrows DEF OnceInv
<1>5. QED
    BY <1>2, <1>3, <1>4

LEMMA CountsStay ==
    ASSUME Base PROVE Grows(execs, turns, execs, turns)
<1>1. execs \in [Nodes -> Nat] /\ turns \in Nat
    BY DEF Base, Run
<1>2. QED
    BY <1>1 DEF Grows

\* Nothing is saved or written: the state stays, or the run is over.
LEMMA OnceQuiet ==
    ASSUME Base, OnceInv, Saved' \subseteq Saved, Written' \subseteq Written, execs' = execs, turns' = turns,
           st' = st \/ st'.log = <<>>,
           phase' = "tasks" => phase = "tasks" /\ st' = st /\ outs' = outs
    PROVE OnceInv'
<1>1. \A p \in Saved' : PutOK(p, execs', turns')
    BY DEF OnceInv
<1>2. \A w \in Written' : WriteOK(w, Saved', Written', execs', turns')
    BY DEF OnceInv, WriteOK
<1>3. Sound(st'.log, execs', turns')
    BY DEF OnceInv, Sound
<1>4. phase' = "tasks" => \A i \in DOMAIN outs' : OutOnce(i, outs', st'.log, execs', turns')
    BY DEF OnceInv
<1>5. QED
    BY <1>1, <1>2, <1>3, <1>4 DEF OnceInv

\* A checkpoint is saved with writes a resume from it may replay.
SavesOnce(s, next, ws, e, u) ==
    /\ Sound(s.log, e, u) /\ Untwinned(next)
    /\ \A r \in Elements(ws) : r.kind = "done" =>
          /\ Past(r.tok[1], e, u)
          /\ (\E i \in DOMAIN next : next[i].id = r.id) => Unapplied(s.log, r.tok[1])
          /\ \A q \in Elements(ws) : q.kind = "done" /\ SameExec(q.tok[1], r.tok[1]) => q.id = r.id
LEMMA OnceSaved ==
    ASSUME Base, OnceInv, NEW s, NEW next, NEW ws, CheckpointSaved(s, next, ws), st' = s, phase' # "tasks",
           Grows(execs, turns, execs', turns'), SavesOnce(s, next, ws, execs', turns')
    PROVE OnceInv'
<1> DEFINE c == lastId + 1
<1>1. Saved' = Saved \cup {<<c, s, next>>} /\ Written' = Written \cup {<<c, r>> : r \in Elements(ws)}
    BY DEF CheckpointSaved
<1>2. (\A p \in Saved : p[1] # c) /\ (\A w \in Written : w[1] # c)
    <2>1. lastId \in Nat
        BY Shape DEF Base, Saver, GraphShape
    <2>2. (\A p \in Saved : p[1] \in 1 .. lastId) /\ (\A w \in Written : w[1] \in 1 .. lastId)
        BY DEF Base, Saver
    <2>3. c \notin 1 .. lastId
        BY <2>1
    <2>4. QED
        BY <2>2, <2>3
<1> HIDE DEF c
<1>3. /\ \A p \in Saved : PutOK(p, execs', turns')
      /\ \A w \in Written : WriteOK(w, Saved, Written, execs', turns')
    BY OnceOld
<1>4. PutOK(<<c, s, next>>, execs', turns')
    BY DEF PutOK, SavesOnce
<1>5. \A p \in Saved' : PutOK(p, execs', turns')
    BY <1>1, <1>3, <1>4
<1>6. ASSUME NEW w \in Written PROVE WriteOK(w, Saved', Written', execs', turns')
    <2>1. WriteOK(w, Saved, Written, execs', turns') /\ w[1] # c
        BY <1>2, <1>3
    <2>2. ASSUME NEW p \in Saved', Planned(p, w) PROVE p \in Saved
        BY <1>1, <2>1, <2>2 DEF Planned
    <2>3. ASSUME NEW v \in Written', v[1] = w[1] PROVE v \in Written
        BY <1>1, <2>1, <2>3
    <2>4. QED
        BY <2>1, <2>2, <2>3 DEF WriteOK, OneIdentity
<1>7. ASSUME NEW r \in Elements(ws) PROVE WriteOK(<<c, r>>, Saved', Written', execs', turns')
    <2> SUFFICES ASSUME r.kind = "done"
                 PROVE /\ Past(r.tok[1], execs', turns')
                       /\ \A p \in Saved' : Planned(p, <<c, r>>) => Unapplied(p[2].log, r.tok[1])
                       /\ \A v \in Written' : OneIdentity(v, <<c, r>>)
        BY DEF WriteOK
    <2>1. Past(r.tok[1], execs', turns')
        BY DEF SavesOnce
    <2>2. ASSUME NEW p \in Saved', Planned(p, <<c, r>>) PROVE Unapplied(p[2].log, r.tok[1])
        <3>1. p[1] = c /\ \E i \in DOMAIN p[3] : p[3][i].id = r.id
            BY <2>2 DEF Planned
        <3>2. p = <<c, s, next>>
            BY <1>1, <1>2, <3>1
        <3>3. QED
            BY <3>1, <3>2 DEF SavesOnce
    <2>3. ASSUME NEW v \in Written' PROVE OneIdentity(v, <<c, r>>)
        <3> SUFFICES ASSUME v[2].kind = "done", v[1] = c, SameExec(v[2].tok[1], r.tok[1]) PROVE v[2].id = r.id
            BY DEF OneIdentity
        <3>1. v \notin Written
            BY <1>2
        <3>2. PICK q \in Elements(ws) : v = <<c, q>>
            BY <1>1, <3>1
        <3>3. q.kind = "done" /\ SameExec(q.tok[1], r.tok[1])
            BY <3>2
        <3>4. QED
            BY <3>2, <3>3 DEF SavesOnce
    <2>4. QED
        BY <2>1, <2>2, <2>3
<1>8. \A w \in Written' : WriteOK(w, Saved', Written', execs', turns')
    <2> SUFFICES ASSUME NEW w \in Written' PROVE WriteOK(w, Saved', Written', execs', turns')
        OBVIOUS
    <2>1. CASE w \in Written
        BY <1>6, <2>1
    <2>2. CASE w \in {<<c, r>> : r \in Elements(ws)}
        <3>1. PICK r \in Elements(ws) : w = <<c, r>>
            BY <2>2
        <3>2. QED
            BY <1>7, <3>1
    <2>3. QED
        BY <1>1, <2>1, <2>2
<1>9. Sound(st'.log, execs', turns')
    BY DEF SavesOnce
<1>10. QED
    BY <1>5, <1>8, <1>9 DEF OnceInv

\* Input is counted as a turn.
LEMMA OnceInvoke ==
    ASSUME Base, OnceInv, NoTwins', phase = "idle", NEW s \in States, s.step \in -1 .. lastId - 1,
           Sound(s.log, execs, turns), InvokeFrom(s)
    PROVE OnceInv'
<1> DEFINE s1 == applyWrites(s, InputBatch)
           next == StampNew(NewTasks(Entry), lastId + 1, s1.step + 1)
<1>1. /\ s1 \in States /\ s1.step = s.step /\ Applied(s, InputBatch, s1) /\ NewTasks(Entry) \in Seq(TaskRecs)
      /\ CheckpointSaved(s1, next, <<>>)
    BY InputSaved DEF Applied
<1>2. phase' = "loop" /\ st' = s1 /\ tasks' = NewTasks(Entry) /\ turns' = turns + 1 /\ execs' = execs
    BY DEF InvokeFrom, Begin, InputBatch
<1>3. lastId + 1 \in 1 .. MaxIds /\ s1.step + 1 \in 0 .. MaxIds
    <2>1. lastId + 1 \in 1 .. MaxIds /\ lastId \in Nat /\ MaxIds \in Nat
        BY <1>1, Shape DEF CheckpointSaved, Base, Saver, GraphShape
    <2>2. s1.step \in -1 .. lastId - 1
        BY <1>1
    <2> HIDE DEF s1
    <2>3. QED
        BY <2>1, <2>2
<1>4. execs \in [Nodes -> Nat] /\ turns \in Nat /\ graph \in Graphs
    BY DEF Base, Run, Saver
<1>5. Grows(execs, turns, execs', turns')
    BY <1>2, <1>4 DEF Grows
<1> HIDE DEF s1
<1>6. Untwinned(next)
    BY <1>1, <1>2, <1>3, <1>4, StampedUntwinned DEF NoTwins
<1>7. /\ InputBatch \in Seq(Batches) /\ TokensOf(InputBatch) = <<InputToken>>
      /\ InputToken.n = END /\ InputToken.k = turns + 1
    BY <1>4, InputFacts DEF InputToken, Token
<1>8. s.log \in Seq(Tokens) /\ \A i \in DOMAIN s.log : s.log[i] \in Tokens
    <2>1. s.log \in Seq(Tokens)
        BY DEF States
    <2> HIDE DEF Tokens
    <2>2. QED
        BY <2>1
<1>9. Unapplied(s.log, InputToken)
    <2> SUFFICES ASSUME NEW i \in DOMAIN s.log, SameExec(s.log[i], InputToken) PROVE FALSE
        BY DEF Unapplied
    <2>1. s.log[i].k \in Nat /\ s.log[i].n = END /\ s.log[i].k = turns + 1
        BY <1>7, <1>8 DEF Tokens, SameExec
    <2>2. s.log[i].k <= turns
        BY <2>1 DEF Sound, Past
    <2>3. QED
        BY <1>4, <2>1, <2>2
<1>10. FreshWork(s.log, TokensOf(InputBatch), execs', turns')
    <2>1. Past(InputToken, execs', turns')
        BY <1>2, <1>4, <1>7 DEF Past
    <2> HIDE DEF InputToken, InputBatch
    <2>2. QED
        BY <1>7, <1>9, <2>1 DEF FreshWork
<1>11. Sound(s.log, execs', turns')
    BY <1>5, <1>8, SoundGrows
<1>12. Sound(s1.log, execs', turns')
    BY <1>1, <1>7, <1>10, <1>11, AppliedSound
<1>13. SavesOnce(s1, next, <<>>, execs', turns')
    BY <1>6, <1>12 DEF SavesOnce, Elements
<1> HIDE DEF next
<1>14. QED
    BY <1>1, <1>2, <1>5, <1>13, OnceSaved

\* A resume replays what its checkpoint's plan names and has not folded in.
LEMMA ReplayFresh ==
    ASSUME Base, OnceInv, NEW c \in DOMAIN store
    PROVE FreshWork(store[c].st.log, TokensOf(ReplayWrites(c)), execs, turns)
<1> DEFINE ws == ReplayWrites(c)
           C == CompletedIdx(c)
           p == <<c, store[c].st, store[c].next>>
           tok(i) == DoneWrite(c, i).tok[1]
<1>1. ws \in Seq(Batches) /\ InOrder(ws, ReplayOf(c), C)
    BY ReplayFacts DEF Base
<1>2. p \in Saved /\ Untwinned(store[c].next)
    <2>1. p \in Saved
        BY ReadFacts DEF Base
    <2>2. QED
        BY <2>1 DEF OnceInv, PutOK
<1>3. ASSUME NEW i \in C
      PROVE /\ i \in DOMAIN store[c].next /\ i \in Int /\ <<c, DoneWrite(c, i)>> \in Written
            /\ DoneWrite(c, i).kind = "done" /\ DoneWrite(c, i).id = store[c].next[i].id
            /\ Past(tok(i), execs, turns) /\ Unapplied(store[c].st.log, tok(i))
            /\ ReplayOf(c)[i].tok = DoneWrite(c, i).tok
    <2>1. i \in PlanIdx(c) /\ Completed(c, i) /\ i \in DOMAIN store[c].next
        BY DEF CompletedIdx, PlanIdx
    <2>2. DoneWrite(c, i) \in store[c].w /\ DoneWrite(c, i).kind = "done" /\ DoneWrite(c, i).id = store[c].next[i].id
        BY <2>1, DoneFacts DEF Base
    <2>3. <<c, DoneWrite(c, i)>> \in Written
        BY <2>2, ReadFacts DEF Base
    <2>4. ReplayOf(c)[i].tok = DoneWrite(c, i).tok
        BY <2>1 DEF ReplayOf, Write
    <2>5. i \in Int
        BY <2>1, PlanFacts DEF Base
    <2> HIDE DEF DoneWrite
    <2>6. WriteOK(<<c, DoneWrite(c, i)>>, Saved, Written, execs, turns)
        BY <2>3 DEF OnceInv
    <2>7. Planned(p, <<c, DoneWrite(c, i)>>)
        BY <2>1, <2>2 DEF Planned
    <2>8. Past(tok(i), execs, turns) /\ Unapplied(store[c].st.log, tok(i))
        BY <1>2, <2>2, <2>6, <2>7 DEF WriteOK
    <2>9. QED
        BY <2>1, <2>2, <2>3, <2>4, <2>5, <2>8
<1>4. ASSUME NEW i \in C, NEW k \in C, SameExec(tok(i), tok(k)) PROVE i = k
    <2>1. WriteOK(<<c, DoneWrite(c, k)>>, Saved, Written, execs, turns) /\ <<c, DoneWrite(c, i)>> \in Written
        BY <1>3 DEF OnceInv
    <2>2. OneIdentity(<<c, DoneWrite(c, i)>>, <<c, DoneWrite(c, k)>>)
        BY <1>3, <2>1 DEF WriteOK
    <2>3. DoneWrite(c, i).id = DoneWrite(c, k).id
        BY <1>3, <1>4, <2>2 DEF OneIdentity
    <2>4. store[c].next[i].id = store[c].next[k].id
        BY <1>3, <2>3
    <2>5. /\ i \in PlanIdx(c) /\ k \in PlanIdx(c)
        BY <1>3 DEF PlanIdx
    <2>6. /\ store[c].next[i].node \in Nodes
          /\ store[c].next[i].node = store[c].next[k].node /\ store[c].next[i].arg = store[c].next[k].arg
        BY <2>4, <2>5, PlanFacts DEF Base
    <2>7. END \notin Nodes
        BY Shape DEF Base, Saver, GraphShape
    <2>8. QED
        BY <1>2, <1>3, <2>6, <2>7 DEF Untwinned
<1>5. PICK m \in [DOMAIN ws -> C] : /\ \A k \in DOMAIN ws : ws[k] = ReplayOf(c)[m[k]]
                                    /\ \A j, k \in DOMAIN ws : j < k => m[j] < m[k]
    BY <1>1 DEF InOrder
<1>6. \A k \in DOMAIN ws : k \in Int
    <2> HIDE DEF ws, Batches
    <2>1. QED
        BY <1>1
<1> HIDE DEF C, ws, tok
<1>7. \A k \in DOMAIN ws : TokensOf(ws)[k] = tok(m[k]) /\ m[k] \in C
    BY <1>3, <1>5 DEF TokensOf, tok
<1>8. DOMAIN TokensOf(ws) = DOMAIN ws
    BY DEF TokensOf
<1>9. \A k \in DOMAIN ws : Past(TokensOf(ws)[k], execs, turns) /\ Unapplied(store[c].st.log, TokensOf(ws)[k])
    BY <1>3, <1>7
<1>10. ASSUME NEW h \in DOMAIN ws, NEW k \in DOMAIN ws, SameExec(TokensOf(ws)[h], TokensOf(ws)[k]) PROVE h = k
    <2>1. m[h] = m[k]
        BY <1>4, <1>7, <1>10
    <2>2. m[h] \in Int
        BY <1>3, <1>7
    <2>3. QED
        BY <1>5, <1>6, <1>10, <2>1, <2>2
<1>11. QED
    BY <1>8, <1>9, <1>10 DEF FreshWork, ws

LEMMA OnceResume ==
    ASSUME Base, OnceInv, NEW c \in DOMAIN store, NEW a \in SUBSET AskIds(c), Resume(c, a)
    PROVE OnceInv'
<1> DEFINE s == store[c].st
           ws == ReplayWrites(c)
<1>1. Saved' = Saved /\ Written' = Written
    BY BaseResume
<1>2. /\ phase' = "loop" /\ execs' = execs /\ turns' = turns
      /\ st' = IF ws = <<>> THEN s ELSE applyWrites(s, ws)
    BY DEF Resume, Begin
<1>3. s \in States /\ ws \in Seq(Batches) /\ graph \in Graphs /\ <<c, s, store[c].next>> \in Saved
    BY ReadFacts, ReplayFacts DEF Base, Saver
<1>4. Sound(s.log, execs, turns)
    BY <1>3 DEF OnceInv, PutOK
<1>5. FreshWork(s.log, TokensOf(ws), execs, turns)
    BY ReplayFresh
<1> HIDE DEF s, ws
<1>6. Sound(applyWrites(s, ws).log, execs, turns)
    BY <1>3, <1>4, <1>5, ApplyFacts, AppliedSound
<1>7. Sound(st'.log, execs', turns')
    BY <1>2, <1>4, <1>6
<1>8. QED
    BY <1>1, <1>2, <1>7 DEF OnceInv

LEMMA OnceStarts ==
    ASSUME Base, OnceInv, NoTwins', Starts PROVE OnceInv'
<1>1. ASSUME NEW c \in Loadable, InvokeNewTurn(c) PROVE OnceInv'
    <2>1. c \in DOMAIN store /\ Saver
        BY LoadableStored DEF Base
    <2>2. /\ store[c].st \in States /\ store[c].st.step \in -1 .. c - 2 /\ c \in 1 .. lastId
          /\ <<c, store[c].st, store[c].next>> \in Saved
        BY <2>1, ReadFacts
    <2>3. lastId \in Nat
        BY Shape DEF Base, Saver, GraphShape
    <2>4. store[c].st.step \in -1 .. lastId - 1
        BY <2>2, <2>3
    <2>5. Sound(store[c].st.log, execs, turns)
        BY <2>2 DEF OnceInv, PutOK
    <2>6. QED
        BY <1>1, <2>2, <2>4, <2>5, OnceInvoke DEF InvokeNewTurn
<1>2. ASSUME InvokeFresh PROVE OnceInv'
    <2>1. graph \in Graphs /\ lastId \in Nat
        BY Shape DEF Base, Saver, GraphShape
    <2>2. EmptyState \in States /\ EmptyState.step = -1 /\ EmptyState.log = <<>>
        BY <2>1, EmptyStateType DEF EmptyState
    <2>3. EmptyState.step \in -1 .. lastId - 1
        BY <2>1, <2>2
    <2>4. Sound(EmptyState.log, execs, turns)
        BY <2>2 DEF Sound
    <2>5. QED
        BY <1>2, <2>2, <2>3, <2>4, OnceInvoke DEF InvokeFresh
<1>3. ASSUME NEW c \in Loadable, NEW a \in SUBSET AskIds(c), Resume(c, a) PROVE OnceInv'
    BY <1>3, LoadableStored, OnceResume DEF Base
<1>4. QED
    BY <1>1, <1>2, <1>3 DEF Starts

\* What reserved writes are not.
LEMMA NotDone ==
    ASSUME NEW id, NEW q
    PROVE /\ Reserved(id, "err", q).kind # "done" /\ Reserved(id, "ask", q).kind # "done"
          /\ Reserved(id, "before", q).kind # "done"
BY DEF Reserved, Pending

LEMMA OncePauseBefore ==
    ASSUME Base, OnceInv, NoTwins, PauseBefore PROVE OnceInv'
<1> DEFINE next == StampDispatchIDs(tasks, cur, st.step + 1)
<1>1. PICK n \in Nodes : CheckpointSaved(st, next, <<Reserved(BoundaryId(n), "before", <<>>)>>)
    BY PauseBeforeFacts
<1>2. phase = "loop" /\ phase' = "flush" /\ st' = st /\ execs' = execs /\ turns' = turns
    BY DEF PauseBefore, AtHead, Stop, historyVars
<1>3. /\ graph \in Graphs /\ cur \in 1 .. MaxIds /\ st.step + 1 \in 0 .. MaxIds /\ tasks \in Seq(TaskRecs)
    BY <1>2, CurFacts DEF Base
<1>4. Untwinned(next)
    BY <1>3, StampedUntwinned DEF NoTwins
<1>5. \A r \in Elements(<<Reserved(BoundaryId(n), "before", <<>>)>>) : r.kind # "done"
    BY DEF Elements, Reserved, Pending
<1> HIDE DEF next
<1>6. SavesOnce(st, next, <<Reserved(BoundaryId(n), "before", <<>>)>>, execs', turns')
    BY <1>2, <1>4, <1>5 DEF SavesOnce, OnceInv
<1>7. QED
    BY <1>1, <1>2, <1>6, CountsStay, OnceSaved

LEMMA OnceDispatch ==
    ASSUME Base, OnceInv, Dispatch PROVE OnceInv'
<1>1. /\ st' = st /\ execs' = execs /\ turns' = turns
      /\ outs' = [i \in DOMAIN Active(tasks) |-> IF Active(tasks)[i].handler THEN HandlerRuns ELSE Undecided]
    BY DEF Dispatch, AtHead, PastBreakpoints, historyVars
<1>2. Saved' = Saved /\ Written' = Written
    BY BaseDispatch
<1>3. \A i \in DOMAIN outs' : outs'[i].s # "done"
    BY <1>1 DEF HandlerRuns, Undecided, Outcome
<1>4. \A i \in DOMAIN outs' : OutOnce(i, outs', st'.log, execs', turns')
    BY <1>3 DEF OutOnce
<1>5. QED
    BY <1>1, <1>2, <1>4 DEF OnceInv

\* An execution is counted before anything is known of it.
LEMMA OnceTask ==
    ASSUME Base, OnceInv, TaskStep PROVE OnceInv'
<1>1. PICK i \in DOMAIN outs : \E out \in Outs : Progress(i, out)
    BY ProgressFacts
<1>2. PICK out \in Outs : Progress(i, out)
    BY <1>1
<1> DEFINE n == tasks[i].node
<1>3. /\ phase = "tasks" /\ outs' = [outs EXCEPT ![i] = out] /\ UNCHANGED <<phase, st, tasks, turns>>
      /\ execs' = execs \/ execs' = [execs EXCEPT ![n] = @ + 1]
      /\ out.s = "done" => out.tok[1].k = execs[n] + 1 /\ execs' = [execs EXCEPT ![n] = @ + 1] /\ Work(n, out.tok)
      /\ outs[i].s # "done"
    BY <1>2 DEF Progress, OutOK, WorkOf
<1>4. execs \in [Nodes -> Nat] /\ turns \in Nat /\ n \in Nodes /\ n # END
    BY <1>3, OutFacts, Shape DEF Base, Run, Saver, GraphShape
<1> HIDE DEF n
<1>5. Grows(execs, turns, execs', turns')
    BY <1>3, <1>4 DEF Grows
<1>6. /\ \A p \in Saved : PutOK(p, execs', turns')
      /\ \A w \in Written : WriteOK(w, Saved, Written, execs', turns')
      /\ Sound(st.log, execs', turns')
    BY <1>5, OnceOld
<1>7. Saved' = Saved /\ Written \subseteq Written' /\ \A w \in Written' : w \in Written \/ w[2].kind # "done"
    <2>1. \A id : Reserved(id, "err", <<>>).kind # "done"
        BY NotDone
    <2> HIDE DEF Reserved
    <2>2. QED
        BY <1>2, <2>1, ProgressWrites
<1>8. \A w \in Written' : WriteOK(w, Saved', Written', execs', turns')
    BY <1>6, <1>7 DEF WriteOK, OneIdentity
<1>9. \A k \in DOMAIN outs : outs[k].s = "done" => outs[k].tok[1] \in Tokens
    <2> SUFFICES ASSUME NEW k \in DOMAIN outs, outs[k].s = "done" PROVE outs[k].tok[1] \in Tokens
        OBVIOUS
    <2>1. outs[k].tok \in Seq(Tokens) /\ Work(tasks[k].node, outs[k].tok)
        BY <1>3, OutFacts DEF OutOK, WorkOf
    <2>2. Len(outs[k].tok) = 1
        BY <2>1 DEF Work
    <2> HIDE DEF Tokens
    <2>3. QED
        BY <2>1, <2>2
<1>10. \A j \in DOMAIN st.log : st.log[j] \in Tokens
    <2>1. st.log \in Seq(Tokens)
        BY DEF Base, Run, States
    <2> HIDE DEF Tokens
    <2>2. QED
        BY <2>1
<1>11. \A t \in Tokens : Past(t, execs, turns) /\ out.s = "done" => ~SameExec(t, out.tok[1])
    <2> SUFFICES ASSUME NEW t \in Tokens, Past(t, execs, turns), out.s = "done", SameExec(t, out.tok[1]) PROVE FALSE
        OBVIOUS
    <2>1. t.n = n /\ t.k = execs[n] + 1 /\ t.k \in Nat /\ execs[n] \in Nat
        BY <1>3, <1>4 DEF SameExec, Work, Tokens
    <2>2. t.k <= execs[n]
        BY <1>4, <2>1 DEF Past
    <2>3. QED
        BY <2>1, <2>2
<1>12. ASSUME NEW k \in DOMAIN outs' PROVE OutOnce(k, outs', st'.log, execs', turns')
    <2>1. DOMAIN outs' = DOMAIN outs /\ outs'[i] = out /\ \A h \in DOMAIN outs : h # i => outs'[h] = outs[h]
        BY <1>3
    <2>2. \A h \in DOMAIN outs : OutOnce(h, outs, st.log, execs, turns)
        BY <1>3 DEF OnceInv
    <2> SUFFICES ASSUME outs'[k].s = "done"
                 PROVE /\ Past(outs'[k].tok[1], execs', turns') /\ Unapplied(st'.log, outs'[k].tok[1])
                       /\ \A h \in DOMAIN outs' : outs'[h].s = "done" /\ SameExec(outs'[h].tok[1], outs'[k].tok[1]) => h = k
        BY DEF OutOnce
    <2>3. CASE k = i
        <3>1. outs'[k] = out /\ out.s = "done"
            BY <2>1, <2>3
        <3>2. Past(out.tok[1], execs', turns')
            <4>1. out.tok[1].n = n /\ out.tok[1].k = execs[n] + 1 /\ execs'[n] = execs[n] + 1
                BY <1>3, <1>4, <3>1 DEF Work
            <4>2. QED
                BY <1>4, <4>1 DEF Past
        <3>3. Unapplied(st'.log, out.tok[1])
            BY <1>3, <1>10, <1>11, <3>1 DEF Unapplied, OnceInv, Sound
        <3>4. ASSUME NEW h \in DOMAIN outs', outs'[h].s = "done", SameExec(outs'[h].tok[1], out.tok[1]) PROVE h = i
            <4> SUFFICES ASSUME h # i PROVE FALSE
                OBVIOUS
            <4>1. outs'[h] = outs[h] /\ h \in DOMAIN outs
                BY <2>1
            <4>2. Past(outs[h].tok[1], execs, turns) /\ outs[h].tok[1] \in Tokens
                BY <1>9, <2>2, <3>4, <4>1 DEF OutOnce
            <4>3. QED
                BY <1>11, <3>1, <3>4, <4>1, <4>2
        <3>5. QED
            BY <2>3, <3>1, <3>2, <3>3, <3>4
    <2>4. CASE k # i
        <3>1. outs'[k] = outs[k] /\ k \in DOMAIN outs /\ outs[k].s = "done"
            BY <2>1, <2>4
        <3>2. /\ Past(outs[k].tok[1], execs, turns) /\ Unapplied(st.log, outs[k].tok[1])
              /\ outs[k].tok[1] \in Tokens
            BY <1>9, <2>2, <3>1 DEF OutOnce
        <3>3. Past(outs[k].tok[1], execs', turns')
            BY <1>5, <3>2, PastGrows
        <3>4. ASSUME NEW h \in DOMAIN outs', outs'[h].s = "done", SameExec(outs'[h].tok[1], outs'[k].tok[1]) PROVE h = k
            <4>1. CASE h = i
                <5>1. SameExec(outs[k].tok[1], out.tok[1]) /\ out.s = "done"
                    BY <2>1, <3>1, <3>4, <4>1 DEF SameExec
                <5>2. QED
                    BY <1>11, <3>2, <5>1
            <4>2. CASE h # i
                BY <2>1, <2>2, <3>1, <3>4, <4>2 DEF OutOnce
            <4>3. QED
                BY <4>1, <4>2
        <3>5. QED
            BY <1>3, <3>1, <3>2, <3>3, <3>4
    <2>5. QED
        BY <2>3, <2>4
<1>13. QED
    BY <1>3, <1>6, <1>7, <1>8, <1>12 DEF OnceInv

LEMMA DispatchedUntwinned ==
    ASSUME NoTwins, NEW next, Dispatched(next) PROVE Untwinned(next)
<1>1. DOMAIN next = DOMAIN tasks /\ \A i \in DOMAIN tasks : next[i].node = tasks[i].node /\ next[i].arg = tasks[i].arg
    BY DEF Dispatched
<1>2. QED
    BY <1>1 DEF NoTwins, Untwinned

LEMMA OnceAbort ==
    ASSUME Base, OnceInv, NoTwins, Abort PROVE OnceInv'
<1>1. phase = "tasks" /\ phase' = "flush" /\ st' = st /\ execs' = execs /\ turns' = turns
    BY AbortEffect DEF Abort, Stop, historyVars
<1>2. CASE UNCHANGED <<graph, store, lastId, io, cur>>
    <2>1. Saved' = Saved /\ Written' = Written
        BY <1>2 DEF Saved, Written, PutsOf, WritesOf, StoredPuts, StoredWrites, NewPuts, NewWrites
    <2>2. QED
        BY <1>1, <2>1, OnceQuiet
<1>3. ASSUME NEW next, NEW ws, AbortSaves(next, ws) PROVE OnceInv'
    <2>1. CheckpointSaved(st, next, ws) /\ Dispatched(next) /\ Untwinned(next)
        BY <1>3, DispatchedUntwinned DEF AbortSaves
    <2>2. \A r \in Elements(ws) : r.kind # "done"
        BY <1>3 DEF AbortSaves, Reserved, Pending
    <2>3. SavesOnce(st, next, ws, execs', turns')
        BY <1>1, <2>1, <2>2 DEF SavesOnce, OnceInv
    <2>4. QED
        BY <1>1, <2>1, <2>3, CountsStay, OnceSaved
<1>4. QED
    BY <1>2, <1>3, AbortEffect

\* The work of completed tasks, written for a resume from a checkpoint whose
\* state is the one the superstep began in.
LEMMA OncePauseInNode ==
    ASSUME Base, OnceInv, NoTwins, PauseInNode PROVE OnceInv'
<1>1. phase = "tasks" /\ phase' = "flush" /\ st' = st /\ execs' = execs /\ turns' = turns
    BY PauseEffect DEF PauseInNode, Stop, historyVars
<1>2. PICK next, ws : PauseSaves(next, ws)
    BY PauseEffect
<1>3. CheckpointSaved(st, next, ws) /\ Dispatched(next) /\ Untwinned(next)
    BY <1>2, DispatchedUntwinned DEF PauseSaves
<1>4. ASSUME NEW r \in Elements(ws), r.kind = "done"
      PROVE \E i \in DOMAIN outs : outs[i].s = "done" /\ r.id = next[i].id /\ r.tok = outs[i].tok
    <2>1. PICK i \in DOMAIN outs : \/ r = Reserved(next[i].id, "err", <<>>)
                                   \/ r = Reserved(next[i].id, "ask", outs[i].pre)
                                   \/ r = CompletedWrites(i, next[i].id) /\ outs[i].s = "done"
        BY <1>2 DEF PauseSaves, Paused
    <2>2. r = CompletedWrites(i, next[i].id) /\ outs[i].s = "done"
        BY <1>4, <2>1 DEF Reserved, Pending
    <2>3. QED
        BY <2>2 DEF CompletedWrites, Pending
<1>5. \A i \in DOMAIN outs : OutOnce(i, outs, st.log, execs, turns)
    BY <1>1 DEF OnceInv
<1>6. ASSUME NEW r \in Elements(ws), r.kind = "done"
      PROVE /\ Past(r.tok[1], execs', turns') /\ Unapplied(st.log, r.tok[1])
            /\ \A q \in Elements(ws) : q.kind = "done" /\ SameExec(q.tok[1], r.tok[1]) => q.id = r.id
    <2>1. PICK i \in DOMAIN outs : outs[i].s = "done" /\ r.id = next[i].id /\ r.tok = outs[i].tok
        BY <1>4, <1>6
    <2>2. OutOnce(i, outs, st.log, execs, turns)
        BY <1>5
    <2>3. ASSUME NEW q \in Elements(ws), q.kind = "done", SameExec(q.tok[1], r.tok[1]) PROVE q.id = r.id
        <3>1. PICK k \in DOMAIN outs : outs[k].s = "done" /\ q.id = next[k].id /\ q.tok = outs[k].tok
            BY <1>4, <2>3
        <3>2. k = i
            BY <2>1, <2>2, <2>3, <3>1 DEF OutOnce
        <3>3. QED
            BY <2>1, <3>1, <3>2
    <2>4. QED
        BY <1>1, <2>1, <2>2, <2>3 DEF OutOnce
<1>7. SavesOnce(st, next, ws, execs', turns')
    BY <1>1, <1>3, <1>6 DEF SavesOnce, OnceInv
<1>8. QED
    BY <1>1, <1>3, <1>7, CountsStay, OnceSaved

\* The tasks a commit plans have no identity yet, and their nodes run.
LEMMA NextAnonymous ==
    ASSUME Base, phase = "tasks" PROVE \A i \in DOMAIN NextTasks : NextTasks[i].id = NoId /\ ~NextTasks[i].handler
<1>1. RoutedTasks \in Seq(TaskRecs) /\ TriggeredTasks(Committed) \in Seq(TaskRecs)
      /\ NextTasks = RoutedTasks \o TriggeredTasks(Committed)
    BY RoutedFacts, TriggeredFacts, NextFacts DEF Base, Saver
<1>2. \A d : NewTask(d).id = NoId /\ ~NewTask(d).handler
    BY DEF NewTask
<1> HIDE DEF NewTask, NoId, TaskRecs
<1>3. \A t \in Elements(RoutedTasks) : t.id = NoId /\ ~t.handler
    BY <1>2, RoutedFacts
<1>4. \A t \in Elements(TriggeredTasks(Committed)) : t.id = NoId /\ ~t.handler
    <2>1. Elements(TriggeredTasks(Committed)) = {NewTask(To(Joins[j].child)) : j \in Triggered(Committed)}
        BY TriggeredFacts DEF Base, Saver
    <2>2. QED
        BY <1>2, <2>1
<1> HIDE DEF RoutedTasks, TriggeredTasks, NextTasks, Committed
<1>5. Elements(NextTasks) = Elements(RoutedTasks) \cup Elements(TriggeredTasks(Committed))
    BY <1>1, ConcatElements
<1>6. QED
    BY <1>3, <1>4, <1>5 DEF Elements

\* What a commit applies is new to the state.
LEMMA CommitFresh ==
    ASSUME Base, OnceInv, phase = "tasks", AllDone
    PROVE FreshWork(st.log, TokensOf(CommitBatches), execs, turns)
<1>1. DOMAIN TokensOf(CommitBatches) = DOMAIN outs /\ \A i \in DOMAIN outs : TokensOf(CommitBatches)[i] = outs[i].tok[1]
    BY DEF TokensOf, CommitBatches, Write
<1>2. \A i \in DOMAIN outs : outs[i].s = "done" /\ OutOnce(i, outs, st.log, execs, turns)
    BY DEF AllDone, OnceInv
<1>3. QED
    BY <1>1, <1>2 DEF FreshWork, OutOnce

\* What has run is not planned again under the identity its work is kept under.
LEMMA CommitNames ==
    ASSUME Base, NothingRepeats, AllOut, NEW s, NEW next, NEW ws, CommitSaves(s, next, ws), NEW i \in DOMAIN outs
    PROVE \A k \in DOMAIN next : next[k].id # TaskID(lastId + 1, s.step + 1, tasks[i])
<1> DEFINE n == s.step + 1
           new == lastId + 1
           a == Active(NextTasks)
<1>1. /\ phase = "tasks" /\ AllDone /\ NextTasks \in Seq(TaskRecs)
      /\ \/ next = StampDispatchIDs(NextTasks, cur, n)
         \/ next = StampNew(NextTasks, new, n)
    BY DEF CommitSaves
<1>2. cur \in 1 .. lastId /\ lastId \in Nat /\ cur # new
    <2>1. cur \in 1 .. lastId /\ lastId \in Nat
        BY <1>1, CurFacts DEF Base
    <2>2. QED
        BY <2>1
<1>3. i \in DOMAIN tasks
    BY <1>1, OutFacts
<1>4. ASSUME NEW k \in DOMAIN a PROVE \E h \in DOMAIN NextTasks : a[k] = NextTasks[h]
    <2> HIDE DEF TaskRecs, NextTasks, a
    <2>1. Elements(a) = {NextTasks[h] : h \in {j \in DOMAIN NextTasks : NextTasks[j].node # END}}
        BY <1>1, ActiveFacts DEF a
    <2>2. a[k] \in Elements(a)
        BY DEF Elements
    <2>3. QED
        BY <2>1, <2>2
<1>5. ASSUME NEW k \in DOMAIN a PROVE a[k].id = NoId /\ ~(a[k].node = tasks[i].node /\ a[k].arg = tasks[i].arg)
    <2>1. PICK h \in DOMAIN NextTasks : a[k] = NextTasks[h]
        BY <1>4
    <2>2. NextTasks[h].id = NoId
        BY <1>1, NextAnonymous
    <2>3. ~(NextTasks[h].node = tasks[i].node /\ NextTasks[h].arg = tasks[i].arg)
        BY <1>1, <1>3 DEF NothingRepeats
    <2>4. QED
        BY <2>1, <2>2, <2>3
<1>6. CASE next = StampDispatchIDs(NextTasks, cur, n)
    <2>1. DOMAIN next = DOMAIN a /\ \A k \in DOMAIN a : next[k].id = TaskID(cur, n, a[k])
        BY <1>5, <1>6 DEF StampDispatchIDs, plannedID
    <2>2. \A k \in DOMAIN a : TaskID(cur, n, a[k]).cp = cur /\ TaskID(new, n, tasks[i]).cp = new
        BY DEF TaskID
    <2> HIDE DEF a, n, new
    <2>3. QED
        BY <1>2, <2>1, <2>2 DEF n, new
<1>7. CASE next = StampNew(NextTasks, new, n)
    <2>1. DOMAIN next = DOMAIN a /\ \A k \in DOMAIN a : next[k].id = TaskID(new, n, a[k])
        BY <1>7 DEF StampNew
    <2>2. \A k \in DOMAIN a : TaskID(new, n, a[k]).node = a[k].node /\ TaskID(new, n, a[k]).arg = a[k].arg
        BY DEF TaskID
    <2>3. TaskID(new, n, tasks[i]).node = tasks[i].node /\ TaskID(new, n, tasks[i]).arg = tasks[i].arg
        BY DEF TaskID
    <2> HIDE DEF a, TaskID
    <2>4. QED
        BY <1>5, <2>1, <2>2, <2>3
<1>8. QED
    BY <1>1, <1>6, <1>7

\* A commit folds the work in, and keeps it under identities its plan does not name.
LEMMA OnceCommit ==
    ASSUME Base, OnceInv, NoTwins', NothingRepeats, Commit PROVE OnceInv'
<1>1. PICK s, next, ws : CommitSaves(s, next, ws)
    BY CommitEffect
<1>2. /\ phase = "tasks" /\ AllDone /\ Commits(applyWrites(st, CommitBatches), s) /\ CheckpointSaved(s, next, ws)
      /\ s.step + 1 \in 0 .. MaxIds /\ st' = s /\ tasks' = NextTasks /\ NextTasks \in Seq(TaskRecs)
      /\ phase' # "tasks" /\ execs' = execs /\ turns' = turns
      /\ \/ next = StampDispatchIDs(NextTasks, cur, s.step + 1)
         \/ next = StampNew(NextTasks, lastId + 1, s.step + 1)
    BY <1>1 DEF CommitSaves
<1>3. /\ graph \in Graphs /\ st \in States /\ CommitBatches \in Seq(Batches) /\ Sound(st.log, execs, turns)
      /\ FreshWork(st.log, TokensOf(CommitBatches), execs, turns)
    BY <1>2, BatchFacts, CommitFresh DEF Base, Saver, Run, OnceInv
<1>4. Applied(st, CommitBatches, applyWrites(st, CommitBatches)) /\ s.log = applyWrites(st, CommitBatches).log
    BY <1>2 DEF Commits
<1>5. Sound(s.log, execs, turns)
    BY <1>3, <1>4, AppliedSound
<1>6. cur \in 1 .. MaxIds /\ lastId + 1 \in 1 .. MaxIds
    BY <1>2, CurFacts DEF Base, CheckpointSaved
<1>7. Untwinned(next)
    <2> HIDE DEF NextTasks
    <2>1. Untwinned(NextTasks)
        BY <1>2 DEF NoTwins
    <2>2. QED
        BY <1>2, <1>3, <1>6, <2>1, StampedUntwinned
<1>8. AllOut
    BY DEF Commit
<1> DEFINE id(i) == TaskID(lastId + 1, s.step + 1, tasks[i])
<1>9. ASSUME NEW r \in Elements(ws), r.kind = "done"
      PROVE \E i \in DOMAIN outs : r.id = id(i) /\ r.tok = outs[i].tok
    <2>1. PICK i \in DOMAIN outs : r = CompletedWrites(i, id(i))
        BY <1>1, <1>9 DEF CommitSaves
    <2>2. QED
        BY <2>1 DEF CompletedWrites, Pending
<1>10. \A i \in DOMAIN outs : OutOnce(i, outs, st.log, execs, turns) /\ outs[i].s = "done"
    BY <1>2 DEF OnceInv, AllDone
<1>11. \A i \in DOMAIN outs : \A k \in DOMAIN next : next[k].id # id(i)
    BY <1>1, <1>8, CommitNames
<1> HIDE DEF id
<1>12. ASSUME NEW r \in Elements(ws), r.kind = "done"
       PROVE /\ Past(r.tok[1], execs, turns)
             /\ ~(\E k \in DOMAIN next : next[k].id = r.id)
             /\ \A q \in Elements(ws) : q.kind = "done" /\ SameExec(q.tok[1], r.tok[1]) => q.id = r.id
    <2>1. PICK i \in DOMAIN outs : r.id = id(i) /\ r.tok = outs[i].tok
        BY <1>9, <1>12
    <2>2. ASSUME NEW q \in Elements(ws), q.kind = "done", SameExec(q.tok[1], r.tok[1]) PROVE q.id = r.id
        <3>1. PICK k \in DOMAIN outs : q.id = id(k) /\ q.tok = outs[k].tok
            BY <1>9, <2>2
        <3>2. k = i
            BY <1>10, <2>1, <2>2, <3>1 DEF OutOnce
        <3>3. QED
            BY <2>1, <3>1, <3>2
    <2>3. QED
        BY <1>10, <1>11, <2>1, <2>2 DEF OutOnce
<1>13. SavesOnce(s, next, ws, execs', turns')
    BY <1>2, <1>5, <1>7, <1>12 DEF SavesOnce
<1>14. QED
    BY <1>2, <1>13, CountsStay, OnceSaved

LEMMA OnceStep ==
    ASSUME Base, OnceInv, NoTwins, NoTwins', NothingRepeats, [Next]_vars PROVE OnceInv'
<1>1. CASE StopsHere
    <2>1. phase' = "flush" /\ st' = st /\ execs' = execs /\ turns' = turns
        BY <1>1 DEF StopsHere, Finish, Drained, RecursionError, Cancel, Stop, historyVars
    <2>2. QED
        BY <1>1, <2>1, BaseStopsHere, OnceQuiet
<1>2. CASE SaverStep
    <2>1. UNCHANGED <<phase, st, outs, execs, turns>>
        BY <1>2 DEF SaverStep, historyVars
    <2>2. Saved' \subseteq Saved /\ Written' \subseteq Written
        BY <1>2, BaseSaver DEF SaverExecutes
    <2>3. QED
        BY <2>1, <2>2, OnceQuiet
<1>3. CASE Ends
    <2>1. phase' = "idle" /\ st' = EmptyState /\ execs' = execs /\ turns' = turns
        BY <1>3 DEF Ends, Flush, Crash, Reset
    <2>2. st'.log = <<>>
        BY <2>1 DEF EmptyState
    <2>3. QED
        BY <1>3, <2>1, <2>2, BaseEnds, OnceQuiet
<1>4. CASE Idles
    <2>1. UNCHANGED <<phase, st, outs, execs, turns>>
        BY <1>4 DEF Idles, RequestDrain, vars, runVars, historyVars
    <2>2. QED
        BY <1>4, <2>1, BaseIdles, OnceQuiet
<1>5. QED
    BY <1>1, <1>2, <1>3, <1>4, Steps, OnceStarts, OncePauseBefore, OnceDispatch, OnceTask, OnceAbort,
       OncePauseInNode, OnceCommit

LEMMA OnceStart ==
    ASSUME Init PROVE OnceInv
<1>1. store = <<>> /\ io = <<>> /\ phase = "idle" /\ st.log = <<>>
    BY DEF Init, EmptyState
<1>2. Saved = {} /\ Written = {}
    BY <1>1 DEF Saved, Written, PutsOf, WritesOf, StoredPuts, StoredWrites, NewPuts, NewWrites
<1>3. QED
    BY <1>1, <1>2 DEF OnceInv, Sound

\* The work of one task reaches a state at most once, whatever pauses, commits,
\* crashes, drains and resumes lie between its execution and its commit, in the
\* behaviours where node and argument tell the tasks of a superstep, and of the
\* one that follows, apart: an identity names one execution there.
THEOREM WorkAppliedOnce == Spec /\ []NoTwins /\ []NothingRepeats => []AppliedOnce
<1>1. Base /\ OnceInv => AppliedOnce
    <2> SUFFICES ASSUME Base, OnceInv, NEW l \in Logs PROVE IsInjective(l)
        BY DEF AppliedOnce
    <2>1. Sound(l, execs, turns)
        <3>1. CASE l = st.log
            BY <3>1 DEF OnceInv
        <3>2. ASSUME NEW c \in DOMAIN store, l = store[c].st.log PROVE Sound(l, execs, turns)
            <4>1. <<c, store[c].st, store[c].next>> \in Saved
                BY ReadFacts DEF Base
            <4>2. QED
                BY <3>2, <4>1 DEF OnceInv, PutOK
        <3>3. QED
            BY <3>1, <3>2 DEF Logs
    <2>2. QED
        BY <2>1 DEF IsInjective, Sound, SameExec
<1>2. Init => OnceInv
    BY OnceStart
<1>3. Base /\ OnceInv /\ NoTwins /\ NoTwins' /\ NothingRepeats /\ [Next]_vars => OnceInv'
    BY OnceStep
<1>4. QED
    BY BaseAlways, <1>1, <1>2, <1>3, PTL DEF Spec
-----------------------------------------------------------------------------
(* ERROR writes.                                                            *)

\* The nodes that may fail and have an error handler; what the theorem asks of
\* a graph: such a node asks nothing, and no Command.Goto leads to it.
Recovered == Handled \cap Fails
Recovers(g) ==
    \A n \in g.handled \cap g.fails :
        g.asks[n] = 0 /\ \A m \in g.nodes : \A q \in g.goto[m] : \A k \in DOMAIN q : q[k].node # n

\* R are the nodes that recover, A how often nodes ask, W what is written.
Elsewhere(R, ds) == \A k \in DOMAIN ds : ds[k].node \notin R
Kept(R, A, r) ==
    /\ r.kind = "err" => r.id.node \in R
    /\ r.kind = "ask" => A[r.id.node] > 0
    /\ r.kind = "done" => Elsewhere(R, r.sends)
\* An ERROR write stands on checkpoint c under the identity id.
FailedAs(W, c, id) == \E w \in W : w[1] = c /\ w[2].kind = "err" /\ w[2].id = id
\* A task about to be dispatched from checkpoint c and state s, and one that has been.
Planning(R, W, c, s, t) ==
    /\ t.handler => t.node \in R
    /\ FailedAs(W, c, plannedID(t, c, s.step + 1)) => t.handler
Working(R, A, W, c, s, t, o) ==
    /\ o.s = "handler" \/ o.nodeErr => t.node \in R
    /\ o.s = "ask" => A[t.node] > 0
    /\ Elsewhere(R, o.sends)
    /\ FailedAs(W, c, plannedID(t, c, s.step + 1)) => o.s # "run"
ErrInv ==
    /\ \A w \in Written : Kept(Recovered, Asks, w[2])
    /\ phase = "loop" => \A i \in DOMAIN tasks : Planning(Recovered, Written, cur, st, tasks[i])
    /\ phase = "tasks" => \A i \in DOMAIN outs : Working(Recovered, Asks, Written, cur, st, tasks[i], outs[i])

LEMMA RecoveredFixed ==
    ASSUME graph' = graph PROVE Asks' = Asks /\ Recovered' = Recovered
BY GraphFixed DEF SameGraph, Recovered

\* The run ends, or stands where it is.
LEMMA ErrQuiet ==
    ASSUME ErrInv, graph' = graph, Written' \subseteq Written,
           phase' \in {"loop", "tasks"} => UNCHANGED <<phase, tasks, outs, cur, st>>
    PROVE ErrInv'
<1>1. Asks' = Asks /\ Recovered' = Recovered
    BY RecoveredFixed
<1>2. \A c, id : FailedAs(Written', c, id) => FailedAs(Written, c, id)
    BY DEF FailedAs
<1>3. \A w \in Written' : Kept(Recovered, Asks, w[2])
    BY DEF ErrInv
<1>4. ASSUME phase' = "loop", NEW i \in DOMAIN tasks PROVE Planning(Recovered, Written', cur, st, tasks[i])
    <2>1. Planning(Recovered, Written, cur, st, tasks[i])
        BY <1>4 DEF ErrInv
    <2>2. QED
        BY <1>2, <2>1 DEF Planning
<1>5. ASSUME phase' = "tasks", NEW i \in DOMAIN outs PROVE Working(Recovered, Asks, Written', cur, st, tasks[i], outs[i])
    <2>1. Working(Recovered, Asks, Written, cur, st, tasks[i], outs[i])
        BY <1>5 DEF ErrInv
    <2>2. QED
        BY <1>2, <2>1 DEF Working
<1>6. QED
    BY <1>1, <1>3, <1>4, <1>5 DEF ErrInv

\* A checkpoint is saved: the run ends on it, or goes on with tasks that have not run.
LEMMA ErrSaved ==
    ASSUME Base, ErrInv, NEW s, NEW next, NEW ws, CheckpointSaved(s, next, ws),
           \A r \in Elements(ws) : Kept(Recovered, Asks, r),
           \/ phase' = "flush"
           \/ /\ phase' = "loop" /\ \A r \in Elements(ws) : r.kind # "err"
              /\ \A i \in DOMAIN tasks' : ~tasks'[i].handler
    PROVE ErrInv'
<1>1. graph' = graph /\ cur' = lastId + 1 /\ Written' = Written \cup {<<lastId + 1, r>> : r \in Elements(ws)}
    BY DEF CheckpointSaved
<1>2. Asks' = Asks /\ Recovered' = Recovered
    BY <1>1, RecoveredFixed
<1>3. \A w \in Written : w[1] # lastId + 1
    <2>1. lastId \in Nat /\ \A w \in Written : w[1] \in 1 .. lastId
        BY Shape DEF Base, Saver, GraphShape
    <2>2. lastId + 1 \notin 1 .. lastId
        BY <2>1
    <2>3. QED
        BY <2>1, <2>2
<1>4. \A w \in Written' : Kept(Recovered, Asks, w[2])
    BY <1>1 DEF ErrInv
<1>5. ASSUME phase' = "loop", NEW i \in DOMAIN tasks' PROVE Planning(Recovered, Written', cur', st', tasks'[i])
    <2>1. ~tasks'[i].handler /\ \A r \in Elements(ws) : r.kind # "err"
        BY <1>5
    <2>2. \A id : ~FailedAs(Written', cur', id)
        BY <1>1, <1>3, <2>1 DEF FailedAs
    <2>3. QED
        BY <2>1, <2>2 DEF Planning
<1>6. phase' # "tasks"
    OBVIOUS
<1>7. QED
    BY <1>2, <1>4, <1>5, <1>6 DEF ErrInv

LEMMA ErrInvoke ==
    ASSUME Base, ErrInv, phase = "idle", NEW s \in States, s.step \in -1 .. lastId - 1, InvokeFrom(s)
    PROVE ErrInv'
<1>1. phase' = "loop" /\ tasks' = NewTasks(Entry)
    BY DEF InvokeFrom, Begin
<1>2. PICK s1, next : CheckpointSaved(s1, next, <<>>)
    BY InputSaved
<1>3. Elements(<<>>) = {}
    BY DEF Elements
<1>4. \A i \in DOMAIN tasks' : ~tasks'[i].handler
    BY <1>1 DEF NewTasks, NewTask
<1>5. QED
    BY <1>1, <1>2, <1>3, <1>4, ErrSaved

\* A resume finds the ERROR write of a task it restores, and restores no other
\* task under the identity of one.
LEMMA ErrResume ==
    ASSUME Base, ErrInv, Recovers(graph), NEW c \in DOMAIN store, NEW a \in SUBSET AskIds(c), Resume(c, a)
    PROVE ErrInv'
<1> DEFINE Good(t) == Planning(Recovered, Written, c, st', t)
<1>1. Written' = Written
    BY BaseResume
<1>2. /\ phase = "idle" /\ phase' = "loop" /\ cur' = c /\ graph' = graph /\ io = <<>>
      /\ tasks' = RestoredTasks(c) \o ReplaySends(c)
    BY DEF Resume, Begin, saverVars, Base, Run
<1>3. Saver /\ graph \in Graphs
    BY DEF Base, Saver
<1>4. RestoredTasks(c) \in Seq(TaskRecs) /\ ReplaySends(c) \in Seq(TaskRecs)
    BY <1>3, RestoreFacts, ReplaySendFacts
<1>5. Elements(tasks') = Elements(RestoredTasks(c)) \cup Elements(ReplaySends(c))
    <2> HIDE DEF TaskRecs, RestoredTasks, ReplaySends
    <2>1. QED
        BY <1>2, <1>4, ConcatElements
<1>6. \A r \in store[c].w : r \in WriteRecs /\ Kept(Recovered, Asks, r)
    <2>1. \A r \in store[c].w : <<c, r>> \in Written /\ r \in WriteRecs
        BY <1>3, ReadFacts
    <2>2. QED
        BY <2>1 DEF ErrInv
<1>7. \A w \in Written : w[1] = c => w[2] \in store[c].w
    <2>1. NewWrites(io) = {}
        BY <1>2 DEF NewWrites
    <2>2. Written = StoredWrites(store)
        BY <2>1 DEF Written, WritesOf
    <2>3. QED
        BY <2>2 DEF StoredWrites
<1>8. ASSUME NEW i \in OpenIdx(c) PROVE Good(RestoreOf(c)[i])
    <2>1. i \in PlanIdx(c) /\ ~Completed(c, i)
        BY DEF OpenIdx
    <2> DEFINE t == RestoreOf(c)[i]
               id == store[c].next[i].id
    <2>2. t.node = store[c].next[i].node /\ t.id = id /\ t.handler = FailedTask(c, i)
        BY <2>1 DEF RestoreOf
    <2>3. id \in RealIDs /\ id.node = t.node
        BY <1>3, <2>1, <2>2, PlanFacts
    <2>4. plannedID(t, c, st'.step + 1) = id
        BY <2>2, <2>3 DEF plannedID, RealIDs, NoId
    <2>5. ASSUME FailedTask(c, i) PROVE t.node \in Recovered
        <3>1. PICK r \in store[c].w : r.id = id /\ r.kind = "err"
            BY <2>5 DEF FailedTask, TaskWrites
        <3>2. QED
            BY <1>6, <2>3, <3>1 DEF Kept
    <2>6. ASSUME FailedAs(Written, c, id) PROVE FailedTask(c, i)
        <3>1. PICK r \in store[c].w : r.kind = "err" /\ r.id = id
            BY <1>7, <2>6 DEF FailedAs
        <3>2. r \in TaskWrites(c, i, "err") /\ id.node \in Recovered
            BY <1>6, <3>1 DEF TaskWrites, Kept
        <3>3. Asks[id.node] = 0
            BY <3>2 DEF Recovers, Recovered, Handled, Fails, Asks
        <3>4. ~Asked(c, i)
            <4> SUFFICES ASSUME NEW q \in TaskWrites(c, i, "ask") PROVE FALSE
                BY DEF Asked
            <4>1. q \in store[c].w /\ q.kind = "ask" /\ q.id = id
                BY DEF TaskWrites
            <4>2. Asks[id.node] > 0
                BY <1>6, <4>1 DEF Kept
            <4>3. QED
                BY <3>3, <4>2
        <3>5. QED
            BY <2>1, <3>2, <3>4 DEF FailedTask
    <2> HIDE DEF t, id
    <2>7. QED
        BY <2>2, <2>4, <2>5, <2>6 DEF t, Planning
<1>9. ASSUME NEW t \in Elements(ReplaySends(c)) PROVE Good(t)
    <2>0. PICK i \in CompletedIdx(c) : \E k \in DOMAIN DoneWrite(c, i).sends : t = NewTask(DoneWrite(c, i).sends[k])
        BY <1>3, ReplaySendFacts
    <2>1. PICK k \in DOMAIN DoneWrite(c, i).sends : t = NewTask(DoneWrite(c, i).sends[k])
        BY <2>0
    <2>2. DoneWrite(c, i) \in store[c].w /\ DoneWrite(c, i).kind = "done"
        BY <1>3, <2>1, DoneFacts DEF CompletedIdx
    <2>3. t.node \notin Recovered
        <3>1. Elsewhere(Recovered, DoneWrite(c, i).sends)
            BY <1>6, <2>2 DEF Kept
        <3>2. t.node = DoneWrite(c, i).sends[k].node
            BY <2>1 DEF NewTask
        <3>3. QED
            BY <2>1, <3>1, <3>2 DEF Elsewhere
    <2>4. ~t.handler /\ t.id = NoId
        BY <2>1 DEF NewTask
    <2>5. plannedID(t, c, st'.step + 1).node = t.node
        BY <2>4 DEF plannedID, TaskID
    <2>6. ~FailedAs(Written, c, plannedID(t, c, st'.step + 1))
        BY <1>6, <1>7, <2>3, <2>5 DEF FailedAs, Kept
    <2>7. QED
        BY <2>4, <2>6 DEF Planning
<1> HIDE DEF Good
<1>10. \A i \in DOMAIN tasks' : Good(tasks'[i])
    <2>1. \A t \in Elements(RestoredTasks(c)) : Good(t)
        <3>1. Elements(RestoredTasks(c)) = {RestoreOf(c)[i] : i \in OpenIdx(c)}
            BY <1>3, RestoreFacts
        <3>2. QED
            BY <1>8, <3>1
    <2>2. \A t \in Elements(tasks') : Good(t)
        BY <1>5, <1>9, <2>1
    <2>3. QED
        BY <2>2 DEF Elements
<1>11. Asks' = Asks /\ Recovered' = Recovered
    BY <1>2, RecoveredFixed
<1>12. QED
    BY <1>1, <1>2, <1>10, <1>11 DEF ErrInv, Good

LEMMA ErrStarts ==
    ASSUME Base, ErrInv, Recovers(graph), Starts PROVE ErrInv'
<1>1. ASSUME NEW c \in Loadable, InvokeNewTurn(c) PROVE ErrInv'
    <2>1. c \in DOMAIN store /\ Saver
        BY LoadableStored DEF Base
    <2>2. store[c].st \in States /\ store[c].st.step \in -1 .. c - 2 /\ c \in 1 .. lastId
        BY <2>1, ReadFacts
    <2>3. lastId \in Nat
        BY Shape DEF Base, Saver, GraphShape
    <2>4. store[c].st.step \in -1 .. lastId - 1
        BY <2>2, <2>3
    <2>5. QED
        BY <1>1, <2>2, <2>4, ErrInvoke DEF InvokeNewTurn
<1>2. ASSUME InvokeFresh PROVE ErrInv'
    <2>1. graph \in Graphs /\ lastId \in Nat
        BY Shape DEF Base, Saver, GraphShape
    <2>2. EmptyState \in States /\ EmptyState.step = -1
        BY <2>1, EmptyStateType DEF EmptyState
    <2>3. EmptyState.step \in -1 .. lastId - 1
        BY <2>1, <2>2
    <2>4. QED
        BY <1>2, <2>2, <2>3, ErrInvoke DEF InvokeFresh
<1>3. ASSUME NEW c \in Loadable, NEW a \in SUBSET AskIds(c), Resume(c, a) PROVE ErrInv'
    BY <1>3, LoadableStored, ErrResume DEF Base
<1>4. QED
    BY <1>1, <1>2, <1>3 DEF Starts

LEMMA ErrPauseBefore ==
    ASSUME Base, ErrInv, PauseBefore PROVE ErrInv'
<1>1. PICK n \in Nodes : CheckpointSaved(st, StampDispatchIDs(tasks, cur, st.step + 1),
                                         <<Reserved(BoundaryId(n), "before", <<>>)>>)
    BY PauseBeforeFacts
<1>2. phase' = "flush"
    BY DEF PauseBefore, Stop
<1>3. \A r \in Elements(<<Reserved(BoundaryId(n), "before", <<>>)>>) : Kept(Recovered, Asks, r)
    BY DEF Elements, Reserved, Pending, Kept
<1>4. QED
    BY <1>1, <1>2, <1>3, ErrSaved

LEMMA ErrDispatch ==
    ASSUME Base, ErrInv, Dispatch PROVE ErrInv'
<1>1. /\ phase = "loop" /\ phase' = "tasks" /\ tasks' = Active(tasks) /\ UNCHANGED <<graph, cur, st>>
      /\ outs' = [i \in DOMAIN Active(tasks) |-> IF Active(tasks)[i].handler THEN HandlerRuns ELSE Undecided]
    BY DEF Dispatch, PastBreakpoints, AtHead, saverVars
<1>2. Written' = Written /\ Asks' = Asks /\ Recovered' = Recovered
    BY <1>1, BaseDispatch, RecoveredFixed
<1>3. tasks \in Seq(TaskRecs)
    BY DEF Base, Run
<1>4. ASSUME NEW i \in DOMAIN outs' PROVE Working(Recovered, Asks, Written, cur, st, tasks'[i], outs'[i])
    <2> DEFINE t == tasks'[i]
    <2>1. Planning(Recovered, Written, cur, st, t)
        <3>1. t \in Elements(Active(tasks))
            BY <1>1 DEF Elements
        <3> HIDE DEF t, TaskRecs, Active
        <3>2. PICK k \in DOMAIN tasks : t = tasks[k]
            BY <1>3, <3>1, ActiveFacts
        <3>3. QED
            BY <1>1, <3>2 DEF ErrInv
    <2>2. outs'[i] = IF t.handler THEN HandlerRuns ELSE Undecided
        BY <1>1
    <2>3. /\ HandlerRuns.s = "handler" /\ HandlerRuns.sends = <<>>
          /\ Undecided.s = "run" /\ Undecided.sends = <<>> /\ Undecided.nodeErr = FALSE
        BY DEF HandlerRuns, Undecided, Outcome
    <2>4. Elsewhere(Recovered, <<>>)
        BY DEF Elsewhere
    <2> HIDE DEF t, HandlerRuns, Undecided
    <2>5. CASE t.handler
        BY <2>1, <2>2, <2>3, <2>4, <2>5 DEF Working, Planning, t
    <2>6. CASE ~t.handler
        BY <2>1, <2>2, <2>3, <2>4, <2>6 DEF Working, Planning, t
    <2>7. QED
        BY <2>5, <2>6
<1>5. QED
    BY <1>1, <1>2, <1>4 DEF ErrInv

\* A task that fails leaves its ERROR write, and its handler runs.
LEMMA ErrTask ==
    ASSUME Base, ErrInv, NoTwins, Recovers(graph), TaskStep PROVE ErrInv'
<1>1. PICK i \in DOMAIN outs, out \in Outs : Progress(i, out)
    BY ProgressFacts
<1>2. /\ phase = "tasks" /\ outs' = [outs EXCEPT ![i] = out] /\ UNCHANGED <<graph, phase, cur, st, tasks>>
      /\ outs[i].s \in {"run", "handler"} /\ out.s \in {"handler", "ask", "done", "err"}
      /\ out.s = "ask" => Asks[tasks[i].node] > 0
      /\ out.sends = <<>> \/ out.sends \in Goto[tasks[i].node]
      /\ out.s = "handler" => tasks[i].node \in Recovered
      /\ out.s # "handler" /\ out.nodeErr => outs[i].s = "handler"
    BY <1>1 DEF Progress, Recovered
<1>3. Asks' = Asks /\ Recovered' = Recovered
    BY <1>2, RecoveredFixed
<1>4. DOMAIN outs' = DOMAIN outs /\ outs'[i] = out /\ \A k \in DOMAIN outs : k # i => outs'[k] = outs[k]
    BY <1>2
<1> DEFINE id(k) == plannedID(tasks[k], cur, st.step + 1)
<1>5. \A k \in DOMAIN outs : /\ k \in DOMAIN tasks /\ tasks[k].node \in Nodes
                             /\ id(k).node = tasks[k].node /\ id(k).arg = tasks[k].arg
    <2> TAKE k \in DOMAIN outs
    <2>1. k \in DOMAIN tasks /\ tasks[k] \in TaskRecs /\ tasks[k].node \in Nodes
        BY <1>2, OutFacts
    <2>2. graph \in Graphs /\ cur \in 1 .. MaxIds /\ st.step + 1 \in 0 .. MaxIds
        BY <1>2, CurFacts DEF Base
    <2>3. QED
        BY <2>1, <2>2, PlannedIDFacts
<1> HIDE DEF id
<1>6. \A w \in Written' : \/ w \in Written
                          \/ out.s = "handler" /\ w = <<cur, Reserved(id(i), "err", <<>>)>>
    BY <1>1, ProgressWrites DEF id
<1>7. Reserved(id(i), "err", <<>>).id = id(i) /\ Reserved(id(i), "err", <<>>).kind = "err"
    BY DEF Reserved, Pending
<1> HIDE DEF Reserved
<1>8. \A w \in Written' : Kept(Recovered, Asks, w[2])
    <2>1. out.s = "handler" => Kept(Recovered, Asks, Reserved(id(i), "err", <<>>))
        BY <1>2, <1>5, <1>7 DEF Kept
    <2>2. QED
        BY <1>6, <2>1 DEF ErrInv
<1>9. ASSUME NEW k \in DOMAIN outs, FailedAs(Written', cur, id(k)), ~FailedAs(Written, cur, id(k)) PROVE k = i /\ out.s = "handler"
    <2>1. id(k) = id(i) /\ out.s = "handler"
        BY <1>6, <1>7, <1>9 DEF FailedAs
    <2>2. tasks[k].node # END
        BY <1>5, Shape DEF Base, Saver, GraphShape
    <2>3. tasks[k].node = tasks[i].node /\ tasks[k].arg = tasks[i].arg
        BY <1>5, <2>1
    <2>4. QED
        BY <1>5, <2>1, <2>2, <2>3 DEF NoTwins, Untwinned
<1>10. \A k \in DOMAIN outs : Working(Recovered, Asks, Written, cur, st, tasks[k], outs[k])
    BY <1>2 DEF ErrInv
<1>11. ASSUME NEW k \in DOMAIN outs PROVE Working(Recovered, Asks, Written', cur, st, tasks[k], outs'[k])
    <2>1. CASE k # i
        <3>1. outs'[k] = outs[k] /\ Working(Recovered, Asks, Written, cur, st, tasks[k], outs[k])
            BY <1>4, <1>10, <2>1
        <3>2. FailedAs(Written', cur, id(k)) => FailedAs(Written, cur, id(k))
            BY <1>9, <2>1
        <3>3. QED
            BY <3>1, <3>2 DEF Working, id
    <2>2. CASE k = i
        <3>1. Working(Recovered, Asks, Written, cur, st, tasks[i], outs[i])
            BY <1>10
        <3>2. Elsewhere(Recovered, out.sends)
            <4>1. CASE out.sends = <<>>
                BY <4>1 DEF Elsewhere
            <4>2. CASE out.sends \in Goto[tasks[i].node]
                BY <1>5, <4>2 DEF Elsewhere, Recovers, Recovered, Handled, Fails, Goto, Nodes
            <4>3. QED
                BY <1>2, <4>1, <4>2
        <3>3. out.s # "run"
            BY <1>2
        <3>4. out.s = "handler" \/ out.nodeErr => tasks[i].node \in Recovered
            BY <1>2, <3>1 DEF Working
        <3>5. QED
            BY <1>2, <1>4, <2>2, <3>2, <3>3, <3>4 DEF Working
    <2>3. QED
        BY <2>1, <2>2
<1>12. QED
    BY <1>2, <1>3, <1>4, <1>8, <1>11 DEF ErrInv

\* What completed tasks write.
LEMMA ErrCompleted ==
    ASSUME Base, ErrInv, phase = "tasks", NEW i \in DOMAIN outs, NEW id PROVE Kept(Recovered, Asks, CompletedWrites(i, id))
<1>1. CompletedWrites(i, id).kind = "done" /\ CompletedWrites(i, id).sends = outs[i].sends
    BY DEF CompletedWrites, Pending
<1>2. Elsewhere(Recovered, outs[i].sends)
    BY DEF ErrInv, Working
<1>3. QED
    BY <1>1, <1>2 DEF Kept

LEMMA ErrReserved ==
    ASSUME NEW id, NEW q
    PROVE /\ id.node \in Recovered => Kept(Recovered, Asks, Reserved(id, "err", q))
          /\ Asks[id.node] > 0 => Kept(Recovered, Asks, Reserved(id, "ask", q))
BY DEF Reserved, Pending, Kept

LEMMA ErrAbort ==
    ASSUME Base, ErrInv, Abort PROVE ErrInv'
<1>1. phase = "tasks" /\ phase' = "flush"
    BY AbortEffect DEF Abort, Stop
<1>2. CASE UNCHANGED <<graph, store, lastId, io, cur>>
    <2>1. Written' = Written
        BY <1>2 DEF Written, WritesOf, StoredWrites, NewWrites
    <2>2. QED
        BY <1>1, <1>2, <2>1, ErrQuiet
<1>3. ASSUME NEW next, NEW ws, AbortSaves(next, ws) PROVE ErrInv'
    <2>1. CheckpointSaved(st, next, ws) /\ Dispatched(next)
        BY <1>3 DEF AbortSaves
    <2>2. ASSUME NEW r \in Elements(ws) PROVE Kept(Recovered, Asks, r)
        <3>1. PICK i \in DOMAIN outs : outs[i].nodeErr /\ r = Reserved(next[i].id, "err", <<>>)
            BY <1>3 DEF AbortSaves
        <3>2. next[i].id.node \in Recovered
            BY <1>1, <2>1, <3>1 DEF Dispatched, ErrInv, Working
        <3>3. QED
            BY <3>1, <3>2, ErrReserved
    <2>3. QED
        BY <1>1, <2>1, <2>2, ErrSaved
<1>4. QED
    BY <1>2, <1>3, AbortEffect

LEMMA ErrPauseInNode ==
    ASSUME Base, ErrInv, PauseInNode PROVE ErrInv'
<1>1. phase = "tasks" /\ phase' = "flush"
    BY PauseEffect DEF PauseInNode, Stop
<1>2. PICK next, ws : PauseSaves(next, ws)
    BY PauseEffect
<1>3. CheckpointSaved(st, next, ws) /\ Dispatched(next)
    BY <1>2 DEF PauseSaves
<1>4. ASSUME NEW r \in Elements(ws) PROVE Kept(Recovered, Asks, r)
    <2>1. PICK i \in DOMAIN outs : \/ r = Reserved(next[i].id, "err", <<>>) /\ outs[i].nodeErr
                                   \/ r = Reserved(next[i].id, "ask", outs[i].pre) /\ outs[i].s = "ask"
                                   \/ r = CompletedWrites(i, next[i].id)
        BY <1>2 DEF PauseSaves, Paused
    <2>2. next[i].id.node = tasks[i].node /\ Working(Recovered, Asks, Written, cur, st, tasks[i], outs[i])
        BY <1>1, <1>3 DEF Dispatched, ErrInv
    <2>3. QED
        BY <1>1, <2>1, <2>2, ErrReserved, ErrCompleted DEF Working
<1>5. QED
    BY <1>1, <1>3, <1>4, ErrSaved

LEMMA ErrCommit ==
    ASSUME Base, ErrInv, Commit PROVE ErrInv'
<1>1. PICK s, next, ws : CommitSaves(s, next, ws)
    BY CommitEffect
<1>2. phase = "tasks" /\ CheckpointSaved(s, next, ws) /\ phase' \in {"loop", "flush"} /\ tasks' = NextTasks
    BY <1>1 DEF CommitSaves
<1>3. ASSUME NEW r \in Elements(ws) PROVE Kept(Recovered, Asks, r) /\ r.kind # "err"
    <2>1. CASE r.kind = "after"
        BY <2>1 DEF Kept
    <2>2. ASSUME NEW i \in DOMAIN outs, r = CompletedWrites(i, TaskID(lastId + 1, s.step + 1, tasks[i]))
          PROVE Kept(Recovered, Asks, r) /\ r.kind # "err"
        <3>1. r.kind = "done"
            BY <2>2 DEF CompletedWrites, Pending
        <3>2. QED
            BY <1>2, <2>2, <3>1, ErrCompleted
    <2>3. QED
        BY <1>1, <2>1, <2>2 DEF CommitSaves
<1>4. \A i \in DOMAIN tasks' : ~tasks'[i].handler
    BY <1>2, NextAnonymous
<1>5. QED
    BY <1>2, <1>3, <1>4, ErrSaved

LEMMA ErrStep ==
    ASSUME Base, ErrInv, NoTwins, Recovers(graph), [Next]_vars PROVE ErrInv'
<1>1. CASE StopsHere
    <2>1. phase' = "flush" /\ graph' = graph
        BY <1>1 DEF StopsHere, Finish, Drained, RecursionError, Cancel, Stop, saverVars
    <2>2. QED
        BY <1>1, <2>1, BaseStopsHere, ErrQuiet
<1>2. CASE SaverStep
    <2>1. UNCHANGED <<graph, phase, tasks, outs, cur, st>>
        BY <1>2 DEF SaverStep
    <2>2. Written' \subseteq Written
        BY <1>2, BaseSaver DEF SaverExecutes
    <2>3. QED
        BY <2>1, <2>2, ErrQuiet
<1>3. CASE Ends
    <2>1. phase' = "idle" /\ graph' = graph
        BY <1>3 DEF Ends, Flush, Crash, Reset, saverVars
    <2>2. QED
        BY <1>3, <2>1, BaseEnds, ErrQuiet
<1>4. CASE Idles
    <2>1. UNCHANGED <<graph, phase, tasks, outs, cur, st>>
        BY <1>4 DEF Idles, RequestDrain, vars, saverVars, runVars
    <2>2. QED
        BY <1>4, <2>1, BaseIdles, ErrQuiet
<1>5. QED
    BY <1>1, <1>2, <1>3, <1>4, Steps, ErrStarts, ErrPauseBefore, ErrDispatch, ErrTask, ErrAbort,
       ErrPauseInNode, ErrCommit

\* A task whose ERROR write is stored is resumed into its error handler and not
\* run again, in graphs whose recovering nodes ask nothing and are reached by no
\* Command.Goto: no interrupt outranks the error then, and no task planned by a
\* replayed Send carries its identity.
THEOREM FailedNodesRecover ==
    ASSUME \A g \in Graphs : Recovers(g)
    PROVE Spec /\ []NoTwins => []NodeNotRerunAfterError
<1>1. Base /\ ErrInv => NodeNotRerunAfterError
    <2> SUFFICES ASSUME Base, ErrInv, phase = "tasks", NEW i \in DOMAIN outs, outs[i].s = "run", cur \in DOMAIN store,
                        NEW r \in store[cur].w, r.kind = "err", r.id = plannedID(tasks[i], cur, st.step + 1)
                 PROVE FALSE
        BY DEF NodeNotRerunAfterError
    <2>1. <<cur, r>> \in Written
        BY ReadFacts DEF Base
    <2>2. FailedAs(Written, cur, plannedID(tasks[i], cur, st.step + 1))
        BY <2>1 DEF FailedAs
    <2>3. QED
        BY <2>2 DEF ErrInv, Working
<1>2. Init => ErrInv
    <2> SUFFICES ASSUME Init PROVE ErrInv
        OBVIOUS
    <2>1. store = <<>> /\ io = <<>> /\ phase = "idle"
        BY DEF Init
    <2>2. Written = {}
        BY <2>1 DEF Written, WritesOf, StoredWrites, NewWrites
    <2>3. QED
        BY <2>1, <2>2 DEF ErrInv
<1>3. Base => Recovers(graph)
    BY DEF Base, Saver
<1>4. Base /\ ErrInv /\ NoTwins /\ [Next]_vars => ErrInv'
    BY <1>3, ErrStep
<1>5. QED
    BY BaseAlways, <1>1, <1>2, <1>4, PTL DEF Spec
-----------------------------------------------------------------------------
(* Answers handed over.                                                     *)

\* What the theorem asks of a behaviour: no superstep has both a node that asks
\* and a breakpoint node.
Unmixed ==
    \A i, k \in DOMAIN tasks :
        ~(/\ tasks[i].node \in Nodes /\ Asks[tasks[i].node] > 0
          /\ tasks[k].node \in InterruptBefore)

\* An answer belongs to a task planned by the resume that carries it.
Asker(w) == w[2].kind = "ask" => Asks[w[2].id.node] > 0
Awaited(id) == Asks[id.node] > 0 /\ \E i \in DOMAIN tasks : tasks[i].id = id /\ tasks[i].node # END
AtWork(id) == \E i \in DOMAIN outs : tasks[i].id = id /\ outs[i].s \in {"run", "handler", "err"}
\* The task's queue ends with the value the run was called with.
Queued(id) == id \in DOMAIN rv /\ rv[id] # <<>> /\ Last(rv[id]).call = calls
GivenInv ==
    /\ \A w \in Written : Asker(w)
    /\ phase \in {"loop", "tasks"} => \A id \in given : Queued(id)
    /\ phase = "loop" => \A id \in given : Awaited(id)
    /\ phase = "tasks" => /\ \A id \in given : AtWork(id)
                          /\ \A i \in DOMAIN outs : outs[i].s = "ask" => Asks[tasks[i].node] > 0
    /\ AnswerDelivered

\* The run ends, or goes on where it is with the answers it has.
LEMMA GivenQuiet ==
    ASSUME GivenInv, Written' \subseteq Written, Asks' = Asks, given' = given \/ given' = {},
           phase' \in {"loop", "tasks"} => UNCHANGED <<phase, tasks, outs, rv, calls>>,
           phase' = "flush" => result' # "interrupt" \/ UNCHANGED <<phase, result>>
    PROVE GivenInv'
<1>1. \A w \in Written' : Asks'[w[2].id.node] = Asks[w[2].id.node]
    OBVIOUS
<1>2. \A w \in Written' : w[2].kind = "ask" => Asks'[w[2].id.node] > 0
    BY DEF GivenInv, Asker
<1>3. phase' = "loop" => \A id \in given' : Asks'[id.node] > 0 /\ \E i \in DOMAIN tasks' : tasks'[i].id = id /\ tasks'[i].node # END
    BY DEF GivenInv, Awaited
<1>4. phase' = "tasks" => /\ \A id \in given' : \E i \in DOMAIN outs' : tasks'[i].id = id /\ outs'[i].s \in {"run", "handler", "err"}
                          /\ \A i \in DOMAIN outs' : outs'[i].s = "ask" => Asks'[tasks'[i].node] > 0
    BY DEF GivenInv, AtWork
<1>5. AnswerDelivered'
    BY DEF GivenInv, AnswerDelivered
<1>6. phase' \in {"loop", "tasks"} => \A id \in given' : id \in DOMAIN rv' /\ rv'[id] # <<>> /\ Last(rv'[id]).call = calls'
    BY DEF GivenInv, Queued
<1>7. QED
    BY <1>2, <1>3, <1>4, <1>5, <1>6 DEF GivenInv, Asker, Awaited, AtWork, Queued

\* A checkpoint is saved when no answer is outstanding, or the run fails.
LEMMA GivenSaved ==
    ASSUME Base, GivenInv, NEW s, NEW next, NEW ws, CheckpointSaved(s, next, ws), phase' \in {"loop", "flush"},
           given' = {} \/ (phase' = "flush" /\ result' # "interrupt"),
           \A r \in Elements(ws) : r.kind = "ask" => Asks[r.id.node] > 0
    PROVE GivenInv'
<1>1. graph' = graph /\ Written' = Written \cup {<<lastId + 1, r>> : r \in Elements(ws)}
    BY DEF CheckpointSaved
<1>2. Asks' = Asks
    BY <1>1, GraphFixed DEF SameGraph
<1>3. \A w \in Written' : w[2].kind = "ask" => Asks[w[2].id.node] > 0
    <2>1. \A w \in Written : w[2].kind = "ask" => Asks[w[2].id.node] > 0
        BY DEF GivenInv, Asker
    <2>2. QED
        BY <1>1, <2>1
<1>4. AnswerDelivered'
    BY DEF AnswerDelivered
<1>5. QED
    BY <1>2, <1>3, <1>4 DEF GivenInv, Asker

LEMMA GivenInvoke ==
    ASSUME Base, GivenInv, phase = "idle", NEW s \in States, s.step \in -1 .. lastId - 1, InvokeFrom(s)
    PROVE GivenInv'
<1>1. phase' = "loop" /\ given' = {}
    BY DEF InvokeFrom, Begin
<1>2. PICK s1, next : CheckpointSaved(s1, next, <<>>)
    BY InputSaved
<1>3. Elements(<<>>) = {}
    BY DEF Elements
<1>4. QED
    BY <1>1, <1>2, <1>3, GivenSaved

LEMMA GivenResume ==
    ASSUME Base, GivenInv, NEW c \in DOMAIN store, NEW a \in SUBSET AskIds(c), Resume(c, a)
    PROVE GivenInv'
<1>1. Written' = Written
    BY BaseResume
<1>2. /\ phase' = "loop" /\ given' = a /\ graph' = graph /\ tasks' = RestoredTasks(c) \o ReplaySends(c)
      /\ rv' = ResumeQueues(c, a) /\ calls' = IF a = {} THEN calls ELSE calls + 1
    BY DEF Resume, Begin, saverVars
<1>3. Asks' = Asks /\ Saver
    BY <1>2, GraphFixed DEF SameGraph, Base
<1>4. Elements(RestoredTasks(c)) \subseteq Elements(tasks')
    <2>1. RestoredTasks(c) \in Seq(TaskRecs) /\ ReplaySends(c) \in Seq(TaskRecs)
        BY <1>3, RestoreFacts, ReplaySendFacts
    <2> HIDE DEF TaskRecs, RestoredTasks, ReplaySends
    <2>2. QED
        BY <1>2, <2>1, ConcatElements
<1>5. ASSUME NEW id \in a PROVE Asks[id.node] > 0 /\ \E i \in DOMAIN tasks' : tasks'[i].id = id /\ tasks'[i].node # END
    <2>1. PICK i \in PlanIdx(c) : Asked(c, i) /\ id = store[c].next[i].id
        BY DEF AskIds
    <2>2. PICK r \in store[c].w : r.id = id /\ r.kind = "ask"
        BY <2>1 DEF Asked, TaskWrites
    <2>3. Asks[id.node] > 0
        <3>1. <<c, r>> \in Written
            BY <1>3, <2>2, ReadFacts
        <3>2. Asker(<<c, r>>)
            BY <3>1 DEF GivenInv
        <3>3. QED
            BY <2>2, <3>2 DEF Asker
    <2>4. i \in OpenIdx(c)
        BY <2>1 DEF OpenIdx, Completed
    <2>5. RestoreOf(c)[i] \in Elements(tasks')
        BY <1>3, <1>4, <2>4, RestoreFacts
    <2>6. RestoreOf(c)[i].id = id /\ RestoreOf(c)[i].node \in Nodes
        BY <1>3, <2>1, PlanFacts DEF RestoreOf
    <2>7. END \notin Nodes
        BY <1>3, Shape DEF Saver, GraphShape
    <2>8. QED
        BY <2>3, <2>5, <2>6, <2>7 DEF Elements
<1>6. \A w \in Written' : w[2].kind = "ask" => Asks'[w[2].id.node] > 0
    BY <1>1, <1>3 DEF GivenInv, Asker
<1>7. AnswerDelivered'
    BY <1>2 DEF AnswerDelivered
<1>8. \A id \in a : id \in DOMAIN rv' /\ rv'[id] # <<>> /\ Last(rv'[id]).call = calls'
    <2>1. /\ DOMAIN ResumeQueues(c, a) = AskIds(c)
          /\ \A id \in a : ResumeQueues(c, a)[id] # <<>> /\ Last(ResumeQueues(c, a)[id]).call = calls + 1
        BY <1>3, QueueFacts DEF Base, Run
    <2>2. QED
        BY <1>2, <2>1
<1>9. QED
    BY <1>2, <1>3, <1>5, <1>6, <1>7, <1>8 DEF GivenInv, Asker, Awaited, Queued

LEMMA GivenStarts ==
    ASSUME Base, GivenInv, Starts PROVE GivenInv'
<1>1. ASSUME NEW c \in Loadable, InvokeNewTurn(c) PROVE GivenInv'
    <2>1. c \in DOMAIN store /\ Saver
        BY LoadableStored DEF Base
    <2>2. store[c].st \in States /\ store[c].st.step \in -1 .. c - 2 /\ c \in 1 .. lastId
        BY <2>1, ReadFacts
    <2>3. lastId \in Nat
        BY Shape DEF Base, Saver, GraphShape
    <2>4. store[c].st.step \in -1 .. lastId - 1
        BY <2>2, <2>3
    <2>5. QED
        BY <1>1, <2>2, <2>4, GivenInvoke DEF InvokeNewTurn
<1>2. ASSUME InvokeFresh PROVE GivenInv'
    <2>1. graph \in Graphs /\ lastId \in Nat
        BY Shape DEF Base, Saver, GraphShape
    <2>2. EmptyState \in States /\ EmptyState.step = -1
        BY <2>1, EmptyStateType DEF EmptyState
    <2>3. EmptyState.step \in -1 .. lastId - 1
        BY <2>1, <2>2
    <2>4. QED
        BY <1>2, <2>2, <2>3, GivenInvoke DEF InvokeFresh
<1>3. ASSUME NEW c \in Loadable, NEW a \in SUBSET AskIds(c), Resume(c, a) PROVE GivenInv'
    BY <1>3, LoadableStored, GivenResume DEF Base
<1>4. QED
    BY <1>1, <1>2, <1>3 DEF Starts

\* A run that stops in front of a breakpoint holds no answer for a task it names.
LEMMA GivenPauseBefore ==
    ASSUME Base, GivenInv, Unmixed, PauseBefore PROVE GivenInv'
<1>1. PICK n \in Nodes : /\ n \in InterruptBefore /\ \E i \in DOMAIN tasks : tasks[i].node = n
                         /\ CheckpointSaved(st, StampDispatchIDs(tasks, cur, st.step + 1),
                                            <<Reserved(BoundaryId(n), "before", <<>>)>>)
    BY PauseBeforeFacts
<1>2. phase = "loop" /\ phase' = "flush" /\ given' = given
    BY DEF PauseBefore, AtHead, Stop, historyVars
<1>3. given = {}
    <2> SUFFICES ASSUME NEW id \in given PROVE FALSE
        OBVIOUS
    <2>1. PICK i \in DOMAIN tasks : tasks[i].id = id /\ tasks[i].node # END /\ Asks[id.node] > 0
        BY <1>2 DEF GivenInv, Awaited
    <2>2. id \in RealIDs
        BY DEF Base, Run
    <2>3. id # NoId /\ id.node \in Nodes
        BY <2>2 DEF RealIDs, NoId
    <2>4. tasks[i] \in TaskRecs
        <3>1. tasks \in Seq(TaskRecs)
            BY DEF Base, Run
        <3> HIDE DEF TaskRecs
        <3>2. QED
            BY <3>1
    <2>5. tasks[i].node = id.node
        BY <2>1, <2>3, <2>4 DEF TaskRecs
    <2>6. QED
        BY <1>1, <2>1, <2>3, <2>5 DEF Unmixed
<1>4. \A r \in Elements(<<Reserved(BoundaryId(n), "before", <<>>)>>) : r.kind # "ask"
    BY DEF Elements, Reserved, Pending
<1>5. QED
    BY <1>1, <1>2, <1>3, <1>4, GivenSaved

LEMMA GivenDispatch ==
    ASSUME Base, GivenInv, Dispatch PROVE GivenInv'
<1>1. /\ phase = "loop" /\ phase' = "tasks" /\ tasks' = Active(tasks) /\ given' = given /\ graph' = graph
      /\ outs' = [i \in DOMAIN Active(tasks) |-> IF Active(tasks)[i].handler THEN HandlerRuns ELSE Undecided]
    BY DEF Dispatch, PastBreakpoints, AtHead, historyVars, saverVars
<1>2. Written' = Written /\ Asks' = Asks
    BY <1>1, BaseDispatch, GraphFixed DEF SameGraph
<1>3. \A i \in DOMAIN outs' : outs'[i].s \in {"run", "handler"}
    BY <1>1 DEF HandlerRuns, Undecided, Outcome
<1>4. tasks \in Seq(TaskRecs)
    BY DEF Base, Run
<1>5. ASSUME NEW id \in given PROVE \E i \in DOMAIN outs' : tasks'[i].id = id /\ outs'[i].s \in {"run", "handler", "err"}
    <2>1. PICK i \in DOMAIN tasks : tasks[i].id = id /\ tasks[i].node # END
        BY <1>1 DEF GivenInv, Awaited
    <2>2. tasks[i] \in Elements(Active(tasks))
        <3> HIDE DEF TaskRecs, Active
        <3>1. QED
            BY <1>4, <2>1, ActiveFacts
    <2>3. PICK k \in DOMAIN tasks' : tasks'[k] = tasks[i]
        BY <1>1, <2>2 DEF Elements
    <2>4. k \in DOMAIN outs'
        BY <1>1
    <2>5. QED
        BY <1>3, <2>1, <2>3, <2>4
<1>6. \A w \in Written' : w[2].kind = "ask" => Asks'[w[2].id.node] > 0
    BY <1>2 DEF GivenInv, Asker
<1>7. AnswerDelivered'
    BY <1>1 DEF AnswerDelivered
<1>8. \A id \in given' : id \in DOMAIN rv' /\ rv'[id] # <<>> /\ Last(rv'[id]).call = calls'
    <2>1. UNCHANGED <<rv, calls, given>> /\ phase = "loop"
        BY <1>1 DEF Dispatch, historyVars
    <2>2. QED
        BY <2>1 DEF GivenInv, Queued
<1>9. QED
    BY <1>1, <1>3, <1>5, <1>6, <1>7, <1>8 DEF GivenInv, Asker, AtWork, Queued

\* A task that gets on has taken its answers, or has failed in its handler.
LEMMA GivenTask ==
    ASSUME Base, GivenInv, TaskStep PROVE GivenInv'
<1>1. PICK i \in DOMAIN outs, out \in Outs : Progress(i, out)
    BY ProgressFacts
<1>2. /\ phase = "tasks" /\ outs' = [outs EXCEPT ![i] = out] /\ UNCHANGED <<graph, phase, tasks, rv, calls>>
      /\ \/ given' = given \ {tasks[i].id}
         \/ out.s = "err" /\ given' = given
      /\ out.s = "ask" => Asks[tasks[i].node] > 0
    <2>1. /\ phase = "tasks" /\ outs' = [outs EXCEPT ![i] = out] /\ UNCHANGED <<graph, phase, tasks, rv, calls>>
          /\ \/ given' = IF HoldsNewAnswer(tasks[i]) THEN given \ {tasks[i].id} ELSE given
             \/ out.s = "err" /\ given' = given
          /\ out.s = "ask" => Asks[tasks[i].node] > 0
        BY <1>1 DEF Progress
    <2>2. tasks[i].id \in given => HoldsNewAnswer(tasks[i])
        BY <2>1 DEF GivenInv, Queued, HoldsNewAnswer, Queue
    <2>3. tasks[i].id \notin given => given \ {tasks[i].id} = given
        OBVIOUS
    <2>4. QED
        BY <2>1, <2>2, <2>3
<1>3. Asks' = Asks
    BY <1>2, GraphFixed DEF SameGraph
<1>4. DOMAIN outs' = DOMAIN outs /\ outs'[i] = out /\ \A k \in DOMAIN outs : k # i => outs'[k] = outs[k]
    BY <1>2
<1>5. \A w \in Written' : w[2].kind = "ask" => Asks'[w[2].id.node] > 0
    <2>1. \A id : Reserved(id, "err", <<>>).kind # "ask"
        BY DEF Reserved, Pending
    <2> HIDE DEF Reserved
    <2>2. \A w \in Written' : w \in Written \/ w[2].kind # "ask"
        BY <1>1, <2>1, ProgressWrites
    <2>3. QED
        BY <1>3, <2>2 DEF GivenInv, Asker
<1>6. ASSUME NEW id \in given' PROVE \E k \in DOMAIN outs' : tasks'[k].id = id /\ outs'[k].s \in {"run", "handler", "err"}
    <2>1. id \in given
        BY <1>2
    <2>2. PICK k \in DOMAIN outs : tasks[k].id = id /\ outs[k].s \in {"run", "handler", "err"}
        BY <1>2, <2>1 DEF GivenInv, AtWork
    <2>3. CASE k # i
        BY <1>2, <1>4, <2>2, <2>3
    <2>4. CASE k = i
        <3>1. out.s = "err"
            BY <1>2, <2>2, <2>4
        <3>2. QED
            BY <1>2, <1>4, <2>2, <2>4, <3>1
    <2>5. QED
        BY <2>3, <2>4
<1>7. \A k \in DOMAIN outs' : outs'[k].s = "ask" => Asks'[tasks'[k].node] > 0
    BY <1>2, <1>3, <1>4 DEF GivenInv
<1>8. AnswerDelivered'
    BY <1>2 DEF AnswerDelivered
<1>9. \A id \in given' : id \in DOMAIN rv' /\ rv'[id] # <<>> /\ Last(rv'[id]).call = calls'
    BY <1>2 DEF GivenInv, Queued
<1>10. QED
    BY <1>2, <1>5, <1>6, <1>7, <1>8, <1>9 DEF GivenInv, Asker, AtWork, Queued

LEMMA GivenAbort ==
    ASSUME Base, GivenInv, Abort PROVE GivenInv'
<1>1. phase = "tasks" /\ phase' = "flush" /\ result' = "error" /\ given' = given
    BY AbortEffect DEF Abort, Stop, historyVars
<1>2. CASE UNCHANGED <<graph, store, lastId, io, cur>>
    <2>1. Written' = Written /\ Asks' = Asks
        BY <1>2, GraphFixed DEF SameGraph, Written, WritesOf, StoredWrites, NewWrites
    <2>2. QED
        BY <1>1, <2>1, GivenQuiet
<1>3. ASSUME NEW next, NEW ws, AbortSaves(next, ws) PROVE GivenInv'
    <2>1. CheckpointSaved(st, next, ws)
        BY <1>3 DEF AbortSaves
    <2>2. \A r \in Elements(ws) : r.kind # "ask"
        BY <1>3 DEF AbortSaves, Reserved, Pending
    <2>3. QED
        BY <1>1, <2>1, <2>2, GivenSaved
<1>4. QED
    BY <1>2, <1>3, AbortEffect

\* A superstep that ends without a failure has delivered every answer.
LEMMA AllDelivered ==
    ASSUME GivenInv, phase = "tasks", \A i \in DOMAIN outs : outs[i].s \in {"ask", "done"}
    PROVE given = {}
BY DEF GivenInv, AtWork

LEMMA GivenPauseInNode ==
    ASSUME Base, GivenInv, PauseInNode PROVE GivenInv'
<1>1. /\ phase = "tasks" /\ phase' = "flush" /\ given' = given
      /\ \A i \in DOMAIN outs : outs[i].s \in {"ask", "done"}
    BY PauseEffect, AllOutFacts DEF PauseInNode, Stop, historyVars
<1>2. PICK next, ws : PauseSaves(next, ws)
    BY PauseEffect
<1>3. CheckpointSaved(st, next, ws) /\ Dispatched(next)
    BY <1>2 DEF PauseSaves
<1>4. \A r \in Elements(ws) : r.kind = "ask" => Asks[r.id.node] > 0
    <2> SUFFICES ASSUME NEW r \in Elements(ws), r.kind = "ask" PROVE Asks[r.id.node] > 0
        OBVIOUS
    <2>1. PICK i \in DOMAIN outs : \/ r = Reserved(next[i].id, "err", <<>>)
                                   \/ r = Reserved(next[i].id, "ask", outs[i].pre) /\ outs[i].s = "ask"
                                   \/ r = CompletedWrites(i, next[i].id)
        BY <1>2 DEF PauseSaves, Paused
    <2>2. r = Reserved(next[i].id, "ask", outs[i].pre) /\ outs[i].s = "ask"
        BY <2>1 DEF Reserved, CompletedWrites, Pending
    <2>3. r.id = next[i].id /\ next[i].id.node = tasks[i].node
        BY <1>3, <2>2 DEF Reserved, Pending, Dispatched
    <2>4. QED
        BY <1>1, <2>2, <2>3 DEF GivenInv
<1>5. given' = {}
    BY <1>1, AllDelivered
<1>6. QED
    BY <1>1, <1>3, <1>4, <1>5, GivenSaved

LEMMA GivenCommit ==
    ASSUME Base, GivenInv, Commit PROVE GivenInv'
<1>1. PICK s, next, ws : CommitSaves(s, next, ws)
    BY CommitEffect
<1>2. phase = "tasks" /\ AllDone /\ CheckpointSaved(s, next, ws) /\ phase' \in {"loop", "flush"} /\ given' = given
    BY <1>1 DEF CommitSaves
<1>3. \A r \in Elements(ws) : r.kind # "ask"
    <2>1. \A r \in Elements(ws) : \/ r.kind = "after"
                                  \/ \E i \in DOMAIN outs : r = CompletedWrites(i, TaskID(lastId + 1, s.step + 1, tasks[i]))
        BY <1>1 DEF CommitSaves
    <2>2. QED
        BY <2>1 DEF CompletedWrites, Pending
<1>4. given' = {}
    BY <1>2, AllDelivered DEF AllDone
<1>5. QED
    BY <1>2, <1>3, <1>4, GivenSaved

LEMMA GivenStep ==
    ASSUME Base, GivenInv, Unmixed, [Next]_vars PROVE GivenInv'
<1>1. CASE StopsHere
    <2>1. phase' = "flush" /\ result' # "interrupt" /\ UNCHANGED <<graph, given>>
        BY <1>1 DEF StopsHere, Finish, Drained, RecursionError, Cancel, Stop, saverVars, historyVars
    <2>2. Asks' = Asks
        BY <2>1, GraphFixed DEF SameGraph
    <2>3. QED
        BY <1>1, <2>1, <2>2, BaseStopsHere, GivenQuiet
<1>2. CASE SaverStep
    <2>1. UNCHANGED <<graph, phase, tasks, outs, result, given, rv, calls>>
        BY <1>2 DEF SaverStep, historyVars
    <2>2. Written' \subseteq Written
        BY <1>2, BaseSaver DEF SaverExecutes
    <2>3. Asks' = Asks
        BY <2>1, GraphFixed DEF SameGraph
    <2>4. QED
        BY <2>1, <2>2, <2>3, GivenQuiet
<1>3. CASE Ends
    <2>1. phase' = "idle" /\ given' = {} /\ graph' = graph
        BY <1>3 DEF Ends, Flush, Crash, Reset, saverVars
    <2>2. Asks' = Asks
        BY <2>1, GraphFixed DEF SameGraph
    <2>3. QED
        BY <1>3, <2>1, <2>2, BaseEnds, GivenQuiet
<1>4. CASE Idles
    <2>1. UNCHANGED <<graph, phase, tasks, outs, result, given, rv, calls>>
        BY <1>4 DEF Idles, RequestDrain, vars, saverVars, runVars, historyVars
    <2>2. Asks' = Asks
        BY <2>1, GraphFixed DEF SameGraph
    <2>3. QED
        BY <1>4, <2>1, <2>2, BaseIdles, GivenQuiet
<1>5. QED
    BY <1>1, <1>2, <1>3, <1>4, Steps, GivenStarts, GivenPauseBefore, GivenDispatch, GivenTask, GivenAbort,
       GivenPauseInNode, GivenCommit

LEMMA GivenStart ==
    ASSUME Init PROVE GivenInv
<1>1. store = <<>> /\ io = <<>> /\ phase = "idle"
    BY DEF Init
<1>2. Written = {}
    BY <1>1 DEF Written, WritesOf, StoredWrites, NewWrites
<1>3. QED
    BY <1>1, <1>2 DEF GivenInv, AnswerDelivered

\* An answer handed to a resumed run reaches the node that asked before the run
\* pauses again, where no superstep mixes a node that asks with a breakpoint: the
\* resume restores the task under the identity its answer names, and the task
\* takes the answer when it runs.
THEOREM AnswersDelivered == Spec /\ []Unmixed => []AnswerDelivered
<1>1. GivenInv => AnswerDelivered
    BY DEF GivenInv
<1>2. Init => GivenInv
    BY GivenStart
<1>3. Base /\ GivenInv /\ Unmixed /\ [Next]_vars => GivenInv'
    BY GivenStep
<1>4. QED
    BY BaseAlways, <1>1, <1>2, <1>3, PTL DEF Spec
-----------------------------------------------------------------------------
(* Successors.                                                              *)

\* What the theorem asks of a behaviour: a task that completes in a superstep
\* that pauses has sent, or leads nowhere.  A pending write keeps what its task
\* sent and not the edges it took.
NoForks ==
    AllOut /\ Having("ask") # {} =>
        \A i \in DOMAIN outs : outs[i].s = "done" /\ outs[i].sends = <<>> =>
            \A k \in DOMAIN outs[i].route : outs[i].route[k].node = END

\* Position i of l was written since the last input.
ThisTurn(l, i) == \A h \in DOMAIN l : h >= i => l[h].n # END
RunsAfter(l, i, e) == \E j \in DOMAIN l : j > i /\ l[j].n = e.node /\ l[j].arg = e.arg
\* The plan ts goes to the destination e: its node, with its argument.
Heads(ts, e) == \E i \in DOMAIN ts : ts[i].node = e.node /\ ts[i].arg = e.arg
\* The successors chosen in this turn have run, or are planned.
Followed(l, ts) ==
    \A i \in DOMAIN l : ThisTurn(l, i) =>
        \A k \in DOMAIN l[i].d : l[i].d[k].node # END =>
            RunsAfter(l, i, l[i].d[k]) \/ Heads(ts, l[i].d[k])
\* The plan ts goes to the destinations d; ts2 goes wherever ts does.
Promised(d, ts) == \A k \in DOMAIN d : d[k].node # END => Heads(ts, d[k])
Covers(ts2, ts) == \A i \in DOMAIN ts : ts[i].node # END => Heads(ts2, ts[i])
\* A replayed task sends where its token says.
Honest(P, w) == w[2].kind = "done" => \A p \in P : Planned(p, w) => Promised(w[2].tok[1].d, w[2].sends)
Chose(out) == out.s = "done" => out.tok[1].d = IF out.sends # <<>> THEN out.sends ELSE out.route
SuccInv ==
    /\ \A p \in Saved : Followed(p[2].log, p[3])
    /\ \A w \in Written : Honest(Saved, w)
    /\ phase \in {"loop", "tasks"} => Followed(st.log, tasks)
    /\ phase = "tasks" => \A i \in DOMAIN outs : Chose(outs[i])
    /\ Completion => Followed(st.log, <<>>)

\* A plan that names as much follows as well.
LEMMA FollowedCovered ==
    ASSUME NEW l, NEW ts, NEW ts2, Followed(l, ts), Covers(ts2, ts) PROVE Followed(l, ts2)
<1> SUFFICES ASSUME NEW i \in DOMAIN l, ThisTurn(l, i), NEW k \in DOMAIN l[i].d, l[i].d[k].node # END
             PROVE RunsAfter(l, i, l[i].d[k]) \/ Heads(ts2, l[i].d[k])
    BY DEF Followed
<1>1. RunsAfter(l, i, l[i].d[k]) \/ Heads(ts, l[i].d[k])
    BY DEF Followed
<1>2. QED
    BY <1>1 DEF Covers, Heads

\* A plan that goes as far names as much.
LEMMA CoversNames ==
    ASSUME NEW ts, NEW ts2, Covers(ts2, ts), NEW n, n # END, Names(ts, n) PROVE Names(ts2, n)
BY DEF Covers, Heads, Names

\* Planned nodes run, and plan their successors.
LEMMA FollowedJoined ==
    ASSUME NEW l2, NEW l, NEW t, Joined(l2, l, t), NEW ts, NEW ts2, Followed(l, ts),
           \A h \in DOMAIN ts : ts[h].node # END =>
               Heads(ts2, ts[h]) \/ \E k \in DOMAIN t : t[k].n = ts[h].node /\ t[k].arg = ts[h].arg,
           \A k \in DOMAIN t : Promised(t[k].d, ts2)
    PROVE Followed(l2, ts2)
<1> SUFFICES ASSUME NEW i \in DOMAIN l2, ThisTurn(l2, i), NEW k \in DOMAIN l2[i].d, l2[i].d[k].node # END
             PROVE RunsAfter(l2, i, l2[i].d[k]) \/ Heads(ts2, l2[i].d[k])
    BY DEF Followed
<1> DEFINE e == l2[i].d[k]
           a == Len(l)
           b == Len(t)
<1>1. /\ a \in Nat /\ b \in Nat /\ DOMAIN l = 1 .. a /\ DOMAIN t = 1 .. b /\ DOMAIN l2 = 1 .. a + b
      /\ \A h \in DOMAIN l : l2[h] = l[h]
      /\ \A h \in DOMAIN t : l2[a + h] = t[h]
    BY DEF Joined
<1> HIDE DEF a, b
<1>2. \A h \in DOMAIN l : h \in DOMAIN l2
    BY <1>1
<1>3. \A h \in DOMAIN t : a + h \in DOMAIN l2
    BY <1>1
<1>4. CASE i \in DOMAIN l
    <2>1. l2[i] = l[i] /\ ThisTurn(l, i)
        BY <1>1, <1>2, <1>4 DEF ThisTurn
    <2>2. RunsAfter(l, i, e) \/ Heads(ts, e)
        BY <1>4, <2>1 DEF Followed
    <2>3. CASE RunsAfter(l, i, e)
        BY <1>1, <1>2, <2>3 DEF RunsAfter
    <2>4. CASE Heads(ts, e)
        <3>1. PICK x \in DOMAIN ts : ts[x].node = e.node /\ ts[x].arg = e.arg
            BY <2>4 DEF Heads
        <3>2. CASE Heads(ts2, ts[x])
            BY <3>1, <3>2 DEF Heads
        <3>3. ASSUME NEW h \in DOMAIN t, t[h].n = ts[x].node, t[h].arg = ts[x].arg PROVE RunsAfter(l2, i, e)
            <4>1. a + h \in DOMAIN l2 /\ l2[a + h].n = e.node /\ l2[a + h].arg = e.arg
                BY <1>1, <1>3, <3>1, <3>3
            <4>2. a + h > i
                BY <1>1, <1>4
            <4>3. QED
                BY <4>1, <4>2 DEF RunsAfter
        <3>4. QED
            BY <3>1, <3>2, <3>3
    <2>5. QED
        BY <2>2, <2>3, <2>4
<1>5. CASE i \notin DOMAIN l
    <2>1. PICK h \in DOMAIN t : i = a + h
        <3>1. i - a \in DOMAIN t /\ i = a + (i - a)
            BY <1>1, <1>5
        <3>2. QED
            BY <3>1
    <2>2. l2[i] = t[h]
        BY <1>1, <2>1
    <2>3. QED
        BY <2>2 DEF Promised
<1>6. QED
    BY <1>4, <1>5

\* An input begins a turn.
LEMMA FollowedInput ==
    ASSUME graph \in Graphs, turns \in Nat, NEW s \in States, NEW r, Applied(s, InputBatch, r), NEW ts
    PROVE Followed(r.log, ts)
<1>1. /\ InputBatch \in Seq(Batches) /\ TokensOf(InputBatch) = <<InputToken>> /\ InputToken.n = END
    BY InputFacts
<1>2. s.log \in Seq(Tokens) /\ <<InputToken>> \in Seq(Tokens) /\ r.log = s.log \o <<InputToken>>
    BY <1>1, InputFacts DEF Applied, States
<1> DEFINE t == <<InputToken>>
           l == s.log
           u == r.log
<1>3. Len(t) = 1 /\ t[1] = InputToken
    OBVIOUS
<1> HIDE DEF Tokens, InputToken, t, l, u
<1>4. Joined(u, l, t)
    BY <1>2, ConcatFacts DEF t, l, u
<1>5. /\ Len(l) \in Nat /\ DOMAIN u = 1 .. Len(l) + 1 /\ u[Len(l) + 1] = InputToken
    BY <1>3, <1>4 DEF Joined
<1> DEFINE m == Len(l) + 1
<1>6. m \in DOMAIN u /\ u[m].n = END /\ \A i \in DOMAIN u : m >= i
    BY <1>1, <1>5
<1> HIDE DEF m
<1>7. \A i \in DOMAIN u : ~ThisTurn(u, i)
    BY <1>6 DEF ThisTurn
<1>8. Followed(u, ts)
    BY <1>7 DEF Followed
<1>9. QED
    BY <1>8 DEF u

\* A stored plan has the nodes planned.
LEMMA StampedCovers ==
    ASSUME graph \in Graphs, NEW ts \in Seq(TaskRecs), NEW c, NEW n
    PROVE Covers(Active(ts), ts) /\ Covers(StampDispatchIDs(ts, c, n), ts) /\ Covers(StampNew(ts, c, n), ts)
<1> DEFINE a == Active(ts)
           u == StampDispatchIDs(ts, c, n)
           v == StampNew(ts, c, n)
<1>1. /\ DOMAIN u = DOMAIN a /\ DOMAIN v = DOMAIN a
      /\ \A i \in DOMAIN a : /\ u[i].node = a[i].node /\ u[i].arg = a[i].arg
                            /\ v[i].node = a[i].node /\ v[i].arg = a[i].arg
    BY DEF StampDispatchIDs, StampNew
<1>2. ASSUME NEW i \in DOMAIN ts, ts[i].node # END PROVE \E h \in DOMAIN a : a[h] = ts[i]
    <2> HIDE DEF TaskRecs, a
    <2>1. Elements(a) = {ts[k] : k \in {h \in DOMAIN ts : ts[h].node # END}}
        BY ActiveFacts DEF a
    <2>2. ts[i] \in Elements(a)
        BY <1>2, <2>1
    <2>3. QED
        BY <2>2 DEF Elements
<1> HIDE DEF a, u, v
<1>3. Covers(a, ts) /\ Covers(u, ts) /\ Covers(v, ts)
    BY <1>1, <1>2 DEF Covers, Heads
<1>4. QED
    BY <1>3 DEF a, u, v

\* The run ends, or goes on where it is.
LEMMA SuccQuiet ==
    ASSUME SuccInv, Saved' \subseteq Saved, Written' \subseteq Written,
           phase' \in {"loop", "tasks"} => UNCHANGED <<phase, st, tasks, outs>>,
           phase' = "flush" => UNCHANGED <<phase, st, result>> \/ result' # "ok"
    PROVE SuccInv'
<1>1. \A p \in Saved' : Followed(p[2].log, p[3])
    BY DEF SuccInv
<1>2. \A w \in Written' : Honest(Saved', w)
    BY DEF SuccInv, Honest
<1>3. phase' \in {"loop", "tasks"} => Followed(st'.log, tasks')
    BY DEF SuccInv
<1>4. phase' = "tasks" => \A i \in DOMAIN outs' : Chose(outs'[i])
    BY DEF SuccInv
<1>5. phase' = "flush" /\ result' = "ok" => Followed(st'.log, <<>>)
    BY DEF SuccInv, Completion
<1>6. QED
    BY <1>1, <1>2, <1>3, <1>4, <1>5 DEF SuccInv, Completion

\* A checkpoint is saved with its plan and its pending writes.
LEMMA SuccSaved ==
    ASSUME Base, SuccInv, NEW s, NEW next, NEW ws, CheckpointSaved(s, next, ws), st' = s,
           Followed(s.log, next),
           \A r \in Elements(ws) : r.kind = "done" /\ (\E i \in DOMAIN next : next[i].id = r.id) =>
               Promised(r.tok[1].d, r.sends),
           phase' \in {"loop", "flush"}, phase' = "loop" => Followed(s.log, tasks'),
           phase' = "flush" => result' # "ok"
    PROVE SuccInv'
<1> DEFINE c == lastId + 1
<1>1. Saved' = Saved \cup {<<c, s, next>>} /\ Written' = Written \cup {<<c, r>> : r \in Elements(ws)}
    BY DEF CheckpointSaved
<1>2. (\A p \in Saved : p[1] # c) /\ (\A w \in Written : w[1] # c)
    <2>1. lastId \in Nat
        BY Shape DEF Base, Saver, GraphShape
    <2>2. (\A p \in Saved : p[1] \in 1 .. lastId) /\ (\A w \in Written : w[1] \in 1 .. lastId)
        BY DEF Base, Saver
    <2>3. c \notin 1 .. lastId
        BY <2>1
    <2>4. QED
        BY <2>2, <2>3
<1> HIDE DEF c
<1>3. \A p \in Saved' : Followed(p[2].log, p[3])
    BY <1>1 DEF SuccInv
<1>4. ASSUME NEW w \in Written PROVE Honest(Saved', w)
    <2>1. Honest(Saved, w) /\ w[1] # c
        BY <1>2 DEF SuccInv
    <2>2. ASSUME NEW p \in Saved', Planned(p, w) PROVE p \in Saved
        BY <1>1, <2>1, <2>2 DEF Planned
    <2>3. QED
        BY <2>1, <2>2 DEF Honest
<1>5. ASSUME NEW r \in Elements(ws) PROVE Honest(Saved', <<c, r>>)
    <2> SUFFICES ASSUME r.kind = "done", NEW p \in Saved', Planned(p, <<c, r>>) PROVE Promised(r.tok[1].d, r.sends)
        BY DEF Honest
    <2>1. p[1] = c /\ \E i \in DOMAIN p[3] : p[3][i].id = r.id
        BY DEF Planned
    <2>2. p = <<c, s, next>>
        BY <1>1, <1>2, <2>1
    <2>3. QED
        BY <2>1, <2>2
<1>6. \A w \in Written' : Honest(Saved', w)
    <2> SUFFICES ASSUME NEW w \in Written' PROVE Honest(Saved', w)
        OBVIOUS
    <2>1. CASE w \in Written
        BY <1>4, <2>1
    <2>2. CASE w \in {<<c, r>> : r \in Elements(ws)}
        <3>1. PICK r \in Elements(ws) : w = <<c, r>>
            BY <2>2
        <3>2. QED
            BY <1>5, <3>1
    <2>3. QED
        BY <1>1, <2>1, <2>2
<1>7. QED
    BY <1>3, <1>6 DEF SuccInv, Completion

LEMMA SuccInvoke ==
    ASSUME Base, SuccInv, phase = "idle", NEW s \in States, s.step \in -1 .. lastId - 1, InvokeFrom(s)
    PROVE SuccInv'
<1> DEFINE s1 == applyWrites(s, InputBatch)
           next == StampNew(NewTasks(Entry), lastId + 1, s1.step + 1)
<1>1. Applied(s, InputBatch, s1) /\ CheckpointSaved(s1, next, <<>>)
    BY InputSaved
<1>2. phase' = "loop" /\ st' = s1
    BY DEF InvokeFrom, Begin, InputBatch
<1>3. graph \in Graphs /\ turns \in Nat
    BY DEF Base, Saver, Run
<1> HIDE DEF s1, next
<1>4. \A ts : Followed(s1.log, ts)
    BY <1>1, <1>3, FollowedInput
<1>5. Elements(<<>>) = {}
    BY DEF Elements
<1>6. QED
    BY <1>1, <1>2, <1>4, <1>5, SuccSaved

\* What a resume replays, and what it plans: every planned node is one or the other.
LEMMA ReplayedNames ==
    ASSUME Base, NEW c \in DOMAIN store, NEW ts, ts = RestoredTasks(c) \o ReplaySends(c)
    PROVE /\ \A i \in OpenIdx(c) : Heads(ts, store[c].next[i])
          /\ \A i \in DOMAIN store[c].next :
                \/ Heads(ts, store[c].next[i])
                \/ \E k \in DOMAIN TokensOf(ReplayWrites(c)) :
                       /\ TokensOf(ReplayWrites(c))[k].n = store[c].next[i].node
                       /\ TokensOf(ReplayWrites(c))[k].arg = store[c].next[i].arg
          /\ Elements(ReplaySends(c)) \subseteq Elements(ts)
<1> DEFINE ws == ReplayWrites(c)
<1>1. Saver /\ Elements(ws) = {ReplayOf(c)[i] : i \in CompletedIdx(c)}
    BY ReplayFacts DEF Base
<1>2. /\ RestoredTasks(c) \in Seq(TaskRecs) /\ ReplaySends(c) \in Seq(TaskRecs)
      /\ Elements(RestoredTasks(c)) = {RestoreOf(c)[i] : i \in OpenIdx(c)}
    BY <1>1, RestoreFacts, ReplaySendFacts
<1>3. Elements(ts) = Elements(RestoredTasks(c)) \cup Elements(ReplaySends(c))
    <2> HIDE DEF TaskRecs, RestoredTasks, ReplaySends
    <2>1. QED
        BY <1>2, ConcatElements
<1>4. ASSUME NEW i \in OpenIdx(c) PROVE Heads(ts, store[c].next[i])
    <2>1. i \in PlanIdx(c)
        BY DEF OpenIdx
    <2>2. /\ RestoreOf(c)[i] \in Elements(ts) /\ RestoreOf(c)[i].node = store[c].next[i].node
          /\ RestoreOf(c)[i].arg = store[c].next[i].arg
        BY <1>2, <1>3, <2>1 DEF RestoreOf
    <2>3. QED
        BY <2>2 DEF Heads, Elements
<1>5. DOMAIN TokensOf(ws) = DOMAIN ws /\ \A k \in DOMAIN ws : TokensOf(ws)[k] = ws[k].tok[1]
    BY DEF TokensOf
<1> HIDE DEF ws
<1>6. ASSUME NEW i \in DOMAIN store[c].next
      PROVE \/ Heads(ts, store[c].next[i])
            \/ \E k \in DOMAIN TokensOf(ws) : /\ TokensOf(ws)[k].n = store[c].next[i].node
                                               /\ TokensOf(ws)[k].arg = store[c].next[i].arg
    <2>1. i \in PlanIdx(c)
        BY DEF PlanIdx
    <2>2. CASE Completed(c, i)
        <3>1. i \in CompletedIdx(c)
            BY <2>1, <2>2 DEF CompletedIdx
        <3>2. PICK k \in DOMAIN ws : ws[k] = ReplayOf(c)[i]
            BY <1>1, <3>1 DEF Elements
        <3>3. ReplayOf(c)[i].tok = DoneWrite(c, i).tok /\ WorkOf(store[c].next[i], DoneWrite(c, i).tok)
            BY <1>1, <2>1, <2>2, DoneFacts DEF ReplayOf, Write
        <3>4. QED
            BY <1>5, <3>2, <3>3 DEF WorkOf, Work
    <2>3. CASE ~Completed(c, i)
        BY <1>4, <2>1, <2>3 DEF OpenIdx
    <2>4. QED
        BY <2>2, <2>3
<1>7. QED
    BY <1>3, <1>4, <1>6 DEF ws

\* The work replayed leads to what is planned.
LEMMA ReplayedPromises ==
    ASSUME Base, SuccInv, NEW c \in DOMAIN store, NEW ts, ts = RestoredTasks(c) \o ReplaySends(c)
    PROVE \A k \in DOMAIN TokensOf(ReplayWrites(c)) : Promised(TokensOf(ReplayWrites(c))[k].d, ts)
<1> DEFINE ws == ReplayWrites(c)
           p == <<c, store[c].st, store[c].next>>
<1>1. /\ Saver /\ Elements(ws) = {ReplayOf(c)[i] : i \in CompletedIdx(c)} /\ p \in Saved
    BY ReplayFacts, ReadFacts DEF Base
<1>2. ASSUME NEW i \in CompletedIdx(c)
      PROVE ReplayOf(c)[i].tok = DoneWrite(c, i).tok /\ Promised(DoneWrite(c, i).tok[1].d, ts)
    <2>1. i \in PlanIdx(c) /\ Completed(c, i) /\ i \in DOMAIN store[c].next
        BY DEF CompletedIdx, PlanIdx
    <2>2. /\ DoneWrite(c, i) \in store[c].w /\ DoneWrite(c, i).kind = "done"
          /\ DoneWrite(c, i).id = store[c].next[i].id
        BY <1>1, <2>1, DoneFacts
    <2>3. <<c, DoneWrite(c, i)>> \in Written
        BY <1>1, <2>2, ReadFacts
    <2>4. ReplayOf(c)[i].tok = DoneWrite(c, i).tok
        BY <2>1 DEF ReplayOf, Write
    <2>5. \A k \in DOMAIN DoneWrite(c, i).sends : NewTask(DoneWrite(c, i).sends[k]) \in Elements(ts)
        BY <1>1, ReplayedNames, ReplaySendFacts
    <2> HIDE DEF DoneWrite
    <2>6. Promised(DoneWrite(c, i).tok[1].d, DoneWrite(c, i).sends)
        <3>1. Honest(Saved, <<c, DoneWrite(c, i)>>)
            BY <2>3 DEF SuccInv
        <3>2. Planned(p, <<c, DoneWrite(c, i)>>)
            BY <2>1, <2>2 DEF Planned
        <3>3. QED
            BY <1>1, <2>2, <3>1, <3>2 DEF Honest
    <2>7. \A e : Heads(DoneWrite(c, i).sends, e) => Heads(ts, e)
        <3>1. \A d : NewTask(d).node = d.node /\ NewTask(d).arg = d.arg
            BY DEF NewTask
        <3> HIDE DEF NewTask
        <3>2. QED
            BY <2>5, <3>1 DEF Heads, Elements
    <2>8. QED
        BY <2>4, <2>6, <2>7 DEF Promised
<1>3. DOMAIN TokensOf(ws) = DOMAIN ws /\ \A k \in DOMAIN ws : TokensOf(ws)[k] = ws[k].tok[1]
    BY DEF TokensOf
<1> HIDE DEF ws
<1>4. ASSUME NEW k \in DOMAIN TokensOf(ws) PROVE Promised(TokensOf(ws)[k].d, ts)
    <2>1. PICK i \in CompletedIdx(c) : ws[k] = ReplayOf(c)[i]
        BY <1>1, <1>3 DEF Elements
    <2>2. QED
        BY <1>2, <1>3, <2>1
<1>5. QED
    BY <1>4 DEF ws

LEMMA SuccResume ==
    ASSUME Base, SuccInv, NEW c \in DOMAIN store, NEW a \in SUBSET AskIds(c), Resume(c, a)
    PROVE SuccInv'
<1> DEFINE s == store[c].st
           ws == ReplayWrites(c)
           ts == RestoredTasks(c) \o ReplaySends(c)
<1>1. Saved' = Saved /\ Written' = Written
    BY BaseResume
<1>2. /\ phase' = "loop" /\ st' = (IF ws = <<>> THEN s ELSE applyWrites(s, ws)) /\ tasks' = ts
    BY DEF Resume, Begin
<1>3. s \in States /\ ws \in Seq(Batches) /\ graph \in Graphs /\ <<c, s, store[c].next>> \in Saved
    BY ReadFacts, ReplayFacts DEF Base, Saver
<1>4. Followed(s.log, store[c].next)
    BY <1>3 DEF SuccInv
<1>5. /\ \A k \in DOMAIN TokensOf(ws) : Promised(TokensOf(ws)[k].d, ts)
      /\ \A h \in DOMAIN store[c].next :
            \/ Heads(ts, store[c].next[h])
            \/ \E k \in DOMAIN TokensOf(ws) : /\ TokensOf(ws)[k].n = store[c].next[h].node
                                               /\ TokensOf(ws)[k].arg = store[c].next[h].arg
    BY ReplayedNames, ReplayedPromises
<1> HIDE DEF s, ws, ts
<1>6. Followed(st'.log, ts)
    <2>1. CASE ws = <<>>
        <3>1. DOMAIN TokensOf(ws) = {}
            BY <2>1 DEF TokensOf
        <3>2. QED
            BY <1>2, <1>4, <1>5, <2>1, <3>1, FollowedCovered DEF Covers
    <2>2. CASE ws # <<>>
        <3>1. Applied(s, ws, st')
            BY <1>2, <1>3, <2>2, ApplyFacts
        <3>2. s.log \in Seq(Tokens) /\ TokensOf(ws) \in Seq(Tokens) /\ st'.log = s.log \o TokensOf(ws)
            BY <1>3, <3>1 DEF Applied, States
        <3> HIDE DEF Tokens
        <3>3. Joined(st'.log, s.log, TokensOf(ws))
            BY <3>2, ConcatFacts
        <3>4. QED
            BY <1>4, <1>5, <3>3, FollowedJoined
    <2>3. QED
        BY <2>1, <2>2
<1>7. QED
    BY <1>1, <1>2, <1>6 DEF SuccInv, Completion

LEMMA SuccStarts ==
    ASSUME Base, SuccInv, Starts PROVE SuccInv'
<1>1. ASSUME NEW c \in Loadable, InvokeNewTurn(c) PROVE SuccInv'
    <2>1. c \in DOMAIN store /\ Saver
        BY LoadableStored DEF Base
    <2>2. store[c].st \in States /\ store[c].st.step \in -1 .. c - 2 /\ c \in 1 .. lastId
        BY <2>1, ReadFacts
    <2>3. lastId \in Nat
        BY Shape DEF Base, Saver, GraphShape
    <2>4. store[c].st.step \in -1 .. lastId - 1
        BY <2>2, <2>3
    <2>5. QED
        BY <1>1, <2>2, <2>4, SuccInvoke DEF InvokeNewTurn
<1>2. ASSUME InvokeFresh PROVE SuccInv'
    <2>1. graph \in Graphs /\ lastId \in Nat
        BY Shape DEF Base, Saver, GraphShape
    <2>2. EmptyState \in States /\ EmptyState.step = -1
        BY <2>1, EmptyStateType DEF EmptyState
    <2>3. EmptyState.step \in -1 .. lastId - 1
        BY <2>1, <2>2
    <2>4. QED
        BY <1>2, <2>2, <2>3, SuccInvoke DEF InvokeFresh
<1>3. ASSUME NEW c \in Loadable, NEW a \in SUBSET AskIds(c), Resume(c, a) PROVE SuccInv'
    BY <1>3, LoadableStored, SuccResume DEF Base
<1>4. QED
    BY <1>1, <1>2, <1>3 DEF Starts

LEMMA SuccPauseBefore ==
    ASSUME Base, SuccInv, PauseBefore PROVE SuccInv'
<1> DEFINE next == StampDispatchIDs(tasks, cur, st.step + 1)
<1>1. PICK n \in Nodes : CheckpointSaved(st, next, <<Reserved(BoundaryId(n), "before", <<>>)>>)
    BY PauseBeforeFacts
<1>2. phase = "loop" /\ phase' = "flush" /\ st' = st /\ result' = "interrupt"
    BY DEF PauseBefore, AtHead, Stop
<1>3. graph \in Graphs /\ tasks \in Seq(TaskRecs)
    BY <1>2, CurFacts DEF Base
<1>4. Covers(next, tasks)
    BY <1>3, StampedCovers
<1>5. \A r \in Elements(<<Reserved(BoundaryId(n), "before", <<>>)>>) : r.kind # "done"
    BY DEF Elements, Reserved, Pending
<1> HIDE DEF next
<1>6. Followed(st.log, next)
    BY <1>2, <1>4, FollowedCovered DEF SuccInv
<1>7. QED
    BY <1>1, <1>2, <1>5, <1>6, SuccSaved

LEMMA SuccDispatch ==
    ASSUME Base, SuccInv, Dispatch PROVE SuccInv'
<1>1. /\ phase = "loop" /\ phase' = "tasks" /\ st' = st /\ tasks' = Active(tasks)
      /\ outs' = [i \in DOMAIN Active(tasks) |-> IF Active(tasks)[i].handler THEN HandlerRuns ELSE Undecided]
    BY DEF Dispatch, AtHead, PastBreakpoints
<1>2. Saved' = Saved /\ Written' = Written
    BY BaseDispatch
<1>3. \A i \in DOMAIN outs' : outs'[i].s # "done"
    BY <1>1 DEF HandlerRuns, Undecided, Outcome
<1>4. graph \in Graphs /\ tasks \in Seq(TaskRecs)
    BY <1>1, CurFacts DEF Base
<1>5. Followed(st'.log, tasks')
    <2>1. Covers(Active(tasks), tasks)
        BY <1>4, StampedCovers
    <2>2. QED
        BY <1>1, <2>1, FollowedCovered DEF SuccInv
<1>6. QED
    BY <1>1, <1>2, <1>3, <1>5 DEF SuccInv, Chose, Completion

LEMMA SuccTask ==
    ASSUME Base, SuccInv, TaskStep PROVE SuccInv'
<1>1. PICK i \in DOMAIN outs : \E out \in Outs : Progress(i, out)
    BY ProgressFacts
<1>2. PICK out \in Outs : Progress(i, out)
    BY <1>1
<1>3. /\ phase = "tasks" /\ outs' = [outs EXCEPT ![i] = out] /\ UNCHANGED <<phase, st, tasks>>
      /\ Chose(out)
    BY <1>2 DEF Progress, Chose
<1>4. Saved' = Saved /\ \A w \in Written' : w \in Written \/ w[2].kind # "done"
    <2>1. \A id : Reserved(id, "err", <<>>).kind # "done"
        BY NotDone
    <2> HIDE DEF Reserved
    <2>2. QED
        BY <1>2, <2>1, ProgressWrites
<1>5. \A w \in Written' : Honest(Saved', w)
    BY <1>4 DEF SuccInv, Honest
<1>6. \A k \in DOMAIN outs' : Chose(outs'[k])
    <2>1. \A k \in DOMAIN outs' : outs'[k] = out \/ (k \in DOMAIN outs /\ outs'[k] = outs[k])
        BY <1>3
    <2>2. QED
        BY <1>3, <2>1 DEF SuccInv
<1>7. QED
    BY <1>3, <1>4, <1>5, <1>6 DEF SuccInv, Completion

\* A checkpoint that names the dispatched tasks follows as they do.
LEMMA DispatchedCovers ==
    ASSUME NEW next, Dispatched(next) PROVE Covers(next, tasks)
BY DEF Dispatched, Covers, Heads

LEMMA SuccAbort ==
    ASSUME Base, SuccInv, Abort PROVE SuccInv'
<1>1. phase = "tasks" /\ phase' = "flush" /\ st' = st /\ result' = "error"
    BY AbortEffect DEF Abort, Stop
<1>2. CASE UNCHANGED <<graph, store, lastId, io, cur>>
    <2>1. Saved' = Saved /\ Written' = Written
        BY <1>2 DEF Saved, Written, PutsOf, WritesOf, StoredPuts, StoredWrites, NewPuts, NewWrites
    <2>2. QED
        BY <1>1, <2>1, SuccQuiet
<1>3. ASSUME NEW next, NEW ws, AbortSaves(next, ws) PROVE SuccInv'
    <2>1. CheckpointSaved(st, next, ws) /\ Covers(next, tasks)
        BY <1>3, DispatchedCovers DEF AbortSaves
    <2>2. \A r \in Elements(ws) : r.kind # "done"
        BY <1>3 DEF AbortSaves, Reserved, Pending
    <2>3. Followed(st.log, next)
        BY <1>1, <2>1, FollowedCovered DEF SuccInv
    <2>4. QED
        BY <1>1, <2>1, <2>2, <2>3, SuccSaved
<1>4. QED
    BY <1>2, <1>3, AbortEffect

LEMMA SuccPauseInNode ==
    ASSUME Base, SuccInv, NoForks, PauseInNode PROVE SuccInv'
<1>1. phase = "tasks" /\ phase' = "flush" /\ st' = st /\ result' = "interrupt" /\ AllOut /\ Having("ask") # {}
    BY PauseEffect DEF PauseInNode, Stop
<1>2. PICK next, ws : PauseSaves(next, ws)
    BY PauseEffect
<1>3. CheckpointSaved(st, next, ws) /\ Covers(next, tasks)
    BY <1>2, DispatchedCovers DEF PauseSaves
<1>4. ASSUME NEW r \in Elements(ws), r.kind = "done" PROVE Promised(r.tok[1].d, r.sends)
    <2>1. PICK i \in DOMAIN outs : \/ r = Reserved(next[i].id, "err", <<>>)
                                   \/ r = Reserved(next[i].id, "ask", outs[i].pre)
                                   \/ r = CompletedWrites(i, next[i].id) /\ outs[i].s = "done"
        BY <1>2 DEF PauseSaves, Paused
    <2>2. r = CompletedWrites(i, next[i].id) /\ outs[i].s = "done"
        BY <1>4, <2>1 DEF Reserved, Pending
    <2>3. r.tok = outs[i].tok /\ r.sends = outs[i].sends
        BY <2>2 DEF CompletedWrites, Pending
    <2>4. Chose(outs[i])
        BY <1>1 DEF SuccInv
    <2>5. CASE outs[i].sends = <<>>
        BY <1>1, <2>2, <2>3, <2>4, <2>5 DEF NoForks, Chose, Promised
    <2>6. CASE outs[i].sends # <<>>
        BY <2>2, <2>3, <2>4, <2>6 DEF Chose, Promised, Heads
    <2>7. QED
        BY <2>5, <2>6
<1>5. Followed(st.log, next)
    BY <1>1, <1>3, FollowedCovered DEF SuccInv
<1>6. QED
    BY <1>1, <1>3, <1>4, <1>5, SuccSaved

\* A commit plans the successors of what ran.
LEMMA CommitFollows ==
    ASSUME Base, SuccInv, phase = "tasks", AllDone, NEW s, Commits(applyWrites(st, CommitBatches), s)
    PROVE Followed(s.log, NextTasks)
<1> DEFINE t == TokensOf(CommitBatches)
<1>1. DOMAIN t = DOMAIN outs /\ \A i \in DOMAIN outs : t[i] = outs[i].tok[1]
    BY DEF TokensOf, CommitBatches, Write
<1>2. \A i \in DOMAIN outs : /\ outs[i].s = "done" /\ Chose(outs[i]) /\ t[i].n = tasks[i].node
                             /\ t[i].arg = tasks[i].arg /\ t[i].d = Chosens(i)
    <2> TAKE i \in DOMAIN outs
    <2>1. outs[i].s = "done" /\ Chose(outs[i]) /\ WorkOf(tasks[i], outs[i].tok)
        BY OutFacts DEF AllDone, SuccInv, OutOK
    <2>2. QED
        BY <1>1, <2>1 DEF Chose, Chosens, Work, WorkOf
<1>3. /\ st \in States /\ CommitBatches \in Seq(Batches) /\ st.log \in Seq(Tokens)
      /\ t \in Seq(Tokens) /\ s.log = st.log \o t
    BY BatchFacts DEF Base, Run, Commits, Applied, States
<1> HIDE DEF t, Tokens
<1>4. Joined(s.log, st.log, t)
    BY <1>3, ConcatFacts
<1>5. \A h \in DOMAIN tasks : \E k \in DOMAIN t : t[k].n = tasks[h].node /\ t[k].arg = tasks[h].arg
    <2>1. DOMAIN outs = DOMAIN tasks
        BY DEF Base, Superstep
    <2>2. QED
        BY <1>1, <1>2, <2>1
<1>6. ASSUME NEW i \in DOMAIN outs, NEW k \in DOMAIN Chosens(i) PROVE Heads(NextTasks, Chosens(i)[k])
    <2>1. /\ NewTask(Chosens(i)[k]) \in Elements(RoutedTasks) /\ RoutedTasks \in Seq(TaskRecs)
          /\ TriggeredTasks(Committed) \in Seq(TaskRecs) /\ NextTasks = RoutedTasks \o TriggeredTasks(Committed)
        BY RoutedFacts, TriggeredFacts, NextFacts DEF Base, Saver
    <2>2. NewTask(Chosens(i)[k]).node = Chosens(i)[k].node /\ NewTask(Chosens(i)[k]).arg = Chosens(i)[k].arg
        BY DEF NewTask
    <2> HIDE DEF NewTask, RoutedTasks, TriggeredTasks, NextTasks, Committed, TaskRecs, Chosens
    <2>3. NewTask(Chosens(i)[k]) \in Elements(NextTasks)
        BY <2>1, ConcatElements
    <2>4. QED
        BY <2>2, <2>3 DEF Heads, Elements
<1>7. \A k \in DOMAIN t : Promised(t[k].d, NextTasks)
    BY <1>1, <1>2, <1>6 DEF Promised
<1>8. QED
    BY <1>4, <1>5, <1>7, FollowedJoined DEF SuccInv

LEMMA SuccCommit ==
    ASSUME Base, SuccInv, NothingRepeats, Commit PROVE SuccInv'
<1>1. PICK s, next, ws : CommitSaves(s, next, ws)
    BY CommitEffect
<1>2. /\ phase = "tasks" /\ AllDone /\ Commits(applyWrites(st, CommitBatches), s) /\ CheckpointSaved(s, next, ws)
      /\ st' = s /\ tasks' = NextTasks /\ NextTasks \in Seq(TaskRecs) /\ phase' \in {"loop", "flush"}
      /\ \/ next = StampDispatchIDs(NextTasks, cur, s.step + 1)
         \/ next = StampNew(NextTasks, lastId + 1, s.step + 1)
    BY <1>1 DEF CommitSaves
<1>3. AllOut /\ (phase' = "flush" => result' # "ok") /\ graph \in Graphs
    BY DEF Commit, Base, Saver
<1>4. Followed(s.log, NextTasks)
    BY <1>2, CommitFollows
<1>5. Followed(s.log, next)
    <2> HIDE DEF NextTasks
    <2>1. Covers(next, NextTasks)
        BY <1>2, <1>3, StampedCovers
    <2>2. QED
        BY <1>4, <2>1, FollowedCovered
<1>6. ASSUME NEW r \in Elements(ws), r.kind = "done" PROVE ~ \E k \in DOMAIN next : next[k].id = r.id
    <2>1. PICK i \in DOMAIN outs : r = CompletedWrites(i, TaskID(lastId + 1, s.step + 1, tasks[i]))
        BY <1>1, <1>6 DEF CommitSaves
    <2>2. r.id = TaskID(lastId + 1, s.step + 1, tasks[i])
        BY <2>1 DEF CompletedWrites, Pending
    <2> HIDE DEF TaskID
    <2>3. QED
        BY <1>1, <1>3, <2>2, CommitNames
<1> HIDE DEF NextTasks
<1>7. QED
    BY <1>2, <1>3, <1>4, <1>5, <1>6, SuccSaved

\* A run completes with no task left.
LEMMA SuccStopsHere ==
    ASSUME Base, SuccInv, StopsHere PROVE SuccInv'
<1>1. Saved' = Saved /\ Written' = Written
    BY BaseStopsHere
<1>2. CASE Finish
    <2>1. phase = "loop" /\ phase' = "flush" /\ st' = st /\ result' = "ok" /\ Active(tasks) = <<>>
        BY <1>2 DEF Finish, AtHead, Stop
    <2>2. graph \in Graphs /\ tasks \in Seq(TaskRecs)
        BY <2>1, CurFacts DEF Base
    <2>3. Followed(st.log, <<>>)
        <3>1. Covers(<<>>, tasks)
            BY <2>1, <2>2, StampedCovers
        <3>2. QED
            BY <2>1, <3>1, FollowedCovered DEF SuccInv
    <2>4. QED
        BY <1>1, <2>1, <2>3 DEF SuccInv, Completion
<1>3. CASE ~Finish
    <2>1. phase' = "flush" /\ result' # "ok"
        BY <1>3 DEF StopsHere, Drained, RecursionError, Cancel, Stop
    <2>2. QED
        BY <1>1, <2>1, SuccQuiet
<1>4. QED
    BY <1>2, <1>3

LEMMA SuccStep ==
    ASSUME Base, SuccInv, NothingRepeats, NoForks, [Next]_vars PROVE SuccInv'
<1>1. CASE SaverStep
    <2>1. UNCHANGED <<phase, st, tasks, outs, result>>
        BY <1>1 DEF SaverStep
    <2>2. Saved' \subseteq Saved /\ Written' \subseteq Written
        BY <1>1, BaseSaver DEF SaverExecutes
    <2>3. QED
        BY <2>1, <2>2, SuccQuiet
<1>2. CASE Ends
    <2>1. phase' = "idle"
        BY <1>2 DEF Ends, Flush, Crash, Reset
    <2>2. QED
        BY <1>2, <2>1, BaseEnds, SuccQuiet
<1>3. CASE Idles
    <2>1. UNCHANGED <<phase, st, tasks, outs, result>>
        BY <1>3 DEF Idles, RequestDrain, vars, runVars
    <2>2. QED
        BY <1>3, <2>1, BaseIdles, SuccQuiet
<1>4. QED
    BY <1>1, <1>2, <1>3, Steps, SuccStarts, SuccStopsHere, SuccPauseBefore, SuccDispatch, SuccTask, SuccAbort,
       SuccPauseInNode, SuccCommit

LEMMA SuccStart ==
    ASSUME Init PROVE SuccInv
<1>1. store = <<>> /\ io = <<>> /\ phase = "idle"
    BY DEF Init
<1>2. Saved = {} /\ Written = {}
    BY <1>1 DEF Saved, Written, PutsOf, WritesOf, StoredPuts, StoredWrites, NewPuts, NewWrites
<1>3. QED
    BY <1>1, <1>2 DEF SuccInv, Completion

\* What was written in this turn.
LEMMA TurnStartFacts ==
    ASSUME NEW l \in Seq(Tokens)
    PROVE /\ TurnStart(l) \in Nat /\ \A h \in DOMAIN l : l[h].n = END => h <= TurnStart(l)
          /\ TurnStart(l) # 0 => TurnStart(l) \in DOMAIN l /\ l[TurnStart(l)].n = END
<1> DEFINE S == {0} \cup {h \in DOMAIN l : l[h].n = END}
<1>1. Len(l) \in Nat /\ DOMAIN l = 1 .. Len(l)
    OBVIOUS
<1>2. S \subseteq Nat /\ S # {} /\ \A x \in S : x <= Len(l)
    BY <1>1
<1>3. Max(S) \in S /\ \A x \in S : x <= Max(S)
    <2> HIDE DEF S
    <2>1. QED
        BY <1>1, <1>2, MaxFacts
<1>4. TurnStart(l) = Max(S)
    BY DEF TurnStart
<1> HIDE DEF TurnStart
<1>5. QED
    BY <1>2, <1>3, <1>4

LEMMA InTurnFacts ==
    ASSUME NEW l \in Seq(Tokens)
    PROVE /\ \A i \in InTurn(l) : i \in DOMAIN l /\ ThisTurn(l, i)
          /\ \A i \in DOMAIN l : ThisTurn(l, i) => i \in InTurn(l)
<1> DEFINE t == TurnStart(l)
<1>1. Len(l) \in Nat /\ DOMAIN l = 1 .. Len(l)
    OBVIOUS
<1>2. /\ t \in Nat /\ \A h \in DOMAIN l : l[h].n = END => h <= t
      /\ t # 0 => t \in DOMAIN l /\ l[t].n = END
    BY TurnStartFacts
<1>3. InTurn(l) = t + 1 .. Len(l)
    BY DEF InTurn
<1> HIDE DEF t
<1>4. ASSUME NEW i \in InTurn(l) PROVE i \in DOMAIN l /\ ThisTurn(l, i)
    <2>1. i \in DOMAIN l /\ i > t
        BY <1>1, <1>2, <1>3
    <2>2. \A h \in DOMAIN l : h >= i => ~(h <= t)
        BY <1>1, <1>2, <2>1
    <2>3. QED
        BY <1>2, <2>1, <2>2 DEF ThisTurn
<1>5. ASSUME NEW i \in DOMAIN l, ThisTurn(l, i) PROVE i \in InTurn(l)
    <2>1. ~(t \in DOMAIN l /\ l[t].n = END /\ t >= i)
        BY <1>5 DEF ThisTurn
    <2>2. t < i
        BY <1>1, <1>2, <2>1
    <2>3. QED
        BY <1>1, <1>2, <1>3, <2>2
<1>6. QED
    BY <1>4, <1>5

\* When a run completes, every destination a task of this turn chose has run
\* after it, in the behaviours where no superstep pauses on a task that took an
\* edge, and no task is planned right after itself: a resume then forgets no
\* successor, and takes no task for completed that is not.
THEOREM SuccessorsFollow == Spec /\ []NothingRepeats /\ []NoForks => []EverySuccessorRuns
<1>1. Base /\ SuccInv => EverySuccessorRuns
    <2> SUFFICES ASSUME Base, SuccInv, Completion, NEW i \in InTurn(st.log), NEW k \in DOMAIN st.log[i].d,
                        st.log[i].d[k].node # END
                 PROVE \E j \in i + 1 .. Len(st.log) :
                           st.log[j].n = st.log[i].d[k].node /\ st.log[j].arg = st.log[i].d[k].arg
        BY DEF EverySuccessorRuns
    <2>1. st.log \in Seq(Tokens)
        BY DEF Base, Run, States
    <2>2. i \in DOMAIN st.log /\ ThisTurn(st.log, i)
        BY <2>1, InTurnFacts
    <2>3. Followed(st.log, <<>>)
        BY DEF SuccInv
    <2>4. ~Heads(<<>>, st.log[i].d[k])
        BY DEF Heads
    <2>5. RunsAfter(st.log, i, st.log[i].d[k])
        BY <2>2, <2>3, <2>4 DEF Followed
    <2>6. PICK j \in DOMAIN st.log : /\ j > i /\ st.log[j].n = st.log[i].d[k].node
                                    /\ st.log[j].arg = st.log[i].d[k].arg
        BY <2>5 DEF RunsAfter
    <2>7. j \in i + 1 .. Len(st.log)
        <3>1. DOMAIN st.log = 1 .. Len(st.log) /\ Len(st.log) \in Nat
            BY <2>1
        <3>2. QED
            BY <2>2, <2>6, <3>1
    <2>8. QED
        BY <2>6, <2>7
<1>2. Init => SuccInv
    BY SuccStart
<1>3. Base /\ SuccInv /\ NothingRepeats /\ NoForks /\ [Next]_vars => SuccInv'
    BY SuccStep
<1>4. QED
    BY BaseAlways, <1>1, <1>2, <1>3, PTL DEF Spec
-----------------------------------------------------------------------------
(* Breakpoints.                                                             *)

\* What the theorem asks of a behaviour: a superstep with a breakpoint node has
\* no other one, and no task of it asks or leaves an ERROR write.
Alone ==
    \A k \in DOMAIN tasks : tasks[k].node \in InterruptBefore =>
        /\ \A i \in DOMAIN tasks : tasks[i].node \in InterruptBefore => tasks[i].node = tasks[k].node
        /\ phase = "tasks" => \A i \in DOMAIN outs : outs[i].s # "ask" /\ ~outs[i].nodeErr

\* An identity stamped no later than against checkpoint c, for the superstep after n.
Dated(id, c, n) == id.cp <= c /\ id.step <= n + 1
Holds(ts, id) == \E i \in DOMAIN ts : ts[i].id = id
\* The run that wrote w on the checkpoint of p stopped in front of the task p[3][i].
Met(w, p, i) == w[2].kind = "before" /\ p[1] = w[1] /\ p[3][i].node = w[2].id.node
\* The position c and state s of a run against a saved checkpoint.
Behind(p, c, s) == p[1] <= c /\ p[2].step <= s.step
\* A breakpoint write names a task of its checkpoint, stamped before it was saved
\* and not held by a later checkpoint.
Stopped(w, P, B) ==
    w[2].kind = "before" =>
        w[2].id.node \in B /\ \A p \in P : p[1] = w[1] => Names(p[3], w[2].id.node)
LeftBehind(w, p, P) ==
    \A i \in DOMAIN p[3] : Met(w, p, i) =>
        p[3][i].id.cp < w[1] /\ \A q \in P : w[1] < q[1] => ~Holds(q[3], p[3][i].id)
Passes(w, p, ts, sk) ==
    \A i \in DOMAIN p[3] : Met(w, p, i) => \A k \in DOMAIN ts : ts[k].id = p[3][i].id => ts[k].node \in sk
PassInv ==
    /\ \A p, q \in Saved : p[1] <= q[1] => p[2].step <= q[2].step
    /\ \A p \in Saved : \A i \in DOMAIN p[3] : Dated(p[3][i].id, p[1], p[2].step)
    /\ \A w \in Written : Stopped(w, Saved, InterruptBefore)
    /\ \A w \in Written : \A p \in Saved : LeftBehind(w, p, Saved)
    /\ phase # "idle" => \A p \in Saved : Behind(p, cur, st)
    /\ phase \in {"loop", "tasks"} => \A k \in DOMAIN tasks : tasks[k].id # NoId => Dated(tasks[k].id, cur, st.step)
    /\ phase = "loop" => \A w \in Written : \A p \in Saved : Passes(w, p, tasks, skip)
\* The run ends, or goes on where it is, and stops in front of nothing more.
LEMMA PassQuiet ==
    ASSUME PassInv, graph' = graph, Saved' \subseteq Saved, \A w \in Written' : w \in Written \/ w[2].kind # "before",
           phase' # "idle" => phase # "idle" /\ UNCHANGED <<cur, st>>,
           phase' \in {"loop", "tasks"} => UNCHANGED <<phase, tasks, skip>>
    PROVE PassInv'
<1>1. InterruptBefore' = InterruptBefore
    BY GraphFixed DEF SameGraph
<1>2. \A w \in Written' : Stopped(w, Saved', InterruptBefore)
    BY DEF PassInv, Stopped
<1>3. ASSUME NEW w \in Written', NEW p \in Saved' PROVE LeftBehind(w, p, Saved')
    <2>1. CASE w \in Written
        <3>1. LeftBehind(w, p, Saved)
            BY <2>1 DEF PassInv
        <3>2. QED
            BY <3>1 DEF LeftBehind
    <2>2. CASE w[2].kind # "before"
        BY <2>2 DEF LeftBehind, Met
    <2>3. QED
        BY <2>1, <2>2
<1>4. ASSUME phase' = "loop", NEW w \in Written', NEW p \in Saved' PROVE Passes(w, p, tasks', skip')
    <2>1. CASE w \in Written
        BY <1>4, <2>1 DEF PassInv
    <2>2. CASE w[2].kind # "before"
        BY <2>2 DEF Passes, Met
    <2>3. QED
        BY <2>1, <2>2
<1>5. \A p, q \in Saved' : p[1] <= q[1] => p[2].step <= q[2].step
    BY DEF PassInv
<1>6. \A p \in Saved' : \A i \in DOMAIN p[3] : Dated(p[3][i].id, p[1], p[2].step)
    BY DEF PassInv
<1>7. phase' # "idle" => \A p \in Saved' : Behind(p, cur', st')
    BY DEF PassInv
<1>8. phase' \in {"loop", "tasks"} => \A k \in DOMAIN tasks' : tasks'[k].id # NoId => Dated(tasks'[k].id, cur', st'.step)
    BY DEF PassInv
<1>9. QED
    BY <1>1, <1>2, <1>3, <1>4, <1>5, <1>6, <1>7, <1>8 DEF PassInv

\* What the saved plans and positions are made of.
LEMMA SavedFacts ==
    ASSUME Base
    PROVE /\ lastId \in Nat /\ NoId \notin RealIDs
          /\ \A p \in Saved : /\ p[1] \in Nat /\ p[1] <= lastId /\ p[2].step \in Int
                             /\ \A i \in DOMAIN p[3] : p[3][i].id \in RealIDs /\ p[3][i].id.node = p[3][i].node
          /\ \A w \in Written : w[1] \in Nat /\ w[1] <= lastId
<1>1. Saver /\ lastId \in Nat
    BY Shape DEF Base, Saver, GraphShape
<1>2. \A p \in Saved : p[1] \in 1 .. lastId /\ p[2] \in States /\ p[3] \in Plans
    BY <1>1, SavedTypes DEF Saver
<1>3. \A w \in Written : w[1] \in 1 .. lastId
    BY <1>1 DEF Saver
<1>4. \A q \in Plans : \A i \in DOMAIN q : q[i].id \in RealIDs /\ q[i].id.node = q[i].node
    BY DEF Plans
<1>5. \A s \in States : s.step \in Int
    BY DEF States
<1>6. NoId \notin RealIDs
    BY DEF NoId, RealIDs
<1> HIDE DEF Plans, States, RealIDs, NoId
<1>7. QED
    BY <1>1, <1>2, <1>3, <1>4, <1>5, <1>6

\* A checkpoint that goes no step back, whose plan holds no identity a run has
\* stopped in front of, is saved with the writes ws.
SavesPast(s, next, ws, P, W, B, n) ==
    /\ next \in Plans /\ s.step \in Int
    /\ \A p \in P : p[2].step <= s.step
    /\ \A i \in DOMAIN next : Dated(next[i].id, n, s.step)
    /\ \A w \in W : \A p \in P : \A i \in DOMAIN p[3] : Met(w, p, i) => ~Holds(next, p[3][i].id)
    /\ \A r \in ws : r.kind = "before" =>
          /\ r.id.node \in B /\ Names(next, r.id.node)
          /\ \A i \in DOMAIN next : next[i].node = r.id.node => next[i].id.cp < n
LEMMA PassSaved ==
    ASSUME Base, PassInv, NEW s, NEW next, NEW ws, CheckpointSaved(s, next, ws),
           SavesPast(s, next, Elements(ws), Saved, Written, InterruptBefore, lastId + 1),
           st'.step = s.step, phase' \in {"loop", "flush"},
           phase' = "loop" => \A k \in DOMAIN tasks' : tasks'[k].id = NoId
    PROVE PassInv'
<1> DEFINE c == lastId + 1
           new == <<c, s, next>>
<1>1. /\ graph' = graph /\ cur' = c /\ Saved' = Saved \cup {new}
      /\ Written' = Written \cup {<<c, r>> : r \in Elements(ws)}
    BY DEF CheckpointSaved
<1>2. InterruptBefore' = InterruptBefore
    BY <1>1, GraphFixed DEF SameGraph
<1>3. new[1] = c /\ new[2] = s /\ new[3] = next
    OBVIOUS
<1> HIDE DEF new
<1>4. /\ lastId \in Nat /\ NoId \notin RealIDs
      /\ \A p \in Saved : /\ p[1] \in Nat /\ p[1] <= lastId /\ p[2].step \in Int
                         /\ \A i \in DOMAIN p[3] : p[3][i].id \in RealIDs /\ p[3][i].id.node = p[3][i].node
      /\ \A w \in Written : w[1] \in Nat /\ w[1] <= lastId
    BY SavedFacts
<1>5. c \in Nat /\ (\A p \in Saved : p[1] < c /\ p[1] # c) /\ (\A w \in Written : w[1] < c /\ w[1] # c)
    BY <1>4
<1> HIDE DEF c
<1>6. \A p \in Saved : p[2].step <= s.step /\ s.step \in Int
    BY DEF SavesPast
<1>7. \A p, q \in Saved' : p[1] <= q[1] => p[2].step <= q[2].step
    <2> SUFFICES ASSUME NEW p \in Saved', NEW q \in Saved', p[1] <= q[1] PROVE p[2].step <= q[2].step
        OBVIOUS
    <2>1. CASE p \in Saved /\ q \in Saved
        BY <2>1 DEF PassInv
    <2>2. CASE p \in Saved /\ q = new
        BY <1>3, <1>6, <2>2
    <2>3. CASE p = new /\ q \in Saved
        <3>1. p[1] = c /\ q[1] < c /\ q[1] \in Nat
            BY <1>3, <1>4, <1>5, <2>3
        <3>2. QED
            BY <1>5, <3>1
    <2>4. CASE p = new /\ q = new
        BY <1>3, <2>4 DEF SavesPast
    <2>5. QED
        BY <1>1, <2>1, <2>2, <2>3, <2>4
<1>8. \A p \in Saved' : \A i \in DOMAIN p[3] : Dated(p[3][i].id, p[1], p[2].step)
    BY <1>1, <1>3 DEF PassInv, SavesPast, c
<1>9. ASSUME NEW w \in Written' PROVE Stopped(w, Saved', InterruptBefore)
    <2>1. CASE w \in Written
        <3>1. Stopped(w, Saved, InterruptBefore) /\ w[1] # c
            BY <1>5, <2>1 DEF PassInv
        <3>2. QED
            BY <1>1, <1>3, <3>1 DEF Stopped
    <2>2. ASSUME NEW r \in Elements(ws), w = <<c, r>> PROVE Stopped(w, Saved', InterruptBefore)
        <3>1. w[1] = c /\ w[2] = r
            BY <2>2
        <3>2. QED
            BY <1>1, <1>3, <1>5, <3>1 DEF Stopped, SavesPast
    <2>3. QED
        BY <1>1, <2>1, <2>2
<1>10. ASSUME NEW w \in Written', NEW p \in Saved' PROVE LeftBehind(w, p, Saved')
    <2>1. CASE w \in Written /\ p \in Saved
        <3>1. LeftBehind(w, p, Saved)
            BY <2>1 DEF PassInv
        <3>2. \A i \in DOMAIN p[3] : Met(w, p, i) => ~Holds(next, p[3][i].id)
            BY <2>1 DEF SavesPast
        <3>3. QED
            BY <1>1, <1>3, <3>1, <3>2 DEF LeftBehind
    <2>2. CASE w \in Written /\ p = new
        <3>1. w[1] # p[1]
            BY <1>3, <1>5, <2>2
        <3>2. QED
            BY <3>1 DEF LeftBehind, Met
    <2>3. ASSUME NEW r \in Elements(ws), w = <<c, r>>, p \in Saved PROVE LeftBehind(w, p, Saved')
        <3>1. w[1] = c /\ p[1] # c
            BY <1>5, <2>3
        <3>2. QED
            BY <3>1 DEF LeftBehind, Met
    <2>4. ASSUME NEW r \in Elements(ws), w = <<c, r>>, p = new PROVE LeftBehind(w, p, Saved')
        <3>1. w[1] = c /\ w[2] = r /\ p[3] = next
            BY <1>3, <2>4
        <3>2. \A q \in Saved' : ~(c < q[1])
            <4>1. \A q \in Saved : ~(c < q[1])
                BY <1>4, <1>5
            <4>2. ~(c < c)
                BY <1>5
            <4>3. QED
                BY <1>1, <1>3, <4>1, <4>2
        <3>3. \A i \in DOMAIN next : Met(w, p, i) => next[i].id.cp < c
            BY <3>1 DEF Met, SavesPast, c
        <3>4. QED
            BY <3>1, <3>2, <3>3 DEF LeftBehind
    <2>5. QED
        BY <1>1, <2>1, <2>2, <2>3, <2>4
<1>11. ASSUME NEW p \in Saved' PROVE Behind(p, cur', st')
    <2>1. CASE p \in Saved
        <3>1. p[1] <= c
            BY <1>4, <1>5, <2>1
        <3>2. QED
            BY <1>1, <1>6, <2>1, <3>1 DEF Behind
    <2>2. CASE p = new
        BY <1>1, <1>3, <1>5, <2>2 DEF Behind, SavesPast
    <2>3. QED
        BY <1>1, <2>1, <2>2
<1>12. ASSUME phase' = "loop", NEW w \in Written', NEW p \in Saved' PROVE Passes(w, p, tasks', skip')
    <2>1. \A i \in DOMAIN p[3] : p[3][i].id \in RealIDs
        <3>1. \A i \in DOMAIN next : next[i].id \in RealIDs
            BY DEF SavesPast, Plans
        <3>2. QED
            BY <1>1, <1>3, <1>4, <3>1
    <2>2. \A k \in DOMAIN tasks' : tasks'[k].id = NoId
        BY <1>12
    <2> HIDE DEF RealIDs, NoId
    <2>3. QED
        BY <1>4, <2>1, <2>2 DEF Passes
<1>13. phase' \in {"loop", "tasks"} => \A k \in DOMAIN tasks' : tasks'[k].id = NoId
    OBVIOUS
<1>14. QED
    BY <1>2, <1>7, <1>8, <1>9, <1>10, <1>11, <1>12, <1>13 DEF PassInv

\* What a plan stamped from tasks is made of.
LEMMA StampedFrom ==
    ASSUME NEW ts \in Seq(TaskRecs), NEW c, NEW n
    PROVE /\ DOMAIN StampDispatchIDs(ts, c, n) = DOMAIN Active(ts) /\ DOMAIN StampNew(ts, c, n) = DOMAIN Active(ts)
          /\ \A i \in DOMAIN Active(ts) :
                /\ StampDispatchIDs(ts, c, n)[i].node = Active(ts)[i].node
                /\ StampNew(ts, c, n)[i].id.cp = c /\ StampNew(ts, c, n)[i].id.step = n
                /\ \E k \in DOMAIN ts : Active(ts)[i] = ts[k] /\ StampDispatchIDs(ts, c, n)[i].id = plannedID(ts[k], c, n)
<1> DEFINE a == Active(ts)
<1>1. \A i \in DOMAIN a : \E k \in DOMAIN ts : a[i] = ts[k]
    BY ActiveTasks DEF Elements
<1> HIDE DEF a
<1>2. /\ DOMAIN StampDispatchIDs(ts, c, n) = DOMAIN a /\ DOMAIN StampNew(ts, c, n) = DOMAIN a
      /\ \A i \in DOMAIN a : /\ StampDispatchIDs(ts, c, n)[i].node = a[i].node
                            /\ StampDispatchIDs(ts, c, n)[i].id = plannedID(a[i], c, n)
                            /\ StampNew(ts, c, n)[i].id = TaskID(c, n, a[i])
    BY DEF StampDispatchIDs, StampNew, a
<1>3. \A t : TaskID(c, n, t).cp = c /\ TaskID(c, n, t).step = n
    BY DEF TaskID
<1>4. QED
    BY <1>1, <1>2, <1>3 DEF a

LEMMA PassInvoke ==
    ASSUME Base, PassInv, phase = "idle", NEW s \in States, s.step \in -1 .. lastId - 1, InvokeFrom(s),
           \A p \in Saved : p[2].step <= s.step
    PROVE PassInv'
<1> DEFINE s1 == applyWrites(s, InputBatch)
           next == StampNew(NewTasks(Entry), lastId + 1, s1.step + 1)
<1>1. /\ s1.step = s.step /\ s1.step \in Int /\ NewTasks(Entry) \in Seq(TaskRecs)
      /\ CheckpointSaved(s1, next, <<>>)
    <2>1. /\ s1 \in States /\ Applied(s, InputBatch, s1) /\ NewTasks(Entry) \in Seq(TaskRecs)
          /\ CheckpointSaved(s1, next, <<>>)
        BY InputSaved
    <2>2. s1.step = s.step
        BY <2>1 DEF Applied
    <2>3. QED
        BY <2>1, <2>2
<1>2. phase' = "loop" /\ tasks' = NewTasks(Entry) /\ st' = s1
    BY DEF InvokeFrom, Begin, InputBatch
<1>3. \A k \in DOMAIN tasks' : tasks'[k].id = NoId
    BY <1>2 DEF NewTasks, NewTask
<1>4. \A i \in DOMAIN next : next[i].id.cp = lastId + 1 /\ next[i].id.step = s1.step + 1
    BY <1>1, StampedFrom
<1>5. next \in Plans
    <2>1. graph \in Graphs /\ lastId \in Nat /\ MaxIds \in Nat /\ lastId + 1 \in 1 .. MaxIds
        BY <1>1, Shape DEF Base, Saver, GraphShape, CheckpointSaved
    <2>2. s1.step + 1 \in 0 .. MaxIds
        BY <1>1, <2>1
    <2>3. QED
        BY <1>1, <2>1, <2>2, StampFacts
<1> HIDE DEF s1, next
<1>6. \A r \in Elements(<<>>) : r.kind # "before"
    BY DEF Elements
<1>7. lastId \in Nat /\ \A p \in Saved : p[1] \in Nat /\ p[1] <= lastId /\ \A i \in DOMAIN p[3] : p[3][i].id \in RealIDs
    BY SavedFacts
<1>8. ASSUME NEW p \in Saved, NEW i \in DOMAIN p[3] PROVE ~Holds(next, p[3][i].id)
    <2>1. p[3][i].id.cp <= p[1] /\ p[3][i].id.cp \in Int
        BY <1>7 DEF PassInv, Dated, RealIDs
    <2>2. p[3][i].id.cp # lastId + 1
        BY <1>7, <2>1
    <2>3. QED
        BY <1>4, <2>2 DEF Holds
<1>9. \A i \in DOMAIN next : Dated(next[i].id, lastId + 1, s1.step)
    BY <1>1, <1>4, <1>7 DEF Dated
<1>10. SavesPast(s1, next, Elements(<<>>), Saved, Written, InterruptBefore, lastId + 1)
    BY <1>1, <1>5, <1>6, <1>8, <1>9 DEF SavesPast
<1>11. QED
    BY <1>1, <1>2, <1>3, <1>10, PassSaved

\* The checkpoint a run loads is the newest saved.
LEMMA LatestFacts ==
    ASSUME Base, PassInv, ~TimeTravel, phase = "idle", NEW c \in Loadable
    PROVE /\ c \in DOMAIN store /\ <<c, store[c].st, store[c].next>> \in Saved
          /\ \A p \in Saved : p[1] <= c /\ p[2].step <= store[c].st.step
          /\ \A w \in Written : w[1] = c => w[2] \in store[c].w
<1>1. Saver /\ io = <<>>
    BY DEF Base, Run
<1>2. c \in DOMAIN store
    BY <1>1, LoadableStored
<1>3. c = Max(DOMAIN store)
    BY <1>2 DEF Loadable, Latest
<1>4. DOMAIN store \subseteq Nat /\ lastId \in Nat /\ \A x \in DOMAIN store : x <= lastId
    BY <1>1, Shape DEF Saver, GraphShape
<1>5. \A d \in DOMAIN store : d <= c
    BY <1>2, <1>3, <1>4, MaxFacts
<1>6. Saved = StoredPuts(store) /\ Written = StoredWrites(store)
    BY <1>1 DEF Saved, Written, PutsOf, WritesOf, NewPuts, NewWrites
<1>7. <<c, store[c].st, store[c].next>> \in Saved
    BY <1>2, <1>6 DEF StoredPuts
<1>8. \A p \in Saved : p[1] <= c
    BY <1>5, <1>6 DEF StoredPuts
<1>9. \A p \in Saved : p[2].step <= store[c].st.step
    BY <1>7, <1>8 DEF PassInv
<1>10. \A w \in Written : w[1] = c => w[2] \in store[c].w
    BY <1>6 DEF StoredWrites
<1>11. QED
    BY <1>2, <1>7, <1>8, <1>9, <1>10

\* A resume gets past the breakpoint its checkpoint was saved in front of, and
\* plans no task another run has stopped in front of.
LEMMA PassResume ==
    ASSUME Base, PassInv, ~TimeTravel, NEW c \in Loadable, NEW a \in SUBSET AskIds(c), Resume(c, a)
    PROVE PassInv'
<1>1. /\ phase = "idle" /\ phase' = "loop" /\ cur' = c /\ graph' = graph
      /\ tasks' = RestoredTasks(c) \o ReplaySends(c) /\ skip' = resumeSkipNode(c)
      /\ st' = IF ReplayWrites(c) = <<>> THEN store[c].st ELSE applyWrites(store[c].st, ReplayWrites(c))
    BY DEF Resume, Begin, saverVars
<1> DEFINE e == <<c, store[c].st, store[c].next>>
<1>2. /\ c \in DOMAIN store /\ e \in Saved /\ e[1] = c /\ e[2] = store[c].st /\ e[3] = store[c].next
      /\ \A p \in Saved : p[1] <= c /\ p[2].step <= store[c].st.step
      /\ \A w \in Written : w[1] = c => w[2] \in store[c].w
    BY <1>1, LatestFacts
<1> HIDE DEF e
<1>3. Saved' = Saved /\ Written' = Written
    BY <1>2, BaseResume
<1>4. Saver /\ graph \in Graphs /\ InterruptBefore' = InterruptBefore
    BY <1>1, GraphFixed DEF Base, Saver, SameGraph
<1>5. st'.step = store[c].st.step
    <2>1. store[c].st \in States /\ ReplayWrites(c) \in Seq(Batches)
        BY <1>2, <1>4, ReadFacts, ReplayFacts
    <2>2. Applied(store[c].st, ReplayWrites(c), applyWrites(store[c].st, ReplayWrites(c)))
        BY <1>4, <2>1, ApplyFacts
    <2>3. QED
        BY <1>1, <2>2 DEF Applied
<1>6. \A k \in DOMAIN tasks' : \/ tasks'[k].id = NoId
                               \/ \E j \in DOMAIN e[3] : tasks'[k].id = e[3][j].id /\ tasks'[k].node = e[3][j].node
    <2>1. RestoredTasks(c) \in Seq(TaskRecs) /\ ReplaySends(c) \in Seq(TaskRecs)
        BY <1>2, <1>4, RestoreFacts, ReplaySendFacts
    <2>2. Elements(tasks') = Elements(RestoredTasks(c)) \cup Elements(ReplaySends(c))
        <3> HIDE DEF TaskRecs, RestoredTasks, ReplaySends
        <3>1. QED
            BY <1>1, <2>1, ConcatElements
    <2>3. ASSUME NEW t \in Elements(RestoredTasks(c)) PROVE \E j \in DOMAIN e[3] : t.id = e[3][j].id /\ t.node = e[3][j].node
        <3>1. PICK j \in OpenIdx(c) : t = RestoreOf(c)[j]
            BY <1>2, <1>4, RestoreFacts
        <3>2. j \in PlanIdx(c)
            BY DEF OpenIdx
        <3>3. QED
            BY <1>2, <3>1, <3>2 DEF RestoreOf, PlanIdx
    <2>4. ASSUME NEW t \in Elements(ReplaySends(c)) PROVE t.id = NoId
        <3>1. \A d : NewTask(d).id = NoId
            BY DEF NewTask
        <3> HIDE DEF NewTask
        <3>2. QED
            BY <1>2, <1>4, <3>1, ReplaySendFacts
    <2>5. QED
        BY <2>2, <2>3, <2>4 DEF Elements
<1>7. \A k \in DOMAIN tasks' : tasks'[k].id # NoId => Dated(tasks'[k].id, cur', st'.step)
    BY <1>1, <1>2, <1>5, <1>6 DEF PassInv
<1>8. ASSUME NEW w \in Written, NEW p \in Saved PROVE Passes(w, p, tasks', skip')
    <2> SUFFICES ASSUME NEW i \in DOMAIN p[3], Met(w, p, i), NEW k \in DOMAIN tasks', tasks'[k].id = p[3][i].id
                 PROVE tasks'[k].node \in skip'
        BY DEF Passes
    <2>1. /\ p[3][i].id \in RealIDs /\ p[3][i].id.node = p[3][i].node /\ NoId \notin RealIDs /\ p[1] \in Nat /\ c \in Nat
          /\ \A j \in DOMAIN e[3] : e[3][j].id.node = e[3][j].node
        BY <1>2, SavedFacts
    <2>2. PICK j \in DOMAIN e[3] : tasks'[k].id = e[3][j].id /\ tasks'[k].node = e[3][j].node
        BY <1>6, <2>1
    <2>3. Holds(e[3], p[3][i].id)
        BY <2>2 DEF Holds
    <2>4. ~(w[1] < c)
        <3>1. LeftBehind(w, p, Saved)
            BY DEF PassInv
        <3>2. QED
            BY <1>2, <2>3, <3>1 DEF LeftBehind
    <2>5. w[1] = c
        BY <1>2, <2>1, <2>4 DEF Met
    <2>6. w[2] \in store[c].w /\ w[2].kind = "before"
        BY <1>2, <2>5 DEF Met
    <2>7. w[2].id.node \in skip'
        BY <1>1, <2>6 DEF resumeSkipNode
    <2>8. tasks'[k].node = w[2].id.node
        BY <2>1, <2>2 DEF Met
    <2>9. QED
        BY <2>7, <2>8
<1>9. \A p \in Saved : Behind(p, cur', st')
    BY <1>1, <1>2, <1>5 DEF Behind
<1>10. QED
    BY <1>1, <1>3, <1>4, <1>7, <1>8, <1>9 DEF PassInv

LEMMA PassStarts ==
    ASSUME Base, PassInv, ~TimeTravel, Starts PROVE PassInv'
<1>1. ASSUME NEW c \in Loadable, InvokeNewTurn(c) PROVE PassInv'
    <2>0. phase = "idle"
        BY <1>1 DEF InvokeNewTurn
    <2>1. c \in DOMAIN store /\ Saver /\ \A p \in Saved : p[2].step <= store[c].st.step
        BY <2>0, LatestFacts DEF Base
    <2>2. store[c].st \in States /\ store[c].st.step \in -1 .. c - 2 /\ c \in 1 .. lastId
        BY <2>1, ReadFacts
    <2>3. lastId \in Nat
        BY Shape DEF Base, Saver, GraphShape
    <2>4. store[c].st.step \in -1 .. lastId - 1
        BY <2>2, <2>3
    <2>5. QED
        BY <1>1, <2>1, <2>2, <2>4, PassInvoke DEF InvokeNewTurn
<1>2. ASSUME InvokeFresh PROVE PassInv'
    <2>1. graph \in Graphs /\ lastId \in Nat
        BY Shape DEF Base, Saver, GraphShape
    <2>2. EmptyState \in States /\ EmptyState.step = -1
        BY <2>1, EmptyStateType DEF EmptyState
    <2>3. EmptyState.step \in -1 .. lastId - 1
        BY <2>1, <2>2
    <2>4. io = <<>> /\ DOMAIN store = {}
        BY <1>2 DEF InvokeFresh, Base, Run
    <2>5. Saved = {}
        BY <2>4 DEF Saved, PutsOf, StoredPuts, NewPuts
    <2>6. QED
        BY <1>2, <2>2, <2>3, <2>5, PassInvoke DEF InvokeFresh
<1>3. ASSUME NEW c \in Loadable, NEW a \in SUBSET AskIds(c), Resume(c, a) PROVE PassInv'
    BY <1>3, PassResume
<1>4. QED
    BY <1>1, <1>2, <1>3 DEF Starts

\* Where a run stands, against what is saved.
LEMMA Standing ==
    ASSUME Base, PassInv, phase # "idle"
    PROVE /\ cur \in Nat /\ lastId \in Nat /\ cur < lastId + 1 /\ st.step \in Int
          /\ \A p \in Saved : p[1] \in Nat /\ p[1] <= cur /\ p[2].step \in Int /\ p[2].step <= st.step
<1>1. cur \in 1 .. lastId /\ lastId \in Nat /\ st.step \in Int
    BY CurFacts DEF Base
<1>2. cur \in Nat /\ cur < lastId + 1
    BY <1>1
<1>3. \A p \in Saved : p[1] \in Nat /\ p[2].step \in Int
    BY SavedFacts
<1>4. \A p \in Saved : p[1] <= cur /\ p[2].step <= st.step
    BY DEF PassInv, Behind
<1>5. QED
    BY <1>1, <1>2, <1>3, <1>4

\* The identity of a task of the superstep is not newer than the superstep.
LEMMA PlannedDated ==
    ASSUME Base, PassInv, phase \in {"loop", "tasks"}, NEW k \in DOMAIN tasks
    PROVE /\ plannedID(tasks[k], cur, st.step + 1).cp < lastId + 1
          /\ Dated(plannedID(tasks[k], cur, st.step + 1), lastId + 1, st.step)
<1>1. cur \in Nat /\ lastId \in Nat /\ cur < lastId + 1 /\ st.step \in Int
    BY Standing
<1>2. CASE tasks[k].id = NoId
    <2>1. plannedID(tasks[k], cur, st.step + 1).cp = cur /\ plannedID(tasks[k], cur, st.step + 1).step = st.step + 1
        BY <1>2 DEF plannedID, TaskID
    <2>2. QED
        BY <1>1, <2>1 DEF Dated
<1>3. CASE tasks[k].id # NoId
    <2>1. plannedID(tasks[k], cur, st.step + 1) = tasks[k].id
        BY <1>3 DEF plannedID
    <2>2. tasks[k].id.cp <= cur /\ tasks[k].id.step <= st.step + 1
        BY <1>3 DEF PassInv, Dated
    <2>3. tasks[k].id \in RealIDs
        <3>1. tasks \in Seq(TaskRecs)
            BY DEF Base, Run
        <3>2. tasks[k] \in TaskRecs
            <4> HIDE DEF TaskRecs
            <4>1. QED
                BY <3>1
        <3>3. QED
            BY <1>3, <3>2 DEF TaskRecs
    <2>4. tasks[k].id.cp \in Int
        BY <2>3 DEF RealIDs
    <2>5. tasks[k].id.cp < lastId + 1 /\ tasks[k].id.cp <= lastId + 1
        BY <1>1, <2>2, <2>4
    <2>6. QED
        BY <2>1, <2>2, <2>5 DEF Dated
<1>4. QED
    BY <1>2, <1>3

\* A run does not stop where another did: a task in front of which one stopped
\* gets past its breakpoint, and there is no other breakpoint beside it.
LEMMA PassPauseBefore ==
    ASSUME Base, PassInv, Alone, PauseBefore PROVE PassInv'
<1> DEFINE next == StampDispatchIDs(tasks, cur, st.step + 1)
<1>1. PICK n \in Nodes : /\ n \in InterruptBefore /\ \E i \in DOMAIN tasks : tasks[i].node = n
                         /\ n \notin skip /\ Names(Active(tasks), n)
                         /\ CheckpointSaved(st, next, <<Reserved(BoundaryId(n), "before", <<>>)>>)
    BY PauseBeforeFacts
<1>2. phase = "loop" /\ phase' = "flush" /\ st' = st
    BY DEF PauseBefore, AtHead, Stop
<1>3. /\ cur \in Nat /\ lastId \in Nat /\ cur < lastId + 1 /\ st.step \in Int
      /\ \A p \in Saved : p[1] \in Nat /\ p[1] <= cur /\ p[2].step <= st.step
    BY <1>2, Standing
<1>4. tasks \in Seq(TaskRecs) /\ graph \in Graphs
    BY DEF Base, Saver, Run
<1>5. next \in Plans
    BY <1>2, <1>4, CurFacts, StampFacts DEF Base
<1>6. /\ DOMAIN next = DOMAIN Active(tasks)
      /\ \A i \in DOMAIN next : /\ next[i].node = Active(tasks)[i].node
                              /\ \E k \in DOMAIN tasks : next[i].id = plannedID(tasks[k], cur, st.step + 1)
    BY <1>4, StampedFrom
<1> HIDE DEF next
<1>7. \A i \in DOMAIN next : next[i].id.cp < lastId + 1 /\ Dated(next[i].id, lastId + 1, st.step)
    BY <1>2, <1>6, PlannedDated
<1>8. Names(next, n)
    BY <1>1, <1>6 DEF Names
<1> DEFINE r == Reserved(BoundaryId(n), "before", <<>>)
<1>9. Elements(<<r>>) = {r} /\ r.id.node = n
    <2>1. r.id.node = n
        BY DEF Reserved, Pending, BoundaryId
    <2> HIDE DEF r
    <2>2. QED
        BY <2>1 DEF Elements
<1> HIDE DEF r
<1>10. ASSUME NEW w \in Written, NEW p \in Saved, NEW i \in DOMAIN p[3], Met(w, p, i) PROVE ~Holds(next, p[3][i].id)
    <2> SUFFICES ASSUME NEW j \in DOMAIN next, next[j].id = p[3][i].id PROVE FALSE
        BY DEF Holds
    <2>1. PICK k \in DOMAIN tasks : next[j].id = plannedID(tasks[k], cur, st.step + 1)
        BY <1>6
    <2>2. /\ p[3][i].id \in RealIDs /\ p[3][i].id.node = p[3][i].node /\ w[2].kind = "before"
          /\ p[1] = w[1] /\ p[3][i].node = w[2].id.node
        BY <1>10, SavedFacts DEF Met
    <2>3. CASE tasks[k].id = NoId
        <3>1. p[3][i].id.cp = cur
            BY <2>1, <2>3 DEF plannedID, TaskID
        <3>2. p[3][i].id.cp < w[1]
            BY <1>10 DEF PassInv, LeftBehind
        <3>3. cur < p[1]
            BY <2>2, <3>1, <3>2
        <3>4. QED
            BY <1>3, <3>3
    <2>4. CASE tasks[k].id # NoId
        <3>1. tasks[k].id = p[3][i].id
            BY <2>1, <2>4 DEF plannedID
        <3>2. tasks[k].node \in skip
            BY <1>2, <1>10, <3>1 DEF PassInv, Passes
        <3>3. tasks[k] \in TaskRecs
            <4> HIDE DEF TaskRecs
            <4>1. QED
                BY <1>4
        <3>4. tasks[k].node = w[2].id.node
            BY <2>2, <2>4, <3>1, <3>3 DEF TaskRecs
        <3>5. w[2].id.node \in InterruptBefore
            BY <2>2 DEF PassInv, Stopped
        <3>6. tasks[k].node = n
            BY <1>1, <3>4, <3>5 DEF Alone
        <3>7. QED
            BY <1>1, <3>2, <3>6
    <2>5. QED
        BY <2>3, <2>4
<1>11. SavesPast(st, next, Elements(<<r>>), Saved, Written, InterruptBefore, lastId + 1)
    BY <1>1, <1>3, <1>5, <1>7, <1>8, <1>9, <1>10 DEF SavesPast
<1>12. QED
    BY <1>1, <1>2, <1>11, PassSaved DEF r

LEMMA PassDispatch ==
    ASSUME Base, PassInv, Dispatch PROVE PassInv'
<1>1. phase = "loop" /\ phase' = "tasks" /\ tasks' = Active(tasks) /\ UNCHANGED <<graph, cur, st>>
    BY DEF Dispatch, PastBreakpoints, AtHead, saverVars
<1>2. Saved' = Saved /\ Written' = Written /\ InterruptBefore' = InterruptBefore
    BY <1>1, BaseDispatch, GraphFixed DEF SameGraph
<1>3. \A k \in DOMAIN tasks' : \E j \in DOMAIN tasks : tasks'[k] = tasks[j]
    <2>1. tasks \in Seq(TaskRecs)
        BY DEF Base, Run
    <2>2. QED
        BY <1>1, <2>1, ActiveTasks DEF Elements
<1>4. \A k \in DOMAIN tasks' : tasks'[k].id # NoId => Dated(tasks'[k].id, cur, st.step)
    BY <1>1, <1>3 DEF PassInv
<1>5. QED
    BY <1>1, <1>2, <1>4 DEF PassInv

LEMMA PassTask ==
    ASSUME Base, PassInv, TaskStep PROVE PassInv'
<1>1. PICK i \in DOMAIN outs, out \in Outs : Progress(i, out)
    BY ProgressFacts
<1>2. phase = "tasks" /\ UNCHANGED <<graph, phase, cur, st, tasks, skip>>
    BY <1>1 DEF Progress
<1>3. \A id : Reserved(id, "err", <<>>).kind # "before"
    BY DEF Reserved, Pending
<1> HIDE DEF Reserved
<1>4. Saved' = Saved /\ \A w \in Written' : w \in Written \/ w[2].kind # "before"
    BY <1>1, <1>3, ProgressWrites
<1>5. QED
    BY <1>2, <1>4, PassQuiet

\* A superstep with a task that asks or failed into its handler has no breakpoint
\* node, so that its tasks are none in front of which a run stopped.
LEMMA PassStopped ==
    ASSUME Base, PassInv, Alone, phase = "tasks", NEW next, Dispatched(next), NEW ws,
           \A r \in ws : r.kind # "before", \E i \in DOMAIN outs : outs[i].s = "ask" \/ outs[i].nodeErr
    PROVE SavesPast(st, next, ws, Saved, Written, InterruptBefore, lastId + 1)
<1>1. \A k \in DOMAIN tasks : tasks[k].node \notin InterruptBefore
    BY DEF Alone
<1>2. /\ next \in Plans /\ DOMAIN next = DOMAIN tasks
      /\ \A i \in DOMAIN next : next[i].id = plannedID(tasks[i], cur, st.step + 1) /\ next[i].id.node = tasks[i].node
    BY DEF Dispatched
<1>3. st.step \in Int /\ \A p \in Saved : p[2].step <= st.step
    BY Standing
<1>4. \A i \in DOMAIN next : Dated(next[i].id, lastId + 1, st.step)
    BY <1>2, PlannedDated
<1>5. ASSUME NEW w \in Written, NEW p \in Saved, NEW i \in DOMAIN p[3], Met(w, p, i) PROVE ~Holds(next, p[3][i].id)
    <2> SUFFICES ASSUME NEW j \in DOMAIN next, next[j].id = p[3][i].id PROVE FALSE
        BY DEF Holds
    <2>1. p[3][i].id.node = p[3][i].node /\ w[2].kind = "before" /\ p[3][i].node = w[2].id.node
        BY <1>5, SavedFacts DEF Met
    <2>2. w[2].id.node \in InterruptBefore
        BY <2>1 DEF PassInv, Stopped
    <2>3. tasks[j].node = w[2].id.node
        BY <1>2, <2>1
    <2>4. QED
        BY <1>1, <1>2, <2>2, <2>3
<1>6. QED
    BY <1>2, <1>3, <1>4, <1>5 DEF SavesPast

LEMMA PassAbort ==
    ASSUME Base, PassInv, Alone, Abort PROVE PassInv'
<1>1. phase = "tasks" /\ phase' = "flush" /\ st' = st
    BY AbortEffect DEF Abort, Stop
<1>2. ASSUME UNCHANGED <<graph, store, lastId, io, cur>> PROVE PassInv'
    <2>1. Saved' = Saved /\ Written' = Written
        BY <1>2 DEF Saved, Written, PutsOf, WritesOf, StoredPuts, NewPuts, StoredWrites, NewWrites
    <2>2. QED
        BY <1>1, <1>2, <2>1, PassQuiet
<1>3. CASE {i \in DOMAIN outs : outs[i].nodeErr} = {}
    <2>1. UNCHANGED <<graph, store, lastId, io, cur>>
        BY <1>3 DEF Abort, saverVars
    <2>2. QED
        BY <1>2, <2>1
<1>4. ASSUME {i \in DOMAIN outs : outs[i].nodeErr} # {}, NEW next, NEW ws, AbortSaves(next, ws) PROVE PassInv'
    <2>1. CheckpointSaved(st, next, ws) /\ Dispatched(next)
        BY <1>4 DEF AbortSaves
    <2>2. \A r \in Elements(ws) : r.kind # "before"
        BY <1>4 DEF AbortSaves, Reserved, Pending
    <2>3. SavesPast(st, next, Elements(ws), Saved, Written, InterruptBefore, lastId + 1)
        BY <1>1, <1>4, <2>1, <2>2, PassStopped
    <2>4. QED
        BY <1>1, <2>1, <2>3, PassSaved
<1>5. QED
    BY <1>2, <1>3, <1>4, AbortEffect

LEMMA PassPauseInNode ==
    ASSUME Base, PassInv, Alone, PauseInNode PROVE PassInv'
<1>1. phase = "tasks" /\ phase' = "flush" /\ st' = st /\ \E i \in DOMAIN outs : outs[i].s = "ask"
    BY PauseEffect DEF PauseInNode, Stop, Having
<1>2. PICK next, ws : PauseSaves(next, ws)
    BY PauseEffect
<1>3. CheckpointSaved(st, next, ws) /\ Dispatched(next)
    BY <1>2 DEF PauseSaves
<1>4. ASSUME NEW r \in Elements(ws) PROVE r.kind # "before"
    <2>1. PICK i \in DOMAIN outs : \/ r = Reserved(next[i].id, "err", <<>>)
                                   \/ r = Reserved(next[i].id, "ask", outs[i].pre)
                                   \/ r = CompletedWrites(i, next[i].id)
        BY <1>2 DEF PauseSaves, Paused
    <2>2. QED
        BY <2>1 DEF Reserved, CompletedWrites, Pending
<1>5. SavesPast(st, next, Elements(ws), Saved, Written, InterruptBefore, lastId + 1)
    BY <1>1, <1>3, <1>4, PassStopped
<1>6. QED
    BY <1>1, <1>3, <1>5, PassSaved

\* A commit stamps its plan for a superstep none has stopped in front of.
LEMMA PassCommit ==
    ASSUME Base, PassInv, Commit PROVE PassInv'
<1>1. PICK s, next, ws : CommitSaves(s, next, ws)
    BY CommitEffect
<1>2. /\ phase = "tasks" /\ CheckpointSaved(s, next, ws) /\ phase' \in {"loop", "flush"} /\ st' = s
      /\ tasks' = NextTasks /\ NextTasks \in Seq(TaskRecs) /\ next \in Plans /\ s.step = st.step + 1
      /\ \/ next = StampDispatchIDs(NextTasks, cur, s.step + 1)
         \/ next = StampNew(NextTasks, lastId + 1, s.step + 1)
    BY <1>1 DEF CommitSaves, Commits
<1>3. \A r \in Elements(ws) : r.kind # "before"
    <2>1. \A r \in Elements(ws) : \/ r.kind = "after"
                                  \/ \E i \in DOMAIN outs : r = CompletedWrites(i, TaskID(lastId + 1, s.step + 1, tasks[i]))
        BY <1>1 DEF CommitSaves
    <2>2. QED
        BY <2>1 DEF CompletedWrites, Pending
<1>4. \A k \in DOMAIN NextTasks : NextTasks[k].id = NoId
    BY <1>2, NextAnonymous
<1>5. /\ cur \in Nat /\ lastId \in Nat /\ cur < lastId + 1 /\ st.step \in Int
      /\ \A p \in Saved : p[2].step \in Int /\ p[2].step <= st.step
    BY <1>2, Standing
<1>6. \A i \in DOMAIN next : next[i].id.cp <= lastId + 1 /\ next[i].id.step = s.step + 1
    <2>1. CASE next = StampNew(NextTasks, lastId + 1, s.step + 1)
        <3>1. \A i \in DOMAIN next : next[i].id.cp = lastId + 1 /\ next[i].id.step = s.step + 1
            BY <1>2, <2>1, StampedFrom
        <3>2. QED
            BY <1>5, <3>1
    <2>2. CASE next = StampDispatchIDs(NextTasks, cur, s.step + 1)
        <3>1. \A i \in DOMAIN next : \E k \in DOMAIN NextTasks : next[i].id = plannedID(NextTasks[k], cur, s.step + 1)
            BY <1>2, <2>2, StampedFrom
        <3>2. \A k \in DOMAIN NextTasks : /\ plannedID(NextTasks[k], cur, s.step + 1).cp = cur
                                        /\ plannedID(NextTasks[k], cur, s.step + 1).step = s.step + 1
            BY <1>4 DEF plannedID, TaskID
        <3>3. QED
            BY <1>5, <3>1, <3>2
    <2>3. QED
        BY <1>2, <2>1, <2>2
<1>7. \A i \in DOMAIN next : Dated(next[i].id, lastId + 1, s.step)
    BY <1>2, <1>5, <1>6 DEF Dated
<1>8. ASSUME NEW w \in Written, NEW p \in Saved, NEW i \in DOMAIN p[3] PROVE ~Holds(next, p[3][i].id)
    <2>1. p[3][i].id.step <= p[2].step + 1
        BY DEF PassInv, Dated
    <2>2. p[3][i].id \in RealIDs
        BY SavedFacts
    <2>3. p[3][i].id.step \in Int
        BY <2>2 DEF RealIDs
    <2>4. p[3][i].id.step # s.step + 1
        BY <1>2, <1>5, <2>1, <2>3
    <2>5. QED
        BY <1>6, <2>4 DEF Holds
<1>9. s.step \in Int /\ \A p \in Saved : p[2].step <= s.step
    BY <1>2, <1>5
<1>10. SavesPast(s, next, Elements(ws), Saved, Written, InterruptBefore, lastId + 1)
    BY <1>2, <1>3, <1>7, <1>8, <1>9 DEF SavesPast
<1>11. QED
    BY <1>2, <1>4, <1>10, PassSaved

LEMMA PassStep ==
    ASSUME Base, PassInv, ~TimeTravel, Alone, [Next]_vars PROVE PassInv'
<1>1. CASE StopsHere
    <2>1. phase = "loop" /\ phase' = "flush" /\ UNCHANGED <<graph, cur, st>>
        BY <1>1 DEF StopsHere, Finish, Drained, RecursionError, Cancel, PastBreakpoints, AtHead, Stop, saverVars
    <2>2. QED
        BY <1>1, <2>1, BaseStopsHere, PassQuiet
<1>2. CASE SaverStep
    <2>1. UNCHANGED <<graph, phase, tasks, skip, cur, st>>
        BY <1>2 DEF SaverStep
    <2>2. Saved' \subseteq Saved /\ Written' \subseteq Written
        BY <1>2, BaseSaver DEF SaverExecutes
    <2>3. QED
        BY <2>1, <2>2, PassQuiet
<1>3. CASE Ends
    <2>1. phase' = "idle" /\ graph' = graph
        BY <1>3 DEF Ends, Flush, Crash, Reset, saverVars
    <2>2. QED
        BY <1>3, <2>1, BaseEnds, PassQuiet
<1>4. CASE Idles
    <2>1. UNCHANGED <<graph, phase, tasks, skip, cur, st>>
        BY <1>4 DEF Idles, RequestDrain, vars, saverVars, runVars
    <2>2. QED
        BY <1>4, <2>1, BaseIdles, PassQuiet
<1>5. QED
    BY <1>1, <1>2, <1>3, <1>4, Steps, PassStarts, PassPauseBefore, PassDispatch, PassTask, PassAbort,
       PassPauseInNode, PassCommit

\* No step changes the graph.
LEMMA GraphKept ==
    ASSUME [Next]_vars PROVE graph' = graph
<1>1. Starts => graph' = graph
    BY DEF Starts, InvokeFresh, InvokeNewTurn, InvokeFrom, Resume, saverVars
<1>2. HeadStep => graph' = graph
    BY DEF HeadStep, Finish, PauseBefore, SaveCheckpoint, Drained, RecursionError, Dispatch, saverVars
<1>3. TaskStep => graph' = graph
    BY DEF TaskStep, TaskInterrupts, TaskCompletes, TaskFails, HandlerCompletes, HandlerFails, Complete, Decide, saverVars
<1>4. EndStep => graph' = graph
    BY DEF EndStep, Abort, PauseInNode, Commit, SaveCheckpoint, saverVars
<1>5. SaverStep \/ Flush \/ Cancel \/ Crash \/ RequestDrain \/ Rest \/ UNCHANGED vars => graph' = graph
    BY DEF SaverStep, Flush, Cancel, Crash, RequestDrain, Rest, vars, saverVars
<1>6. QED
    BY <1>1, <1>2, <1>3, <1>4, <1>5 DEF Next

\* What stands in front of a breakpoint is not saved twice.
LEMMA PassedOnce ==
    ASSUME Base, PassInv, NEW c \in DOMAIN store, NEW d \in DOMAIN store, c < d, store[c].next = store[d].next,
           NEW r \in store[c].w, r.kind = "before"
    PROVE FALSE
<1> DEFINE w == <<c, r>>
           p == <<c, store[c].st, store[c].next>>
           q == <<d, store[d].st, store[d].next>>
<1>1. w \in Written /\ p \in Saved /\ q \in Saved
    BY ReadFacts DEF Base
<1>2. /\ w[1] = c /\ w[2] = r /\ p[1] = c /\ p[3] = store[c].next /\ q[1] = d /\ q[3] = p[3]
    OBVIOUS
<1> HIDE DEF w, p, q
<1>3. Stopped(w, Saved, InterruptBefore) /\ LeftBehind(w, p, Saved)
    BY <1>1 DEF PassInv
<1>4. PICK i \in DOMAIN p[3] : p[3][i].node = r.id.node
    BY <1>1, <1>2, <1>3 DEF Stopped, Names
<1>5. Met(w, p, i)
    BY <1>2, <1>4 DEF Met
<1>6. ~Holds(q[3], p[3][i].id)
    BY <1>1, <1>2, <1>3, <1>5 DEF LeftBehind
<1>7. QED
    BY <1>2, <1>6 DEF Holds

\* A superstep stops in front of the same node at most once, in threads that are
\* only resumed from their latest checkpoint and whose supersteps have a
\* breakpoint node to themselves: the resume skips the node its checkpoint was
\* saved in front of, and no later checkpoint names the tasks of that superstep.
THEOREM BreakpointsPassed == Spec /\ []Alone => []BreakpointPassed
<1> DEFINE Inv == ~TimeTravel => PassInv
<1>1. Base /\ Inv => BreakpointPassed
    <2> SUFFICES ASSUME Base, PassInv, NEW c \in DOMAIN store, NEW d \in DOMAIN store, c # d, store[c].next = store[d].next,
                        NEW r \in store[c].w, NEW q \in store[d].w, r.kind = "before", q.kind = "before"
                 PROVE FALSE
        BY DEF BreakpointPassed
    <2>1. c \in Nat /\ d \in Nat
        BY Shape DEF Base, Saver, GraphShape
    <2>2. c < d \/ d < c
        BY <2>1
    <2>3. QED
        BY <2>2, PassedOnce
<1>2. Init => Inv
    <2> SUFFICES ASSUME Init PROVE PassInv
        OBVIOUS
    <2>1. store = <<>> /\ io = <<>> /\ phase = "idle"
        BY DEF Init
    <2>2. Saved = {} /\ Written = {}
        BY <2>1 DEF Saved, Written, PutsOf, WritesOf, StoredPuts, StoredWrites, NewPuts, NewWrites
    <2>3. QED
        BY <2>1, <2>2 DEF PassInv
<1>3. Base /\ Inv /\ Alone /\ [Next]_vars => Inv'
    <2> SUFFICES ASSUME Base, Inv, Alone, [Next]_vars, ~TimeTravel' PROVE PassInv'
        OBVIOUS
    <2>1. graph' = graph
        BY GraphKept
    <2>2. ~TimeTravel
        BY <2>1 DEF TimeTravel
    <2>3. QED
        BY <2>2, PassStep
<1> HIDE DEF Inv
<1>4. QED
    BY BaseAlways, <1>1, <1>2, <1>3, PTL DEF Spec
=============================================================================
