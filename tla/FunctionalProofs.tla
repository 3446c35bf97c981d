-------------------------- MODULE FunctionalProofs --------------------------
(* Theorems about Functional, for every set of programs and all bounds.     *)
EXTENDS Functional, FiniteSetTheorems, SequenceTheorems, WellFoundedInduction, TLAPS

-----------------------------------------------------------------------------
(* Sequences and programs.                                                  *)

IsSeq(s) == s \in Seq({s[i] : i \in DOMAIN s})

\* A sequence of elements of some set is a sequence.
LEMMA SeqIsSeq ==
    ASSUME NEW R, NEW s \in Seq(R) PROVE IsSeq(s)
<1>1. DOMAIN s = 1..Len(s) /\ Len(s) \in Nat /\ \A i \in 1..Len(s) : s[i] \in {s[j] : j \in DOMAIN s}
    OBVIOUS
<1>2. QED
    BY <1>1 DEF IsSeq

\* What Append does to a sequence of whatever elements.
LEMMA AppendFacts ==
    ASSUME NEW s, IsSeq(s), NEW e
    PROVE  /\ IsSeq(Append(s, e)) /\ Len(s) \in Nat /\ Len(Append(s, e)) = Len(s) + 1
           /\ DOMAIN s = 1..Len(s) /\ DOMAIN Append(s, e) = 1..(Len(s) + 1)
           /\ \A i \in DOMAIN s : Append(s, e)[i] = s[i]
           /\ Append(s, e)[Len(s) + 1] = e
           /\ Append(s, e) # <<>>
<1> DEFINE R == {s[i] : i \in DOMAIN s} \cup {e}
<1>1. s \in Seq(R)
    BY DEF IsSeq
<1>2. Append(s, e) \in Seq(R)
    BY <1>1
<1>3. /\ Len(s) \in Nat /\ Len(Append(s, e)) = Len(s) + 1
      /\ DOMAIN s = 1..Len(s) /\ DOMAIN Append(s, e) = 1..(Len(s) + 1)
      /\ \A i \in DOMAIN s : Append(s, e)[i] = s[i]
      /\ Append(s, e)[Len(s) + 1] = e
      /\ Append(s, e) # <<>>
    BY <1>1
<1>4. IsSeq(Append(s, e))
    BY <1>2, <1>3 DEF IsSeq
<1>5. QED
    BY <1>3, <1>4

\* What Tail does to a sequence of whatever elements.
LEMMA TailFacts ==
    ASSUME NEW s, IsSeq(s), s # <<>>
    PROVE  /\ IsSeq(Tail(s)) /\ Len(s) \in Nat \ {0}
           /\ DOMAIN s = 1..Len(s) /\ Head(s) = s[1]
           /\ \A i \in DOMAIN Tail(s) : i + 1 \in DOMAIN s /\ Tail(s)[i] = s[i + 1]
<1> DEFINE R == {s[i] : i \in DOMAIN s}
<1>1. s \in Seq(R)
    BY DEF IsSeq
<1>2. Tail(s) \in Seq(R) /\ Len(Tail(s)) = Len(s) - 1 /\ Len(s) \in Nat \ {0}
    BY <1>1
<1>3. \A i \in DOMAIN Tail(s) : i + 1 \in DOMAIN s /\ Tail(s)[i] = s[i + 1]
    BY <1>1, <1>2
<1>4. IsSeq(Tail(s))
    BY <1>2, SeqIsSeq
<1>5. QED
    BY <1>1, <1>2, <1>3, <1>4

\* The entries of a table after Put.
LEMMA PutFacts ==
    ASSUME NEW f, NEW key, NEW val
    PROVE  /\ DOMAIN Put(f, key, val) = DOMAIN f \cup {key}
           /\ Put(f, key, val)[key] = val
           /\ \A x \in DOMAIN f : x # key => Put(f, key, val)[x] = f[x]
BY DEF Put

Tasks == DOMAIN prog.body
Paths == Seq(Tasks \X Nat)
Sites == Seq([at : Nat, pos : Nat])

\* The program of a behaviour is one of Programs.
LEMMA ProgFacts ==
    ASSUME prog \in Programs
    PROVE  /\ "main" \in Tasks
           /\ \A t \in Tasks : prog.body[t] \in Seq(Ops(prog)) /\ prog.attempts[t] \in Nat \ {0}
BY BoundsAssumption DEF Tasks

\* The call at a body's position names a task, and its path is a path.
LEMMA CallPath ==
    ASSUME prog \in Programs, NEW t \in Tasks, NEW n \in 1..Len(prog.body[t]),
           prog.body[t][n].op = "call", NEW p \in Paths, NEW i \in Nat
    PROVE  /\ prog.body[t][n].task \in Tasks
           /\ Append(p, <<prog.body[t][n].task, i>>) \in Paths
           /\ Append(p, <<prog.body[t][n].task, i>>) # Root
<1>1. prog.body[t][n] \in Ops(prog)
    BY ProgFacts
<1>2. prog.body[t][n].task \in Tasks
    BY <1>1 DEF Ops, Tasks
<1>3. QED
    BY <1>2 DEF Paths, Root
-----------------------------------------------------------------------------
(* Type correctness.                                                        *)

Frame == [task : Tasks, site : Sites, pc : Nat, futs : Seq(Paths), att : Nat \ {0},
          before : Nat, node : Nat]
WriteOK(w) == w.k \in {"ok", "err"} /\ w.consumed \in Nat /\ w.site \in Sites
TableOK(w) == DOMAIN w \subseteq Paths /\ \A c \in DOMAIN w : WriteOK(w[c])

\* Checkpoints hold results, and no value of a run to come.
StoreOK ==
    /\ IsSeq(store)
    /\ \A i \in DOMAIN store :
          /\ {"prev", "w", "source", "next"} \subseteq DOMAIN store[i]
          /\ store[i].source \in {"input", "loop"} /\ store[i].next \in BOOLEAN
          /\ store[i].prev \in 0..epoch
          /\ TableOK(store[i].w)
ResultsOK == IsSeq(results) /\ \A i \in DOMAIN results : results[i].path \in Paths /\ WriteOK(results[i])
\* A goroutine holds futures of the run; its cursor is that of its attempt of
\* f, and never moves back.
Fits(f, fs, q) ==
    /\ f \in Frame
    /\ f.pc \in 1..(Len(prog.body[f.task]) + 1)
    /\ f.node \in DOMAIN q /\ f.before <= q[f.node]
    /\ \A i \in DOMAIN f.futs : f.futs[i] \in DOMAIN fs
FramesOK == DOMAIN frames \subseteq Paths /\ \A p \in DOMAIN frames : Fits(frames[p], futs, qi)
RootOK == Root \in DOMAIN frames => frames[Root].before = 0
FutsOK ==
    /\ DOMAIN futs \subseteq Paths
    /\ \A c \in DOMAIN futs :
          /\ {"k", "v", "task", "site"} \subseteq DOMAIN futs[c]
          /\ futs[c].k \in {"pending", "ok", "err", "intr"}
CountsOK == \A p \in DOMAIN counts : counts[p] \in Nat
ScalarsOK ==
    /\ prog \in Programs
    /\ phase \in {"idle", "running", "returned", "saving"}
    /\ ended \in {"none", "ok", "intr", "err"}
    /\ natt \in 1..prog.attempts["main"]
    /\ qi \in Seq(Nat)
    /\ turns \in 0..MaxTurns /\ epoch \in 0..turns /\ prevIn \in 0..epoch

TypeInv == ScalarsOK /\ StoreOK /\ ResultsOK /\ TableOK(replay) /\ FramesOK /\ RootOK /\ FutsOK /\ CountsOK

\* TypeInv has the types that the runs check.
LEMMA TypeInvTypeOK == TypeInv => TypeOK
<1> SUFFICES ASSUME TypeInv PROVE TypeOK
    OBVIOUS
<1>1. epoch \in 0..MaxTurns
    BY BoundsAssumption DEF TypeInv, ScalarsOK
<1>2. QED
    BY <1>1 DEF TypeInv, ScalarsOK, StoreOK, FramesOK, Fits, FutsOK, TypeOK, Frame, Tasks, Body

\* A new thread is well typed.
LEMMA InitTypeInv == Init => TypeInv
<1> SUFFICES ASSUME Init PROVE TypeInv
    OBVIOUS
<1>1. ScalarsOK
    BY ProgFacts, BoundsAssumption DEF Init, ScalarsOK, Tasks
<1>2. StoreOK /\ ResultsOK
    BY DEF Init, StoreOK, ResultsOK, IsSeq
<1>3. TableOK(replay) /\ FramesOK /\ RootOK /\ FutsOK /\ CountsOK
    BY DEF Init, TableOK, FramesOK, RootOK, FutsOK, CountsOK, Empty, NoReplay
<1>4. QED
    BY <1>1, <1>2, <1>3 DEF TypeInv
-----------------------------------------------------------------------------
(* What a step of a goroutine changes.                                      *)

Going(p) ==
    /\ GoesOn(p) /\ frames[p].pc <= Len(Body(p)) /\ Op(p).op # "call"
    /\ UNCHANGED qi \/ qi' = [qi EXCEPT ![frames[p].node] = @ + 1]
Ending(p, out, s) ==
    \/ p = Root /\ NodeEnd(out, s) /\ UNCHANGED <<futs, results, cache>>
    \/ p # Root /\ TaskEnd(p, out, s) /\ UNCHANGED <<store, ended, phase, saved, natt, qi>>

\* An operation other than a call lets the body go on, or ends it.
LEMMA BodyCases ==
    ASSUME NEW p \in DOMAIN frames, Get(p) \/ Ask(p) \/ Work(p) \/ Return(p)
    PROVE  /\ Live /\ UNCHANGED bodyFrame
           /\ Going(p) \/ \E out \in {"ok", "err", "intr"} : \E s : Ending(p, out, s)
<1>1. CASE Get(p)
    <2>1. ASSUME NEW out \in {"ok", "err", "intr"}, NEW s, End(p, out, s) PROVE Ending(p, out, s)
        BY <2>1 DEF End, Ending
    <2>2. QED
        BY <1>1, <2>1 DEF Get, Going, At
<1>2. CASE Ask(p)
    BY <1>2 DEF Ask, Going, Ending, End, At
<1>3. CASE Work(p)
    BY <1>3 DEF Work, Going, Ending, End, At
<1>4. CASE Return(p)
    BY <1>4 DEF Return, Going, Ending, End
<1>5. QED
    BY <1>1, <1>2, <1>3, <1>4

\* How the end of a task's attempt changes the goroutines, futures, results
\* and the cache.
LEMMA TaskEndCases ==
    ASSUME NEW p, NEW out, NEW s, TaskEnd(p, out, s)
    PROVE  /\ \/ frames' = Without(p)
              \/ /\ frames' = Restarted(p) /\ frames[p].att < prog.attempts[frames[p].task]
                 /\ UNCHANGED <<futs, results, cache>>
           /\ \/ UNCHANGED futs
              \/ \E k \in {"ok", "err", "intr"} : \E v :
                    /\ futs' = [futs EXCEPT ![p].k = k, ![p].v = v]
                    /\ k = "ok" => v = ValueOf(frames[p].task, frames[p].site)
           /\ \/ UNCHANGED results
              \/ \E k \in {"ok", "err"} : \E v :
                    /\ results' = Append(results, Result(p, frames[p].site, k, v, Consumed(p)))
                    /\ k = "ok" => v = ValueOf(frames[p].task, frames[p].site)
           /\ \/ UNCHANGED cache
              \/ cache' = Put(cache, frames[p].task, ValueOf(frames[p].task, frames[p].site))
BY DEF TaskEnd, InterruptPassthrough

\* How the end of an attempt of f changes the thread and the run.
LEMMA NodeEndCases ==
    ASSUME NEW out, NEW s, NodeEnd(out, s)
    PROVE  \/ /\ phase' = "returned" /\ ended' \in {"ok", "intr", "err"}
              /\ frames' = Without(Root) /\ UNCHANGED <<natt, qi>>
              /\ \/ UNCHANGED <<store, saved>>
                 \/ store' = Append(store, PauseCheckpoint(s)) /\ UNCHANGED saved
                 \/ store' = Append(store, FinalCheckpoint) /\ saved' = epoch
           \/ /\ natt < prog.attempts["main"] /\ natt' = natt + 1 /\ qi' = Append(qi, 0)
              /\ frames' = Restarted(Root)
              /\ UNCHANGED <<store, ended, phase, saved>>
BY DEF NodeEnd, AnotherAttempt
-----------------------------------------------------------------------------
(* Every step keeps the types.                                              *)

\* The goroutines after a step, with the program as it was.
LEMMA FramesStep ==
    ASSUME prog' = prog, DOMAIN frames' \subseteq Paths,
           \A q \in DOMAIN frames' : Fits(frames'[q], futs', qi')
    PROVE  FramesOK'
<1>1. Paths' = Paths /\ Frame' = Frame
    BY DEF Paths, Frame, Tasks
<1>2. QED
    BY <1>1 DEF FramesOK, Fits

\* Starting an attempt of f on a table of results.
LEMMA StartTypes ==
    ASSUME prog \in Programs, NEW table, TableOK(table), NEW prev, Start(table, prev)
    PROVE  /\ ResultsOK' /\ TableOK(replay)' /\ FramesOK' /\ RootOK' /\ FutsOK' /\ CountsOK'
           /\ qi' \in Seq(Nat) /\ natt' \in 1..prog'.attempts["main"] /\ prevIn' = prev
           /\ phase' = "running" /\ ended' = "none" /\ prog' = prog
<1>1. /\ prog' = prog /\ "main" \in Tasks /\ prog.body["main"] \in Seq(Ops(prog))
      /\ prog.attempts["main"] \in Nat \ {0}
    BY ProgFacts DEF Start
<1>2. ResultsOK' /\ FutsOK' /\ CountsOK' /\ TableOK(replay)'
    BY <1>1 DEF Start, ResultsOK, FutsOK, CountsOK, TableOK, IsSeq, Empty, Paths, Tasks, Sites, WriteOK
<1>3. FramesOK'
    <2>1. DOMAIN frames' = {Root} /\ frames'[Root] = NewFrame("main", <<>>, 0, 1)
        BY DEF Start
    <2>2. Root \in Paths /\ frames'[Root] \in Frame
        BY <1>1, <2>1 DEF NewFrame, Frame, Paths, Root, Sites
    <2>3. qi' = <<0>> /\ DOMAIN qi' = {1} /\ qi'[1] = 0
        BY DEF Start
    <2>4. Len(prog.body["main"]) \in Nat
        BY <1>1
    <2>5. Fits(frames'[Root], futs', qi')
        BY <2>1, <2>2, <2>3, <2>4 DEF Fits, NewFrame
    <2>6. QED
        BY <1>1, <2>1, <2>2, <2>5, FramesStep
<1>4. RootOK'
    BY DEF Start, RootOK, NewFrame
<1>5. QED
    BY <1>1, <1>2, <1>3, <1>4 DEF Start

\* The latest checkpoint is well formed.
LEMMA LatestFacts ==
    ASSUME StoreOK, store # <<>>
    PROVE  /\ Len(store) \in DOMAIN store /\ Latest.prev \in 0..epoch
           /\ TableOK(Latest.w) /\ TableOK(loadReplay(Latest, TRUE)) /\ TableOK(loadReplay(Latest, FALSE))
<1>1. Len(store) \in DOMAIN store
    BY TailFacts DEF StoreOK
<1>2. QED
    BY <1>1 DEF StoreOK, Latest, loadReplay, TableOK, NoReplay, Empty

\* The task a call names, the path it gets, and the caller's frame after it.
CallTask(p) == Op(p).task
CallAt(p) == Append(p, <<CallTask(p), nextCallIdx(p)>>)
Called(p) == [Advance(p) EXCEPT ![p].futs = Append(@, CallAt(p))]
Future(p, k, v) == [k |-> k, v |-> v, task |-> CallTask(p), site |-> Site(p)]

\* How a call changes the goroutines, futures, results and the cursor.
LEMMA CallCases ==
    ASSUME NEW p, Call(p)
    PROVE  /\ Live /\ At(p, "call")
           /\ counts' = Put(counts, p, nextCallIdx(p) + 1)
           /\ UNCHANGED <<prog, store, cache, phase, ended, prevIn, natt, cancelled, queue, replay,
                          turns, resumes, epoch, saved, done, redone, heard>>
           /\ \/ \E k, v, u :
                   /\ futs' = Put(futs, CallAt(p), Future(p, k, v))
                   /\ frames' = Called(p)
                   /\ results' = Append(results, Result(CallAt(p), Site(p), k, v, u))
                   /\ \/ /\ CallAt(p) \in DOMAIN replay
                         /\ k = replay[CallAt(p)].k /\ v = replay[CallAt(p)].v
                         /\ u = replay[CallAt(p)].consumed
                         /\ qi' = [qi EXCEPT ![frames[p].node] = @ + u]
                      \/ /\ k = "ok" /\ CallTask(p) \in prog.cached \cap DOMAIN cache
                         /\ v = cache[CallTask(p)] /\ u = 0 /\ UNCHANGED qi
                      \/ k = "err" /\ u = 0 /\ UNCHANGED qi
              \/ /\ CallAt(p) \notin DOMAIN replay
                 /\ futs' = Put(futs, CallAt(p), Future(p, "pending", NoValue))
                 /\ frames' = Put(Called(p), CallAt(p),
                                  NewFrame(CallTask(p), Site(p), Cursor(p), frames[p].node))
                 /\ UNCHANGED <<qi, results>>
<1> DEFINE R(k, v, u) ==
        /\ futs' = Put(futs, CallAt(p), Future(p, k, v))
        /\ frames' = Called(p)
        /\ results' = Append(results, Result(CallAt(p), Site(p), k, v, u))
<1>1. /\ Live /\ At(p, "call")
      /\ counts' = Put(counts, p, nextCallIdx(p) + 1)
      /\ UNCHANGED <<prog, store, cache, phase, ended, prevIn, natt, cancelled, queue, replay,
                     turns, resumes, epoch, saved, done, redone, heard>>
    BY DEF Call, threadVars
<1>2. \/ /\ CallAt(p) \in DOMAIN replay
         /\ R(replay[CallAt(p)].k, replay[CallAt(p)].v, replay[CallAt(p)].consumed)
         /\ qi' = [qi EXCEPT ![frames[p].node] = @ + replay[CallAt(p)].consumed]
      \/ /\ CallTask(p) \in prog.cached \cap DOMAIN cache
         /\ R("ok", cache[CallTask(p)], 0) /\ UNCHANGED qi
      \/ R("err", NoValue, 0) /\ UNCHANGED qi
      \/ /\ CallAt(p) \notin DOMAIN replay
         /\ futs' = Put(futs, CallAt(p), Future(p, "pending", NoValue))
         /\ frames' = Put(Called(p), CallAt(p),
                          NewFrame(CallTask(p), Site(p), Cursor(p), frames[p].node))
         /\ UNCHANGED <<qi, results>>
    BY DEF Call, CallTask, CallAt, Called, Future, ReplayHit, ReplayInterruptConsumption
<1>3. QED
    BY <1>1, <1>2

\* The path of a call is new to its caller, and its frames are well formed.
LEMMA CalledFacts ==
    ASSUME TypeInv, NEW p \in DOMAIN frames, At(p, "call")
    PROVE  /\ p \in Paths /\ nextCallIdx(p) \in Nat /\ CallTask(p) \in Tasks
           /\ CallAt(p) \in Paths /\ CallAt(p) # Root /\ CallAt(p) # p /\ Site(p) \in Sites
           /\ DOMAIN Called(p) = DOMAIN frames
           /\ \A q \in DOMAIN frames : q # p => Called(p)[q] = frames[q]
           /\ Called(p)[p] \in Frame /\ Called(p)[p].pc = frames[p].pc + 1
           /\ Called(p)[p].pc \in 1..(Len(Body(p)) + 1)
           /\ Called(p)[p].task = frames[p].task /\ Called(p)[p].site = frames[p].site
           /\ Called(p)[p].node = frames[p].node /\ Called(p)[p].before = frames[p].before
           /\ Called(p)[p].att = frames[p].att
           /\ \A i \in DOMAIN Called(p)[p].futs : Called(p)[p].futs[i] \in DOMAIN futs \cup {CallAt(p)}
<1> DEFINE f == frames[p]
           c == CallAt(p)
<1>1. prog \in Programs /\ p \in Paths /\ f \in Frame /\ f.task \in Tasks
    BY DEF TypeInv, ScalarsOK, FramesOK, Fits, Frame
<1>2. Body(p) \in Seq(Ops(prog)) /\ f.pc \in 1..Len(Body(p)) /\ Len(Body(p)) \in Nat
    BY <1>1, ProgFacts DEF At, TypeInv, FramesOK, Fits, Body
<1>3. nextCallIdx(p) \in Nat
    BY DEF TypeInv, CountsOK, nextCallIdx
<1>4. CallTask(p) \in Tasks /\ c \in Paths /\ c # Root
    BY <1>1, <1>2, <1>3, CallPath DEF At, Op, Body, CallTask, CallAt
<1>5. c # p
    <2>1. Len(c) = Len(p) + 1 /\ Len(p) \in Nat
        BY <1>1, <1>4 DEF Paths, CallAt
    <2>2. QED
        BY <2>1
<1>6. Site(p) \in Sites
    BY <1>1 DEF Site, Sites, Frame
<1>7. /\ DOMAIN Called(p) = DOMAIN frames
      /\ \A q \in DOMAIN frames : q # p => Called(p)[q] = frames[q]
      /\ Called(p)[p] = [f EXCEPT !.pc = f.pc + 1, !.futs = Append(f.futs, c)]
    BY <1>1 DEF Called, Advance, Frame
<1>8. f.futs \in Seq(Paths) /\ Append(f.futs, c) \in Seq(Paths) /\ f.pc + 1 \in Nat
    BY <1>1, <1>2, <1>4 DEF Frame
<1> HIDE DEF f, c
<1>9. /\ Called(p)[p] \in Frame /\ Called(p)[p].pc = f.pc + 1
      /\ Called(p)[p].task = f.task /\ Called(p)[p].site = f.site
      /\ Called(p)[p].node = f.node /\ Called(p)[p].before = f.before
      /\ Called(p)[p].att = f.att
      /\ Called(p)[p].futs = Append(f.futs, c)
    BY <1>1, <1>7, <1>8 DEF Frame
<1>10. \A i \in DOMAIN f.futs : f.futs[i] \in DOMAIN futs
    BY DEF TypeInv, FramesOK, Fits, f
<1>11. \A i \in DOMAIN Append(f.futs, c) : Append(f.futs, c)[i] \in DOMAIN futs \cup {c}
    BY <1>4, <1>8, <1>10
<1>12. f.pc + 1 \in 1..(Len(Body(p)) + 1)
    BY <1>2 DEF f
<1>13. QED
    BY <1>1, <1>3, <1>4, <1>5, <1>6, <1>7, <1>9, <1>11, <1>12 DEF f, c

Grows(q, r) == /\ q \in Seq(Nat) /\ r \in Seq(Nat) /\ DOMAIN q \subseteq DOMAIN r
               /\ \A n \in DOMAIN q : q[n] <= r[n]

\* A frame after an operation of its body.
LEMMA AdvancedFrame ==
    ASSUME NEW f \in Frame, NEW g, g = [f EXCEPT !.pc = f.pc + 1]
    PROVE  /\ g \in Frame /\ g.pc = f.pc + 1 /\ g.task = f.task /\ g.site = f.site
           /\ g.futs = f.futs /\ g.att = f.att /\ g.before = f.before /\ g.node = f.node
BY DEF Frame

\* A frame that starts over.
Afresh(f, n) == [f EXCEPT !.pc = 1, !.futs = <<>>, !.att = f.att + 1, !.node = n]

\* A frame that starts over keeps its task, its site and its cursor.
LEMMA RestartedFrame ==
    ASSUME NEW f \in Frame, NEW n \in Nat, NEW g, g = Afresh(f, n)
    PROVE  /\ g \in Frame /\ g.pc = 1 /\ g.task = f.task /\ g.site = f.site
           /\ g.futs = <<>> /\ g.att = f.att + 1 /\ g.before = f.before /\ g.node = n
<1>1. f.att + 1 \in Nat \ {0} /\ <<>> \in Seq(Paths)
    BY DEF Frame
<1>2. QED
    BY <1>1 DEF Frame, Afresh

\* More futures and cursors further on do not make a frame ill formed.
LEMMA FitsGrows ==
    ASSUME NEW f, NEW fs, NEW q, Fits(f, fs, q), NEW gs, NEW r,
           DOMAIN fs \subseteq DOMAIN gs, Grows(q, r)
    PROVE  Fits(f, gs, r)
<1>1. f \in Frame /\ f.before \in Nat /\ f.node \in DOMAIN q /\ f.before <= q[f.node]
    BY DEF Fits, Frame
<1>2. q[f.node] \in Nat /\ r[f.node] \in Nat /\ q[f.node] <= r[f.node] /\ f.node \in DOMAIN r
    BY <1>1 DEF Grows
<1>3. f.before <= r[f.node]
    BY <1>1, <1>2
<1>4. QED
    BY <1>1, <1>2, <1>3 DEF Fits

\* Advancing a cursor of a live goroutine.
LEMMA CursorGrows ==
    ASSUME qi \in Seq(Nat), NEW n \in DOMAIN qi, NEW u \in Nat
    PROVE  Grows(qi, qi) /\ Grows(qi, [qi EXCEPT ![n] = @ + u]) /\ Grows(qi, Append(qi, 0))
<1>1. \A m \in DOMAIN qi : qi[m] \in Nat
    OBVIOUS
<1>2. QED
    BY <1>1 DEF Grows

\* Recording the result of a call.
LEMMA RecordedTypes ==
    ASSUME ResultsOK, prog' = prog, NEW c \in Paths, NEW s \in Sites, NEW k \in {"ok", "err"},
           NEW v, NEW u \in Nat, results' = Append(results, Result(c, s, k, v, u))
    PROVE  ResultsOK'
<1> DEFINE e == Result(c, s, k, v, u)
<1>1. Paths' = Paths /\ Sites' = Sites
    BY DEF Paths, Sites, Tasks
<1>2. e.path \in Paths /\ WriteOK(e)
    BY DEF Result, WriteOK
<1> HIDE DEF e
<1>3. /\ IsSeq(Append(results, e)) /\ Len(results) \in Nat
      /\ DOMAIN results = 1..Len(results) /\ DOMAIN Append(results, e) = 1..(Len(results) + 1)
      /\ \A i \in DOMAIN results : Append(results, e)[i] = results[i]
      /\ Append(results, e)[Len(results) + 1] = e
    BY AppendFacts DEF ResultsOK
<1>4. results' = Append(results, e)
    BY DEF e
<1>5. \A i \in DOMAIN results' : results'[i].path \in Paths /\ WriteOK(results'[i])
    BY <1>2, <1>3, <1>4 DEF ResultsOK
<1>6. QED
    BY <1>1, <1>3, <1>4, <1>5 DEF ResultsOK, WriteOK

\* Saving a checkpoint.
LEMMA SavedTypes ==
    ASSUME StoreOK, prog' = prog, epoch \in Nat, epoch' \in Nat, epoch <= epoch',
           NEW cp, {"prev", "w", "source", "next"} \subseteq DOMAIN cp,
           cp.source \in {"input", "loop"}, cp.next \in BOOLEAN, cp.prev \in 0..epoch', TableOK(cp.w),
           store' = Append(store, cp)
    PROVE  StoreOK'
<1>1. Paths' = Paths /\ Sites' = Sites
    BY DEF Paths, Sites, Tasks
<1>2. /\ IsSeq(store') /\ Len(store) \in Nat
      /\ DOMAIN store = 1..Len(store) /\ DOMAIN store' = 1..(Len(store) + 1)
      /\ \A i \in DOMAIN store : store'[i] = store[i]
      /\ store'[Len(store) + 1] = cp
    BY AppendFacts DEF StoreOK
<1>3. \A i \in DOMAIN store : store[i].prev \in 0..epoch'
    BY DEF StoreOK
<1>4. \A i \in DOMAIN store' :
          /\ {"prev", "w", "source", "next"} \subseteq DOMAIN store'[i]
          /\ store'[i].source \in {"input", "loop"} /\ store'[i].next \in BOOLEAN
          /\ store'[i].prev \in 0..epoch'
          /\ TableOK(store'[i].w)
    BY <1>2, <1>3 DEF StoreOK
<1>5. QED
    BY <1>1, <1>2, <1>4 DEF StoreOK, TableOK, WriteOK

\* A goroutine's call, whether it is replayed, cached or started, keeps the types.
LEMMA CallTypes ==
    ASSUME TypeInv, NEW p \in DOMAIN frames, Call(p) PROVE TypeInv'
<1> DEFINE c == CallAt(p)
<1>0. /\ prog \in Programs /\ prog' = prog /\ Tasks' = Tasks /\ Paths' = Paths /\ Sites' = Sites
      /\ UNCHANGED <<store, replay, epoch, phase, ended, natt, turns, prevIn>> /\ At(p, "call")
    BY CallCases DEF TypeInv, ScalarsOK, Tasks, Paths, Sites
<1>1. /\ p \in Paths /\ nextCallIdx(p) \in Nat /\ CallTask(p) \in Tasks
      /\ c \in Paths /\ c # Root /\ c # p /\ Site(p) \in Sites
    BY <1>0, CalledFacts
<1>2. CountsOK'
    <2>1. counts' = Put(counts, p, nextCallIdx(p) + 1)
        BY CallCases
    <2>2. QED
        BY <1>1, <2>1 DEF TypeInv, CountsOK, Put
<1>3. c \in DOMAIN replay => WriteOK(replay[c])
    BY DEF TypeInv, TableOK
<1> HIDE DEF c
<1>4. /\ DOMAIN futs' = DOMAIN futs \cup {c}
      /\ \E k \in {"pending", "ok", "err", "intr"} : \E v : futs' = Put(futs, c, Future(p, k, v))
    <2>1. \E k, v : k \in {"pending", "ok", "err", "intr"} /\ futs' = Put(futs, c, Future(p, k, v))
        BY <1>3, CallCases DEF c, WriteOK
    <2>2. QED
        BY <2>1, PutFacts
<1>5. FutsOK'
    <2>1. PICK k \in {"pending", "ok", "err", "intr"} : \E v : futs' = Put(futs, c, Future(p, k, v))
        BY <1>4
    <2>2. PICK v : futs' = Put(futs, c, Future(p, k, v))
        BY <2>1
    <2>3. \A d \in DOMAIN futs' : futs'[d] = (IF d = c THEN Future(p, k, v) ELSE futs[d])
        BY <2>2 DEF Put
    <2>4. QED
        BY <1>0, <1>1, <1>4, <2>3 DEF TypeInv, FutsOK, Future
<1>6. Grows(qi, qi')
    <2>1. frames[p].node \in DOMAIN qi /\ qi \in Seq(Nat)
        BY DEF TypeInv, FramesOK, Fits, ScalarsOK
    <2>2. \/ UNCHANGED qi
          \/ c \in DOMAIN replay /\ qi' = [qi EXCEPT ![frames[p].node] = @ + replay[c].consumed]
        BY CallCases DEF c
    <2>3. QED
        BY <1>3, <2>1, <2>2, CursorGrows DEF WriteOK
<1>7. FramesOK'
    <2> DEFINE new == NewFrame(CallTask(p), Site(p), Cursor(p), frames[p].node)
    <2>1. /\ frames' = Called(p) \/ (frames' = Put(Called(p), c, new) /\ UNCHANGED qi)
        BY CallCases DEF c
    <2>2. ASSUME NEW q \in DOMAIN frames PROVE Fits(Called(p)[q], futs', qi') /\ q \in Paths
        <3>1. CASE q = p
            <4>1. Fits(frames[p], futs, qi)
                BY DEF TypeInv, FramesOK
            <4>2. Fits(Called(p)[p], futs', qi)
                BY <1>0, <1>4, <4>1, CalledFacts DEF Fits, Body, c
            <4>3. QED
                BY <1>1, <1>6, <3>1, <4>2, FitsGrows
        <3>2. CASE q # p
            <4>1. Called(p)[q] = frames[q] /\ Fits(frames[q], futs, qi) /\ q \in Paths
                BY <1>0, <3>2, CalledFacts DEF TypeInv, FramesOK
            <4>2. QED
                BY <1>4, <1>6, <4>1, FitsGrows
        <3>3. QED
            BY <3>1, <3>2
    <2>3. ASSUME UNCHANGED qi PROVE Fits(new, futs', qi')
        <3>1. Fits(frames[p], futs, qi) /\ Cursor(p) \in Nat
            BY DEF TypeInv, FramesOK, ScalarsOK, Cursor, Fits
        <3>2. Len(prog.body[CallTask(p)]) \in Nat
            BY <1>0, <1>1, ProgFacts
        <3>3. new \in Frame /\ new.futs = <<>> /\ new.pc = 1 /\ new.task = CallTask(p)
              /\ new.before = Cursor(p) /\ new.node = frames[p].node
            BY <1>1, <3>1 DEF NewFrame, Frame, Fits
        <3>4. Fits(new, futs, qi)
            BY <3>1, <3>2, <3>3 DEF Fits, Cursor
        <3>5. QED
            BY <1>4, <1>6, <3>4, FitsGrows
    <2>4. DOMAIN Called(p) = DOMAIN frames
        BY <1>0, CalledFacts
    <2> HIDE DEF new
    <2>5. CASE frames' = Called(p)
        BY <1>0, <2>2, <2>4, <2>5, FramesStep
    <2>6. CASE frames' = Put(Called(p), c, new) /\ UNCHANGED qi
        <3>1. DOMAIN frames' = DOMAIN frames \cup {c} /\ frames'[c] = new
              /\ \A q \in DOMAIN frames : q # c => frames'[q] = Called(p)[q]
            BY <2>4, <2>6 DEF Put
        <3>2. \A q \in DOMAIN frames' : Fits(frames'[q], futs', qi') /\ q \in Paths
            BY <1>1, <2>2, <2>3, <2>6, <3>1
        <3>3. QED
            BY <1>0, <3>2, FramesStep
    <2>7. QED
        BY <2>1, <2>5, <2>6
<1>8. ResultsOK'
    <2>1. \/ UNCHANGED results
          \/ \E k, v, u : /\ results' = Append(results, Result(c, Site(p), k, v, u))
                           /\ k \in {"ok", "err"} /\ u \in Nat
        BY <1>3, CallCases DEF WriteOK, c
    <2>2. ASSUME NEW k \in {"ok", "err"}, NEW v, NEW u \in Nat,
                 results' = Append(results, Result(c, Site(p), k, v, u))
          PROVE  ResultsOK'
        BY <1>0, <1>1, <2>2, RecordedTypes DEF TypeInv
    <2>3. ASSUME UNCHANGED results PROVE ResultsOK'
        BY <1>0, <2>3 DEF TypeInv, ResultsOK, WriteOK
    <2>4. QED
        BY <2>1, <2>2, <2>3
<1>9. StoreOK' /\ TableOK(replay)'
    BY <1>0 DEF TypeInv, StoreOK, TableOK, WriteOK
<1>10. ScalarsOK'
    BY <1>0, <1>6 DEF TypeInv, ScalarsOK, Grows
<1>11. RootOK'
    <2>1. ASSUME Root \in DOMAIN frames' PROVE Root \in DOMAIN frames /\ frames'[Root].before = frames[Root].before
        <3>1. Root \in DOMAIN frames /\ frames'[Root] = Called(p)[Root]
            <4>1. frames' = Called(p) \/ \E e : frames' = Put(Called(p), c, e)
                BY CallCases DEF c
            <4>2. DOMAIN Called(p) = DOMAIN frames
                BY <1>0, CalledFacts
            <4>3. QED
                BY <1>1, <2>1, <4>1, <4>2 DEF Put
        <3>2. QED
            BY <1>0, <3>1, CalledFacts
    <2>2. QED
        BY <2>1 DEF TypeInv, RootOK
<1>12. QED
    BY <1>2, <1>5, <1>7, <1>8, <1>9, <1>10, <1>11 DEF TypeInv

\* A goroutine that goes on, ends or starts over keeps the types.
LEMMA BodyTypes ==
    ASSUME TypeInv, NEW p \in DOMAIN frames, Get(p) \/ Ask(p) \/ Work(p) \/ Return(p)
    PROVE  TypeInv'
<1> DEFINE f == frames[p]
<1>0. /\ prog \in Programs /\ prog' = prog /\ Tasks' = Tasks /\ Paths' = Paths /\ Sites' = Sites
      /\ UNCHANGED <<prevIn, replay, counts, turns, epoch>>
    BY BodyCases DEF TypeInv, ScalarsOK, Tasks, Paths, Sites, bodyFrame
<1>1. /\ p \in Paths /\ f \in Frame /\ Fits(f, futs, qi) /\ qi \in Seq(Nat)
      /\ Body(p) \in Seq(Ops(prog)) /\ f.node \in DOMAIN qi /\ f.before <= qi[f.node]
      /\ f.before \in Nat /\ qi[f.node] \in Nat /\ Len(Body(p)) \in Nat
    <2>1. p \in Paths /\ Fits(f, futs, qi) /\ qi \in Seq(Nat)
        BY DEF TypeInv, ScalarsOK, FramesOK
    <2>2. f \in Frame /\ f.node \in DOMAIN qi /\ f.before <= qi[f.node] /\ f.task \in Tasks /\ f.before \in Nat
        BY <2>1 DEF Fits, Frame
    <2>3. Body(p) \in Seq(Ops(prog)) /\ Len(Body(p)) \in Nat
        BY <1>0, <2>2, ProgFacts DEF Body
    <2>4. QED
        BY <2>1, <2>2, <2>3
<1>2. TableOK(replay)' /\ CountsOK'
    BY <1>0 DEF TypeInv, TableOK, CountsOK, WriteOK
<1>3. /\ DOMAIN Without(p) = DOMAIN frames \ {p}
      /\ \A q \in DOMAIN Without(p) : Without(p)[q] = frames[q]
    BY DEF Without
<1>4. ASSUME UNCHANGED results PROVE ResultsOK'
    BY <1>0, <1>4 DEF TypeInv, ResultsOK, WriteOK
<1>5. ASSUME UNCHANGED futs PROVE FutsOK'
    BY <1>0, <1>5 DEF TypeInv, FutsOK
<1>6. ASSUME UNCHANGED store PROVE StoreOK'
    BY <1>0, <1>6 DEF TypeInv, StoreOK, TableOK, WriteOK
<1>7. ASSUME DOMAIN futs \subseteq DOMAIN futs', Grows(qi, qi'), DOMAIN frames' \subseteq DOMAIN frames,
             \A q \in DOMAIN frames' : q # p => frames'[q] = frames[q],
             p \in DOMAIN frames' => Fits(frames'[p], futs', qi')
      PROVE  FramesOK'
    <2>1. \A q \in DOMAIN frames : Fits(frames[q], futs', qi') /\ q \in Paths
        BY <1>7, FitsGrows DEF TypeInv, FramesOK
    <2>2. \A q \in DOMAIN frames' : Fits(frames'[q], futs', qi') /\ q \in Paths
        BY <1>7, <2>1
    <2>3. QED
        BY <1>0, <2>2, FramesStep
<1>r. RootOK'
    <2>1. ASSUME Root \in DOMAIN frames' PROVE Root \in DOMAIN frames /\ frames'[Root].before = frames[Root].before
        <3>1. \/ frames' = Advance(p) \/ frames' = Without(p) \/ frames' = Restarted(p)
            BY BodyCases, TaskEndCases, NodeEndCases DEF Going, GoesOn, Ending
        <3>2. DOMAIN frames' \subseteq DOMAIN frames
            BY <1>3, <3>1 DEF Advance, Restarted
        <3>3. Root # p => frames'[Root] = frames[Root]
            BY <1>3, <2>1, <3>1, <3>2 DEF Advance, Restarted
        <3>4. CASE Root = p
            <4>1. CASE frames' = Advance(p)
                BY <1>1, <3>4, <4>1 DEF Advance, Frame
            <4>2. CASE frames' = Restarted(p)
                <5>1. PICK n \in Nat : n = f.node + 1
                    BY <1>1 DEF Frame
                <5>2. frames'[p] = Afresh(f, n)
                    BY <1>1, <3>4, <4>2, <5>1 DEF Restarted, Frame, Afresh
                <5>3. QED
                    BY <1>1, <3>4, <5>2, RestartedFrame
            <4>3. QED
                BY <1>3, <2>1, <3>1, <3>4, <4>1, <4>2
        <3>5. QED
            BY <2>1, <3>2, <3>3, <3>4
    <2>2. QED
        BY <2>1 DEF TypeInv, RootOK
<1>8. CASE Going(p)
    <2>1. UNCHANGED <<store, ended, phase, natt, futs, results>> /\ frames' = Advance(p)
        BY <1>8 DEF Going, GoesOn
    <2>2. Grows(qi, qi')
        <3>1. Grows(qi, [qi EXCEPT ![f.node] = @ + 1]) /\ Grows(qi, qi)
            BY <1>1, CursorGrows
        <3>2. QED
            BY <1>8, <3>1 DEF Going
    <2>3. /\ DOMAIN frames' = DOMAIN frames /\ frames'[p] = [f EXCEPT !.pc = f.pc + 1]
          /\ \A q \in DOMAIN frames : q # p => frames'[q] = frames[q]
        BY <2>1 DEF Advance
    <2>4. Fits(frames'[p], futs, qi)
        <3>1. f.pc \in 1..Len(Body(p))
            BY <1>1, <1>8 DEF Going, Fits, Frame, Body
        <3>2. /\ frames'[p] \in Frame /\ frames'[p].pc = f.pc + 1 /\ frames'[p].task = f.task
              /\ frames'[p].node = f.node /\ frames'[p].before = f.before /\ frames'[p].futs = f.futs
            BY <1>1, <2>3, <3>1, AdvancedFrame
        <3>3. f.pc + 1 \in 1..(Len(prog.body[f.task]) + 1)
            BY <1>1, <3>1 DEF Body, f
        <3>4. QED
            BY <1>1, <3>2, <3>3 DEF Fits
    <2>5. FramesOK'
        BY <1>7, <2>1, <2>2, <2>3, <2>4, FitsGrows
    <2>6. ScalarsOK'
        BY <1>0, <2>1, <2>2 DEF TypeInv, ScalarsOK, Grows
    <2>7. QED
        BY <1>2, <1>4, <1>5, <1>6, <1>r, <2>1, <2>5, <2>6 DEF TypeInv
<1>9. ASSUME NEW n \in Nat, NEW q \in Seq(Nat), n \in DOMAIN q, f.before <= q[n],
             frames' = [frames EXCEPT ![p].pc = 1, ![p].futs = <<>>, ![p].att = @ + 1, ![p].node = n]
      PROVE  /\ DOMAIN frames' = DOMAIN frames
             /\ \A r \in DOMAIN frames' : r # p => frames'[r] = frames[r]
             /\ Fits(frames'[p], futs', q)
    <2>1. /\ DOMAIN frames' = DOMAIN frames
          /\ \A r \in DOMAIN frames' : r # p => frames'[r] = frames[r]
          /\ frames'[p] = Afresh(f, n)
        BY <1>1, <1>9 DEF Frame, Afresh
    <2>2. n \in Nat /\ f.att \in Nat /\ <<>> \in Seq(Paths) /\ Len(prog.body[f.task]) \in Nat
        BY <1>1, <1>9 DEF Frame, Body
    <2>3. /\ frames'[p] \in Frame /\ frames'[p].pc = 1 /\ frames'[p].task = f.task
          /\ frames'[p].node = n /\ frames'[p].before = f.before /\ frames'[p].futs = <<>>
        <3>1. f \in Frame /\ frames'[p] = Afresh(f, n)
            BY <1>1, <2>1
        <3>2. QED
            BY <3>1, RestartedFrame
    <2>4. QED
        BY <1>9, <2>1, <2>2, <2>3 DEF Fits
<1>10. ASSUME NEW out, NEW s, p # Root, TaskEnd(p, out, s),
              UNCHANGED <<store, ended, phase, saved, natt, qi>>
       PROVE  TypeInv'
    <2>1. DOMAIN futs' = DOMAIN futs /\ FutsOK'
        <3>1. ASSUME NEW k \in {"ok", "err", "intr"}, NEW v, futs' = [futs EXCEPT ![p].k = k, ![p].v = v]
              PROVE  DOMAIN futs' = DOMAIN futs /\ FutsOK'
            <4>1. /\ DOMAIN futs' = DOMAIN futs
                  /\ \A c \in DOMAIN futs : c # p => futs'[c] = futs[c]
                  /\ p \in DOMAIN futs => futs'[p] = [futs[p] EXCEPT !.k = k, !.v = v]
                BY <3>1
            <4>2. \A c \in DOMAIN futs : /\ {"k", "v", "task", "site"} \subseteq DOMAIN futs[c]
                                         /\ futs[c].k \in {"pending", "ok", "err", "intr"} /\ c \in Paths
                BY DEF TypeInv, FutsOK
            <4>3. \A c \in DOMAIN futs : /\ {"k", "v", "task", "site"} \subseteq DOMAIN futs'[c]
                                         /\ futs'[c].k \in {"pending", "ok", "err", "intr"}
                BY <4>1, <4>2
            <4>4. QED
                BY <1>0, <4>1, <4>2, <4>3 DEF FutsOK
        <3>2. QED
            BY <1>5, <1>10, <3>1, TaskEndCases
    <2>2. ResultsOK'
        <3>1. Consumed(p) \in Nat /\ f.site \in Sites
            BY <1>1 DEF Consumed, Cursor, Frame
        <3>2. ResultsOK
            BY DEF TypeInv
        <3>3. ASSUME NEW k \in {"ok", "err"}, NEW v,
                     results' = Append(results, Result(p, f.site, k, v, Consumed(p)))
              PROVE  ResultsOK'
            BY <1>0, <1>1, <3>1, <3>2, <3>3, RecordedTypes
        <3>4. QED
            BY <1>4, <1>10, <3>3, TaskEndCases
    <2>3. Grows(qi, qi')
        BY <1>1, <1>10, CursorGrows
    <2>4. FramesOK'
        <3>1. CASE frames' = Without(p)
            BY <1>3, <1>7, <2>1, <2>3, <3>1
        <3>2. CASE frames' = Restarted(p)
            <4>1. frames' = [frames EXCEPT ![p].pc = 1, ![p].futs = <<>>, ![p].att = @ + 1, ![p].node = f.node]
                BY <1>10, <3>2 DEF Restarted
            <4>2. Fits(frames'[p], futs', qi') /\ DOMAIN frames' = DOMAIN frames
                  /\ \A r \in DOMAIN frames' : r # p => frames'[r] = frames[r]
                BY <1>1, <1>9, <1>10, <4>1 DEF Frame
            <4>3. QED
                BY <1>7, <2>1, <2>3, <4>2
        <3>3. QED
            BY <1>10, <3>1, <3>2, TaskEndCases
    <2>5. ScalarsOK'
        BY <1>0, <1>10 DEF TypeInv, ScalarsOK
    <2>6. QED
        BY <1>2, <1>6, <1>r, <1>10, <2>1, <2>2, <2>4, <2>5 DEF TypeInv
<1>11. ASSUME NEW out, NEW s, p = Root, NodeEnd(out, s), UNCHANGED <<futs, results, cache>>
       PROVE  TypeInv'
    <2>1. CASE phase' = "returned" /\ ended' \in {"ok", "intr", "err"} /\ frames' = Without(Root)
               /\ UNCHANGED <<natt, qi>>
        <3>1. FramesOK'
            BY <1>1, <1>3, <1>7, <1>11, <2>1, CursorGrows
        <3>2. StoreOK'
            <4>1. ASSUME NEW cp, store' = Append(store, cp), cp \in {PauseCheckpoint(s), FinalCheckpoint}
                  PROVE  StoreOK'
                <5>1. /\ {"prev", "w", "source", "next"} \subseteq DOMAIN cp
                      /\ cp.source = "loop" /\ cp.next \in BOOLEAN /\ cp.prev \in 0..epoch /\ TableOK(cp.w)
                    <6>1. /\ prevIn \in 0..epoch /\ epoch \in 0..epoch
                          /\ \A w : w = Empty => TableOK(w)
                        BY DEF TypeInv, ScalarsOK, TableOK, Empty
                    <6>2. CASE cp = PauseCheckpoint(s)
                        BY <6>1, <6>2 DEF PauseCheckpoint
                    <6>3. CASE cp = FinalCheckpoint
                        BY <6>1, <6>3 DEF FinalCheckpoint
                    <6>4. QED
                        BY <4>1, <6>2, <6>3
                <5>2. epoch \in Nat /\ StoreOK
                    BY DEF TypeInv, ScalarsOK
                <5>3. QED
                    BY <1>0, <4>1, <5>1, <5>2, SavedTypes
            <4>2. QED
                BY <1>6, <1>11, <4>1, NodeEndCases
        <3>3. ScalarsOK'
            BY <1>0, <2>1 DEF TypeInv, ScalarsOK
        <3>4. QED
            BY <1>2, <1>4, <1>5, <1>r, <1>11, <3>1, <3>2, <3>3 DEF TypeInv
    <2>2. CASE natt < prog.attempts["main"] /\ natt' = natt + 1 /\ qi' = Append(qi, 0)
               /\ frames' = Restarted(Root) /\ UNCHANGED <<store, ended, phase, saved>>
        <3>1. Grows(qi, qi')
            BY <1>1, <2>2, CursorGrows
        <3>2. qi' \in Seq(Nat) /\ f.node + 1 \in DOMAIN qi' /\ f.before <= qi'[f.node + 1]
            <4>1. qi' \in Seq(Nat) /\ f.node + 1 \in DOMAIN qi'
                BY <1>1, <2>2
            <4>2. f.before = 0 /\ qi'[f.node + 1] \in Nat
                BY <1>11, <4>1 DEF TypeInv, RootOK
            <4>3. QED
                BY <4>1, <4>2
        <3>3. frames' = [frames EXCEPT ![p].pc = 1, ![p].futs = <<>>, ![p].att = @ + 1, ![p].node = f.node + 1]
            BY <1>11, <2>2 DEF Restarted
        <3>4. Fits(frames'[p], futs', qi') /\ DOMAIN frames' = DOMAIN frames
              /\ \A r \in DOMAIN frames' : r # p => frames'[r] = frames[r]
            <4>1. PICK n \in Nat : n = f.node + 1
                BY <1>1 DEF Frame
            <4>2. QED
                BY <1>9, <3>2, <3>3, <4>1
        <3>5. FramesOK'
            BY <1>7, <1>11, <3>1, <3>4
        <3>6. ScalarsOK'
            BY <1>0, <2>2, <3>1, ProgFacts DEF TypeInv, ScalarsOK, Grows
        <3>7. QED
            BY <1>2, <1>4, <1>5, <1>6, <1>11, <1>r, <2>2, <3>5, <3>6 DEF TypeInv
    <2>3. QED
        BY <1>11, <2>1, <2>2, NodeEndCases
<1>12. QED
    BY <1>8, <1>10, <1>11, BodyCases DEF Ending

\* What an invocation, the end of a run and the caller change.
LEMMA CallerTypes ==
    ASSUME TypeInv, InvokeFresh \/ InvokeResume \/ Close \/ Persist \/ Finish \/ ClearCache
                    \/ CancelRun \/ Crash \/ UNCHANGED vars
    PROVE  TypeInv'
<1>0. prog \in Programs /\ epoch \in Nat /\ StoreOK /\ turns \in 0..MaxTurns /\ epoch \in 0..turns /\ MaxTurns \in Nat
    BY BoundsAssumption DEF TypeInv, ScalarsOK
<1>1. ASSUME prog' = prog, UNCHANGED <<store, epoch>> PROVE StoreOK'
    BY <1>0, <1>1 DEF StoreOK, TableOK, WriteOK, Paths, Sites, Tasks
<1>2. CASE InvokeFresh
    <2> DEFINE prev == IF store = <<>> THEN 0 ELSE Latest.prev
               table == IF store = <<>> THEN NoReplay ELSE loadReplay(Latest, FALSE)
               cp == [source |-> "input", next |-> TRUE, prev |-> prev,
                      w |-> Empty, rq |-> <<>>, asked |-> <<>>]
    <2>1. Start(table, prev) /\ store' = Append(store, cp) /\ epoch' \in {epoch, epoch + 1}
          /\ turns < MaxTurns /\ turns' = turns + 1
        BY <1>2 DEF InvokeFresh
    <2>2. prev \in 0..epoch /\ TableOK(table)
        <3>1. CASE store = <<>>
            BY <1>0, <3>1 DEF TableOK, NoReplay, Empty
        <3>2. CASE store # <<>>
            BY <1>0, <3>2, LatestFacts
        <3>3. QED
            BY <3>1, <3>2
    <2>3. /\ {"prev", "w", "source", "next"} \subseteq DOMAIN cp
          /\ cp.source \in {"input", "loop"} /\ cp.next \in BOOLEAN /\ cp.prev = prev /\ TableOK(cp.w)
        BY DEF TableOK, Empty
    <2> HIDE DEF prev, table, cp
    <2>4. epoch' \in Nat /\ epoch <= epoch' /\ prev \in 0..epoch' /\ turns' \in 0..MaxTurns /\ epoch' \in 0..turns'
        BY <1>0, <2>1, <2>2
    <2>5. prog' = prog
        BY <2>1 DEF Start
    <2>6. StoreOK'
        BY <1>0, <2>1, <2>3, <2>4, <2>5, SavedTypes
    <2>7. QED
        BY <1>0, <2>1, <2>2, <2>4, <2>6, StartTypes DEF TypeInv, ScalarsOK
<1>3. CASE InvokeResume
    <2>1. /\ Start(loadReplay(Latest, TRUE), Latest.prev) /\ store # <<>>
          /\ UNCHANGED <<store, turns, epoch>>
        BY <1>3 DEF InvokeResume
    <2>2. Latest.prev \in 0..epoch /\ TableOK(loadReplay(Latest, TRUE))
        BY <1>0, <2>1, LatestFacts
    <2>3. prog' = prog
        BY <2>1 DEF Start
    <2>4. QED
        BY <1>0, <1>1, <2>1, <2>2, <2>3, StartTypes DEF TypeInv, ScalarsOK
<1>4. ASSUME UNCHANGED <<prog, store, epoch>>, frames' = Empty, futs' = Empty, counts' = Empty,
             replay' = NoReplay
      PROVE  StoreOK' /\ FramesOK' /\ RootOK' /\ FutsOK' /\ CountsOK' /\ TableOK(replay)'
    BY <1>1, <1>4 DEF FramesOK, RootOK, FutsOK, CountsOK, TableOK, Empty, NoReplay
<1>5. CASE Close
    <2>1. ResultsOK' /\ ScalarsOK'
        BY <1>5 DEF Close, TypeInv, ResultsOK, ScalarsOK, threadVars, WriteOK, Paths, Sites, Tasks
    <2>2. QED
        BY <1>4, <1>5, <2>1 DEF Close, TypeInv, threadVars
<1>6. CASE Crash
    <2>1. ResultsOK' /\ ScalarsOK'
        BY <1>6 DEF Crash, TypeInv, ResultsOK, ScalarsOK, IsSeq
    <2>2. QED
        BY <1>4, <1>6, <2>1 DEF Crash, TypeInv
<1>7. ASSUME UNCHANGED <<prog, counts, frames, futs, qi, replay>>
      PROVE  FramesOK' /\ RootOK' /\ FutsOK' /\ CountsOK' /\ TableOK(replay)'
    BY <1>7 DEF TypeInv, FramesOK, Fits, Frame, RootOK, FutsOK, CountsOK, TableOK, WriteOK, Paths, Sites, Tasks
<1>8. CASE Persist
    <2> DEFINE e == Head(results)
               n == Len(store)
               w == Latest.w
               new == [k |-> e.k, v |-> e.v, site |-> e.site, consumed |-> e.consumed]
               w2 == IF e.path \in DOMAIN w THEN w ELSE Put(w, e.path, new)
    <2>1. /\ results # <<>> /\ results' = Tail(results) /\ store' = [store EXCEPT ![n].w = w2]
          /\ UNCHANGED <<prog, counts, frames, futs, qi, replay, epoch, phase, ended, natt, turns, prevIn>>
        BY <1>8 DEF Persist, historyVars
    <2>2. ResultsOK' /\ e.path \in Paths /\ WriteOK(e)
        <3>1. e = results[1] /\ 1 \in DOMAIN results
            BY <2>1, TailFacts DEF TypeInv, ResultsOK
        <3>2. e.path \in Paths /\ WriteOK(e)
            BY <3>1 DEF TypeInv, ResultsOK
        <3>3. ResultsOK'
            BY <2>1, TailFacts DEF TypeInv, ResultsOK, WriteOK, Paths, Sites, Tasks
        <3>4. QED
            BY <3>2, <3>3
    <2>3. WriteOK(new)
        BY <2>2 DEF WriteOK
    <2> HIDE DEF new, e
    <2>4. ASSUME n \in DOMAIN store PROVE TableOK(w2)
        <3>1. TableOK(w)
            BY <2>4 DEF TypeInv, StoreOK, Latest
        <3>2. QED
            <4> HIDE DEF w
            <4>1. TableOK(Put(w, e.path, new))
                BY <2>2, <2>3, <3>1 DEF TableOK, Put
            <4>2. QED
                BY <3>1, <4>1
    <2> HIDE DEF w2
    <2>5. StoreOK'
        <3>1. /\ DOMAIN store' = DOMAIN store
              /\ \A i \in DOMAIN store : i # n => store'[i] = store[i]
              /\ n \in DOMAIN store => store'[n] = [store[n] EXCEPT !.w = w2]
            BY <2>1
        <3>2. \A i \in DOMAIN store :
                 /\ {"prev", "w", "source", "next"} \subseteq DOMAIN store[i]
                 /\ store[i].source \in {"input", "loop"} /\ store[i].next \in BOOLEAN
                 /\ store[i].prev \in 0..epoch /\ TableOK(store[i].w)
            BY <1>0 DEF StoreOK
        <3>3. n \in DOMAIN store =>
                 /\ {"prev", "w", "source", "next"} \subseteq DOMAIN store'[n]
                 /\ store'[n].source = store[n].source /\ store'[n].next = store[n].next
                 /\ store'[n].prev = store[n].prev /\ store'[n].w = w2
            BY <3>1, <3>2
        <3>4. \A i \in DOMAIN store' :
                 /\ {"prev", "w", "source", "next"} \subseteq DOMAIN store'[i]
                 /\ store'[i].source \in {"input", "loop"} /\ store'[i].next \in BOOLEAN
                 /\ store'[i].prev \in 0..epoch /\ TableOK(store'[i].w)
            BY <2>4, <3>1, <3>2, <3>3
        <3>5. IsSeq(store')
            <4>1. store \in Seq({store[i] : i \in DOMAIN store})
                BY <1>0 DEF StoreOK, IsSeq
            <4>2. store' \in Seq({store'[i] : i \in DOMAIN store'})
                <5>1. DOMAIN store' = 1..Len(store) /\ Len(store) \in Nat
                    BY <3>1, <4>1
                <5>2. store' = [i \in 1..Len(store) |-> store'[i]]
                    BY <2>1, <5>1
                <5>3. QED
                    BY <5>1, <5>2
            <4>3. QED
                BY <4>2 DEF IsSeq
        <3>6. QED
            BY <2>1, <3>4, <3>5 DEF StoreOK, TableOK, WriteOK, Paths, Sites, Tasks
    <2>6. ScalarsOK'
        BY <2>1 DEF TypeInv, ScalarsOK
    <2>7. QED
        BY <1>7, <2>1, <2>2, <2>5, <2>6 DEF TypeInv
<1>9. CASE Finish
    <2>1. ResultsOK' /\ ScalarsOK'
        BY <1>9 DEF Finish, TypeInv, ResultsOK, ScalarsOK, threadVars, IsSeq
    <2>2. QED
        BY <1>1, <1>7, <1>9, <2>1 DEF Finish, TypeInv, threadVars
<1>10. CASE ClearCache \/ CancelRun \/ UNCHANGED vars
    <2>1. UNCHANGED <<prog, counts, frames, futs, qi, replay, store, epoch, phase, ended, natt, turns, prevIn, results>>
        BY <1>10 DEF ClearCache, CancelRun, vars, threadVars, runVars, historyVars
    <2>2. ResultsOK' /\ ScalarsOK'
        BY <2>1 DEF TypeInv, ResultsOK, ScalarsOK, WriteOK, Paths, Sites, Tasks
    <2>3. QED
        BY <1>1, <1>7, <2>1, <2>2 DEF TypeInv
<1>11. QED
    BY <1>2, <1>3, <1>5, <1>6, <1>8, <1>9, <1>10

\* Every step keeps the types.
LEMMA StepTypeInv == TypeInv /\ [Next]_vars => TypeInv'
<1> SUFFICES ASSUME TypeInv, [Next]_vars PROVE TypeInv'
    OBVIOUS
<1>1. ASSUME NEW p \in DOMAIN frames, Call(p) \/ Get(p) \/ Ask(p) \/ Work(p) \/ Return(p) PROVE TypeInv'
    BY <1>1, CallTypes, BodyTypes
<1>2. QED
    BY <1>1, CallerTypes DEF Next, Step

\* TypeInv holds throughout.
LEMMA TypeInvHolds == Spec => []TypeInv
BY InitTypeInv, StepTypeInv, PTL DEF Spec

\* Every state the entrypoint reaches is well typed, whatever the program: a
\* goroutine stays within its body and holds only futures of its run, the
\* entrypoint node stays within its retry policy, and the cursors are natural
\* numbers, so that a replayed task never moves one back.
THEOREM FunctionalTypes == Spec => []TypeOK
BY TypeInvHolds, TypeInvTypeOK, PTL
-----------------------------------------------------------------------------
(* The previous value.                                                      *)

\* f has ended once the graph has returned.
RootEnded == phase = "returned" => Root \notin DOMAIN frames
\* The latest checkpoint carries the saved value, and so does a run of f.
LatestSaved == IF store = <<>> THEN saved = 0 ELSE Latest.prev = saved
SavedInv == RootEnded /\ LatestSaved /\ PreviousIsLastSaved

\* A new checkpoint is the latest.
LEMMA LatestAppended ==
    ASSUME StoreOK, NEW cp, store' = Append(store, cp)
    PROVE  store' # <<>> /\ Latest' = cp
BY AppendFacts DEF StoreOK, Latest

\* Every step keeps the saved value on the latest checkpoint.
LEMMA StepSavedInv == TypeInv /\ SavedInv /\ [Next]_vars => SavedInv'
<1> SUFFICES ASSUME TypeInv, SavedInv, [Next]_vars PROVE SavedInv'
    OBVIOUS
<1> USE DEF SavedInv, RootEnded, LatestSaved, PreviousIsLastSaved
<1>0. StoreOK
    BY DEF TypeInv
<1>1. ASSUME NEW p \in DOMAIN frames, Call(p) PROVE SavedInv'
    <2>1. UNCHANGED <<store, saved, phase, prevIn>> /\ At(p, "call")
        BY <1>1, CallCases
    <2>2. DOMAIN frames' \subseteq DOMAIN frames \cup {CallAt(p)} /\ CallAt(p) # Root
        <3>1. DOMAIN Called(p) = DOMAIN frames /\ CallAt(p) # Root
            BY <1>1, <2>1, CalledFacts
        <3>2. frames' = Called(p) \/ \E e : frames' = Put(Called(p), CallAt(p), e)
            BY <1>1, CallCases
        <3>3. QED
            BY <3>1, <3>2 DEF Put
    <2>3. QED
        BY <2>1, <2>2 DEF Latest
<1>2. ASSUME NEW p \in DOMAIN frames, Get(p) \/ Ask(p) \/ Work(p) \/ Return(p) PROVE SavedInv'
    <2>0. Live /\ UNCHANGED <<prevIn, epoch>>
        BY <1>2, BodyCases DEF bodyFrame
    <2>1. CASE Going(p)
        BY <2>0, <2>1 DEF Going, GoesOn, Advance, Latest
    <2>2. ASSUME NEW out, NEW s, p # Root, TaskEnd(p, out, s),
                 UNCHANGED <<store, ended, phase, saved, natt, qi>>
          PROVE  SavedInv'
        <3>1. DOMAIN frames' \subseteq DOMAIN frames
            BY <2>2, TaskEndCases DEF Without, Restarted
        <3>2. QED
            BY <2>0, <2>2, <3>1 DEF Latest
    <2>3. ASSUME NEW out, NEW s, p = Root, NodeEnd(out, s) PROVE SavedInv'
        <3>1. phase = "running" /\ prevIn = saved
            BY <1>2, <2>0, <2>3 DEF Live
        <3>2. CASE phase' = "returned" /\ frames' = Without(Root)
            <4>1. Root \notin DOMAIN frames'
                BY <3>2 DEF Without
            <4>2. LatestSaved'
                <5>1. CASE UNCHANGED <<store, saved>>
                    BY <5>1 DEF Latest
                <5>2. CASE store' = Append(store, PauseCheckpoint(s)) /\ UNCHANGED saved
                    BY <1>0, <3>1, <5>2, LatestAppended DEF PauseCheckpoint
                <5>3. CASE store' = Append(store, FinalCheckpoint) /\ saved' = epoch
                    BY <1>0, <5>3, LatestAppended DEF FinalCheckpoint
                <5>4. QED
                    BY <2>3, <3>2, <5>1, <5>2, <5>3, NodeEndCases
            <4>3. QED
                BY <3>2, <4>1, <4>2
        <3>3. CASE UNCHANGED <<store, phase, saved>>
            BY <2>0, <3>1, <3>3 DEF Latest
        <3>4. QED
            BY <2>3, <3>2, <3>3, NodeEndCases
    <2>4. QED
        BY <1>2, <2>1, <2>2, <2>3, BodyCases DEF Ending
<1>3. CASE InvokeFresh
    <2> DEFINE prev == IF store = <<>> THEN 0 ELSE Latest.prev
               cp == [source |-> "input", next |-> TRUE, prev |-> prev,
                      w |-> Empty, rq |-> <<>>, asked |-> <<>>]
    <2>1. store' = Append(store, cp) /\ phase' = "running" /\ prevIn' = prev /\ UNCHANGED saved
        BY <1>3 DEF InvokeFresh, Start
    <2>2. cp.prev = prev /\ prev = saved
        OBVIOUS
    <2> HIDE DEF cp
    <2>3. QED
        BY <1>0, <2>1, <2>2, LatestAppended
<1>4. CASE InvokeResume
    BY <1>4 DEF InvokeResume, Start, Latest
<1>5. CASE Close
    BY <1>5 DEF Close, Latest, threadVars
<1>6. CASE Persist
    <2> DEFINE n == Len(store)
    <2>1. PICK w : /\ store' = [store EXCEPT ![n].w = w] /\ phase = "saving"
                   /\ UNCHANGED <<phase, saved, frames, prevIn>>
        BY <1>6 DEF Persist, historyVars
    <2>2. CASE store = <<>>
        BY <2>1, <2>2
    <2>3. CASE store # <<>>
        <3>1. n \in DOMAIN store /\ "prev" \in DOMAIN store[n] /\ store' # <<>> /\ Len(store') = n
            BY <1>0, <2>1, <2>3, LatestFacts DEF StoreOK, IsSeq
        <3>2. store'[n].prev = store[n].prev
            BY <2>1, <3>1
        <3>3. QED
            BY <2>1, <2>3, <3>1, <3>2 DEF Latest
    <2>4. QED
        BY <2>2, <2>3
<1>7. CASE Finish \/ ClearCache \/ CancelRun \/ Crash \/ UNCHANGED vars
    BY <1>7 DEF Finish, ClearCache, CancelRun, Crash, Latest, vars, threadVars, runVars, historyVars, Empty
<1>8. QED
    BY <1>1, <1>2, <1>3, <1>4, <1>5, <1>6, <1>7 DEF Next, Step

\* f is given what the last completed run saved: a pause and an input
\* checkpoint carry the value over, only a final checkpoint replaces it, and
\* no failure, crash or late goroutine touches it.
THEOREM PreviousValue == Spec => []PreviousIsLastSaved
<1>1. Init => SavedInv
    BY DEF Init, SavedInv, RootEnded, LatestSaved, PreviousIsLastSaved, Empty
<1>2. SavedInv => PreviousIsLastSaved
    BY DEF SavedInv
<1>3. QED
    BY <1>1, <1>2, TypeInvHolds, StepSavedInv, PTL DEF Spec
-----------------------------------------------------------------------------
(* Paths and sites: which call a path and an index stand for.               *)

\* Every task that makes calls has a single attempt, the entrypoint included:
\* a second attempt would number its calls on from the first.
SingleAttempt ==
    \A g \in Programs : \A t \in DOMAIN g.body :
        (\E i \in DOMAIN g.body[t] : g.body[t][i].op = "call") => g.attempts[t] = 1

\* The calls of a body before a position, and the index the next one gets.
CallsBefore(g, t, n) == {m \in 1..(n - 1) : g.body[t][m].op = "call"}
Index(g, t, n) == Cardinality(CallsBefore(g, t, n))
IsCall(g, t, n) == n \in 1..Len(g.body[t]) /\ g.body[t][n].op = "call"

\* The task whose body makes the i-th call of a path.
Caller(c, i) == IF i = 1 THEN "main" ELSE c[i - 1][1]
TaskOf(c) == Caller(c, Len(c) + 1)

\* s is the site that path c stands for: at every level the position of the
\* call with that index, in the first attempt of its caller.
SitedAt(g, c, s, i) ==
    /\ s[i].at = 1 /\ IsCall(g, Caller(c, i), s[i].pos)
    /\ c[i][1] = g.body[Caller(c, i)][s[i].pos].task
    /\ c[i][2] = Index(g, Caller(c, i), s[i].pos)
Sited(g, c, s) == Len(s) = Len(c) /\ \A i \in 1..Len(c) : SitedAt(g, c, s, i)

\* The index grows by one with every call.
LEMMA IndexFacts ==
    ASSUME NEW t, NEW n \in Nat \ {0}
    PROVE  /\ IsFiniteSet(CallsBefore(prog, t, n)) /\ Index(prog, t, n) \in Nat /\ Index(prog, t, 1) = 0
           /\ prog.body[t][n].op = "call" => Index(prog, t, n + 1) = Index(prog, t, n) + 1
           /\ prog.body[t][n].op # "call" => Index(prog, t, n + 1) = Index(prog, t, n)
<1>1. IsFiniteSet(CallsBefore(prog, t, n))
    <2>1. IsFiniteSet(1..(n - 1))
        BY FS_Interval
    <2>2. CallsBefore(prog, t, n) \in SUBSET (1..(n - 1))
        BY DEF CallsBefore
    <2>3. QED
        BY <2>1, <2>2, FS_Subset
<1>2. Index(prog, t, n) \in Nat
    BY <1>1, FS_CardinalityType DEF Index
<1>3. Index(prog, t, 1) = 0
    <2>1. CallsBefore(prog, t, 1) = {}
        BY DEF CallsBefore
    <2>2. QED
        BY <2>1, FS_EmptySet DEF Index
<1>4. ASSUME prog.body[t][n].op = "call" PROVE Index(prog, t, n + 1) = Index(prog, t, n) + 1
    <2>1. CallsBefore(prog, t, n + 1) = CallsBefore(prog, t, n) \cup {n} /\ n \notin CallsBefore(prog, t, n)
        BY <1>4 DEF CallsBefore
    <2>2. QED
        BY <1>1, <2>1, FS_AddElement DEF Index
<1>5. ASSUME prog.body[t][n].op # "call" PROVE Index(prog, t, n + 1) = Index(prog, t, n)
    <2>1. CallsBefore(prog, t, n + 1) = CallsBefore(prog, t, n)
        BY <1>5 DEF CallsBefore
    <2>2. QED
        BY <2>1 DEF Index
<1>6. QED
    BY <1>1, <1>2, <1>3, <1>4, <1>5

\* A later call has a larger index.
LEMMA IndexGrows ==
    ASSUME NEW t, NEW m \in Nat \ {0}, NEW n \in Nat \ {0}, m < n, prog.body[t][m].op = "call"
    PROVE  Index(prog, t, m) < Index(prog, t, n)
<1>1. CallsBefore(prog, t, m + 1) \in SUBSET CallsBefore(prog, t, n)
    BY DEF CallsBefore
<1>2. IsFiniteSet(CallsBefore(prog, t, n)) /\ Index(prog, t, n) \in Nat /\ Index(prog, t, m) \in Nat
      /\ Index(prog, t, m + 1) = Index(prog, t, m) + 1
    BY IndexFacts
<1>3. Index(prog, t, m + 1) <= Index(prog, t, n)
    BY <1>1, <1>2, FS_Subset DEF Index
<1>4. QED
    BY <1>2, <1>3

\* The call with a given index is one call of the body.
LEMMA IndexUnique ==
    ASSUME NEW t, NEW m, NEW n, IsCall(prog, t, m), IsCall(prog, t, n), Index(prog, t, m) = Index(prog, t, n)
    PROVE  m = n
<1>1. m \in Nat \ {0} /\ n \in Nat \ {0} /\ prog.body[t][m].op = "call" /\ prog.body[t][n].op = "call"
    BY DEF IsCall
<1>2. Index(prog, t, m) \in Nat /\ Index(prog, t, n) \in Nat
    BY <1>1, IndexFacts
<1>3. ~(m < n) /\ ~(n < m)
    BY <1>1, <1>2, IndexGrows
<1>4. QED
    BY <1>1, <1>3

\* A path stands for one site ...
LEMMA SiteUnique ==
    ASSUME NEW c \in Paths, NEW s \in Sites, NEW r \in Sites, Sited(prog, c, s), Sited(prog, c, r)
    PROVE  s = r
<1> DEFINE E == [at : Nat, pos : Nat]
<1>0. s \in Seq(E) /\ r \in Seq(E)
    BY DEF Sites
<1>1. Len(s) = Len(r) /\ Len(c) = Len(s)
    BY DEF Sited
<1>2. ASSUME NEW i \in 1..Len(s) PROVE s[i] = r[i]
    <2>1. SitedAt(prog, c, s, i) /\ SitedAt(prog, c, r, i)
        BY <1>1 DEF Sited
    <2>2. s[i].pos = r[i].pos /\ s[i].at = r[i].at
        BY <2>1, IndexUnique DEF SitedAt
    <2>3. s[i] \in E /\ r[i] \in E
        <3> HIDE DEF E
        <3>1. QED
            BY <1>0, <1>1
    <2>4. QED
        BY <2>2, <2>3
<1> HIDE DEF E
<1>3. QED
    BY <1>0, <1>1, <1>2

\* ... and a site is that of one path.
LEMMA PathUnique ==
    ASSUME NEW c \in Paths, NEW d \in Paths, NEW s, Sited(prog, c, s), Sited(prog, d, s)
    PROVE  c = d
<1>1. Len(c) = Len(d) /\ Len(c) \in Nat
    BY DEF Sited, Paths
<1> DEFINE T == {i \in 1..Len(c) : c[i] # d[i]}
<1>2. ASSUME T # {} PROVE FALSE
    <2>1. T \subseteq Nat
        OBVIOUS
    <2>2. PICK i \in T : \A j \in T : ~(<<j, i>> \in OpToRel(<, Nat))
        BY <1>2, <2>1, WFMin, NatLessThanWellFounded
    <2>3. \A j \in T : ~(j < i)
        BY <2>1, <2>2 DEF OpToRel
    <2>4. i \in 1..Len(c) /\ (i # 1 => i - 1 \in 1..Len(c) /\ c[i - 1] = d[i - 1])
        BY <1>1, <2>3
    <2>5. Caller(c, i) = Caller(d, i)
        BY <2>4 DEF Caller
    <2>6. SitedAt(prog, c, s, i) /\ SitedAt(prog, d, s, i)
        BY <1>1, <2>4 DEF Sited
    <2>7. c[i][1] = d[i][1] /\ c[i][2] = d[i][2]
        BY <2>5, <2>6 DEF SitedAt
    <2>8. c[i] \in Tasks \X Nat /\ d[i] \in Tasks \X Nat
        BY <1>1, <2>4 DEF Paths
    <2>9. QED
        BY <2>4, <2>7, <2>8
<1>3. \A i \in 1..Len(c) : c[i] = d[i]
    BY <1>2
<1>4. QED
    BY <1>1, <1>3 DEF Paths

\* One level deeper.
Deeper(s, e) == Append(s, e)

\* A call from a path that stands for its site.
LEMMA SitedCall ==
    ASSUME NEW p \in Paths, NEW s \in Sites, Sited(prog, p, s), NEW n, IsCall(prog, TaskOf(p), n),
           NEW u, u = prog.body[TaskOf(p)][n].task, NEW x, x = Index(prog, TaskOf(p), n),
           NEW c \in Paths, c = Deeper(p, <<u, x>>), NEW r, r = Deeper(s, [at |-> 1, pos |-> n])
    PROVE  Sited(prog, c, r) /\ TaskOf(c) = u
<1> DEFINE k == Len(p)
<1>1. n \in Nat /\ [at |-> 1, pos |-> n] \in [at : Nat, pos : Nat] /\ k \in Nat /\ Len(s) = k
    BY DEF IsCall, Sited, Paths
<1>2. /\ Len(c) = k + 1 /\ c[k + 1] = <<u, x>> /\ \A i \in 1..k : c[i] = p[i]
    BY DEF Paths, Deeper
<1>3. /\ Len(r) = k + 1 /\ r[k + 1] = [at |-> 1, pos |-> n] /\ \A i \in 1..k : r[i] = s[i]
    BY <1>1 DEF Sites, Deeper
<1>4. ASSUME NEW i \in 1..(k + 1) PROVE Caller(c, i) = Caller(p, i)
    <2>1. CASE i = 1
        BY <2>1 DEF Caller
    <2>2. CASE i # 1
        <3>1. i - 1 \in 1..k
            BY <1>1, <2>2
        <3>2. c[i - 1] = p[i - 1]
            BY <1>2, <3>1
        <3>3. QED
            BY <2>2, <3>2 DEF Caller
    <2>3. QED
        BY <2>1, <2>2
<1>5. ASSUME NEW i \in 1..k PROVE SitedAt(prog, c, r, i)
    <2>0. \A j \in 1..k : SitedAt(prog, p, s, j)
        BY DEF Sited
    <2>1. i \in 1..(k + 1)
        BY <1>1
    <2>2. Caller(c, i) = Caller(p, i)
        BY <1>4, <2>1, Zenon
    <2>3. QED
        BY <1>2, <1>3, <2>0, <2>2 DEF SitedAt
<1>6. SitedAt(prog, c, r, k + 1)
    <2>1. Caller(c, k + 1) = TaskOf(p)
        BY <1>1, <1>4 DEF TaskOf
    <2>2. r[k + 1].at = 1 /\ r[k + 1].pos = n /\ c[k + 1][1] = u /\ c[k + 1][2] = x
        BY <1>2, <1>3
    <2>3. QED
        BY <2>1, <2>2 DEF SitedAt
<1>7. TaskOf(c) = u
    <2>1. Len(c) + 1 # 1 /\ Len(c) + 1 - 1 = k + 1
        BY <1>1, <1>2
    <2>2. TaskOf(c) = c[Len(c) + 1 - 1][1]
        BY <2>1 DEF TaskOf, Caller
    <2>3. QED
        BY <1>2, <2>1, <2>2
<1>8. \A i \in 1..Len(c) : SitedAt(prog, c, r, i)
    <2>1. \A i \in 1..Len(c) : i \in 1..k \/ i = k + 1
        BY <1>1, <1>2
    <2>2. QED
        BY <1>5, <1>6, <2>1
<1>9. QED
    BY <1>2, <1>3, <1>7, <1>8 DEF Sited
-----------------------------------------------------------------------------
(* Replay: a result is found under the call that produced it.               *)

\* A value is that of its call in logical run e; a cached one is a value of
\* its task.
GoodValue(g, e, t, s, v) ==
    IF t \in g.cached THEN v.task = t ELSE v = [task |-> t, site |-> s, epoch |-> e]
\* A result under path c is that of the call c stands for.
WriteSited(g, e, c, w) ==
    c # Root /\ Sited(g, c, w.site) /\ (w.k = "ok" => GoodValue(g, e, TaskOf(c), w.site, w.v))
TableSited(g, e, w) == \A c \in DOMAIN w : WriteSited(g, e, c, w[c])
FutSited(g, e, c, f) == WriteSited(g, e, c, f) /\ f.task = TaskOf(c) /\ f.site \in Sites

\* A goroutine runs the task of its path, and has numbered the calls it made.
CountOf(cs, p) == IF p \in DOMAIN cs THEN cs[p] ELSE 0
FrameSited(g, p, f, cs) ==
    /\ Sited(g, p, f.site) /\ f.task = TaskOf(p)
    /\ f.att <= g.attempts[f.task]
    /\ CountOf(cs, p) = Index(g, f.task, f.pc)
FramesSited == \A p \in DOMAIN frames : FrameSited(prog, p, frames[p], counts) /\ p \notin DOMAIN replay
FutsSited == \A c \in DOMAIN futs : FutSited(prog, epoch, c, futs[c])
ResultsSited == \A i \in DOMAIN results : WriteSited(prog, epoch, results[i].path, results[i])
LatestSited == store # <<>> => TableSited(prog, epoch, Latest.w)
\* A path is used only once its caller has counted it.
Parent(c) == [j \in 1..(Len(c) - 1) |-> c[j]]
Used(c, cs) == c # Root => c[Len(c)][2] \in 0..(CountOf(cs, Parent(c)) - 1)
Fresh == \A c \in DOMAIN counts \cup DOMAIN frames : Used(c, counts)
CacheSited == \A t \in DOMAIN cache : cache[t].task = t
RootAttempt == Root \in DOMAIN frames => frames[Root].att = natt
\* What the run must not execute again is in its replay table.
DoneInReplay == Live => \A s \in done : \E c \in DOMAIN replay : replay[c].site = s

SiteInv == /\ FramesSited /\ FutsSited /\ ResultsSited /\ LatestSited /\ TableSited(prog, epoch, replay) /\ Fresh
           /\ CacheSited /\ RootAttempt /\ DoneInReplay

\* The caller of a path.
LEMMA ParentFacts ==
    ASSUME NEW p \in Paths, NEW t \in Tasks, NEW i \in Nat, NEW c, c = Deeper(p, <<t, i>>)
    PROVE  Parent(c) = p /\ c[Len(c)] = <<t, i>> /\ c # Root
<1>1. c \in Paths /\ Len(c) = Len(p) + 1 /\ Len(p) \in Nat /\ c[Len(c)] = <<t, i>>
    BY DEF Paths, Deeper
<1>2. Parent(c) = p
    <2>1. DOMAIN p = 1..Len(p) /\ Len(c) - 1 = Len(p)
        BY <1>1 DEF Paths
    <2>2. \A j \in 1..Len(p) : c[j] = p[j]
        BY <1>1 DEF Paths, Deeper
    <2>3. p = [j \in 1..Len(p) |-> p[j]]
        BY <2>1 DEF Paths
    <2>4. QED
        BY <2>1, <2>2, <2>3 DEF Parent
<1>3. QED
    BY <1>1, <1>2 DEF Root

\* A caller with a single attempt is in its first, and a task with several
\* attempts has made no calls.
LEMMA SingleFacts ==
    ASSUME SingleAttempt, prog \in Programs, NEW t \in Tasks
    PROVE  /\ \A n : IsCall(prog, t, n) => prog.attempts[t] = 1
           /\ prog.attempts[t] # 1 => \A n \in 1..(Len(prog.body[t]) + 1) : Index(prog, t, n) = 0
<1>1. prog.body[t] \in Seq(Ops(prog)) /\ DOMAIN prog.body[t] = 1..Len(prog.body[t]) /\ Len(prog.body[t]) \in Nat
    BY ProgFacts
<1>2. \A n : IsCall(prog, t, n) => prog.attempts[t] = 1
    BY <1>1 DEF SingleAttempt, IsCall, Tasks
<1>3. ASSUME prog.attempts[t] # 1, NEW n \in 1..(Len(prog.body[t]) + 1) PROVE Index(prog, t, n) = 0
    <2>1. CallsBefore(prog, t, n) = {}
        BY <1>1, <1>2, <1>3 DEF CallsBefore, IsCall
    <2>2. QED
        BY <2>1, FS_EmptySet DEF Index
<1>4. QED
    BY <1>2, <1>3

\* What a call's path and site are.
LEMMA CallSited ==
    ASSUME SingleAttempt, TypeInv, SiteInv, NEW p \in DOMAIN frames, At(p, "call")
    PROVE  /\ Sited(prog, CallAt(p), Site(p)) /\ TaskOf(CallAt(p)) = CallTask(p)
           /\ nextCallIdx(p) = CountOf(counts, p)
           /\ nextCallIdx(p) + 1 = Index(prog, frames[p].task, frames[p].pc + 1)
           /\ Parent(CallAt(p)) = p /\ CallAt(p)[Len(CallAt(p))][2] = nextCallIdx(p)
           /\ CallAt(p) \notin DOMAIN counts \cup DOMAIN frames
<1> DEFINE f == frames[p]
           c == CallAt(p)
<1>1. /\ p \in Paths /\ nextCallIdx(p) \in Nat /\ CallTask(p) \in Tasks
      /\ c \in Paths /\ c # Root /\ c # p
    BY CalledFacts
<1>2. /\ f.task \in Tasks /\ f.site \in Sites /\ f.pc \in 1..Len(prog.body[f.task]) /\ f.att \in Nat \ {0}
      /\ prog \in Programs /\ f.pc \in Nat \ {0}
    <2>1. prog \in Programs /\ f \in Frame /\ f.pc \in 1..(Len(prog.body[f.task]) + 1)
        BY DEF TypeInv, ScalarsOK, FramesOK, Fits
    <2>2. f.task \in Tasks /\ f.site \in Sites /\ f.att \in Nat \ {0}
        BY <2>1 DEF Frame
    <2>3. Len(prog.body[f.task]) \in Nat
        BY <2>1, <2>2, ProgFacts
    <2>4. QED
        BY <2>1, <2>2, <2>3 DEF At, Body
<1>3. Sited(prog, p, f.site) /\ f.task = TaskOf(p) /\ f.att <= prog.attempts[f.task]
      /\ CountOf(counts, p) = Index(prog, f.task, f.pc)
    BY DEF SiteInv, FramesSited, FrameSited
<1>4. IsCall(prog, f.task, f.pc) /\ CallTask(p) = prog.body[f.task][f.pc].task
      /\ prog.body[f.task][f.pc].op = "call"
    BY <1>2 DEF At, Op, Body, IsCall, CallTask
<1>5. f.att = 1
    <2>1. prog.attempts[f.task] = 1
        BY <1>2, <1>4, SingleFacts
    <2>2. QED
        BY <1>2, <1>3, <2>1
<1>6. nextCallIdx(p) = CountOf(counts, p)
    BY DEF nextCallIdx, CountOf
<1>7. Sited(prog, c, Site(p)) /\ TaskOf(c) = CallTask(p)
    <2>1. Site(p) = Deeper(f.site, [at |-> 1, pos |-> f.pc])
        BY <1>5 DEF Site, Deeper
    <2>2. c = Deeper(p, <<CallTask(p), nextCallIdx(p)>>)
        BY DEF CallAt, Deeper
    <2>3. IsCall(prog, TaskOf(p), f.pc) /\ nextCallIdx(p) = Index(prog, TaskOf(p), f.pc)
          /\ CallTask(p) = prog.body[TaskOf(p)][f.pc].task
        BY <1>3, <1>4, <1>6
    <2> HIDE DEF c, f
    <2>4. QED
        BY <1>1, <1>2, <1>3, <2>1, <2>2, <2>3, SitedCall
<1>8. nextCallIdx(p) + 1 = Index(prog, f.task, f.pc + 1)
    BY <1>2, <1>3, <1>4, <1>6, IndexFacts
<1>9. Parent(c) = p /\ c[Len(c)][2] = nextCallIdx(p)
    <2>1. c = Deeper(p, <<CallTask(p), nextCallIdx(p)>>)
        BY DEF CallAt, Deeper
    <2> HIDE DEF c
    <2>2. ASSUME NEW i \in Nat, NEW d, d = Deeper(p, <<CallTask(p), i>>)
          PROVE  Parent(d) = p /\ d[Len(d)] = <<CallTask(p), i>>
        BY <1>1, <2>2, ParentFacts
    <2>3. Parent(c) = p /\ c[Len(c)] = <<CallTask(p), nextCallIdx(p)>>
        BY <1>1, <2>1, <2>2
    <2>4. QED
        BY <2>3
<1>10. c \notin DOMAIN counts \cup DOMAIN frames
    <2>1. ASSUME c \in DOMAIN counts \cup DOMAIN frames PROVE FALSE
        <3>1. Used(c, counts)
            BY <2>1 DEF SiteInv, Fresh
        <3>2. nextCallIdx(p) \in 0..(nextCallIdx(p) - 1)
            BY <1>1, <1>6, <1>9, <3>1 DEF Used
        <3>3. QED
            BY <1>1, <3>2
    <2>2. QED
        BY <2>1
<1>11. QED
    BY <1>6, <1>7, <1>8, <1>9, <1>10

\* A value recorded for the call at p is the value of that call.
LEMMA CallValue ==
    ASSUME SingleAttempt, TypeInv, SiteInv, NEW p \in DOMAIN frames, Call(p)
    PROVE  /\ \E k, v :
                /\ futs' = Put(futs, CallAt(p), Future(p, k, v))
                /\ k = "ok" => GoodValue(prog, epoch, CallTask(p), Site(p), v)
           /\ \/ UNCHANGED results
              \/ \E k, v, u :
                    /\ results' = Append(results, Result(CallAt(p), Site(p), k, v, u))
                    /\ k = "ok" => GoodValue(prog, epoch, CallTask(p), Site(p), v)
<1> DEFINE c == CallAt(p)
<1>1. At(p, "call")
    BY CallCases
<1>2. c \in Paths /\ Site(p) \in Sites
    BY <1>1, CalledFacts
<1>3. Sited(prog, c, Site(p)) /\ TaskOf(c) = CallTask(p)
    BY <1>1, CallSited
<1>4. ASSUME c \in DOMAIN replay, replay[c].k = "ok"
      PROVE  GoodValue(prog, epoch, CallTask(p), Site(p), replay[c].v)
    <2>1. WriteSited(prog, epoch, c, replay[c]) /\ replay[c].site \in Sites
        BY <1>4 DEF SiteInv, TableSited, TypeInv, TableOK, WriteOK
    <2> HIDE DEF c
    <2>2. replay[c].site = Site(p)
        BY <1>2, <1>3, <2>1, SiteUnique DEF WriteSited
    <2>3. QED
        BY <1>3, <1>4, <2>1, <2>2 DEF WriteSited
<1>5. CallTask(p) \in prog.cached \cap DOMAIN cache
      => GoodValue(prog, epoch, CallTask(p), Site(p), cache[CallTask(p)])
    BY DEF SiteInv, CacheSited, GoodValue
<1>6. QED
    BY <1>4, <1>5, CallCases DEF c

\* Recording a sited result.
LEMMA RecordedSited ==
    ASSUME TypeInv, ResultsSited, NEW c, NEW s, NEW k, NEW v, NEW u,
           results' = Append(results, Result(c, s, k, v, u)), UNCHANGED <<prog, epoch>>,
           c # Root, Sited(prog, c, s), k = "ok" => GoodValue(prog, epoch, TaskOf(c), s, v)
    PROVE  ResultsSited'
<1> DEFINE e == Result(c, s, k, v, u)
<1>1. WriteSited(prog, epoch, e.path, e)
    BY DEF Result, WriteSited
<1>2. results' = Append(results, e)
    OBVIOUS
<1> HIDE DEF e
<1>3. /\ DOMAIN results = 1..Len(results) /\ DOMAIN results' = 1..(Len(results) + 1) /\ Len(results) \in Nat
      /\ \A i \in DOMAIN results : results'[i] = results[i]
      /\ results'[Len(results) + 1] = e
    BY <1>2, AppendFacts DEF TypeInv, ResultsOK
<1>4. \A i \in DOMAIN results' : WriteSited(prog, epoch, results'[i].path, results'[i])
    BY <1>1, <1>3 DEF ResultsSited
<1>5. QED
    BY <1>4 DEF ResultsSited

\* A call keeps paths and sites together.
LEMMA CallSites ==
    ASSUME SingleAttempt, TypeInv, SiteInv, NEW p \in DOMAIN frames, Call(p) PROVE SiteInv'
<1> DEFINE f == frames[p]
           c == CallAt(p)
           n == nextCallIdx(p)
<1>0. /\ UNCHANGED <<prog, store, cache, phase, natt, replay, epoch, done>> /\ At(p, "call")
      /\ counts' = Put(counts, p, n + 1)
    BY CallCases
<1>1. /\ p \in Paths /\ n \in Nat /\ CallTask(p) \in Tasks /\ c \in Paths /\ c # Root /\ c # p /\ Site(p) \in Sites
      /\ DOMAIN Called(p) = DOMAIN frames
      /\ \A q \in DOMAIN frames : q # p => Called(p)[q] = frames[q]
      /\ Called(p)[p].pc = f.pc + 1 /\ Called(p)[p].task = f.task /\ Called(p)[p].site = f.site
      /\ Called(p)[p].att = f.att
    BY <1>0, CalledFacts
<1>2. /\ Sited(prog, c, Site(p)) /\ TaskOf(c) = CallTask(p)
      /\ n = CountOf(counts, p) /\ n + 1 = Index(prog, f.task, f.pc + 1)
      /\ Parent(c) = p /\ c[Len(c)][2] = n
      /\ c \notin DOMAIN counts \cup DOMAIN frames
    BY <1>0, CallSited
<1>3. /\ CountOf(counts', p) = n + 1 /\ CountOf(counts', c) = 0
      /\ \A q : q # p => CountOf(counts', q) = CountOf(counts, q)
    <2> HIDE DEF c, n
    <2>1. DOMAIN counts' = DOMAIN counts \cup {p} /\ counts'[p] = n + 1
          /\ \A q \in DOMAIN counts : q # p => counts'[q] = counts[q]
        BY <1>0 DEF Put
    <2>2. QED
        BY <1>1, <1>2, <2>1 DEF CountOf
<1>4. \/ frames' = Called(p)
      \/ /\ frames' = Put(Called(p), c, NewFrame(CallTask(p), Site(p), Cursor(p), frames[p].node))
         /\ c \notin DOMAIN replay
    BY CallCases
<1> HIDE DEF c, n
<1>5. /\ DOMAIN frames \subseteq DOMAIN frames' /\ DOMAIN frames' \subseteq DOMAIN frames \cup {c}
      /\ \A q \in DOMAIN frames : frames'[q] = Called(p)[q]
      /\ c \in DOMAIN frames' => /\ c \notin DOMAIN replay
                                 /\ frames'[c] = NewFrame(CallTask(p), Site(p), Cursor(p), frames[p].node)
    <2>1. c \notin DOMAIN frames
        BY <1>2
    <2>2. CASE frames' = Called(p)
        BY <1>1, <2>1, <2>2
    <2>3. CASE frames' = Put(Called(p), c, NewFrame(CallTask(p), Site(p), Cursor(p), frames[p].node))
               /\ c \notin DOMAIN replay
        BY <1>1, <2>1, <2>3 DEF Put
    <2>4. QED
        BY <1>4, <2>2, <2>3
<1>6. FramesSited'
    <2>1. ASSUME NEW q \in DOMAIN frames PROVE FrameSited(prog, q, frames'[q], counts') /\ q \notin DOMAIN replay
        <3>1. FrameSited(prog, q, frames[q], counts) /\ q \notin DOMAIN replay
            BY DEF SiteInv, FramesSited
        <3>2. CASE q = p
            BY <1>1, <1>2, <1>3, <1>5, <3>1, <3>2 DEF FrameSited
        <3>3. CASE q # p
            BY <1>1, <1>3, <1>5, <3>1, <3>3 DEF FrameSited
        <3>4. QED
            BY <3>2, <3>3
    <2>2. ASSUME c \in DOMAIN frames' PROVE FrameSited(prog, c, frames'[c], counts') /\ c \notin DOMAIN replay
        <3>1. frames'[c].task = CallTask(p) /\ frames'[c].site = Site(p) /\ frames'[c].pc = 1 /\ frames'[c].att = 1
            BY <1>5, <2>2 DEF NewFrame
        <3>2. 1 <= prog.attempts[CallTask(p)] /\ Index(prog, CallTask(p), 1) = 0
            BY <1>1, ProgFacts, IndexFacts DEF TypeInv, ScalarsOK
        <3>3. QED
            BY <1>2, <1>3, <1>5, <2>2, <3>1, <3>2 DEF FrameSited
    <2>3. QED
        BY <1>0, <1>5, <2>1, <2>2 DEF FramesSited
<1>7. FutsSited'
    <2>1. PICK k, v : /\ futs' = Put(futs, c, Future(p, k, v))
                      /\ k = "ok" => GoodValue(prog, epoch, CallTask(p), Site(p), v)
        BY CallValue DEF c
    <2>2. FutSited(prog, epoch, c, Future(p, k, v))
        BY <1>1, <1>2, <2>1 DEF FutSited, WriteSited, Future
    <2>3. \A d \in DOMAIN futs' : d \in DOMAIN futs \cup {c} /\ futs'[d] = (IF d = c THEN Future(p, k, v) ELSE futs[d])
        BY <2>1 DEF Put
    <2>4. QED
        BY <1>0, <2>2, <2>3 DEF SiteInv, FutsSited
<1>8. ResultsSited'
    <2>1. ASSUME NEW k, NEW v, NEW u, results' = Append(results, Result(c, Site(p), k, v, u)),
                 k = "ok" => GoodValue(prog, epoch, CallTask(p), Site(p), v)
          PROVE  ResultsSited'
        BY <1>0, <1>1, <1>2, <2>1, RecordedSited DEF SiteInv
    <2>2. ASSUME UNCHANGED results PROVE ResultsSited'
        BY <1>0, <2>2 DEF SiteInv, ResultsSited
    <2>3. QED
        BY <2>1, <2>2, CallValue DEF c
<1>9. Fresh'
    <2>1. ASSUME NEW d \in DOMAIN counts \cup DOMAIN frames PROVE Used(d, counts')
        <3>1. Used(d, counts)
            BY DEF SiteInv, Fresh
        <3>2. CASE Parent(d) = p /\ d # Root
            <4>1. d[Len(d)][2] \in 0..(n - 1)
                BY <1>2, <3>1, <3>2 DEF Used
            <4>2. QED
                BY <1>1, <1>3, <3>2, <4>1 DEF Used
        <3>3. CASE Parent(d) # p \/ d = Root
            BY <1>3, <3>1, <3>3 DEF Used
        <3>4. QED
            BY <3>2, <3>3
    <2>2. Used(c, counts')
        BY <1>1, <1>2, <1>3 DEF Used
    <2>3. DOMAIN counts' \cup DOMAIN frames' \subseteq DOMAIN counts \cup DOMAIN frames \cup {c}
        BY <1>0, <1>5 DEF Put
    <2>4. QED
        BY <2>1, <2>2, <2>3 DEF Fresh
<1>10. LatestSited' /\ TableSited(prog, epoch, replay)' /\ CacheSited' /\ DoneInReplay'
    BY <1>0 DEF SiteInv, LatestSited, Latest, TableSited, CacheSited, DoneInReplay, Live
<1>11. RootAttempt'
    BY <1>0, <1>1, <1>5 DEF SiteInv, RootAttempt
<1>12. QED
    BY <1>6, <1>7, <1>8, <1>9, <1>10, <1>11 DEF SiteInv

\* A goroutine that goes on, ends or starts over keeps paths and sites together.
LEMMA BodySites ==
    ASSUME SingleAttempt, TypeInv, SiteInv, NEW p \in DOMAIN frames, Get(p) \/ Ask(p) \/ Work(p) \/ Return(p)
    PROVE  SiteInv'
<1> DEFINE f == frames[p]
<1>0. UNCHANGED <<prog, replay, counts, epoch, done>> /\ Live
    BY BodyCases DEF bodyFrame
<1>1. /\ p \in Paths /\ f \in Frame /\ f.task \in Tasks /\ f.site \in Sites /\ f.att \in Nat \ {0}
      /\ prog \in Programs /\ f.pc \in 1..(Len(prog.body[f.task]) + 1) /\ f.pc \in Nat \ {0} /\ f.node \in Nat
    <2>1. prog \in Programs /\ f \in Frame /\ f.pc \in 1..(Len(prog.body[f.task]) + 1) /\ p \in Paths
        BY DEF TypeInv, ScalarsOK, FramesOK, Fits
    <2>2. f.task \in Tasks /\ f.site \in Sites /\ f.att \in Nat \ {0} /\ f.pc \in Nat /\ f.node \in Nat
        BY <2>1 DEF Frame
    <2>3. Len(prog.body[f.task]) \in Nat
        BY <2>1, <2>2, ProgFacts
    <2>4. QED
        BY <2>1, <2>2, <2>3
<1>2. /\ Sited(prog, p, f.site) /\ f.task = TaskOf(p) /\ f.att <= prog.attempts[f.task]
      /\ CountOf(counts, p) = Index(prog, f.task, f.pc) /\ prog.attempts[f.task] \in Nat
    BY <1>1, ProgFacts DEF SiteInv, FramesSited, FrameSited
<1>3. ASSUME DOMAIN frames' \subseteq DOMAIN frames, \A q \in DOMAIN frames' : q # p => frames'[q] = frames[q],
             p \in DOMAIN frames' => FrameSited(prog, p, frames'[p], counts)
      PROVE  FramesSited' /\ Fresh'
    BY <1>0, <1>3 DEF SiteInv, FramesSited, Fresh
<1>4. TableSited(prog, epoch, replay)' /\ DoneInReplay'
    BY <1>0 DEF SiteInv, TableSited, DoneInReplay
<1>5. ASSUME frames' = Without(p) PROVE FramesSited' /\ Fresh' /\ p \notin DOMAIN frames'
                                          /\ \A q \in DOMAIN frames' : q \in DOMAIN frames /\ frames'[q] = frames[q]
    BY <1>3, <1>5 DEF Without
<1>6. ASSUME frames' = Restarted(p), f.att < prog.attempts[f.task]
      PROVE  /\ FramesSited' /\ Fresh' /\ DOMAIN frames' = DOMAIN frames /\ frames'[p].att = f.att + 1
             /\ \A q \in DOMAIN frames : q # p => frames'[q] = frames[q]
    <2>1. /\ DOMAIN frames' = DOMAIN frames
          /\ \A q \in DOMAIN frames : q # p => frames'[q] = frames[q]
        BY <1>6 DEF Restarted
    <2>2. frames'[p].pc = 1 /\ frames'[p].task = f.task /\ frames'[p].site = f.site /\ frames'[p].att = f.att + 1
        <3>1. PICK n \in Nat : n = IF p = Root THEN f.node + 1 ELSE f.node
            BY <1>1
        <3>2. frames'[p] = Afresh(f, n)
            BY <1>1, <1>6, <3>1 DEF Restarted, Afresh, Frame
        <3> HIDE DEF f
        <3>3. frames'[p].pc = 1 /\ frames'[p].task = f.task /\ frames'[p].site = f.site
            BY <1>1, <3>2, RestartedFrame
        <3>4. frames'[p].att = f.att + 1
            BY <1>1, <3>2 DEF Afresh, Frame
        <3>5. QED
            BY <3>3, <3>4
    <2>3. Index(prog, f.task, f.pc) = 0 /\ Index(prog, f.task, 1) = 0
        <3>1. prog.attempts[f.task] # 1
            BY <1>1, <1>2, <1>6
        <3>2. QED
            BY <1>1, <3>1, SingleFacts, IndexFacts
    <2>4. f.att + 1 <= prog.attempts[f.task]
        BY <1>1, <1>2, <1>6
    <2>5. FrameSited(prog, p, frames'[p], counts)
        BY <1>2, <2>2, <2>3, <2>4 DEF FrameSited
    <2>6. QED
        BY <1>3, <2>1, <2>2, <2>5
<1>7. ASSUME UNCHANGED store PROVE LatestSited'
    BY <1>0, <1>7 DEF SiteInv, LatestSited, Latest
<1>8. CASE Going(p)
    <2>1. UNCHANGED <<store, natt, futs, results, cache>> /\ frames' = Advance(p)
        BY <1>8 DEF Going, GoesOn
    <2>2. /\ DOMAIN frames' = DOMAIN frames /\ frames'[p] = [f EXCEPT !.pc = f.pc + 1]
          /\ \A q \in DOMAIN frames : q # p => frames'[q] = frames[q]
        BY <2>1 DEF Advance
    <2>3. /\ frames'[p].pc = f.pc + 1 /\ frames'[p].task = f.task /\ frames'[p].site = f.site
          /\ frames'[p].att = f.att
        BY <1>1, <2>2, AdvancedFrame
    <2>4. Index(prog, f.task, f.pc + 1) = Index(prog, f.task, f.pc)
        BY <1>1, <1>8, IndexFacts DEF Going, Op, Body
    <2>5. FrameSited(prog, p, frames'[p], counts)
        BY <1>2, <2>3, <2>4 DEF FrameSited
    <2>6. FramesSited' /\ Fresh'
        BY <1>3, <2>2, <2>5
    <2>7. FutsSited' /\ ResultsSited' /\ CacheSited'
        BY <1>0, <2>1 DEF SiteInv, FutsSited, ResultsSited, CacheSited
    <2>8. RootAttempt'
        BY <2>1, <2>2, <2>3 DEF SiteInv, RootAttempt
    <2>9. QED
        BY <1>4, <1>7, <2>1, <2>6, <2>7, <2>8 DEF SiteInv
<1>9. ASSUME NEW out, NEW s, p # Root, TaskEnd(p, out, s), UNCHANGED <<store, natt>>
      PROVE  SiteInv'
    <2>1. ASSUME NEW v, v = ValueOf(f.task, f.site) PROVE GoodValue(prog, epoch, TaskOf(p), f.site, v)
        BY <1>2, <2>1 DEF GoodValue, ValueOf
    <2>2. FutsSited'
        <3>1. ASSUME NEW k, NEW v, k = "ok" => v = ValueOf(f.task, f.site),
                     futs' = [futs EXCEPT ![p].k = k, ![p].v = v]
              PROVE  FutsSited'
            <4>1. /\ DOMAIN futs' = DOMAIN futs
                  /\ \A c \in DOMAIN futs : c # p => futs'[c] = futs[c]
                  /\ p \in DOMAIN futs => futs'[p] = [futs[p] EXCEPT !.k = k, !.v = v]
                BY <3>1
            <4>2. ASSUME p \in DOMAIN futs PROVE FutSited(prog, epoch, p, futs'[p])
                <5>1. {"k", "v", "task", "site"} \subseteq DOMAIN futs[p] /\ FutSited(prog, epoch, p, futs[p])
                    BY <4>2 DEF SiteInv, FutsSited, TypeInv, FutsOK
                <5>2. /\ futs'[p].k = k /\ futs'[p].v = v
                      /\ futs'[p].task = futs[p].task /\ futs'[p].site = futs[p].site
                    BY <4>1, <4>2, <5>1
                <5>3. futs[p].site = f.site
                    BY <1>1, <1>2, <5>1, SiteUnique DEF FutSited, WriteSited
                <5>4. QED
                    BY <2>1, <3>1, <5>1, <5>2, <5>3 DEF FutSited, WriteSited
            <4>3. QED
                BY <1>0, <4>1, <4>2 DEF SiteInv, FutsSited
        <3>2. ASSUME UNCHANGED futs PROVE FutsSited'
            BY <1>0, <3>2 DEF SiteInv, FutsSited
        <3>3. QED
            BY <1>9, <3>1, <3>2, TaskEndCases
    <2>3. ResultsSited'
        <3>1. ASSUME NEW k, NEW v, k = "ok" => v = ValueOf(f.task, f.site),
                     results' = Append(results, Result(p, f.site, k, v, Consumed(p)))
              PROVE  ResultsSited'
            BY <1>0, <1>2, <1>9, <2>1, <3>1, RecordedSited DEF SiteInv
        <3>2. ASSUME UNCHANGED results PROVE ResultsSited'
            BY <1>0, <3>2 DEF SiteInv, ResultsSited
        <3>3. QED
            BY <1>9, <3>1, <3>2, TaskEndCases
    <2>4. CacheSited'
        <3>1. ASSUME cache' = Put(cache, f.task, ValueOf(f.task, f.site)) PROVE CacheSited'
            <4>1. ValueOf(f.task, f.site).task = f.task
                BY DEF ValueOf
            <4>2. QED
                BY <3>1, <4>1 DEF SiteInv, CacheSited, Put
        <3>2. ASSUME UNCHANGED cache PROVE CacheSited'
            BY <3>2 DEF SiteInv, CacheSited
        <3>3. QED
            BY <1>9, <3>1, <3>2, TaskEndCases
    <2>5. FramesSited' /\ Fresh' /\ RootAttempt'
        <3>1. CASE frames' = Without(p)
            BY <1>5, <1>9, <3>1 DEF SiteInv, RootAttempt
        <3>2. CASE frames' = Restarted(p) /\ f.att < prog.attempts[f.task]
            BY <1>6, <1>9, <3>2 DEF SiteInv, RootAttempt
        <3>3. QED
            BY <1>9, <3>1, <3>2, TaskEndCases
    <2>6. QED
        BY <1>4, <1>7, <1>9, <2>2, <2>3, <2>4, <2>5 DEF SiteInv
<1>10. ASSUME NEW out, NEW s, p = Root, NodeEnd(out, s), UNCHANGED <<futs, results, cache>>
       PROVE  SiteInv'
    <2>1. FutsSited' /\ ResultsSited' /\ CacheSited'
        BY <1>0, <1>10 DEF SiteInv, FutsSited, ResultsSited, CacheSited
    <2>2. LatestSited'
        <3>1. ASSUME NEW cp, store' = Append(store, cp), cp.w = Empty PROVE LatestSited'
            <4>1. StoreOK
                BY DEF TypeInv
            <4>2. Latest' = cp
                BY <3>1, <4>1, LatestAppended
            <4>3. QED
                BY <3>1, <4>2 DEF LatestSited, TableSited, Empty
        <3>2. PauseCheckpoint(s).w = Empty /\ FinalCheckpoint.w = Empty
            BY DEF PauseCheckpoint, FinalCheckpoint
        <3>3. QED
            BY <1>7, <1>10, <3>1, <3>2, NodeEndCases
    <2>3. FramesSited' /\ Fresh' /\ RootAttempt'
        <3>1. f.task = "main" /\ f.att = natt
            BY <1>2, <1>10 DEF SiteInv, RootAttempt, TaskOf, Caller, Root
        <3>2. CASE frames' = Without(Root)
            BY <1>5, <1>10, <3>2 DEF RootAttempt
        <3>3. CASE natt < prog.attempts["main"] /\ natt' = natt + 1 /\ frames' = Restarted(Root)
            BY <1>6, <1>10, <3>1, <3>3 DEF RootAttempt
        <3>4. QED
            BY <1>10, <3>2, <3>3, NodeEndCases
    <2>4. QED
        BY <1>4, <2>1, <2>2, <2>3 DEF SiteInv
<1>11. QED
    BY <1>8, <1>9, <1>10, BodyCases DEF Ending

\* A run starts with f alone, on a table of sited results.
LEMMA StartSites ==
    ASSUME prog \in Programs, CacheSited, NEW table, NEW prev, Start(table, prev),
           TableSited(prog, epoch', table)
    PROVE  /\ FramesSited' /\ FutsSited' /\ ResultsSited' /\ TableSited(prog, epoch, replay)'
           /\ Fresh' /\ CacheSited' /\ RootAttempt'
<1>1. /\ prog' = prog /\ replay' = table /\ counts' = Empty /\ futs' = Empty /\ results' = <<>>
      /\ cache' = cache /\ natt' = 1
      /\ DOMAIN frames' = {Root} /\ frames'[Root] = NewFrame("main", <<>>, 0, 1)
    BY DEF Start
<1>2. /\ frames'[Root].task = "main" /\ frames'[Root].site = <<>> /\ frames'[Root].att = 1
      /\ frames'[Root].pc = 1
    BY <1>1 DEF NewFrame
<1>3. Sited(prog, Root, <<>>) /\ TaskOf(Root) = "main"
    BY DEF Sited, Root, TaskOf, Caller
<1>4. CountOf(Empty, Root) = 0 /\ Index(prog, "main", 1) = 0 /\ 1 <= prog.attempts["main"]
    BY ProgFacts, IndexFacts DEF CountOf, Empty
<1>5. Root \notin DOMAIN table
    BY DEF TableSited, WriteSited
<1>6. FramesSited'
    BY <1>1, <1>2, <1>3, <1>4, <1>5 DEF FramesSited, FrameSited
<1>7. FutsSited' /\ ResultsSited' /\ CacheSited' /\ RootAttempt' /\ TableSited(prog, epoch, replay)'
    BY <1>1, <1>2 DEF FutsSited, ResultsSited, CacheSited, RootAttempt, TableSited, Empty
<1>8. Fresh'
    BY <1>1 DEF Fresh, Used, Empty
<1>9. QED
    BY <1>6, <1>7, <1>8

\* What a run that continues must not execute again is in the table it loads.
LEMMA LoadedDone ==
    ASSUME NEW table, table = Latest.w, replay' = table, done' = Returned(Latest)
    PROVE  DoneInReplay'
BY DEF DoneInReplay, Returned

\* An invocation, the end of a run and the caller keep paths and sites together.
LEMMA CallerSites ==
    ASSUME TypeInv, SiteInv, InvokeFresh \/ InvokeResume \/ Close \/ Persist \/ Finish \/ ClearCache
                    \/ CancelRun \/ Crash \/ UNCHANGED vars
    PROVE  SiteInv'
<1>0. prog \in Programs /\ StoreOK /\ CacheSited /\ (store # <<>> => TableSited(prog, epoch, Latest.w))
    BY DEF TypeInv, ScalarsOK, SiteInv, LatestSited
<1>e. \A e : TableSited(prog, e, NoReplay)
    BY DEF TableSited, NoReplay, Empty
<1>1. ASSUME UNCHANGED <<prog, store, epoch>> PROVE LatestSited'
    BY <1>0, <1>1 DEF LatestSited, Latest
<1>2. CASE InvokeFresh
    <2> DEFINE prev == IF store = <<>> THEN 0 ELSE Latest.prev
               table == IF store = <<>> THEN NoReplay ELSE loadReplay(Latest, FALSE)
               continues == store # <<>> /\ Latest.source = "input"
               cp == [source |-> "input", next |-> TRUE, prev |-> prev,
                      w |-> Empty, rq |-> <<>>, asked |-> <<>>]
    <2>1. Start(table, prev) /\ store' = Append(store, cp) /\ cp.w = Empty
        BY <1>2 DEF InvokeFresh
    <2>2. /\ epoch' = (IF continues THEN epoch ELSE epoch + 1)
          /\ done' = (IF continues THEN Returned(Latest) ELSE {})
        BY <1>2 DEF InvokeFresh
    <2>3. TableSited(prog, epoch', table) /\ (continues /\ table # Latest.w => DOMAIN Latest.w = {})
        <3>1. CASE continues
            BY <1>0, <1>e, <2>2, <3>1 DEF loadReplay
        <3>2. CASE ~continues
            BY <1>e, <3>2 DEF loadReplay
        <3>3. QED
            BY <3>1, <3>2
    <2>4. replay' = table
        BY <2>1 DEF Start
    <2>5. DoneInReplay'
        <3>1. CASE continues /\ table = Latest.w
            BY <2>2, <2>4, <3>1, LoadedDone
        <3>2. CASE ~continues
            BY <2>2, <3>2 DEF DoneInReplay
        <3>3. CASE continues /\ DOMAIN Latest.w = {}
            BY <2>2, <3>3 DEF DoneInReplay, Returned
        <3>4. QED
            BY <2>3, <3>1, <3>2, <3>3
    <2> HIDE DEF prev, table, continues, cp
    <2>6. LatestSited'
        <3>1. Latest' = cp
            BY <1>0, <2>1, LatestAppended
        <3>2. QED
            BY <2>1, <3>1 DEF LatestSited, TableSited, Empty
    <2>7. QED
        BY <1>0, <2>1, <2>3, <2>5, <2>6, StartSites DEF SiteInv
<1>3. CASE InvokeResume
    <2>1. /\ Start(loadReplay(Latest, TRUE), Latest.prev) /\ store # <<>> /\ Latest.next
          /\ UNCHANGED <<store, epoch>> /\ done' = Returned(Latest)
        BY <1>3 DEF InvokeResume
    <2>2. loadReplay(Latest, TRUE) = Latest.w
        BY <2>1 DEF loadReplay
    <2>3. prog' = prog /\ replay' = Latest.w
        BY <2>1, <2>2 DEF Start
    <2>4. DoneInReplay'
        BY <2>1, <2>3, LoadedDone
    <2>5. TableSited(prog, epoch', loadReplay(Latest, TRUE))
        BY <1>0, <2>1, <2>2
    <2>6. QED
        BY <1>0, <1>1, <2>1, <2>3, <2>4, <2>5, StartSites DEF SiteInv
<1>4. ASSUME UNCHANGED <<prog, store, epoch>>, frames' = Empty, futs' = Empty, counts' = Empty,
             replay' = NoReplay, ~Live'
      PROVE  /\ LatestSited' /\ FramesSited' /\ FutsSited' /\ Fresh' /\ RootAttempt' /\ DoneInReplay'
             /\ TableSited(prog, epoch, replay)'
    BY <1>1, <1>4 DEF FramesSited, FutsSited, Fresh, RootAttempt, DoneInReplay, TableSited, Empty, NoReplay
<1>5. CASE Close
    <2>1. ~Live' /\ ResultsSited' /\ CacheSited'
        BY <1>5 DEF Close, SiteInv, ResultsSited, CacheSited, threadVars, Live
    <2>2. QED
        BY <1>4, <1>5, <2>1 DEF Close, SiteInv, threadVars
<1>6. CASE Crash
    <2>1. ~Live' /\ ResultsSited' /\ CacheSited'
        BY <1>6 DEF Crash, ResultsSited, CacheSited, Live, Empty
    <2>2. QED
        BY <1>4, <1>6, <2>1 DEF Crash, SiteInv
<1>7. ASSUME UNCHANGED <<prog, counts, frames, futs, natt, replay, epoch, done>>, Live' => Live
      PROVE  /\ FramesSited' /\ FutsSited' /\ Fresh' /\ RootAttempt' /\ DoneInReplay'
             /\ TableSited(prog, epoch, replay)'
    BY <1>7 DEF SiteInv, FramesSited, FutsSited, Fresh, RootAttempt, DoneInReplay, TableSited
<1>8. CASE Persist
    <2> DEFINE e == Head(results)
               n == Len(store)
               w == Latest.w
               new == [k |-> e.k, v |-> e.v, site |-> e.site, consumed |-> e.consumed]
               w2 == IF e.path \in DOMAIN w THEN w ELSE Put(w, e.path, new)
    <2>1. /\ results # <<>> /\ results' = Tail(results) /\ store' = [store EXCEPT ![n].w = w2]
          /\ UNCHANGED <<prog, counts, frames, futs, natt, replay, epoch, done, phase, cache>>
        BY <1>8 DEF Persist, historyVars
    <2>2. ResultsSited' /\ WriteSited(prog, epoch, e.path, e)
        <3>1. e = results[1] /\ 1 \in DOMAIN results
            BY <2>1, TailFacts DEF TypeInv, ResultsOK
        <3>2. WriteSited(prog, epoch, e.path, e)
            BY <3>1 DEF SiteInv, ResultsSited
        <3>3. \A i \in DOMAIN results' : i + 1 \in DOMAIN results /\ results'[i] = results[i + 1]
            BY <2>1, TailFacts DEF TypeInv, ResultsOK
        <3>4. ResultsSited'
            BY <2>1, <3>3 DEF SiteInv, ResultsSited
        <3>5. QED
            BY <3>2, <3>4
    <2>3. WriteSited(prog, epoch, e.path, new)
        BY <2>2 DEF WriteSited
    <2> HIDE DEF new, e
    <2>4. ASSUME store # <<>> PROVE TableSited(prog, epoch, w2)
        <3>1. TableSited(prog, epoch, w)
            BY <1>0, <2>4
        <3> HIDE DEF w
        <3>2. TableSited(prog, epoch, Put(w, e.path, new))
            BY <2>3, <3>1 DEF TableSited, Put
        <3>3. QED
            BY <3>1, <3>2
    <2> HIDE DEF w2
    <2>5. LatestSited'
        <3>1. CASE store = <<>>
            BY <2>1, <3>1 DEF LatestSited
        <3>2. CASE store # <<>>
            <4>1. n \in DOMAIN store /\ "w" \in DOMAIN store[n] /\ Len(store') = n
                BY <1>0, <2>1, <3>2, LatestFacts DEF StoreOK, IsSeq
            <4>2. store'[n].w = w2
                BY <2>1, <4>1
            <4>3. QED
                BY <2>1, <2>4, <3>2, <4>1, <4>2 DEF LatestSited, Latest
        <3>3. QED
            BY <3>1, <3>2
    <2>6. CacheSited'
        BY <1>0, <2>1 DEF CacheSited
    <2>7. QED
        BY <1>7, <2>1, <2>2, <2>5, <2>6 DEF SiteInv, Live
<1>9. CASE Finish
    <2>1. ResultsSited' /\ CacheSited' /\ ~Live'
        BY <1>9 DEF Finish, SiteInv, ResultsSited, CacheSited, threadVars, Live
    <2>2. QED
        BY <1>1, <1>7, <1>9, <2>1 DEF Finish, SiteInv, threadVars
<1>10. CASE ClearCache \/ CancelRun \/ UNCHANGED vars
    <2>1. UNCHANGED <<prog, counts, frames, futs, natt, replay, store, epoch, phase, done, results>>
        BY <1>10 DEF ClearCache, CancelRun, vars, threadVars, runVars, historyVars
    <2>2. ResultsSited'
        BY <2>1 DEF SiteInv, ResultsSited
    <2>3. CacheSited'
        BY <1>0, <1>10 DEF ClearCache, CancelRun, vars, threadVars, CacheSited
    <2>4. QED
        BY <1>1, <1>7, <2>1, <2>2, <2>3 DEF SiteInv, Live
<1>11. QED
    BY <1>2, <1>3, <1>5, <1>6, <1>8, <1>9, <1>10

\* Every step keeps paths and sites together.
LEMMA StepSiteInv ==
    ASSUME SingleAttempt PROVE TypeInv /\ SiteInv /\ [Next]_vars => SiteInv'
<1> SUFFICES ASSUME TypeInv, SiteInv, [Next]_vars PROVE SiteInv'
    OBVIOUS
<1>1. ASSUME NEW p \in DOMAIN frames, Call(p) \/ Get(p) \/ Ask(p) \/ Work(p) \/ Return(p) PROVE SiteInv'
    BY <1>1, CallSites, BodySites
<1>2. QED
    BY <1>1, CallerSites DEF Next, Step

\* A new thread has nothing to replay.
LEMMA InitSiteInv == Init => SiteInv
BY DEF Init, SiteInv, FramesSited, FutsSited, ResultsSited, LatestSited, TableSited, Fresh, CacheSited,
       RootAttempt, DoneInReplay, Live, Empty, NoReplay

\* A call's future yields the value of that very call, also when it is replayed
\* after a pause, an error or a crash: under one attempt per caller a path and
\* an index name the same call in every run that continues the thread, in
\* whatever order the goroutines made their calls.
THEOREM ReplayFindsItsCall == ASSUME SingleAttempt PROVE Spec => []SameCall
<1>1. SiteInv => SameCall
    BY DEF SiteInv, FutsSited, FutSited, WriteSited, GoodValue, SameCall, ValueOf
<1>2. QED
    BY <1>1, TypeInvHolds, InitSiteInv, StepSiteInv, PTL DEF Spec

\* A task whose result was saved is not executed again by the run that
\* continues the thread: its call finds the result, whatever the interleaving.
THEOREM SavedTaskNotRedone == ASSUME SingleAttempt PROVE Spec => []NotRedone
<1>1. ASSUME TypeInv, SiteInv, NotRedone, NEW p \in DOMAIN frames, Work(p) PROVE NotRedone'
    <2>1. ASSUME frames[p].site \in done PROVE FALSE
        <3>1. PICK c \in DOMAIN replay : replay[c].site = frames[p].site
            BY <1>1, <2>1 DEF SiteInv, DoneInReplay, Work
        <3>2. Sited(prog, c, frames[p].site) /\ Sited(prog, p, frames[p].site) /\ p \notin DOMAIN replay
            BY <1>1, <3>1 DEF SiteInv, TableSited, WriteSited, FramesSited, FrameSited
        <3>3. c \in Paths /\ p \in Paths
            BY <1>1, <3>1 DEF TypeInv, TableOK, FramesOK
        <3>4. c = p
            BY <3>2, <3>3, PathUnique
        <3>5. QED
            BY <3>1, <3>2, <3>4
    <2>2. redone' = redone \cup ({frames[p].site} \cap done)
        BY <1>1 DEF Work
    <2>3. QED
        BY <1>1, <2>1, <2>2 DEF NotRedone
<1>2. TypeInv /\ SiteInv /\ NotRedone /\ [Next]_vars => NotRedone'
    <2> SUFFICES ASSUME TypeInv, SiteInv, NotRedone, [Next]_vars PROVE NotRedone'
        OBVIOUS
    <2>1. ASSUME NEW p \in DOMAIN frames, Call(p) PROVE NotRedone'
        BY <2>1 DEF Call, NotRedone
    <2>2. ASSUME NEW p \in DOMAIN frames, Get(p) \/ Ask(p) \/ Return(p) PROVE NotRedone'
        BY <2>2 DEF Get, Ask, Return, NotRedone
    <2>3. CASE InvokeFresh \/ InvokeResume
        BY <2>3 DEF InvokeFresh, InvokeResume, Start, NotRedone
    <2>4. CASE Close \/ Persist \/ Finish \/ ClearCache \/ CancelRun \/ Crash \/ UNCHANGED vars
        BY <2>4 DEF Close, Persist, Finish, ClearCache, CancelRun, Crash, vars, historyVars, NotRedone
    <2>5. QED
        BY <1>1, <2>1, <2>2, <2>3, <2>4 DEF Next, Step
<1>3. Init => NotRedone
    BY DEF Init, NotRedone
<1>4. QED
    BY <1>2, <1>3, TypeInvHolds, InitSiteInv, StepSiteInv, PTL DEF Spec
-----------------------------------------------------------------------------
=============================================================================
