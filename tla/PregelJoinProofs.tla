--------------------------- MODULE PregelJoinProofs ---------------------------
(***************************************************************************)
(* Waiting edges: the child of a join never runs ahead of its parents, in  *)
(* graphs that reach it by the join only, and it runs again once all of    *)
(* its parents have, whatever pauses, crashes and replays of completed     *)
(* tasks lie between the arrivals and the child.                           *)
(***************************************************************************)
EXTENDS PregelResumeProofs

\* A join's child is a destination of nothing but that join.
JoinsOnly(g) ==
    \A j \in DOMAIN g.joins :
        /\ \A i \in DOMAIN g.joins : g.joins[i].child = g.joins[j].child => i = j
        /\ \A i \in DOMAIN g.entry : g.entry[i].node # g.joins[j].child
        /\ \A n \in g.nodes : \A r \in g.route[n] \cup g.goto[n] :
              \A i \in DOMAIN r : r[i].node # g.joins[j].child

\* How often n has run by position i of a log.
Count(l, n, i) == Cardinality({k \in 1 .. i : l[k].n = n})

(* Join j is e: what holds of every state, saved or current, and of its plan. *)

\* The child is at no point ahead of a parent, or one run behind p at the end.
InStep(e, l) == \A p \in e.parents : \A i \in 0 .. Len(l) : Count(l, e.child, i) <= Count(l, p, i)
Ahead(e, l, p) == Count(l, e.child, Len(l)) + 1 <= Count(l, p, Len(l))
\* The barrier is full and has triggered the child already.
Spent(e, j, s) == s.bar[j] = e.parents /\ s.seen[e.child][j] >= s.ver[j]
StateJ(e, j, s) ==
    /\ InStep(e, s.log)
    /\ ~Spent(e, j, s) => \A p \in s.bar[j] : Ahead(e, s.log, p)
\* A plan names the node n at most once.
Once(ts, n) == \A i, k \in DOMAIN ts : ts[i].node = n /\ ts[k].node = n => i = k
\* A planned child has been triggered, once, by arrivals not matched yet.
PlanJ(e, j, s, ts) ==
    /\ Names(ts, e.child) => Spent(e, j, s) /\ \A p \in e.parents : Ahead(e, s.log, p)
    /\ Once(ts, e.child)
Avoids(ds, n) == \A i \in DOMAIN ds : ds[i].node # n

JoinInv ==
    \A j \in JoinIdx :
        /\ \A p \in Saved : StateJ(Joins[j], j, p[2]) /\ PlanJ(Joins[j], j, p[2], p[3])
        /\ StateJ(Joins[j], j, st)
        /\ phase \in {"loop", "tasks"} => PlanJ(Joins[j], j, st, tasks)
        /\ \A p \in Written : p[2].kind = "done" => Avoids(p[2].sends, Joins[j].child)
        /\ phase = "tasks" => \A i \in DOMAIN outs :
              Avoids(outs[i].sends, Joins[j].child) /\ Avoids(outs[i].route, Joins[j].child)
-----------------------------------------------------------------------------
(* Counting.                                                                *)

LEMMA SameInterval ==
    ASSUME NEW a \in Nat, NEW b \in Nat, 1 .. a = 1 .. b
    PROVE a = b
<1>1. CASE a < b
    <2>1. b \in 1 .. b /\ b \notin 1 .. a
        BY <1>1
    <2>2. QED
        BY <2>1
<1>2. CASE b < a
    <2>1. a \in 1 .. a /\ a \notin 1 .. b
        BY <1>2
    <2>2. QED
        BY <2>1
<1>3. QED
    BY <1>1, <1>2

LEMMA CountFacts ==
    ASSUME NEW l, NEW n, NEW i \in Nat
    PROVE /\ IsFiniteSet({k \in 1 .. i : l[k].n = n}) /\ Count(l, n, i) \in Nat
          /\ \A m \in 0 .. i : Count(l, n, m) <= Count(l, n, i)
<1>1. ASSUME NEW m \in Nat PROVE IsFiniteSet({k \in 1 .. m : l[k].n = n})
    <2>1. IsFiniteSet(1 .. m)
        BY FS_Interval
    <2>2. QED
        BY <2>1, FS_Subset
<1>2. Count(l, n, i) \in Nat
    BY <1>1, FS_CardinalityType DEF Count
<1>3. ASSUME NEW m \in 0 .. i PROVE Count(l, n, m) <= Count(l, n, i)
    <2>1. {k \in 1 .. m : l[k].n = n} \subseteq {k \in 1 .. i : l[k].n = n}
        OBVIOUS
    <2>2. QED
        BY <1>1, <2>1, FS_Subset DEF Count
<1>4. QED
    BY <1>1, <1>2, <1>3

\* The log l2 is l followed by t.
LEMMA CountJoined ==
    ASSUME NEW l2, NEW l, NEW t, Joined(l2, l, t), NEW n
    PROVE /\ \A i \in 0 .. Len(l) : Count(l2, n, i) = Count(l, n, i)
          /\ (\A k \in DOMAIN t : t[k].n # n) =>
                \A i \in 0 .. Len(t) : Count(l2, n, Len(l) + i) = Count(l, n, Len(l))
          /\ (\E k \in DOMAIN t : t[k].n = n) => Count(l2, n, Len(l) + Len(t)) >= Count(l, n, Len(l)) + 1
          /\ (\A h, k \in DOMAIN t : t[h].n = n /\ t[k].n = n => h = k) =>
                \A i \in 0 .. Len(t) : Count(l2, n, Len(l) + i) <= Count(l, n, Len(l)) + 1
<1>1. /\ Len(l) \in Nat /\ Len(t) \in Nat /\ DOMAIN l = 1 .. Len(l) /\ DOMAIN t = 1 .. Len(t)
      /\ \A i \in 1 .. Len(l) : l2[i] = l[i]
      /\ \A i \in 1 .. Len(t) : l2[Len(l) + i] = t[i]
    BY DEF Joined
<1> DEFINE A(i) == {k \in 1 .. i : l[k].n = n}
           B(i) == {k \in 1 .. i : l2[k].n = n}
           m == Len(l)
<1>2. ASSUME NEW i \in 0 .. m PROVE A(i) = B(i)
    BY <1>1
<1>3. \A i \in 0 .. Len(l) : Count(l2, n, i) = Count(l, n, i)
    BY <1>2 DEF Count
<1>4. \A i \in 0 .. Len(t) : \A k \in 1 .. m + i : k \in 1 .. m \/ (k - m \in 1 .. i /\ k - m \in DOMAIN t /\ l2[k] = t[k - m])
    <2> SUFFICES ASSUME NEW i \in 0 .. Len(t), NEW k \in 1 .. m + i, k \notin 1 .. m
                 PROVE k - m \in 1 .. i /\ k - m \in DOMAIN t /\ l2[k] = t[k - m]
        OBVIOUS
    <2>1. k - m \in 1 .. i /\ k - m \in DOMAIN t /\ k = m + (k - m)
        BY <1>1
    <2>2. QED
        BY <1>1, <2>1
<1>5. IsFiniteSet(B(m)) /\ Cardinality(B(m)) = Count(l, n, m) /\ Count(l, n, m) \in Nat
    <2>1. m \in Nat /\ m \in 0 .. m
        BY <1>1
    <2>2. B(m) = A(m)
        BY <1>2, <2>1
    <2>3. QED
        BY <2>1, <2>2, CountFacts DEF Count
<1>0. \A x \in Nat : IsFiniteSet(B(x)) /\ Count(l2, n, x) \in Nat
    BY CountFacts
<1>6. ASSUME \A k \in DOMAIN t : t[k].n # n, NEW i \in 0 .. Len(t)
      PROVE Count(l2, n, Len(l) + i) = Count(l, n, Len(l))
    <2>1. B(m + i) = B(m)
        <3>1. \A k \in 1 .. m + i : l2[k].n = n => k \in 1 .. m
            BY <1>4, <1>6
        <3>2. \A k \in 1 .. m : k \in 1 .. m + i
            BY <1>1
        <3>3. QED
            BY <3>1, <3>2
    <2>2. QED
        BY <1>5, <2>1 DEF Count
<1>7. ASSUME NEW k \in DOMAIN t, t[k].n = n
      PROVE Count(l2, n, Len(l) + Len(t)) >= Count(l, n, Len(l)) + 1
    <2> DEFINE C == B(m) \cup {m + k}
    <2>1. m + k \notin B(m) /\ m + k \in B(m + Len(t)) /\ B(m) \subseteq B(m + Len(t))
        BY <1>1, <1>7
    <2>2. IsFiniteSet(C) /\ Cardinality(C) = Count(l, n, m) + 1
        BY <1>5, <2>1, FS_AddElement
    <2>3. IsFiniteSet(B(m + Len(t))) /\ Count(l2, n, m + Len(t)) \in Nat
        <3>1. m + Len(t) \in Nat
            BY <1>1
        <3> HIDE DEF B
        <3>2. QED
            BY <1>0, <3>1
    <2>4. C \subseteq B(m + Len(t))
        BY <2>1
    <2> HIDE DEF B, C
    <2>5. Cardinality(C) <= Cardinality(B(m + Len(t)))
        BY <2>3, <2>4, FS_Subset
    <2>6. Cardinality(B(m + Len(t))) = Count(l2, n, m + Len(t))
        BY DEF B, Count
    <2>7. QED
        BY <1>5, <2>2, <2>3, <2>5, <2>6
<1>8. ASSUME \A h, k \in DOMAIN t : t[h].n = n /\ t[k].n = n => h = k, NEW i \in 0 .. Len(t)
      PROVE Count(l2, n, Len(l) + i) <= Count(l, n, Len(l)) + 1
    <2>1. m + i \in Nat /\ Count(l2, n, m + i) \in Nat
        <3>1. m + i \in Nat
            BY <1>1
        <3> HIDE DEF B
        <3>2. QED
            BY <1>0, <3>1
    <2>2. CASE \A k \in DOMAIN t : t[k].n # n
        BY <1>5, <1>6, <2>1, <2>2
    <2>3. CASE \E k \in DOMAIN t : t[k].n = n
        <3>1. PICK k \in DOMAIN t : t[k].n = n
            BY <2>3
        <3> DEFINE C == B(m) \cup {m + k}
        <3>2. m + k \notin B(m)
            BY <1>1
        <3>3. IsFiniteSet(C) /\ Cardinality(C) = Count(l, n, m) + 1
            BY <1>5, <3>2, FS_AddElement
        <3>4. B(m + i) \subseteq C
            <4> SUFFICES ASSUME NEW x \in B(m + i), x \notin B(m) PROVE x = m + k
                OBVIOUS
            <4>1. x - m \in DOMAIN t /\ l2[x] = t[x - m] /\ x \in Int
                BY <1>1, <1>4
            <4>2. x - m = k
                BY <1>8, <3>1, <4>1
            <4>3. QED
                BY <1>1, <4>1, <4>2
        <3> HIDE DEF B, C
        <3>5. Cardinality(B(m + i)) <= Cardinality(C)
            BY <3>3, <3>4, FS_Subset
        <3>6. Cardinality(B(m + i)) = Count(l2, n, m + i)
            BY DEF B, Count
        <3>7. QED
            BY <3>3, <3>5, <3>6
    <2>4. QED
        BY <2>2, <2>3
<1>9. QED
    BY <1>3, <1>6, <1>7, <1>8
LEMMA CountBefore ==
    ASSUME NEW l2, NEW l, NEW t, Joined(l2, l, t), NEW n
    PROVE \A i \in 0 .. Len(l) : Count(l2, n, i) = Count(l, n, i)
BY CountJoined

-----------------------------------------------------------------------------
(* Applying work.                                                           *)

\* A join of the graph.
LEMMA JoinShape ==
    ASSUME graph \in Graphs, NEW j \in JoinIdx
    PROVE /\ Joins[j].child \in Nodes /\ Joins[j].parents \subseteq Nodes /\ Joins[j].child # END
          /\ j \in Channels /\ j # 0
          /\ \A s \in States : s.bar[j] \subseteq Joins[j].parents
BY Shape DEF GraphShape, Channels, States, Barriers

\* Every token of the applied work is that of a writer.
LEMMA TokenNodes ==
    ASSUME NEW ws \in Seq(Batches)
    PROVE /\ DOMAIN TokensOf(ws) = DOMAIN ws
          /\ \A k \in DOMAIN ws : TokensOf(ws)[k].n = ws[k].node /\ TokensOf(ws)[k] = ws[k].tok[1]
<1>1. \A k \in DOMAIN ws : ws[k] \in Batches
    OBVIOUS
<1>2. \A b \in Batches : b.tok[1].n = b.node
    BY DEF Batches, Work
<1> HIDE DEF Batches
<1>3. QED
    BY <1>1, <1>2 DEF TokensOf

LEMMA AppliedJoined ==
    ASSUME NEW s \in States, NEW ws \in Seq(Batches), NEW r, Applied(s, ws, r)
    PROVE Joined(r.log, s.log, TokensOf(ws)) /\ r.log \in Seq(Tokens)
<1>1. s.log \in Seq(Tokens) /\ TokensOf(ws) \in Seq(Tokens) /\ r.log = s.log \o TokensOf(ws)
    BY DEF Applied, States
<1> HIDE DEF Tokens, TokensOf
<1>2. QED
    BY <1>1, ConcatFacts

\* Work of other nodes than the child.
ChildAbsent(e, j, s, r) ==
    /\ StateJ(e, j, r)
    /\ Spent(e, j, s) => Spent(e, j, r)
    /\ \A p \in e.parents : Ahead(e, s.log, p) => Ahead(e, r.log, p)
    /\ ~Spent(e, j, s) => \A p \in r.bar[j] : Ahead(e, r.log, p)
LEMMA AbsentFacts ==
    ASSUME graph \in Graphs, NEW j \in JoinIdx, NEW s \in States, NEW ws \in Seq(Batches), NEW r, Applied(s, ws, r),
           StateJ(Joins[j], j, s), Joins[j].child \notin Writers(ws)
    PROVE ChildAbsent(Joins[j], j, s, r)
<1> DEFINE e == Joins[j]
           c == e.child
           l == s.log
           l2 == r.log
           t == TokensOf(ws)
<1>1. c \in Nodes /\ e.parents \subseteq Nodes /\ s.bar[j] \subseteq e.parents
    BY JoinShape
<1>2. Joined(l2, l, t)
    BY AppliedJoined
<1>3. DOMAIN t = DOMAIN ws /\ \A k \in DOMAIN ws : t[k].n = ws[k].node
    BY TokenNodes
<1>4. /\ r.bar[j] = s.bar[j] \cup Arrivals(ws, j)
      /\ r.bar[j] = s.bar[j] => r.ver[j] = s.ver[j]
      /\ r.seen[c] = s.seen[c] /\ r \in States
    BY <1>1 DEF Applied
<1>5. InStep(e, l) /\ (~Spent(e, j, s) => \A p \in s.bar[j] : Ahead(e, l, p))
    BY DEF StateJ
<1> HIDE DEF e, l, l2, t
<1>6. /\ Len(l) \in Nat /\ Len(t) \in Nat /\ Len(l2) = Len(l) + Len(t) /\ DOMAIN l2 = 1 .. Len(l) + Len(t)
    <2>1. r.log \in Seq(Tokens)
        BY AppliedJoined
    <2>2. Len(l2) \in Nat /\ DOMAIN l2 = 1 .. Len(l2)
        BY <2>1 DEF l2
    <2>3. Len(l) \in Nat /\ Len(t) \in Nat /\ DOMAIN l2 = 1 .. Len(l) + Len(t)
        BY <1>2 DEF Joined
    <2>4. 1 .. Len(l2) = 1 .. Len(l) + Len(t)
        BY <2>2, <2>3
    <2>5. Len(l2) = Len(l) + Len(t)
        <3> DEFINE x == Len(l2)
                   y == Len(l) + Len(t)
        <3>1. x \in Nat /\ y \in Nat
            BY <2>2, <2>3
        <3>2. 1 .. x = 1 .. y
            BY <2>4
        <3> HIDE DEF x, y
        <3>3. x = y
            BY <3>1, <3>2, SameInterval
        <3>4. QED
            BY <3>3 DEF x, y
    <2>6. QED
        BY <2>3, <2>5
<1>7. \A n : Count(l, n, Len(l)) \in Nat /\ \A i \in 0 .. Len(l) : Count(l2, n, i) = Count(l, n, i)
    <2>1. ASSUME NEW n PROVE \A i \in 0 .. Len(l) : Count(l2, n, i) = Count(l, n, i)
        BY <1>2, CountBefore
    <2>2. \A n : \A x \in Nat : Count(l, n, x) \in Nat
        BY CountFacts
    <2>3. QED
        BY <1>6, <2>1, <2>2
<1>8. \A n : \A i \in 0 .. Len(t) : Count(l2, n, Len(l) + i) \in Nat /\ Count(l2, n, Len(l) + i) >= Count(l, n, Len(l))
    <2> SUFFICES ASSUME NEW n, NEW i \in 0 .. Len(t)
                 PROVE Count(l2, n, Len(l) + i) \in Nat /\ Count(l2, n, Len(l) + i) >= Count(l, n, Len(l))
        OBVIOUS
    <2> DEFINE x == Len(l) + i
    <2>1. x \in Nat /\ Len(l) \in 0 .. x /\ Len(l) \in 0 .. Len(l)
        BY <1>6
    <2> HIDE DEF x
    <2>2. Count(l2, n, x) \in Nat /\ Count(l2, n, Len(l)) <= Count(l2, n, x)
        BY <2>1, CountFacts
    <2>3. Count(l2, n, Len(l)) = Count(l, n, Len(l))
        BY <1>7, <2>1
    <2>4. QED
        BY <2>2, <2>3 DEF x
<1>9. \A i \in 0 .. Len(t) : Count(l2, c, Len(l) + i) = Count(l, c, Len(l))
    <2>1. \A k \in DOMAIN t : t[k].n # c
        BY <1>3 DEF Writers, e
    <2>2. QED
        BY <1>2, <2>1, CountJoined
<1>10. \A i \in 0 .. Len(l2) : i \in 0 .. Len(l) \/ (i - Len(l) \in 0 .. Len(t) /\ i = Len(l) + (i - Len(l)))
    BY <1>6
<1>11. InStep(e, l2)
    <2> SUFFICES ASSUME NEW p \in e.parents, NEW i \in 0 .. Len(l2) PROVE Count(l2, c, i) <= Count(l2, p, i)
        BY DEF InStep
    <2>1. Len(l) \in 0 .. Len(l)
        BY <1>6
    <2>2. CASE i \in 0 .. Len(l)
        BY <1>5, <1>7, <2>2 DEF InStep
    <2>3. CASE i - Len(l) \in 0 .. Len(t) /\ i = Len(l) + (i - Len(l))
        <3> DEFINE d == i - Len(l)
        <3>1. d \in 0 .. Len(t) /\ i = Len(l) + d
            BY <2>3
        <3> HIDE DEF d
        <3>2. Count(l2, c, i) = Count(l, c, Len(l))
            BY <1>9, <3>1
        <3>3. Count(l2, p, i) \in Nat /\ Count(l2, p, i) >= Count(l, p, Len(l))
            BY <1>8, <3>1
        <3>4. Count(l, c, Len(l)) <= Count(l, p, Len(l))
            BY <1>5, <2>1 DEF InStep
        <3>5. QED
            BY <1>7, <3>2, <3>3, <3>4
    <2>4. QED
        BY <1>10, <2>2, <2>3
<1>12. /\ Len(t) \in 0 .. Len(t) /\ Len(l) \in 0 .. Len(l)
       /\ Count(l2, c, Len(l2)) = Count(l, c, Len(l))
       /\ \A n : Count(l2, n, Len(l2)) \in Nat /\ Count(l2, n, Len(l2)) >= Count(l, n, Len(l))
    <2>1. Len(t) \in 0 .. Len(t) /\ Len(l) \in 0 .. Len(l)
        BY <1>6
    <2>2. Count(l2, c, Len(l) + Len(t)) = Count(l, c, Len(l))
        BY <1>9, <2>1
    <2>3. \A n : Count(l2, n, Len(l) + Len(t)) \in Nat /\ Count(l2, n, Len(l) + Len(t)) >= Count(l, n, Len(l))
        BY <1>8, <2>1
    <2>4. QED
        BY <1>6, <2>1, <2>2, <2>3
<1>13. \A p \in e.parents : Ahead(e, l, p) => Ahead(e, l2, p)
    <2> SUFFICES ASSUME NEW p \in e.parents, Ahead(e, l, p) PROVE Ahead(e, l2, p)
        OBVIOUS
    <2>1. Count(l, c, Len(l)) + 1 <= Count(l, p, Len(l))
        BY DEF Ahead
    <2>2. Count(l2, c, Len(l2)) + 1 <= Count(l2, p, Len(l2))
        BY <1>7, <1>12, <2>1
    <2>3. QED
        BY <2>2 DEF Ahead
<1>14. \A p \in Arrivals(ws, j) : Ahead(e, l2, p)
    <2> SUFFICES ASSUME NEW p \in Arrivals(ws, j) PROVE Ahead(e, l2, p)
        OBVIOUS
    <2>1. PICK k \in DOMAIN ws : ws[k].node = p
        BY DEF Arrivals
    <2>2. t[k].n = p /\ k \in DOMAIN t
        BY <1>3, <2>1
    <2>3. Count(l2, p, Len(l) + Len(t)) >= Count(l, p, Len(l)) + 1
        BY <1>2, <2>2, CountJoined
    <2>4. p \in e.parents
        <3>1. r.bar[j] \subseteq e.parents
            BY <1>4, JoinShape DEF e
        <3>2. QED
            BY <1>4, <3>1
    <2>5. Count(l, c, Len(l)) <= Count(l, p, Len(l))
        BY <1>5, <1>12, <2>4 DEF InStep
    <2>6. Count(l2, c, Len(l2)) + 1 <= Count(l2, p, Len(l2))
        BY <1>6, <1>7, <1>12, <2>3, <2>5
    <2>7. QED
        BY <2>6 DEF Ahead
<1>15. Spent(e, j, s) => Spent(e, j, r)
    <2> SUFFICES ASSUME Spent(e, j, s) PROVE Spent(e, j, r)
        OBVIOUS
    <2>1. s.bar[j] = e.parents /\ s.seen[c][j] >= s.ver[j]
        BY DEF Spent
    <2>2. r.bar[j] \subseteq e.parents
        BY <1>4, JoinShape DEF e
    <2>3. r.bar[j] = s.bar[j]
        BY <1>4, <2>1, <2>2
    <2>4. QED
        BY <1>4, <2>1, <2>3 DEF Spent
<1>16. ~Spent(e, j, s) => \A p \in r.bar[j] : Ahead(e, l2, p)
    BY <1>1, <1>4, <1>5, <1>13, <1>14
<1>17. StateJ(e, j, r)
    BY <1>11, <1>15, <1>16 DEF StateJ, l2
<1>18. QED
    BY <1>13, <1>15, <1>16, <1>17 DEF ChildAbsent, e, l, l2

\* Work of the child, done once, triggered by arrivals not matched yet.
ChildPresent(e, j, s, r) ==
    InStep(e, r.log) /\ Spent(e, j, r) /\ StateJ(e, j, r) /\ r.seen[e.child][j] >= r.ver[j] /\ r.bar[j] = e.parents
LEMMA PresentFacts ==
    ASSUME graph \in Graphs, NEW j \in JoinIdx, NEW s \in States, NEW ws \in Seq(Batches), NEW r, Applied(s, ws, r),
           StateJ(Joins[j], j, s), Joins[j].child \in Writers(ws), Spent(Joins[j], j, s),
           \A p \in Joins[j].parents : Ahead(Joins[j], s.log, p),
           \A i, k \in DOMAIN ws : ws[i].node = Joins[j].child /\ ws[k].node = Joins[j].child => i = k
    PROVE ChildPresent(Joins[j], j, s, r)
<1> DEFINE e == Joins[j]
           c == e.child
           l == s.log
           l2 == r.log
           t == TokensOf(ws)
<1>1. c \in Nodes /\ e.parents \subseteq Nodes /\ j \in Channels
    BY JoinShape
<1>2. Joined(l2, l, t)
    BY AppliedJoined
<1>3. DOMAIN t = DOMAIN ws /\ \A k \in DOMAIN ws : t[k].n = ws[k].node
    BY TokenNodes
<1>4. /\ r.bar[j] = s.bar[j] \cup Arrivals(ws, j) /\ r.bar[j] \subseteq e.parents
      /\ r.bar[j] = s.bar[j] => r.ver[j] = s.ver[j]
      /\ r.seen[c] = s.ver /\ r \in States
    BY <1>1, JoinShape DEF Applied
<1>5. InStep(e, l) /\ s.bar[j] = e.parents /\ \A p \in e.parents : Ahead(e, l, p)
    BY DEF StateJ, Spent
<1> HIDE DEF e, l, l2, t
<1>6. Len(l) \in Nat /\ Len(t) \in Nat /\ Len(l2) = Len(l) + Len(t)
    <2>1. r.log \in Seq(Tokens)
        BY AppliedJoined
    <2>2. Len(l2) \in Nat /\ DOMAIN l2 = 1 .. Len(l2)
        BY <2>1 DEF l2
    <2>3. Len(l) \in Nat /\ Len(t) \in Nat /\ DOMAIN l2 = 1 .. Len(l) + Len(t)
        BY <1>2 DEF Joined
    <2>4. 1 .. Len(l2) = 1 .. Len(l) + Len(t)
        BY <2>2, <2>3
    <2>5. Len(l2) = Len(l) + Len(t)
        <3> DEFINE x == Len(l2)
                   y == Len(l) + Len(t)
        <3>1. x \in Nat /\ y \in Nat
            BY <2>2, <2>3
        <3>2. 1 .. x = 1 .. y
            BY <2>4
        <3> HIDE DEF x, y
        <3>3. x = y
            BY <3>1, <3>2, SameInterval
        <3>4. QED
            BY <3>3 DEF x, y
    <2>6. QED
        BY <2>3, <2>5
<1>7. \A n : Count(l, n, Len(l)) \in Nat /\ \A i \in 0 .. Len(l) : Count(l2, n, i) = Count(l, n, i)
    <2>1. ASSUME NEW n PROVE \A i \in 0 .. Len(l) : Count(l2, n, i) = Count(l, n, i)
        BY <1>2, CountBefore
    <2>2. \A n : \A x \in Nat : Count(l, n, x) \in Nat
        BY CountFacts
    <2>3. QED
        BY <1>6, <2>1, <2>2
<1>8. \A n : \A i \in 0 .. Len(t) : Count(l2, n, Len(l) + i) \in Nat /\ Count(l2, n, Len(l) + i) >= Count(l, n, Len(l))
    <2> SUFFICES ASSUME NEW n, NEW i \in 0 .. Len(t)
                 PROVE Count(l2, n, Len(l) + i) \in Nat /\ Count(l2, n, Len(l) + i) >= Count(l, n, Len(l))
        OBVIOUS
    <2> DEFINE x == Len(l) + i
    <2>1. x \in Nat /\ Len(l) \in 0 .. x /\ Len(l) \in 0 .. Len(l)
        BY <1>6
    <2> HIDE DEF x
    <2>2. Count(l2, n, x) \in Nat /\ Count(l2, n, Len(l)) <= Count(l2, n, x)
        BY <2>1, CountFacts
    <2>3. Count(l2, n, Len(l)) = Count(l, n, Len(l))
        BY <1>7, <2>1
    <2>4. QED
        BY <2>2, <2>3 DEF x
<1>9. \A i \in 0 .. Len(t) : Count(l2, c, Len(l) + i) <= Count(l, c, Len(l)) + 1
    <2>1. \A h, k \in DOMAIN t : t[h].n = c /\ t[k].n = c => h = k
        BY <1>3 DEF e
    <2>2. QED
        BY <1>2, <2>1, CountJoined
<1>10. \A i \in 0 .. Len(l2) : i \in 0 .. Len(l) \/ (i - Len(l) \in 0 .. Len(t) /\ i = Len(l) + (i - Len(l)))
    BY <1>6
<1>11. InStep(e, l2)
    <2> SUFFICES ASSUME NEW p \in e.parents, NEW i \in 0 .. Len(l2) PROVE Count(l2, c, i) <= Count(l2, p, i)
        BY DEF InStep
    <2>1. CASE i \in 0 .. Len(l)
        BY <1>5, <1>7, <2>1 DEF InStep
    <2>2. CASE i - Len(l) \in 0 .. Len(t) /\ i = Len(l) + (i - Len(l))
        <3> DEFINE d == i - Len(l)
        <3>1. d \in 0 .. Len(t) /\ i = Len(l) + d
            BY <2>2
        <3> HIDE DEF d
        <3>2. Count(l2, c, i) <= Count(l, c, Len(l)) + 1 /\ Count(l2, c, i) \in Nat
            BY <1>8, <1>9, <3>1
        <3>3. Count(l2, p, i) \in Nat /\ Count(l2, p, i) >= Count(l, p, Len(l))
            BY <1>8, <3>1
        <3>4. Count(l, c, Len(l)) + 1 <= Count(l, p, Len(l))
            BY <1>5 DEF Ahead
        <3>5. QED
            BY <1>7, <3>2, <3>3, <3>4
    <2>3. QED
        BY <1>10, <2>1, <2>2
<1>12. r.bar[j] = e.parents /\ r.seen[c][j] = s.ver[j] /\ r.ver[j] = s.ver[j] /\ s.ver[j] \in Nat
    <2>1. r.bar[j] = e.parents /\ r.ver[j] = s.ver[j]
        BY <1>4, <1>5
    <2>2. s.ver[j] \in Nat
        BY <1>1 DEF States
    <2>3. QED
        BY <1>4, <2>1, <2>2
<1>13. r.seen[c][j] >= r.ver[j]
    BY <1>12
<1>14. Spent(e, j, r)
    BY <1>12, <1>13 DEF Spent
<1>15. QED
    BY <1>11, <1>12, <1>13, <1>14 DEF ChildPresent, StateJ, e, l2
-----------------------------------------------------------------------------
(* Plans.                                                                   *)

\* A selection in order names a node that the selected positions name, and once
\* if they do.
OnceAmong(f, I, n) == \A i, k \in I : f[i].node = n /\ f[k].node = n => i = k
NamedAmong(f, I, n) == \E i \in I : f[i].node = n
LEMMA SelectedOnce ==
    ASSUME NEW T, NEW u \in Seq(T), NEW f, NEW I, I \subseteq Int, InOrder(u, f, I), NEW n,
           OnceAmong(f, I, n)
    PROVE Once(u, n) /\ (Names(u, n) => NamedAmong(f, I, n))
<1>1. PICK m \in [DOMAIN u -> I] : /\ \A k \in DOMAIN u : u[k] = f[m[k]]
                                   /\ \A j, k \in DOMAIN u : j < k => m[j] < m[k]
    BY DEF InOrder
<1>2. \A k \in DOMAIN u : k \in Int /\ m[k] \in I
    BY <1>1
<1>3. ASSUME NEW i \in DOMAIN u, NEW k \in DOMAIN u, u[i].node = n, u[k].node = n, i < k PROVE FALSE
    <2>1. m[i] = m[k] /\ m[i] < m[k]
        BY <1>1, <1>2, <1>3 DEF OnceAmong
    <2>2. m[i] \in Int
        BY <1>2
    <2>3. QED
        BY <2>1, <2>2
<1>4. Once(u, n)
    <2> SUFFICES ASSUME NEW i \in DOMAIN u, NEW k \in DOMAIN u, u[i].node = n, u[k].node = n, i # k PROVE FALSE
        BY DEF Once
    <2>1. i < k \/ k < i
        BY <1>2
    <2>2. QED
        BY <1>3, <2>1
<1>5. Names(u, n) => NamedAmong(f, I, n)
    BY <1>1, <1>2 DEF Names, NamedAmong
<1>6. QED
    BY <1>4, <1>5

\* What is said of a plan holds of the tasks that run and of the plans stamped
\* from it.
LEMMA StampedJoin ==
    ASSUME graph \in Graphs, NEW ts \in Seq(TaskRecs), NEW j \in JoinIdx, NEW s, PlanJ(Joins[j], j, s, ts),
           NEW c \in 1 .. MaxIds, NEW n \in 0 .. MaxIds
    PROVE /\ PlanJ(Joins[j], j, s, Active(ts))
          /\ PlanJ(Joins[j], j, s, StampDispatchIDs(ts, c, n))
          /\ PlanJ(Joins[j], j, s, StampNew(ts, c, n))
<1> DEFINE a == Active(ts)
           I == {k \in DOMAIN ts : ts[k].node # END}
           child == Joins[j].child
<1>1. a \in Seq(TaskRecs) /\ InOrder(a, ts, I)
    BY ActiveFacts
<1>0. I \subseteq Int
    OBVIOUS
<1>2. OnceAmong(ts, I, child)
    BY DEF PlanJ, Once, OnceAmong
<1> HIDE DEF a, TaskRecs
<1>3. Once(a, child) /\ (Names(a, child) => Names(ts, child))
    <2>1. Once(a, child) /\ (Names(a, child) => NamedAmong(ts, I, child))
        <3> HIDE DEF I, child
        <3>1. QED
            BY <1>0, <1>1, <1>2, SelectedOnce
    <2>2. QED
        BY <2>1 DEF Names, NamedAmong
<1>4. /\ DOMAIN StampDispatchIDs(ts, c, n) = DOMAIN a /\ DOMAIN StampNew(ts, c, n) = DOMAIN a
      /\ \A i \in DOMAIN a : StampDispatchIDs(ts, c, n)[i].node = a[i].node /\ StampNew(ts, c, n)[i].node = a[i].node
    BY DEF StampDispatchIDs, StampNew, a
<1> HIDE DEF StampDispatchIDs, StampNew
<1>5. ASSUME NEW u, DOMAIN u = DOMAIN a, \A i \in DOMAIN a : u[i].node = a[i].node
      PROVE PlanJ(Joins[j], j, s, u)
    BY <1>3, <1>5 DEF PlanJ, Once, Names
<1>6. QED
    BY <1>4, <1>5 DEF a

\* A plan that does not name the child.
LEMMA UnnamedPlan ==
    ASSUME NEW e, NEW j, NEW s, NEW ts, ~Names(ts, e.child) PROVE PlanJ(e, j, s, ts)
BY DEF PlanJ, Once, Names

\* A concatenation names what its parts name.
LEMMA JoinedNames ==
    ASSUME NEW u, NEW q, NEW t, Joined(u, q, t), NEW n
    PROVE /\ Names(u, n) => Names(q, n) \/ Names(t, n)
          /\ ~Names(q, n) /\ Once(t, n) => Once(u, n)
          /\ ~Names(t, n) /\ Once(q, n) => Once(u, n)
<1>1. /\ Len(q) \in Nat /\ Len(t) \in Nat /\ DOMAIN q = 1 .. Len(q) /\ DOMAIN t = 1 .. Len(t)
      /\ DOMAIN u = 1 .. Len(q) + Len(t)
      /\ \A i \in DOMAIN q : u[i] = q[i]
      /\ \A i \in DOMAIN t : u[Len(q) + i] = t[i]
    BY DEF Joined
<1>2. \A i \in DOMAIN u : \/ i \in DOMAIN q /\ u[i] = q[i]
                          \/ i - Len(q) \in DOMAIN t /\ u[i] = t[i - Len(q)] /\ i \in Int
    <2> SUFFICES ASSUME NEW i \in DOMAIN u, i \notin DOMAIN q
                 PROVE i - Len(q) \in DOMAIN t /\ u[i] = t[i - Len(q)] /\ i \in Int
        BY <1>1
    <2>1. i - Len(q) \in DOMAIN t /\ i = Len(q) + (i - Len(q)) /\ i \in Int
        BY <1>1
    <2>2. QED
        BY <1>1, <2>1
<1>3. Names(u, n) => Names(q, n) \/ Names(t, n)
    BY <1>2 DEF Names
<1>4. ASSUME ~Names(q, n), Once(t, n) PROVE Once(u, n)
    <2> SUFFICES ASSUME NEW i \in DOMAIN u, NEW k \in DOMAIN u, u[i].node = n, u[k].node = n PROVE i = k
        BY DEF Once
    <2>1. /\ i - Len(q) \in DOMAIN t /\ t[i - Len(q)].node = n /\ i \in Int
          /\ k - Len(q) \in DOMAIN t /\ t[k - Len(q)].node = n /\ k \in Int
        BY <1>2, <1>4 DEF Names
    <2>2. i - Len(q) = k - Len(q)
        BY <1>4, <2>1 DEF Once
    <2>3. QED
        BY <1>1, <2>1, <2>2
<1>5. ASSUME ~Names(t, n), Once(q, n) PROVE Once(u, n)
    BY <1>2, <1>5 DEF Names, Once
<1>6. QED
    BY <1>3, <1>4, <1>5
-----------------------------------------------------------------------------
(* The commit of a superstep.                                               *)

\* A joined child is in the next plan because its barrier triggered it.
LEMMA NextPlan ==
    ASSUME Base, JoinInv, phase = "tasks", AllDone, JoinsOnly(graph), NEW j \in JoinIdx
    PROVE /\ Once(NextTasks, Joins[j].child)
          /\ Names(NextTasks, Joins[j].child) => j \in Triggered(Committed)
<1> DEFINE c == Joins[j].child
           r == RoutedTasks
           t == TriggeredTasks(Committed)
           f == [i \in JoinIdx |-> NewTask(To(Joins[i].child))]
           I == Triggered(Committed)
<1>1. r \in Seq(TaskRecs) /\ \A x \in Elements(r) : \E i \in DOMAIN outs : \E k \in DOMAIN Chosens(i) : x = NewTask(Chosens(i)[k])
    BY RoutedFacts
<1>2. \A i \in DOMAIN outs : Avoids(Chosens(i), c)
    BY DEF JoinInv, Chosens
<1>3. ~Names(r, c)
    <2> SUFFICES ASSUME NEW i \in DOMAIN r, r[i].node = c PROVE FALSE
        BY DEF Names
    <2>1. r[i] \in Elements(r)
        BY DEF Elements
    <2>2. PICK k \in DOMAIN outs : \E h \in DOMAIN Chosens(k) : r[i] = NewTask(Chosens(k)[h])
        BY <1>1, <2>1
    <2>3. PICK h \in DOMAIN Chosens(k) : r[i] = NewTask(Chosens(k)[h])
        BY <2>2
    <2>4. r[i].node = Chosens(k)[h].node
        BY <2>3 DEF NewTask
    <2>5. QED
        BY <1>2, <2>4 DEF Avoids
<1>4. t \in Seq(TaskRecs) /\ InOrder(t, f, I)
    BY TriggeredFacts DEF Base, Saver
<1>5. I \subseteq JoinIdx /\ JoinIdx \subseteq Int
    BY Shape DEF Triggered, GraphShape, Base, Saver
<1>6. \A i \in JoinIdx : f[i].node = c => i = j
    BY DEF NewTask, To, JoinsOnly, JoinIdx, Joins
<1>7. NextTasks = r \o t
    BY NextFacts
<1> HIDE DEF r, t, f, I, c, TaskRecs, NextTasks
<1>8. Joined(NextTasks, r, t)
    BY <1>1, <1>4, <1>7, ConcatFacts
<1>9. OnceAmong(f, I, c)
    BY <1>5, <1>6 DEF OnceAmong
<1>10. I \subseteq Int
    BY <1>5
<1>11. Once(t, c) /\ (Names(t, c) => NamedAmong(f, I, c))
    BY <1>4, <1>9, <1>10, SelectedOnce
<1>12. Names(t, c) => j \in I
    BY <1>5, <1>6, <1>11 DEF NamedAmong
<1>13. Once(NextTasks, c) /\ (Names(NextTasks, c) => Names(t, c))
    BY <1>3, <1>8, <1>11, JoinedNames
<1>14. QED
    BY <1>12, <1>13 DEF c, I

LEMMA CommitJoins ==
    ASSUME Base, JoinInv, phase = "tasks", AllDone, JoinsOnly(graph), NEW j \in JoinIdx,
           NEW a, NEW s, Commits(a, s)
    PROVE StateJ(Joins[j], j, s) /\ PlanJ(Joins[j], j, s, NextTasks)
<1> DEFINE e == Joins[j]
           c == e.child
<1>1. /\ a \in States /\ Applied(st, CommitBatches, a)
      /\ s \in States /\ s.log = a.log /\ s.ver = a.ver
      /\ s.bar[j] = IF c \in Ran /\ a.seen[c][j] >= a.ver[j] /\ a.bar[j] = e.parents THEN {} ELSE a.bar[j]
      /\ s.seen[c][j] = IF j \in Triggered(Committed) THEN a.ver[j] ELSE a.seen[c][j]
      /\ j \in Triggered(Committed) <=> s.bar[j] = e.parents /\ a.seen[c][j] < a.ver[j]
    BY JoinShape DEF Commits, Base, Saver
<1>2. CommitBatches \in Seq(Batches) /\ st \in States /\ graph \in Graphs
    BY BatchFacts DEF Base, Run, Saver
<1>3. /\ DOMAIN CommitBatches = DOMAIN tasks
      /\ \A i \in DOMAIN tasks : CommitBatches[i].node = tasks[i].node
    BY DEF CommitBatches, Write, Base, Superstep
<1>4. Writers(CommitBatches) = Ran
    BY <1>3 DEF Writers, Ran
<1>5. StateJ(e, j, st) /\ PlanJ(e, j, st, tasks)
    BY DEF JoinInv
<1>6. Once(NextTasks, c) /\ (Names(NextTasks, c) => j \in Triggered(Committed))
    BY NextPlan
<1>7. a.ver[j] \in Nat /\ a.seen[c][j] \in Nat
    BY <1>1, <1>2, JoinShape DEF States
<1> HIDE DEF CommitBatches, Ran, Triggered, Committed, NextTasks
<1>8. CASE c \notin Ran
    <2>1. ChildAbsent(e, j, st, a)
        BY <1>1, <1>2, <1>4, <1>5, <1>8, AbsentFacts
    <2>2. s.bar[j] = a.bar[j]
        BY <1>1, <1>8
    <2>3. Spent(e, j, a) => Spent(e, j, s)
        BY <1>1, <1>7, <2>2 DEF Spent
    <2>4. InStep(e, a.log) /\ (~Spent(e, j, a) => \A p \in a.bar[j] : Ahead(e, a.log, p))
        BY <2>1 DEF ChildAbsent, StateJ
    <2>5. StateJ(e, j, s)
        BY <1>1, <2>2, <2>3, <2>4 DEF StateJ
    <2>6. Names(NextTasks, c) => Spent(e, j, s) /\ \A p \in e.parents : Ahead(e, s.log, p)
        <3> SUFFICES ASSUME Names(NextTasks, c) PROVE Spent(e, j, s) /\ \A p \in e.parents : Ahead(e, s.log, p)
            OBVIOUS
        <3>1. s.bar[j] = e.parents /\ a.seen[c][j] < a.ver[j] /\ s.seen[c][j] = a.ver[j]
            BY <1>1, <1>6
        <3>2. Spent(e, j, s)
            BY <1>1, <1>7, <3>1 DEF Spent
        <3>3. ~Spent(e, j, a)
            BY <1>7, <3>1 DEF Spent
        <3>4. QED
            BY <1>1, <2>2, <2>4, <3>1, <3>2, <3>3
    <2>7. QED
        BY <1>6, <2>5, <2>6 DEF PlanJ
<1>9. CASE c \in Ran
    <2>1. Names(tasks, c)
        BY <1>9 DEF Ran, Names
    <2>2. Spent(e, j, st) /\ (\A p \in e.parents : Ahead(e, st.log, p)) /\ Once(tasks, c)
        BY <1>5, <2>1 DEF PlanJ
    <2>3. \A i, k \in DOMAIN CommitBatches : CommitBatches[i].node = c /\ CommitBatches[k].node = c => i = k
        BY <1>3, <2>2 DEF Once
    <2>4. ChildPresent(e, j, st, a)
        BY <1>1, <1>2, <1>4, <1>5, <1>9, <2>2, <2>3, PresentFacts
    <2>5. s.bar[j] = {}
        BY <1>1, <1>9, <2>4 DEF ChildPresent
    <2>6. StateJ(e, j, s)
        BY <1>1, <2>4, <2>5 DEF StateJ, ChildPresent
    <2>7. ~(a.seen[c][j] < a.ver[j])
        BY <1>7, <2>4 DEF ChildPresent
    <2>8. ~Names(NextTasks, c)
        BY <1>1, <1>6, <2>7
    <2>9. QED
        BY <2>6, <2>8, UnnamedPlan
<1>10. QED
    BY <1>8, <1>9
-----------------------------------------------------------------------------
(* The start of a run.                                                      *)

\* Nothing has run.
LEMMA EmptyJoin ==
    ASSUME graph \in Graphs, NEW j \in JoinIdx PROVE StateJ(Joins[j], j, EmptyState)
<1>1. EmptyState.log = <<>> /\ Len(EmptyState.log) = 0 /\ EmptyState.bar[j] = {}
    BY DEF EmptyState
<1>2. \A n : Count(EmptyState.log, n, 0) = 0
    <2>1. \A n : {k \in 1 .. 0 : EmptyState.log[k].n = n} = {}
        OBVIOUS
    <2>2. QED
        BY <2>1, FS_EmptySet DEF Count
<1>3. InStep(Joins[j], EmptyState.log)
    BY <1>1, <1>2 DEF InStep
<1>4. QED
    BY <1>1, <1>3 DEF StateJ

\* Fresh input is not the work of a child, nor is a child an entry point.
LEMMA InputJoins ==
    ASSUME Base, JoinsOnly(graph), NEW j \in JoinIdx, NEW s \in States, StateJ(Joins[j], j, s), NEW r, Applied(s, InputBatch, r),
           NEW c \in 1 .. MaxIds, NEW n \in 0 .. MaxIds
    PROVE /\ StateJ(Joins[j], j, r) /\ PlanJ(Joins[j], j, r, NewTasks(Entry))
          /\ PlanJ(Joins[j], j, r, StampNew(NewTasks(Entry), c, n))
<1>1. InputBatch \in Seq(Batches) /\ Writers(InputBatch) = {END} /\ graph \in Graphs
    BY InputFacts DEF Base, Run, Saver
<1>2. Joins[j].child \notin Writers(InputBatch)
    BY <1>1, JoinShape
<1>3. ChildAbsent(Joins[j], j, s, r)
    BY <1>1, <1>2, AbsentFacts
<1>4. NewTasks(Entry) \in Seq(TaskRecs) /\ \A i \in DOMAIN NewTasks(Entry) : i \in DOMAIN Entry /\ NewTasks(Entry)[i] = NewTask(Entry[i])
    BY <1>1, Shape, NewTaskFacts DEF GraphShape
<1>5. ~Names(NewTasks(Entry), Joins[j].child)
    <2>1. \A i \in DOMAIN Entry : Entry[i].node # Joins[j].child
        BY DEF JoinsOnly, JoinIdx, Joins, Entry
    <2>2. \A d : NewTask(d).node = d.node
        BY DEF NewTask
    <2> HIDE DEF NewTasks
    <2>3. QED
        BY <1>4, <2>1, <2>2 DEF Names
<1>6. PlanJ(Joins[j], j, r, NewTasks(Entry))
    BY <1>5, UnnamedPlan
<1>7. PlanJ(Joins[j], j, r, StampNew(NewTasks(Entry), c, n))
    BY <1>1, <1>4, <1>6, StampedJoin
<1>8. QED
    BY <1>3, <1>6, <1>7 DEF ChildAbsent

\* What a completed task has sent, a replay sends to other nodes than the child.
LEMMA SentElsewhere ==
    ASSUME Base, JoinInv, NEW j \in JoinIdx, NEW c \in DOMAIN store
    PROVE ~Names(ReplaySends(c), Joins[j].child)
<1>1. /\ ReplaySends(c) \in Seq(TaskRecs)
      /\ \A t \in Elements(ReplaySends(c)) :
            \E i \in CompletedIdx(c) : \E k \in DOMAIN DoneWrite(c, i).sends : t = NewTask(DoneWrite(c, i).sends[k])
    BY ReplaySendFacts DEF Base
<1>2. ASSUME NEW i \in CompletedIdx(c) PROVE Avoids(DoneWrite(c, i).sends, Joins[j].child)
    <2>1. i \in PlanIdx(c) /\ Completed(c, i)
        BY DEF CompletedIdx
    <2>2. DoneWrite(c, i) \in store[c].w /\ DoneWrite(c, i).kind = "done"
        BY <2>1, DoneFacts DEF Base
    <2>3. <<c, DoneWrite(c, i)>> \in Written
        BY <2>2, ReadFacts DEF Base
    <2>4. QED
        BY <2>2, <2>3 DEF JoinInv
<1> SUFFICES ASSUME NEW x \in DOMAIN ReplaySends(c), ReplaySends(c)[x].node = Joins[j].child PROVE FALSE
    BY DEF Names
<1> HIDE DEF ReplaySends, DoneWrite, CompletedIdx
<1>3. ReplaySends(c)[x] \in Elements(ReplaySends(c))
    BY DEF Elements
<1>4. PICK i \in CompletedIdx(c) : \E k \in DOMAIN DoneWrite(c, i).sends : ReplaySends(c)[x] = NewTask(DoneWrite(c, i).sends[k])
    BY <1>1, <1>3
<1>5. PICK k \in DOMAIN DoneWrite(c, i).sends : ReplaySends(c)[x] = NewTask(DoneWrite(c, i).sends[k])
    BY <1>4
<1>6. ReplaySends(c)[x].node = DoneWrite(c, i).sends[k].node
    BY <1>5 DEF NewTask
<1>7. QED
    BY <1>2, <1>6 DEF Avoids

\* A resume applies the child's work if it has completed, and leaves the child
\* to run if it has not.
LEMMA ResumeJoins ==
    ASSUME Base, JoinInv, NEW j \in JoinIdx, NEW c \in DOMAIN store,
           NEW r, r = IF ReplayWrites(c) = <<>> THEN store[c].st ELSE applyWrites(store[c].st, ReplayWrites(c)),
           NEW ts, ts = RestoredTasks(c) \o ReplaySends(c)
    PROVE StateJ(Joins[j], j, r) /\ PlanJ(Joins[j], j, r, ts)
<1> DEFINE e == Joins[j]
           n == e.child
           s == store[c].st
           ws == ReplayWrites(c)
           next == store[c].next
           C == CompletedIdx(c)
           O == OpenIdx(c)
           old == RestoredTasks(c)
           new == ReplaySends(c)
<1>1. /\ graph \in Graphs /\ s \in States /\ <<c, s, next>> \in Saved
      /\ ws \in Seq(Batches) /\ Elements(ws) = {ReplayOf(c)[i] : i \in C} /\ InOrder(ws, ReplayOf(c), C)
      /\ old \in Seq(TaskRecs) /\ InOrder(old, RestoreOf(c), O)
      /\ new \in Seq(TaskRecs)
    BY ReadFacts, ReplayFacts, RestoreFacts, ReplaySendFacts DEF Base, Saver
<1>2. /\ C \subseteq DOMAIN next /\ O \subseteq DOMAIN next /\ DOMAIN next \subseteq Int
      /\ \A i \in C : i \notin O
      /\ \A i \in DOMAIN next : ReplayOf(c)[i].node = next[i].node /\ RestoreOf(c)[i].node = next[i].node
    <2>1. DOMAIN next \subseteq Int
        BY PlanFacts DEF PlanIdx, Base
    <2>2. QED
        BY <2>1 DEF CompletedIdx, OpenIdx, PlanIdx, ReplayOf, RestoreOf, Write
<1>3. StateJ(e, j, s) /\ PlanJ(e, j, s, next)
    BY <1>1 DEF JoinInv
<1>4. ~Names(new, n)
    BY SentElsewhere
<1>5. Applied(s, ws, applyWrites(s, ws))
    BY <1>1, ApplyFacts
<1> HIDE DEF C, O, s, next, ws, old, new, TaskRecs, Batches, e, n
<1>6. ts \in Seq(TaskRecs) /\ Joined(ts, old, new)
    <2>1. ts = old \o new
        BY DEF old, new
    <2>2. QED
        BY <1>1, <2>1, ConcatFacts
<1>7. OnceAmong(RestoreOf(c), O, n) /\ OnceAmong(ReplayOf(c), C, n) /\ C \subseteq Int /\ O \subseteq Int
    <2>1. Once(next, n)
        BY <1>3 DEF PlanJ, n
    <2>2. QED
        BY <1>2, <2>1 DEF Once, OnceAmong
<1>8. Once(old, n) /\ (Names(old, n) => NamedAmong(RestoreOf(c), O, n))
    BY <1>1, <1>7, SelectedOnce
<1>9. Once(ts, n) /\ (Names(ts, n) => NamedAmong(RestoreOf(c), O, n))
    BY <1>4, <1>6, <1>8, JoinedNames
<1>10. n \in Writers(ws) <=> NamedAmong(ReplayOf(c), C, n)
    <2>1. n \in Writers(ws) <=> \E x \in Elements(ws) : x.node = n
        BY DEF Writers, Elements
    <2>2. QED
        BY <1>1, <2>1 DEF NamedAmong
<1>11. CASE NamedAmong(ReplayOf(c), C, n)
    <2>1. PICK i \in C : next[i].node = n
        BY <1>2, <1>11 DEF NamedAmong
    <2>2. Once(next, n) /\ Spent(e, j, s) /\ \A p \in e.parents : Ahead(e, s.log, p)
        BY <1>2, <1>3, <2>1 DEF PlanJ, Names, n
    <2>3. ~NamedAmong(RestoreOf(c), O, n)
        BY <1>2, <2>1, <2>2 DEF NamedAmong, Once
    <2>4. ~Names(ts, n)
        BY <1>9, <2>3
    <2>5. ws # <<>>
        BY <1>10, <1>11 DEF Writers
    <2>6. r = applyWrites(s, ws)
        BY <2>5 DEF ws, s
    <2>7. Once(ws, n)
        BY <1>1, <1>7, SelectedOnce
    <2>8. \A i1, i2 \in DOMAIN ws : ws[i1].node = n /\ ws[i2].node = n => i1 = i2
        BY <2>7 DEF Once
    <2>9. ChildPresent(e, j, s, r)
        BY <1>1, <1>3, <1>5, <1>10, <1>11, <2>2, <2>6, <2>8, PresentFacts DEF e, n
    <2>10. QED
        BY <2>4, <2>9, UnnamedPlan DEF ChildPresent, e, n
<1>12. CASE ~NamedAmong(ReplayOf(c), C, n)
    <2>1. NamedAmong(RestoreOf(c), O, n) => Names(next, n)
        BY <1>2 DEF NamedAmong, Names
    <2>2. Names(ts, n) => Spent(e, j, s) /\ \A p \in e.parents : Ahead(e, s.log, p)
        BY <1>3, <1>9, <2>1 DEF PlanJ, n
    <2>3. CASE ws = <<>>
        <3>1. r = s
            BY <2>3 DEF ws, s
        <3>2. QED
            BY <1>3, <1>9, <2>2, <3>1 DEF PlanJ, e, n
    <2>4. CASE ws # <<>>
        <3>1. r = applyWrites(s, ws)
            BY <2>4 DEF ws, s
        <3>2. ChildAbsent(e, j, s, r)
            BY <1>1, <1>3, <1>5, <1>10, <1>12, <3>1, AbsentFacts DEF e, n
        <3>3. Names(ts, n) => Spent(e, j, r) /\ \A p \in e.parents : Ahead(e, r.log, p)
            BY <2>2, <3>2 DEF ChildAbsent
        <3>4. QED
            BY <1>9, <3>2, <3>3 DEF ChildAbsent, PlanJ, e, n
    <2>5. QED
        BY <2>3, <2>4
<1>13. QED
    BY <1>11, <1>12
-----------------------------------------------------------------------------
(* The steps.                                                               *)

LEMMA JoinPrimed ==
    ASSUME SameGraph,
           \A j \in JoinIdx : \A p \in Saved' : StateJ(Joins[j], j, p[2]) /\ PlanJ(Joins[j], j, p[2], p[3]),
           \A j \in JoinIdx : StateJ(Joins[j], j, st'),
           phase' \in {"loop", "tasks"} => \A j \in JoinIdx : PlanJ(Joins[j], j, st', tasks'),
           \A j \in JoinIdx : \A p \in Written' : p[2].kind = "done" => Avoids(p[2].sends, Joins[j].child),
           phase' = "tasks" => \A j \in JoinIdx : \A i \in DOMAIN outs' :
              Avoids(outs'[i].sends, Joins[j].child) /\ Avoids(outs'[i].route, Joins[j].child)
    PROVE JoinInv'
BY DEF JoinInv, SameGraph

LEMMA JoinInvoke ==
    ASSUME Base, JoinInv, JoinsOnly(graph), phase = "idle", NEW s \in States, s.step \in -1 .. lastId - 1,
           \A j \in JoinIdx : StateJ(Joins[j], j, s), InvokeFrom(s)
    PROVE JoinInv'
<1> DEFINE s1 == applyWrites(s, InputBatch)
           next == StampNew(NewTasks(Entry), lastId + 1, s1.step + 1)
<1>1. /\ s1 \in States /\ s1.step = s.step /\ Applied(s, InputBatch, s1)
      /\ CheckpointSaved(s1, next, <<>>)
    BY InputSaved DEF Applied
<1>2. phase' = "loop" /\ st' = s1 /\ tasks' = NewTasks(Entry)
    BY DEF InvokeFrom, Begin, InputBatch
<1>3. lastId + 1 \in 1 .. MaxIds /\ s1.step + 1 \in 0 .. MaxIds
    <2>1. lastId + 1 \in 1 .. MaxIds /\ lastId \in Nat /\ MaxIds \in Nat
        BY <1>1, Shape DEF CheckpointSaved, Base, Saver, GraphShape
    <2>2. s1.step \in -1 .. lastId - 1
        BY <1>1
    <2> HIDE DEF s1
    <2>3. QED
        BY <2>1, <2>2
<1>4. \A j \in JoinIdx : /\ StateJ(Joins[j], j, s1) /\ PlanJ(Joins[j], j, s1, NewTasks(Entry))
                         /\ PlanJ(Joins[j], j, s1, next)
    <2> HIDE DEF s1
    <2>1. QED
        BY <1>1, <1>3, InputJoins DEF next
<1> HIDE DEF s1, next
<1>5. SameGraph
    BY <1>1, GraphFixed DEF CheckpointSaved
<1>6. Saved' = Saved \cup {<<lastId + 1, s1, next>>} /\ Written' = Written
    BY <1>1 DEF CheckpointSaved, Elements
<1>7. \A j \in JoinIdx : \A p \in Saved' : StateJ(Joins[j], j, p[2]) /\ PlanJ(Joins[j], j, p[2], p[3])
    <2> SUFFICES ASSUME NEW j \in JoinIdx, NEW p \in Saved'
                 PROVE StateJ(Joins[j], j, p[2]) /\ PlanJ(Joins[j], j, p[2], p[3])
        OBVIOUS
    <2>1. CASE p \in Saved
        BY <2>1 DEF JoinInv
    <2>2. CASE p = <<lastId + 1, s1, next>>
        BY <1>4, <2>2
    <2>3. QED
        BY <1>6, <2>1, <2>2
<1>8. \A j \in JoinIdx : \A p \in Written' : p[2].kind = "done" => Avoids(p[2].sends, Joins[j].child)
    BY <1>6 DEF JoinInv
<1>9. QED
    BY <1>2, <1>4, <1>5, <1>7, <1>8, JoinPrimed

LEMMA JoinResume ==
    ASSUME Base, JoinInv, NEW c \in DOMAIN store, NEW a \in SUBSET AskIds(c), Resume(c, a)
    PROVE JoinInv'
<1>1. Saved' = Saved /\ Written' = Written /\ SameGraph
    BY BaseResume, GraphFixed DEF Resume, saverVars
<1>2. /\ phase' = "loop"
      /\ st' = IF ReplayWrites(c) = <<>> THEN store[c].st ELSE applyWrites(store[c].st, ReplayWrites(c))
      /\ tasks' = RestoredTasks(c) \o ReplaySends(c)
    BY DEF Resume, Begin
<1>3. \A j \in JoinIdx : StateJ(Joins[j], j, st') /\ PlanJ(Joins[j], j, st', tasks')
    BY <1>2, ResumeJoins
<1>4. /\ \A j \in JoinIdx : \A p \in Saved' : StateJ(Joins[j], j, p[2]) /\ PlanJ(Joins[j], j, p[2], p[3])
      /\ \A j \in JoinIdx : \A p \in Written' : p[2].kind = "done" => Avoids(p[2].sends, Joins[j].child)
    BY <1>1 DEF JoinInv
<1>5. QED
    BY <1>1, <1>2, <1>3, <1>4, JoinPrimed

LEMMA JoinStarts ==
    ASSUME Base, JoinInv, JoinsOnly(graph), Starts PROVE JoinInv'
<1>1. ASSUME NEW c \in Loadable, InvokeNewTurn(c) PROVE JoinInv'
    <2>1. c \in DOMAIN store /\ Saver
        BY LoadableStored DEF Base
    <2>2. /\ store[c].st \in States /\ store[c].st.step \in -1 .. c - 2 /\ c \in 1 .. lastId
          /\ <<c, store[c].st, store[c].next>> \in Saved
        BY <2>1, ReadFacts
    <2>3. lastId \in Nat
        BY Shape DEF Base, Saver, GraphShape
    <2>4. store[c].st.step \in -1 .. lastId - 1
        BY <2>2, <2>3
    <2>5. \A j \in JoinIdx : StateJ(Joins[j], j, store[c].st)
        BY <2>2 DEF JoinInv
    <2>6. QED
        BY <1>1, <2>2, <2>4, <2>5, JoinInvoke DEF InvokeNewTurn
<1>2. ASSUME InvokeFresh PROVE JoinInv'
    <2>1. graph \in Graphs /\ lastId \in Nat
        BY Shape DEF Base, Saver, GraphShape
    <2>2. EmptyState \in States /\ EmptyState.step = -1
        BY <2>1, EmptyStateType DEF EmptyState
    <2>3. EmptyState.step \in -1 .. lastId - 1
        BY <2>1, <2>2
    <2>4. \A j \in JoinIdx : StateJ(Joins[j], j, EmptyState)
        BY <2>1, EmptyJoin
    <2>5. QED
        BY <1>2, <2>2, <2>3, <2>4, JoinInvoke DEF InvokeFresh
<1>3. ASSUME NEW c \in Loadable, NEW a \in SUBSET AskIds(c), Resume(c, a) PROVE JoinInv'
    BY <1>3, LoadableStored, JoinResume DEF Base
<1>4. QED
    BY <1>1, <1>2, <1>3 DEF Starts

\* Nothing is saved or written: st and tasks stay, or the run is over.
LEMMA JoinQuiet ==
    ASSUME Base, JoinInv, graph' = graph, Saved' \subseteq Saved, Written' \subseteq Written,
           st' = st \/ st' = EmptyState,
           phase' \in {"loop", "tasks"} => phase \in {"loop", "tasks"} /\ st' = st /\ tasks' = tasks,
           phase' = "tasks" => phase = "tasks" /\ outs' = outs
    PROVE JoinInv'
<1>1. SameGraph /\ graph \in Graphs
    BY GraphFixed DEF Base, Saver
<1>2. \A j \in JoinIdx : StateJ(Joins[j], j, st')
    BY <1>1, EmptyJoin DEF JoinInv
<1>3. phase' \in {"loop", "tasks"} => \A j \in JoinIdx : PlanJ(Joins[j], j, st', tasks')
    BY DEF JoinInv
<1>4. /\ \A j \in JoinIdx : \A p \in Saved' : StateJ(Joins[j], j, p[2]) /\ PlanJ(Joins[j], j, p[2], p[3])
      /\ \A j \in JoinIdx : \A p \in Written' : p[2].kind = "done" => Avoids(p[2].sends, Joins[j].child)
      /\ phase' = "tasks" => \A j \in JoinIdx : \A i \in DOMAIN outs' :
              Avoids(outs'[i].sends, Joins[j].child) /\ Avoids(outs'[i].route, Joins[j].child)
    BY DEF JoinInv
<1>5. QED
    BY <1>1, <1>2, <1>3, <1>4, JoinPrimed

\* A checkpoint is saved and the run stops, or goes on from it.
LEMMA JoinSaved ==
    ASSUME Base, JoinInv, NEW s, NEW next, NEW ws, CheckpointSaved(s, next, ws), st' = s,
           \A j \in JoinIdx : StateJ(Joins[j], j, s) /\ PlanJ(Joins[j], j, s, next),
           \A r \in Elements(ws) : r.kind = "done" => \A j \in JoinIdx : Avoids(r.sends, Joins[j].child),
           phase' \in {"loop", "flush"}, phase' = "loop" => \A j \in JoinIdx : PlanJ(Joins[j], j, s, tasks')
    PROVE JoinInv'
<1>1. /\ SameGraph /\ Saved' = Saved \cup {<<lastId + 1, s, next>>}
      /\ Written' = Written \cup {<<lastId + 1, r>> : r \in Elements(ws)}
    BY GraphFixed DEF CheckpointSaved
<1>2. \A j \in JoinIdx : \A p \in Saved' : StateJ(Joins[j], j, p[2]) /\ PlanJ(Joins[j], j, p[2], p[3])
    <2> SUFFICES ASSUME NEW j \in JoinIdx, NEW p \in Saved'
                 PROVE StateJ(Joins[j], j, p[2]) /\ PlanJ(Joins[j], j, p[2], p[3])
        OBVIOUS
    <2>1. CASE p \in Saved
        BY <2>1 DEF JoinInv
    <2>2. CASE p = <<lastId + 1, s, next>>
        BY <2>2
    <2>3. QED
        BY <1>1, <2>1, <2>2
<1>3. \A j \in JoinIdx : \A p \in Written' : p[2].kind = "done" => Avoids(p[2].sends, Joins[j].child)
    <2> SUFFICES ASSUME NEW j \in JoinIdx, NEW p \in Written', p[2].kind = "done" PROVE Avoids(p[2].sends, Joins[j].child)
        OBVIOUS
    <2>1. CASE p \in Written
        BY <2>1 DEF JoinInv
    <2>2. CASE p \in {<<lastId + 1, r>> : r \in Elements(ws)}
        BY <2>2
    <2>3. QED
        BY <1>1, <2>1, <2>2
<1>4. QED
    BY <1>1, <1>2, <1>3, JoinPrimed

\* The writes of a superstep send elsewhere.
LEMMA WritesElsewhere ==
    ASSUME JoinInv, phase = "tasks", NEW i \in DOMAIN outs, NEW id, NEW j \in JoinIdx, NEW q
    PROVE /\ Avoids(CompletedWrites(i, id).sends, Joins[j].child)
          /\ Reserved(id, "err", q).kind # "done" /\ Reserved(id, "ask", q).kind # "done"
          /\ Reserved(id, "before", q).kind # "done"
BY DEF JoinInv, CompletedWrites, Pending, Reserved

LEMMA JoinPauseBefore ==
    ASSUME Base, JoinInv, PauseBefore PROVE JoinInv'
<1> DEFINE next == StampDispatchIDs(tasks, cur, st.step + 1)
<1>1. PICK n \in Nodes : CheckpointSaved(st, next, <<Reserved(BoundaryId(n), "before", <<>>)>>)
    BY PauseBeforeFacts
<1>2. phase = "loop" /\ phase' = "flush" /\ st' = st
    BY DEF PauseBefore, AtHead, Stop
<1>3. /\ graph \in Graphs /\ cur \in 1 .. MaxIds /\ st.step + 1 \in 0 .. MaxIds /\ tasks \in Seq(TaskRecs)
    BY <1>2, CurFacts DEF Base
<1>4. \A j \in JoinIdx : StateJ(Joins[j], j, st) /\ PlanJ(Joins[j], j, st, next)
    BY <1>2, <1>3, StampedJoin DEF JoinInv
<1>5. \A r \in Elements(<<Reserved(BoundaryId(n), "before", <<>>)>>) : r.kind # "done"
    BY DEF Elements, Reserved, Pending
<1> HIDE DEF next
<1>6. QED
    BY <1>1, <1>2, <1>4, <1>5, JoinSaved

LEMMA JoinDispatch ==
    ASSUME Base, JoinInv, Dispatch PROVE JoinInv'
<1>1. /\ phase = "loop" /\ phase' = "tasks" /\ tasks' = Active(tasks) /\ st' = st /\ graph' = graph
      /\ outs' = [i \in DOMAIN Active(tasks) |-> IF Active(tasks)[i].handler THEN HandlerRuns ELSE Undecided]
    BY DEF Dispatch, AtHead, PastBreakpoints, saverVars
<1>2. Saved' = Saved /\ Written' = Written /\ SameGraph
    BY <1>1, BaseDispatch, GraphFixed
<1>3. graph \in Graphs /\ cur \in 1 .. MaxIds /\ st.step + 1 \in 0 .. MaxIds /\ tasks \in Seq(TaskRecs)
    BY <1>1, CurFacts DEF Base
<1>4. \A j \in JoinIdx : StateJ(Joins[j], j, st') /\ PlanJ(Joins[j], j, st', tasks')
    BY <1>1, <1>3, StampedJoin DEF JoinInv
<1>5. \A i \in DOMAIN outs' : outs'[i].sends = <<>> /\ outs'[i].route = <<>>
    BY <1>1 DEF HandlerRuns, Undecided, Outcome
<1>6. \A n : Avoids(<<>>, n)
    BY DEF Avoids
<1>7. /\ \A j \in JoinIdx : \A p \in Saved' : StateJ(Joins[j], j, p[2]) /\ PlanJ(Joins[j], j, p[2], p[3])
      /\ \A j \in JoinIdx : \A p \in Written' : p[2].kind = "done" => Avoids(p[2].sends, Joins[j].child)
    BY <1>2 DEF JoinInv
<1>8. QED
    BY <1>1, <1>2, <1>4, <1>5, <1>6, <1>7, JoinPrimed

LEMMA JoinTask ==
    ASSUME Base, JoinInv, JoinsOnly(graph), TaskStep PROVE JoinInv'
<1>1. PICK i \in DOMAIN outs : \E out \in Outs : Progress(i, out)
    BY ProgressFacts
<1>2. PICK out \in Outs : Progress(i, out)
    BY <1>1
<1>3. /\ phase = "tasks" /\ outs' = [outs EXCEPT ![i] = out] /\ UNCHANGED <<phase, st, tasks>>
      /\ \/ out.sends = <<>> /\ out.route = <<>>
         \/ out.sends \in Goto[tasks[i].node] /\ out.route = <<>>
         \/ out.sends = <<>> /\ out.route \in Route[tasks[i].node]
    BY <1>2 DEF Progress
<1>4. Saved' = Saved /\ SameGraph
      /\ \A p \in Written' : p \in Written \/ p[2].kind # "done"
    <2>1. \A id : Reserved(id, "err", <<>>).kind = "err"
        BY DEF Reserved, Pending
    <2> HIDE DEF Reserved
    <2>2. QED
        BY <1>2, <2>1, ProgressWrites
<1>5. tasks[i].node \in Nodes
    BY <1>3, OutFacts
<1>6. \A j \in JoinIdx : Avoids(out.sends, Joins[j].child) /\ Avoids(out.route, Joins[j].child)
    <2>1. \A n : Avoids(<<>>, n)
        BY DEF Avoids
    <2>2. \A j \in JoinIdx : \A r \in Goto[tasks[i].node] \cup Route[tasks[i].node] : Avoids(r, Joins[j].child)
        BY <1>5 DEF JoinsOnly, JoinIdx, Joins, Nodes, Goto, Route, Avoids
    <2>3. QED
        BY <1>3, <2>1, <2>2
<1>7. \A j \in JoinIdx : \A k \in DOMAIN outs' : Avoids(outs'[k].sends, Joins[j].child) /\ Avoids(outs'[k].route, Joins[j].child)
    BY <1>3, <1>6 DEF JoinInv
<1>8. /\ \A j \in JoinIdx : \A p \in Saved' : StateJ(Joins[j], j, p[2]) /\ PlanJ(Joins[j], j, p[2], p[3])
      /\ \A j \in JoinIdx : \A p \in Written' : p[2].kind = "done" => Avoids(p[2].sends, Joins[j].child)
      /\ \A j \in JoinIdx : StateJ(Joins[j], j, st') /\ PlanJ(Joins[j], j, st', tasks')
    BY <1>3, <1>4 DEF JoinInv
<1>9. QED
    BY <1>4, <1>7, <1>8, JoinPrimed

\* The plan a superstep was dispatched from is as good as its tasks.
LEMMA DispatchedJoin ==
    ASSUME JoinInv, phase = "tasks", NEW next, Dispatched(next)
    PROVE \A j \in JoinIdx : StateJ(Joins[j], j, st) /\ PlanJ(Joins[j], j, st, next)
<1>1. DOMAIN next = DOMAIN tasks /\ \A i \in DOMAIN tasks : next[i].node = tasks[i].node
    BY DEF Dispatched
<1>2. QED
    BY <1>1 DEF JoinInv, PlanJ, Names, Once

LEMMA JoinAbort ==
    ASSUME Base, JoinInv, Abort PROVE JoinInv'
<1>1. phase = "tasks" /\ phase' = "flush" /\ st' = st
    BY AbortEffect DEF Abort, Stop
<1>2. CASE UNCHANGED <<graph, store, lastId, io, cur>>
    <2>1. Saved' = Saved /\ Written' = Written
        BY <1>2, SaverSame DEF Saved, Written, PutsOf, WritesOf, StoredPuts, StoredWrites, NewPuts, NewWrites
    <2>2. QED
        BY <1>1, <1>2, <2>1, JoinQuiet
<1>3. ASSUME NEW next, NEW ws, AbortSaves(next, ws) PROVE JoinInv'
    <2>1. CheckpointSaved(st, next, ws) /\ Dispatched(next)
        BY <1>3 DEF AbortSaves
    <2>2. \A r \in Elements(ws) : r.kind # "done"
        BY <1>3 DEF AbortSaves, Reserved, Pending
    <2>3. QED
        BY <1>1, <2>1, <2>2, DispatchedJoin, JoinSaved
<1>4. QED
    BY <1>2, <1>3, AbortEffect

LEMMA JoinPauseInNode ==
    ASSUME Base, JoinInv, PauseInNode PROVE JoinInv'
<1>1. phase = "tasks" /\ phase' = "flush" /\ st' = st
    BY PauseEffect DEF PauseInNode, Stop
<1>2. PICK next, ws : PauseSaves(next, ws)
    BY PauseEffect
<1>3. CheckpointSaved(st, next, ws) /\ Dispatched(next)
    BY <1>2 DEF PauseSaves
<1>4. \A r \in Elements(ws) : r.kind = "done" => \A j \in JoinIdx : Avoids(r.sends, Joins[j].child)
    <2> SUFFICES ASSUME NEW r \in Elements(ws), r.kind = "done", NEW j \in JoinIdx PROVE Avoids(r.sends, Joins[j].child)
        OBVIOUS
    <2>1. PICK i \in DOMAIN outs : \/ r = Reserved(next[i].id, "err", <<>>)
                                   \/ r = Reserved(next[i].id, "ask", outs[i].pre)
                                   \/ r = CompletedWrites(i, next[i].id)
        BY <1>2 DEF PauseSaves, Paused
    <2>2. r = CompletedWrites(i, next[i].id)
        BY <2>1 DEF Reserved, Pending
    <2>3. QED
        BY <1>1, <2>2, WritesElsewhere
<1>5. QED
    BY <1>1, <1>3, <1>4, DispatchedJoin, JoinSaved

LEMMA JoinCommit ==
    ASSUME Base, JoinInv, JoinsOnly(graph), Commit PROVE JoinInv'
<1>1. PICK s, next, ws : CommitSaves(s, next, ws)
    BY CommitEffect
<1>2. /\ phase = "tasks" /\ AllDone /\ Commits(applyWrites(st, CommitBatches), s) /\ CheckpointSaved(s, next, ws)
      /\ s.step + 1 \in 0 .. MaxIds
      /\ \/ phase' = "flush" /\ next = StampDispatchIDs(NextTasks, cur, s.step + 1)
         \/ phase' = "loop" /\ next = StampNew(NextTasks, lastId + 1, s.step + 1)
      /\ \A r \in Elements(ws) : \/ r.kind = "after"
                                 \/ \E i \in DOMAIN outs : r = CompletedWrites(i, TaskID(lastId + 1, s.step + 1, tasks[i]))
      /\ st' = s /\ tasks' = NextTasks /\ NextTasks \in Seq(TaskRecs)
    BY <1>1 DEF CommitSaves
<1>3. \A j \in JoinIdx : StateJ(Joins[j], j, s) /\ PlanJ(Joins[j], j, s, NextTasks)
    BY <1>2, CommitJoins
<1>4. graph \in Graphs /\ cur \in 1 .. MaxIds /\ lastId + 1 \in 1 .. MaxIds
    BY <1>2, CurFacts DEF Base, CheckpointSaved
<1>5. \A j \in JoinIdx : PlanJ(Joins[j], j, s, next)
    BY <1>2, <1>3, <1>4, StampedJoin
<1>6. \A r \in Elements(ws) : r.kind = "done" => \A j \in JoinIdx : Avoids(r.sends, Joins[j].child)
    BY <1>2, WritesElsewhere
<1>7. phase' \in {"loop", "flush"} /\ (phase' = "loop" => \A j \in JoinIdx : PlanJ(Joins[j], j, s, tasks'))
    BY <1>2, <1>3
<1>8. QED
    BY <1>2, <1>3, <1>5, <1>6, <1>7, JoinSaved

LEMMA JoinStep ==
    ASSUME Base, JoinInv, JoinsOnly(graph), [Next]_vars PROVE JoinInv'
<1>1. CASE StopsHere
    <2>1. phase' = "flush" /\ st' = st /\ graph' = graph
        BY <1>1 DEF StopsHere, Finish, Drained, RecursionError, Cancel, Stop, saverVars
    <2>2. QED
        BY <1>1, <2>1, BaseStopsHere, JoinQuiet
<1>2. CASE SaverStep
    <2>1. UNCHANGED <<graph, phase, st, tasks, outs>>
        BY <1>2 DEF SaverStep
    <2>2. Saved' \subseteq Saved /\ Written' \subseteq Written
        BY <1>2, BaseSaver DEF SaverExecutes
    <2>3. QED
        BY <2>1, <2>2, JoinQuiet
<1>3. CASE Ends
    <2>1. phase' = "idle" /\ st' = EmptyState /\ graph' = graph
        BY <1>3 DEF Ends, Flush, Crash, Reset, saverVars
    <2>2. QED
        BY <1>3, <2>1, BaseEnds, JoinQuiet
<1>4. CASE Idles
    <2>1. UNCHANGED <<graph, phase, st, tasks, outs>>
        BY <1>4 DEF Idles, RequestDrain, vars, saverVars, runVars
    <2>2. QED
        BY <1>4, <2>1, BaseIdles, JoinQuiet
<1>5. QED
    BY <1>1, <1>2, <1>3, <1>4, Steps, JoinStarts, JoinPauseBefore, JoinDispatch, JoinTask, JoinAbort,
       JoinPauseInNode, JoinCommit

LEMMA JoinStart ==
    ASSUME Init PROVE JoinInv
<1>1. /\ graph \in Graphs /\ store = <<>> /\ io = <<>> /\ phase = "idle" /\ st = EmptyState
    BY DEF Init
<1>2. Saved = {} /\ Written = {}
    BY <1>1 DEF Saved, Written, PutsOf, WritesOf, StoredPuts, StoredWrites, NewPuts, NewWrites
<1>3. \A j \in JoinIdx : StateJ(Joins[j], j, st)
    BY <1>1, EmptyJoin
<1>4. QED
    BY <1>1, <1>2, <1>3 DEF JoinInv

\* In graphs that reach a join's child by the join only (no edge, Goto or entry
\* point leads to it, and no other join), the child never runs ahead of its
\* parents: barrier channels, their versions and their reset at the commit keep
\* count across pauses, replays of completed tasks, crashes and time travel.
THEOREM JoinsNeverEarly ==
    ASSUME \A g \in Graphs : JoinsOnly(g)
    PROVE Spec => []JoinNeverEarly
<1>1. Base /\ JoinInv => JoinNeverEarly
    <2> SUFFICES ASSUME Base, JoinInv, NEW l \in Logs, NEW j \in JoinIdx, NEW i \in DOMAIN l, NEW p \in Joins[j].parents
                 PROVE Count(l, Joins[j].child, i) <= Count(l, p, i)
        BY DEF JoinNeverEarly, Count
    <2>1. l \in Seq(Tokens) /\ InStep(Joins[j], l)
        <3>1. CASE l = st.log
            BY <3>1 DEF JoinInv, StateJ, Base, Run, States
        <3>2. ASSUME NEW c \in DOMAIN store, l = store[c].st.log PROVE l \in Seq(Tokens) /\ InStep(Joins[j], l)
            <4>1. store[c].st \in States /\ <<c, store[c].st, store[c].next>> \in Saved
                BY ReadFacts DEF Base
            <4>2. StateJ(Joins[j], j, store[c].st)
                BY <4>1 DEF JoinInv
            <4>3. QED
                BY <3>2, <4>1, <4>2 DEF StateJ, States
        <3>3. QED
            BY <3>1, <3>2 DEF Logs
    <2>2. i \in 0 .. Len(l)
        BY <2>1
    <2>3. QED
        BY <2>1, <2>2 DEF InStep
<1>2. Base => JoinsOnly(graph)
    BY DEF Base, Saver
<1>3. Init => JoinInv
    BY JoinStart
<1>4. Base /\ JoinInv /\ [Next]_vars => JoinInv'
    BY <1>2, JoinStep
<1>5. QED
    BY BaseAlways, <1>1, <1>3, <1>4, PTL DEF Spec
-----------------------------------------------------------------------------
(* Joins fire.                                                              *)

\* What the theorem asks of a behaviour: no turn starts from a checkpoint whose
\* barrier is full, has triggered its child already, and awaits its run.
Clean(s) == \A j \in JoinIdx : ~Spent(Joins[j], j, s)
CleanTurn == \A c \in Loadable : InvokeNewTurn(c) => Clean(store[c].st)

\* The nodes that ran since the last input.
Arrived(l) == {l[i].n : i \in {k \in DOMAIN l : ThisTurn(l, k)}}
HasTask(ts) == \E i \in DOMAIN ts : ts[i].node # END
\* A child that has not run and is not planned can still be triggered: its barrier
\* has kept the arrivals of the turn, and has not triggered it before.
Waits(e, j, s) ==
    /\ e.parents \cap Arrived(s.log) \subseteq s.bar[j]
    /\ s.bar[j] = e.parents => s.seen[e.child][j] < s.ver[j]
FireJ(e, j, s, ts) ==
    /\ s.seen[e.child][j] <= s.ver[j]
    /\ e.child \notin Arrived(s.log) /\ ~Names(ts, e.child) =>
          Waits(e, j, s) /\ (e.parents \subseteq Arrived(s.log) => HasTask(ts))
\* Some task of a stored plan is run by the resume that reads it.
Left(W, p) ==
    DOMAIN p[3] # {} => \E i \in DOMAIN p[3] : \A w \in W :
        ~(w[1] = p[1] /\ w[2].kind = "done" /\ w[2].id = p[3][i].id)
FireInv ==
    /\ \A j \in JoinIdx :
          /\ \A p \in Saved : FireJ(Joins[j], j, p[2], p[3])
          /\ phase \in {"loop", "tasks"} => FireJ(Joins[j], j, st, tasks)
          /\ Completion => FireJ(Joins[j], j, st, <<>>)
    /\ \A p \in Saved : Left(Written, p)

\* A plan that names as much waits as well.
LEMMA FireCovered ==
    ASSUME NEW e, NEW j, NEW s, NEW ts, NEW ts2, FireJ(e, j, s, ts), Covers(ts2, ts), e.child # END
    PROVE FireJ(e, j, s, ts2)
<1>1. HasTask(ts) => HasTask(ts2)
    BY DEF HasTask, Covers, Heads
<1>2. Names(ts, e.child) => Names(ts2, e.child)
    BY CoversNames
<1>3. QED
    BY <1>1, <1>2 DEF FireJ

\* What ran in this turn, and what is appended.
LEMMA ArrivedJoined ==
    ASSUME NEW l2, NEW l, NEW t, Joined(l2, l, t), \A k \in DOMAIN t : t[k].n # END
    PROVE Arrived(l2) = Arrived(l) \cup {t[k].n : k \in DOMAIN t}
<1> DEFINE a == Len(l)
           b == Len(t)
<1>1. /\ a \in Nat /\ b \in Nat /\ DOMAIN l = 1 .. a /\ DOMAIN t = 1 .. b /\ DOMAIN l2 = 1 .. a + b
      /\ \A h \in DOMAIN l : l2[h] = l[h]
      /\ \A h \in DOMAIN t : l2[a + h] = t[h]
    BY DEF Joined
<1> HIDE DEF a, b
<1>2. \A h \in DOMAIN l : h \in DOMAIN l2
    BY <1>1
<1>3. \A h \in DOMAIN t : a + h \in DOMAIN l2 /\ a + h \notin DOMAIN l
    BY <1>1
<1>4. ASSUME NEW h \in DOMAIN l2, h \notin DOMAIN l PROVE \E k \in DOMAIN t : h = a + k /\ l2[h] = t[k]
    <2>1. h - a \in DOMAIN t /\ h = a + (h - a)
        BY <1>1, <1>4
    <2>2. QED
        BY <1>1, <2>1
<1>5. \A i \in DOMAIN l : ThisTurn(l2, i) <=> ThisTurn(l, i)
    BY <1>1, <1>2, <1>4 DEF ThisTurn
<1>6. ASSUME NEW k \in DOMAIN t PROVE ThisTurn(l2, a + k)
    <2>1. ASSUME NEW h \in DOMAIN l2, h >= a + k PROVE h \notin DOMAIN l
        BY <1>1, <2>1
    <2>2. QED
        BY <1>4, <2>1 DEF ThisTurn
<1>7. ASSUME NEW n \in Arrived(l2) PROVE n \in Arrived(l) \cup {t[k].n : k \in DOMAIN t}
    <2>1. PICK i \in DOMAIN l2 : ThisTurn(l2, i) /\ n = l2[i].n
        BY DEF Arrived
    <2>2. CASE i \in DOMAIN l
        BY <1>1, <1>5, <2>1, <2>2 DEF Arrived
    <2>3. CASE i \notin DOMAIN l
        BY <1>4, <2>1, <2>3
    <2>4. QED
        BY <2>2, <2>3
<1>8. ASSUME NEW n \in Arrived(l) PROVE n \in Arrived(l2)
    <2>1. PICK i \in DOMAIN l : ThisTurn(l, i) /\ n = l[i].n
        BY DEF Arrived
    <2>2. i \in DOMAIN l2 /\ ThisTurn(l2, i) /\ n = l2[i].n
        BY <1>1, <1>2, <1>5, <2>1
    <2>3. QED
        BY <2>2 DEF Arrived
<1>9. ASSUME NEW k \in DOMAIN t PROVE t[k].n \in Arrived(l2)
    <2>1. a + k \in DOMAIN l2 /\ ThisTurn(l2, a + k) /\ t[k].n = l2[a + k].n
        BY <1>1, <1>3, <1>6
    <2>2. QED
        BY <2>1 DEF Arrived
<1>10. QED
    BY <1>7, <1>8, <1>9

\* Complete work: of nodes, with the arrivals they make.
Whole(ws) == \A i \in DOMAIN ws : ws[i].node \in Nodes /\ ws[i].arr = ArrivesAt(ws[i].node)
\* Applied work arrives, and a barrier it fills has not been seen full.
Still(e, j, s, ts, ws, r) ==
    /\ Arrived(r.log) = Arrived(s.log) \cup Writers(ws)
    /\ r.seen[e.child][j] <= r.ver[j]
    /\ e.child \notin Arrived(r.log) /\ ~Names(ts, e.child) =>
          Waits(e, j, r) /\ (e.parents \subseteq Arrived(s.log) => HasTask(ts))
LEMMA FireApplied ==
    ASSUME graph \in Graphs, NEW j \in JoinIdx, NEW s \in States, NEW ws \in Seq(Batches), Whole(ws),
           NEW r, Applied(s, ws, r), NEW ts, FireJ(Joins[j], j, s, ts)
    PROVE Still(Joins[j], j, s, ts, ws, r)
<1> DEFINE e == Joins[j]
           c == e.child
<1>1. /\ c \in Nodes /\ e.parents \subseteq Nodes /\ j \in Channels /\ END \notin Nodes
    BY JoinShape, Shape DEF GraphShape
<1>2. /\ r \in States
      /\ r.bar[j] = s.bar[j] \cup Arrivals(ws, j)
      /\ r.bar[j] = s.bar[j] => r.ver[j] = s.ver[j]
      /\ r.bar[j] # s.bar[j] => s.ver[j] < r.ver[j]
      /\ r.seen[c] = IF c \in Writers(ws) THEN s.ver ELSE s.seen[c]
    BY <1>1 DEF Applied
<1>3. s.ver[j] \in Nat /\ r.ver[j] \in Nat /\ s.seen[c][j] \in Nat
    BY <1>1, <1>2 DEF States
<1>4. Arrived(r.log) = Arrived(s.log) \cup Writers(ws)
    <2>1. Joined(r.log, s.log, TokensOf(ws)) /\ DOMAIN TokensOf(ws) = DOMAIN ws
          /\ \A k \in DOMAIN ws : TokensOf(ws)[k].n = ws[k].node
        BY AppliedJoined, TokenNodes
    <2>2. \A k \in DOMAIN TokensOf(ws) : TokensOf(ws)[k].n # END
        BY <1>1, <2>1 DEF Whole
    <2>3. {TokensOf(ws)[k].n : k \in DOMAIN TokensOf(ws)} = Writers(ws)
        BY <2>1 DEF Writers
    <2> HIDE DEF TokensOf
    <2>4. QED
        BY <2>1, <2>2, <2>3, ArrivedJoined
<1>5. s.seen[c][j] <= s.ver[j]
    BY DEF FireJ
<1>6. r.seen[c][j] <= r.ver[j]
    BY <1>2, <1>3, <1>5
<1>7. e.parents \cap Writers(ws) \subseteq Arrivals(ws, j)
    BY DEF Whole, Writers, Arrivals, ArrivesAt
<1> HIDE DEF c, e
<1>8. ASSUME c \notin Arrived(r.log), ~Names(ts, c)
      PROVE Waits(e, j, r) /\ (e.parents \subseteq Arrived(s.log) => HasTask(ts))
    <2>1. c \notin Writers(ws) /\ c \notin Arrived(s.log)
        BY <1>4, <1>8
    <2>2. Waits(e, j, s) /\ (e.parents \subseteq Arrived(s.log) => HasTask(ts))
        BY <1>8, <2>1 DEF FireJ, e, c
    <2>3. e.parents \cap Arrived(r.log) \subseteq r.bar[j]
        BY <1>2, <1>4, <1>7, <2>2 DEF Waits
    <2>4. r.bar[j] = e.parents => r.seen[c][j] < r.ver[j]
        <3>1. r.seen[c][j] = s.seen[c][j]
            BY <1>2, <2>1
        <3>2. CASE r.bar[j] = s.bar[j]
            BY <1>2, <2>2, <3>1, <3>2 DEF Waits, c
        <3>3. CASE r.bar[j] # s.bar[j]
            BY <1>2, <1>3, <1>5, <3>1, <3>3
        <3>4. QED
            BY <3>2, <3>3
    <2>5. QED
        BY <2>2, <2>3, <2>4 DEF Waits, c
<1>9. QED
    BY <1>4, <1>6, <1>8 DEF Still, e, c

\* Input is work of nobody.
LEMMA FireInput ==
    ASSUME graph \in Graphs, turns \in Nat, NEW j \in JoinIdx, NEW s \in States, NEW r, Applied(s, InputBatch, r),
           s.seen[Joins[j].child][j] <= s.ver[j], ~Spent(Joins[j], j, s), NEW ts
    PROVE FireJ(Joins[j], j, r, ts)
<1> DEFINE e == Joins[j]
           c == e.child
<1>1. /\ c \in Nodes /\ e.parents # {} /\ e.parents \subseteq Nodes /\ j \in Channels /\ END \notin Nodes
    BY JoinShape, Shape DEF GraphShape
<1>2. Writers(InputBatch) = {END} /\ Arrivals(InputBatch, j) = {} /\ InputToken.n = END
      /\ InputBatch \in Seq(Batches) /\ TokensOf(InputBatch) = <<InputToken>> /\ InputToken \in Tokens
    BY InputFacts
<1>3. r.bar[j] = s.bar[j] /\ r.ver[j] = s.ver[j] /\ r.seen[c] = s.seen[c]
    <2>1. r.bar[j] = s.bar[j] \cup Arrivals(InputBatch, j) /\ (r.bar[j] = s.bar[j] => r.ver[j] = s.ver[j])
          /\ r.seen[c] = IF c \in Writers(InputBatch) THEN s.ver ELSE s.seen[c]
        BY <1>1 DEF Applied
    <2>2. QED
        BY <1>1, <1>2, <2>1
<1>4. Arrived(r.log) = {}
    <2> DEFINE t == <<InputToken>>
               l == s.log
               u == r.log
    <2>1. Len(t) = 1 /\ t[1] = InputToken
        OBVIOUS
    <2>2. l \in Seq(Tokens) /\ t \in Seq(Tokens) /\ u = l \o t
        BY <1>2 DEF Applied, States
    <2> HIDE DEF Tokens, InputToken, t, l, u
    <2>3. Joined(u, l, t)
        BY <2>2, ConcatFacts
    <2>4. /\ Len(l) \in Nat /\ DOMAIN u = 1 .. Len(l) + 1 /\ u[Len(l) + 1] = InputToken
        BY <2>1, <2>3 DEF Joined
    <2> DEFINE m == Len(l) + 1
    <2>5. m \in DOMAIN u /\ u[m].n = END /\ \A i \in DOMAIN u : m >= i
        BY <1>2, <2>4
    <2> HIDE DEF m
    <2>6. \A i \in DOMAIN u : ~ThisTurn(u, i)
        BY <2>5 DEF ThisTurn
    <2>7. Arrived(u) = {}
        BY <2>6 DEF Arrived
    <2>8. QED
        BY <2>7 DEF u
<1>5. s.seen[c][j] \in Nat /\ s.ver[j] \in Nat
    BY <1>1 DEF States
<1>6. s.bar[j] = e.parents => s.seen[c][j] < s.ver[j]
    <2>1. ~(s.bar[j] = e.parents /\ s.seen[c][j] >= s.ver[j])
        BY DEF Spent
    <2> HIDE DEF e, c
    <2>2. QED
        BY <1>5, <2>1
<1>7. ~(e.parents \subseteq Arrived(r.log))
    BY <1>1, <1>4
<1>8. Waits(e, j, r)
    BY <1>3, <1>4, <1>6 DEF Waits
<1>9. r.seen[c][j] <= r.ver[j]
    BY <1>3
<1>10. QED
    BY <1>7, <1>8, <1>9 DEF FireJ

LEMMA FireEmpty ==
    ASSUME graph \in Graphs, NEW j \in JoinIdx
    PROVE EmptyState.seen[Joins[j].child][j] <= EmptyState.ver[j] /\ ~Spent(Joins[j], j, EmptyState)
<1>1. /\ Joins[j].child \in Nodes /\ j \in Channels /\ Joins[j].parents # {}
    BY JoinShape, Shape DEF GraphShape
<1>2. EmptyState.seen[Joins[j].child][j] = 0 /\ EmptyState.ver[j] = 0 /\ EmptyState.bar[j] = {}
    BY <1>1 DEF EmptyState
<1>3. QED
    BY <1>1, <1>2 DEF Spent
-----------------------------------------------------------------------------
(* Step by step.                                                            *)

LEMMA FirePrimed ==
    ASSUME SameGraph,
           \A j \in JoinIdx : \A p \in Saved' : FireJ(Joins[j], j, p[2], p[3]),
           phase' \in {"loop", "tasks"} => \A j \in JoinIdx : FireJ(Joins[j], j, st', tasks'),
           phase' = "flush" /\ result' = "ok" => \A j \in JoinIdx : FireJ(Joins[j], j, st', <<>>),
           \A p \in Saved' : Left(Written', p)
    PROVE FireInv'
BY DEF FireInv, SameGraph, Completion

\* The run ends, or goes on where it is.
LEMMA FireQuiet ==
    ASSUME FireInv, graph' = graph, Saved' \subseteq Saved, Written' \subseteq Written,
           phase' \in {"loop", "tasks"} => UNCHANGED <<phase, st, tasks>>,
           phase' = "flush" => UNCHANGED <<phase, st, result>> \/ result' # "ok"
    PROVE FireInv'
<1>1. SameGraph
    BY GraphFixed
<1>2. \A j \in JoinIdx : \A p \in Saved' : FireJ(Joins[j], j, p[2], p[3])
    BY DEF FireInv
<1>3. phase' \in {"loop", "tasks"} => \A j \in JoinIdx : FireJ(Joins[j], j, st', tasks')
    BY DEF FireInv
<1>4. phase' = "flush" /\ result' = "ok" => \A j \in JoinIdx : FireJ(Joins[j], j, st', <<>>)
    BY DEF FireInv, Completion
<1>5. \A p \in Saved' : Left(Written', p)
    <2>1. \A p \in Saved' : Left(Written, p)
        BY DEF FireInv
    <2>2. QED
        BY <2>1 DEF Left
<1>6. QED
    BY <1>1, <1>2, <1>3, <1>4, <1>5, FirePrimed

\* A checkpoint is saved with its plan and its pending writes.
LEMMA FireSaved ==
    ASSUME Base, FireInv, NEW s, NEW next, NEW ws, CheckpointSaved(s, next, ws), st' = s,
           \A j \in JoinIdx : FireJ(Joins[j], j, s, next),
           DOMAIN next # {} => \E i \in DOMAIN next : \A r \in Elements(ws) : ~(r.kind = "done" /\ r.id = next[i].id),
           phase' \in {"loop", "flush"}, phase' = "loop" => \A j \in JoinIdx : FireJ(Joins[j], j, s, tasks'),
           phase' = "flush" => result' # "ok"
    PROVE FireInv'
<1> DEFINE c == lastId + 1
<1>1. /\ Saved' = Saved \cup {<<c, s, next>>} /\ Written' = Written \cup {<<c, r>> : r \in Elements(ws)}
      /\ graph' = graph
    BY DEF CheckpointSaved
<1>2. (\A p \in Saved : p[1] # c) /\ (\A w \in Written : w[1] # c)
    <2>1. lastId \in Nat
        BY Shape DEF Base, Saver, GraphShape
    <2>2. (\A p \in Saved : p[1] \in 1 .. lastId) /\ (\A w \in Written : w[1] \in 1 .. lastId)
        BY DEF Base, Saver
    <2>3. c \notin 1 .. lastId
        BY <2>1
    <2>4. QED
        BY <2>2, <2>3
<1> HIDE DEF c
<1>3. SameGraph
    BY <1>1, GraphFixed
<1>4. \A j \in JoinIdx : \A p \in Saved' : FireJ(Joins[j], j, p[2], p[3])
    BY <1>1 DEF FireInv
<1>5. ASSUME NEW p \in Saved PROVE Left(Written', p)
    <2>1. Left(Written, p) /\ p[1] # c
        BY <1>2 DEF FireInv
    <2>2. ASSUME NEW w \in Written', w[1] = p[1] PROVE w \in Written
        BY <1>1, <2>1, <2>2
    <2>3. QED
        BY <2>1, <2>2 DEF Left
<1>6. Left(Written', <<c, s, next>>)
    <2> SUFFICES ASSUME DOMAIN next # {}
                 PROVE \E i \in DOMAIN next : \A w \in Written' : ~(w[1] = c /\ w[2].kind = "done" /\ w[2].id = next[i].id)
        BY DEF Left
    <2>1. PICK i \in DOMAIN next : \A r \in Elements(ws) : ~(r.kind = "done" /\ r.id = next[i].id)
        OBVIOUS
    <2>2. ASSUME NEW w \in Written', w[1] = c PROVE ~(w[2].kind = "done" /\ w[2].id = next[i].id)
        <3>1. PICK r \in Elements(ws) : w = <<c, r>>
            BY <1>1, <1>2, <2>2
        <3>2. QED
            BY <2>1, <3>1
    <2>3. QED
        BY <2>2
<1>7. \A p \in Saved' : Left(Written', p)
    BY <1>1, <1>5, <1>6
<1>8. QED
    BY <1>3, <1>4, <1>7, FirePrimed

LEMMA FireInvoke ==
    ASSUME Base, FireInv, phase = "idle", NEW s \in States, s.step \in -1 .. lastId - 1, InvokeFrom(s),
           \A j \in JoinIdx : s.seen[Joins[j].child][j] <= s.ver[j], Clean(s)
    PROVE FireInv'
<1> DEFINE s1 == applyWrites(s, InputBatch)
           next == StampNew(NewTasks(Entry), lastId + 1, s1.step + 1)
<1>1. Applied(s, InputBatch, s1) /\ CheckpointSaved(s1, next, <<>>)
    BY InputSaved
<1>2. phase' = "loop" /\ st' = s1
    BY DEF InvokeFrom, Begin, InputBatch
<1>3. graph \in Graphs /\ turns \in Nat
    BY DEF Base, Saver, Run
<1> HIDE DEF s1, next
<1>4. \A ts : \A j \in JoinIdx : FireJ(Joins[j], j, s1, ts)
    BY <1>1, <1>3, FireInput DEF Clean
<1>5. Elements(<<>>) = {}
    BY DEF Elements
<1>6. QED
    BY <1>1, <1>2, <1>4, <1>5, FireSaved

LEMMA FireResume ==
    ASSUME Base, FireInv, NEW c \in DOMAIN store, NEW a \in SUBSET AskIds(c), Resume(c, a)
    PROVE FireInv'
<1> DEFINE s == store[c].st
           next == store[c].next
           ws == ReplayWrites(c)
           ts == RestoredTasks(c) \o ReplaySends(c)
           p == <<c, s, next>>
<1>1. Saved' = Saved /\ Written' = Written
    BY BaseResume
<1>2. /\ phase' = "loop" /\ st' = (IF ws = <<>> THEN s ELSE applyWrites(s, ws)) /\ tasks' = ts /\ graph' = graph
    BY DEF Resume, Begin, saverVars
<1>3. /\ s \in States /\ ws \in Seq(Batches) /\ graph \in Graphs /\ p \in Saved /\ Saver
      /\ Elements(ws) = {ReplayOf(c)[i] : i \in CompletedIdx(c)}
    BY ReadFacts, ReplayFacts DEF Base, Saver
<1>4. /\ \A i \in OpenIdx(c) : Names(ts, next[i].node)
      /\ \A n : Names(next, n) => Names(ts, n) \/ \E k \in DOMAIN TokensOf(ws) : TokensOf(ws)[k].n = n
    <2>1. /\ \A i \in OpenIdx(c) : Heads(ts, next[i])
          /\ \A i \in DOMAIN next : \/ Heads(ts, next[i])
                                   \/ \E k \in DOMAIN TokensOf(ws) : TokensOf(ws)[k].n = next[i].node
        BY ReplayedNames
    <2> HIDE DEF next, ws, ts
    <2>2. QED
        BY <2>1 DEF Heads, Names
<1>5. /\ DOMAIN TokensOf(ws) = DOMAIN ws
      /\ \A k \in DOMAIN ws : TokensOf(ws)[k].n = ws[k].node
    BY <1>3, TokenNodes
<1>6. \A i \in PlanIdx(c) : i \in DOMAIN next /\ next[i].node \in Nodes /\ END \notin Nodes
    BY <1>3, PlanFacts, Shape DEF PlanIdx, GraphShape
<1>7. Whole(ws)
    <2>1. ASSUME NEW i \in CompletedIdx(c) PROVE ReplayOf(c)[i].node \in Nodes /\ ReplayOf(c)[i].arr = ArrivesAt(ReplayOf(c)[i].node)
        <3>1. i \in PlanIdx(c) /\ Completed(c, i)
            BY <2>1 DEF CompletedIdx
        <3>2. DoneWrite(c, i).arr = ArrivesAt(next[i].node)
            BY <1>3, <3>1, DoneFacts
        <3>3. ReplayOf(c)[i].node = next[i].node /\ ReplayOf(c)[i].arr = DoneWrite(c, i).arr
            BY <3>1 DEF ReplayOf, Write
        <3>4. QED
            BY <1>6, <3>1, <3>2, <3>3
    <2>2. QED
        BY <1>3, <2>1 DEF Whole, Elements
<1>8. HasTask(next) \/ DOMAIN next # {} => HasTask(ts)
    <2> SUFFICES ASSUME DOMAIN next # {} PROVE HasTask(ts)
        BY DEF HasTask
    <2>1. PICK i \in DOMAIN next : \A w \in Written : ~(w[1] = c /\ w[2].kind = "done" /\ w[2].id = next[i].id)
        <3>1. Left(Written, p)
            BY <1>3 DEF FireInv
        <3>2. QED
            BY <3>1 DEF Left
    <2>2. ~Completed(c, i)
        <3> SUFFICES ASSUME NEW r \in store[c].w, r.id = next[i].id, r.kind = "done" PROVE FALSE
            BY DEF Completed, TaskWrites
        <3>1. <<c, r>> \in Written
            BY <1>3, ReadFacts
        <3>2. QED
            BY <2>1, <3>1
    <2>3. i \in OpenIdx(c) /\ i \in PlanIdx(c)
        BY <2>2 DEF OpenIdx, PlanIdx
    <2>4. QED
        BY <1>4, <1>6, <2>3 DEF HasTask, Names
<1>9. DOMAIN next = {} => Writers(ws) = {}
    BY <1>3, <1>6 DEF Writers, CompletedIdx, PlanIdx, Elements
<1> HIDE DEF s, next, ws, ts
<1>10. ASSUME NEW j \in JoinIdx PROVE Still(Joins[j], j, s, next, ws, st')
    <2>1. FireJ(Joins[j], j, s, next)
        BY <1>3 DEF FireInv
    <2>2. CASE ws = <<>>
        <3>1. st' = s /\ Writers(ws) = {}
            BY <1>2, <2>2 DEF Writers
        <3>2. QED
            BY <2>1, <3>1 DEF Still, FireJ
    <2>3. CASE ws # <<>>
        <3>1. Applied(s, ws, st')
            BY <1>2, <1>3, <2>3, ApplyFacts
        <3>2. QED
            BY <1>3, <1>7, <2>1, <3>1, FireApplied
    <2>4. QED
        BY <2>2, <2>3
<1>11. ASSUME NEW j \in JoinIdx PROVE FireJ(Joins[j], j, st', ts)
    <2> DEFINE e == Joins[j]
    <2>1. Still(e, j, s, next, ws, st')
        BY <1>10
    <2> HIDE DEF e
    <2>2. ASSUME e.child \notin Arrived(st'.log), ~Names(ts, e.child)
          PROVE Waits(e, j, st') /\ (e.parents \subseteq Arrived(st'.log) => HasTask(ts))
        <3>1. ~Names(next, e.child)
            BY <1>4, <1>5, <2>1, <2>2 DEF Still, Writers
        <3>2. Waits(e, j, st') /\ (e.parents \subseteq Arrived(s.log) => HasTask(next))
            BY <2>1, <2>2, <3>1 DEF Still
        <3>3. e.parents \subseteq Arrived(st'.log) => HasTask(ts)
            BY <1>8, <1>9, <2>1, <3>2 DEF Still
        <3>4. QED
            BY <3>2, <3>3
    <2>3. QED
        BY <2>1, <2>2 DEF FireJ, Still, e
<1>12. SameGraph
    BY <1>2, GraphFixed
<1>13. QED
    BY <1>1, <1>2, <1>11, <1>12, FirePrimed DEF FireInv

LEMMA FireStarts ==
    ASSUME Base, FireInv, CleanTurn, Starts PROVE FireInv'
<1>1. ASSUME NEW c \in Loadable, InvokeNewTurn(c) PROVE FireInv'
    <2>1. c \in DOMAIN store /\ Saver
        BY LoadableStored DEF Base
    <2>2. /\ store[c].st \in States /\ store[c].st.step \in -1 .. c - 2 /\ c \in 1 .. lastId
          /\ <<c, store[c].st, store[c].next>> \in Saved
        BY <2>1, ReadFacts
    <2>3. lastId \in Nat
        BY Shape DEF Base, Saver, GraphShape
    <2>4. store[c].st.step \in -1 .. lastId - 1
        BY <2>2, <2>3
    <2>5. Clean(store[c].st)
        BY <1>1 DEF CleanTurn
    <2>6. \A j \in JoinIdx : store[c].st.seen[Joins[j].child][j] <= store[c].st.ver[j]
        BY <2>2 DEF FireInv, FireJ
    <2>7. QED
        BY <1>1, <2>2, <2>4, <2>5, <2>6, FireInvoke DEF InvokeNewTurn
<1>2. ASSUME InvokeFresh PROVE FireInv'
    <2>1. graph \in Graphs /\ lastId \in Nat
        BY Shape DEF Base, Saver, GraphShape
    <2>2. EmptyState \in States /\ EmptyState.step = -1
        BY <2>1, EmptyStateType DEF EmptyState
    <2>3. EmptyState.step \in -1 .. lastId - 1
        BY <2>1, <2>2
    <2>4. Clean(EmptyState) /\ \A j \in JoinIdx : EmptyState.seen[Joins[j].child][j] <= EmptyState.ver[j]
        BY <2>1, FireEmpty DEF Clean
    <2>5. QED
        BY <1>2, <2>2, <2>3, <2>4, FireInvoke DEF InvokeFresh
<1>3. ASSUME NEW c \in Loadable, NEW a \in SUBSET AskIds(c), Resume(c, a) PROVE FireInv'
    BY <1>3, LoadableStored, FireResume DEF Base
<1>4. QED
    BY <1>1, <1>2, <1>3 DEF Starts

\* A plan of the tasks at hand, saved with no completed work among them.
LEMMA FireUndone ==
    ASSUME Base, FireInv, phase \in {"loop", "tasks"}, NEW next, NEW ws, CheckpointSaved(st, next, ws), st' = st,
           Covers(next, tasks), \A r \in Elements(ws) : r.kind # "done",
           phase' = "flush", result' # "ok"
    PROVE FireInv'
<1>1. \A j \in JoinIdx : FireJ(Joins[j], j, st, next)
    <2> SUFFICES ASSUME NEW j \in JoinIdx PROVE FireJ(Joins[j], j, st, next)
        OBVIOUS
    <2>1. FireJ(Joins[j], j, st, tasks) /\ Joins[j].child # END
        BY JoinShape DEF FireInv, Base, Saver
    <2>2. QED
        BY <2>1, FireCovered
<1>2. DOMAIN next # {} => \E i \in DOMAIN next : \A r \in Elements(ws) : ~(r.kind = "done" /\ r.id = next[i].id)
    OBVIOUS
<1>3. QED
    BY <1>1, <1>2, FireSaved

LEMMA FirePauseBefore ==
    ASSUME Base, FireInv, PauseBefore PROVE FireInv'
<1> DEFINE next == StampDispatchIDs(tasks, cur, st.step + 1)
<1>1. PICK n \in Nodes : CheckpointSaved(st, next, <<Reserved(BoundaryId(n), "before", <<>>)>>)
    BY PauseBeforeFacts
<1>2. phase = "loop" /\ phase' = "flush" /\ st' = st /\ result' = "interrupt"
    BY DEF PauseBefore, AtHead, Stop
<1>3. graph \in Graphs /\ tasks \in Seq(TaskRecs)
    BY <1>2, CurFacts DEF Base
<1>4. Covers(next, tasks)
    BY <1>3, StampedCovers
<1>5. \A r \in Elements(<<Reserved(BoundaryId(n), "before", <<>>)>>) : r.kind # "done"
    BY DEF Elements, Reserved, Pending
<1> HIDE DEF next
<1>6. QED
    BY <1>1, <1>2, <1>4, <1>5, FireUndone

LEMMA FireDispatch ==
    ASSUME Base, FireInv, Dispatch PROVE FireInv'
<1>1. phase = "loop" /\ phase' = "tasks" /\ st' = st /\ tasks' = Active(tasks) /\ graph' = graph
    BY DEF Dispatch, AtHead, PastBreakpoints, saverVars
<1>2. Saved' = Saved /\ Written' = Written
    BY BaseDispatch
<1>3. graph \in Graphs /\ tasks \in Seq(TaskRecs)
    BY <1>1, CurFacts DEF Base
<1>4. ASSUME NEW j \in JoinIdx PROVE FireJ(Joins[j], j, st', tasks')
    <2>1. FireJ(Joins[j], j, st, tasks) /\ Joins[j].child # END
        BY <1>1, <1>3, JoinShape DEF FireInv
    <2>2. Covers(Active(tasks), tasks)
        BY <1>3, StampedCovers
    <2>3. QED
        BY <1>1, <2>1, <2>2, FireCovered
<1>5. SameGraph
    BY <1>1, GraphFixed
<1>6. QED
    BY <1>1, <1>2, <1>4, <1>5, FirePrimed DEF FireInv

LEMMA FireTask ==
    ASSUME Base, FireInv, TaskStep PROVE FireInv'
<1>1. PICK i \in DOMAIN outs : \E out \in Outs : Progress(i, out)
    BY ProgressFacts
<1>2. PICK out \in Outs : Progress(i, out)
    BY <1>1
<1>3. phase = "tasks" /\ UNCHANGED <<graph, phase, st, tasks>>
    BY <1>2 DEF Progress
<1>4. Saved' = Saved /\ SameGraph /\ \A w \in Written' : w \in Written \/ w[2].kind # "done"
    <2>1. \A id : Reserved(id, "err", <<>>).kind # "done"
        BY NotDone
    <2> HIDE DEF Reserved
    <2>2. QED
        BY <1>2, <2>1, ProgressWrites
<1>5. \A p \in Saved' : Left(Written', p)
    <2>1. \A p \in Saved' : Left(Written, p)
        BY <1>4 DEF FireInv
    <2>2. QED
        BY <1>4, <2>1 DEF Left
<1>6. QED
    BY <1>3, <1>4, <1>5, FirePrimed DEF FireInv

LEMMA FireAbort ==
    ASSUME Base, FireInv, Abort PROVE FireInv'
<1>1. phase = "tasks" /\ phase' = "flush" /\ st' = st /\ result' = "error"
    BY AbortEffect DEF Abort, Stop
<1>2. CASE UNCHANGED <<graph, store, lastId, io, cur>>
    <2>1. Saved' = Saved /\ Written' = Written
        BY <1>2 DEF Saved, Written, PutsOf, WritesOf, StoredPuts, StoredWrites, NewPuts, NewWrites
    <2>2. QED
        BY <1>1, <1>2, <2>1, FireQuiet
<1>3. ASSUME NEW next, NEW ws, AbortSaves(next, ws) PROVE FireInv'
    <2>1. CheckpointSaved(st, next, ws) /\ Covers(next, tasks)
        BY <1>3, DispatchedCovers DEF AbortSaves
    <2>2. \A r \in Elements(ws) : r.kind # "done"
        BY <1>3 DEF AbortSaves, Reserved, Pending
    <2>3. QED
        BY <1>1, <2>1, <2>2, FireUndone
<1>4. QED
    BY <1>2, <1>3, AbortEffect

\* The task that asked is the one left.
LEMMA FirePauseInNode ==
    ASSUME Base, FireInv, NoTwins, PauseInNode PROVE FireInv'
<1>1. phase = "tasks" /\ phase' = "flush" /\ st' = st /\ result' = "interrupt" /\ Having("ask") # {}
    BY PauseEffect DEF PauseInNode, Stop
<1>2. PICK next, ws : PauseSaves(next, ws)
    BY PauseEffect
<1>3. CheckpointSaved(st, next, ws) /\ Covers(next, tasks) /\ Dispatched(next) /\ Untwinned(next)
    BY <1>2, DispatchedCovers, DispatchedUntwinned DEF PauseSaves
<1>4. PICK a \in DOMAIN outs : outs[a].s = "ask"
    BY <1>1 DEF Having
<1>5. /\ a \in DOMAIN next
      /\ \A i \in DOMAIN outs : /\ i \in DOMAIN next /\ next[i].node \in Nodes
                                /\ next[i].id.node = next[i].node /\ next[i].id.arg = next[i].arg
    <2>1. /\ DOMAIN next = DOMAIN outs
          /\ \A i \in DOMAIN outs : /\ next[i].id.node = tasks[i].node /\ next[i].id.arg = tasks[i].arg
                                    /\ next[i].node = tasks[i].node /\ next[i].arg = tasks[i].arg
        BY <1>3 DEF Dispatched
    <2>2. \A i \in DOMAIN outs : tasks[i].node \in Nodes
        BY <1>1, OutFacts
    <2>3. QED
        BY <2>1, <2>2
<1>6. ASSUME NEW r \in Elements(ws), r.kind = "done", r.id = next[a].id PROVE FALSE
    <2>1. PICK i \in DOMAIN outs : \/ r = Reserved(next[i].id, "err", <<>>)
                                   \/ r = Reserved(next[i].id, "ask", outs[i].pre)
                                   \/ r = CompletedWrites(i, next[i].id) /\ outs[i].s = "done"
        BY <1>2 DEF PauseSaves, Paused
    <2>2. r = CompletedWrites(i, next[i].id) /\ outs[i].s = "done"
        BY <1>6, <2>1 DEF Reserved, Pending
    <2>3. r.id = next[i].id
        BY <2>2 DEF CompletedWrites, Pending
    <2>4. next[i].node = next[a].node /\ next[i].arg = next[a].arg /\ next[i].node # END
        BY <1>4, <1>5, <1>6, <2>3, Shape DEF Base, Saver, GraphShape
    <2>5. i = a
        BY <1>3, <1>5, <2>4 DEF Untwinned
    <2>6. QED
        BY <1>4, <2>2, <2>5
<1>7. ASSUME NEW j \in JoinIdx PROVE FireJ(Joins[j], j, st, next)
    <2>1. FireJ(Joins[j], j, st, tasks) /\ Joins[j].child # END
        BY <1>1, JoinShape DEF FireInv, Base, Saver
    <2>2. QED
        BY <1>3, <2>1, FireCovered
<1>8. QED
    BY <1>1, <1>3, <1>5, <1>6, <1>7, FireSaved

\* A commit triggers the child of a barrier it fills.
LEMMA CommitFires ==
    ASSUME Base, FireInv, phase = "tasks", AllDone, NEW j \in JoinIdx, NEW a, NEW s, Commits(a, s)
    PROVE FireJ(Joins[j], j, s, NextTasks)
<1> DEFINE e == Joins[j]
           c == e.child
<1>1. /\ a \in States /\ Applied(st, CommitBatches, a)
      /\ s \in States /\ s.log = a.log /\ s.ver = a.ver
      /\ s.bar[j] = IF c \in Ran /\ a.seen[c][j] >= a.ver[j] /\ a.bar[j] = e.parents THEN {} ELSE a.bar[j]
      /\ s.seen[c][j] = IF j \in Triggered(Committed) THEN a.ver[j] ELSE a.seen[c][j]
      /\ j \in Triggered(Committed) <=> s.bar[j] = e.parents /\ a.seen[c][j] < a.ver[j]
    BY JoinShape DEF Commits, Base, Saver
<1>2. CommitBatches \in Seq(Batches) /\ st \in States /\ graph \in Graphs
    BY BatchFacts DEF Base, Run, Saver
<1>3. /\ DOMAIN CommitBatches = DOMAIN tasks
      /\ \A i \in DOMAIN tasks : /\ CommitBatches[i].node = tasks[i].node
                                 /\ CommitBatches[i].arr = ArrivesAt(tasks[i].node) /\ tasks[i].node \in Nodes
    BY DEF CommitBatches, Write, Base, Superstep
<1>4. Writers(CommitBatches) = Ran /\ Whole(CommitBatches)
    BY <1>3 DEF Writers, Ran, Whole
<1>5. j \in Triggered(Committed) => Names(NextTasks, c)
    <2> SUFFICES ASSUME j \in Triggered(Committed) PROVE Names(NextTasks, c)
        OBVIOUS
    <2>1. /\ Elements(TriggeredTasks(Committed)) = {NewTask(To(Joins[h].child)) : h \in Triggered(Committed)}
          /\ RoutedTasks \in Seq(TaskRecs) /\ TriggeredTasks(Committed) \in Seq(TaskRecs)
          /\ NextTasks = RoutedTasks \o TriggeredTasks(Committed)
        BY <1>2, RoutedFacts, TriggeredFacts, NextFacts
    <2>2. NewTask(To(c)) \in Elements(TriggeredTasks(Committed)) /\ NewTask(To(c)).node = c
        BY <2>1 DEF NewTask, To
    <2> HIDE DEF NewTask, RoutedTasks, TriggeredTasks, NextTasks, Committed, TaskRecs, c
    <2>3. NewTask(To(c)) \in Elements(NextTasks)
        BY <2>1, <2>2, ConcatElements
    <2>4. QED
        BY <2>2, <2>3 DEF Names, Elements
<1>6. a.ver[j] \in Nat /\ a.seen[c][j] \in Nat /\ a.bar[j] \subseteq e.parents
    BY <1>1, <1>2, JoinShape DEF States
<1>7. Still(e, j, st, tasks, CommitBatches, a)
    BY <1>1, <1>2, <1>4, FireApplied DEF FireInv
<1> HIDE DEF CommitBatches, Ran, Triggered, Committed, NextTasks, e
<1>8. s.seen[c][j] <= s.ver[j]
    BY <1>1, <1>6, <1>7 DEF Still
<1>9. ASSUME c \notin Arrived(s.log), ~Names(NextTasks, c)
      PROVE Waits(e, j, s) /\ ~(e.parents \subseteq Arrived(s.log))
    <2>1. c \notin Arrived(a.log) /\ c \notin Ran
        BY <1>1, <1>4, <1>7, <1>9 DEF Still
    <2>2. ~Names(tasks, c)
        BY <2>1 DEF Ran, Names
    <2>3. Waits(e, j, a)
        BY <1>7, <2>1, <2>2 DEF Still
    <2>4. s.bar[j] = a.bar[j]
        BY <1>1, <2>1
    <2>5. s.bar[j] # e.parents
        BY <1>1, <1>5, <1>9, <2>3, <2>4 DEF Waits
    <2>6. e.parents \cap Arrived(s.log) \subseteq s.bar[j]
        BY <1>1, <2>3, <2>4 DEF Waits
    <2>7. QED
        BY <1>6, <2>4, <2>5, <2>6 DEF Waits
<1>10. QED
    BY <1>8, <1>9 DEF FireJ, e

LEMMA FireCommit ==
    ASSUME Base, FireInv, NothingRepeats, Commit PROVE FireInv'
<1>1. PICK s, next, ws : CommitSaves(s, next, ws)
    BY CommitEffect
<1>2. /\ phase = "tasks" /\ AllDone /\ Commits(applyWrites(st, CommitBatches), s) /\ CheckpointSaved(s, next, ws)
      /\ st' = s /\ tasks' = NextTasks /\ NextTasks \in Seq(TaskRecs) /\ phase' \in {"loop", "flush"}
      /\ \/ next = StampDispatchIDs(NextTasks, cur, s.step + 1)
         \/ next = StampNew(NextTasks, lastId + 1, s.step + 1)
    BY <1>1 DEF CommitSaves
<1>3. AllOut /\ (phase' = "flush" => result' # "ok") /\ graph \in Graphs
    BY DEF Commit, Base, Saver
<1>4. \A j \in JoinIdx : FireJ(Joins[j], j, s, NextTasks)
    BY <1>2, CommitFires
<1>5. ASSUME NEW j \in JoinIdx PROVE FireJ(Joins[j], j, s, next)
    <2>1. FireJ(Joins[j], j, s, NextTasks) /\ Joins[j].child # END
        BY <1>3, <1>4, JoinShape
    <2> HIDE DEF NextTasks
    <2>2. Covers(next, NextTasks)
        BY <1>2, <1>3, StampedCovers
    <2>3. QED
        BY <2>1, <2>2, FireCovered
<1>6. ASSUME NEW r \in Elements(ws), r.kind = "done" PROVE ~ \E k \in DOMAIN next : next[k].id = r.id
    <2>1. PICK i \in DOMAIN outs : r = CompletedWrites(i, TaskID(lastId + 1, s.step + 1, tasks[i]))
        BY <1>1, <1>6 DEF CommitSaves
    <2>2. r.id = TaskID(lastId + 1, s.step + 1, tasks[i])
        BY <2>1 DEF CompletedWrites, Pending
    <2> HIDE DEF TaskID
    <2>3. QED
        BY <1>1, <1>3, <2>2, CommitNames
<1>7. DOMAIN next # {} => \E i \in DOMAIN next : \A r \in Elements(ws) : ~(r.kind = "done" /\ r.id = next[i].id)
    BY <1>6
<1> HIDE DEF NextTasks
<1>8. QED
    BY <1>2, <1>3, <1>4, <1>5, <1>7, FireSaved

\* A run completes with no task left.
LEMMA FireStopsHere ==
    ASSUME Base, FireInv, StopsHere PROVE FireInv'
<1>1. Saved' = Saved /\ Written' = Written /\ graph' = graph
    BY BaseStopsHere DEF StopsHere, Finish, Drained, RecursionError, Cancel, saverVars
<1>2. CASE Finish
    <2>1. phase = "loop" /\ phase' = "flush" /\ st' = st /\ result' = "ok" /\ Active(tasks) = <<>>
        BY <1>2 DEF Finish, AtHead, Stop
    <2>2. graph \in Graphs /\ tasks \in Seq(TaskRecs)
        BY <2>1, CurFacts DEF Base
    <2>3. ASSUME NEW j \in JoinIdx PROVE FireJ(Joins[j], j, st', <<>>)
        <3>1. Covers(<<>>, tasks)
            BY <2>1, <2>2, StampedCovers
        <3>2. FireJ(Joins[j], j, st, tasks) /\ Joins[j].child # END
            BY <2>1, <2>2, JoinShape DEF FireInv
        <3>3. QED
            BY <2>1, <3>1, <3>2, FireCovered
    <2>4. SameGraph
        BY <1>1, GraphFixed
    <2>5. QED
        BY <1>1, <2>1, <2>3, <2>4, FirePrimed DEF FireInv
<1>3. CASE ~Finish
    <2>1. phase' = "flush" /\ result' # "ok"
        BY <1>3 DEF StopsHere, Drained, RecursionError, Cancel, Stop
    <2>2. QED
        BY <1>1, <2>1, FireQuiet
<1>4. QED
    BY <1>2, <1>3

LEMMA FireStep ==
    ASSUME Base, FireInv, NoTwins, NothingRepeats, [Next]_vars, [CleanTurn]_vars PROVE FireInv'
<1>1. CASE SaverStep
    <2>1. UNCHANGED <<graph, phase, st, tasks, result>>
        BY <1>1 DEF SaverStep
    <2>2. Saved' \subseteq Saved /\ Written' \subseteq Written
        BY <1>1, BaseSaver DEF SaverExecutes
    <2>3. QED
        BY <2>1, <2>2, FireQuiet
<1>2. CASE Ends
    <2>1. phase' = "idle" /\ graph' = graph
        BY <1>2 DEF Ends, Flush, Crash, Reset, saverVars
    <2>2. QED
        BY <1>2, <2>1, BaseEnds, FireQuiet
<1>3. CASE Idles
    <2>1. UNCHANGED <<graph, phase, st, tasks, result>>
        BY <1>3 DEF Idles, RequestDrain, vars, saverVars, runVars
    <2>2. QED
        BY <1>3, <2>1, BaseIdles, FireQuiet
<1>4. CASE UNCHANGED vars
    BY <1>3, <1>4 DEF Idles
<1>5. CASE CleanTurn
    BY <1>1, <1>2, <1>3, <1>5, Steps, FireStarts, FireStopsHere, FirePauseBefore, FireDispatch, FireTask, FireAbort,
       FirePauseInNode, FireCommit
<1>6. QED
    BY <1>4, <1>5

LEMMA FireStart ==
    ASSUME Init PROVE FireInv
<1>1. store = <<>> /\ io = <<>> /\ phase = "idle"
    BY DEF Init
<1>2. Saved = {} /\ Written = {}
    BY <1>1 DEF Saved, Written, PutsOf, WritesOf, StoredPuts, StoredWrites, NewPuts, NewWrites
<1>3. QED
    BY <1>1, <1>2 DEF FireInv, Completion

\* A completed turn in which every parent of a join ran has run its child, where
\* identities tell tasks apart and no turn starts over a join that has triggered
\* its child and not run it: pauses, crashes and replays lose no arrival and no
\* trigger.
THEOREM JoinsFire == Spec /\ []NoTwins /\ []NothingRepeats /\ [][CleanTurn]_vars => []JoinFires
<1>1. Base /\ FireInv => JoinFires
    <2> SUFFICES ASSUME Base, FireInv, Completion, NEW j \in JoinIdx,
                        Joins[j].parents \subseteq {st.log[i].n : i \in InTurn(st.log)},
                        Joins[j].child \notin {st.log[i].n : i \in InTurn(st.log)}
                 PROVE FALSE
        BY DEF JoinFires
    <2>1. st.log \in Seq(Tokens)
        BY DEF Base, Run, States
    <2>2. {st.log[i].n : i \in InTurn(st.log)} = Arrived(st.log)
        <3>1. \A i \in InTurn(st.log) : i \in DOMAIN st.log /\ ThisTurn(st.log, i)
            BY <2>1, InTurnFacts
        <3>2. \A i \in DOMAIN st.log : ThisTurn(st.log, i) => i \in InTurn(st.log)
            BY <2>1, InTurnFacts
        <3>3. QED
            BY <3>1, <3>2 DEF Arrived
    <2>3. FireJ(Joins[j], j, st, <<>>)
        BY DEF FireInv
    <2>4. ~Names(<<>>, Joins[j].child) /\ ~HasTask(<<>>)
        BY DEF Names, HasTask
    <2>5. QED
        BY <2>2, <2>3, <2>4 DEF FireJ
<1>2. Init => FireInv
    BY FireStart
<1>3. Base /\ FireInv /\ NoTwins /\ NothingRepeats /\ [Next]_vars /\ [CleanTurn]_vars => FireInv'
    BY FireStep
<1>4. QED
    BY BaseAlways, <1>1, <1>2, <1>3, PTL DEF Spec
=============================================================================
