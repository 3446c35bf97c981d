--------------------------- MODULE SequenceLemmas ---------------------------
(* What FlattenSeq of the community modules returns, for every sequence of  *)
(* sequences: the elements the models select and gather with it.            *)
EXTENDS SequencesExt, WellFoundedInduction, TLAPS

\* A set of numbers with an element has a least one: the induction of the
\* proofs below.
LEMMA LeastNumber ==
    ASSUME NEW S, S \subseteq Nat, S # {}
    PROVE \E n \in S : \A m \in S : n <= m
<1>1. PICK n \in S : \A m \in S : ~(<<m, n>> \in OpToRel(<, Nat))
    BY WFMin, NatLessThanWellFounded
<1>2. \A m \in S : ~(m < n)
    BY <1>1 DEF OpToRel
<1>3. ASSUME NEW m \in S PROVE n <= m
    <2>1. n \in Nat /\ m \in Nat /\ ~(m < n)
        BY <1>1, <1>2
    <2>2. QED
        BY <2>1
<1>4. QED
    BY <1>1, <1>3

\* The extremes of a set of numbers.
LEMMA MinFacts ==
    ASSUME NEW S, S \subseteq Nat, S # {}
    PROVE Min(S) \in S /\ \A x \in S : Min(S) <= x
BY LeastNumber DEF Min

LEMMA MaxFacts ==
    ASSUME NEW S, S \subseteq Nat, S # {}, NEW b \in Nat, \A x \in S : x <= b
    PROVE Max(S) \in S /\ \A x \in S : x <= Max(S)
<1> DEFINE D == {d \in Nat : \E x \in S : d = b - x}
<1>1. D \subseteq Nat /\ D # {}
    <2>1. PICK x \in S : TRUE
        OBVIOUS
    <2>2. b - x \in Nat
        BY <2>1
    <2>3. QED
        BY <2>1, <2>2
<1>2. PICK d \in D : \A e \in D : d <= e
    BY <1>1, LeastNumber
<1>3. PICK x \in S : d = b - x
    BY <1>2
<1>4. ASSUME NEW y \in S PROVE x >= y
    <2>1. b - y \in D
        BY <1>4
    <2>2. b - x <= b - y /\ x \in Nat /\ y \in Nat
        BY <1>2, <1>3, <2>1
    <2>3. QED
        BY <2>2
<1>5. Max(S) \in S /\ \A y \in S : Max(S) >= y
    BY <1>3, <1>4 DEF Max
<1>6. QED
    BY <1>5

\* A sequence of numbers has a bound.
LEMMA Bounded ==
    ASSUME NEW n \in Nat, NEW f, \A i \in 1 .. n : f[i] \in Nat
    PROVE \E b \in Nat : \A i \in 1 .. n : f[i] <= b
<1> DEFINE Has(m) == \E b \in Nat : \A i \in 1 .. m : f[i] <= b
           S == {m \in 0 .. n : ~Has(m)}
<1> SUFFICES ASSUME S # {} PROVE FALSE
    <2>1. S = {} => n \notin S
        OBVIOUS
    <2>2. QED
        BY <2>1
<1>1. PICK m \in S : \A k \in S : m <= k
    <2>1. S \subseteq Nat
        OBVIOUS
    <2>2. QED
        BY <2>1, LeastNumber
<1>2. m # 0
    <2>1. Has(0)
        <3>1. 0 \in Nat /\ \A i \in 1 .. 0 : f[i] <= 0
            OBVIOUS
        <3>2. QED
            BY <3>1
    <2>2. QED
        BY <1>1, <2>1
<1>3. m - 1 \in 0 .. n /\ m - 1 \notin S /\ m \in 1 .. n
    <2> HIDE DEF Has
    <2>1. m \in 0 .. n
        BY <1>1
    <2>2. m \in 1 .. n /\ m - 1 \in 0 .. n /\ ~(m <= m - 1)
        BY <1>2, <2>1
    <2>3. QED
        BY <1>1, <2>2
<1>4. PICK b \in Nat : \A i \in 1 .. m - 1 : f[i] <= b
    BY <1>3
<1>5. PICK c \in Nat : b <= c /\ f[m] <= c
    <2>1. f[m] \in Nat
        BY <1>3
    <2>2. CASE f[m] <= b
        BY <2>2
    <2>3. CASE ~(f[m] <= b)
        BY <2>1, <2>3
    <2>4. QED
        BY <2>2, <2>3
<1>6. ASSUME NEW i \in 1 .. m PROVE f[i] <= c
    <2>1. CASE i = m
        BY <1>5, <2>1
    <2>2. CASE i # m
        <3>1. i \in 1 .. m - 1 /\ i \in 1 .. n
            BY <1>3, <2>2
        <3>2. f[i] <= b /\ f[i] \in Nat
            BY <1>4, <3>1
        <3>3. QED
            BY <1>5, <3>2
    <2>3. QED
        BY <2>1, <2>2
<1>7. Has(m)
    BY <1>6
<1>8. QED
    BY <1>1, <1>7

\* g gathers the first n sequences of s.
Gathers(g, s, n) == g = [i \in 1 .. n |-> IF i = 1 THEN s[i] ELSE g[i - 1] \o s[i]]

\* Such a function exists: FlattenSeq's recursive definition has a meaning.
LEMMA GathersExists ==
    ASSUME NEW s, NEW n \in Nat
    PROVE \E g : Gathers(g, s, n)
<1> SUFFICES ASSUME ~ \E g : Gathers(g, s, n) PROVE FALSE
    OBVIOUS
<1> DEFINE S == {m \in Nat : ~ \E g : Gathers(g, s, m)}
<1>1. PICK m \in S : \A k \in S : m <= k
    BY LeastNumber
<1>2. m # 0
    <2>1. Gathers(<<>>, s, 0)
        BY DEF Gathers
    <2>2. QED
        BY <1>1, <2>1
<1>3. m - 1 \in Nat /\ m - 1 \notin S
    BY <1>1, <1>2
<1>4. PICK g : Gathers(g, s, m - 1)
    BY <1>3
<1> DEFINE h == [i \in 1 .. m |-> IF i = m THEN (IF m = 1 THEN s[m] ELSE g[m - 1] \o s[m]) ELSE g[i]]
<1>5. ASSUME NEW i \in 1 .. m PROVE h[i] = IF i = 1 THEN s[i] ELSE h[i - 1] \o s[i]
    <2>1. CASE i = m
        BY <1>2, <1>5, <2>1
    <2>2. CASE i # m
        <3>1. i \in 1 .. m - 1 /\ h[i] = g[i] /\ (i # 1 => i - 1 \in 1 .. m - 1 /\ h[i - 1] = g[i - 1])
            BY <1>2, <1>5, <2>2
        <3>2. g[i] = IF i = 1 THEN s[i] ELSE g[i - 1] \o s[i]
            BY <1>4, <3>1 DEF Gathers
        <3>3. QED
            BY <3>1, <3>2
    <2>3. QED
        BY <2>1, <2>2
<1>6. Gathers(h, s, m)
    BY <1>5 DEF Gathers
<1>7. QED
    BY <1>1, <1>6

\* The elements of a sequence, and of a sequence of sequences.
Elements(s) == {s[i] : i \in DOMAIN s}
Flat(s, n) == UNION {Elements(s[i]) : i \in 1 .. n}

\* Concatenation adds up the elements.
LEMMA ConcatElements ==
    ASSUME NEW T, NEW s \in Seq(T), NEW t \in Seq(T)
    PROVE /\ s \o t \in Seq(T) /\ Elements(s \o t) = Elements(s) \cup Elements(t)
          /\ s # <<>> => s \o t # <<>> /\ (s \o t)[1] = s[1]
          /\ s = <<>> => s \o t = t
<1> DEFINE u == s \o t
<1>1. /\ u \in Seq(T) /\ Len(u) = Len(s) + Len(t) /\ Len(s) \in Nat /\ Len(t) \in Nat
      /\ \A i \in 1 .. Len(s) : u[i] = s[i]
      /\ \A i \in 1 .. Len(t) : u[Len(s) + i] = t[i]
    OBVIOUS
<1>2. ASSUME NEW x \in Elements(u) PROVE x \in Elements(s) \cup Elements(t)
    <2>1. PICK i \in 1 .. Len(u) : x = u[i]
        BY <1>1 DEF Elements
    <2>2. CASE i \in 1 .. Len(s)
        BY <1>1, <2>1, <2>2 DEF Elements
    <2>3. CASE i \notin 1 .. Len(s)
        <3>1. i - Len(s) \in 1 .. Len(t) /\ i = Len(s) + (i - Len(s))
            BY <1>1, <2>3
        <3>2. QED
            BY <1>1, <2>1, <3>1 DEF Elements
    <2>4. QED
        BY <2>2, <2>3
<1>3. ASSUME NEW x, x \in Elements(s) \/ x \in Elements(t) PROVE x \in Elements(u)
    <2>1. CASE x \in Elements(s)
        <3>1. PICK i \in 1 .. Len(s) : x = s[i]
            BY <2>1 DEF Elements
        <3>2. i \in 1 .. Len(u)
            BY <1>1
        <3>3. QED
            BY <1>1, <3>1, <3>2 DEF Elements
    <2>2. CASE x \in Elements(t)
        <3>1. PICK i \in 1 .. Len(t) : x = t[i]
            BY <2>2 DEF Elements
        <3>2. Len(s) + i \in 1 .. Len(u)
            BY <1>1
        <3>3. u[Len(s) + i] = x
            BY <1>1, <3>1
        <3> HIDE DEF u
        <3>4. Len(s) + i \in DOMAIN u
            BY <1>1, <3>2
        <3>5. QED
            BY <3>3, <3>4 DEF Elements
    <2>3. QED
        BY <2>1, <2>2, <1>3
<1>4. s # <<>> => u # <<>> /\ u[1] = s[1]
    BY <1>1
<1>5. s = <<>> => u = t
    OBVIOUS
<1>6. QED
    BY <1>1, <1>2, <1>3, <1>4, <1>5

\* t gathers the first n sequences of s.
Gathered(t, s, n, T) ==
    /\ t \in Seq(T) /\ Elements(t) = Flat(s, n)
    /\ s[1] # <<>> => t # <<>> /\ t[1] = s[1][1]

\* FlattenSeq returns the elements of the sequences, and nothing else; it starts
\* with the first element of the first one.
LEMMA FlattenFacts ==
    ASSUME NEW T, NEW s \in Seq(Seq(T))
    PROVE /\ FlattenSeq(s) \in Seq(T)
          /\ Elements(FlattenSeq(s)) = Flat(s, Len(s))
          /\ s # <<>> /\ s[1] # <<>> => FlattenSeq(s) # <<>> /\ FlattenSeq(s)[1] = s[1][1]
<1>1. Len(s) \in Nat /\ \A i \in 1 .. Len(s) : s[i] \in Seq(T)
    OBVIOUS
<1>2. CASE Len(s) = 0
    <2>1. FlattenSeq(s) = <<>> /\ s = <<>>
        BY <1>2 DEF FlattenSeq
    <2>2. Elements(<<>>) = {} /\ Flat(s, 0) = {}
        BY DEF Elements, Flat
    <2>3. QED
        BY <1>2, <2>1, <2>2
<1>3. CASE Len(s) # 0
    <2> DEFINE g == CHOOSE g : Gathers(g, s, Len(s))
    <2>1. FlattenSeq(s) = g[Len(s)]
        BY <1>3 DEF FlattenSeq, Gathers
    <2>2. Gathers(g, s, Len(s))
        BY <1>1, GathersExists
    <2> HIDE DEF g
    <2> DEFINE Good(i) == Gathered(g[i], s, i, T)
    <2>3. \A i \in 1 .. Len(s) : g[i] = IF i = 1 THEN s[i] ELSE g[i - 1] \o s[i]
        BY <2>2 DEF Gathers
    <2>4. Good(1)
        <3>1. Flat(s, 1) = Elements(s[1])
            BY DEF Flat
        <3>2. 1 \in 1 .. Len(s) /\ g[1] = s[1]
            BY <1>1, <1>3, <2>3
        <3>3. QED
            BY <1>1, <3>1, <3>2 DEF Gathered
    <2>5. ASSUME NEW i \in 2 .. Len(s), Good(i - 1) PROVE Good(i)
        <3>1. i \in 1 .. Len(s) /\ i # 1
            BY <1>1
        <3>2. s[i] \in Seq(T) /\ g[i] = g[i - 1] \o s[i]
            BY <1>1, <2>3, <3>1
        <3>3. Flat(s, i) = Flat(s, i - 1) \cup Elements(s[i])
            <4>1. 1 .. i = (1 .. i - 1) \cup {i}
                BY <1>1
            <4>2. QED
                BY <4>1 DEF Flat
        <3>4. ASSUME NEW t, Gathered(t, s, i - 1, T) PROVE Gathered(t \o s[i], s, i, T)
            BY <3>2, <3>3, <3>4, ConcatElements DEF Gathered
        <3>5. QED
            BY <2>5, <3>2, <3>4
    <2>6. ASSUME NEW i \in 1 .. Len(s) PROVE Good(i)
        <3> SUFFICES ASSUME ~Good(i) PROVE FALSE
            OBVIOUS
        <3> HIDE DEF Good
        <3> DEFINE S == {j \in 1 .. Len(s) : ~Good(j)}
        <3>1. PICK j \in S : \A k \in S : j <= k
            <4>1. S \subseteq Nat /\ i \in S
                BY <1>1
            <4>2. QED
                BY <4>1, LeastNumber
        <3>2. j # 1 /\ j \in 2 .. Len(s)
            BY <1>1, <2>4, <3>1
        <3>3. j - 1 \in 1 .. Len(s) /\ ~(j <= j - 1)
            BY <1>1, <3>2
        <3>4. Good(j - 1)
            BY <3>1, <3>3
        <3>5. QED
            BY <2>5, <3>1, <3>2, <3>4
    <2>7. Good(Len(s))
        BY <1>1, <1>3, <2>6
    <2>8. QED
        BY <2>1, <2>7 DEF Gathered
<1>4. QED
    BY <1>2, <1>3

\* s holds, one by one, the elements of f at the positions in I.
Selects(s, f, I, n, T) ==
    /\ n \in Nat /\ I \subseteq 1 .. n /\ \A i \in I : f[i] \in T
    /\ s = [i \in 1 .. n |-> IF i \in I THEN <<f[i]>> ELSE <<>>]

\* FlattenSeq as a selection.
LEMMA SelectionFacts ==
    ASSUME NEW T, NEW n, NEW I, NEW f, NEW s, Selects(s, f, I, n, T)
    PROVE /\ FlattenSeq(s) \in Seq(T)
          /\ Elements(FlattenSeq(s)) = {f[i] : i \in I}
          /\ 1 \in I => FlattenSeq(s) # <<>> /\ FlattenSeq(s)[1] = f[1]
<1>1. /\ s \in Seq(Seq(T)) /\ Len(s) = n
      /\ \A i \in 1 .. n : s[i] = IF i \in I THEN <<f[i]>> ELSE <<>>
      /\ n \in Nat /\ I \subseteq 1 .. n
    BY DEF Selects
<1>2. Flat(s, n) = {f[i] : i \in I}
    <2>1. ASSUME NEW i \in 1 .. n PROVE Elements(s[i]) = IF i \in I THEN {f[i]} ELSE {}
        <3>1. Elements(<<f[i]>>) = {f[i]} /\ Elements(<<>>) = {}
            BY DEF Elements
        <3>2. QED
            BY <1>1, <3>1
    <2>2. QED
        BY <1>1, <2>1 DEF Flat
<1>3. 1 \in I => s # <<>> /\ s[1] # <<>> /\ s[1][1] = f[1]
    BY <1>1
<1>4. QED
    BY <1>1, <1>2, <1>3, FlattenFacts

\* Flattening the one-element sequences of a sequence gives it back.
LEMMA FlattenSingles ==
    ASSUME NEW T, NEW f \in Seq(T), NEW s, s = [i \in 1 .. Len(f) |-> <<f[i]>>]
    PROVE FlattenSeq(s) = f
<1> DEFINE n == Len(f)
<1>1. n \in Nat /\ Len(s) = n /\ \A i \in 1 .. n : s[i] = <<f[i]>> /\ f[i] \in T
    OBVIOUS
<1>2. CASE n = 0
    <2>1. s = <<>> /\ f = <<>>
        BY <1>2
    <2>2. QED
        BY <1>1, <1>2, <2>1 DEF FlattenSeq
<1>3. CASE n # 0
    <2> DEFINE g == CHOOSE g : Gathers(g, s, n)
    <2>1. FlattenSeq(s) = g[n]
        BY <1>1, <1>3 DEF FlattenSeq, Gathers
    <2>2. Gathers(g, s, n)
        BY <1>1, GathersExists
    <2> HIDE DEF g
    <2>3. \A i \in 1 .. n : g[i] = IF i = 1 THEN s[i] ELSE g[i - 1] \o s[i]
        BY <2>2 DEF Gathers
    <2> HIDE DEF n
    <2> DEFINE P(i) == [j \in 1 .. i |-> f[j]]
               S == {i \in 1 .. n : g[i] # P(i)}
    <2>4. ASSUME NEW i \in 1 .. n, i # 1, g[i - 1] = P(i - 1) PROVE g[i] = P(i)
        <3>1. P(i - 1) \in Seq(T) /\ Len(P(i - 1)) = i - 1
            BY <1>1, <2>4
        <3>2. P(i - 1) \o <<f[i]>> = P(i)
            BY <1>1, <2>4, <3>1
        <3>3. QED
            BY <1>1, <2>3, <2>4, <3>2
    <2>5. g[1] = P(1)
        <3>1. 1 \in 1 .. n
            BY <1>1, <1>3
        <3>2. s[1] = <<f[1]>>
            BY <1>1, <3>1
        <3>3. g[1] = <<f[1]>>
            BY <2>3, <3>1, <3>2
        <3>4. P(1) = <<f[1]>>
            OBVIOUS
        <3>5. QED
            BY <3>3, <3>4
    <2> HIDE DEF P
    <2>6. S = {}
        <3> SUFFICES ASSUME S # {} PROVE FALSE
            OBVIOUS
        <3>1. PICK i \in S : \A k \in S : i <= k
            <4>1. S \subseteq Nat
                BY <1>1
            <4>2. QED
                BY <4>1, LeastNumber
        <3>2. i \in 1 .. n /\ i # 1
            BY <2>5, <3>1
        <3>3. i - 1 \in 1 .. n /\ ~(i <= i - 1)
            BY <1>1, <3>2
        <3>4. g[i - 1] = P(i - 1)
            BY <3>1, <3>3
        <3>5. QED
            BY <2>4, <3>1, <3>2, <3>4
    <2>7. g[n] = P(n)
        BY <1>1, <1>3, <2>6
    <2>8. P(n) = f
        BY DEF P, n
    <2>9. QED
        BY <2>1, <2>7, <2>8
<1>4. QED
    BY <1>2, <1>3

\* t holds elements of f in the order of their positions, which are those in I.
InOrder(t, f, I) ==
    \E m \in [DOMAIN t -> I] :
        /\ \A k \in DOMAIN t : t[k] = f[m[k]]
        /\ \A j, k \in DOMAIN t : j < k => m[j] < m[k]

\* One element more.
LEMMA InOrderAppend ==
    ASSUME NEW T, NEW t \in Seq(T), NEW f, NEW i \in Nat, NEW I, I \subseteq 1 .. i - 1,
           InOrder(t, f, I), f[i] \in T
    PROVE InOrder(t \o <<f[i]>>, f, I \cup {i})
<1>1. PICK m \in [DOMAIN t -> I] : /\ \A k \in DOMAIN t : t[k] = f[m[k]]
                                   /\ \A j, k \in DOMAIN t : j < k => m[j] < m[k]
    BY DEF InOrder
<1> DEFINE u == t \o <<f[i]>>
           n == Len(t) + 1
           h == [k \in 1 .. n |-> IF k = n THEN i ELSE m[k]]
<1>2. /\ Len(t) \in Nat /\ DOMAIN t = 1 .. Len(t) /\ DOMAIN u = 1 .. n
      /\ u[n] = f[i] /\ \A k \in 1 .. Len(t) : u[k] = t[k]
    OBVIOUS
<1>3. \A k \in 1 .. n : k # n => k \in DOMAIN t
    BY <1>2
<1>4. \A k \in DOMAIN t : m[k] \in I /\ m[k] \in 1 .. i - 1
    BY <1>1
<1> HIDE DEF u
<1>5. h \in [DOMAIN u -> I \cup {i}]
    BY <1>2, <1>3, <1>4
<1>6. \A k \in DOMAIN u : u[k] = f[h[k]]
    BY <1>1, <1>2, <1>3
<1>7. \A j, k \in DOMAIN u : j < k => h[j] < h[k]
    <2> TAKE j, k \in DOMAIN u
    <2> HAVE j < k
    <2>1. j # n /\ j \in DOMAIN t
        BY <1>2, <1>3
    <2>2. CASE k = n
        BY <1>2, <1>4, <2>1, <2>2
    <2>3. CASE k # n
        <3>1. k \in DOMAIN t /\ m[j] < m[k]
            BY <1>1, <1>2, <1>3, <2>1, <2>3
        <3>2. QED
            BY <1>2, <2>1, <2>3, <3>1
    <2>4. QED
        BY <2>2, <2>3
<1> HIDE DEF h
<1>8. QED
    BY <1>5, <1>6, <1>7 DEF InOrder, u

\* A selection keeps the order of the elements.
LEMMA SelectionInOrder ==
    ASSUME NEW T, NEW n, NEW I, NEW f, NEW s, Selects(s, f, I, n, T)
    PROVE InOrder(FlattenSeq(s), f, I)
<1>1. /\ s \in Seq(Seq(T)) /\ Len(s) = n
      /\ \A i \in 1 .. n : s[i] = IF i \in I THEN <<f[i]>> ELSE <<>>
      /\ n \in Nat /\ I \subseteq 1 .. n /\ \A i \in I : f[i] \in T
    BY DEF Selects
<1>2. CASE n = 0
    <2>1. FlattenSeq(s) = <<>> /\ I = {}
        BY <1>1, <1>2 DEF FlattenSeq
    <2>2. <<>> \in [{} -> I] /\ DOMAIN <<>> = {}
        BY <2>1
    <2>3. QED
        BY <2>1, <2>2 DEF InOrder
<1>3. CASE n # 0
    <2> DEFINE g == CHOOSE g : Gathers(g, s, n)
               Upto(i) == {k \in I : k <= i}
               P(i) == g[i] \in Seq(T) /\ InOrder(g[i], f, Upto(i))
               S == {i \in 1 .. n : ~P(i)}
    <2>1. FlattenSeq(s) = g[n]
        BY <1>1, <1>3 DEF FlattenSeq, Gathers
    <2>2. Gathers(g, s, n)
        BY <1>1, GathersExists
    <2> HIDE DEF g
    <2>3. \A i \in 1 .. n : g[i] = IF i = 1 THEN s[i] ELSE g[i - 1] \o s[i]
        BY <2>2 DEF Gathers
    <2>4. InOrder(<<>>, f, {})
        <3>1. <<>> \in [{} -> {}] /\ DOMAIN <<>> = {}
            OBVIOUS
        <3>2. QED
            BY <3>1 DEF InOrder
    <2>0. n \in Nat /\ I \subseteq 1 .. n
        BY <1>1
    <2>5. ASSUME NEW i \in 1 .. n, NEW t \in Seq(T), InOrder(t, f, Upto(i - 1)), g[i] = t \o s[i]
          PROVE P(i)
        <3>1. CASE i \in I
            <4>1. Upto(i) = Upto(i - 1) \cup {i} /\ Upto(i - 1) \subseteq 1 .. i - 1
                <5>1. \A k \in I : k \in Int /\ k >= 1
                    BY <2>0
                <5>2. i \in Int
                    BY <2>0
                <5>3. \A k \in Int : k <= i <=> k <= i - 1 \/ k = i
                    BY <5>2
                <5>4. Upto(i) = Upto(i - 1) \cup {i}
                    <6>1. \A k \in I : k \in Int
                        BY <5>1
                    <6> HIDE <2>5
                    <6>2. \A k : k \in Upto(i) <=> k \in Upto(i - 1) \cup {i}
                        BY <3>1, <5>3, <6>1
                    <6>3. QED
                        BY <6>2
                <5>5. Upto(i - 1) \subseteq 1 .. i - 1
                    BY <5>1, <5>2
                <5>6. QED
                    BY <5>4, <5>5
            <4>2. f[i] \in T /\ g[i] = t \o <<f[i]>> /\ i \in Nat
                <5>1. s[i] = <<f[i]>> /\ f[i] \in T
                    BY <1>1, <3>1
                <5>2. QED
                    BY <2>0, <2>5, <5>1
            <4>3. t \o <<f[i]>> \in Seq(T)
                BY <4>2
            <4> HIDE DEF Upto
            <4>4. InOrder(g[i], f, Upto(i))
                BY <2>5, <4>1, <4>2, InOrderAppend
            <4>5. QED
                BY <4>2, <4>3, <4>4
        <3>2. CASE i \notin I
            <4>1. Upto(i) = Upto(i - 1)
                <5>1. \A k \in I : k \in Int /\ k # i
                    BY <2>0, <3>2
                <5>2. i \in Int
                    BY <2>0
                <5>3. \A k \in Int : k # i => (k <= i <=> k <= i - 1)
                    BY <5>2
                <5>4. QED
                    BY <5>1, <5>2, <5>3
            <4>2. s[i] = <<>>
                BY <1>1, <3>2
            <4>3. g[i] = t
                BY <2>5, <4>2
            <4> HIDE DEF Upto
            <4>4. QED
                BY <2>5, <4>1, <4>3
        <3>3. QED
            BY <3>1, <3>2
    <2>6. P(1)
        <3>1. 1 \in 1 .. n
            BY <1>1, <1>3
        <3>2. Upto(1 - 1) = {}
            <4>1. \A k \in I : k \in Int /\ k >= 1
                BY <2>0
            <4>2. \A k \in Int : k >= 1 => ~(k <= 1 - 1)
                OBVIOUS
            <4>3. QED
                BY <4>1, <4>2
        <3>3. <<>> \in Seq(T) /\ s[1] \in Seq(T)
            BY <1>1, <3>1
        <3>4. g[1] = <<>> \o s[1]
            BY <2>3, <3>1, <3>3
        <3> HIDE DEF P, Upto
        <3>5. InOrder(<<>>, f, Upto(1 - 1))
            BY <2>4, <3>2
        <3>6. QED
            BY <2>5, <3>1, <3>3, <3>4, <3>5
    <2>7. S = {}
        <3> SUFFICES ASSUME S # {} PROVE FALSE
            OBVIOUS
        <3> HIDE DEF P
        <3>1. PICK i \in S : \A k \in S : i <= k
            <4>1. S \subseteq Nat
                BY <1>1
            <4>2. QED
                BY <4>1, LeastNumber
        <3>2. i \in 1 .. n /\ i # 1
            BY <2>6, <3>1
        <3>3. i - 1 \in 1 .. n /\ ~(i <= i - 1)
            BY <1>1, <3>2
        <3>4. P(i - 1)
            BY <3>1, <3>3
        <3>5. g[i - 1] \in Seq(T) /\ InOrder(g[i - 1], f, Upto(i - 1)) /\ g[i] = g[i - 1] \o s[i]
            BY <2>3, <3>2, <3>4 DEF P
        <3> HIDE DEF Upto
        <3>6. QED
            BY <2>5, <3>1, <3>2, <3>5
    <2>8. P(n)
        <3>1. n \in 1 .. n
            BY <1>3, <2>0
        <3> HIDE DEF P
        <3>2. QED
            BY <2>7, <3>1
    <2>9. Upto(n) = I
        <3>1. \A k \in I : k <= n
            BY <2>0
        <3>2. QED
            BY <3>1
    <2>10. QED
        BY <2>1, <2>8, <2>9
<1>4. QED
    BY <1>2, <1>3
=============================================================================
