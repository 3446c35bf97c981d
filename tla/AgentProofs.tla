----------------------------- MODULE AgentProofs -----------------------------
(* Theorems about Agent, for every set of agents and all bounds.            *)
EXTENDS Agent, SequenceLemmas, FiniteSetTheorems

-----------------------------------------------------------------------------
(* Messages.                                                                *)

CallSeqs(a) == {c \in Seq(a.names) : Len(c) <= 2}
Names(a) == a.names \cup {"unknown", "error", "none"}
AIMsgs(a) == [k : {"ai"}, r : Nat, id : Nat, calls : CallSeqs(a), invalid : BOOLEAN]
ToolMsgs(a) == [k : {"tool"}, call : Int, name : Names(a)]
Messages(a) == {Human} \cup AIMsgs(a) \cup ToolMsgs(a)

\* Messages are told apart by their kind.
LEMMA MessageKinds ==
    ASSUME NEW a, NEW m \in Messages(a)
    PROVE /\ m.k \in {"human", "ai", "tool"}
          /\ m.k = "ai" => m \in AIMsgs(a)
          /\ m.k = "tool" => m \in ToolMsgs(a)
BY DEF Messages, AIMsgs, ToolMsgs, Human

\* The last AI message is an AI message, and none follows it.
LEMMA LastAIFacts ==
    ASSUME NEW M, NEW ms \in Seq(M), AIs(ms) # {}
    PROVE /\ LastAI(ms) \in AIs(ms) /\ LastAI(ms) \in 1 .. Len(ms)
          /\ \A j \in AIs(ms) : j <= LastAI(ms)
<1>1. AIs(ms) \subseteq 1 .. Len(ms) /\ Len(ms) \in Nat
    BY DEF AIs
<1> DEFINE S == {Len(ms) - i : i \in AIs(ms)}
<1>2. S \subseteq Nat /\ S # {}
    BY <1>1
<1>3. PICK d \in S : \A e \in S : d <= e
    BY <1>2, LeastNumber
<1>4. PICK i \in AIs(ms) : d = Len(ms) - i
    BY <1>3
<1>5. ASSUME NEW j \in AIs(ms) PROVE j <= i
    <2>1. d <= Len(ms) - j
        BY <1>3
    <2>2. QED
        BY <1>1, <1>4, <2>1
<1>6. LastAI(ms) \in AIs(ms) /\ \A j \in AIs(ms) : j <= LastAI(ms)
    BY <1>4, <1>5 DEF LastAI
<1>7. QED
    BY <1>1, <1>6

\* An AI message that none follows is the last one.
LEMMA LastAIIs ==
    ASSUME NEW M, NEW ms \in Seq(M), NEW i \in AIs(ms), \A j \in AIs(ms) : j <= i
    PROVE LastAI(ms) = i
<1>1. LastAI(ms) \in AIs(ms) /\ LastAI(ms) \in 1 .. Len(ms) /\ i <= LastAI(ms) /\ LastAI(ms) <= i
    BY LastAIFacts
<1>2. i \in 1 .. Len(ms) /\ Len(ms) \in Nat
    BY DEF AIs
<1>3. QED
    BY <1>1, <1>2

\* ns is ms with more messages behind it.
Grows(ms, ns) == Len(ms) <= Len(ns) /\ \A i \in 1 .. Len(ms) : ns[i] = ms[i]
\* The position of a message that ns adds to ms.
Added(ms, ns) == Len(ms) + 1 .. Len(ns)

\* ns adds the elements of f to ms.
Adds(ms, f, ns, M) ==
    /\ ns \in Seq(M) /\ Grows(ms, ns)
    /\ \A i \in Added(ms, ns) : ns[i] \in Elements(f)
    /\ \A x \in Elements(f) : \E i \in Added(ms, ns) : ns[i] = x

\* Concatenation, seen as growth.
LEMMA ConcatGrows ==
    ASSUME NEW M, NEW ms \in Seq(M), NEW f \in Seq(M)
    PROVE Adds(ms, f, ms \o f, M)
<1> DEFINE u == ms \o f
<1>1. /\ u \in Seq(M) /\ Len(u) = Len(ms) + Len(f) /\ Len(ms) \in Nat /\ Len(f) \in Nat
      /\ \A i \in 1 .. Len(ms) : u[i] = ms[i]
      /\ \A i \in 1 .. Len(f) : u[Len(ms) + i] = f[i]
    OBVIOUS
<1> HIDE DEF u
<1>2. Grows(ms, u)
    BY <1>1 DEF Grows
<1>3. ASSUME NEW i \in Added(ms, u) PROVE u[i] \in Elements(f)
    <2>1. i - Len(ms) \in 1 .. Len(f) /\ i = Len(ms) + (i - Len(ms))
        BY <1>1, <1>3 DEF Added
    <2>2. u[i] = f[i - Len(ms)] /\ i - Len(ms) \in DOMAIN f
        BY <1>1, <2>1
    <2>3. QED
        BY <2>2 DEF Elements
<1>4. ASSUME NEW x \in Elements(f) PROVE \E i \in Added(ms, u) : u[i] = x
    <2>1. PICK j \in 1 .. Len(f) : x = f[j]
        BY <1>4 DEF Elements
    <2>2. Len(ms) + j \in Added(ms, u)
        BY <1>1, <2>1 DEF Added
    <2>3. u[Len(ms) + j] = x
        BY <1>1, <2>1
    <2>4. QED
        BY <2>2, <2>3
<1>5. QED
    BY <1>1, <1>2, <1>3, <1>4 DEF u, Adds

\* Growth keeps the AI messages and adds those among the new ones.
LEMMA GrowsAIs ==
    ASSUME NEW M, NEW ms \in Seq(M), NEW ns \in Seq(M), Grows(ms, ns)
    PROVE /\ AIs(ns) = AIs(ms) \cup {i \in Added(ms, ns) : ns[i].k = "ai"}
          /\ \A i \in AIs(ms) : ns[i] = ms[i] /\ i \in 1 .. Len(ms)
<1>1. Len(ms) \in Nat /\ Len(ns) \in Nat /\ DOMAIN ms = 1 .. Len(ms) /\ DOMAIN ns = 1 .. Len(ns)
    OBVIOUS
<1>2. 1 .. Len(ns) = (1 .. Len(ms)) \cup Added(ms, ns)
    BY <1>1 DEF Grows, Added
<1>3. QED
    BY <1>1, <1>2 DEF Grows, AIs

\* When no AI message is added, the last one is still the last, and what answered
\* its calls still does.
LEMMA GrowsByTools ==
    ASSUME NEW M, NEW ms \in Seq(M), NEW ns \in Seq(M), Grows(ms, ns),
           \A i \in Added(ms, ns) : ns[i].k # "ai"
    PROVE /\ AIs(ns) = AIs(ms)
          /\ AIs(ms) # {} =>
               /\ LastAI(ns) = LastAI(ms) /\ ns[LastAI(ns)] = ms[LastAI(ms)]
               /\ Answered(ms) \subseteq Answered(ns)
               /\ \A i \in Added(ms, ns) : ns[i].k = "tool" => ns[i].call \in Answered(ns)
               /\ unansweredToolCalls(ns) \subseteq unansweredToolCalls(ms)
<1>1. AIs(ns) = AIs(ms) /\ \A i \in AIs(ms) : ns[i] = ms[i] /\ i \in 1 .. Len(ms)
    <2>1. /\ AIs(ns) = AIs(ms) \cup {i \in Added(ms, ns) : ns[i].k = "ai"}
          /\ \A i \in AIs(ms) : ns[i] = ms[i] /\ i \in 1 .. Len(ms)
        BY GrowsAIs
    <2>2. {i \in Added(ms, ns) : ns[i].k = "ai"} = {}
        OBVIOUS
    <2>3. QED
        BY <2>1, <2>2
<1>2. ASSUME AIs(ms) # {} PROVE LastAI(ns) = LastAI(ms) /\ LastAI(ms) \in AIs(ms)
    BY <1>1, <1>2, LastAIFacts, LastAIIs
<1>3. ASSUME AIs(ms) # {}
      PROVE /\ Answered(ms) \subseteq Answered(ns)
            /\ \A i \in Added(ms, ns) : ns[i].k = "tool" => ns[i].call \in Answered(ns)
    <2>1. /\ LastAI(ns) = LastAI(ms) /\ LastAI(ms) \in 1 .. Len(ms)
          /\ Len(ms) \in Nat /\ Len(ns) \in Nat /\ Len(ms) <= Len(ns)
          /\ DOMAIN ms = 1 .. Len(ms) /\ DOMAIN ns = 1 .. Len(ns)
          /\ \A i \in 1 .. Len(ms) : ns[i] = ms[i]
        BY <1>1, <1>2, <1>3 DEF Grows
    <2>2. ToolMsgsAfter(ms, LastAI(ms)) \subseteq ToolMsgsAfter(ns, LastAI(ns))
        BY <2>1 DEF ToolMsgsAfter
    <2>3. ASSUME NEW i \in Added(ms, ns), ns[i].k = "tool"
          PROVE ns[i] \in ToolMsgsAfter(ns, LastAI(ns))
        <3>1. i \in DOMAIN ns /\ i > LastAI(ns)
            BY <2>1, <2>3 DEF Added
        <3>2. QED
            BY <2>3, <3>1 DEF ToolMsgsAfter
    <2>4. QED
        BY <2>2, <2>3 DEF Answered
<1>4. ASSUME AIs(ms) # {} PROVE unansweredToolCalls(ns) \subseteq unansweredToolCalls(ms)
    BY <1>1, <1>2, <1>3, <1>4 DEF unansweredToolCalls
<1>5. QED
    BY <1>1, <1>2, <1>3, <1>4

\* The error messages of chosen calls answer these calls and no other.
LEMMA ErrorMessagesFacts ==
    ASSUME NEW a, NEW calls \in CallSeqs(a), NEW ids
    PROVE /\ ErrorMessages(calls, ids) \in Seq(Messages(a))
          /\ \A m \in Elements(ErrorMessages(calls, ids)) : m.k = "tool" /\ m.call \in ids
          /\ \A i \in ids \cap DOMAIN calls :
                ToolMsg(i, calls[i]) \in Elements(ErrorMessages(calls, ids))
<1> DEFINE n == Len(calls)
           I == ids \cap DOMAIN calls
           f == [i \in 1 .. n |-> ToolMsg(i, calls[i])]
           s == [i \in 1 .. n |-> IF i \in I THEN <<f[i]>> ELSE <<>>]
<1>1. n \in Nat /\ DOMAIN calls = 1 .. n /\ \A i \in 1 .. n : calls[i] \in a.names
    BY DEF CallSeqs
<1>2. \A i \in I : f[i] \in Messages(a) /\ f[i].k = "tool" /\ f[i].call = i /\ f[i] = ToolMsg(i, calls[i])
    BY <1>1 DEF ToolMsg, Messages, ToolMsgs, Names
<1>3. ErrorMessages(calls, ids) = FlattenSeq(s)
    <2>1. s = [i \in DOMAIN calls |-> IF i \in ids THEN <<ToolMsg(i, calls[i])>> ELSE <<>>]
        BY <1>1
    <2>2. QED
        BY <2>1 DEF ErrorMessages
<1>4. Selects(s, f, I, n, Messages(a))
    BY <1>1, <1>2 DEF Selects
<1> HIDE DEF f, n, I, s
<1>5. FlattenSeq(s) \in Seq(Messages(a)) /\ Elements(FlattenSeq(s)) = {f[i] : i \in I}
    BY <1>4, SelectionFacts
<1>6. ASSUME NEW m \in Elements(FlattenSeq(s)) PROVE m.k = "tool" /\ m.call \in ids
    BY <1>2, <1>5, <1>6 DEF I
<1>7. ASSUME NEW i \in ids \cap DOMAIN calls PROVE ToolMsg(i, calls[i]) \in Elements(FlattenSeq(s))
    BY <1>2, <1>5, <1>7 DEF I
<1>8. QED
    BY <1>3, <1>5, <1>6, <1>7

\* The repair of invalid calls adds tool messages only.
LEMMA RepairFacts ==
    ASSUME NEW a, NEW ms \in Seq(Messages(a))
    PROVE /\ repairInvalidToolCalls(ms) \in Seq(Messages(a))
          /\ \A m \in Elements(repairInvalidToolCalls(ms)) :
                m.k = "tool" /\ \E i \in AIs(ms) : m.call = InvalidID(ms[i].r)
          /\ \A i \in AIs(ms) : ms[i].invalid =>
                \/ \E j \in DOMAIN ms : ms[j].k = "tool" /\ ms[j].call = InvalidID(ms[i].r)
                \/ ToolMsg(InvalidID(ms[i].r), "error") \in Elements(repairInvalidToolCalls(ms))
<1> DEFINE n == Len(ms)
           I == {i \in 1 .. n : /\ ms[i].k = "ai" /\ ms[i].invalid
                                /\ ~ \E j \in DOMAIN ms : ms[j].k = "tool" /\ ms[j].call = InvalidID(ms[i].r)}
           f == [i \in 1 .. n |-> ToolMsg(InvalidID(ms[i].r), "error")]
           s == [i \in 1 .. n |-> IF i \in I THEN <<f[i]>> ELSE <<>>]
<1>1. n \in Nat /\ DOMAIN ms = 1 .. n /\ \A i \in 1 .. n : ms[i] \in Messages(a)
    OBVIOUS
<1>2. ASSUME NEW i \in I
      PROVE f[i] \in Messages(a) /\ f[i].k = "tool" /\ i \in AIs(ms) /\ f[i].call = InvalidID(ms[i].r)
    <2>1. ms[i].r \in Nat
        BY <1>1, <1>2, MessageKinds DEF AIMsgs
    <2>2. InvalidID(ms[i].r) \in Int
        BY <2>1 DEF InvalidID
    <2>3. QED
        BY <1>1, <1>2, <2>2 DEF ToolMsg, Messages, ToolMsgs, Names, AIs
<1>3. repairInvalidToolCalls(ms) = FlattenSeq(s)
    <2>1. s = [i \in DOMAIN ms |->
                 IF /\ ms[i].k = "ai" /\ ms[i].invalid
                    /\ ~ \E j \in DOMAIN ms : ms[j].k = "tool" /\ ms[j].call = InvalidID(ms[i].r)
                 THEN <<ToolMsg(InvalidID(ms[i].r), "error")>> ELSE <<>>]
        BY <1>1
    <2>2. QED
        BY <2>1 DEF repairInvalidToolCalls
<1>4. Selects(s, f, I, n, Messages(a))
    BY <1>1, <1>2 DEF Selects
<1>5. ASSUME NEW i \in AIs(ms), ms[i].invalid,
             ~ \E j \in DOMAIN ms : ms[j].k = "tool" /\ ms[j].call = InvalidID(ms[i].r)
      PROVE i \in I /\ f[i] = ToolMsg(InvalidID(ms[i].r), "error")
    BY <1>1, <1>5 DEF AIs
<1> HIDE DEF f, n, I, s
<1>6. FlattenSeq(s) \in Seq(Messages(a)) /\ Elements(FlattenSeq(s)) = {f[i] : i \in I}
    BY <1>4, SelectionFacts
<1>7. QED
    BY <1>2, <1>3, <1>5, <1>6

\* A message with the ID of an old one; what the reducer does when it is the same.
Knows(ms, m) == \E i \in DOMAIN ms : Same(ms[i], m)
Reduced(ms, new, ns, M) ==
    /\ ns \in Seq(M) /\ Grows(ms, ns)
    /\ \A i \in Added(ms, ns) : ns[i] \in Elements(new) /\ ~Knows(ms, ns[i])
    /\ \A m \in Elements(new) : ~Knows(ms, m) => \E i \in Added(ms, ns) : ns[i] = m

\* The reducer, when a new message that has the ID of an old one is the same
\* message: the old messages stay as they are, the unknown new ones follow.
LEMMA ReducerFacts ==
    ASSUME NEW M, NEW ms \in Seq(M), NEW new \in Seq(M),
           \A i \in DOMAIN ms, j \in DOMAIN new : Same(ms[i], new[j]) => new[j] = ms[i]
    PROVE Reduced(ms, new, MessagesReducer(ms, new), M)
<1> DEFINE Known(m) == \E i \in DOMAIN ms : Same(ms[i], m)
           Latest(m) == IF \E j \in DOMAIN new : Same(m, new[j])
                        THEN new[CHOOSE j \in DOMAIN new : Same(m, new[j])] ELSE m
           n == Len(new)
           I == {j \in 1 .. n : ~Known(new[j])}
           s == [j \in 1 .. n |-> IF j \in I THEN <<new[j]>> ELSE <<>>]
<1>1. n \in Nat /\ DOMAIN new = 1 .. n /\ \A j \in 1 .. n : new[j] \in M
    OBVIOUS
<1>2. [i \in DOMAIN ms |-> Latest(ms[i])] = ms
    <2>1. ASSUME NEW i \in DOMAIN ms PROVE Latest(ms[i]) = ms[i]
        <3>1. CASE \E j \in DOMAIN new : Same(ms[i], new[j])
            <4>1. PICK j : j = CHOOSE k \in DOMAIN new : Same(ms[i], new[k])
                OBVIOUS
            <4>2. j \in DOMAIN new /\ Same(ms[i], new[j])
                BY <3>1, <4>1
            <4>3. QED
                BY <3>1, <4>1, <4>2
        <3>2. QED
            BY <3>1
    <2>2. QED
        BY <2>1
<1>3. MessagesReducer(ms, new) = ms \o FlattenSeq(s)
    <2>1. s = [j \in DOMAIN new |-> IF Known(new[j]) THEN <<>> ELSE <<new[j]>>]
        BY <1>1
    <2>2. QED
        BY <1>2, <2>1 DEF MessagesReducer
<1> HIDE DEF Latest
<1>4. Selects(s, new, I, n, M)
    BY <1>1 DEF Selects
<1>5. FlattenSeq(s) \in Seq(M) /\ Elements(FlattenSeq(s)) = {new[j] : j \in I}
    <2> HIDE DEF n, I, s
    <2>1. QED
        BY <1>4, SelectionFacts
<1> DEFINE f == FlattenSeq(s)
<1>6. \A x : x \in Elements(f) <=> x \in Elements(new) /\ ~Known(x)
    <2>1. Elements(f) = {new[j] : j \in I}
        BY <1>5
    <2> HIDE DEF Known, f
    <2>2. QED
        BY <1>1, <2>1 DEF Elements
<1>7. f \in Seq(M) /\ MessagesReducer(ms, new) = ms \o f
    BY <1>3, <1>5
<1> HIDE DEF f, s, Known
<1>8. Adds(ms, f, MessagesReducer(ms, new), M)
    BY <1>7, ConcatGrows
<1>9. QED
    BY <1>6, <1>8 DEF Known, Knows, Reduced, Adds
\* The reducer, when no new message has the ID of an old one: all are appended.
LEMMA ReducerFresh ==
    ASSUME NEW M, NEW ms \in Seq(M), NEW new \in Seq(M),
           \A i \in DOMAIN ms, j \in DOMAIN new : ~Same(ms[i], new[j])
    PROVE MessagesReducer(ms, new) = ms \o new
<1> DEFINE Known(m) == \E i \in DOMAIN ms : Same(ms[i], m)
           Latest(m) == IF \E j \in DOMAIN new : Same(m, new[j])
                        THEN new[CHOOSE j \in DOMAIN new : Same(m, new[j])] ELSE m
           s == [j \in 1 .. Len(new) |-> <<new[j]>>]
<1>1. [i \in DOMAIN ms |-> Latest(ms[i])] = ms
    <2>1. \A i \in DOMAIN ms : Latest(ms[i]) = ms[i]
        OBVIOUS
    <2>2. QED
        BY <2>1
<1>2. s = [j \in DOMAIN new |-> IF Known(new[j]) THEN <<>> ELSE <<new[j]>>]
    OBVIOUS
<1>3. MessagesReducer(ms, new) = ms \o FlattenSeq(s)
    BY <1>1, <1>2 DEF MessagesReducer
<1>4. FlattenSeq(s) = new
    BY FlattenSingles
<1>5. QED
    BY <1>3, <1>4

\* The calls of a message are at most two, of names the model may call.
LEMMA CallsFacts ==
    ASSUME NEW a, NEW calls \in CallSeqs(a)
    PROVE /\ DOMAIN calls \subseteq 1 .. 2 /\ \A i \in DOMAIN calls : calls[i] \in a.names
          /\ IsFiniteSet(DOMAIN calls)
<1>1. Len(calls) \in Nat /\ Len(calls) <= 2 /\ DOMAIN calls = 1 .. Len(calls)
    BY DEF CallSeqs
<1>2. \A i \in DOMAIN calls : calls[i] \in a.names
    BY DEF CallSeqs
<1>3. IsFiniteSet(1 .. Len(calls))
    BY <1>1, FS_Interval
<1>4. QED
    BY <1>1, <1>2, <1>3

\* What the model may answer has calls of this kind.
Answers(a) == [calls : CallSeqs(a), invalid : BOOLEAN, parses : BOOLEAN]
LEMMA ResponsesFacts ==
    ASSUME agent.tools \subseteq agent.names
    PROVE /\ Responses \subseteq Answers(agent)
          /\ NoAnswer \in Answers(agent) /\ [NoAnswer EXCEPT !.parses = TRUE] \in Answers(agent)
<1>1. ASSUME NEW S, S \subseteq agent.names, NEW n \in 1 .. 2 PROVE BoundedSeq(S, n) \subseteq CallSeqs(agent)
    <2> SUFFICES ASSUME NEW c \in BoundedSeq(S, n) PROVE c \in CallSeqs(agent)
        OBVIOUS
    <2>1. PICK m \in 0 .. n : c \in [1 .. m -> S]
        BY DEF BoundedSeq, SeqOf
    <2>2. m \in Nat /\ m <= 2 /\ c \in [1 .. m -> agent.names]
        BY <1>1, <2>1
    <2>3. c \in Seq(agent.names) /\ Len(c) = m
        BY <2>2
    <2>4. QED
        BY <2>2, <2>3 DEF CallSeqs
<1>2. BoundedSeq(agent.names, 2) \subseteq CallSeqs(agent) /\ BoundedSeq(agent.tools, 1) \subseteq CallSeqs(agent)
    BY <1>1
<1>3. Responses \subseteq Answers(agent)
    BY <1>2 DEF Responses, Answers
<1>4. <<>> \in CallSeqs(agent)
    BY DEF CallSeqs
<1>5. QED
    BY <1>3, <1>4 DEF NoAnswer, Answers
-----------------------------------------------------------------------------
(* The first layer: types, the order of the responses, where the run is.    *)

Counts == [tm : Nat, rm : Nat, tt : Nat, rt : Nat]
Outcomes(a) == [st : {"run"}, n : Nat] \cup [st : {"done", "raised"}, name : Names(a)]
Phases == {"idle", "running", "paused", "failed"}
NodeNames == {"before_agent", "model", "hitl", "tools", "after_agent", "END"}

Types ==
    /\ agent \in Agents
    /\ msgs \in Seq(Messages(agent)) /\ counts \in Counts
    /\ response \in BOOLEAN /\ resumed \in BOOLEAN /\ DOMAIN edited \subseteq 1 .. 2
    /\ phase \in Phases /\ node \in NodeNames
    /\ attempt \in 0 .. agent.modelAttempts - 1
    /\ answer \in Answers(agent) /\ round \in Nat

\* Responses are numbered in the order they came, each stands in the history
\* once, and with a review node its message ID is its number.
RoundsOf(ms, n, hitl) ==
    \A i \in AIs(ms) :
        /\ ms[i].r \in 0 .. n /\ ms[i].id \in {0, ms[i].r}
        /\ hitl => ms[i].id = ms[i].r
        /\ ms[i].r # 0 => \A j \in AIs(ms) : ms[j].r = ms[i].r => j = i
Rounds == RoundsOf(msgs, round, HasHITL)

\* The review and the tools work on the latest response.
Current ==
    /\ node \in {"hitl", "tools"} =>
          AIs(msgs) # {} /\ msgs[LastAI(msgs)].r = round /\ round # 0
    /\ node = "hitl" => HasHITL

\* There is a worker for each unanswered call, while the node runs.
Workers ==
    out # NotStarted =>
        /\ node = "tools" /\ phase = "running" /\ DOMAIN out = unansweredToolCalls(msgs)
        /\ \A i \in DOMAIN out : out[i] \in Outcomes(agent)

Base == Types /\ Rounds /\ Current /\ Workers

\* Where the routes lead.
LEMMA Routes ==
    ASSUME NEW ms, NEW sr
    PROVE /\ FinalNode \in {"after_agent", "END"}
          /\ RouteAfterModel(ms, sr) \in {"after_agent", "END", "model", "tools"}
          /\ RouteAfterModel(ms, sr) = "tools" => AIs(ms) # {}
          /\ RouteFromHITL(ms, sr) = RouteAfterModel(ms, sr)
          /\ RouteFromModel(ms, sr) \in {"after_agent", "END", "model", "tools", "hitl"}
          /\ RouteFromModel(ms, sr) = "hitl" => HasHITL /\ RouteAfterModel(ms, sr) = "tools"
          /\ RouteFromModel(ms, sr) = "tools" => ~HasHITL /\ agent.tools # {} /\ RouteAfterModel(ms, sr) = "tools"
          /\ RouteAfterTools(ms) \in {"after_agent", "END", "model"}
<1>1. FinalNode \in {"after_agent", "END"}
    BY DEF FinalNode
<1>2. /\ RouteAfterModel(ms, sr) \in {"after_agent", "END", "model", "tools"}
      /\ RouteAfterModel(ms, sr) = "tools" => AIs(ms) # {}
    BY <1>1 DEF RouteAfterModel
<1>3. RouteFromHITL(ms, sr) = RouteAfterModel(ms, sr)
    BY DEF RouteFromHITL
<1>4. /\ RouteFromModel(ms, sr) \in {"after_agent", "END", "model", "tools", "hitl"}
      /\ RouteFromModel(ms, sr) = "hitl" => HasHITL /\ RouteAfterModel(ms, sr) = "tools"
      /\ RouteFromModel(ms, sr) = "tools" => ~HasHITL /\ agent.tools # {} /\ RouteAfterModel(ms, sr) = "tools"
    BY <1>1, <1>2 DEF RouteFromModel, RouteStructuredOnly
<1>5. RouteAfterTools(ms) \in {"after_agent", "END", "model"}
    BY <1>1 DEF RouteAfterTools
<1>6. QED
    BY <1>1, <1>2, <1>3, <1>4, <1>5

\* Going to a node.
LEMMA GotoFacts ==
    ASSUME Types, NEW n \in NodeNames, Goto(n), agent' = agent
    PROVE /\ phase' \in Phases /\ node' = n /\ node' \in NodeNames
          /\ attempt' \in 0 .. agent'.modelAttempts - 1
          /\ answer' = NoAnswer /\ answer' \in Answers(agent') /\ out' = NotStarted /\ resumed' \in BOOLEAN
<1>1. agent.modelAttempts \in Nat \ {0} /\ agent.tools \subseteq agent.names
    BY AgentsAssumption DEF Types, AgentShape
<1>2. 0 \in 0 .. agent.modelAttempts - 1
    BY <1>1
<1>3. NoAnswer \in Answers(agent)
    BY <1>1, ResponsesFacts
<1>4. QED
    BY <1>2, <1>3 DEF Goto, Phases, NodeNames

\* A failure keeps the state and forgets the run.
LEMMA FailFacts ==
    ASSUME Types, Fail
    PROVE /\ phase' \in Phases /\ node' = node /\ node' \in NodeNames
          /\ attempt' \in 0 .. agent'.modelAttempts - 1
          /\ answer' = NoAnswer /\ answer' \in Answers(agent') /\ out' = NotStarted /\ resumed' \in BOOLEAN
          /\ UNCHANGED <<agent, msgs, counts, response, edited>>
<1>1. agent.modelAttempts \in Nat \ {0} /\ agent.tools \subseteq agent.names
    BY AgentsAssumption DEF Types, AgentShape
<1>2. 0 \in 0 .. agent.modelAttempts - 1
    BY <1>1
<1>3. NoAnswer \in Answers(agent)
    BY <1>1, ResponsesFacts
<1>4. QED
    BY <1>2, <1>3 DEF Fail, Phases, Types

\* The numbering survives closing messages and messages that are not AI's.
LEMMA RoundsGrow ==
    ASSUME NEW M, NEW ms \in Seq(M), NEW ns \in Seq(M), Grows(ms, ns), NEW n \in Nat, NEW h,
           RoundsOf(ms, n, h), \A i \in Added(ms, ns) : ns[i].k = "ai" => ns[i] = TextAI
    PROVE RoundsOf(ns, n, h)
<1>1. /\ AIs(ns) = AIs(ms) \cup {i \in Added(ms, ns) : ns[i].k = "ai"}
      /\ \A i \in AIs(ms) : ns[i] = ms[i]
    BY GrowsAIs
<1>2. TextAI.r = 0 /\ TextAI.id = 0
    BY DEF TextAI, AI
<1>3. QED
    BY <1>1, <1>2 DEF RoundsOf

\* A new response takes the next number.
LEMMA RoundsRespond ==
    ASSUME NEW M, NEW ms \in Seq(M), NEW ai \in M, NEW n \in Nat, NEW h,
           RoundsOf(ms, n, h), ai.k = "ai", ai.r = n + 1, ai.id \in {0, n + 1}, h => ai.id = n + 1
    PROVE LET ns == Append(ms, ai)
          IN  /\ ns \in Seq(M) /\ Grows(ms, ns) /\ RoundsOf(ns, n + 1, h)
              /\ AIs(ns) = AIs(ms) \cup {Len(ms) + 1} /\ Len(ms) + 1 \notin AIs(ms)
              /\ ns[Len(ms) + 1] = ai /\ LastAI(ns) = Len(ms) + 1
<1> DEFINE ns == Append(ms, ai)
<1>1. /\ ns \in Seq(M) /\ Len(ns) = Len(ms) + 1 /\ Len(ms) \in Nat
      /\ ns[Len(ms) + 1] = ai /\ \A i \in 1 .. Len(ms) : ns[i] = ms[i]
    OBVIOUS
<1> HIDE DEF ns
<1>2. Grows(ms, ns) /\ Added(ms, ns) = {Len(ms) + 1}
    BY <1>1 DEF Grows, Added
<1>3. AIs(ns) = AIs(ms) \cup {Len(ms) + 1} /\ \A i \in AIs(ms) : ns[i] = ms[i] /\ i \in 1 .. Len(ms)
    <2>1. /\ AIs(ns) = AIs(ms) \cup {i \in Added(ms, ns) : ns[i].k = "ai"}
          /\ \A i \in AIs(ms) : ns[i] = ms[i] /\ i \in 1 .. Len(ms)
        BY <1>1, <1>2, GrowsAIs
    <2>2. QED
        BY <1>1, <1>2, <2>1
<1>4. Len(ms) + 1 \notin AIs(ms)
    BY <1>1, <1>3
<1>5. LastAI(ns) = Len(ms) + 1
    <2>1. \A j \in AIs(ns) : j <= Len(ms) + 1
        BY <1>1, <1>3
    <2>2. Len(ms) + 1 \in AIs(ns)
        BY <1>3
    <2>3. QED
        BY <1>1, <2>1, <2>2, LastAIIs
<1>6. RoundsOf(ns, n + 1, h)
    <2> SUFFICES ASSUME NEW i \in AIs(ns)
                 PROVE /\ ns[i].r \in 0 .. n + 1 /\ ns[i].id \in {0, ns[i].r}
                       /\ h => ns[i].id = ns[i].r
                       /\ ns[i].r # 0 => \A j \in AIs(ns) : ns[j].r = ns[i].r => j = i
        BY DEF RoundsOf
    <2>1. CASE i = Len(ms) + 1
        <3>1. ASSUME NEW j \in AIs(ms) PROVE ns[j].r # n + 1
            <4>1. ns[j].r \in 0 .. n
                BY <1>3 DEF RoundsOf
            <4>2. QED
                BY <4>1
        <3>2. QED
            BY <1>1, <1>3, <2>1, <3>1
    <2>2. CASE i \in AIs(ms)
        <3>1. ns[i] = ms[i] /\ ms[i].r \in 0 .. n
            BY <1>3, <2>2 DEF RoundsOf
        <3>2. ms[i].r # ns[Len(ms) + 1].r /\ ms[i].r \in 0 .. n + 1
            BY <1>1, <3>1
        <3>3. QED
            BY <1>3, <2>2, <3>1, <3>2 DEF RoundsOf
    <2>3. QED
        BY <1>3, <2>1, <2>2
<1>7. QED
    BY <1>1, <1>2, <1>3, <1>4, <1>5, <1>6 DEF ns

\* u starts with x and goes on with elements of S.
Led(u, x, S) == u \in Seq(S \cup {x}) /\ u # <<>> /\ u[1] = x /\ \A j \in 2 .. Len(u) : u[j] \in S

\* Such sequences are built from the left.
LEMMA LedBuilds ==
    ASSUME NEW S, NEW x
    PROVE /\ Led(<<x>>, x, S)
          /\ \A u, v : Led(u, x, S) /\ v \in Seq(S) =>
                Led(u \o v, x, S) /\ Elements(v) \subseteq Elements(u \o v)
                /\ Elements(u) \subseteq Elements(u \o v)
<1>1. Led(<<x>>, x, S)
    BY DEF Led
<1>2. ASSUME NEW u, NEW v, Led(u, x, S), v \in Seq(S)
      PROVE /\ Led(u \o v, x, S)
            /\ Elements(v) \subseteq Elements(u \o v) /\ Elements(u) \subseteq Elements(u \o v)
    <2>1. u \in Seq(S \cup {x}) /\ v \in Seq(S \cup {x})
        BY <1>2 DEF Led
    <2>2. Elements(u \o v) = Elements(u) \cup Elements(v)
        BY <2>1, ConcatElements
    <2>3. /\ u \o v \in Seq(S \cup {x}) /\ Len(u \o v) = Len(u) + Len(v) /\ Len(u) \in Nat /\ Len(v) \in Nat
          /\ Len(u) >= 1
          /\ \A j \in 1 .. Len(u) + Len(v) : (u \o v)[j] = IF j <= Len(u) THEN u[j] ELSE v[j - Len(u)]
        BY <1>2, <2>1 DEF Led
    <2>4. ASSUME NEW j \in 2 .. Len(u \o v) PROVE (u \o v)[j] \in S
        <3>1. j \in 1 .. Len(u) + Len(v)
            BY <2>3, <2>4
        <3>2. CASE j <= Len(u)
            <4>1. j \in 2 .. Len(u)
                BY <2>3, <2>4, <3>2
            <4>2. QED
                BY <1>2, <2>3, <3>1, <3>2, <4>1 DEF Led
        <3>3. CASE ~(j <= Len(u))
            <4>1. j - Len(u) \in 1 .. Len(v)
                BY <2>3, <3>1, <3>3
            <4>2. QED
                BY <1>2, <2>3, <3>1, <3>3, <4>1
        <3>4. QED
            BY <3>2, <3>3
    <2>5. 1 \in 1 .. Len(u) + Len(v) /\ 1 <= Len(u)
        BY <2>3
    <2>6. (u \o v)[1] = x
        BY <1>2, <2>3, <2>5 DEF Led
    <2>7. u \o v # <<>>
        BY <2>3
    <2>8. QED
        BY <2>2, <2>3, <2>4, <2>6, <2>7 DEF Led
<1>3. QED
    BY <1>1, <1>2

\* ns is ms, then x, then the elements of u, all of them in S.
Extends(ms, x, ns, u, S, M) ==
    /\ ns \in Seq(M) /\ Grows(Append(ms, x), ns)
    /\ \A j \in Added(Append(ms, x), ns) : ns[j] \in S
    /\ \A y \in Elements(u) : y # x => \E j \in Added(Append(ms, x), ns) : ns[j] = y

\* A history followed by such a sequence.
LEMMA LedGrows ==
    ASSUME NEW M, NEW ms \in Seq(M), NEW x \in M, NEW S, S \subseteq M, NEW u, Led(u, x, S)
    PROVE Extends(ms, x, ms \o u, u, S, M)
<1> DEFINE w == ms \o u
           v == Append(ms, x)
<1>1. u \in Seq(M) /\ Len(u) \in Nat /\ Len(u) >= 1 /\ u[1] = x /\ DOMAIN u = 1 .. Len(u)
    <2>1. u \in Seq(M)
        BY DEF Led
    <2>2. QED
        BY <2>1 DEF Led
<1>2. /\ w \in Seq(M) /\ Len(w) = Len(ms) + Len(u) /\ Len(ms) \in Nat
      /\ \A j \in 1 .. Len(ms) : w[j] = ms[j]
      /\ \A j \in 1 .. Len(u) : w[Len(ms) + j] = u[j]
    BY <1>1
<1>3. Len(v) = Len(ms) + 1 /\ \A j \in 1 .. Len(ms) + 1 : v[j] = IF j <= Len(ms) THEN ms[j] ELSE x
    OBVIOUS
<1> HIDE DEF w, v
<1>4. w[Len(ms) + 1] = x
    BY <1>1, <1>2
<1>5. Grows(v, w)
    <2>1. Len(v) <= Len(w)
        BY <1>1, <1>2, <1>3
    <2>2. ASSUME NEW j \in 1 .. Len(v) PROVE w[j] = v[j]
        <3>1. j \in 1 .. Len(ms) + 1 /\ (j \in 1 .. Len(ms) \/ j = Len(ms) + 1)
            BY <1>2, <1>3
        <3>2. CASE j \in 1 .. Len(ms)
            BY <1>2, <1>3, <3>1, <3>2
        <3>3. CASE j = Len(ms) + 1
            BY <1>2, <1>3, <1>4, <3>1, <3>3
        <3>4. QED
            BY <3>1, <3>2, <3>3
    <2>3. QED
        BY <2>1, <2>2 DEF Grows
<1>6. ASSUME NEW j \in Added(v, w) PROVE w[j] \in S
    <2>1. j - Len(ms) \in 2 .. Len(u) /\ j - Len(ms) \in 1 .. Len(u) /\ Len(ms) + (j - Len(ms)) = j
        BY <1>1, <1>2, <1>3, <1>6 DEF Added
    <2>2. w[j] = u[j - Len(ms)]
        BY <1>2, <2>1
    <2>3. QED
        BY <2>1, <2>2 DEF Led
<1>7. ASSUME NEW y \in Elements(u), y # x PROVE \E j \in Added(v, w) : w[j] = y
    <2>1. PICK i \in 1 .. Len(u) : y = u[i]
        BY <1>1 DEF Elements
    <2>2. i \in 2 .. Len(u)
        BY <1>1, <1>7, <2>1
    <2>3. Len(ms) + i \in Added(v, w)
        BY <1>1, <1>2, <1>3, <2>2 DEF Added
    <2>4. QED
        BY <1>2, <2>1, <2>3
<1>8. QED
    BY <1>2, <1>5, <1>6, <1>7 DEF w, v, Extends

\* The error messages and the repair are tool messages.
LEMMA ToolSeqs ==
    ASSUME NEW a, NEW ms \in Seq(Messages(a)), NEW calls \in CallSeqs(a), NEW ids
    PROVE /\ ErrorMessages(calls, ids) \in Seq(ToolMsgs(a))
          /\ repairInvalidToolCalls(ms) \in Seq(ToolMsgs(a))
          /\ <<>> \in Seq(ToolMsgs(a))
<1>1. ASSUME NEW f \in Seq(Messages(a)), \A m \in Elements(f) : m.k = "tool" PROVE f \in Seq(ToolMsgs(a))
    <2>1. ASSUME NEW i \in 1 .. Len(f) PROVE f[i] \in ToolMsgs(a)
        <3>1. f[i] \in Messages(a) /\ f[i] \in Elements(f)
            BY DEF Elements
        <3>2. QED
            BY <1>1, <3>1, MessageKinds
    <2>2. QED
        BY <2>1
<1>2. QED
    BY <1>1, ErrorMessagesFacts, RepairFacts

\* The message the model node makes of the response.
NewAI == AI(round + 1, mintAIMessageID(round + 1), answer.calls, answer.invalid)

\* The model's response is a message with the next number.
LEMMA NewAIFacts ==
    ASSUME Types
    PROVE /\ NewAI \in Messages(agent) /\ NewAI.k = "ai" /\ NewAI.r = round + 1
          /\ NewAI.id \in {0, round + 1} /\ (HasHITL => NewAI.id = round + 1)
          /\ NewAI.calls = answer.calls /\ answer.calls \in CallSeqs(agent)
          /\ TextAI \in Messages(agent) /\ TextAI.k = "ai" /\ TextAI.r = 0 /\ TextAI.id = 0
<1>1. answer.calls \in CallSeqs(agent) /\ answer.invalid \in BOOLEAN /\ round + 1 \in Nat
    BY DEF Types, Answers
<1>2. mintAIMessageID(round + 1) \in {0, round + 1} /\ (HasHITL => mintAIMessageID(round + 1) = round + 1)
    BY DEF mintAIMessageID
<1>3. mintAIMessageID(round + 1) \in Nat
    BY <1>1, <1>2
<1>4. NewAI \in AIMsgs(agent)
    BY <1>1, <1>3 DEF NewAI, AI, AIMsgs
<1>5. <<>> \in CallSeqs(agent)
    BY DEF CallSeqs
<1>6. TextAI \in AIMsgs(agent)
    BY <1>5 DEF TextAI, AI, AIMsgs
<1>7. QED
    BY <1>1, <1>2, <1>4, <1>6 DEF NewAI, TextAI, AI, Messages

\* What the model node gives the reducer is new, and is appended.
LEMMA ModelAppends ==
    ASSUME Types, Rounds, NEW S, S \subseteq ToolMsgs(agent) \cup {TextAI},
           NEW u, Led(u, NewAI, S)
    PROVE Extends(msgs, NewAI, MessagesReducer(msgs, u), u, S, Messages(agent))
<1> DEFINE M == Messages(agent)
<1>1. msgs \in Seq(M) /\ NewAI \in M /\ S \subseteq M
    BY NewAIFacts DEF Types, Messages
<1>2. u \in Seq(M)
    BY <1>1 DEF Led
<1>3. ASSUME NEW i \in DOMAIN msgs, NEW j \in DOMAIN u PROVE ~Same(msgs[i], u[j])
    <2>1. CASE j = 1
        <3>1. u[j] = NewAI
            BY <2>1 DEF Led
        <3>2. ASSUME Same(msgs[i], NewAI) PROVE FALSE
            <4>1. msgs[i].k = "ai" /\ msgs[i].id = NewAI.id /\ NewAI.id = round + 1
                BY <3>2, NewAIFacts DEF Same
            <4>2. i \in AIs(msgs)
                BY <4>1 DEF AIs
            <4>3. msgs[i].r \in 0 .. round /\ msgs[i].id \in {0, msgs[i].r}
                BY <4>2 DEF Rounds, RoundsOf
            <4>4. round \in Nat
                BY DEF Types
            <4>5. QED
                BY <4>1, <4>3, <4>4
        <3>3. QED
            BY <3>1, <3>2
    <2>2. CASE j # 1
        <3>1. j \in 2 .. Len(u)
            BY <1>2, <2>2
        <3>2. u[j] \in S
            BY <3>1 DEF Led
        <3>3. u[j] \in ToolMsgs(agent) \/ u[j] = TextAI
            BY <3>2
        <3>4. u[j].k = "tool" \/ u[j].id = 0
            BY <3>3, NewAIFacts DEF ToolMsgs
        <3>5. QED
            BY <3>4 DEF Same
    <2>3. QED
        BY <2>1, <2>2
<1> HIDE DEF M
<1>4. MessagesReducer(msgs, u) = msgs \o u
    BY <1>1, <1>2, <1>3, ReducerFresh
<1>5. Extends(msgs, NewAI, msgs \o u, u, S, M)
    BY <1>1, LedGrows
<1>6. QED
    BY <1>4, <1>5 DEF M

\* What the model node commits: nothing, or its response and the tool messages
\* that answer its calls; a closing message only when the run ends.
Responds ==
    LET stopped == BlockedCalls(answer.calls, counts)
        mid == Append(msgs, NewAI)
    IN  /\ msgs' \in Seq(Messages(agent)) /\ Grows(mid, msgs')
        /\ \A j \in Added(mid, msgs') : msgs'[j] \in ToolMsgs(agent) \/ msgs'[j] = TextAI
        /\ \/ /\ StructuredDone(answer) /\ node' \notin {"hitl", "tools"}
              /\ UNCHANGED <<counts, blocked>>
           \/ /\ ~StructuredDone(answer)
              /\ counts' = CountToolCalls(answer.calls, CountModelCall(counts))
              /\ blocked' = blocked \cup {<<round + 1, i>> : i \in stopped}
              /\ node' \in {"hitl", "tools"} =>
                    /\ node' = RouteFromModel(msgs', response)
                    /\ \A j \in Added(mid, msgs') : msgs'[j] \in ToolMsgs(agent)
                    /\ \A i \in stopped : \E j \in Added(mid, msgs') :
                          msgs'[j].k = "tool" /\ msgs'[j].call = i

LEMMA ModelNodeFacts ==
    ASSUME Types, Rounds, ModelNode
    PROVE /\ UNCHANGED <<agent, edited, executed, verdicts>> /\ round' = round + 1
          /\ response' \in BOOLEAN
          /\ phase' \in Phases /\ node' \in NodeNames /\ out' = NotStarted /\ resumed' \in BOOLEAN
          /\ attempt' \in 0 .. agent'.modelAttempts - 1 /\ answer' = NoAnswer /\ answer' \in Answers(agent')
          /\ \/ UNCHANGED <<msgs, counts, blocked>> /\ node' = "model"
             \/ Responds
<1> DEFINE calls == answer.calls
           retry == IF StructuredError(answer) THEN ErrorMessages(calls, Matched(calls)) ELSE <<>>
           repaired == repairInvalidToolCalls(Append(msgs, NewAI))
           stopped == BlockedCalls(calls, counts)
           others == {i \in DOMAIN calls : calls[i] \notin agent.calls.names}
           ends == stopped # {} /\ agent.calls.exit = "end"
           raises == \/ StructuredError(answer) /\ ~agent.handleErrors
                     \/ stopped # {} /\ agent.calls.exit = "error"
                     \/ ends /\ others # {}
           T == ToolMsgs(agent)
           done == <<NewAI>> \o ErrorMessages(calls, Matched(calls))
           errors == <<NewAI>> \o retry \o repaired \o ErrorMessages(calls, stopped)
<1> USE DEF NodeNames
<1>1. /\ calls \in CallSeqs(agent) /\ Append(msgs, NewAI) \in Seq(Messages(agent))
      /\ NewAI.k = "ai"
    <2>1. msgs \in Seq(Messages(agent))
        BY DEF Types
    <2>2. NewAI \in Messages(agent) /\ calls \in CallSeqs(agent) /\ NewAI.k = "ai"
        BY NewAIFacts
    <2>3. QED
        BY <2>1, <2>2
<1>2. /\ ErrorMessages(calls, Matched(calls)) \in Seq(T) /\ retry \in Seq(T) /\ repaired \in Seq(T)
      /\ ErrorMessages(calls, stopped) \in Seq(T)
    BY <1>1, ToolSeqs
<1>3. /\ FinalNode \in {"after_agent", "END"}
      /\ RouteFromModel(msgs', response) \in NodeNames
    BY Routes
<1>4. UNCHANGED <<agent, edited, executed, verdicts>> /\ round' = round + 1 /\ response' \in BOOLEAN
    BY DEF ModelNode, Fail, Types
<1>5. CASE /\ StructuredDone(answer)
           /\ msgs' = MessagesReducer(msgs, done)
           /\ Goto(FinalNode)
           /\ UNCHANGED <<agent, counts, edited, blocked>>
    <2>1. Led(done, NewAI, T)
        BY <1>2, LedBuilds
    <2> HIDE DEF done, T
    <2>2. Extends(msgs, NewAI, MessagesReducer(msgs, done), done, T, Messages(agent))
        BY <2>1, ModelAppends DEF T
    <2>3. Responds
        <3>1. msgs' \in Seq(Messages(agent)) /\ Grows(Append(msgs, NewAI), msgs')
            BY <1>5, <2>2 DEF Extends
        <3>2. \A j \in Added(Append(msgs, NewAI), msgs') : msgs'[j] \in ToolMsgs(agent)
            BY <1>5, <2>2 DEF Extends, T
        <3>3. node' \notin {"hitl", "tools"}
            BY <1>3, <1>5 DEF Goto
        <3>4. QED
            BY <1>5, <3>1, <3>2, <3>3 DEF Responds
    <2>4. QED
        BY <1>3, <1>4, <1>5, <2>3, GotoFacts
<1>6. CASE Fail /\ UNCHANGED blocked
    <2>1. node' = "model"
        BY <1>6 DEF Fail, ModelNode
    <2>2. QED
        BY <1>4, <1>6, <2>1, FailFacts
<1>7. CASE /\ ~StructuredDone(answer)
           /\ msgs' = MessagesReducer(msgs, errors \o (IF ends THEN <<TextAI>> ELSE <<>>))
           /\ counts' = CountToolCalls(calls, CountModelCall(counts))
           /\ blocked' = blocked \cup {<<round + 1, i>> : i \in stopped}
           /\ Goto(IF ends THEN FinalNode ELSE RouteFromModel(msgs', response))
           /\ UNCHANGED <<agent, response, edited>>
    <2> DEFINE S == IF ends THEN T \cup {TextAI} ELSE T
               all == errors \o (IF ends THEN <<TextAI>> ELSE <<>>)
    <2>1. Led(all, NewAI, S) /\ Elements(ErrorMessages(calls, stopped)) \subseteq Elements(all)
        <3> HIDE DEF T, ends, retry, repaired, stopped, calls
        <3>1. T \subseteq S
            OBVIOUS
        <3>2. (IF ends THEN <<TextAI>> ELSE <<>>) \in Seq(S)
            <4>1. CASE ends
                BY <4>1
            <4>2. CASE ~ends
                BY <4>2
            <4> HIDE DEF S
            <4>3. QED
                BY <4>1, <4>2
        <3> HIDE DEF S
        <3>3. retry \in Seq(S) /\ repaired \in Seq(S) /\ ErrorMessages(calls, stopped) \in Seq(S)
            BY <1>2, <3>1
        <3>4. Led(<<NewAI>> \o retry, NewAI, S)
            BY <3>3, LedBuilds
        <3>5. Led(<<NewAI>> \o retry \o repaired, NewAI, S)
            BY <3>3, <3>4, LedBuilds
        <3>6. /\ Led(<<NewAI>> \o retry \o repaired \o ErrorMessages(calls, stopped), NewAI, S)
              /\ Elements(ErrorMessages(calls, stopped)) \subseteq
                     Elements(<<NewAI>> \o retry \o repaired \o ErrorMessages(calls, stopped))
            BY <3>3, <3>5, LedBuilds
        <3>7. QED
            BY <3>2, <3>6, LedBuilds
    <2> HIDE DEF errors, all, T
    <2>2. S \subseteq ToolMsgs(agent) \cup {TextAI}
        BY DEF T
    <2> HIDE DEF S
    <2>3. Extends(msgs, NewAI, MessagesReducer(msgs, all), all, S, Messages(agent))
        BY <2>1, <2>2, ModelAppends
    <2>4. msgs' = MessagesReducer(msgs, all)
        BY <1>7 DEF all
    <2>5. /\ msgs' \in Seq(Messages(agent)) /\ Grows(Append(msgs, NewAI), msgs')
          /\ \A j \in Added(Append(msgs, NewAI), msgs') : msgs'[j] \in S
          /\ \A y \in Elements(all) : y # NewAI => \E j \in Added(Append(msgs, NewAI), msgs') : msgs'[j] = y
        BY <2>3, <2>4 DEF Extends
    <2>6. /\ node' = IF ends THEN FinalNode ELSE RouteFromModel(msgs', response)
          /\ node' \in {"hitl", "tools"} => ~ends
        BY <1>3, <1>7 DEF Goto
    <2>7. ASSUME NEW i \in stopped
          PROVE \E j \in Added(Append(msgs, NewAI), msgs') : msgs'[j].k = "tool" /\ msgs'[j].call = i
        <3>1. i \in stopped \cap DOMAIN calls
            BY <2>7 DEF BlockedCalls, Limited
        <3>2. ToolMsg(i, calls[i]) \in Elements(ErrorMessages(calls, stopped))
            BY <1>1, <3>1, ErrorMessagesFacts
        <3>3. ToolMsg(i, calls[i]) # NewAI /\ ToolMsg(i, calls[i]).k = "tool" /\ ToolMsg(i, calls[i]).call = i
            BY <1>1 DEF ToolMsg
        <3>4. PICK j \in Added(Append(msgs, NewAI), msgs') : msgs'[j] = ToolMsg(i, calls[i])
            BY <2>1, <2>5, <3>2, <3>3
        <3>5. QED
            BY <3>3, <3>4
    <2>8. Responds
        <3>1. \A j \in Added(Append(msgs, NewAI), msgs') : msgs'[j] \in ToolMsgs(agent) \/ msgs'[j] = TextAI
            BY <2>2, <2>5
        <3>2. node' \in {"hitl", "tools"} =>
                 \A j \in Added(Append(msgs, NewAI), msgs') : msgs'[j] \in ToolMsgs(agent)
            BY <2>5, <2>6 DEF S, T
        <3>3. node' \in {"hitl", "tools"} => node' = RouteFromModel(msgs', response)
            BY <2>6
        <3> HIDE DEF ends
        <3>4. QED
            BY <1>7, <2>5, <2>7, <3>1, <3>2, <3>3 DEF Responds
    <2>9. (IF ends THEN FinalNode ELSE RouteFromModel(msgs', response)) \in NodeNames
        BY <1>3
    <2>10. QED
        <3> HIDE DEF ends, NodeNames
        <3>1. QED
            BY <1>4, <1>7, <2>8, <2>9, GotoFacts
<1>8. QED
    <2>1. \/ /\ StructuredDone(answer)
             /\ msgs' = MessagesReducer(msgs, done)
             /\ Goto(FinalNode)
             /\ UNCHANGED <<agent, counts, edited, blocked>>
          \/ Fail /\ UNCHANGED blocked
          \/ /\ ~StructuredDone(answer)
             /\ msgs' = MessagesReducer(msgs, errors \o (IF ends THEN <<TextAI>> ELSE <<>>))
             /\ counts' = CountToolCalls(calls, CountModelCall(counts))
             /\ blocked' = blocked \cup {<<round + 1, i>> : i \in stopped}
             /\ Goto(IF ends THEN FinalNode ELSE RouteFromModel(msgs', response))
             /\ UNCHANGED <<agent, response, edited>>
        BY Zenon DEF ModelNode, NewAI
    <2>2. QED
        BY <1>5, <1>6, <1>7, <2>1

\* ns adds tool messages to ms, and nothing else.
AddsTools(ms, ns) ==
    /\ ns \in Seq(Messages(agent)) /\ Grows(ms, ns)
    /\ \A j \in Added(ms, ns) : ns[j] \in ToolMsgs(agent) /\ ns[j].call > 0

\* The review returns the reviewed message as it was, which replaces itself, and
\* the answers of the reviewer.
LEMMA ReviewAppends ==
    ASSUME Types, Rounds, Current, node = "hitl", NEW ids,
           ids \subseteq DOMAIN msgs[LastAI(msgs)].calls
    PROVE LET ai == msgs[LastAI(msgs)]
              ns == MessagesReducer(msgs, <<ai>> \o ErrorMessages(ai.calls, ids))
          IN  /\ AddsTools(msgs, ns)
              /\ \A i \in ids : \E j \in Added(msgs, ns) : ns[j].k = "tool" /\ ns[j].call = i
<1> DEFINE M == Messages(agent)
           ai == msgs[LastAI(msgs)]
           errors == ErrorMessages(ai.calls, ids)
           new == <<ai>> \o errors
           ns == MessagesReducer(msgs, new)
<1>1. msgs \in Seq(M) /\ AIs(msgs) # {} /\ ai.r = round /\ round # 0 /\ HasHITL
    BY DEF Types, Current
<1>2. LastAI(msgs) \in AIs(msgs) /\ LastAI(msgs) \in DOMAIN msgs
    BY <1>1, LastAIFacts
<1>3. ai \in M /\ ai.k = "ai" /\ ai.id = ai.r /\ ai.id # 0 /\ ai.calls \in CallSeqs(agent)
    <2>1. ai \in M
        BY <1>1, <1>2
    <2>2. ai.k = "ai"
        BY <1>2 DEF AIs
    <2>3. ai.id = ai.r
        BY <1>1, <1>2 DEF Rounds, RoundsOf
    <2>4. ai \in AIMsgs(agent)
        BY <2>1, <2>2, MessageKinds
    <2>5. QED
        BY <1>1, <2>1, <2>2, <2>3, <2>4 DEF AIMsgs
<1>4. /\ errors \in Seq(M) /\ errors \in Seq(ToolMsgs(agent))
      /\ \A m \in Elements(errors) : m.k = "tool" /\ m.call > 0
      /\ \A i \in ids \cap DOMAIN ai.calls : ToolMsg(i, ai.calls[i]) \in Elements(errors)
    <2>1. \A i \in ids : i > 0
        BY <1>3, CallsFacts
    <2>2. QED
        BY <1>1, <1>3, <2>1, ErrorMessagesFacts, ToolSeqs
<1>5. new \in Seq(M) /\ Elements(new) = {ai} \cup Elements(errors)
    <2> DEFINE one == <<ai>>
    <2>1. one \in Seq(M) /\ Elements(one) = {ai}
        BY <1>3 DEF Elements
    <2> HIDE DEF M, ai, errors, one
    <2>2. one \o errors \in Seq(M) /\ Elements(one \o errors) = {ai} \cup Elements(errors)
        BY <1>4, <2>1, ConcatElements
    <2>3. QED
        BY <2>2 DEF one
<1>6. ASSUME NEW i \in DOMAIN msgs, NEW j \in DOMAIN new, Same(msgs[i], new[j]) PROVE new[j] = msgs[i]
    <2>1. new[j] \in Elements(new)
        BY DEF Elements
    <2>2. new[j] = ai
        BY <1>4, <1>5, <1>6, <2>1 DEF Same
    <2>3. i \in AIs(msgs) /\ msgs[i].id = ai.id
        BY <1>6, <2>2 DEF Same, AIs
    <2>4. msgs[i].r = ai.r
        BY <1>1, <2>3, <1>3 DEF Rounds, RoundsOf
    <2>5. i = LastAI(msgs)
        BY <1>1, <1>2, <2>3, <2>4 DEF Rounds, RoundsOf
    <2>6. QED
        BY <2>2, <2>5
<1> HIDE DEF M, ai, errors, new, ns
<1>7. Reduced(msgs, new, ns, M)
    BY <1>1, <1>5, <1>6, ReducerFacts DEF ns
<1>8. Knows(msgs, ai)
    BY <1>2, <1>3 DEF Same, ai, Knows
<1>9. ASSUME NEW i \in Added(msgs, ns) PROVE ns[i] \in ToolMsgs(agent) /\ ns[i].call > 0
    <2>1. ns[i] \in Elements(errors)
        BY <1>5, <1>7, <1>8, <1>9 DEF Reduced
    <2>2. QED
        BY <1>4, <2>1 DEF Elements
<1>10. ASSUME NEW i \in ids PROVE \E j \in Added(msgs, ns) : ns[j].k = "tool" /\ ns[j].call = i
    <2> DEFINE m == ToolMsg(i, ai.calls[i])
    <2>1. m \in Elements(errors) /\ m.k = "tool" /\ m.call = i
        BY <1>4, <1>10 DEF ToolMsg, ai
    <2>2. ~Knows(msgs, m)
        BY <2>1 DEF Same, Knows
    <2> HIDE DEF m
    <2>3. PICK j \in Added(msgs, ns) : ns[j] = m
        BY <1>5, <1>7, <2>1, <2>2 DEF Reduced
    <2>4. QED
        BY <2>1, <2>3
<1>11. QED
    BY <1>7, <1>9, <1>10 DEF AddsTools, Reduced, ns, new, errors, ai, M

\* The results of the tools node are tool messages.
LEMMA ToolsAppend ==
    ASSUME Types, Current, Workers, node = "tools", out # NotStarted,
           \A i \in DOMAIN out : out[i].st = "done"
    PROVE LET ns == msgs \o FlattenSeq([i \in DOMAIN Calls |->
                              IF i \in DOMAIN out THEN <<ToolMsg(i, out[i].name)>> ELSE <<>>])
          IN  /\ AddsTools(msgs, ns)
              /\ \A i \in DOMAIN out : \E j \in Added(msgs, ns) : ns[j].k = "tool" /\ ns[j].call = i
<1> DEFINE M == ToolMsgs(agent)
           n == Len(Calls)
           I == {i \in 1 .. n : i \in DOMAIN out}
           f == [i \in 1 .. n |-> ToolMsg(i, out[i].name)]
           s == [i \in 1 .. n |-> IF i \in I THEN <<f[i]>> ELSE <<>>]
<1>1. msgs \in Seq(Messages(agent)) /\ AIs(msgs) # {}
    BY DEF Types, Current
<1>2. LastAI(msgs) \in AIs(msgs) /\ LastAI(msgs) \in DOMAIN msgs
    BY <1>1, LastAIFacts
<1>3. Calls \in CallSeqs(agent)
    <2>1. msgs[LastAI(msgs)] \in AIMsgs(agent)
        BY <1>1, <1>2, MessageKinds DEF AIs
    <2>2. QED
        BY <2>1 DEF Calls, AIMsgs
<1>4. n \in Nat /\ DOMAIN Calls = 1 .. n
    BY <1>3 DEF CallSeqs
<1>5. ASSUME NEW i \in I PROVE f[i] \in M /\ f[i].k = "tool" /\ f[i].call = i /\ i > 0
    <2>1. i \in DOMAIN out /\ i \in Int /\ i > 0
        BY <1>4, <1>5
    <2>2. out[i] \in Outcomes(agent) /\ out[i].st = "done"
        BY <2>1 DEF Workers
    <2>3. out[i].name \in Names(agent)
        BY <2>2 DEF Outcomes
    <2>4. QED
        BY <1>5, <2>1, <2>3 DEF ToolMsg, ToolMsgs
<1>6. Selects(s, f, I, n, M)
    BY <1>4, <1>5 DEF Selects
<1>7. s = [i \in DOMAIN Calls |-> IF i \in DOMAIN out THEN <<ToolMsg(i, out[i].name)>> ELSE <<>>]
    BY <1>4
<1> HIDE DEF f, s, n
<1>8. DOMAIN out \subseteq I
    BY <1>1, <1>4 DEF Workers, unansweredToolCalls, Calls
<1> HIDE DEF I
<1>9. FlattenSeq(s) \in Seq(M) /\ Elements(FlattenSeq(s)) = {f[i] : i \in I}
    BY <1>6, SelectionFacts
<1> DEFINE g == FlattenSeq(s)
<1>10. g \in Seq(Messages(agent))
    BY <1>9 DEF Messages
<1> HIDE DEF g
<1>11. Adds(msgs, g, msgs \o g, Messages(agent))
    BY <1>1, <1>10, ConcatGrows
<1>12. \A x \in Elements(g) : x \in M /\ x.call > 0
    BY <1>5, <1>9 DEF g
<1>13. AddsTools(msgs, msgs \o g)
    BY <1>11, <1>12 DEF AddsTools, Adds
<1>14. ASSUME NEW i \in DOMAIN out
       PROVE \E j \in Added(msgs, msgs \o g) : (msgs \o g)[j].k = "tool" /\ (msgs \o g)[j].call = i
    <2>1. f[i] \in Elements(g) /\ f[i].k = "tool" /\ f[i].call = i
        BY <1>5, <1>9, <1>8 DEF g
    <2>2. QED
        BY <1>11, <2>1 DEF Adds
<1>15. QED
    BY <1>7, <1>13, <1>14 DEF g

\* Appending a message, seen as growth; a history grows into itself.
LEMMA AppendGrows ==
    ASSUME NEW M, NEW ms \in Seq(M), NEW x \in M
    PROVE /\ Append(ms, x) \in Seq(M) /\ Grows(ms, Append(ms, x))
          /\ \A i \in Added(ms, Append(ms, x)) : Append(ms, x)[i] = x
          /\ Grows(ms, ms) /\ Added(ms, ms) = {}
BY DEF Grows, Added

\* A step that goes to a node.
LEMMA BaseGoto ==
    ASSUME Base, NEW n \in NodeNames, Goto(n),
           UNCHANGED <<agent, round, counts, response>>, DOMAIN edited' \subseteq 1 .. 2,
           msgs' \in Seq(Messages(agent)), Grows(msgs, msgs'),
           \A i \in Added(msgs, msgs') : msgs'[i].k = "ai" => msgs'[i] = TextAI,
           n = "hitl" => HasHITL,
           n \in {"hitl", "tools"} =>
               node \in {"hitl", "tools"} /\ \A i \in Added(msgs, msgs') : msgs'[i].k = "tool"
    PROVE Base'
<1>1. Types'
    BY GotoFacts DEF Base, Types
<1>2. HasHITL' = HasHITL /\ node' = n /\ out' = NotStarted
    BY DEF HasHITL, Goto
<1>3. Rounds'
    <2>1. RoundsOf(msgs', round, HasHITL)
        BY RoundsGrow DEF Base, Types, Rounds
    <2>2. QED
        BY <1>2, <2>1 DEF Rounds
<1>4. Current'
    <2>1. n = "hitl" => HasHITL'
        BY <1>2
    <2>2. ASSUME n \in {"hitl", "tools"}
          PROVE AIs(msgs') # {} /\ msgs'[LastAI(msgs')].r = round' /\ round' # 0
        <3>1. AIs(msgs) # {} /\ msgs[LastAI(msgs)].r = round /\ round # 0
            BY <2>2 DEF Base, Current
        <3>2. \A i \in Added(msgs, msgs') : msgs'[i].k # "ai"
            BY <2>2
        <3>3. AIs(msgs') = AIs(msgs) /\ msgs'[LastAI(msgs')] = msgs[LastAI(msgs)]
            BY <3>1, <3>2, GrowsByTools DEF Base, Types
        <3>4. QED
            BY <3>1, <3>3
    <2>3. QED
        BY <1>2, <2>1, <2>2 DEF Current
<1>5. Workers'
    BY <1>2 DEF Workers
<1>6. QED
    BY <1>1, <1>3, <1>4, <1>5 DEF Base

\* A step that fails.
LEMMA BaseFail ==
    ASSUME Base, Fail, round' = round
    PROVE Base'
<1>1. Types'
    BY FailFacts DEF Base, Types
<1>2. Rounds'
    BY DEF Base, Rounds, RoundsOf, AIs, Fail, HasHITL
<1>3. Current'
    BY DEF Base, Current, AIs, LastAI, Fail, HasHITL
<1>4. Workers'
    BY DEF Workers, Fail
<1>5. QED
    BY <1>1, <1>2, <1>3, <1>4 DEF Base

\* A step that leaves the state and the node alone.
LEMMA BaseKeep ==
    ASSUME Base, UNCHANGED <<channelVars, node, round>>, phase' \in Phases, resumed' \in BOOLEAN,
           attempt' \in 0 .. agent.modelAttempts - 1, answer' \in Answers(agent), Workers'
    PROVE Base'
<1> USE DEF channelVars
<1>1. Types'
    BY DEF Base, Types
<1>2. Rounds'
    BY DEF Base, Rounds, RoundsOf, AIs, HasHITL
<1>3. Current'
    BY DEF Base, Current, AIs, LastAI, HasHITL
<1>4. QED
    BY <1>1, <1>2, <1>3 DEF Base

\* The calls of the message at work.
LEMMA AtWork ==
    ASSUME Types, Current, node \in {"hitl", "tools"}
    PROVE /\ msgs[LastAI(msgs)] \in AIMsgs(agent) /\ Calls \in CallSeqs(agent)
          /\ LastAI(msgs) \in AIs(msgs) /\ LastAI(msgs) \in DOMAIN msgs
          /\ DOMAIN Calls \subseteq 1 .. 2 /\ \A i \in DOMAIN Calls : Calls[i] \in agent.names
          /\ unansweredToolCalls(msgs) = DOMAIN Calls \ Answered(msgs)
<1>1. msgs \in Seq(Messages(agent)) /\ AIs(msgs) # {}
    BY DEF Types, Current
<1>2. LastAI(msgs) \in AIs(msgs) /\ LastAI(msgs) \in DOMAIN msgs
    BY <1>1, LastAIFacts
<1>3. msgs[LastAI(msgs)] \in AIMsgs(agent)
    BY <1>1, <1>2, MessageKinds DEF AIs
<1>4. Calls \in CallSeqs(agent)
    BY <1>3 DEF Calls, AIMsgs
<1>5. DOMAIN Calls \subseteq 1 .. 2 /\ \A i \in DOMAIN Calls : Calls[i] \in agent.names
    BY <1>4, CallsFacts
<1>6. unansweredToolCalls(msgs) = DOMAIN Calls \ Answered(msgs)
    BY <1>1 DEF unansweredToolCalls, Calls
<1>7. QED
    BY <1>2, <1>3, <1>4, <1>5, <1>6

\* The constants' shape, for the agent at hand.
LEMMA Shape ==
    ASSUME agent \in Agents
    PROVE AgentShape(agent)
BY AgentsAssumption

\* Counting keeps the counts' type.
LEMMA CountFacts ==
    ASSUME Types, NEW c \in Counts
    PROVE /\ CountModelCall(c) \in Counts /\ CountModelCall(c).tm = c.tm + 1
          /\ CountModelCall(c).tt = c.tt /\ CountModelCall(c).rt = c.rt
          /\ CountToolCalls(answer.calls, c) \in Counts
          /\ CountToolCalls(answer.calls, c).tm = c.tm
          /\ CountToolCalls(answer.calls, c).tt = c.tt + Cardinality(AllowedCalls(answer.calls, c))
          /\ IsFiniteSet(Limited(answer.calls)) /\ IsFiniteSet(AllowedCalls(answer.calls, c))
<1>1. c.tm \in Nat /\ c.rm \in Nat /\ c.tt \in Nat /\ c.rt \in Nat
    BY DEF Counts
<1>2. c.tm + 1 \in Nat /\ c.rm + 1 \in Nat
    BY <1>1
<1>3. /\ CountModelCall(c) \in Counts /\ CountModelCall(c).tm = c.tm + 1
      /\ CountModelCall(c).tt = c.tt /\ CountModelCall(c).rt = c.rt
    BY <1>2 DEF CountModelCall, Counts
<1>4. IsFiniteSet(DOMAIN answer.calls)
    BY NewAIFacts, CallsFacts
<1>5. IsFiniteSet(Limited(answer.calls)) /\ IsFiniteSet(AllowedCalls(answer.calls, c))
    <2>1. IsFiniteSet(Limited(answer.calls))
        BY <1>4, FS_Subset DEF Limited
    <2>2. QED
        BY <2>1, FS_Subset DEF AllowedCalls
<1>6. /\ Cardinality(Limited(answer.calls)) \in Nat
      /\ Cardinality(AllowedCalls(answer.calls, c)) \in Nat
    BY <1>5, FS_CardinalityType
<1>7. /\ c.tt + Cardinality(AllowedCalls(answer.calls, c)) \in Nat
      /\ c.rt + Cardinality(Limited(answer.calls)) \in Nat
    BY <1>1, <1>6
<1>8. /\ CountToolCalls(answer.calls, c) \in Counts
      /\ CountToolCalls(answer.calls, c).tm = c.tm
      /\ CountToolCalls(answer.calls, c).tt = c.tt + Cardinality(AllowedCalls(answer.calls, c))
    BY <1>7 DEF CountToolCalls, Counts
<1>9. QED
    BY <1>3, <1>5, <1>8

\* The first layer is inductive: the model node.
LEMMA BaseModelNode ==
    ASSUME Base, ModelNode
    PROVE Base'
<1>1. Types /\ Rounds
    BY DEF Base
<1>2. /\ UNCHANGED <<agent, edited, executed, verdicts>> /\ round' = round + 1
      /\ response' \in BOOLEAN
      /\ phase' \in Phases /\ node' \in NodeNames /\ out' = NotStarted /\ resumed' \in BOOLEAN
      /\ attempt' \in 0 .. agent'.modelAttempts - 1 /\ answer' = NoAnswer /\ answer' \in Answers(agent')
      /\ \/ UNCHANGED <<msgs, counts, blocked>> /\ node' = "model"
         \/ Responds
    BY <1>1, ModelNodeFacts
<1>3. Workers'
    BY <1>2 DEF Workers
<1>4. HasHITL' = HasHITL
    BY <1>2 DEF HasHITL
<1>5. CASE UNCHANGED <<msgs, counts, blocked>> /\ node' = "model"
    <2>1. Types'
        BY <1>1, <1>2, <1>5 DEF Types
    <2>2. Rounds'
        <3>1. \A i \in AIs(msgs) : msgs[i].r \in 0 .. round + 1
            <4>1. \A i \in AIs(msgs) : msgs[i].r \in 0 .. round
                BY <1>1 DEF Rounds, RoundsOf
            <4>2. round \in Nat
                BY <1>1 DEF Types
            <4>3. QED
                BY <4>1, <4>2
        <3>2. RoundsOf(msgs, round + 1, HasHITL)
            BY <1>1, <3>1 DEF Rounds, RoundsOf
        <3>3. QED
            BY <1>2, <1>4, <1>5, <3>2 DEF Rounds
    <2>3. Current'
        BY <1>5 DEF Current
    <2>4. QED
        BY <1>3, <2>1, <2>2, <2>3 DEF Base
<1>6. CASE Responds
    <2> DEFINE mid == Append(msgs, NewAI)
               M == Messages(agent)
    <2>1. /\ msgs' \in Seq(M) /\ Grows(mid, msgs')
          /\ \A j \in Added(mid, msgs') : msgs'[j] \in ToolMsgs(agent) \/ msgs'[j] = TextAI
        BY <1>6 DEF Responds
    <2>2. counts' \in Counts
        <3>1. counts \in Counts
            BY <1>1 DEF Types
        <3>2. CASE counts' = counts
            BY <3>1, <3>2
        <3>3. CASE counts' = CountToolCalls(answer.calls, CountModelCall(counts))
            BY <1>1, <3>1, <3>3, CountFacts
        <3>4. QED
            BY <1>6, <3>2, <3>3 DEF Responds
    <2>3. Types'
        BY <1>1, <1>2, <2>1, <2>2 DEF Types
    <2>4. /\ mid \in Seq(M) /\ RoundsOf(mid, round + 1, HasHITL)
          /\ AIs(mid) = AIs(msgs) \cup {Len(msgs) + 1}
          /\ mid[Len(msgs) + 1] = NewAI /\ LastAI(mid) = Len(msgs) + 1
        BY <1>1, NewAIFacts, RoundsRespond DEF Types, Rounds
    <2> HIDE DEF mid, M
    <2>5. round \in Nat /\ round + 1 \in Nat /\ round + 1 # 0
        BY <1>1 DEF Types
    <2>6. RoundsOf(msgs', round + 1, HasHITL)
        <3>1. \A j \in Added(mid, msgs') : msgs'[j].k = "ai" => msgs'[j] = TextAI
            BY <2>1 DEF ToolMsgs
        <3>2. QED
            BY <2>1, <2>4, <2>5, <3>1, RoundsGrow
    <2>7. Rounds'
        BY <1>2, <1>4, <2>6 DEF Rounds
    <2>8. ASSUME node' \in {"hitl", "tools"}
          PROVE /\ AIs(msgs') # {} /\ msgs'[LastAI(msgs')].r = round'
                /\ node' = RouteFromModel(msgs', response)
        <3>1. /\ \A j \in Added(mid, msgs') : msgs'[j] \in ToolMsgs(agent)
              /\ node' = RouteFromModel(msgs', response)
            BY <1>6, <2>8 DEF Responds, mid
        <3>2. \A j \in Added(mid, msgs') : msgs'[j].k # "ai"
            BY <3>1 DEF ToolMsgs
        <3>3. AIs(mid) # {}
            BY <2>4
        <3>4. AIs(msgs') = AIs(mid) /\ msgs'[LastAI(msgs')] = mid[LastAI(mid)]
            BY <2>1, <2>4, <3>2, <3>3, GrowsByTools
        <3>5. msgs'[LastAI(msgs')].r = round + 1
            BY <1>1, <2>4, <3>4, NewAIFacts
        <3>6. QED
            BY <1>2, <3>1, <3>3, <3>4, <3>5
    <2>9. node' = "hitl" => HasHITL'
        BY <1>4, <2>8, Routes
    <2>10. Current'
        BY <1>2, <2>5, <2>8, <2>9 DEF Current
    <2>11. QED
        BY <1>3, <2>3, <2>7, <2>10 DEF Base
<1>7. QED
    BY <1>2, <1>5, <1>6

\* The review returns to the route; so do the edits it leaves.
LEMMA ReviewStep ==
    ASSUME Base, node = "hitl", NEW d \in [Reviewable(msgs) -> Decisions]
    PROVE LET ai == msgs[LastAI(msgs)]
              answers == {i \in DOMAIN d : d[i].type \in {"reject", "respond"}}
              after == MessagesReducer(msgs, <<ai>> \o ErrorMessages(ai.calls, answers))
          IN  /\ AddsTools(msgs, after)
              /\ \A i \in answers : \E j \in Added(msgs, after) : after[j].k = "tool" /\ after[j].call = i
              /\ DOMAIN d = Reviewable(msgs) /\ DOMAIN EditsOf(d) \subseteq DOMAIN d /\ DOMAIN d \subseteq 1 .. 2
<1>1. DOMAIN d = Reviewable(msgs) /\ Reviewable(msgs) \subseteq DOMAIN msgs[LastAI(msgs)].calls
    BY DEF Reviewable
<1>2. DOMAIN d \subseteq 1 .. 2
    BY <1>1, AtWork DEF Base, Calls
<1>3. DOMAIN EditsOf(d) \subseteq DOMAIN d
    BY DEF EditsOf
<1> DEFINE answers == {i \in DOMAIN d : d[i].type \in {"reject", "respond"}}
<1>4. answers \subseteq DOMAIN msgs[LastAI(msgs)].calls
    BY <1>1
<1> HIDE DEF answers
<1>5. LET ai == msgs[LastAI(msgs)]
          after == MessagesReducer(msgs, <<ai>> \o ErrorMessages(ai.calls, answers))
      IN  /\ AddsTools(msgs, after)
          /\ \A i \in answers : \E j \in Added(msgs, after) : after[j].k = "tool" /\ after[j].call = i
    BY <1>4, ReviewAppends DEF Base
<1>6. QED
    BY <1>1, <1>2, <1>3, <1>5 DEF answers

\* The first layer is inductive.
LEMMA BaseStep ==
    ASSUME Base, [Next]_vars
    PROVE Base'
<1>1. Types /\ Rounds /\ Current /\ Workers /\ msgs \in Seq(Messages(agent)) /\ AgentShape(agent)
    BY Shape DEF Base, Types
<1>2. Grows(msgs, msgs) /\ Added(msgs, msgs) = {} /\ TextAI \in Messages(agent) /\ Human \in Messages(agent)
    BY <1>1, NewAIFacts, AppendGrows DEF Messages
<1>3. FinalNode \in {"after_agent", "END"}
    BY DEF FinalNode
<1>4. ASSUME msgs' = msgs PROVE unansweredToolCalls(msgs') = unansweredToolCalls(msgs)
    BY <1>4
<1>5. CASE LimitEnds
    <2>1. CASE Fail
        BY <1>5, <2>1, BaseFail DEF LimitEnds, historyVars
    <2>2. CASE /\ msgs' = Append(msgs, TextAI) /\ Goto(FinalNode) /\ UNCHANGED <<agent, counts, response, edited>>
        <3>1. /\ msgs' \in Seq(Messages(agent)) /\ Grows(msgs, msgs')
              /\ \A i \in Added(msgs, msgs') : msgs'[i] = TextAI
            BY <1>1, <1>2, <2>2, AppendGrows
        <3>2. round' = round /\ DOMAIN edited' \subseteq 1 .. 2
            BY <1>1, <1>5, <2>2 DEF LimitEnds, historyVars, Types
        <3>3. FinalNode \in NodeNames /\ FinalNode \notin {"hitl", "tools"}
            BY <1>3 DEF NodeNames
        <3>4. QED
            BY <2>2, <3>1, <3>2, <3>3, BaseGoto
    <2>3. QED
        BY <1>5, <2>1, <2>2 DEF LimitEnds
<1>6. CASE CallModel
    <2>1. agent.modelAttempts \in Nat \ {0} /\ agent.tools \subseteq agent.names
        BY <1>1 DEF AgentShape
    <2>2. CASE Fail
        BY <1>6, <2>2, BaseFail DEF CallModel, historyVars
    <2>3. CASE ~Fail
        <3>1. UNCHANGED <<channelVars, node, phase, out, resumed, round>>
            BY <1>6, <2>3 DEF CallModel, historyVars
        <3>2. attempt' \in 0 .. agent.modelAttempts - 1
            BY <1>1, <1>6, <2>1, <2>3 DEF CallModel, MayRetry, Types
        <3>3. answer' \in Answers(agent)
            BY <1>1, <1>6, <2>1, <2>3, ResponsesFacts DEF CallModel, Types
        <3>4. Workers'
            BY <1>1, <1>4, <3>1 DEF Workers, channelVars
        <3>5. QED
            BY <1>1, <3>1, <3>2, <3>3, <3>4, BaseKeep DEF Types
    <2>4. QED
        BY <2>2, <2>3
<1>7. CASE ModelNode
    BY <1>7, BaseModelNode
<1>8. CASE HITLNode
    <2>1. UNCHANGED <<agent, msgs, counts, response, round>>
        BY <1>8 DEF HITLNode, historyVars
    <2>2. CASE edited' = Empty /\ Goto(RouteFromHITL(msgs, response))
        <3>1. DOMAIN edited' \subseteq 1 .. 2
            BY <2>2 DEF Empty
        <3>2. RouteFromHITL(msgs, response) \in NodeNames /\ RouteFromHITL(msgs, response) # "hitl"
            BY Routes DEF NodeNames
        <3>3. node = "hitl"
            BY <1>8 DEF HITLNode
        <3>4. QED
            BY <1>1, <1>2, <2>1, <2>2, <3>1, <3>2, <3>3, BaseGoto
    <2>3. CASE phase' = "paused" /\ UNCHANGED <<edited, node, attempt, answer, out, resumed>>
        <3>1. node = "hitl"
            BY <1>8 DEF HITLNode
        <3>2. Workers'
            BY <1>1, <2>3, <3>1 DEF Workers
        <3>3. QED
            BY <1>1, <2>1, <2>3, <3>2, BaseKeep DEF channelVars, Types, Phases
    <2>4. QED
        BY <1>8, <2>2, <2>3 DEF HITLNode
<1>9. CASE ResumeReview
    <2>1. node = "hitl" /\ UNCHANGED <<agent, counts, response, round>>
        BY <1>9 DEF ResumeReview
    <2>2. CASE UNCHANGED <<msgs, edited, verdicts, runVars>>
        <3>1. Workers'
            BY <1>1, <2>1, <2>2 DEF Workers, runVars
        <3>2. QED
            BY <1>1, <2>1, <2>2, <3>1, BaseKeep DEF channelVars, runVars, Types
    <2>3. ASSUME NEW d \in [Reviewable(msgs) -> Decisions],
                 LET ai == msgs[LastAI(msgs)]
                     answers == {i \in DOMAIN d : d[i].type \in {"reject", "respond"}}
                     after == MessagesReducer(msgs, <<ai>> \o ErrorMessages(ai.calls, answers))
                 IN  msgs' = after /\ edited' = EditsOf(d) /\ Goto(RouteFromHITL(after, response))
          PROVE Base'
        <3>1. AddsTools(msgs, msgs') /\ DOMAIN edited' \subseteq 1 .. 2
            BY <2>1, <2>3, ReviewStep
        <3>2. Goto(RouteFromHITL(msgs', response))
            BY <2>3
        <3>3. RouteFromHITL(msgs', response) \in NodeNames /\ RouteFromHITL(msgs', response) # "hitl"
            BY Routes DEF NodeNames
        <3>4. /\ msgs' \in Seq(Messages(agent)) /\ Grows(msgs, msgs')
              /\ \A i \in Added(msgs, msgs') : msgs'[i].k = "tool"
            BY <3>1 DEF AddsTools, ToolMsgs
        <3>5. QED
            BY <2>1, <3>1, <3>2, <3>3, <3>4, BaseGoto
    <2>4. QED
        BY <1>9, <2>2, <2>3 DEF ResumeReview
<1>10. CASE ToolsNode
    <2>1. node = "tools" /\ phase = "running" /\ UNCHANGED <<channelVars, phase, node, attempt, answer, resumed, round>>
        BY <1>10 DEF ToolsNode, historyVars
    <2>2. out' = [i \in unansweredToolCalls(msgs) |-> [st |-> "run", n |-> 0]]
        BY <1>10 DEF ToolsNode
    <2>3. Workers'
        BY <1>4, <2>1, <2>2 DEF Workers, Outcomes, channelVars
    <2>4. QED
        BY <1>1, <2>1, <2>3, BaseKeep DEF Types
<1>11. ASSUME NEW i \in 1 .. 2, RunTool(i) PROVE Base'
    <2>1. /\ UNCHANGED <<channelVars, phase, node, attempt, answer, resumed, round>>
          /\ phase = "running" /\ node = "tools" /\ out # NotStarted /\ i \in DOMAIN out /\ out[i].st = "run"
        BY <1>11 DEF RunTool
    <2>2. /\ DOMAIN out = unansweredToolCalls(msgs) /\ i \in DOMAIN Calls
          /\ \A j \in DOMAIN out : out[j] \in Outcomes(agent)
        BY <1>1, <2>1, AtWork DEF Workers
    <2>3. Calls[i] \in Names(agent) /\ "error" \in Names(agent)
        BY <1>1, <2>1, <2>2, AtWork DEF Names
    <2>4. \/ \E st \in {"done", "raised"}, name \in Names(agent) : out' = [out EXCEPT ![i] = [st |-> st, name |-> name]]
          \/ out' = [out EXCEPT ![i].n = @ + 1]
        <3>1. ToolFor(i) \in agent.tools => ToolFor(i) \in Names(agent)
            BY <1>1 DEF AgentShape, Names
        <3>2. QED
            BY <1>11, <2>3, <3>1 DEF RunTool, ToolError, Outcome
    <2>5. DOMAIN out' = DOMAIN out /\ \A j \in DOMAIN out : out'[j] \in Outcomes(agent)
        <3>1. CASE \E st \in {"done", "raised"}, name \in Names(agent) : out' = [out EXCEPT ![i] = [st |-> st, name |-> name]]
            BY <2>2, <3>1 DEF Outcomes
        <3>2. CASE out' = [out EXCEPT ![i].n = @ + 1]
            <4>1. out[i] \in [st : {"run"}, n : Nat]
                BY <2>1, <2>2 DEF Outcomes
            <4>2. [out[i] EXCEPT !.n = @ + 1] \in Outcomes(agent)
                BY <4>1 DEF Outcomes
            <4>3. QED
                BY <2>2, <3>2, <4>2
        <3>3. QED
            BY <2>4, <3>1, <3>2
    <2>6. Workers'
        BY <1>4, <2>1, <2>2, <2>5 DEF Workers, channelVars
    <2>7. QED
        BY <1>1, <2>1, <2>6, BaseKeep DEF Types
<1>12. ASSUME NEW i \in 1 .. 2, ToolAsks(i) PROVE Base'
    <2>1. /\ UNCHANGED <<channelVars, node, attempt, answer, resumed, round>> /\ phase' \in Phases
          /\ out' = NotStarted
        BY <1>12 DEF ToolAsks, Phases
    <2>2. Workers'
        BY <2>1 DEF Workers
    <2>3. QED
        BY <1>1, <2>1, <2>2, BaseKeep DEF Types
<1>13. CASE ResumeTool
    <2>1. /\ UNCHANGED <<channelVars, node, attempt, answer, out, round>> /\ phase' = "running" /\ resumed' = TRUE
          /\ phase = "paused"
        BY <1>13 DEF ResumeTool, historyVars
    <2>2. Workers'
        BY <1>1, <2>1 DEF Workers
    <2>3. QED
        BY <1>1, <2>1, <2>2, BaseKeep DEF Types, Phases
<1>14. CASE ToolsDone
    <2>1. node = "tools" /\ out # NotStarted /\ round' = round
        BY <1>14 DEF ToolsDone, historyVars
    <2>2. CASE Fail
        BY <2>1, <2>2, BaseFail
    <2>3. CASE ~Fail
        <3>1. /\ \A i \in DOMAIN out : out[i].st = "done"
              /\ msgs' = msgs \o FlattenSeq([i \in DOMAIN Calls |->
                    IF i \in DOMAIN out THEN <<ToolMsg(i, out[i].name)>> ELSE <<>>])
              /\ Goto(RouteAfterTools(msgs'))
              /\ UNCHANGED <<agent, counts, response, edited>>
            BY <1>14, <2>3 DEF ToolsDone
        <3>2. AddsTools(msgs, msgs')
            BY <1>1, <2>1, <3>1, ToolsAppend
        <3>3. /\ msgs' \in Seq(Messages(agent)) /\ Grows(msgs, msgs')
              /\ \A i \in Added(msgs, msgs') : msgs'[i].k = "tool"
            BY <3>2 DEF AddsTools, ToolMsgs
        <3>4. RouteAfterTools(msgs') \in NodeNames /\ RouteAfterTools(msgs') \notin {"hitl", "tools"}
            BY Routes DEF NodeNames
        <3>5. DOMAIN edited' \subseteq 1 .. 2
            BY <1>1, <3>1 DEF Types
        <3>6. QED
            BY <2>1, <3>1, <3>3, <3>4, <3>5, BaseGoto
    <2>4. QED
        BY <2>2, <2>3
<1>15. CASE BeforeAgent \/ AfterAgent
    <2>1. PICK n \in {"after_agent", "END", "model"} : Goto(n)
        BY <1>3, <1>15 DEF BeforeAgent, AfterAgent, JumpTarget
    <2>2. UNCHANGED <<agent, msgs, counts, response, edited, round>>
        BY <1>15 DEF BeforeAgent, AfterAgent, channelVars, historyVars
    <2>3. n \in NodeNames /\ n \notin {"hitl", "tools"} /\ DOMAIN edited' \subseteq 1 .. 2
        BY <1>1, <2>1, <2>2 DEF NodeNames, Types
    <2>4. QED
        BY <1>1, <1>2, <2>1, <2>2, <2>3, BaseGoto
<1>16. CASE Invoke
    <2>1. PICK n \in {"before_agent", "model"} : Goto(n)
        BY <1>16 DEF Invoke
    <2>2. UNCHANGED <<agent, counts, response, edited, round>> /\ msgs' = Append(msgs, Human)
        BY <1>16 DEF Invoke, historyVars
    <2>3. n \in NodeNames /\ n \notin {"hitl", "tools"} /\ DOMAIN edited' \subseteq 1 .. 2
        BY <1>1, <2>1, <2>2 DEF NodeNames, Types
    <2>4. /\ msgs' \in Seq(Messages(agent)) /\ Grows(msgs, msgs')
          /\ \A i \in Added(msgs, msgs') : msgs'[i] = Human
        BY <1>1, <1>2, <2>2, AppendGrows
    <2>5. Human.k # "ai"
        BY DEF Human
    <2>6. QED
        BY <2>1, <2>2, <2>3, <2>4, <2>5, BaseGoto
<1>17. CASE Retry
    <2>1. UNCHANGED <<channelVars, node, attempt, answer, out, resumed, round>> /\ phase' = "running" /\ phase = "failed"
        BY <1>17 DEF Retry, historyVars
    <2>2. Workers'
        BY <1>1, <2>1 DEF Workers
    <2>3. QED
        BY <1>1, <2>1, <2>2, BaseKeep DEF Types, Phases
<1>18. CASE Crash
    BY <1>18, BaseFail DEF Crash, historyVars
<1>19. CASE UNCHANGED vars
    <2>1. UNCHANGED <<channelVars, runVars, round>>
        BY <1>19 DEF vars, historyVars
    <2>2. Workers'
        BY <1>1, <1>4, <2>1 DEF Workers, channelVars, runVars
    <2>3. QED
        BY <1>1, <2>1, <2>2, BaseKeep DEF Types, runVars
<1>20. QED
    BY <1>5, <1>6, <1>7, <1>8, <1>9, <1>10, <1>11, <1>12, <1>13, <1>14, <1>15, <1>16, <1>17, <1>18, <1>19
       DEF Next, Running

\* The first layer holds initially.
LEMMA BaseInit ==
    ASSUME Init
    PROVE Base
<1>1. AgentShape(agent) /\ agent \in Agents
    BY Shape DEF Init
<1>2. agent.modelAttempts \in Nat \ {0} /\ agent.tools \subseteq agent.names
    BY <1>1 DEF AgentShape
<1>3. msgs \in Seq(Messages(agent)) /\ AIs(msgs) = {}
    BY DEF Init, AIs
<1>4. NoAnswer \in Answers(agent) /\ 0 \in 0 .. agent.modelAttempts - 1
    BY <1>2, ResponsesFacts
<1>5. Types
    BY <1>1, <1>3, <1>4 DEF Init, Types, Counts, Phases, NodeNames, Empty
<1>6. Rounds
    BY <1>3 DEF Rounds, RoundsOf
<1>7. Current /\ Workers
    BY DEF Init, Current, Workers
<1>8. QED
    BY <1>5, <1>6, <1>7 DEF Base

\* In every behaviour of the agent, whatever its options, the state keeps its
\* shape: no crash, retry, jump or resume leaves a count, an edit or an attempt
\* outside its range, and the history holds human, AI and tool messages only.
THEOREM AgentTypes == Spec => []TypeOK
<1>1. Base => TypeOK
    <2> SUFFICES ASSUME Base PROVE TypeOK
        OBVIOUS
    <2>1. \A i \in DOMAIN msgs : msgs[i].k \in {"human", "ai", "tool"}
        <3>1. \A i \in DOMAIN msgs : msgs[i] \in Messages(agent)
            BY DEF Base, Types
        <3>2. QED
            BY <3>1, MessageKinds
    <2>2. {counts.tm, counts.rm, counts.tt, counts.rt} \subseteq Nat
        BY DEF Base, Types, Counts
    <2>3. QED
        BY <2>1, <2>2 DEF Base, Types, TypeOK, Phases, NodeNames
<1>2. QED
    BY <1>1, BaseInit, BaseStep, PTL DEF Spec
-----------------------------------------------------------------------------
(* The kinds of steps, as the layers above the first see them.              *)

\* The run goes on, stops or resumes where it is.
Stays ==
    /\ UNCHANGED <<channelVars, node, historyVars>>
    /\ answer' # NoAnswer => answer # NoAnswer \/ ~ModelLimitReached

\* The run leaves the review and the tools, or never was there.
Rests ==
    /\ UNCHANGED <<agent, counts, edited, historyVars>>
    /\ node' \notin {"hitl", "tools"} /\ answer' = NoAnswer
    /\ msgs' \in Seq(Messages(agent)) /\ Grows(msgs, msgs')
    /\ \A j \in Added(msgs, msgs') : msgs'[j].k = "ai" => msgs'[j] = TextAI

\* A tool runs for call i.
Runs(i) ==
    /\ UNCHANGED <<channelVars, node, answer, round, verdicts, blocked>>
    /\ node = "tools" /\ i \in unansweredToolCalls(msgs)
    /\ ToolFor(i) \in agent.tools
    /\ executed' = executed \cup {<<round, i, ToolFor(i)>>}

\* The model node commits nothing.
Loses ==
    /\ UNCHANGED <<agent, msgs, counts, edited, executed, verdicts, blocked>>
    /\ round' = round + 1 /\ node = "model" /\ node' = "model" /\ answer' = NoAnswer

\* The model node commits a response.
Commits ==
    /\ UNCHANGED <<agent, edited, executed, verdicts>>
    /\ node = "model" /\ answer # NoAnswer /\ round' = round + 1 /\ answer' = NoAnswer
    /\ Responds

\* There is nothing to review.
Clears ==
    /\ UNCHANGED <<agent, msgs, counts, historyVars>>
    /\ node = "hitl" /\ node' # "hitl" /\ answer' = NoAnswer
    /\ Reviewable(msgs) = {} /\ edited' = Empty

\* The reviewer's decisions are applied.
Reviews(d) ==
    /\ UNCHANGED <<agent, counts, round, executed, blocked>>
    /\ node = "hitl" /\ node' # "hitl" /\ answer' = NoAnswer
    /\ AddsTools(msgs, msgs')
    /\ \A i \in DOMAIN d : d[i].type \in {"reject", "respond"} =>
          \E j \in Added(msgs, msgs') : msgs'[j].k = "tool" /\ msgs'[j].call = i
    /\ edited' = EditsOf(d)
    /\ verdicts' = Override(verdicts, [i \in {<<round, j>> : j \in DOMAIN d} |-> d[i[2]]])

\* Every step is of one of these kinds.
LEMMA StepKinds ==
    ASSUME Base, [Next]_vars
    PROVE \/ Stays \/ Rests \/ Loses \/ Commits \/ Clears
          \/ \E i \in 1 .. 2 : Runs(i)
          \/ \E d \in [Reviewable(msgs) -> Decisions] : Reviews(d)
<1> USE DEF channelVars, historyVars
<1>1. Types /\ Rounds /\ Current /\ Workers /\ msgs \in Seq(Messages(agent)) /\ AgentShape(agent)
    BY Shape DEF Base, Types
<1>2. Grows(msgs, msgs) /\ Added(msgs, msgs) = {} /\ TextAI \in Messages(agent) /\ Human \in Messages(agent)
    BY <1>1, NewAIFacts, AppendGrows DEF Messages
<1>3. FinalNode \in {"after_agent", "END"}
    BY DEF FinalNode
<1>4. ASSUME Fail, UNCHANGED historyVars PROVE Stays
    BY <1>4 DEF Fail, Stays
<1>5. CASE LimitEnds
    <2>1. CASE /\ msgs' = Append(msgs, TextAI) /\ Goto(FinalNode) /\ UNCHANGED <<agent, counts, response, edited>>
        <3>1. /\ msgs' \in Seq(Messages(agent)) /\ Grows(msgs, msgs')
              /\ \A i \in Added(msgs, msgs') : msgs'[i] = TextAI
            BY <1>1, <1>2, <2>1, AppendGrows
        <3>2. Rests
            BY <1>3, <1>5, <2>1, <3>1 DEF LimitEnds, Goto, Rests
        <3>3. QED
            BY <3>2
    <2>2. QED
        BY <1>4, <1>5, <2>1 DEF LimitEnds
<1>6. CASE CallModel
    <2>1. CASE ~Fail
        <3>1. UNCHANGED <<channelVars, node, historyVars>> /\ ~ModelLimitReached
            BY <1>6, <2>1 DEF CallModel
        <3>2. QED
            BY <3>1 DEF Stays
    <2>2. QED
        BY <1>4, <1>6, <2>1 DEF CallModel
<1>7. CASE ModelNode
    <2>1. /\ UNCHANGED <<agent, edited, executed, verdicts>> /\ round' = round + 1
          /\ answer' = NoAnswer
          /\ \/ UNCHANGED <<msgs, counts, blocked>> /\ node' = "model"
             \/ Responds
        BY <1>1, <1>7, ModelNodeFacts
    <2>2. CASE Responds
        BY <1>7, <2>1, <2>2 DEF Commits, ModelNode
    <2>3. CASE UNCHANGED <<msgs, counts, blocked>> /\ node' = "model"
        BY <1>7, <2>1, <2>3 DEF Loses, ModelNode
    <2>4. QED
        BY <2>1, <2>2, <2>3
<1>8. CASE HITLNode
    <2>1. CASE Reviewable(msgs) = {} /\ edited' = Empty /\ Goto(RouteFromHITL(msgs, response))
        <3>1. Clears
            BY <1>8, <2>1, Routes DEF Clears, Goto, HITLNode
        <3>2. QED
            BY <3>1
    <2>2. QED
        BY <1>8, <2>1 DEF HITLNode, Stays
<1>9. CASE ResumeReview
    <2>1. /\ node = "hitl" /\ msgs[LastAI(msgs)].r = round
          /\ UNCHANGED <<agent, counts, response, round, executed, blocked>>
        BY <1>1, <1>9 DEF ResumeReview, Current
    <2>2. CASE UNCHANGED <<msgs, edited, verdicts, runVars>>
        BY <2>1, <2>2 DEF Stays, runVars
    <2>3. ASSUME NEW d \in [Reviewable(msgs) -> Decisions],
                 LET ai == msgs[LastAI(msgs)]
                     answers == {i \in DOMAIN d : d[i].type \in {"reject", "respond"}}
                     after == MessagesReducer(msgs, <<ai>> \o ErrorMessages(ai.calls, answers))
                 IN  /\ msgs' = after /\ edited' = EditsOf(d) /\ Goto(RouteFromHITL(after, response))
                     /\ verdicts' = Override(verdicts, [i \in {<<ai.r, j>> : j \in DOMAIN d} |-> d[i[2]]])
          PROVE Reviews(d)
        <3>1. /\ AddsTools(msgs, msgs')
              /\ \A i \in {i \in DOMAIN d : d[i].type \in {"reject", "respond"}} :
                    \E j \in Added(msgs, msgs') : msgs'[j].k = "tool" /\ msgs'[j].call = i
            BY <2>1, <2>3, ReviewStep
        <3>2. node' # "hitl" /\ answer' = NoAnswer
            BY <2>3, Routes DEF Goto
        <3>3. verdicts' = Override(verdicts, [i \in {<<round, j>> : j \in DOMAIN d} |-> d[i[2]]])
            BY <2>1, <2>3
        <3>4. QED
            BY <2>1, <2>3, <3>1, <3>2, <3>3 DEF Reviews
    <2>4. QED
        BY <1>9, <2>2, <2>3 DEF ResumeReview
<1>10. CASE ToolsNode \/ ResumeTool \/ Retry
    BY <1>10 DEF ToolsNode, ResumeTool, Retry, Stays
<1>11. ASSUME NEW i \in 1 .. 2, RunTool(i) \/ ToolAsks(i) PROVE Stays \/ Runs(i)
    <2>1. /\ UNCHANGED <<channelVars, node, answer, round, verdicts, blocked>>
          /\ node = "tools" /\ out # NotStarted /\ i \in DOMAIN out
          /\ \/ executed' = executed
             \/ ToolFor(i) \in agent.tools /\ executed' = executed \cup {<<msgs[LastAI(msgs)].r, i, ToolFor(i)>>}
        <3>1. agent.asks \subseteq agent.tools
            BY <1>1 DEF AgentShape
        <3>2. QED
            BY <1>11, <3>1 DEF RunTool, ToolAsks
    <2>2. i \in unansweredToolCalls(msgs) /\ msgs[LastAI(msgs)].r = round
        BY <1>1, <2>1 DEF Workers, Current
    <2>3. QED
        BY <2>1, <2>2 DEF Stays, Runs
<1>12. CASE ToolsDone
    <2>1. CASE ~Fail
        <3>1. /\ \A i \in DOMAIN out : out[i].st = "done"
              /\ msgs' = msgs \o FlattenSeq([i \in DOMAIN Calls |->
                    IF i \in DOMAIN out THEN <<ToolMsg(i, out[i].name)>> ELSE <<>>])
              /\ Goto(RouteAfterTools(msgs'))
              /\ UNCHANGED <<agent, counts, response, edited, historyVars>>
              /\ node = "tools" /\ out # NotStarted
            BY <1>12, <2>1 DEF ToolsDone
        <3>2. AddsTools(msgs, msgs')
            BY <1>1, <3>1, ToolsAppend
        <3>3. /\ msgs' \in Seq(Messages(agent)) /\ Grows(msgs, msgs')
              /\ \A i \in Added(msgs, msgs') : msgs'[i].k = "tool"
            BY <3>2 DEF AddsTools, ToolMsgs
        <3>4. node' \notin {"hitl", "tools"} /\ answer' = NoAnswer
            BY <3>1, Routes DEF Goto
        <3>5. QED
            BY <3>1, <3>3, <3>4 DEF Rests
    <2>2. QED
        BY <1>4, <1>12, <2>1 DEF ToolsDone
<1>13. CASE BeforeAgent \/ AfterAgent
    <2>1. node' \notin {"hitl", "tools"} /\ answer' = NoAnswer
        BY <1>3, <1>13 DEF BeforeAgent, AfterAgent, JumpTarget, Goto
    <2>2. UNCHANGED <<agent, msgs, counts, edited, historyVars>>
        BY <1>13 DEF BeforeAgent, AfterAgent
    <2>3. QED
        BY <1>1, <1>2, <2>1, <2>2 DEF Rests
<1>14. CASE Invoke
    <2>1. node' \notin {"hitl", "tools"} /\ answer' = NoAnswer
        BY <1>14 DEF Invoke, Goto
    <2>2. UNCHANGED <<agent, counts, edited, historyVars>> /\ msgs' = Append(msgs, Human)
        BY <1>14 DEF Invoke
    <2>3. /\ msgs' \in Seq(Messages(agent)) /\ Grows(msgs, msgs')
          /\ \A i \in Added(msgs, msgs') : msgs'[i] = Human
        BY <1>1, <1>2, <2>2, AppendGrows
    <2>4. Human.k # "ai"
        BY DEF Human
    <2>5. QED
        BY <2>1, <2>2, <2>3, <2>4 DEF Rests
<1>15. CASE Crash
    BY <1>4, <1>15 DEF Crash
<1>16. CASE UNCHANGED vars
    BY <1>16 DEF vars, runVars, Stays
<1>17. QED
    BY <1>5, <1>6, <1>7, <1>8, <1>9, <1>10, <1>11, <1>12, <1>13, <1>14, <1>15, <1>16 DEF Next, Running
-----------------------------------------------------------------------------
(* The second layer: what ran, and what may run.                            *)

\* The reviewer's verdict on a call, as the execution e needs it.
Decided(e, calls, vs) ==
    /\ e[2] \in DOMAIN calls
    /\ IF calls[e[2]] \in agent.review
       THEN /\ <<e[1], e[2]>> \in DOMAIN vs
            /\ \/ vs[<<e[1], e[2]>>].type = "approve" /\ e[3] = calls[e[2]]
               \/ vs[<<e[1], e[2]>>].type = "edit" /\ e[3] = vs[<<e[1], e[2]>>].tool
       ELSE e[3] = calls[e[2]]

\* An execution belongs to a response of the history, was not blocked, and is as decided.
Justified(e, ms, vs, bl, n) ==
    /\ e[1] \in 1 .. n /\ e[2] \in 1 .. 2
    /\ <<e[1], e[2]>> \notin bl
    /\ \E i \in AIs(ms) : ms[i].r = e[1]
    /\ \A i \in AIs(ms) : ms[i].r = e[1] => Decided(e, ms[i].calls, vs)

\* Nothing runs for a response that is still to be reviewed.
Past ==
    \A e \in executed :
        /\ Justified(e, msgs, verdicts, blocked, round)
        /\ node = "hitl" => e[1] < round

\* The calls the limit blocked have been answered.
Stopped ==
    /\ \A b \in blocked : b[1] \in 1 .. round
    /\ node \in {"hitl", "tools"} => \A i : <<round, i>> \in blocked => i \in Answered(msgs)

\* A call that is about to run is as the reviewer left it.
Ready(i) ==
    IF Calls[i] \in agent.review
    THEN /\ <<round, i>> \in DOMAIN verdicts
         /\ \/ verdicts[<<round, i>>].type = "approve" /\ i \notin DOMAIN edited
            \/ verdicts[<<round, i>>].type = "edit" /\ i \in DOMAIN edited /\ edited[i] = verdicts[<<round, i>>].tool
    ELSE i \notin DOMAIN edited
Pending ==
    /\ node = "tools" => \A i \in unansweredToolCalls(msgs) : Ready(i)
    /\ node \in {"hitl", "tools"} => agent.tools # {}
    /\ ~HasHITL => DOMAIN edited = {}

Review == Past /\ Stopped /\ Pending

\* What justified an execution justifies it in a longer history with more verdicts.
LEMMA JustifiedKept ==
    ASSUME NEW M, NEW ms \in Seq(M), NEW ns \in Seq(M), Grows(ms, ns), NEW n \in Nat, NEW m \in Nat, n <= m,
           NEW e, NEW vs, NEW ws, NEW bl, NEW cl, Justified(e, ms, vs, bl, n),
           \A j \in Added(ms, ns) : ns[j].k = "ai" => ns[j].r # e[1],
           <<e[1], e[2]>> \in DOMAIN vs =>
               <<e[1], e[2]>> \in DOMAIN ws /\ ws[<<e[1], e[2]>>] = vs[<<e[1], e[2]>>],
           <<e[1], e[2]>> \notin cl
    PROVE Justified(e, ns, ws, cl, m)
<1>1. /\ AIs(ns) = AIs(ms) \cup {i \in Added(ms, ns) : ns[i].k = "ai"}
      /\ \A i \in AIs(ms) : ns[i] = ms[i]
    BY GrowsAIs
<1>2. e[1] \in 1 .. m /\ e[2] \in 1 .. 2
    BY DEF Justified
<1>3. \E i \in AIs(ns) : ns[i].r = e[1]
    BY <1>1 DEF Justified
<1>4. ASSUME NEW i \in AIs(ns), ns[i].r = e[1] PROVE Decided(e, ns[i].calls, ws)
    <2>1. i \in AIs(ms) /\ ns[i] = ms[i]
        BY <1>1, <1>4
    <2>2. Decided(e, ms[i].calls, vs)
        BY <1>4, <2>1 DEF Justified
    <2>3. QED
        BY <2>1, <2>2 DEF Decided
<1>5. QED
    BY <1>2, <1>3, <1>4 DEF Justified

\* The second layer holds initially.
LEMMA ReviewInit ==
    ASSUME Init
    PROVE Review
BY DEF Init, Review, Past, Stopped, Pending, Empty

\* The second layer is inductive: steps that leave the messages alone.
LEMMA ReviewStays ==
    ASSUME Base, Review, Stays
    PROVE Review'
<1> USE DEF Stays, channelVars, historyVars
<1>1. AIs(msgs') = AIs(msgs) /\ HasHITL' = HasHITL /\ Answered(msgs') = Answered(msgs)
      /\ unansweredToolCalls(msgs') = unansweredToolCalls(msgs)
    BY DEF HasHITL
<1>2. Past'
    BY DEF Review, Past, Justified, Decided
<1>3. Stopped'
    BY <1>1 DEF Review, Stopped
<1>4. Calls' = Calls
    BY DEF Calls
<1>5. Pending'
    BY <1>1, <1>4 DEF Review, Pending, Ready
<1>6. QED
    BY <1>2, <1>3, <1>5 DEF Review

\* The second layer is inductive: the run leaves the loop of review and tools.
LEMMA ReviewRests ==
    ASSUME Base, Review, Rests \/ Loses
    PROVE Review'
<1>1. msgs \in Seq(Messages(agent)) /\ round \in Nat /\ agent' = agent /\ edited' = edited
    BY DEF Base, Types, Rests, Loses
<1>2. Grows(msgs, msgs) /\ Added(msgs, msgs) = {}
    BY <1>1 DEF Grows, Added
<1>3. /\ msgs' \in Seq(Messages(agent)) /\ Grows(msgs, msgs')
      /\ \A j \in Added(msgs, msgs') : msgs'[j].k = "ai" => msgs'[j] = TextAI
      /\ UNCHANGED <<executed, verdicts, blocked>> /\ round' \in {round, round + 1}
      /\ node' \notin {"hitl", "tools"}
    BY <1>1, <1>2 DEF Rests, Loses, historyVars
<1>4. ASSUME NEW e \in executed PROVE Justified(e, msgs', verdicts, blocked, round')
    <2>1. Justified(e, msgs, verdicts, blocked, round)
        BY DEF Review, Past
    <2>2. TextAI.r # e[1] /\ <<e[1], e[2]>> \notin blocked
        BY <1>1, <2>1 DEF Justified, TextAI, AI
    <2>3. \A j \in Added(msgs, msgs') : msgs'[j].k = "ai" => msgs'[j].r # e[1]
        BY <1>3, <2>2
    <2>4. round' \in Nat /\ round <= round'
        BY <1>1, <1>3
    <2>5. QED
        BY <1>1, <1>3, <2>1, <2>2, <2>3, <2>4, JustifiedKept
<1>5. Past'
    BY <1>1, <1>3, <1>4 DEF Past, Justified, Decided
<1>6. Stopped'
    <2>1. \A b \in blocked : b[1] \in 1 .. round'
        BY <1>1, <1>3 DEF Review, Stopped
    <2>2. QED
        BY <1>3, <2>1 DEF Stopped
<1>7. Pending'
    BY <1>1, <1>3 DEF Review, Pending, HasHITL
<1>8. QED
    BY <1>5, <1>6, <1>7 DEF Review

\* The second layer is inductive: a tool runs.
LEMMA ReviewRuns ==
    ASSUME Base, Review, NEW i \in 1 .. 2, Runs(i)
    PROVE Review'
<1> USE DEF Runs, channelVars
<1>1. /\ Types /\ Rounds /\ Current /\ node = "tools" /\ round \in Nat /\ round # 0
      /\ LastAI(msgs) \in AIs(msgs) /\ msgs[LastAI(msgs)].r = round
      /\ i \in DOMAIN Calls /\ i \notin Answered(msgs)
    BY AtWork DEF Base, Types, Current
<1> DEFINE e == <<round, i, ToolFor(i)>>
<1>2. e[1] = round /\ e[2] = i /\ e[3] = ToolFor(i)
    OBVIOUS
<1>3. <<round, i>> \notin blocked
    BY <1>1 DEF Review, Stopped
<1>4. Ready(i)
    BY <1>1 DEF Review, Pending
<1>5. Decided(e, Calls, verdicts)
    BY <1>1, <1>4 DEF Decided, Ready, ToolFor
<1>6. ASSUME NEW j \in AIs(msgs), msgs[j].r = round PROVE j = LastAI(msgs)
    BY <1>1, <1>6 DEF Rounds, RoundsOf
<1>7. round \in 1 .. round
    BY <1>1
<1>8. Justified(e, msgs, verdicts, blocked, round)
    <2> HIDE DEF e
    <2>1. \A j \in AIs(msgs) : msgs[j].r = round => msgs[j].calls = Calls
        BY <1>6 DEF Calls
    <2>2. QED
        BY <1>1, <1>2, <1>3, <1>5, <1>7, <2>1 DEF Justified
<1> HIDE DEF e
<1>9. \A x \in executed' : Justified(x, msgs, verdicts, blocked, round)
    BY <1>8 DEF e, Review, Past
<1>10. Past'
    BY <1>1, <1>9 DEF Past, Justified, Decided
<1>11. Stopped'
    BY DEF Review, Stopped
<1>12. HasHITL' = HasHITL /\ Calls' = Calls /\ unansweredToolCalls(msgs') = unansweredToolCalls(msgs)
    BY DEF HasHITL, Calls
<1>13. Pending'
    BY <1>12 DEF Review, Pending, Ready
<1>14. QED
    BY <1>10, <1>11, <1>13 DEF Review

\* The second layer is inductive: a review without decisions.
LEMMA ReviewClears ==
    ASSUME Base, Review, Clears
    PROVE Review'
<1> USE DEF Clears, historyVars
<1>1. Types /\ Current /\ node = "hitl"
    BY DEF Base
<1>2. Past'
    BY DEF Review, Past, Justified, Decided
<1>3. Stopped'
    BY DEF Review, Stopped
<1>4. HasHITL' = HasHITL /\ Calls' = Calls /\ unansweredToolCalls(msgs') = unansweredToolCalls(msgs)
    BY DEF HasHITL, Calls
<1>5. \A i \in unansweredToolCalls(msgs) : Calls[i] \notin agent.review
    BY <1>1, AtWork DEF Reviewable, Calls
<1>6. DOMAIN edited' = {}
    BY DEF Empty
<1>7. Pending'
    BY <1>4, <1>5, <1>6 DEF Review, Pending, Ready
<1>8. QED
    BY <1>2, <1>3, <1>7 DEF Review

\* The second layer is inductive: the decisions of the reviewer.
LEMMA ReviewReviews ==
    ASSUME Base, Review, NEW d \in [Reviewable(msgs) -> Decisions], Reviews(d)
    PROVE Review'
<1> USE DEF Reviews
<1>1. /\ Types /\ Current /\ node = "hitl" /\ msgs \in Seq(Messages(agent)) /\ round \in Nat
      /\ AIs(msgs) # {}
    BY DEF Base, Types, Current
<1>2. /\ msgs' \in Seq(Messages(agent)) /\ Grows(msgs, msgs')
      /\ \A j \in Added(msgs, msgs') : msgs'[j].k = "tool"
    BY DEF AddsTools, ToolMsgs
<1>3. /\ AIs(msgs') = AIs(msgs) /\ msgs'[LastAI(msgs')] = msgs[LastAI(msgs)]
      /\ Answered(msgs) \subseteq Answered(msgs')
      /\ \A j \in Added(msgs, msgs') : msgs'[j].call \in Answered(msgs')
      /\ unansweredToolCalls(msgs') \subseteq unansweredToolCalls(msgs)
    BY <1>1, <1>2, GrowsByTools
<1>4. Calls' = Calls /\ HasHITL' = HasHITL
    BY <1>3 DEF Calls, HasHITL
<1>5. DOMAIN d = Reviewable(msgs) /\ \A i \in DOMAIN d : d[i] \in Decisions
    OBVIOUS
<1> DEFINE new == [i \in {<<round, j>> : j \in DOMAIN d} |-> d[i[2]]]
<1>6. /\ \A j \in DOMAIN d : <<round, j>> \in DOMAIN verdicts' /\ verdicts'[<<round, j>>] = d[j]
      /\ \A x \in DOMAIN verdicts : (\A j \in DOMAIN d : x # <<round, j>>) =>
            x \in DOMAIN verdicts' /\ verdicts'[x] = verdicts[x]
    <2>1. /\ DOMAIN new = {<<round, j>> : j \in DOMAIN d}
          /\ \A j \in DOMAIN d : new[<<round, j>>] = d[j]
        OBVIOUS
    <2> HIDE DEF new
    <2>2. verdicts' = [x \in DOMAIN verdicts \cup DOMAIN new |-> IF x \in DOMAIN new THEN new[x] ELSE verdicts[x]]
        BY DEF Override, new
    <2>3. QED
        BY <2>1, <2>2
<1> HIDE DEF new
<1>7. ASSUME NEW e \in executed PROVE Justified(e, msgs', verdicts', blocked, round)
    <2>1. Justified(e, msgs, verdicts, blocked, round) /\ e[1] < round
        BY <1>1 DEF Review, Past
    <2>2. e[1] # round /\ <<e[1], e[2]>> \notin blocked
        BY <1>1, <2>1 DEF Justified
    <2>3. \A j \in DOMAIN d : <<e[1], e[2]>> # <<round, j>>
        BY <2>2
    <2>4. <<e[1], e[2]>> \in DOMAIN verdicts =>
             <<e[1], e[2]>> \in DOMAIN verdicts' /\ verdicts'[<<e[1], e[2]>>] = verdicts[<<e[1], e[2]>>]
        BY <1>6, <2>3
    <2>5. round <= round
        BY <1>1
    <2>6. QED
        BY <1>1, <1>2, <2>1, <2>2, <2>4, <2>5, JustifiedKept
<1>8. Past'
    BY <1>7 DEF Past, Justified, Decided
<1>9. Stopped'
    <2>1. \A i : <<round, i>> \in blocked => i \in Answered(msgs')
        BY <1>1, <1>3 DEF Review, Stopped
    <2>2. \A b \in blocked : b[1] \in 1 .. round
        BY DEF Review, Stopped
    <2>3. QED
        BY <2>1, <2>2 DEF Stopped
<1>10. ASSUME NEW i \in unansweredToolCalls(msgs') PROVE Ready(i)'
    <2>1. i \in DOMAIN Calls /\ i \notin Answered(msgs')
        <3>1. i \in unansweredToolCalls(msgs)
            BY <1>3
        <3>2. i \in DOMAIN Calls
            BY <1>1, <3>1, AtWork
        <3>3. i \notin Answered(msgs')
            BY <1>1, <1>3, <1>10 DEF unansweredToolCalls
        <3>4. QED
            BY <3>2, <3>3
    <2>2. CASE Calls[i] \in agent.review
        <3>1. i \in DOMAIN d
            BY <1>5, <2>1, <2>2 DEF Reviewable, Calls
        <3>2. d[i].type \notin {"reject", "respond"}
            BY <1>3, <2>1, <3>1
        <3>3. d[i].type \in {"approve", "edit"}
            BY <1>5, <3>1, <3>2 DEF Decisions
        <3>4. /\ d[i].type = "approve" => i \notin DOMAIN edited'
              /\ d[i].type = "edit" => i \in DOMAIN edited' /\ edited'[i] = d[i].tool
            BY <3>1 DEF EditsOf
        <3>5. QED
            BY <1>4, <1>6, <2>2, <3>1, <3>3, <3>4 DEF Ready
    <2>3. CASE Calls[i] \notin agent.review
        <3>1. i \notin DOMAIN d
            BY <1>5, <2>3 DEF Reviewable, Calls
        <3>2. i \notin DOMAIN edited'
            BY <3>1 DEF EditsOf
        <3>3. QED
            BY <1>4, <2>3, <3>2 DEF Ready
    <2>4. QED
        BY <2>2, <2>3
<1>11. Pending'
    <2>1. HasHITL' /\ agent'.tools # {}
        BY <1>1, <1>4 DEF Current, HasHITL
    <2>2. QED
        BY <1>10, <2>1 DEF Pending
<1>12. QED
    BY <1>8, <1>9, <1>11 DEF Review

\* What a committed response makes of the history.
LEMMA CommitFacts ==
    ASSUME Base, Commits
    PROVE LET mid == Append(msgs, NewAI)
          IN  /\ msgs' \in Seq(Messages(agent)) /\ Grows(msgs, msgs') /\ agent' = agent
              /\ AIs(msgs') = AIs(mid) \cup {j \in Added(mid, msgs') : msgs'[j].k = "ai"}
              /\ AIs(mid) = AIs(msgs) \cup {Len(msgs) + 1} /\ Len(msgs) + 1 \notin AIs(msgs)
              /\ \A j \in AIs(msgs) : msgs'[j] = msgs[j]
              /\ msgs'[Len(msgs) + 1] = NewAI
              /\ \A j \in Added(mid, msgs') : msgs'[j].k = "ai" => msgs'[j] = TextAI
              /\ \A j \in Added(msgs, msgs') : msgs'[j].k = "ai" => msgs'[j].r \in {0, round + 1}
              /\ node' \in {"hitl", "tools"} =>
                    /\ AIs(msgs') = AIs(mid) /\ msgs'[LastAI(msgs')] = NewAI
                    /\ node' = RouteFromModel(msgs', response)
                    /\ \A i \in BlockedCalls(answer.calls, counts) : i \in Answered(msgs')
<1> DEFINE mid == Append(msgs, NewAI)
           M == Messages(agent)
<1>1. Types /\ Rounds /\ msgs \in Seq(M) /\ round \in Nat /\ NewAI \in M /\ NewAI.r = round + 1 /\ agent' = agent
    BY NewAIFacts DEF Base, Types, Commits
<1>2. /\ msgs' \in Seq(M) /\ Grows(mid, msgs')
      /\ \A j \in Added(mid, msgs') : msgs'[j] \in ToolMsgs(agent) \/ msgs'[j] = TextAI
    BY DEF Commits, Responds
<1>3. /\ mid \in Seq(M) /\ Grows(msgs, mid)
      /\ AIs(mid) = AIs(msgs) \cup {Len(msgs) + 1} /\ Len(msgs) + 1 \notin AIs(msgs)
      /\ mid[Len(msgs) + 1] = NewAI /\ LastAI(mid) = Len(msgs) + 1
    BY <1>1, NewAIFacts, RoundsRespond DEF Rounds
<1>4. Len(mid) = Len(msgs) + 1 /\ Len(msgs) \in Nat
    BY <1>1
<1> HIDE DEF mid, M
<1>5. /\ AIs(msgs') = AIs(mid) \cup {j \in Added(mid, msgs') : msgs'[j].k = "ai"}
      /\ \A j \in AIs(mid) : msgs'[j] = mid[j]
    BY <1>2, <1>3, GrowsAIs
<1>6. Grows(msgs, msgs') /\ \A j \in Added(msgs, msgs') : j = Len(msgs) + 1 \/ j \in Added(mid, msgs')
    <2>1. Len(msgs') \in Nat
        BY <1>2
    <2>2. QED
        BY <1>2, <1>3, <1>4, <2>1 DEF Grows, Added
<1>7. \A j \in AIs(msgs) : msgs'[j] = msgs[j]
    <2>1. \A j \in AIs(msgs) : j \in 1 .. Len(msgs)
        BY <1>1 DEF AIs
    <2>2. QED
        BY <1>6, <2>1 DEF Grows
<1>8. msgs'[Len(msgs) + 1] = NewAI
    BY <1>3, <1>5
<1>9. \A j \in Added(mid, msgs') : msgs'[j].k = "ai" => msgs'[j] = TextAI
    BY <1>2 DEF ToolMsgs
<1>10. \A j \in Added(msgs, msgs') : msgs'[j].k = "ai" => msgs'[j].r \in {0, round + 1}
    <2>1. TextAI.r = 0
        BY DEF TextAI, AI
    <2>2. QED
        BY <1>1, <1>6, <1>8, <1>9, <2>1
<1>11. ASSUME node' \in {"hitl", "tools"}
       PROVE /\ AIs(msgs') = AIs(mid) /\ msgs'[LastAI(msgs')] = NewAI
             /\ node' = RouteFromModel(msgs', response)
             /\ \A i \in BlockedCalls(answer.calls, counts) : i \in Answered(msgs')
    <2>1. /\ \A j \in Added(mid, msgs') : msgs'[j] \in ToolMsgs(agent)
          /\ node' = RouteFromModel(msgs', response)
          /\ \A i \in BlockedCalls(answer.calls, counts) : \E j \in Added(mid, msgs') :
                msgs'[j].k = "tool" /\ msgs'[j].call = i
        BY <1>11 DEF Commits, Responds, mid
    <2>2. \A j \in Added(mid, msgs') : msgs'[j].k # "ai"
        BY <2>1 DEF ToolMsgs
    <2>3. AIs(mid) # {}
        BY <1>3
    <2>4. /\ AIs(msgs') = AIs(mid) /\ msgs'[LastAI(msgs')] = mid[LastAI(mid)]
          /\ \A j \in Added(mid, msgs') : msgs'[j].k = "tool" => msgs'[j].call \in Answered(msgs')
        BY <1>2, <1>3, <2>2, <2>3, GrowsByTools
    <2>5. QED
        BY <1>3, <2>1, <2>4
<1>12. QED
    BY <1>1, <1>2, <1>3, <1>5, <1>6, <1>7, <1>8, <1>9, <1>10, <1>11 DEF mid, M

\* The second layer is inductive: the model's response.
LEMMA ReviewCommits ==
    ASSUME Base, Review, Commits
    PROVE Review'
<1>1. Types /\ msgs \in Seq(Messages(agent)) /\ round \in Nat /\ AgentShape(agent)
    BY Shape DEF Base, Types
<1>2. /\ UNCHANGED <<agent, edited, executed, verdicts>> /\ round' = round + 1
      /\ msgs' \in Seq(Messages(agent)) /\ Grows(msgs, msgs')
      /\ \A j \in Added(msgs, msgs') : msgs'[j].k = "ai" => msgs'[j].r \in {0, round + 1}
    BY CommitFacts DEF Commits
<1>3. \A b \in blocked' : b \in blocked \/ \E i \in BlockedCalls(answer.calls, counts) : b = <<round + 1, i>>
    BY DEF Commits, Responds
<1>4. ASSUME NEW e \in executed PROVE Justified(e, msgs', verdicts, blocked', round + 1) /\ e[1] < round + 1
    <2>1. Justified(e, msgs, verdicts, blocked, round)
        BY DEF Review, Past
    <2>2. e[1] \in 1 .. round /\ e[1] # 0 /\ e[1] # round + 1 /\ e[1] < round + 1
        BY <1>1, <2>1 DEF Justified
    <2>3. <<e[1], e[2]>> \notin blocked'
        BY <1>3, <2>1, <2>2 DEF Justified
    <2>4. \A j \in Added(msgs, msgs') : msgs'[j].k = "ai" => msgs'[j].r # e[1]
        BY <1>2, <2>2
    <2>5. round + 1 \in Nat /\ round <= round + 1
        BY <1>1
    <2>6. QED
        BY <1>1, <1>2, <2>1, <2>2, <2>3, <2>4, <2>5, JustifiedKept
<1>5. Past'
    BY <1>2, <1>4 DEF Past, Justified, Decided
<1>6. Stopped'
    <2>1. \A b \in blocked' : b[1] \in 1 .. round + 1
        <3>1. \A b \in blocked : b[1] \in 1 .. round
            BY DEF Review, Stopped
        <3>2. round + 1 \in 1 .. round + 1
            BY <1>1
        <3>3. \A b \in blocked : b[1] \in 1 .. round + 1
            BY <1>1, <3>1
        <3>4. QED
            BY <1>3, <3>2, <3>3
    <2>2. ASSUME node' \in {"hitl", "tools"}, NEW i, <<round + 1, i>> \in blocked' PROVE i \in Answered(msgs')
        <3>1. <<round + 1, i>> \notin blocked
            BY <1>1 DEF Review, Stopped
        <3>2. i \in BlockedCalls(answer.calls, counts)
            BY <1>3, <2>2, <3>1
        <3>3. QED
            BY <2>2, <3>2, CommitFacts
    <2>3. QED
        BY <1>2, <2>1, <2>2 DEF Stopped
<1>7. HasHITL' = HasHITL
    BY <1>2 DEF HasHITL
<1>8. node' \in {"hitl", "tools"} => agent.tools # {} /\ (node' = "tools" => ~HasHITL)
    <2>1. node' \in {"hitl", "tools"} => node' = RouteFromModel(msgs', response)
        BY CommitFacts
    <2>2. QED
        BY <2>1, Routes DEF HasHITL
<1>9. Pending'
    <2>1. ASSUME node' = "tools", NEW i PROVE Ready(i)'
        <3>1. agent.review = {} /\ DOMAIN edited = {}
            BY <1>8, <2>1 DEF HasHITL, Review, Pending
        <3>2. QED
            BY <1>2, <3>1 DEF Ready
    <2>2. QED
        BY <1>2, <1>7, <1>8, <2>1 DEF Review, Pending
<1>10. QED
    BY <1>5, <1>6, <1>9 DEF Review

\* The second layer is inductive.
LEMMA ReviewStepInv ==
    ASSUME Base, Review, [Next]_vars
    PROVE Review'
BY StepKinds, ReviewStays, ReviewRests, ReviewRuns, ReviewClears, ReviewReviews, ReviewCommits

\* A tool runs for a call only as the reviewer decided it for this very response,
\* never for a call the limit blocked, in every interleaving of workers, crashes,
\* retries, jumps, reviews and turns, for every agent.
THEOREM DecisionsHold == Spec => []ExecutedAsDecided
<1>1. Base /\ Review => ExecutedAsDecided
    <2> SUFFICES ASSUME Base, Review, NEW e \in executed
                 PROVE LET id == <<e[1], e[2]>>
                           ai == msgs[CHOOSE i \in AIs(msgs) : msgs[i].r = e[1]]
                       IN  /\ id \notin blocked
                           /\ IF ai.calls[e[2]] \in agent.review
                              THEN /\ id \in DOMAIN verdicts
                                   /\ \/ verdicts[id].type = "approve" /\ e[3] = ai.calls[e[2]]
                                      \/ verdicts[id].type = "edit" /\ e[3] = verdicts[id].tool
                              ELSE e[3] = ai.calls[e[2]]
        BY DEF ExecutedAsDecided
    <2>1. Justified(e, msgs, verdicts, blocked, round)
        BY DEF Review, Past
    <2> DEFINE k == CHOOSE i \in AIs(msgs) : msgs[i].r = e[1]
    <2>2. k \in AIs(msgs) /\ msgs[k].r = e[1]
        BY <2>1 DEF Justified
    <2> HIDE DEF k
    <2>3. Decided(e, msgs[k].calls, verdicts) /\ <<e[1], e[2]>> \notin blocked
        BY <2>1, <2>2 DEF Justified
    <2>4. QED
        BY <2>3 DEF Decided, k
<1>2. Init => Base /\ Review
    BY BaseInit, ReviewInit
<1>3. Base /\ Review /\ [Next]_vars => (Base /\ Review)'
    BY BaseStep, ReviewStepInv
<1>4. QED
    BY <1>1, <1>2, <1>3, PTL DEF Spec
-----------------------------------------------------------------------------
(* The third layer: the counts cover what was counted, the limits the counts. *)

\* The responses the limit on model calls counts.
Counted(ms) == {i \in AIs(ms) : ms[i].r # 0 /\ Cardinality(Matched(ms[i].calls)) # 1}

ModelLimit ==
    /\ Cardinality(Counted(msgs)) <= counts.tm
    /\ agent.model.thread # None =>
          counts.tm <= agent.model.thread /\ (answer # NoAnswer => counts.tm < agent.model.thread)

\* The calls a tool that the limit names has run for, as the model made them.
RanFor(E, vs) ==
    {<<e[1], e[2]>> : e \in {x \in E : x[3] \in agent.calls.names
                        /\ ~(<<x[1], x[2]>> \in DOMAIN vs /\ vs[<<x[1], x[2]>>].type = "edit")}}

\* The calls of the response at work that the count has taken already, and the
\* executions of the responses before it.
Working == node \in {"hitl", "tools"}
OpenCalls == IF Working THEN {i \in Limited(Calls) : <<round, i>> \notin blocked} ELSE {}
Before == IF Working THEN {e \in executed : e[1] < round} ELSE executed

CallLimit ==
    /\ Cardinality(RanFor(Before, verdicts)) + Cardinality(OpenCalls) <= counts.tt
    /\ agent.calls.thread # None => counts.tt <= agent.calls.thread

Counting == ModelLimit /\ CallLimit

\* The counted responses are finitely many; other messages do not count.
LEMMA CountedFacts ==
    ASSUME NEW M, NEW ms \in Seq(M)
    PROVE /\ IsFiniteSet(Counted(ms)) /\ Cardinality(Counted(ms)) \in Nat
          /\ \A ns \in Seq(M) :
                Grows(ms, ns) /\ (\A j \in Added(ms, ns) : ns[j].k = "ai" => ns[j].r = 0) => Counted(ns) = Counted(ms)
<1>1. Counted(ms) \subseteq 1 .. Len(ms) /\ Len(ms) \in Nat
    BY DEF Counted, AIs
<1>2. IsFiniteSet(1 .. Len(ms))
    BY <1>1, FS_Interval
<1>3. IsFiniteSet(Counted(ms)) /\ Cardinality(Counted(ms)) \in Nat
    BY <1>1, <1>2, FS_Subset, FS_CardinalityType
<1>4. ASSUME NEW ns \in Seq(M), Grows(ms, ns), \A j \in Added(ms, ns) : ns[j].k = "ai" => ns[j].r = 0
      PROVE Counted(ns) = Counted(ms)
    <2>1. /\ AIs(ns) = AIs(ms) \cup {i \in Added(ms, ns) : ns[i].k = "ai"}
          /\ \A i \in AIs(ms) : ns[i] = ms[i] /\ i \in 1 .. Len(ms)
        BY <1>4, GrowsAIs
    <2>2. QED
        BY <1>4, <2>1 DEF Counted
<1>5. QED
    BY <1>3, <1>4

\* The third layer, for model calls: steps without a response.
LEMMA ModelLimitRest ==
    ASSUME Base, ModelLimit, Stays \/ Rests \/ Loses \/ Clears \/ (\E i : Runs(i)) \/ (\E d : Reviews(d))
    PROVE ModelLimit'
<1>1. Types /\ msgs \in Seq(Messages(agent)) /\ counts.tm \in Nat /\ AgentShape(agent)
    BY Shape DEF Base, Types, Counts
<1>2. agent' = agent /\ counts' = counts
    BY DEF Stays, Rests, Loses, Clears, Runs, Reviews, channelVars
<1>3. Counted(msgs') = Counted(msgs)
    <2>1. CASE msgs' = msgs
        BY <2>1
    <2>2. CASE Rests \/ \E d : Reviews(d)
        <3>1. msgs' \in Seq(Messages(agent)) /\ Grows(msgs, msgs')
            BY <2>2 DEF Rests, Reviews, AddsTools
        <3>2. \A j \in Added(msgs, msgs') : msgs'[j].k = "ai" => msgs'[j].r = 0
            <4>1. CASE Rests
                BY <4>1 DEF Rests, TextAI, AI
            <4>2. CASE \E d : Reviews(d)
                BY <4>2 DEF Reviews, AddsTools, ToolMsgs
            <4>3. QED
                BY <2>2, <4>1, <4>2
        <3>3. QED
            BY <1>1, <3>1, <3>2, CountedFacts
    <2>3. QED
        BY <2>1, <2>2 DEF Stays, Loses, Clears, Runs, channelVars
<1>4. Counted(msgs)' = Counted(msgs')
    BY <1>2 DEF Counted, Matched, AIs
<1>5. answer' # NoAnswer => answer # NoAnswer \/ ~ModelLimitReached
    BY DEF Stays, Rests, Loses, Clears, Runs, Reviews
<1>6. agent.model.thread # None /\ ~ModelLimitReached => counts.tm < agent.model.thread
    <2>1. agent.model.thread \in Limits
        BY <1>1 DEF AgentShape
    <2>2. QED
        BY <1>1, <2>1 DEF ModelLimitReached, Exceeded, Limits, None
<1>7. QED
    BY <1>2, <1>3, <1>4, <1>5, <1>6 DEF ModelLimit

\* The third layer, for model calls: a response.
LEMMA ModelLimitCommits ==
    ASSUME Base, ModelLimit, Commits
    PROVE ModelLimit'
<1>1. /\ Types /\ msgs \in Seq(Messages(agent)) /\ counts \in Counts /\ counts.tm \in Nat /\ AgentShape(agent)
      /\ IsFiniteSet(Counted(msgs)) /\ Cardinality(Counted(msgs)) \in Nat
    BY Shape, CountedFacts DEF Base, Types, Counts
<1>2. agent' = agent /\ answer # NoAnswer /\ answer' = NoAnswer
    BY DEF Commits
<1>3. Counted(msgs)' = Counted(msgs')
    BY <1>2 DEF Counted, Matched, AIs
<1> DEFINE mid == Append(msgs, NewAI)
           new == Len(msgs) + 1
<1>4. /\ AIs(msgs') = AIs(msgs) \cup {new} \cup {j \in Added(mid, msgs') : msgs'[j].k = "ai"}
      /\ \A j \in AIs(msgs) : msgs'[j] = msgs[j]
      /\ msgs'[new] = NewAI
      /\ \A j \in Added(mid, msgs') : msgs'[j].k = "ai" => msgs'[j] = TextAI
    BY CommitFacts
<1>5. TextAI.r = 0 /\ NewAI.calls = answer.calls
    BY <1>1, NewAIFacts DEF TextAI, AI
<1> HIDE DEF mid, new
<1>6. /\ Counted(msgs') \subseteq Counted(msgs) \cup {new}
      /\ Cardinality(Matched(answer.calls)) = 1 => Counted(msgs') \subseteq Counted(msgs)
    BY <1>4, <1>5 DEF Counted
<1>7. agent.model.thread # None => counts.tm < agent.model.thread
    BY <1>2 DEF ModelLimit
<1>8. CASE StructuredDone(answer) /\ counts' = counts
    <2>1. Counted(msgs') \subseteq Counted(msgs)
        BY <1>6, <1>8 DEF StructuredDone
    <2>2. IsFiniteSet(Counted(msgs')) /\ Cardinality(Counted(msgs')) <= Cardinality(Counted(msgs))
        BY <1>1, <2>1, FS_Subset
    <2>3. Cardinality(Counted(msgs')) \in Nat
        BY <2>2, FS_CardinalityType
    <2>4. Cardinality(Counted(msgs')) <= counts.tm
        BY <1>1, <2>2, <2>3 DEF ModelLimit
    <2>5. QED
        BY <1>2, <1>3, <1>8, <2>4 DEF ModelLimit
<1>9. CASE counts' = CountToolCalls(answer.calls, CountModelCall(counts))
    <2>1. counts'.tm = counts.tm + 1
        BY <1>1, <1>9, CountFacts
    <2>2. /\ IsFiniteSet(Counted(msgs) \cup {new})
          /\ Cardinality(Counted(msgs) \cup {new}) \in {Cardinality(Counted(msgs)), Cardinality(Counted(msgs)) + 1}
        BY <1>1, FS_AddElement
    <2>3. IsFiniteSet(Counted(msgs')) /\ Cardinality(Counted(msgs')) <= Cardinality(Counted(msgs) \cup {new})
        BY <1>6, <2>2, FS_Subset
    <2>4. Cardinality(Counted(msgs')) \in Nat
        BY <2>3, FS_CardinalityType
    <2>5. Cardinality(Counted(msgs')) <= counts.tm + 1
        BY <1>1, <2>2, <2>3, <2>4 DEF ModelLimit
    <2>6. agent.model.thread # None => counts.tm + 1 <= agent.model.thread
        <3>1. agent.model.thread \in Limits
            BY <1>1 DEF AgentShape
        <3>2. QED
            BY <1>1, <1>7, <3>1 DEF Limits, None
    <2>7. QED
        BY <1>2, <1>3, <2>1, <2>5, <2>6 DEF ModelLimit
<1>10. QED
    BY <1>8, <1>9 DEF Commits, Responds

\* Pairing adds no elements.
LEMMA PairsBound ==
    ASSUME NEW S, IsFiniteSet(S), NEW x
    PROVE LET T == {<<x, i>> : i \in S}
          IN  IsFiniteSet(T) /\ Cardinality(T) <= Cardinality(S)
<1> DEFINE T == {<<x, i>> : i \in S}
           f == [i \in S |-> <<x, i>>]
<1>1. f \in Surjection(S, T)
    BY DEF Surjection
<1>2. QED
    BY <1>1, FS_Surjection

\* The calls that fit into what is left of the limit are no more than that.
LEMMA AllowedFit ==
    ASSUME Types, agent.calls.thread # None, counts.tt <= agent.calls.thread,
           NEW c \in Counts, c.tt = counts.tt
    PROVE counts.tt + Cardinality(AllowedCalls(answer.calls, c)) <= agent.calls.thread
<1> DEFINE calls == answer.calls
           L == Limited(calls)
           A == AllowedCalls(calls, c)
           B(i) == {j \in L : j < i}
<1>1. /\ calls \in CallSeqs(agent) /\ IsFiniteSet(L) /\ IsFiniteSet(A) /\ Cardinality(A) \in Nat
      /\ counts.tt \in Nat /\ agent.calls.thread \in Nat
    <2>1. calls \in CallSeqs(agent)
        BY NewAIFacts
    <2>2. IsFiniteSet(L) /\ IsFiniteSet(A) /\ Cardinality(A) \in Nat
        BY CountFacts, FS_CardinalityType
    <2>3. counts.tt \in Nat
        BY DEF Types, Counts
    <2>4. agent.calls.thread \in Limits
        BY Shape DEF Types, AgentShape
    <2>5. agent.calls.thread \in Nat
        BY <2>4 DEF Limits
    <2>6. QED
        BY <2>1, <2>2, <2>3, <2>5
<1>2. L \subseteq 1 .. 2 /\ A \subseteq L
    BY <1>1, CallsFacts DEF Limited, AllowedCalls
<1>3. CASE A = {}
    <2>1. Cardinality(A) = 0
        BY <1>3, FS_EmptySet
    <2>2. QED
        BY <1>1, <2>1
<1>4. CASE A # {}
    <2>1. PICK m \in A : \A i \in A : i <= m
        <3>1. CASE 2 \in A
            BY <1>2, <3>1
        <3>2. CASE 2 \notin A
            BY <1>2, <1>4, <3>2
        <3>3. QED
            BY <3>1, <3>2
    <2>2. ~Exceeded(agent.calls.thread, c.tt + Cardinality(B(m)))
        BY <2>1 DEF AllowedCalls
    <2>3. IsFiniteSet(B(m))
        BY <1>1, FS_Subset
    <2>4. Cardinality(B(m)) \in Nat
        BY <2>3, FS_CardinalityType
    <2>5. c.tt + Cardinality(B(m)) < agent.calls.thread
        BY <1>1, <2>2, <2>4 DEF Exceeded
    <2>6. A \subseteq B(m) \cup {m}
        BY <1>2, <2>1
    <2> HIDE DEF A, B
    <2>7. IsFiniteSet(B(m) \cup {m}) /\ Cardinality(B(m) \cup {m}) <= Cardinality(B(m)) + 1
        <3>1. /\ IsFiniteSet(B(m) \cup {m})
              /\ Cardinality(B(m) \cup {m}) = IF m \in B(m) THEN Cardinality(B(m)) ELSE Cardinality(B(m)) + 1
            BY <2>3, FS_AddElement
        <3>2. QED
            BY <2>4, <3>1
    <2>8. Cardinality(A) <= Cardinality(B(m) \cup {m})
        BY <2>6, <2>7, FS_Subset
    <2>9. Cardinality(B(m) \cup {m}) \in Nat
        BY <2>7, FS_CardinalityType
    <2>10. counts.tt + Cardinality(A) <= agent.calls.thread
        BY <1>1, <2>4, <2>5, <2>7, <2>8, <2>9
    <2>11. QED
        BY <2>10 DEF A
<1>5. QED
    BY <1>3, <1>4

\* A message has finitely many calls.
LEMMA TwoFinite ==
    IsFiniteSet(1 .. 2)
<1>1. PICK n \in Int : n = 2
    OBVIOUS
<1>2. IsFiniteSet(1 .. n)
    BY FS_Interval
<1>3. QED
    BY <1>1, <1>2

\* The sets of the third layer are finite, and everything that ran was before the
\* response at work or belongs to a call the count has taken.
LEMMA RanFacts ==
    ASSUME Base, Review
    PROVE /\ \A E \in SUBSET executed : \A vs : IsFiniteSet(RanFor(E, vs)) /\ Cardinality(RanFor(E, vs)) \in Nat
          /\ IsFiniteSet(OpenCalls) /\ Cardinality(OpenCalls) \in Nat
          /\ Before \subseteq executed
          /\ RanFor(executed, verdicts) \subseteq RanFor(Before, verdicts) \cup {<<round, i>> : i \in OpenCalls}
          /\ Cardinality(RanFor(executed, verdicts)) <=
                Cardinality(RanFor(Before, verdicts)) + Cardinality(OpenCalls)
<1>1. Types /\ Rounds /\ Current /\ round \in Nat
    BY DEF Base, Types
<1>2. \A e \in executed : e[1] \in 1 .. round /\ e[2] \in 1 .. 2
    BY DEF Review, Past, Justified
<1>3. ASSUME NEW E \in SUBSET executed, NEW vs
      PROVE IsFiniteSet(RanFor(E, vs)) /\ Cardinality(RanFor(E, vs)) \in Nat
    <2>1. RanFor(E, vs) \subseteq (1 .. round) \X (1 .. 2)
        <3> SUFFICES ASSUME NEW p \in RanFor(E, vs) PROVE p \in (1 .. round) \X (1 .. 2)
            OBVIOUS
        <3>1. PICK e \in E : p = <<e[1], e[2]>>
            BY DEF RanFor
        <3>2. QED
            BY <1>2, <3>1
    <2>2. IsFiniteSet(1 .. round) /\ IsFiniteSet(1 .. 2)
        BY <1>1, FS_Interval, TwoFinite
    <2>3. IsFiniteSet((1 .. round) \X (1 .. 2))
        BY <2>2, FS_Product
    <2>4. QED
        BY <2>1, <2>3, FS_Subset, FS_CardinalityType
<1>4. IsFiniteSet(OpenCalls) /\ Cardinality(OpenCalls) \in Nat
    <2>1. OpenCalls \subseteq 1 .. 2
        BY <1>1, AtWork DEF OpenCalls, Working, Limited
    <2>2. QED
        BY <2>1, TwoFinite, FS_Subset, FS_CardinalityType
<1>5. Before \subseteq executed
    BY DEF Before
<1>6. ASSUME NEW e \in executed, e[3] \in agent.calls.names,
             ~(<<e[1], e[2]>> \in DOMAIN verdicts /\ verdicts[<<e[1], e[2]>>].type = "edit"),
             e \notin Before
      PROVE e[1] = round /\ e[2] \in OpenCalls
    <2>1. Working /\ e[1] = round
        BY <1>1, <1>2, <1>6 DEF Before
    <2>2. LastAI(msgs) \in AIs(msgs) /\ msgs[LastAI(msgs)].r = round
        BY <1>1, <2>1, AtWork DEF Working, Current
    <2>3. Justified(e, msgs, verdicts, blocked, round)
        BY DEF Review, Past
    <2>4. Decided(e, Calls, verdicts) /\ <<round, e[2]>> \notin blocked
        BY <2>1, <2>2, <2>3 DEF Justified, Calls
    <2>5. e[3] = Calls[e[2]] /\ e[2] \in DOMAIN Calls
        BY <1>6, <2>4 DEF Decided
    <2>6. QED
        BY <1>6, <2>1, <2>4, <2>5 DEF OpenCalls, Limited
<1> DEFINE P == {<<round, i>> : i \in OpenCalls}
           R == RanFor(Before, verdicts)
<1>7. RanFor(executed, verdicts) \subseteq R \cup P
    BY <1>6 DEF RanFor
<1>8. IsFiniteSet(P) /\ Cardinality(P) <= Cardinality(OpenCalls)
    BY <1>4, PairsBound
<1>9. IsFiniteSet(R) /\ Cardinality(R) \in Nat
    BY <1>3, <1>5
<1> HIDE DEF P, R
<1>10. Cardinality(P) \in Nat
    BY <1>8, FS_CardinalityType
<1>11. IsFiniteSet(R \cup P) /\ Cardinality(R \cup P) <= Cardinality(R) + Cardinality(P)
    <2>1. IsFiniteSet(R \cap P)
        BY <1>9, FS_Subset
    <2>2. Cardinality(R \cap P) \in Nat
        BY <2>1, FS_CardinalityType
    <2>3. IsFiniteSet(R \cup P) /\ Cardinality(R \cup P) = Cardinality(R) + Cardinality(P) - Cardinality(R \cap P)
        BY <1>8, <1>9, FS_Union
    <2>4. QED
        BY <1>9, <1>10, <2>2, <2>3
<1>12. Cardinality(RanFor(executed, verdicts)) <= Cardinality(R \cup P)
    BY <1>7, <1>11, FS_Subset
<1>13. Cardinality(RanFor(executed, verdicts)) \in Nat /\ Cardinality(R \cup P) \in Nat
    BY <1>3, <1>11, FS_CardinalityType
<1>14. Cardinality(RanFor(executed, verdicts)) <= Cardinality(R) + Cardinality(OpenCalls)
    BY <1>4, <1>8, <1>9, <1>10, <1>11, <1>12, <1>13
<1>15. QED
    BY <1>3, <1>4, <1>5, <1>7, <1>14 DEF P, R

\* The third layer, for tool calls: steps that stay at a node, or leave the tools
\* and the review for good.
LEMMA CallLimitRest ==
    ASSUME Base, Review, CallLimit, Stays \/ Rests \/ Loses \/ Clears \/ (\E i : Runs(i))
    PROVE CallLimit'
<1>1. Types /\ Current /\ round \in Nat /\ counts.tt \in Nat
    BY DEF Base, Types, Counts
<1>2. UNCHANGED <<agent, counts, verdicts, blocked>>
    BY DEF Stays, Rests, Loses, Clears, Runs, channelVars, historyVars
<1>3. RanFor(Before, verdicts)' = RanFor(Before', verdicts)
    BY <1>2 DEF RanFor
<1>4. CASE Working'
    <2>1. Working /\ UNCHANGED <<msgs, round>>
        BY <1>4 DEF Working, Stays, Rests, Loses, Clears, Runs, channelVars, historyVars
    <2>2. OpenCalls' = OpenCalls
        BY <1>2, <1>4, <2>1 DEF OpenCalls, Limited, Calls
    <2>3. Before' = Before
        <3>1. \/ executed' = executed
              \/ \E i : executed' = executed \cup {<<round, i, ToolFor(i)>>}
            BY DEF Stays, Rests, Loses, Clears, Runs, historyVars
        <3>2. ~(round < round)
            BY <1>1
        <3>3. QED
            BY <1>4, <2>1, <3>1, <3>2 DEF Before
    <2>4. QED
        BY <1>2, <1>3, <2>2, <2>3 DEF CallLimit
<1>5. CASE ~Working'
    <2>1. executed' = executed
        BY <1>5 DEF Working, Stays, Rests, Loses, Clears, Runs, historyVars
    <2>2. OpenCalls' = {} /\ Before' = executed
        BY <1>5, <2>1 DEF OpenCalls, Before
    <2>3. Cardinality(OpenCalls') = 0
        BY <2>2, FS_EmptySet
    <2>4. /\ Cardinality(RanFor(executed, verdicts)) <= Cardinality(RanFor(Before, verdicts)) + Cardinality(OpenCalls)
          /\ Cardinality(RanFor(executed, verdicts)) \in Nat
          /\ Cardinality(RanFor(Before, verdicts)) \in Nat /\ Cardinality(OpenCalls) \in Nat
        BY RanFacts
    <2>5. Cardinality(RanFor(Before, verdicts)') + Cardinality(OpenCalls') <= counts.tt
        BY <1>1, <1>3, <2>2, <2>3, <2>4 DEF CallLimit
    <2>6. QED
        BY <1>2, <2>5 DEF CallLimit
<1>6. QED
    BY <1>4, <1>5

\* The third layer, for tool calls: a review.
LEMMA CallLimitReviews ==
    ASSUME Base, Review, CallLimit, NEW d \in [Reviewable(msgs) -> Decisions], Reviews(d)
    PROVE CallLimit'
<1>1. /\ Types /\ Current /\ round \in Nat /\ counts.tt \in Nat /\ msgs \in Seq(Messages(agent))
      /\ AIs(msgs) # {} /\ Working
    BY DEF Base, Types, Counts, Current, Reviews, Working
<1>2. UNCHANGED <<agent, counts, round, executed, blocked>> /\ node = "hitl"
    BY DEF Reviews
<1>3. Before = executed
    BY <1>1, <1>2 DEF Before, Review, Past
<1>4. Before' = executed
    BY <1>2 DEF Before, Review, Past
<1>5. RanFor(executed, verdicts') = RanFor(executed, verdicts)
    <2>1. ASSUME NEW e \in executed
          PROVE /\ <<e[1], e[2]>> \in DOMAIN verdicts' <=> <<e[1], e[2]>> \in DOMAIN verdicts
                /\ <<e[1], e[2]>> \in DOMAIN verdicts => verdicts'[<<e[1], e[2]>>] = verdicts[<<e[1], e[2]>>]
        <3> DEFINE new == [i \in {<<round, j>> : j \in DOMAIN d} |-> d[i[2]]]
        <3>1. e[1] # round
            <4>1. e[1] < round /\ e[1] \in 1 .. round
                BY <1>2 DEF Review, Past, Justified
            <4>2. QED
                BY <1>1, <4>1
        <3>2. <<e[1], e[2]>> \notin DOMAIN new
            BY <3>1
        <3> HIDE DEF new
        <3>3. verdicts' = [x \in DOMAIN verdicts \cup DOMAIN new |-> IF x \in DOMAIN new THEN new[x] ELSE verdicts[x]]
            BY DEF Reviews, Override, new
        <3>4. QED
            BY <3>2, <3>3
    <2>2. QED
        BY <2>1 DEF RanFor
<1>6. RanFor(Before, verdicts)' = RanFor(executed, verdicts')
    BY <1>2, <1>4 DEF RanFor
<1>7. OpenCalls' \subseteq OpenCalls
    <2>1. /\ msgs' \in Seq(Messages(agent)) /\ Grows(msgs, msgs')
          /\ \A j \in Added(msgs, msgs') : msgs'[j].k # "ai"
        BY DEF Reviews, AddsTools, ToolMsgs
    <2>2. msgs'[LastAI(msgs')] = msgs[LastAI(msgs)]
        BY <1>1, <2>1, GrowsByTools
    <2>3. QED
        BY <1>1, <1>2, <2>2 DEF OpenCalls, Limited, Calls
<1>8. /\ IsFiniteSet(OpenCalls) /\ Cardinality(OpenCalls) \in Nat
      /\ Cardinality(RanFor(Before, verdicts)) \in Nat
    BY RanFacts
<1>9. IsFiniteSet(OpenCalls') /\ Cardinality(OpenCalls') <= Cardinality(OpenCalls)
    BY <1>7, <1>8, FS_Subset
<1>10. Cardinality(OpenCalls') \in Nat
    BY <1>9, FS_CardinalityType
<1>11. Cardinality(RanFor(Before, verdicts)') + Cardinality(OpenCalls') <= counts.tt
    BY <1>1, <1>3, <1>5, <1>6, <1>8, <1>9, <1>10 DEF CallLimit
<1>12. QED
    BY <1>2, <1>11 DEF CallLimit

\* The third layer, for tool calls: a response.
LEMMA CallLimitCommits ==
    ASSUME Base, Review, CallLimit, Commits
    PROVE CallLimit'
<1> DEFINE calls == answer.calls
           A == AllowedCalls(calls, counts)
<1>1. Types /\ round \in Nat /\ counts \in Counts /\ counts.tt \in Nat
    BY DEF Base, Types, Counts
<1>2. UNCHANGED <<agent, executed, verdicts>> /\ node = "model" /\ round' = round + 1
    BY DEF Commits
<1>3. OpenCalls = {} /\ Before = executed
    BY <1>2 DEF OpenCalls, Before, Working
<1>4. Before' = executed
    <2>1. \A e \in executed : e[1] < round + 1
        <3>1. \A e \in executed : e[1] \in 1 .. round
            BY DEF Review, Past, Justified
        <3>2. QED
            BY <1>1, <3>1
    <2>2. QED
        BY <1>2, <2>1 DEF Before
<1>5. RanFor(Before, verdicts)' = RanFor(executed, verdicts)
    BY <1>2, <1>4 DEF RanFor
<1>6. /\ Cardinality(RanFor(executed, verdicts)) <= counts.tt
      /\ Cardinality(RanFor(executed, verdicts)) \in Nat
    <2>1. /\ Cardinality(RanFor(executed, verdicts)) <= Cardinality(RanFor(Before, verdicts)) + Cardinality(OpenCalls)
          /\ Cardinality(RanFor(executed, verdicts)) \in Nat
          /\ Cardinality(RanFor(Before, verdicts)) \in Nat /\ Cardinality(OpenCalls) \in Nat
        BY RanFacts
    <2>2. QED
        BY <1>1, <2>1 DEF CallLimit
<1>7. CASE StructuredDone(answer) /\ counts' = counts /\ node' \notin {"hitl", "tools"}
    <2>1. OpenCalls' = {}
        BY <1>7 DEF OpenCalls, Working
    <2>2. Cardinality(OpenCalls') = 0
        BY <2>1, FS_EmptySet
    <2>3. Cardinality(RanFor(Before, verdicts)') + Cardinality(OpenCalls') <= counts.tt
        BY <1>5, <1>6, <2>2
    <2>4. QED
        BY <1>2, <1>7, <2>3 DEF CallLimit
<1>8. CASE /\ counts' = CountToolCalls(calls, CountModelCall(counts))
           /\ blocked' = blocked \cup {<<round + 1, i>> : i \in BlockedCalls(calls, counts)}
    <2> DEFINE c == CountModelCall(counts)
    <2>1. c \in Counts /\ c.tt = counts.tt /\ c.rt = counts.rt
        BY <1>1, CountFacts
    <2>2. AllowedCalls(calls, c) = A
        BY <2>1 DEF AllowedCalls
    <2> HIDE DEF c
    <2>3. counts'.tt = counts.tt + Cardinality(A) /\ IsFiniteSet(A)
        BY <1>1, <1>8, <2>1, <2>2, CountFacts DEF c
    <2>4. Cardinality(A) \in Nat
        BY <2>3, FS_CardinalityType
    <2>5. OpenCalls' \subseteq A
        <3>1. CASE ~Working'
            BY <3>1 DEF OpenCalls
        <3>2. CASE Working'
            <4>1. Calls' = calls
                <5>1. msgs'[LastAI(msgs')] = NewAI
                    BY <3>2, CommitFacts DEF Working
                <5>2. QED
                    BY <1>1, <5>1, NewAIFacts DEF Calls
            <4>2. OpenCalls' = {i \in Limited(calls) : <<round + 1, i>> \notin blocked'}
                BY <1>2, <3>2, <4>1 DEF OpenCalls, Limited
            <4>3. QED
                BY <1>8, <4>2 DEF BlockedCalls
        <3>3. QED
            BY <3>1, <3>2
    <2> HIDE DEF A
    <2>6. IsFiniteSet(OpenCalls') /\ Cardinality(OpenCalls') <= Cardinality(A)
        BY <2>3, <2>5, FS_Subset
    <2>7. Cardinality(OpenCalls') \in Nat
        BY <2>6, FS_CardinalityType
    <2>8. Cardinality(RanFor(Before, verdicts)') + Cardinality(OpenCalls') <= counts'.tt
        BY <1>1, <1>5, <1>6, <2>3, <2>4, <2>6, <2>7
    <2>9. agent.calls.thread # None => counts'.tt <= agent.calls.thread
        BY <1>1, <2>3, AllowedFit DEF CallLimit, A
    <2>10. QED
        BY <1>2, <2>8, <2>9 DEF CallLimit
<1>9. QED
    BY <1>7, <1>8 DEF Commits, Responds

\* The third layer is inductive.
LEMMA CountingStep ==
    ASSUME Base, Review, Counting, [Next]_vars
    PROVE Counting'
<1>1. ModelLimit /\ CallLimit
    BY DEF Counting
<1>2. CASE Stays \/ Rests \/ Loses \/ Clears \/ \E i \in 1 .. 2 : Runs(i)
    BY <1>1, <1>2, ModelLimitRest, CallLimitRest DEF Counting
<1>3. ASSUME NEW d \in [Reviewable(msgs) -> Decisions], Reviews(d) PROVE Counting'
    BY <1>1, <1>3, ModelLimitRest, CallLimitReviews DEF Counting
<1>4. CASE Commits
    BY <1>1, <1>4, ModelLimitCommits, CallLimitCommits DEF Counting
<1>5. QED
    BY <1>2, <1>3, <1>4, StepKinds

\* The third layer holds initially.
LEMMA CountingInit ==
    ASSUME Init
    PROVE Counting
<1>1. Counted(msgs) = {} /\ OpenCalls = {} /\ RanFor(Before, verdicts) = {}
    BY DEF Init, Counted, AIs, OpenCalls, Before, Working, RanFor
<1>2. Cardinality({}) = 0
    BY FS_EmptySet
<1>3. counts.tm = 0 /\ counts.tt = 0 /\ answer = NoAnswer
    BY DEF Init
<1>4. {agent.model.thread, agent.calls.thread} \subseteq Limits
    BY Shape DEF Init, AgentShape
<1>5. (agent.model.thread # None => 0 <= agent.model.thread) /\ (agent.calls.thread # None => 0 <= agent.calls.thread)
    BY <1>4 DEF Limits
<1>6. QED
    BY <1>1, <1>2, <1>3, <1>5 DEF Counting, ModelLimit, CallLimit

\* The thread's limits on model calls and on tool calls hold over turns, retries,
\* crashes, reviews and parallel workers, for every agent and every limit.
THEOREM ThreadLimits == Spec => []LimitsHold
<1>1. Base /\ Review /\ Counting => LimitsHold
    <2> SUFFICES ASSUME Base, Review, Counting PROVE LimitsHold
        OBVIOUS
    <2>1. Types /\ counts.tm \in Nat /\ counts.tt \in Nat /\ AgentShape(agent) /\ msgs \in Seq(Messages(agent))
        BY Shape DEF Base, Types, Counts
    <2>2. (agent.model.thread # None => agent.model.thread \in Nat) /\ (agent.calls.thread # None => agent.calls.thread \in Nat)
        BY <2>1 DEF AgentShape, Limits
    <2>3. agent.model.thread # None => Cardinality(Counted(msgs)) <= agent.model.thread
        <3>1. Cardinality(Counted(msgs)) \in Nat
            BY <2>1, CountedFacts
        <3>2. QED
            BY <2>1, <2>2, <3>1 DEF Counting, ModelLimit
    <2>4. agent.calls.thread # None => Cardinality(RanFor(executed, verdicts)) <= agent.calls.thread
        <3>1. /\ Cardinality(RanFor(executed, verdicts)) <= Cardinality(RanFor(Before, verdicts)) + Cardinality(OpenCalls)
              /\ Cardinality(RanFor(executed, verdicts)) \in Nat
              /\ Cardinality(RanFor(Before, verdicts)) \in Nat /\ Cardinality(OpenCalls) \in Nat
            BY RanFacts
        <3>2. QED
            BY <2>1, <2>2, <3>1 DEF Counting, CallLimit
    <2>5. QED
        BY <2>3, <2>4 DEF LimitsHold, Counted, RanFor
<1>2. Init => Base /\ Review /\ Counting
    BY BaseInit, ReviewInit, CountingInit
<1>3. Base /\ Review /\ Counting /\ [Next]_vars => (Base /\ Review /\ Counting)'
    BY BaseStep, ReviewStepInv, CountingStep
<1>4. QED
    BY <1>1, <1>2, <1>3, PTL DEF Spec
-----------------------------------------------------------------------------
(* The fourth layer: what answers the calls of the history.                 *)

\* What the theorem asks of an agent: without client tools the model names output
\* tools only; and where a hook may jump back to the model, neither a structured
\* answer nor a limit ends the run over calls that nothing answers.
Answerable(a) ==
    /\ a.tools = {} => a.names \subseteq a.structured
    /\ "model" \in a.after => /\ a.structured = {} \/ a.tools = {}
                              /\ a.calls.names = {} \/ a.calls.exit # "end"

\* Call c of the AI message at i is answered before the next AI message.
Replied(ms, i, c) ==
    \E j \in DOMAIN ms : /\ ms[j].k = "tool" /\ ms[j].call = c
                         /\ i < j /\ \A m \in AIs(ms) : i < m => j < m
Repaired(ms, i) == ms[i].invalid => Replied(ms, i, InvalidID(ms[i].r))
Settled(ms, i) == Repaired(ms, i) /\ \A c \in DOMAIN ms[i].calls : Replied(ms, i, c)
\* What the review and the tools leave to no other: calls of the output tools S.
Begun(S, ms, i) ==
    Repaired(ms, i) /\ \A c \in DOMAIN ms[i].calls : ms[i].calls[c] \in S => Replied(ms, i, c)
InTurn(ms, i) == \A h \in DOMAIN ms : ms[h] = Human => h <= i

\* The graph at node n of agent a may reach the model in this turn.
Onward(n, a) ==
    \/ n \in {"before_agent", "model", "hitl", "tools"}
    \/ n = "after_agent" /\ "model" \in a.after
\* The responses of the turn are settled, the one at work is begun.
Orderly(ms, n, a) ==
    \A i \in AIs(ms) : InTurn(ms, i) =>
        IF n \in {"hitl", "tools"} /\ i = LastAI(ms) THEN Begun(a.structured, ms, i) ELSE Settled(ms, i)
\* No message answers an invalid call of a response to come.
NotAhead(ms, r) == \A j \in DOMAIN ms : ms[j].k = "tool" => ms[j].call >= InvalidID(r)
\* An invalid call stands beside client calls.
InvalidCalls(resp, a) == resp.invalid => \A c \in DOMAIN resp.calls : resp.calls[c] \in a.tools

History ==
    /\ NotAhead(msgs, round) /\ InvalidCalls(answer, agent)
    /\ Onward(node, agent) => Orderly(msgs, node, agent)

\* What has been answered stays answered.
LEMMA RepliedGrows ==
    ASSUME NEW M, NEW ms \in Seq(M), NEW ns \in Seq(M), Grows(ms, ns), NEW i \in AIs(ms),
           NEW c, Replied(ms, i, c)
    PROVE Replied(ns, i, c)
<1>1. /\ Len(ms) \in Nat /\ Len(ns) \in Nat /\ DOMAIN ms = 1 .. Len(ms) /\ DOMAIN ns = 1 .. Len(ns)
      /\ Len(ms) <= Len(ns) /\ \A j \in DOMAIN ms : j \in DOMAIN ns /\ ns[j] = ms[j]
    BY DEF Grows
<1>2. \A m \in AIs(ns) : m \in AIs(ms) \/ m > Len(ms)
    BY <1>1 DEF AIs
<1>3. PICK j \in DOMAIN ms : ms[j].k = "tool" /\ ms[j].call = c /\ i < j /\ \A m \in AIs(ms) : i < m => j < m
    BY DEF Replied
<1>4. ASSUME NEW m \in AIs(ns), i < m PROVE j < m
    <2>1. CASE m \in AIs(ms)
        BY <1>3, <1>4, <2>1
    <2>2. CASE m > Len(ms)
        BY <1>1, <1>3, <2>2 DEF AIs
    <2>3. QED
        BY <1>2, <2>1, <2>2
<1>5. j \in DOMAIN ns /\ ns[j] = ms[j]
    BY <1>1
<1>6. QED
    BY <1>3, <1>4, <1>5 DEF Replied

LEMMA SettledGrows ==
    ASSUME NEW M, NEW ms \in Seq(M), NEW ns \in Seq(M), Grows(ms, ns), NEW i \in AIs(ms), NEW S
    PROVE /\ InTurn(ns, i) => InTurn(ms, i)
          /\ Settled(ms, i) => Settled(ns, i)
          /\ Begun(S, ms, i) => Begun(S, ns, i)
<1>1. i \in DOMAIN ms /\ \A j \in DOMAIN ms : j \in DOMAIN ns /\ ns[j] = ms[j]
    BY DEF Grows, AIs
<1>2. \A c : Replied(ms, i, c) => Replied(ns, i, c)
    BY RepliedGrows
<1>3. InTurn(ns, i) => InTurn(ms, i)
    BY <1>1 DEF InTurn
<1>4. Repaired(ms, i) => Repaired(ns, i)
    BY <1>1, <1>2 DEF Repaired
<1>5. QED
    BY <1>1, <1>2, <1>3, <1>4 DEF Settled, Begun

\* For the last AI message, any tool message behind it is an answer.
LEMMA LastReplied ==
    ASSUME NEW M, NEW ms \in Seq(M), AIs(ms) # {}, NEW c
    PROVE Replied(ms, LastAI(ms), c) <=> c \in Answered(ms)
<1> DEFINE i == LastAI(ms)
<1>1. i \in 1 .. Len(ms) /\ \A m \in AIs(ms) : m <= i
    BY LastAIFacts
<1>2. DOMAIN ms = 1 .. Len(ms) /\ AIs(ms) \subseteq 1 .. Len(ms)
    BY DEF AIs
<1> HIDE DEF i
<1>3. \A m \in AIs(ms) : ~(i < m)
    BY <1>1, <1>2
<1>4. Replied(ms, i, c) <=> \E j \in DOMAIN ms : ms[j].k = "tool" /\ ms[j].call = c /\ j > i
    BY <1>1, <1>2, <1>3 DEF Replied
<1>5. Answered(ms) = {m.call : m \in {ms[j] : j \in {n \in DOMAIN ms : n > i /\ ms[n].k = "tool"}}}
    BY DEF Answered, ToolMsgsAfter, i
<1>6. QED
    BY <1>4, <1>5 DEF i

\* Tool messages behind the last AI message.
LEMMA RepliesAdded ==
    ASSUME NEW M, NEW ms \in Seq(M), NEW ns \in Seq(M), Grows(ms, ns), AIs(ms) # {},
           \A j \in Added(ms, ns) : ns[j].k = "tool"
    PROVE /\ AIs(ns) = AIs(ms) /\ LastAI(ns) = LastAI(ms) /\ ns[LastAI(ms)] = ms[LastAI(ms)]
          /\ \A j \in Added(ms, ns) : Replied(ns, LastAI(ms), ns[j].call)
<1>1. /\ AIs(ns) = AIs(ms) /\ LastAI(ns) = LastAI(ms) /\ ns[LastAI(ns)] = ms[LastAI(ms)]
      /\ \A j \in Added(ms, ns) : ns[j].call \in Answered(ns)
    BY GrowsByTools
<1>2. QED
    BY <1>1, LastReplied

\* Where the graph goes on without the tools, the response is settled.
LEMMA SettledByRoute ==
    ASSUME NEW M, NEW ms \in Seq(M), AIs(ms) # {}, NEW sr, RouteAfterModel(ms, sr) # "tools",
           Begun(agent.structured, ms, LastAI(ms))
    PROVE Settled(ms, LastAI(ms))
<1> DEFINE i == LastAI(ms)
<1>1. CASE ms[i].calls = <<>>
    <2>1. DOMAIN ms[i].calls = {}
        BY <1>1
    <2>2. QED
        BY <2>1 DEF Begun, Settled
<1>2. CASE ms[i].calls # <<>>
    <2>1. \A c \in unansweredToolCalls(ms) : ms[i].calls[c] \in agent.structured
        BY <1>2 DEF RouteAfterModel
    <2>2. unansweredToolCalls(ms) = DOMAIN ms[i].calls \ Answered(ms)
        BY DEF unansweredToolCalls
    <2>3. ASSUME NEW c \in DOMAIN ms[i].calls PROVE Replied(ms, i, c)
        <3>1. CASE c \in Answered(ms)
            BY <3>1, LastReplied
        <3>2. CASE c \notin Answered(ms)
            BY <2>1, <2>2, <2>3, <3>2 DEF Begun
        <3>3. QED
            BY <3>1, <3>2
    <2>4. QED
        BY <2>3 DEF Begun, Settled
<1>3. QED
    BY <1>1, <1>2

\* The numbers of invalid calls go down.
LEMMA InvalidIDs ==
    ASSUME NEW r \in Nat, NEW n \in Nat, n <= r
    PROVE /\ InvalidID(n) >= InvalidID(r) /\ InvalidID(r) \in Int /\ InvalidID(r) <= 0
          /\ InvalidID(n) > InvalidID(r + 1) /\ InvalidID(n) \in Int
BY DEF InvalidID

LEMMA NotAheadGrows ==
    ASSUME NEW a, NEW ms \in Seq(Messages(a)), NEW ns \in Seq(Messages(a)), Grows(ms, ns),
           NEW r \in Nat, NEW s \in Nat, r <= s, NotAhead(ms, r),
           \A j \in Added(ms, ns) : ns[j].k = "tool" => ns[j].call >= InvalidID(s)
    PROVE NotAhead(ns, s)
<1>1. ASSUME NEW j \in DOMAIN ns, ns[j].k = "tool" PROVE ns[j].call >= InvalidID(s)
    <2>1. j \in Added(ms, ns) \/ (j \in DOMAIN ms /\ ns[j] = ms[j])
        BY DEF Grows, Added
    <2>2. ns[j].call \in Int
        BY <1>1, MessageKinds DEF ToolMsgs
    <2>3. InvalidID(r) >= InvalidID(s) /\ InvalidID(r) \in Int /\ InvalidID(s) \in Int
        BY InvalidIDs
    <2>4. QED
        BY <1>1, <2>1, <2>2, <2>3 DEF NotAhead
<1>2. QED
    BY <1>1 DEF NotAhead

\* What the model node commits answers, where the run may go on to the model.
Answering ==
    LET mid == Append(msgs, NewAI)
        Gives(c) == \E j \in Added(mid, msgs') : msgs'[j].k = "tool" /\ msgs'[j].call = c
    IN  /\ msgs' \in Seq(Messages(agent)) /\ Grows(mid, msgs')
        /\ \A j \in Added(mid, msgs') : msgs'[j].k = "tool" => msgs'[j].call >= InvalidID(round + 1)
        /\ Onward(node', agent) =>
              /\ \A j \in Added(mid, msgs') : msgs'[j].k = "tool"
              /\ answer.invalid => Gives(InvalidID(round + 1))
              /\ \A c \in Matched(answer.calls) : Gives(c)
              /\ \/ node' = RouteFromModel(msgs', response)
                 \/ node' = "after_agent" /\ DOMAIN answer.calls \subseteq Matched(answer.calls)

\* What a reduced update of tool messages behind the response gives.
LEMMA GivesAll ==
    ASSUME Types, NEW ns, NEW u, NEW S, Extends(msgs, NewAI, ns, u, S, Messages(agent))
    PROVE \A m \in Elements(u) : m.k = "tool" =>
              \E j \in Added(Append(msgs, NewAI), ns) : ns[j].k = "tool" /\ ns[j].call = m.call
<1> SUFFICES ASSUME NEW m \in Elements(u), m.k = "tool"
             PROVE \E j \in Added(Append(msgs, NewAI), ns) : ns[j].k = "tool" /\ ns[j].call = m.call
    OBVIOUS
<1>1. m # NewAI
    BY NewAIFacts
<1>2. PICK j \in Added(Append(msgs, NewAI), ns) : ns[j] = m
    BY <1>1 DEF Extends
<1>3. QED
    BY <1>2

\* The calls the model node answers by itself, with the repairs.
LEMMA CommittedReplies ==
    ASSUME Base, History, NEW ids
    PROVE LET errors == ErrorMessages(answer.calls, ids)
              repaired == repairInvalidToolCalls(Append(msgs, NewAI))
              Low == {m \in ToolMsgs(agent) : m.call >= InvalidID(round + 1)}
          IN  /\ errors \in Seq(Low) /\ repaired \in Seq(Low) /\ <<>> \in Seq(Low)
              /\ \A c \in ids \cap DOMAIN answer.calls : \E m \in Elements(errors) : m.k = "tool" /\ m.call = c
              /\ answer.invalid => \E m \in Elements(repaired) : m.k = "tool" /\ m.call = InvalidID(round + 1)
<1> DEFINE calls == answer.calls
           errors == ErrorMessages(calls, ids)
           mid == Append(msgs, NewAI)
           repaired == repairInvalidToolCalls(mid)
           Low == {m \in ToolMsgs(agent) : m.call >= InvalidID(round + 1)}
<1>1. Types /\ Rounds /\ round \in Nat /\ msgs \in Seq(Messages(agent)) /\ NotAhead(msgs, round)
    BY DEF Base, Types, History
<1>2. NewAI \in Messages(agent) /\ NewAI.k = "ai" /\ NewAI.r = round + 1 /\ calls \in CallSeqs(agent)
      /\ NewAI.invalid = answer.invalid
    BY <1>1, NewAIFacts DEF NewAI, AI
<1>3. /\ mid \in Seq(Messages(agent)) /\ RoundsOf(mid, round + 1, HasHITL)
      /\ AIs(mid) = AIs(msgs) \cup {Len(msgs) + 1} /\ mid[Len(msgs) + 1] = NewAI
    BY <1>1, <1>2, NewAIFacts, RoundsRespond DEF Rounds
<1>4. errors \in Seq(ToolMsgs(agent)) /\ repaired \in Seq(ToolMsgs(agent))
    BY <1>2, <1>3, ToolSeqs
<1>5. /\ \A m \in Elements(errors) : m.k = "tool" /\ m.call \in ids
      /\ \A c \in ids \cap DOMAIN calls : ToolMsg(c, calls[c]) \in Elements(errors)
    BY <1>2, ErrorMessagesFacts
<1>6. /\ \A m \in Elements(repaired) : m.k = "tool" /\ \E i \in AIs(mid) : m.call = InvalidID(mid[i].r)
      /\ \A i \in AIs(mid) : mid[i].invalid =>
            \/ \E j \in DOMAIN mid : mid[j].k = "tool" /\ mid[j].call = InvalidID(mid[i].r)
            \/ ToolMsg(InvalidID(mid[i].r), "error") \in Elements(repaired)
    BY <1>3, RepairFacts
<1>7. round + 1 \in Nat /\ InvalidID(round + 1) \in Int /\ InvalidID(round + 1) <= 0
    BY <1>1, InvalidIDs
<1>8. \A j \in DOMAIN msgs : mid[j] = msgs[j] /\ DOMAIN mid = DOMAIN msgs \cup {Len(msgs) + 1}
    BY <1>1
<1>9. ASSUME NEW j \in DOMAIN mid, mid[j].k = "tool" PROVE mid[j].call # InvalidID(round + 1)
    <2>1. j \in DOMAIN msgs /\ mid[j] = msgs[j]
        BY <1>2, <1>3, <1>8, <1>9
    <2>2. msgs[j].call >= InvalidID(round) /\ msgs[j].call \in Int
        BY <1>1, <1>9, <2>1, MessageKinds DEF NotAhead, ToolMsgs
    <2>3. InvalidID(round) > InvalidID(round + 1) /\ InvalidID(round) \in Int
        BY <1>1, InvalidIDs
    <2>4. QED
        BY <1>7, <2>1, <2>2, <2>3
<1>10. errors \in Seq(Low)
    <2>1. ASSUME NEW j \in 1 .. Len(errors) PROVE errors[j] \in Low
        <3>1. errors[j] \in ToolMsgs(agent) /\ errors[j] \in Elements(errors)
            BY <1>4 DEF Elements
        <3>2. \E i \in DOMAIN calls : errors[j].call = i
            <4>1. errors = ErrorMessages(calls, ids \cap DOMAIN calls)
                BY DEF ErrorMessages
            <4>2. errors[j].call \in ids \cap DOMAIN calls
                BY <1>2, <3>1, <4>1, ErrorMessagesFacts
            <4>3. QED
                BY <4>2
        <3>3. errors[j].call > 0 /\ errors[j].call \in Int
            BY <1>2, <3>2, CallsFacts
        <3>4. QED
            BY <1>7, <3>1, <3>3
    <2>2. QED
        BY <1>4, <2>1
<1>11. repaired \in Seq(Low)
    <2>1. ASSUME NEW j \in 1 .. Len(repaired) PROVE repaired[j] \in Low
        <3>1. repaired[j] \in ToolMsgs(agent) /\ repaired[j] \in Elements(repaired)
            BY <1>4 DEF Elements
        <3>2. PICK i \in AIs(mid) : repaired[j].call = InvalidID(mid[i].r)
            BY <1>6, <3>1
        <3>3. mid[i].r \in Nat /\ mid[i].r <= round + 1
            <4> HIDE DEF mid
            <4>1. mid[i].r \in 0 .. round + 1
                BY <1>3 DEF RoundsOf
            <4>2. QED
                BY <1>7, <4>1
        <3>4. InvalidID(mid[i].r) >= InvalidID(round + 1)
            BY <1>7, <3>3, InvalidIDs
        <3>5. QED
            BY <3>1, <3>2, <3>4
    <2>2. QED
        BY <1>4, <2>1
<1>12. ASSUME NEW c \in ids \cap DOMAIN calls PROVE \E m \in Elements(errors) : m.k = "tool" /\ m.call = c
    <2>1. ToolMsg(c, calls[c]) \in Elements(errors)
        BY <1>5, <1>12
    <2>2. QED
        BY <2>1 DEF ToolMsg
<1>13. ASSUME answer.invalid PROVE \E m \in Elements(repaired) : m.k = "tool" /\ m.call = InvalidID(round + 1)
    <2>1. ToolMsg(InvalidID(round + 1), "error") \in Elements(repaired)
        <3> DEFINE i == Len(msgs) + 1
        <3>1. i \in AIs(mid) /\ mid[i].invalid /\ mid[i].r = round + 1
            BY <1>2, <1>3, <1>13
        <3> HIDE DEF i, mid, repaired
        <3>2. QED
            BY <1>6, <1>9, <3>1
    <2>2. QED
        BY <2>1 DEF ToolMsg
<1>14. QED
    BY <1>10, <1>11, <1>12, <1>13

\* The model node fails, or commits an answer to all that it has to answer.
LEMMA ModelAnswers ==
    ASSUME Base, History, ModelNode, Answerable(agent)
    PROVE (UNCHANGED <<agent, msgs>> /\ node' = "model") \/ Answering
<1> DEFINE calls == answer.calls
           mid == Append(msgs, NewAI)
           retry == IF StructuredError(answer) THEN ErrorMessages(calls, Matched(calls)) ELSE <<>>
           repaired == repairInvalidToolCalls(mid)
           stopped == BlockedCalls(calls, counts)
           ends == stopped # {} /\ agent.calls.exit = "end"
           Low == {m \in ToolMsgs(agent) : m.call >= InvalidID(round + 1)}
           done == <<NewAI>> \o ErrorMessages(calls, Matched(calls))
           errors == <<NewAI>> \o retry \o repaired \o ErrorMessages(calls, stopped)
           Gives(c) == \E j \in Added(mid, msgs') : msgs'[j].k = "tool" /\ msgs'[j].call = c
<1>1. Types /\ Rounds /\ calls \in CallSeqs(agent) /\ NewAI.k = "ai" /\ AgentShape(agent)
    BY NewAIFacts, Shape DEF Base, Types
<1>2. /\ ErrorMessages(calls, Matched(calls)) \in Seq(Low) /\ repaired \in Seq(Low)
      /\ ErrorMessages(calls, stopped) \in Seq(Low) /\ <<>> \in Seq(Low) /\ retry \in Seq(Low)
      /\ \A c \in Matched(calls) : \E m \in Elements(ErrorMessages(calls, Matched(calls))) : m.k = "tool" /\ m.call = c
      /\ answer.invalid => \E m \in Elements(repaired) : m.k = "tool" /\ m.call = InvalidID(round + 1)
    <2>1. Matched(calls) \subseteq DOMAIN calls
        BY DEF Matched
    <2>2. QED
        BY <2>1, CommittedReplies
<1>3. Low \subseteq ToolMsgs(agent) /\ \A m \in Low : m.k = "tool" /\ m.call >= InvalidID(round + 1)
    BY DEF ToolMsgs
<1>4. Matched(calls) \subseteq DOMAIN calls /\ (Matched(calls) # {} => StructuredError(answer) \/ StructuredDone(answer))
    BY DEF StructuredError, Matched
<1>5. FinalNode \in {"after_agent", "END"}
    BY DEF FinalNode
<1>6. CASE StructuredDone(answer) /\ msgs' = MessagesReducer(msgs, done) /\ Goto(FinalNode)
    <2>1. Led(done, NewAI, Low) /\ Elements(ErrorMessages(calls, Matched(calls))) \subseteq Elements(done)
        BY <1>2, LedBuilds
    <2> HIDE DEF done, Low, mid, calls
    <2>2. Extends(msgs, NewAI, msgs', done, Low, Messages(agent))
        BY <1>1, <1>3, <1>6, <2>1, ModelAppends
    <2>3. \A c \in Matched(calls) : Gives(c)
        BY <1>1, <1>2, <2>1, <2>2, GivesAll DEF mid
    <2>4. ASSUME Onward(node', agent)
          PROVE /\ ~answer.invalid /\ DOMAIN answer.calls \subseteq Matched(answer.calls)
                /\ node' = "after_agent"
        <3>1. node' = "after_agent" /\ "model" \in agent.after
            BY <1>5, <1>6, <2>4 DEF Goto, Onward
        <3>2. Matched(calls) # {}
            <4>1. Cardinality(Matched(calls)) = 1
                BY <1>6 DEF StructuredDone, calls
            <4>2. QED
                BY <4>1, FS_EmptySet
        <3>3. agent.structured # {}
            BY <3>2 DEF Matched
        <3>4. agent.tools = {} /\ agent.names \subseteq agent.structured
            BY <3>1, <3>3 DEF Answerable
        <3>5. \A c \in DOMAIN calls : calls[c] \in agent.names
            BY <1>1, CallsFacts
        <3>6. DOMAIN calls \subseteq Matched(calls)
            BY <3>4, <3>5 DEF Matched
        <3>7. ~answer.invalid
            BY <1>4, <3>2, <3>4 DEF History, InvalidCalls, calls
        <3>8. QED
            BY <3>1, <3>6, <3>7 DEF calls
    <2>5. /\ msgs' \in Seq(Messages(agent)) /\ Grows(mid, msgs')
          /\ \A j \in Added(mid, msgs') : msgs'[j] \in Low
        BY <2>2 DEF Extends, mid
    <2>6. Answering
        BY <1>3, <2>3, <2>4, <2>5 DEF Answering, mid, calls
    <2>7. QED
        BY <2>6
<1>7. CASE /\ ~StructuredDone(answer)
           /\ msgs' = MessagesReducer(msgs, errors \o (IF ends THEN <<TextAI>> ELSE <<>>))
           /\ Goto(IF ends THEN FinalNode ELSE RouteFromModel(msgs', response))
    <2> DEFINE S == IF ends THEN Low \cup {TextAI} ELSE Low
               all == errors \o (IF ends THEN <<TextAI>> ELSE <<>>)
    <2>1. /\ Led(all, NewAI, S)
          /\ Elements(retry) \subseteq Elements(all) /\ Elements(repaired) \subseteq Elements(all)
        <3> HIDE DEF Low, ends, retry, repaired, stopped, calls
        <3>1. Low \subseteq S
            OBVIOUS
        <3>2. (IF ends THEN <<TextAI>> ELSE <<>>) \in Seq(S)
            <4>1. CASE ends
                BY <4>1
            <4>2. CASE ~ends
                BY <4>2
            <4> HIDE DEF S
            <4>3. QED
                BY <4>1, <4>2
        <3> HIDE DEF S
        <3>3. retry \in Seq(S) /\ repaired \in Seq(S) /\ ErrorMessages(calls, stopped) \in Seq(S)
            BY <1>2, <3>1
        <3>4. Led(<<NewAI>> \o retry, NewAI, S) /\ Elements(retry) \subseteq Elements(<<NewAI>> \o retry)
            BY <3>3, LedBuilds
        <3>5. /\ Led(<<NewAI>> \o retry \o repaired, NewAI, S)
              /\ Elements(repaired) \subseteq Elements(<<NewAI>> \o retry \o repaired)
              /\ Elements(<<NewAI>> \o retry) \subseteq Elements(<<NewAI>> \o retry \o repaired)
            BY <3>3, <3>4, LedBuilds
        <3>6. /\ Led(errors, NewAI, S)
              /\ Elements(<<NewAI>> \o retry \o repaired) \subseteq Elements(errors)
            BY <3>3, <3>5, LedBuilds
        <3> HIDE DEF errors
        <3>7. Led(all, NewAI, S) /\ Elements(errors) \subseteq Elements(all)
            BY <3>2, <3>6, LedBuilds
        <3>8. QED
            BY <3>4, <3>5, <3>6, <3>7
    <2>2. S \subseteq Low \cup {TextAI} /\ (~ends => S = Low)
        OBVIOUS
    <2>3. msgs' = MessagesReducer(msgs, all)
        BY <1>7
    <2> HIDE DEF errors, all, Low, mid, calls, S, repaired
    <2>4. Extends(msgs, NewAI, msgs', all, S, Messages(agent))
        BY <1>1, <1>3, <2>1, <2>2, <2>3, ModelAppends
    <2>5. /\ msgs' \in Seq(Messages(agent)) /\ Grows(mid, msgs')
          /\ \A j \in Added(mid, msgs') : msgs'[j] \in S
        BY <2>4 DEF Extends, mid
    <2>6. answer.invalid => Gives(InvalidID(round + 1))
        BY <1>1, <1>2, <2>1, <2>4, GivesAll DEF mid
    <2>7. ASSUME NEW c \in Matched(calls) PROVE Gives(c)
        <3>1. retry = ErrorMessages(calls, Matched(calls))
            BY <1>4, <1>7, <2>7
        <3> HIDE DEF retry
        <3>2. \E m \in Elements(all) : m.k = "tool" /\ m.call = c
            BY <1>2, <2>1, <2>7, <3>1
        <3>3. QED
            BY <1>1, <2>4, <3>2, GivesAll DEF mid
    <2>8. ASSUME Onward(node', agent) PROVE ~ends /\ node' = RouteFromModel(msgs', response)
        <3>1. ASSUME ends PROVE FALSE
            <4>1. "model" \in agent.after
                BY <1>5, <1>7, <2>8, <3>1 DEF Goto, Onward
            <4>2. agent.calls.names = {}
                BY <3>1, <4>1 DEF Answerable
            <4>3. QED
                BY <3>1, <4>2 DEF BlockedCalls, Limited
        <3>2. QED
            BY <1>7, <3>1 DEF Goto
    <2>9. TextAI.k # "tool"
        BY DEF TextAI, AI
    <2>10. Answering
        <3> HIDE DEF ends
        <3>1. \A j \in Added(mid, msgs') : msgs'[j].k = "tool" => msgs'[j].call >= InvalidID(round + 1)
            BY <1>3, <2>2, <2>5, <2>9
        <3>2. Onward(node', agent) => \A j \in Added(mid, msgs') : msgs'[j].k = "tool"
            BY <1>3, <2>2, <2>5, <2>8
        <3>3. QED
            BY <2>5, <2>6, <2>7, <2>8, <3>1, <3>2 DEF Answering, mid, calls
    <2>11. QED
        BY <2>10
<1>8. QED
    <2>1. \/ StructuredDone(answer) /\ msgs' = MessagesReducer(msgs, done) /\ Goto(FinalNode)
          \/ Fail
          \/ /\ ~StructuredDone(answer)
             /\ msgs' = MessagesReducer(msgs, errors \o (IF ends THEN <<TextAI>> ELSE <<>>))
             /\ Goto(IF ends THEN FinalNode ELSE RouteFromModel(msgs', response))
        BY Zenon DEF ModelNode, NewAI
    <2>2. CASE Fail
        BY <2>2 DEF Fail, ModelNode
    <2>3. QED
        BY <1>6, <1>7, <2>1, <2>2

\* The graph stays where it is.
LEMMA HistoryKeep ==
    ASSUME Base, History, UNCHANGED <<agent, msgs, node>>, round' \in {round, round + 1},
           InvalidCalls(answer', agent)
    PROVE History'
<1>1. round \in Nat /\ msgs \in Seq(Messages(agent)) /\ NotAhead(msgs, round)
    BY DEF Base, Types, History
<1>2. Grows(msgs, msgs) /\ Added(msgs, msgs) = {} /\ round' \in Nat /\ round <= round'
    BY <1>1 DEF Grows, Added
<1>3. NotAhead(msgs, round')
    BY <1>1, <1>2, NotAheadGrows
<1>4. QED
    BY <1>3 DEF History

\* The graph goes on to a node that is neither the review nor the tools.
LEMMA HistoryGoto ==
    ASSUME Base, History, UNCHANGED <<agent, round>>, answer' = NoAnswer, node' \notin {"hitl", "tools"},
           msgs' \in Seq(Messages(agent)), Grows(msgs, msgs'),
           \A j \in Added(msgs, msgs') : msgs'[j].k # "tool",
           Onward(node', agent) => \A i \in AIs(msgs') : InTurn(msgs', i) => Settled(msgs', i)
    PROVE History'
<1>1. round \in Nat /\ msgs \in Seq(Messages(agent)) /\ NotAhead(msgs, round)
    BY DEF Base, Types, History
<1>2. NotAhead(msgs', round)
    BY <1>1, NotAheadGrows
<1>3. InvalidCalls(NoAnswer, agent)
    BY DEF InvalidCalls, NoAnswer
<1>4. QED
    BY <1>2, <1>3 DEF History, Orderly

\* The review or the tools are left, or the review leads to the tools.
LEMMA HistoryAtWork ==
    ASSUME Base, History, UNCHANGED <<agent, round>>, answer' = NoAnswer, node \in {"hitl", "tools"},
           AddsTools(msgs, msgs'),
           Begun(agent.structured, msgs', LastAI(msgs')) =>
               node' \in {"hitl", "tools"} \/ Settled(msgs', LastAI(msgs'))
    PROVE History'
<1> DEFINE i == LastAI(msgs)
<1>1. /\ round \in Nat /\ msgs \in Seq(Messages(agent)) /\ NotAhead(msgs, round) /\ AIs(msgs) # {}
      /\ Orderly(msgs, node, agent)
    <2>1. Onward(node, agent)
        BY DEF Onward
    <2>2. Orderly(msgs, node, agent) /\ NotAhead(msgs, round)
        BY <2>1 DEF History
    <2>3. round \in Nat /\ msgs \in Seq(Messages(agent))
        BY DEF Base, Types
    <2>4. AIs(msgs) # {}
        BY DEF Base, Current
    <2>5. QED
        BY <2>2, <2>3, <2>4
<1>2. /\ msgs' \in Seq(Messages(agent)) /\ Grows(msgs, msgs')
      /\ \A j \in Added(msgs, msgs') : msgs'[j].k = "tool" /\ msgs'[j].call > 0 /\ msgs'[j].call \in Int
    BY DEF AddsTools, ToolMsgs
<1>3. AIs(msgs') = AIs(msgs) /\ LastAI(msgs') = i
    BY <1>1, <1>2, RepliesAdded
<1>4. NotAhead(msgs', round)
    <2>1. InvalidID(round) \in Int /\ InvalidID(round) <= 0
        BY <1>1, InvalidIDs
    <2>2. \A j \in Added(msgs, msgs') : msgs'[j].call >= InvalidID(round)
        BY <1>2, <2>1
    <2>3. QED
        BY <1>1, <1>2, <2>2, NotAheadGrows
<1>5. InvalidCalls(NoAnswer, agent)
    BY DEF InvalidCalls, NoAnswer
<1>6. Orderly(msgs', node', agent)
    <2> SUFFICES ASSUME NEW m \in AIs(msgs'), InTurn(msgs', m)
                 PROVE IF node' \in {"hitl", "tools"} /\ m = LastAI(msgs')
                       THEN Begun(agent.structured, msgs', m) ELSE Settled(msgs', m)
        BY DEF Orderly
    <2>1. m \in AIs(msgs) /\ InTurn(msgs, m)
        BY <1>1, <1>2, <1>3, SettledGrows
    <2>2. CASE m = i
        <3>1. Begun(agent.structured, msgs, m)
            BY <1>1, <2>1, <2>2 DEF Orderly
        <3>2. Begun(agent.structured, msgs', m)
            BY <1>1, <1>2, <2>1, <3>1, SettledGrows
        <3>3. QED
            BY <1>3, <2>2, <3>2
    <2>3. CASE m # i
        <3>1. Settled(msgs, m)
            BY <1>1, <2>1, <2>3 DEF Orderly
        <3>2. Settled(msgs', m)
            BY <1>1, <1>2, <2>1, <3>1, SettledGrows
        <3>3. QED
            BY <1>3, <2>3, <3>2
    <2>4. QED
        BY <2>2, <2>3
<1>7. QED
    BY <1>4, <1>5, <1>6 DEF History

\* The model node.
LEMMA HistoryModel ==
    ASSUME Base, History, ModelNode, Answerable(agent)
    PROVE History'
<1> DEFINE mid == Append(msgs, NewAI)
           i == Len(msgs) + 1
<1>1. /\ Types /\ Rounds /\ round \in Nat /\ msgs \in Seq(Messages(agent)) /\ NotAhead(msgs, round)
      /\ node = "model" /\ round' = round + 1 /\ AgentShape(agent)
    BY Shape DEF Base, Types, History, ModelNode
<1>2. agent' = agent /\ answer' = NoAnswer
    BY <1>1, ModelNodeFacts
<1>3. InvalidCalls(NoAnswer, agent)
    BY DEF InvalidCalls, NoAnswer
<1>4. CASE UNCHANGED <<agent, msgs>> /\ node' = "model"
    BY <1>1, <1>2, <1>3, <1>4, HistoryKeep
<1>5. CASE Answering
    <2>1. /\ NewAI \in Messages(agent) /\ NewAI.k = "ai" /\ NewAI.r = round + 1
          /\ NewAI.calls = answer.calls /\ NewAI.invalid = answer.invalid /\ answer.calls \in CallSeqs(agent)
        BY <1>1, NewAIFacts DEF NewAI, AI
    <2>2. /\ mid \in Seq(Messages(agent)) /\ Grows(msgs, mid)
          /\ AIs(mid) = AIs(msgs) \cup {i} /\ mid[i] = NewAI /\ LastAI(mid) = i
        BY <1>1, <2>1, NewAIFacts, RoundsRespond DEF Rounds
    <2>3. /\ msgs' \in Seq(Messages(agent)) /\ Grows(mid, msgs')
          /\ \A j \in Added(mid, msgs') : msgs'[j].k = "tool" => msgs'[j].call >= InvalidID(round + 1)
        BY <1>5 DEF Answering
    <2>4. Len(mid) = i /\ i \in Nat
        BY <1>1
    <2> HIDE DEF mid, i
    <2>5. NotAhead(msgs', round + 1)
        <3>1. \A j \in Added(msgs, mid) : mid[j].k # "tool"
            <4>1. \A j \in Added(msgs, mid) : j = i
                BY <1>1, <2>4 DEF Added, i
            <4>2. QED
                BY <2>1, <2>2, <4>1
        <3>2. round + 1 \in Nat /\ round <= round + 1 /\ round + 1 <= round + 1
            BY <1>1
        <3>3. NotAhead(mid, round + 1)
            BY <1>1, <2>2, <3>1, <3>2, NotAheadGrows
        <3>4. QED
            BY <2>2, <2>3, <3>2, <3>3, NotAheadGrows
    <2>6. ASSUME Onward(node', agent) PROVE Orderly(msgs', node', agent)
        <3>1. /\ \A j \in Added(mid, msgs') : msgs'[j].k = "tool"
              /\ answer.invalid => \E j \in Added(mid, msgs') : msgs'[j].call = InvalidID(round + 1)
              /\ \A c \in Matched(answer.calls) : \E j \in Added(mid, msgs') : msgs'[j].call = c
              /\ \/ node' = RouteFromModel(msgs', response)
                 \/ node' = "after_agent" /\ DOMAIN answer.calls \subseteq Matched(answer.calls)
            BY <1>5, <2>6 DEF Answering, mid
        <3>2. /\ AIs(msgs') = AIs(mid) /\ LastAI(msgs') = i /\ msgs'[i] = NewAI
              /\ \A j \in Added(mid, msgs') : Replied(msgs', i, msgs'[j].call)
            <4>1. AIs(mid) # {}
                BY <2>2
            <4>2. QED
                BY <2>2, <2>3, <3>1, <4>1, RepliesAdded
        <3>3. Repaired(msgs', i) /\ \A c \in Matched(answer.calls) : Replied(msgs', i, c)
            BY <2>1, <3>1, <3>2 DEF Repaired
        <3>4. Begun(agent.structured, msgs', i)
            BY <2>1, <3>2, <3>3 DEF Begun, Matched
        <3>5. ASSUME node' \notin {"hitl", "tools"} PROVE Settled(msgs', i)
            <4>1. CASE DOMAIN answer.calls \subseteq Matched(answer.calls)
                BY <2>1, <3>2, <3>3, <4>1 DEF Settled
            <4>2. CASE node' = RouteFromModel(msgs', response) /\ agent.tools = {}
                <5>1. agent.names \subseteq agent.structured
                    BY <4>2 DEF Answerable
                <5>2. DOMAIN answer.calls \subseteq Matched(answer.calls)
                    BY <2>1, <5>1, CallsFacts DEF Matched
                <5>3. QED
                    BY <4>1, <5>2
            <4>3. CASE node' = RouteFromModel(msgs', response) /\ agent.tools # {}
                <5>1. RouteAfterModel(msgs', response) # "tools"
                    BY <3>5, <4>3 DEF RouteFromModel
                <5>2. AIs(msgs') # {}
                    BY <2>2, <3>2
                <5>3. QED
                    BY <2>3, <3>2, <3>4, <5>1, <5>2, SettledByRoute
            <4>4. QED
                BY <3>1, <4>1, <4>2, <4>3
        <3>6. ASSUME NEW m \in AIs(msgs), InTurn(msgs', m) PROVE Settled(msgs', m)
            <4>1. Grows(msgs, msgs')
                BY <1>1, <2>2, <2>3 DEF Grows
            <4>2. InTurn(msgs, m)
                BY <1>1, <2>3, <3>6, <4>1, SettledGrows
            <4>3. Orderly(msgs, node, agent)
                <5>1. Onward(node, agent)
                    BY <1>1 DEF Onward
                <5>2. QED
                    BY <5>1 DEF History
            <4>4. Settled(msgs, m)
                BY <1>1, <3>6, <4>2, <4>3 DEF Orderly
            <4>5. QED
                BY <1>1, <2>3, <3>6, <4>1, <4>4, SettledGrows
        <3>7. \A m \in AIs(msgs') : m = i \/ m \in AIs(msgs)
            BY <2>2, <3>2
        <3>8. i \notin AIs(msgs)
            BY <1>1, <2>4 DEF AIs, i
        <3>9. QED
            BY <3>2, <3>4, <3>5, <3>6, <3>7, <3>8 DEF Orderly
    <2>7. QED
        BY <1>1, <1>2, <1>3, <2>5, <2>6 DEF History
<1>6. QED
    BY <1>4, <1>5, ModelAnswers

\* The response of an attempt at the model call.
LEMMA InvalidResponse ==
    ASSUME NEW resp \in Responses
    PROVE InvalidCalls(resp, agent)
<1> SUFFICES ASSUME resp.invalid PROVE \A c \in DOMAIN resp.calls : resp.calls[c] \in agent.tools
    BY DEF InvalidCalls
<1>1. resp.calls \in BoundedSeq(agent.tools, 1)
    BY DEF Responses
<1>2. PICK m \in 0 .. 1 : resp.calls \in [1 .. m -> agent.tools]
    BY <1>1 DEF BoundedSeq, SeqOf
<1>3. QED
    BY <1>2

\* The tools node has answered all calls of the response.
LEMMA HistoryTools ==
    ASSUME Base, History, node = "tools", AddsTools(msgs, msgs'),
           \A c \in unansweredToolCalls(msgs) : \E j \in Added(msgs, msgs') : msgs'[j].call = c,
           UNCHANGED <<agent, round>>, answer' = NoAnswer
    PROVE History'
<1> DEFINE i == LastAI(msgs)
<1>1. msgs \in Seq(Messages(agent)) /\ AIs(msgs) # {}
    BY DEF Base, Types, Current
<1>2. /\ msgs' \in Seq(Messages(agent)) /\ Grows(msgs, msgs')
      /\ \A j \in Added(msgs, msgs') : msgs'[j].k = "tool"
    BY DEF AddsTools, ToolMsgs
<1>3. /\ LastAI(msgs') = i /\ msgs'[i] = msgs[i] /\ i \in AIs(msgs)
      /\ \A j \in Added(msgs, msgs') : Replied(msgs', i, msgs'[j].call)
    BY <1>1, <1>2, RepliesAdded, LastAIFacts
<1>4. ASSUME Begun(agent.structured, msgs', i) PROVE Settled(msgs', i)
    <2>1. ASSUME NEW c \in DOMAIN msgs'[i].calls PROVE Replied(msgs', i, c)
        <3>1. CASE c \in Answered(msgs)
            <4>1. Replied(msgs, i, c)
                BY <1>1, <3>1, LastReplied
            <4>2. QED
                BY <1>1, <1>2, <1>3, <4>1, RepliedGrows
        <3>2. CASE c \notin Answered(msgs)
            <4>1. c \in unansweredToolCalls(msgs)
                BY <1>1, <1>3, <2>1, <3>2 DEF unansweredToolCalls
            <4>2. QED
                BY <1>3, <4>1
        <3>3. QED
            BY <3>1, <3>2
    <2>2. QED
        BY <1>4, <2>1 DEF Begun, Settled
<1>5. QED
    BY <1>3, <1>4, HistoryAtWork

\* The review hands the response to the tools, or there is nothing left to answer.
LEMMA HistoryReview ==
    ASSUME Base, History, node = "hitl", AddsTools(msgs, msgs'), node' = RouteFromHITL(msgs', response),
           UNCHANGED <<agent, round>>, answer' = NoAnswer
    PROVE History'
<1>1. msgs \in Seq(Messages(agent)) /\ AIs(msgs) # {}
    BY DEF Base, Types, Current
<1>2. /\ msgs' \in Seq(Messages(agent)) /\ Grows(msgs, msgs')
      /\ \A j \in Added(msgs, msgs') : msgs'[j].k = "tool"
    BY DEF AddsTools, ToolMsgs
<1>3. AIs(msgs') # {}
    BY <1>1, <1>2, RepliesAdded
<1>4. node' = RouteAfterModel(msgs', response)
    BY Routes
<1>5. ASSUME Begun(agent.structured, msgs', LastAI(msgs')), node' \notin {"hitl", "tools"}
      PROVE Settled(msgs', LastAI(msgs'))
    BY <1>2, <1>3, <1>4, <1>5, SettledByRoute
<1>6. QED
    BY <1>5, HistoryAtWork

\* A message that ends a turn or begins one.
LEMMA HistoryAppend ==
    ASSUME Base, History, NEW x \in {TextAI, Human}, msgs' = Append(msgs, x), node' \notin {"hitl", "tools"},
           x = TextAI => node = "model",
           UNCHANGED <<agent, round>>, answer' = NoAnswer
    PROVE History'
<1> DEFINE i == Len(msgs) + 1
<1>1. Types /\ msgs \in Seq(Messages(agent)) /\ x \in Messages(agent)
    BY NewAIFacts DEF Base, Types, Messages
<1>2. /\ msgs' \in Seq(Messages(agent)) /\ Grows(msgs, msgs')
      /\ \A j \in Added(msgs, msgs') : msgs'[j] = x
      /\ Len(msgs) \in Nat /\ i \in DOMAIN msgs' /\ msgs'[i] = x /\ DOMAIN msgs' = 1 .. i /\ DOMAIN msgs = 1 .. Len(msgs)
    <2>1. /\ msgs' \in Seq(Messages(agent)) /\ Grows(msgs, msgs')
          /\ \A j \in Added(msgs, msgs') : msgs'[j] = x
        BY <1>1, AppendGrows
    <2>2. Len(msgs) \in Nat /\ i \in DOMAIN msgs' /\ DOMAIN msgs' = 1 .. i /\ DOMAIN msgs = 1 .. Len(msgs) /\ msgs'[i] = x
        BY <1>1
    <2>3. QED
        BY <2>1, <2>2
<1>3. x.k # "tool"
    BY DEF TextAI, AI, Human
<1>4. AIs(msgs') \subseteq AIs(msgs) \cup {j \in {i} : x.k = "ai"}
    BY <1>2 DEF Grows, AIs
<1> HIDE DEF i
<1>5. ASSUME NEW m \in AIs(msgs'), InTurn(msgs', m) PROVE Settled(msgs', m)
    <2>1. CASE x = Human
        <3>1. i <= m
            BY <1>2, <1>5, <2>1 DEF InTurn
        <3>2. m \in AIs(msgs)
            BY <1>4, <2>1 DEF Human
        <3>3. m \in 1 .. Len(msgs)
            BY <1>2, <3>2 DEF AIs
        <3>4. QED
            BY <1>2, <3>1, <3>3 DEF i
    <2>2. CASE x = TextAI /\ m = i
        <3>1. ~msgs'[m].invalid /\ DOMAIN msgs'[m].calls = {}
            BY <1>2, <2>2 DEF TextAI, AI
        <3>2. QED
            BY <3>1 DEF Settled, Repaired
    <2>3. CASE x = TextAI /\ m \in AIs(msgs)
        <3>1. node = "model"
            BY <2>3
        <3>2. Orderly(msgs, node, agent)
            <4>1. Onward(node, agent)
                BY <3>1 DEF Onward
            <4>2. QED
                BY <4>1 DEF History
        <3>3. InTurn(msgs, m)
            BY <1>1, <1>2, <1>5, <2>3, SettledGrows
        <3>4. Settled(msgs, m)
            BY <2>3, <3>1, <3>2, <3>3 DEF Orderly
        <3>5. QED
            BY <1>1, <1>2, <2>3, <3>4, SettledGrows
    <2>4. QED
        BY <1>4, <2>1, <2>2, <2>3
<1>6. QED
    BY <1>2, <1>3, <1>5, HistoryGoto

\* The fourth layer is inductive.
LEMMA HistoryStep ==
    ASSUME Base, History, [Next]_vars, \A a \in Agents : Answerable(a)
    PROVE History'
<1>1. Types /\ msgs \in Seq(Messages(agent)) /\ Answerable(agent) /\ round \in Nat /\ InvalidCalls(answer, agent)
    BY DEF Base, Types, History
<1>2. InvalidCalls(NoAnswer, agent) /\ InvalidCalls([NoAnswer EXCEPT !.parses = TRUE], agent)
    BY DEF InvalidCalls, NoAnswer
<1>3. FinalNode \in {"after_agent", "END"}
    BY DEF FinalNode
<1>4. ASSUME UNCHANGED <<agent, msgs, node, round>>, answer' = answer \/ answer' = NoAnswer PROVE History'
    BY <1>1, <1>2, <1>4, HistoryKeep
<1>5. ASSUME Fail, round' = round PROVE History'
    BY <1>4, <1>5, FailFacts, <1>1
<1>6. CASE LimitEnds
    <2>1. CASE Fail
        BY <1>5, <1>6, <2>1 DEF LimitEnds, historyVars
    <2>2. CASE msgs' = Append(msgs, TextAI) /\ Goto(FinalNode) /\ UNCHANGED <<agent, counts, response, edited>>
        <3>1. round' = round /\ node = "model"
            BY <1>6 DEF LimitEnds, historyVars
        <3>2. node' \notin {"hitl", "tools"} /\ answer' = NoAnswer
            BY <1>3, <2>2 DEF Goto
        <3>3. QED
            BY <2>2, <3>1, <3>2, HistoryAppend
    <2>3. QED
        BY <1>6, <2>1, <2>2 DEF LimitEnds
<1>7. CASE CallModel
    <2>1. CASE Fail
        BY <1>5, <1>7, <2>1 DEF CallModel, historyVars
    <2>2. CASE ~Fail
        <3>1. /\ UNCHANGED <<agent, msgs, node, round>>
              /\ answer' \in Responses \/ answer' \in {answer, [NoAnswer EXCEPT !.parses = TRUE]}
            BY <1>7, <2>2 DEF CallModel, channelVars, historyVars
        <3>2. InvalidCalls(answer', agent)
            BY <1>1, <1>2, <3>1, InvalidResponse
        <3>3. QED
            BY <1>1, <3>1, <3>2, HistoryKeep
    <2>3. QED
        BY <2>1, <2>2
<1>8. CASE ModelNode
    BY <1>1, <1>8, HistoryModel
<1>9. CASE HITLNode
    <2>1. UNCHANGED <<agent, msgs, round>> /\ node = "hitl"
        BY <1>9 DEF HITLNode, historyVars
    <2>2. CASE Goto(RouteFromHITL(msgs, response))
        <3>1. node' = RouteFromHITL(msgs', response) /\ answer' = NoAnswer
            BY <2>1, <2>2 DEF Goto
        <3>2. AddsTools(msgs, msgs')
            BY <1>1, <2>1 DEF AddsTools, Grows, Added
        <3>3. QED
            BY <2>1, <3>1, <3>2, HistoryReview
    <2>3. CASE UNCHANGED <<node, answer>>
        BY <1>4, <2>1, <2>3
    <2>4. QED
        BY <1>9, <2>2, <2>3 DEF HITLNode
<1>10. CASE ResumeReview
    <2>1. UNCHANGED <<agent, round, response>> /\ node = "hitl"
        BY <1>10 DEF ResumeReview
    <2>2. CASE UNCHANGED <<msgs, runVars>>
        BY <1>4, <2>1, <2>2 DEF runVars
    <2>3. ASSUME NEW d \in [Reviewable(msgs) -> Decisions],
                 LET ai == msgs[LastAI(msgs)]
                     answers == {i \in DOMAIN d : d[i].type \in {"reject", "respond"}}
                     after == MessagesReducer(msgs, <<ai>> \o ErrorMessages(ai.calls, answers))
                 IN  msgs' = after /\ Goto(RouteFromHITL(after, response))
          PROVE History'
        <3>1. AddsTools(msgs, msgs')
            BY <2>1, <2>3, ReviewStep
        <3>2. Goto(RouteFromHITL(msgs', response))
            BY <2>3
        <3>3. node' = RouteFromHITL(msgs', response) /\ answer' = NoAnswer
            BY <3>2 DEF Goto
        <3>4. QED
            BY <2>1, <3>1, <3>3, HistoryReview
    <2>4. QED
        BY <1>10, <2>2, <2>3 DEF ResumeReview
<1>11. CASE ToolsNode \/ ResumeTool \/ Retry \/ \E i \in 1 .. 2 : RunTool(i) \/ ToolAsks(i)
    <2>1. UNCHANGED <<agent, msgs, node, answer, round>>
        BY <1>11 DEF ToolsNode, ResumeTool, Retry, RunTool, ToolAsks, channelVars, historyVars
    <2>2. QED
        BY <1>4, <2>1
<1>12. CASE ToolsDone
    <2>1. node = "tools" /\ out # NotStarted /\ round' = round
        BY <1>12 DEF ToolsDone, historyVars
    <2>2. CASE Fail
        BY <1>5, <2>1, <2>2
    <2>3. CASE ~Fail
        <3>1. /\ \A i \in DOMAIN out : out[i].st = "done"
              /\ msgs' = msgs \o FlattenSeq([i \in DOMAIN Calls |->
                    IF i \in DOMAIN out THEN <<ToolMsg(i, out[i].name)>> ELSE <<>>])
              /\ Goto(RouteAfterTools(msgs')) /\ agent' = agent
            BY <1>12, <2>3 DEF ToolsDone
        <3>2. answer' = NoAnswer
            BY <3>1 DEF Goto
        <3>3. Current /\ Workers /\ DOMAIN out = unansweredToolCalls(msgs)
            BY <2>1 DEF Base, Workers
        <3>4. /\ AddsTools(msgs, msgs')
              /\ \A c \in DOMAIN out : \E j \in Added(msgs, msgs') : msgs'[j].k = "tool" /\ msgs'[j].call = c
            BY <1>1, <2>1, <3>1, <3>3, ToolsAppend
        <3>5. QED
            BY <2>1, <3>1, <3>2, <3>3, <3>4, HistoryTools
    <2>4. QED
        BY <2>2, <2>3
<1>13. CASE BeforeAgent \/ AfterAgent
    <2>1. UNCHANGED <<agent, msgs, round>>
        BY <1>13 DEF BeforeAgent, AfterAgent, channelVars, historyVars
    <2>2. /\ answer' = NoAnswer /\ node' \in {"after_agent", "END", "model"}
          /\ node \in {"before_agent", "after_agent"} /\ (Onward(node', agent) => Onward(node, agent))
        <3>1. CASE BeforeAgent
            <4>1. node = "before_agent"
                BY <3>1 DEF BeforeAgent
            <4>2. PICK j \in agent.before : Goto(JumpTarget(j, FinalNode))
                BY <3>1 DEF BeforeAgent
            <4>3. QED
                BY <1>3, <4>1, <4>2 DEF Goto, JumpTarget, Onward
        <3>2. CASE AfterAgent
            <4>1. node = "after_agent"
                BY <3>2 DEF AfterAgent
            <4>2. PICK j \in agent.after : Goto(JumpTarget(j, "END"))
                BY <3>2 DEF AfterAgent
            <4>3. CASE j = "model"
                BY <4>1, <4>2, <4>3 DEF Goto, JumpTarget, Onward
            <4>4. CASE j # "model"
                BY <4>1, <4>2, <4>4 DEF Goto, JumpTarget, Onward
            <4>5. QED
                BY <4>3, <4>4
        <3>3. QED
            BY <1>13, <3>1, <3>2
    <2>3. Grows(msgs, msgs') /\ Added(msgs, msgs') = {} /\ msgs' \in Seq(Messages(agent))
        BY <1>1, <2>1 DEF Grows, Added
    <2>4. ASSUME Onward(node', agent), NEW i \in AIs(msgs'), InTurn(msgs', i) PROVE Settled(msgs', i)
        <3>1. Orderly(msgs, node, agent)
            BY <2>2, <2>4 DEF History
        <3>2. QED
            BY <2>1, <2>2, <2>4, <3>1 DEF Orderly
    <2>5. QED
        BY <2>1, <2>2, <2>3, <2>4, HistoryGoto
<1>14. CASE Invoke
    <2>1. UNCHANGED <<agent, round>> /\ msgs' = Append(msgs, Human)
        BY <1>14 DEF Invoke, historyVars
    <2>2. answer' = NoAnswer /\ node' \notin {"hitl", "tools"}
        BY <1>14 DEF Invoke, Goto
    <2>3. Human # TextAI
        <3>1. Human.k # TextAI.k
            BY DEF Human, TextAI, AI
        <3>2. QED
            BY <3>1
    <2>4. QED
        BY <2>1, <2>2, <2>3, HistoryAppend
<1>15. CASE Crash
    BY <1>5, <1>15 DEF Crash, historyVars
<1>16. CASE UNCHANGED vars
    BY <1>4, <1>16 DEF vars, channelVars, runVars, historyVars
<1>17. QED
    BY <1>6, <1>7, <1>8, <1>9, <1>10, <1>11, <1>12, <1>13, <1>14, <1>15, <1>16 DEF Next, Running

\* The fourth layer holds initially.
LEMMA HistoryInit ==
    ASSUME Init
    PROVE History
<1>1. msgs = <<>> /\ AIs(msgs) = {} /\ DOMAIN msgs = {} /\ answer = NoAnswer
    BY DEF Init, AIs
<1>2. QED
    BY <1>1 DEF History, NotAhead, InvalidCalls, NoAnswer, Orderly

\* Whenever the agent calls its model, every call of the turn's earlier responses,
\* invalid ones included, is answered before the response that follows it, and no
\* response stands in the history twice: over retries, crashes, reviews, repairs,
\* limits and jumps, for every agent of which Answerable holds.
THEOREM HistoriesAnswered ==
    ASSUME \A a \in Agents : Answerable(a)
    PROVE Spec => []HistoryAnswered
<1>1. Base /\ History => HistoryAnswered
    <2> SUFFICES ASSUME Base, History, node = "model", NEW i \in Turn \cap AIs(msgs)
                 PROVE LET next == {j \in AIs(msgs) : j > i}
                           answers == {msgs[j].call : j \in {n \in Turn : /\ msgs[n].k = "tool" /\ n > i
                                                                         /\ \A m \in next : n < m}}
                       IN  /\ DOMAIN msgs[i].calls \subseteq answers
                           /\ msgs[i].invalid => InvalidID(msgs[i].r) \in answers
                           /\ msgs[i].r # 0 => ~ \E j \in next : msgs[j].r = msgs[i].r
        BY Zenon DEF HistoryAnswered
    <2> DEFINE next == {j \in AIs(msgs) : j > i}
               answers == {msgs[j].call : j \in {n \in Turn : /\ msgs[n].k = "tool" /\ n > i
                                                             /\ \A m \in next : n < m}}
    <2>1. msgs \in Seq(Messages(agent)) /\ DOMAIN msgs = 1 .. Len(msgs) /\ AIs(msgs) \subseteq DOMAIN msgs
        BY DEF Base, Types, AIs
    <2>2. InTurn(msgs, i)
        BY <2>1 DEF Turn, InTurn
    <2>3. Settled(msgs, i)
        <3>1. Onward(node, agent)
            BY DEF Onward
        <3>2. QED
            BY <2>2, <3>1 DEF History, Orderly
    <2>4. ASSUME NEW c, Replied(msgs, i, c) PROVE c \in answers
        <3>1. PICK j \in DOMAIN msgs : /\ msgs[j].k = "tool" /\ msgs[j].call = c
                                       /\ i < j /\ \A m \in AIs(msgs) : i < m => j < m
            BY <2>4 DEF Replied
        <3>2. j \in Turn
            <4>1. ASSUME NEW h \in DOMAIN msgs, msgs[h] = Human PROVE j >= h
                <5>1. h <= i
                    BY <2>2, <4>1 DEF InTurn
                <5>2. QED
                    BY <2>1, <3>1, <4>1, <5>1
            <4>2. QED
                BY <4>1 DEF Turn
        <3>3. j > i /\ \A m \in next : j < m
            BY <2>1, <3>1
        <3>4. QED
            BY <3>1, <3>2, <3>3
    <2>5. msgs[i].r # 0 => ~ \E j \in next : msgs[j].r = msgs[i].r
        <3>1. msgs[i].r # 0 => \A j \in AIs(msgs) : msgs[j].r = msgs[i].r => j = i
            BY DEF Base, Rounds, RoundsOf
        <3>2. \A j \in next : j # i
            BY <2>1
        <3>3. QED
            BY <3>1, <3>2
    <2> HIDE DEF next, answers
    <2>6. DOMAIN msgs[i].calls \subseteq answers /\ (msgs[i].invalid => InvalidID(msgs[i].r) \in answers)
        BY <2>3, <2>4 DEF Settled, Repaired
    <2>7. QED
        BY <2>5, <2>6 DEF next, answers
<1>2. Init => Base /\ History
    BY BaseInit, HistoryInit
<1>3. Base /\ History /\ [Next]_vars => (Base /\ History)'
    BY BaseStep, HistoryStep
<1>4. QED
    BY <1>1, <1>2, <1>3, PTL DEF Spec
=============================================================================
