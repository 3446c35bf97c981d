------------------------------ MODULE MCPregel ------------------------------
(* Small compiled graphs for Pregel. *)
EXTENDS Pregel

CONSTANTS na, nb, nc, nd, ne,   \* node names
          sx, sy                \* Send arguments

Only(n, k) == [m \in {na, nb, nc, nd} |-> IF m = n THEN k ELSE 0]

\* na -> nb, na -> nc; waiting edge (nb, nc) -> nd; nd -> END.
FanIn ==
    [nodes |-> {na, nb, nc, nd}, args |-> {}, entry |-> <<To(na)>>,
     route |-> (na :> {<<To(nb), To(nc)>>}) @@ (nb :> {<<>>}) @@ (nc :> {<<>>})
                 @@ (nd :> {<<To(END)>>}),
     goto |-> [n \in {na, nb, nc, nd} |-> {}],
     joins |-> <<[parents |-> {nb, nc}, child |-> nd]>>,
     interruptBefore |-> {}, interruptAfter |-> {}, asks |-> Only(nb, 0),
     fails |-> {}, handled |-> {}, durability |-> "sync", timeTravel |-> FALSE,
     recursionLimit |-> 4, maxIds |-> 6, maxTurns |-> 1, maxCalls |-> 2, maxFaults |-> 1]

\* nb asks twice while nc fails into its error handler.
AskAndFail == [FanIn EXCEPT !.asks = Only(nb, 2), !.fails = {nc}, !.handled = {nc},
                            !.maxFaults = 2]

\* Async durability, breakpoints around the fan-in, resumes from any checkpoint.
TimeTravelling == [FanIn EXCEPT !.durability = "async", !.timeTravel = TRUE,
    !.asks = Only(nb, 1), !.interruptBefore = {nd}, !.interruptAfter = {na}, !.maxCalls = 1]

\* Branches of uneven length in a loop: na -> nb, na -> nc -> ne; waiting edge
\* (nb, ne) -> nd; nd -> na or END.  The barrier is filled over two supersteps,
\* and again after it was consumed.
LoopedJoin == [FanIn EXCEPT
    !.nodes = {na, nb, nc, nd, ne},
    !.route = (na :> {<<To(nb), To(nc)>>}) @@ (nc :> {<<To(ne)>>})
                @@ [n \in {nb, ne} |-> {<<>>}] @@ (nd :> {<<To(na)>>, <<To(END)>>}),
    !.goto = [n \in {na, nb, nc, nd, ne} |-> {}],
    !.asks = [n \in {na, nb, nc, nd, ne} |-> 0],
    !.joins = <<[parents |-> {nb, ne}, child |-> nd]>>,
    !.recursionLimit = 8, !.maxIds = 9]

\* na -> nb, na -> nc, or END; nb sends nd two arguments while nc asks; a run
\* stops after one superstep.  nb may fail, and has no handler.
Sends == [FanIn EXCEPT
    !.args = {sx, sy}, !.joins = <<>>,
    !.route = (na :> {<<To(nb), To(nc)>>, <<To(END)>>}) @@ [n \in {nb, nc, nd} |-> {<<To(END)>>}],
    !.goto = [@ EXCEPT ![nb] = {<<[node |-> nd, arg |-> sx], [node |-> nd, arg |-> sy]>>}],
    !.asks = Only(nc, 1), !.fails = {nb}, !.recursionLimit = 1]

\* na -> nb, nb -> na or END, with breakpoints on both sides of nb, over two turns.
Cycle == [FanIn EXCEPT
    !.nodes = {na, nb}, !.joins = <<>>,
    !.route = (na :> {<<To(nb)>>}) @@ (nb :> {<<To(na)>>, <<To(END)>>}),
    !.interruptBefore = {nb}, !.interruptAfter = {nb}, !.maxTurns = 2, !.maxIds = 8,
    !.maxFaults = 0]

Safe == {AskAndFail, TimeTravelling, LoopedJoin, Sends, Cycle}

\* Everything at once, for a caller that always answers.
Cooperative == {[FanIn EXCEPT !.durability = "async", !.asks = Only(nb, 2),
    !.fails = {nc}, !.handled = {nc}, !.interruptBefore = {nd}, !.interruptAfter = {na},
    !.maxIds = 10, !.maxCalls = 5, !.maxFaults = 2]}

\* The graphs on which the code departs from what its comments say.

\* na -> na or END.
SelfLoop == {[FanIn EXCEPT !.nodes = {na}, !.joins = <<>>,
    !.route = (na :> {<<To(na)>>, <<To(END)>>})]}

\* na -> nb, na -> nc; nb -> nd; nc asks.
Fork == {[FanIn EXCEPT !.joins = <<>>, !.asks = Only(nc, 1), !.maxFaults = 0,
    !.route = (na :> {<<To(nb), To(nc)>>}) @@ (nb :> {<<To(nd)>>}) @@ [n \in {nc, nd} |-> {<<To(END)>>}]]}

\* A breakpoint in front of the join child, and a second turn.
NewTurn == {[FanIn EXCEPT !.interruptBefore = {nd}, !.maxTurns = 2, !.maxIds = 8,
    !.maxFaults = 0]}

\* Breakpoints in front of both branches.
TwoBreaks == {[FanIn EXCEPT !.interruptBefore = {nb, nc}, !.maxFaults = 0]}

\* nb is a breakpoint and asks.
BreakAndAsk == {[FanIn EXCEPT !.interruptBefore = {nb}, !.asks = Only(nb, 1), !.maxFaults = 0]}

\* nb asks, is answered, and fails into its handler.
AskThenFail == {[FanIn EXCEPT !.asks = Only(nb, 1), !.fails = {nb}, !.handled = {nb},
    !.maxFaults = 2]}
=============================================================================
