---------------------------- MODULE MCFunctional ----------------------------
(* Programs of the functional API for TLC.                                 *)
EXTENDS Functional

call(t) == [op |-> "call", task |-> t]
get(k) == [op |-> "get", k |-> k]
ask == [op |-> "ask"]
work == [op |-> "work"]

\* Two tasks in flight, each with a nested call to the same task; f asks.
Fan == [body |-> [main |-> <<call("a"), call("b"), get(1), get(2), ask>>,
                  a |-> <<call("c"), get(1)>>,
                  b |-> <<call("c"), get(1), call("c"), get(2)>>,
                  c |-> <<work>>],
        attempts |-> [main |-> 1, a |-> 2, b |-> 1, c |-> 1],
        cached |-> {}]

\* A task that asks, two tasks after it, and f asking last.
AskInTask == [body |-> [main |-> <<call("q"), get(1), call("c"), get(2), call("c"), get(3), ask>>,
                        q |-> <<ask, work>>,
                        c |-> <<work>>],
              attempts |-> [main |-> 2, q |-> 1, c |-> 1],
              cached |-> {}]

\* f pauses with a task in flight and takes its result after the resume.
InFlight == [body |-> [main |-> <<call("c"), ask, call("c"), get(2), get(1)>>,
                       c |-> <<work>>],
             attempts |-> [main |-> 2, c |-> 2],
             cached |-> {}]

\* A cached task called before and after the pause.
Cached == [body |-> [main |-> <<call("k"), get(1), ask, call("k"), get(2)>>,
                     k |-> <<work>>],
           attempts |-> [main |-> 2, k |-> 1],
           cached |-> {"k"}]

MCPrograms == {Fan, AskInTask, InFlight, Cached}
=============================================================================
