------------------------- MODULE MCGraphScheduler -------------------------
(* Graphs for GraphScheduler, each for one kind of interplay.              *)
EXTENDS GraphScheduler

Node(kind, inputs, next) ==
  [kind |-> kind, inputs |-> inputs, next |-> next, failed |-> <<>>]
Entry(n) == Node("entry", <<>>, {<< n >>})

\* A step and a variable are written beside each other; both successors read
\* a pure node that depends on both.
Race == << Entry(2), Node("fork", <<>>, {<< 3, 4 >>}),
           [Node("step", <<>>, {<< 5 >>}) EXCEPT !.failed = << 5 >>],
           Node("set", <<>>, {<< 5 >>}), Node("step", << 7 >>, {<<>>}),
           Node("get", <<>>, {}), Node("pure", << 6, 3 >>, {}) >>

\* A branch that stops the run beside one that goes on.
Stopping == << Entry(2), Node("fork", <<>>, {<< 3, 4 >>, << 3, 4, 5 >>}),
               Node("step", <<>>, {<< 5 >>}), Node("stop", <<>>, {<<>>}),
               Node("flow", <<>>, {<< 6, 6 >>}), Node("step", <<>>, {<<>>}) >>

\* A sequence of two calls, each of which goes back to the sequence.
Calls == << Entry(2), Node("flow", <<>>, {<< 3, 4 >>}),
            Node("call", <<>>, {<< 2 >>}), Node("call", <<>>, {<< 2 >>, <<>>}) >>

\* Three branches of which one calls a function and one fails over to another.
Mixed == << Entry(2), Node("fork", <<>>, {<< 3, 4, 5 >>}),
            [Node("step", <<>>, {<<>>}) EXCEPT !.failed = << 6 >>],
            Node("call", <<>>, {<< 6 >>}), Node("step", << 7 >>, {<<>>}),
            Node("set", << 7 >>, {<<>>}), Node("get", <<>>, {}) >>

\* Two calls beside each other.
TwoCalls == << Entry(2), Node("fork", <<>>, {<< 3, 4 >>}),
               Node("call", <<>>, {<<>>}), Node("call", <<>>, {<<>>}) >>

\* Room for every node, and limits that end a run at each of its points.
Wide == [steps |-> 9, events |-> 24, queue |-> 4, depth |-> 2]
AllLimits == {Wide, [Wide EXCEPT !.queue = 2], [Wide EXCEPT !.depth = 1]}
             \cup {[Wide EXCEPT !.steps = n] : n \in {3, 5}}
             \cup {[Wide EXCEPT !.events = n] : n \in {6, 7, 9, 12}}

AllGraphs == {Race, Stopping, Calls, Mixed, TwoCalls}
===========================================================================
