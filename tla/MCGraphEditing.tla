--------------------------- MODULE MCGraphEditing ---------------------------
(* Small documents for TLC.                                                 *)
EXTENDS GraphEditing

Arrow(id, from, to) ==
  Edge(id, "execution", [from |-> from, out |-> NextPort, to |-> to, in |-> Run])
Wire(id, from, out, to, in) ==
  Edge(id, "data", [from |-> from, out |-> out, to |-> to, in |-> in])

(* A task that calls a function with one parameter, by wire and by literal. *)
Wired ==
  [entry |-> 1, graphs |-> <<
     [id |-> 1, kind |-> "entry", parameters |-> <<>>,
      nodes |-> << Node(11, "value", NoGraph),
                   [Node(12, "call", 2) EXCEPT !.literals = {ParameterPort(40)}] >>,
      edges |-> << Wire(21, 11, Result, 12, ParameterPort(40)) >>,
      groups |-> << [id |-> 31, members |-> {11}] >>, hints |-> <<>>],
     [id |-> 2, kind |-> "function", parameters |-> << 40 >>,
      nodes |-> << Node(14, "input", NoGraph), Node(15, "return", NoGraph) >>,
      edges |-> << Arrow(23, 14, 15) >>, groups |-> <<>>,
      hints |-> << [id |-> 32, edge |-> 23] >>] >>]

(* A chain of calls as deep as MaxDepth = 2 allows, which the task does not *)
(* use yet.                                                                 *)
Bare(id, kind, nodes) ==
  [id |-> id, kind |-> kind, parameters |-> <<>>, nodes |-> nodes,
   edges |-> <<>>, groups |-> <<>>, hints |-> <<>>]
Nested ==
  [entry |-> 1, graphs |-> <<
     Bare(1, "entry", <<>>),
     Bare(2, "function", << Node(12, "call", 3) >>),
     Bare(3, "function", << Node(13, "call", 4) >>),
     Bare(4, "function", <<>>) >>]

Projects == {Wired, Nested}
=============================================================================
