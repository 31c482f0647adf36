---------------------------- MODULE GraphDocument ----------------------------
(***************************************************************************)
(* A project document and the reversible commands that change it           *)
(* (apps/desktop/src/graph/commands/graph-commands.ts).  A document is its *)
(* graphs, in file order, and the graph that runs by default.  A graph     *)
(* holds nodes, edges, repeat hints and workflow groups, each in file      *)
(* order, and, when it is a function, its parameters.                      *)
(*                                                                         *)
(* Identifiers are numbers, never reused.  Names, positions, comments,     *)
(* variables and assets are left out; what a node holds besides its type   *)
(* is the function it calls and the input ports that carry a literal.      *)
(***************************************************************************)
EXTENDS Integers, Sequences, FiniteSets, SequencesExt, Lists

CONSTANT MaxGraphs  \* graphs a document may have (64 in the code)
ASSUME DocumentAssumption == MaxGraphs \in Nat \ {0}

NoGraph == 0

Has(items, id) == \E i \in DOMAIN items : items[i].id = id
IndexOf(items, id) == CHOOSE i \in DOMAIN items : items[i].id = id
Item(items, id) == items[IndexOf(items, id)]
Those(items, ids) == Filter(items, LAMBDA item : item.id \in ids)
Without(items, ids) == Filter(items, LAMBDA item : item.id \notin ids)
Replaced(items, item) ==
  [i \in DOMAIN items |-> IF items[i].id = item.id THEN item ELSE items[i]]

(***************************************************************************)
(* The shape of a document.                                                *)
(***************************************************************************)
Types == {"step", "value", "input", "return", "call"}
Ports == {"run", "next", "argument", "result", "parameter"} \X Nat
Kinds == {"nodes", "edges", "groups", "hints"}
Records ==
  [nodes  |-> [id : Nat, type : Types, target : Nat, literals : SUBSET Ports],
   edges  |-> [id : Nat, kind : {"execution", "data"}, from : Nat, out : Ports,
               to : Nat, in : Ports],
   groups |-> [id : Nat, members : SUBSET Nat],
   hints  |-> [id : Nat, edge : Nat]]
GraphRecords ==
  [id : Nat, kind : {"entry", "function"}, parameters : Seq(Nat),
   nodes : Seq(Records["nodes"]), edges : Seq(Records["edges"]),
   groups : Seq(Records["groups"]), hints : Seq(Records["hints"])]
DocumentRecords == [entry : Nat, graphs : Seq(GraphRecords)]

(***************************************************************************)
(* insertAt: at a position, or at the end.                                 *)
(***************************************************************************)
AtEnd == 0
Inserted(items, item, index) ==
  IF index = AtEnd \/ index > Len(items) THEN Append(items, item)
                                         ELSE InsertAt(items, index, item)

Graph(document, g) == Item(document.graphs, g)
PutGraph(document, graph) ==
  [document EXCEPT !.graphs = Replaced(@, graph)]

(***************************************************************************)
(* Commands.  Nodes, edges, hints and groups are added, removed and        *)
(* replaced alike; "kind" names the list of the graph that a command       *)
(* changes.                                                                *)
(***************************************************************************)
AddItemAt(g, kind, item, index) ==
  [op |-> "add", graph |-> g, kind |-> kind, item |-> item, index |-> index]
AddItem(g, kind, item) == AddItemAt(g, kind, item, AtEnd)
RemoveItem(g, kind, id) == [op |-> "remove", graph |-> g, kind |-> kind, id |-> id]
ReplaceItem(g, kind, item) ==
  [op |-> "replace", graph |-> g, kind |-> kind, item |-> item]
AddGraphAt(graph, index) == [op |-> "addGraph", item |-> graph, index |-> index]
RemoveGraph(g) == [op |-> "removeGraph", graph |-> g]
SetEntryGraph(g) == [op |-> "setEntryGraph", graph |-> g]
SetSignature(g, parameters) ==
  [op |-> "setFunctionSignature", graph |-> g, parameters |-> parameters]

Refused == [ok |-> FALSE]
Done(document, inverse) ==
  [ok |-> TRUE, document |-> document, inverse |-> inverse]

(***************************************************************************)
(* A hint marks an execution edge that has none; a group holds nodes of    *)
(* the graph that no other group holds.  An edge's ends are not looked at. *)
(***************************************************************************)
Storable(graph, kind, item) ==
  CASE kind = "hints" ->
         /\ \A i \in DOMAIN graph.hints : graph.hints[i].edge # item.edge
         /\ \E i \in DOMAIN graph.edges :
              graph.edges[i].id = item.edge /\ graph.edges[i].kind = "execution"
    [] kind = "groups" ->
         /\ \A n \in item.members : Has(graph.nodes, n)
         /\ \A i \in DOMAIN graph.groups :
              \/ graph.groups[i].id = item.id
              \/ graph.groups[i].members \cap item.members = {}
    [] OTHER -> TRUE

ApplyAdd(document, c) ==
  IF ~Has(document.graphs, c.graph) THEN Refused
  ELSE LET graph == Graph(document, c.graph) IN
    IF Has(graph[c.kind], c.item.id) \/ ~Storable(graph, c.kind, c.item)
      THEN Refused
      ELSE Done(PutGraph(document,
                  [graph EXCEPT ![c.kind] = Inserted(@, c.item, c.index)]),
                << RemoveItem(c.graph, c.kind, c.item.id) >>)

ApplyReplace(document, c) ==
  IF ~Has(document.graphs, c.graph) THEN Refused
  ELSE LET graph == Graph(document, c.graph) IN
    IF ~Has(graph[c.kind], c.item.id) \/ ~Storable(graph, c.kind, c.item)
      THEN Refused
      ELSE Done(PutGraph(document, [graph EXCEPT ![c.kind] = Replaced(@, c.item)]),
                << ReplaceItem(c.graph, c.kind, Item(graph[c.kind], c.item.id)) >>)

(***************************************************************************)
(* Commands that add items back where they were, in ascending position.    *)
(***************************************************************************)
AddBackAtEnd(graph, kind, ids) ==  \* mutant: appended, whatever the position
  LET items == Those(graph[kind], ids)
  IN  [k \in DOMAIN items |-> AddItem(graph.id, kind, items[k])]
AddBack(graph, kind, ids) ==
  LET items == graph[kind]
      kept == Positions(items, {i \in DOMAIN items : items[i].id \in ids})
  IN  [k \in DOMAIN kept |-> AddItemAt(graph.id, kind, items[kept[k]], kept[k])]

(***************************************************************************)
(* What removing some items takes along: a node's edges, an edge's hints,  *)
(* and a node's place in its group, with the group when it was alone.      *)
(***************************************************************************)
Touches(edge, n) == edge.from = n \/ edge.to = n
EdgesOf(graph, n) ==
  {graph.edges[i].id : i \in {j \in DOMAIN graph.edges : Touches(graph.edges[j], n)}}
HintsOf(graph, edges) ==
  {graph.hints[i].id : i \in {j \in DOMAIN graph.hints : graph.hints[j].edge \in edges}}
GroupsWithout(groups, n) ==
  Filter([i \in DOMAIN groups |-> [groups[i] EXCEPT !.members = @ \ {n}]],
         LAMBDA group : group.members # {})
GroupsBack(graph, n) ==
  LET groups == graph.groups
      affected == Positions(groups, {i \in DOMAIN groups : n \in groups[i].members})
  IN  [k \in DOMAIN affected |->
         IF groups[affected[k]].members = {n}
           THEN AddItemAt(graph.id, "groups", groups[affected[k]], affected[k])
           ELSE ReplaceItem(graph.id, "groups", groups[affected[k]])]

NodeRemovedHintsLeft(graph, n) ==  \* mutant: the hints of its edges stay
  [graph EXCEPT !.nodes = Without(@, {n}), !.edges = Without(@, EdgesOf(graph, n)),
                !.groups = GroupsWithout(@, n)]
NodeRemoved(graph, n) ==
  LET cut == EdgesOf(graph, n) IN
  [graph EXCEPT !.nodes = Without(@, {n}), !.edges = Without(@, cut),
                !.hints = Without(@, HintsOf(graph, cut)),
                !.groups = GroupsWithout(@, n)]
NodeBack(graph, n) ==
  LET cut == EdgesOf(graph, n) IN
  AddBack(graph, "nodes", {n}) \o AddBack(graph, "edges", cut)
    \o AddBack(graph, "hints", HintsOf(graph, cut)) \o GroupsBack(graph, n)

ApplyRemove(document, c) ==
  IF ~Has(document.graphs, c.graph) THEN Refused
  ELSE LET graph == Graph(document, c.graph) IN
    IF ~Has(graph[c.kind], c.id) THEN Refused
    ELSE CASE c.kind = "nodes" ->
                Done(PutGraph(document, NodeRemoved(graph, c.id)),
                     NodeBack(graph, c.id))
           [] c.kind = "edges" ->
                LET marks == HintsOf(graph, {c.id}) IN
                Done(PutGraph(document,
                       [graph EXCEPT !.edges = Without(@, {c.id}),
                                     !.hints = Without(@, marks)]),
                     AddBack(graph, "edges", {c.id}) \o AddBack(graph, "hints", marks))
           [] OTHER ->
                Done(PutGraph(document, [graph EXCEPT ![c.kind] = Without(@, {c.id})]),
                     AddBack(graph, c.kind, {c.id}))

ApplyAddGraph(document, c) ==
  IF Has(document.graphs, c.item.id) \/ Len(document.graphs) >= MaxGraphs
    THEN Refused
    ELSE Done([document EXCEPT !.graphs = Inserted(@, c.item, c.index)],
              << RemoveGraph(c.item.id) >>)

ApplyRemoveGraph(document, c) ==
  IF \/ ~Has(document.graphs, c.graph)
     \/ Len(document.graphs) = 1
     \/ document.entry = c.graph
    THEN Refused
    ELSE Done([document EXCEPT !.graphs = Without(@, {c.graph})],
              << AddGraphAt(Graph(document, c.graph),
                            IndexOf(document.graphs, c.graph)) >>)

ApplySetEntryGraph(document, c) ==
  IF ~Has(document.graphs, c.graph) THEN Refused
  ELSE Done([document EXCEPT !.entry = c.graph], << SetEntryGraph(document.entry) >>)

ApplySetSignature(document, c) ==
  IF ~Has(document.graphs, c.graph) THEN Refused
  ELSE LET graph == Graph(document, c.graph) IN
    IF graph.kind # "function" THEN Refused
    ELSE Done(PutGraph(document, [graph EXCEPT !.parameters = c.parameters]),
              << SetSignature(c.graph, graph.parameters) >>)

ApplyOne(document, c) ==
  CASE c.op = "add" -> ApplyAdd(document, c)
    [] c.op = "remove" -> ApplyRemove(document, c)
    [] c.op = "replace" -> ApplyReplace(document, c)
    [] c.op = "addGraph" -> ApplyAddGraph(document, c)
    [] c.op = "removeGraph" -> ApplyRemoveGraph(document, c)
    [] c.op = "setEntryGraph" -> ApplySetEntryGraph(document, c)
    [] c.op = "setFunctionSignature" -> ApplySetSignature(document, c)

(***************************************************************************)
(* A composite: all of its commands or none, undone in the opposite order. *)
(***************************************************************************)
Continued(before, step) ==
  IF step.ok THEN Done(step.document, step.inverse \o before.inverse) ELSE Refused
Then(before, c) ==
  IF before.ok THEN Continued(before, ApplyOne(before.document, c)) ELSE Refused
Apply(document, commands) == FoldLeft(Then, Done(document, <<>>), commands)

(***************************************************************************)
(* The document is sound inside: identifiers differ, edges join nodes of   *)
(* their graph, hints mark different execution edges, and groups are       *)
(* disjoint, non-empty sets of nodes.                                      *)
(***************************************************************************)
Distinct(items) ==
  \A i, j \in DOMAIN items : items[i].id = items[j].id => i = j
GraphIntact(graph) ==
  /\ Distinct(graph.nodes) /\ Distinct(graph.edges)
  /\ Distinct(graph.hints) /\ Distinct(graph.groups)
  /\ \A i \in DOMAIN graph.edges :
       Has(graph.nodes, graph.edges[i].from) /\ Has(graph.nodes, graph.edges[i].to)
  /\ \A i \in DOMAIN graph.hints :
       /\ Has(graph.edges, graph.hints[i].edge)
       /\ Item(graph.edges, graph.hints[i].edge).kind = "execution"
       /\ \A j \in DOMAIN graph.hints :
            graph.hints[i].edge = graph.hints[j].edge => i = j
  /\ \A i \in DOMAIN graph.groups :
       /\ graph.groups[i].members # {}
       /\ \A n \in graph.groups[i].members : Has(graph.nodes, n)
       /\ \A j \in DOMAIN graph.groups \ {i} :
            graph.groups[i].members \cap graph.groups[j].members = {}
Intact(document) ==
  /\ Distinct(document.graphs)
  /\ Has(document.graphs, document.entry)
  /\ \A i \in DOMAIN document.graphs : GraphIntact(document.graphs[i])
=============================================================================
