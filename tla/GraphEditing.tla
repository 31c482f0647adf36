---------------------------- MODULE GraphEditing ----------------------------
(***************************************************************************)
(* Editing the open document: the operations of the canvas, of the task    *)
(* dialog and of the function library, each of which builds one command    *)
(* (graph-editing.ts, task-commands.ts, function-authoring.ts,             *)
(* connection-rules.ts), and the undo history that applies them            *)
(* (command-history.ts).  An operation whose command is refused changes    *)
(* nothing and is not a step.                                              *)
(*                                                                         *)
(* Four types stand for the node library: "step", a node with its own      *)
(* execution turn and one data input; "value", a pure node with a data     *)
(* input and a data output; and the function nodes "input", "return" and   *)
(* "call".  Output parameters mirror input parameters and are left out.    *)
(***************************************************************************)
EXTENDS GraphDocument

CONSTANTS
  Documents,      \* documents that may be opened
  MaxHistory,     \* steps kept for undo (200 in the code)
  MaxDepth,       \* depth of nested calls allowed (16 in the code)
  MaxParameters,  \* parameters of a function (16 in the code)
  MaxSelection,   \* bound: nodes or edges selected at once
  MaxCommands     \* bound: commands applied, over the whole behaviour

VARIABLES
  document,   \* the open document
  undoable,   \* entries that undo takes back, the nearest last
  redoable,   \* entries that redo applies again, the nearest last
  position,   \* the identifiers of the saved state and of the next entry
  truncated,  \* old entries were dropped
  clipboard,  \* the copied fragment
  minted,     \* identifiers made so far
  saved       \* the document as last written

vars == <<document, undoable, redoable, position, truncated, clipboard, minted, saved>>

ASSUME EditingAssumption ==
  /\ MaxHistory \in Nat \ {0} /\ MaxDepth \in Nat /\ MaxCommands \in Nat
  /\ \A opened \in Documents :
       opened \in DocumentRecords /\ Len(opened.graphs) <= MaxGraphs /\ Intact(opened)

Joined(a, b) == a \o b
Concat(lists) == FoldLeft(Joined, <<>>, lists)
GraphIds(d) == {d.graphs[i].id : i \in DOMAIN d.graphs}
NodeIds(graph) == {graph.nodes[i].id : i \in DOMAIN graph.nodes}
EdgeIds(graph) == {graph.edges[i].id : i \in DOMAIN graph.edges}
Functions(d) == {g \in GraphIds(d) : Graph(d, g).kind = "function"}
EmptyFragment == [nodes |-> <<>>, edges |-> <<>>, groups |-> <<>>, hints |-> <<>>]

Node(id, type, target) ==
  [id |-> id, type |-> type, target |-> target, literals |-> {}]

(***************************************************************************)
(* Ports.  A call has a data input for each parameter of the function it   *)
(* calls, when the document that holds the function is at hand.            *)
(***************************************************************************)
Run == <<"run", 0>>
NextPort == <<"next", 0>>
Argument == <<"argument", 0>>
Result == <<"result", 0>>
ParameterPort(p) == <<"parameter", p>>
ParameterPorts(graph) == {ParameterPort(p) : p \in ToSet(graph.parameters)}

CallPorts(d, n) ==
  IF n.target \in Functions(d) THEN ParameterPorts(Graph(d, n.target)) ELSE {}
NoDocument == [entry |-> NoGraph, graphs |-> <<>>]

DataInputs(d, n) == CASE n.type \in {"step", "value"} -> {Argument}
                      [] n.type = "call" -> CallPorts(d, n)
                      [] OTHER -> {}
DataOutputs(graph, n) == CASE n.type = "value" -> {Result}
                           [] n.type = "input" -> ParameterPorts(graph)
                           [] OTHER -> {}
RunInputs(n) == IF n.type \in {"step", "return", "call"} THEN {Run} ELSE {}
RunOutputs(n) == IF n.type \in {"step", "input", "call"} THEN {NextPort} ELSE {}

Edge(id, kind, c) == [id |-> id, kind |-> kind, from |-> c.from, out |-> c.out,
                      to |-> c.to, in |-> c.in]
SameEnds(e, c) ==
  e.from = c.from /\ e.out = c.out /\ e.to = c.to /\ e.in = c.in

(***************************************************************************)
(* Whether one pure node already depends on another: every set of pure     *)
(* nodes closed under "reads from" that holds the first holds the second.  *)
(***************************************************************************)
PureNodes(graph) == {n \in NodeIds(graph) : Item(graph.nodes, n).type = "value"}
DataEdges(graph) ==
  {e \in ToSet(graph.edges) : e.kind = "data"}
DependsOn(graph, n, m) ==
  /\ n \in PureNodes(graph)
  /\ \A S \in SUBSET PureNodes(graph) :
       /\ n \in S
       /\ \A e \in DataEdges(graph) :
            e.to \in S /\ e.from \in PureNodes(graph) => e.from \in S
       => m \in S

(***************************************************************************)
(* The connection rules.  A data input takes one edge and so does an       *)
(* execution output; a connection displaces the edge in its place.         *)
(***************************************************************************)
Kind(c) == IF c.in = Run THEN "execution" ELSE "data"
Accepted(d, graph, c) ==
  /\ c.from # c.to
  /\ Has(graph.nodes, c.from) /\ Has(graph.nodes, c.to)
  /\ LET from == Item(graph.nodes, c.from)
         to == Item(graph.nodes, c.to) IN
     \/ c.out \in RunOutputs(from) /\ c.in \in RunInputs(to)
     \/ c.out \in DataOutputs(graph, from) /\ c.in \in DataInputs(d, to)
  /\ \A i \in DOMAIN graph.edges : ~SameEnds(graph.edges[i], c)
  /\ Kind(c) = "data" => ~DependsOn(graph, c.from, c.to)
Displaced(graph, c) ==
  LET inPlace(e) == IF Kind(c) = "execution" THEN e.from = c.from /\ e.out = c.out
                                             ELSE e.to = c.to /\ e.in = c.in
  IN  {e.id : e \in {x \in ToSet(graph.edges) : inPlace(x)}}
RemoveAll(graph, kind, ids) ==
  LET items == Those(graph[kind], ids)
  IN  [i \in DOMAIN items |-> RemoveItem(graph.id, kind, items[i].id)]

Outputs(graph, n) == RunOutputs(n) \cup DataOutputs(graph, n)
Inputs(d, n) == RunInputs(n) \cup DataInputs(d, n)
Candidates(d, graph) ==
  {c \in UNION {[from : {n.id}, out : Outputs(graph, n), to : {m.id}, in : Inputs(d, m)] :
                n, m \in ToSet(graph.nodes)} : Accepted(d, graph, c)}

(***************************************************************************)
(* Fragments: the selected nodes, the edges wholly among them with their   *)
(* hints, and the groups wholly selected; and such a fragment under fresh  *)
(* identifiers.                                                            *)
(***************************************************************************)
Fragment(graph, S) ==
  LET edges == Filter(graph.edges, LAMBDA e : e.from \in S /\ e.to \in S) IN
  [nodes |-> Those(graph.nodes, S),
   edges |-> edges,
   groups |-> Filter(graph.groups, LAMBDA x : x.members \subseteq S),
   hints |-> Filter(graph.hints, LAMBDA h : Has(edges, h.edge))]

Renumbered(fragment, first) ==
  LET node(n) == first + IndexOf(fragment.nodes, n)
      edges == first + Len(fragment.nodes)
      edge(e) == edges + IndexOf(fragment.edges, e)
      groups == edges + Len(fragment.edges)
      hints == groups + Len(fragment.groups)
  IN  [nodes |-> [i \in DOMAIN fragment.nodes |->
                    [fragment.nodes[i] EXCEPT !.id = first + i]],
       edges |-> [i \in DOMAIN fragment.edges |->
                    [fragment.edges[i] EXCEPT !.id = edges + i,
                       !.from = node(@), !.to = node(@)]],
       groups |-> [i \in DOMAIN fragment.groups |->
                     [id |-> groups + i,
                      members |-> {node(n) : n \in fragment.groups[i].members}]],
       hints |-> [i \in DOMAIN fragment.hints |->
                    [id |-> hints + i, edge |-> edge(fragment.hints[i].edge)]]]
Size(fragment) ==
  Len(fragment.nodes) + Len(fragment.edges) + Len(fragment.groups) + Len(fragment.hints)

Additions(g, kind, items) == [i \in DOMAIN items |-> AddItem(g, kind, items[i])]
PasteCommands(g, fragment, first) ==
  LET fresh == Renumbered(fragment, first) IN
  Additions(g, "nodes", fresh.nodes) \o Additions(g, "groups", fresh.groups)
    \o Additions(g, "edges", fresh.edges) \o Additions(g, "hints", fresh.hints)

(***************************************************************************)
(* The call graph that the static checks walk: the functions and the entry *)
(* graph, and the functions they call.                                     *)
(***************************************************************************)
CallsOf(graph) == {graph.nodes[i].target : i \in
                    {j \in DOMAIN graph.nodes : graph.nodes[j].type = "call"}}
Callees(d) ==
  [g \in GraphIds(d) |->
     IF g \in Functions(d) \cup {d.entry}
       THEN CallsOf(Graph(d, g)) \cap Functions(d) ELSE {}]
Reaches(callees, g, h) ==
  \A S \in SUBSET DOMAIN callees :
    g \in S /\ (\A x \in S : callees[x] \subseteq S) => h \in S
TooDeep(callees) ==
  LET walks[n \in 0..MaxDepth + 1] ==
        IF n = 0 THEN {<<g>> : g \in DOMAIN callees}
        ELSE UNION {{Append(walk, g) : g \in callees[Last(walk)]} :
                      walk \in {w \in walks[n - 1] : IsInjective(w)}}
  IN  walks[MaxDepth + 1] # {}

(***************************************************************************)
(* The history.  An entry holds the commands and those that take them      *)
(* back.  The documents before and after it, "was" and "became", are not   *)
(* in the code and no action reads them: they state what is promised.      *)
(***************************************************************************)
Init ==
  /\ document \in Documents
  /\ undoable = <<>> /\ redoable = <<>>
  /\ position = [saved |-> 0, next |-> 1]
  /\ truncated = FALSE
  /\ clipboard = EmptyFragment
  /\ minted = 100  \* above every identifier of Documents
  /\ saved = document

CurrentPosition == IF undoable = <<>> THEN 0 ELSE Last(undoable).position
Dirty == CurrentPosition # position.saved

LastEntries(entries) ==
  IF Len(entries) > MaxHistory
    THEN SubSeq(entries, Len(entries) - MaxHistory + 1, Len(entries))
    ELSE entries

Perform(commands, used) ==
  /\ position.next <= MaxCommands
  /\ LET outcome == Apply(document, commands)
         entries == IF outcome.ok
                      THEN Append(undoable, [position |-> position.next,
                                             commands |-> commands,
                                             inverse |-> outcome.inverse,
                                             was |-> document,
                                             became |-> outcome.document])
                      ELSE undoable
     IN  /\ outcome.ok
         /\ document' = outcome.document
         /\ undoable' = LastEntries(entries)
         /\ redoable' = <<>>
         /\ truncated' = (truncated \/ Len(entries) > MaxHistory)
  /\ position' = [position EXCEPT !.next = @ + 1]
  /\ minted' = minted + used
  /\ UNCHANGED <<clipboard, saved>>

Undo ==
  /\ undoable # <<>>
  /\ LET outcome == Apply(document, Last(undoable).inverse) IN
     outcome.ok /\ document' = outcome.document
  /\ undoable' = Front(undoable)
  /\ redoable' = Append(redoable, Last(undoable))
  /\ UNCHANGED <<position, truncated, clipboard, minted, saved>>

Redo ==
  /\ redoable # <<>>
  /\ LET outcome == Apply(document, Last(redoable).commands) IN
     outcome.ok /\ document' = outcome.document
  /\ undoable' = Append(undoable, Last(redoable))
  /\ redoable' = Front(redoable)
  /\ UNCHANGED <<position, truncated, clipboard, minted, saved>>

SaveNewest ==  \* mutant: the latest entry made is marked, undone or not
  /\ Dirty
  /\ saved' = document
  /\ position' = [position EXCEPT !.saved = position.next - 1]
  /\ UNCHANGED <<document, undoable, redoable, truncated, clipboard, minted>>
Save ==
  /\ Dirty
  /\ saved' = document
  /\ position' = [position EXCEPT !.saved = CurrentPosition]
  /\ UNCHANGED <<document, undoable, redoable, truncated, clipboard, minted>>

(***************************************************************************)
(* The canvas.                                                             *)
(***************************************************************************)
Selections(graph) ==
  {S \in SUBSET NodeIds(graph) : S # {} /\ Cardinality(S) <= MaxSelection}

EdgeSelections(graph) ==
  {S \in SUBSET EdgeIds(graph) : S # {} /\ Cardinality(S) <= MaxSelection}

InsertNode(g, type) ==
  Perform(<< AddItem(g, "nodes", Node(minted + 1, type, NoGraph)) >>, 1)

(* A value and a step that reads it, in a group of their own. *)
Template == [nodes |-> << Node(1, "value", NoGraph), Node(2, "step", NoGraph) >>,
             edges |-> << [id |-> 3, kind |-> "data", from |-> 1, out |-> Result,
                           to |-> 2, in |-> Argument] >>,
             groups |-> << [id |-> 4, members |-> {1, 2}] >>,
             hints |-> <<>>]
InsertTemplate(g) ==
  Perform(PasteCommands(g, Template, minted), Size(Template))

SetInputValue(g, n, port) ==
  LET literals == IF port \in n.literals THEN n.literals \ {port}
                                         ELSE n.literals \cup {port}
  IN  Perform(<< ReplaceItem(g, "nodes", [n EXCEPT !.literals = literals]) >>, 0)

Connect(g, c) ==
  LET graph == Graph(document, g) IN
  Perform(Append(RemoveAll(graph, "edges", Displaced(graph, c)),
                 AddItem(g, "edges", Edge(minted + 1, Kind(c), c))), 1)

Reconnect(g, e, c) ==
  LET graph == Graph(document, g) IN
  Perform(Append(RemoveAll(graph, "edges", {e} \cup Displaced(graph, c)),
                 AddItem(g, "edges", Edge(minted + 1, Kind(c), c))), 1)

(* Edges are moved one after another, each judged in the graph as moved so *)
(* far and without the document, so that a call's parameters are unknown.  *)
Ends(graph) ==
  UNION {{[node |-> e.from, port |-> e.out, side |-> "output"],
          [node |-> e.to, port |-> e.in, side |-> "input"]} : e \in ToSet(graph.edges)}
Touching(graph, end) ==
  Filter(graph.edges, LAMBDA e : IF end.side = "output"
                                      THEN e.from = end.node /\ e.out = end.port
                                      ELSE e.to = end.node /\ e.in = end.port)
Retargeted(e, end) == IF end.side = "output"
                        THEN [e EXCEPT !.from = end.node, !.out = end.port]
                        ELSE [e EXCEPT !.to = end.node, !.in = end.port]
MoveOne(before, c) ==
  LET graph == before.graph
      out == Displaced(graph, c)
      edge == Edge(c.id, Kind(c), c)
  IN  IF /\ before.ok
         /\ Accepted(NoDocument, graph, c)
         /\ \A id \in out : id <= minted
        THEN [ok |-> TRUE,
              commands |-> Append(before.commands \o RemoveAll(graph, "edges", out),
                                  AddItem(graph.id, "edges", edge)),
              graph |-> [graph EXCEPT !.edges = Append(Without(@, out), edge)]]
        ELSE [before EXCEPT !.ok = FALSE]
Retargeting(graph, moved, destination) ==
  LET ids == {moved[k].id : k \in DOMAIN moved}
      taken == [ok |-> TRUE,
                commands |-> RemoveAll(graph, "edges", ids),
                graph |-> [graph EXCEPT !.edges = Without(@, ids)]]
      moves == [i \in DOMAIN moved |->
                  [Retargeted(moved[i], destination) EXCEPT !.id = minted + i]]
  IN  FoldLeft(MoveOne, taken, moves)
Retarget(g, origin, destination) ==
  LET graph == Graph(document, g)
      moved == Touching(graph, origin)
      built == Retargeting(graph, moved, destination)
  IN  /\ origin # destination
      /\ built.ok
      /\ Perform(built.commands, Len(moved))

(* Repeating: a connection back, with a hint that marks it. *)
Repeat(g, c) ==
  LET graph == Graph(document, g) IN
  /\ Kind(c) = "execution" /\ Accepted(NoDocument, graph, c)
  /\ Perform(RemoveAll(graph, "edges", Displaced(graph, c))
               \o << AddItem(g, "edges", Edge(minted + 1, "execution", c)),
                     AddItem(g, "hints", [id |-> minted + 2, edge |-> minted + 1]) >>, 2)
RemoveRepeat(g, h) == Perform(<< RemoveItem(g, "hints", h) >>, 0)

RemoveNodes(g, S) == Perform(RemoveAll(Graph(document, g), "nodes", S), 0)
RemoveEdges(g, S) == Perform(RemoveAll(Graph(document, g), "edges", S), 0)

Copy(g, S) ==
  /\ clipboard = EmptyFragment  \* bound: one copy
  /\ clipboard' = Fragment(Graph(document, g), S)
  /\ UNCHANGED <<document, undoable, redoable, position, truncated, minted, saved>>
Paste(g) ==
  /\ clipboard # EmptyFragment
  /\ Perform(PasteCommands(g, clipboard, minted), Size(clipboard))
Duplicate(g, S) ==
  LET fragment == Fragment(Graph(document, g), S) IN
  Perform(PasteCommands(g, fragment, minted), Size(fragment))

(***************************************************************************)
(* The task dialog, which lists every graph of the document.               *)
(***************************************************************************)
CreateTask ==
  Perform(<< AddGraphAt([id |-> minted + 1, kind |-> "entry", parameters |-> <<>>,
                         nodes |-> <<>>, edges |-> <<>>, groups |-> <<>>,
                         hints |-> <<>>], AtEnd) >>, 1)

DuplicateTask(g) ==
  LET graph == Graph(document, g)
      copy == Renumbered([nodes |-> graph.nodes, edges |-> graph.edges,
                          groups |-> graph.groups, hints |-> graph.hints], minted + 1)
  IN  Perform(<< AddGraphAt([graph EXCEPT !.id = minted + 1, !.nodes = copy.nodes,
                               !.edges = copy.edges, !.groups = copy.groups,
                               !.hints = copy.hints], AtEnd) >>,
              1 + Size(copy))

Fallback(g) ==
  LET i == IndexOf(document.graphs, g) IN
  document.graphs[IF i < Len(document.graphs) THEN i + 1 ELSE i - 1].id
DeleteTask(g) ==
  /\ Len(document.graphs) > 1
  /\ Perform(IF document.entry = g
               THEN << SetEntryGraph(Fallback(g)), RemoveGraph(g) >>
               ELSE << RemoveGraph(g) >>, 0)

SetDefaultTask(g) == Perform(<< SetEntryGraph(g) >>, 0)

(***************************************************************************)
(* The function library and the signature editor.                          *)
(***************************************************************************)
CreateFunction ==
  Perform(<< AddGraphAt([id |-> minted + 1, kind |-> "function", parameters |-> <<>>,
                         nodes |-> << Node(minted + 2, "input", NoGraph),
                                      Node(minted + 3, "return", NoGraph) >>,
                         edges |-> <<>>, groups |-> <<>>, hints |-> <<>>], AtEnd) >>, 3)

Calls(graph, f) ==
  {n \in NodeIds(graph) : LET node == Item(graph.nodes, n) IN
                          node.type = "call" /\ node.target = f}
DeleteFunction(f) ==
  LET others == Filter(document.graphs, LAMBDA graph : graph.id # f) IN
  Perform(Append(Concat([i \in DOMAIN others |->
                           RemoveAll(others[i], "nodes", Calls(others[i], f))]),
                 RemoveGraph(f)), 0)

InsertCall(g, f) ==
  LET callees == [Callees(document) EXCEPT ![g] = @ \cup {f}] IN
  /\ g # f
  /\ ~Reaches(callees, f, g)
  /\ ~TooDeep(callees)
  /\ Perform(<< AddItem(g, "nodes", Node(minted + 1, "call", f)) >>, 1)

AddParameter(f) ==
  LET parameters == Graph(document, f).parameters IN
  /\ Len(parameters) < MaxParameters
  /\ Perform(<< SetSignature(f, Append(parameters, minted + 1)) >>, 1)

(* The edges at a parameter's port, inside the function and at every call  *)
(* of it, and the literals that calls hold for it.                         *)
ParameterEdges(graph, f, p) ==
  {e.id : e \in {x \in DataEdges(graph) :
     \/ /\ graph.id = f /\ x.out = ParameterPort(p)
        /\ Item(graph.nodes, x.from).type = "input"
     \/ x.in = ParameterPort(p) /\ x.to \in Calls(graph, f)}}
ParameterLiterals(graph, f, p) ==
  LET nodes == Filter(graph.nodes, LAMBDA n : n.id \in Calls(graph, f)
                                                  /\ ParameterPort(p) \in n.literals)
  IN  [i \in DOMAIN nodes |->
         ReplaceItem(graph.id, "nodes",
                     [nodes[i] EXCEPT !.literals = @ \ {ParameterPort(p)}])]
CleanupInside(f, p) ==  \* mutant: the function's own graph only
  RemoveAll(Graph(document, f), "edges", ParameterEdges(Graph(document, f), f, p))
CleanupParameter(f, p) ==
  LET graphs == document.graphs IN
  Concat([i \in DOMAIN graphs |->
            RemoveAll(graphs[i], "edges", ParameterEdges(graphs[i], f, p))])
    \o Concat([i \in DOMAIN graphs |-> ParameterLiterals(graphs[i], f, p)])
RemoveParameter(f, p) ==
  Perform(Append(CleanupParameter(f, p),
                 SetSignature(f, Filter(Graph(document, f).parameters,
                                           LAMBDA q : q # p))), 0)

OnCanvas(g) ==
  LET graph == Graph(document, g) IN
  \/ \E type \in {"step", "value"} : InsertNode(g, type)
  \/ InsertTemplate(g)
  \/ \E n \in ToSet(graph.nodes) :
       \E port \in DataInputs(document, n) : SetInputValue(g, n, port)
  \/ \E c \in Candidates(document, graph) :
       \/ Connect(g, c)
       \/ \E e \in EdgeIds(graph) : Reconnect(g, e, c)
       \/ Repeat(g, c)
  \/ \E origin \in Ends(graph), n \in ToSet(graph.nodes) :
       \E port \in IF origin.side = "output" THEN Outputs(graph, n)
                                             ELSE Inputs(document, n) :
         Retarget(g, origin, [node |-> n.id, port |-> port, side |-> origin.side])
  \/ \E i \in DOMAIN graph.hints : RemoveRepeat(g, graph.hints[i].id)
  \/ \E S \in EdgeSelections(graph) : RemoveEdges(g, S)
  \/ \E S \in Selections(graph) : RemoveNodes(g, S) \/ Copy(g, S) \/ Duplicate(g, S)
  \/ Paste(g)

InTaskDialog ==
  \/ CreateTask
  \/ \E g \in GraphIds(document) : DuplicateTask(g) \/ DeleteTask(g) \/ SetDefaultTask(g)

InFunctionLibrary ==
  \/ CreateFunction
  \/ \E f \in Functions(document) :
       \/ DeleteFunction(f)
       \/ \E g \in GraphIds(document) : InsertCall(g, f)
       \/ AddParameter(f)
       \/ \E p \in ToSet(Graph(document, f).parameters) : RemoveParameter(f, p)

Next ==
  \/ \E g \in GraphIds(document) : OnCanvas(g)
  \/ InTaskDialog
  \/ InFunctionLibrary
  \/ Undo \/ Redo \/ Save

Spec == Init /\ [][Next]_vars

(***************************************************************************)
(* Properties.                                                             *)
(***************************************************************************)

(* The history, its marks and the clipboard have the shape the code gives  *)
(* them.                                                                   *)
TypeOK ==
  /\ document.entry \in GraphIds(document)
  /\ Len(undoable) <= MaxHistory
  /\ position \in [saved : 0..MaxCommands, next : 1..MaxCommands + 1]
  /\ CurrentPosition < position.next
  /\ truncated \in BOOLEAN
  /\ minted \in Nat

(* Whatever is cut, pasted, duplicated, deleted, undone and redone, no edge *)
(* is left without its nodes, no hint without its execution edge, no group  *)
(* empty or overlapping another, and no identifier is used twice.           *)
DocumentIntact == Intact(document)

(* Connecting, reconnecting, moving a port's connections and repeating, in  *)
(* any order, never put two edges where one is allowed, and never let pure  *)
(* nodes wait for one another.                                              *)
WithinRules(d) ==
  \A i \in DOMAIN d.graphs :
    LET graph == d.graphs[i] IN
    /\ \A e, f \in ToSet(graph.edges) :
         \/ e = f
         \/ e.kind # f.kind
         \/ e.kind = "data" /\ <<e.to, e.in>> # <<f.to, f.in>>
         \/ e.kind = "execution" /\ <<e.from, e.out>> # <<f.from, f.out>>
    /\ \A e \in DataEdges(graph) :
         e.to \in PureNodes(graph) => ~DependsOn(graph, e.from, e.to)
WiringStaysWithinRules == WithinRules(document)

(* No sequence of commands, undone and redone, leaves the document with a  *)
(* part that dangles or a wiring the canvas would have refused.             *)
DocumentIsSound == TypeOK /\ DocumentIntact /\ WiringStaysWithinRules

(* As long as no entry was dropped, a history that says there is nothing to *)
(* save is telling the truth, wherever undoing and redoing have led.        *)
CleanIsSaved == ~truncated /\ ~Dirty => document = saved

(* Undoing restores the very document that was there, file order included, *)
(* and redoing the one that was undone: commands and inverses amount to a   *)
(* line of documents.                                                       *)
Past == [i \in DOMAIN undoable |-> undoable[i].was]
Future == [i \in DOMAIN redoable |-> redoable[i].became]
Line == INSTANCE LinearHistory WITH past <- Past, present <- document, future <- Future
ImplementsLinearHistory == Line!Spec

(* What makes a document run: every port an edge or a literal names exists, *)
(* every call names a function, calls are not recursive and nest no deeper  *)
(* than allowed, and the entry graph is a task.                             *)
PortsExist(d) ==
  \A i \in DOMAIN d.graphs :
    LET graph == d.graphs[i] IN
    /\ \A e \in DataEdges(graph) :
         /\ e.out \in DataOutputs(graph, Item(graph.nodes, e.from))
         /\ e.in \in DataInputs(d, Item(graph.nodes, e.to))
    /\ \A n \in ToSet(graph.nodes) : n.literals \subseteq DataInputs(d, n)
CallsResolve(d) ==
  \A i \in DOMAIN d.graphs : CallsOf(d.graphs[i]) \subseteq Functions(d)
NotRecursive(d) ==
  LET callees == Callees(d) IN
  \A g \in Functions(d), h \in GraphIds(d) :
    h \in callees[g] => ~Reaches(callees, h, g)
NotTooDeep(d) == ~TooDeep(Callees(d))
EntryIsTask(d) == Graph(d, d.entry).kind = "entry"

Pasting == \E g \in GraphIds(document) : Paste(g)
Deleting == \E g \in GraphIds(document) : DeleteTask(g)
Choosing == \E g \in GraphIds(document) : SetDefaultTask(g)

(* Only pasting, which applies no rule, and the task dialog, which takes    *)
(* functions for tasks, can spoil a document that runs; every other command *)
(* keeps it so, above all the deletion of a function and of a parameter,    *)
(* whose uses are in other graphs.                                          *)
NewCommand == position'.next # position.next
UsesExist(d) == PortsExist(d) /\ CallsResolve(d)
OnlyKnownOperationsSpoil ==
  [][NewCommand =>
       /\ UsesExist(document) => \/ UsesExist(document')
                                 \/ Pasting \/ Deleting
       /\ NotRecursive(document) => \/ NotRecursive(document')
                                    \/ Pasting
       /\ NotTooDeep(document) => \/ NotTooDeep(document')
                                  \/ Pasting \/ Deleting \/ Choosing
       /\ EntryIsTask(document) => \/ EntryIsTask(document')
                                   \/ Deleting \/ Choosing]_vars

=============================================================================
