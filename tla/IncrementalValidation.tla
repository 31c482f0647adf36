------------------------ MODULE IncrementalValidation ------------------------
(***************************************************************************)
(* The problems the editor shows while a project is edited.  Every command *)
(* replaces the graphs it changes and keeps the others; the problems panel *)
(* (useGraphProblems.ts, incremental-validation.ts) validates the document *)
(* again when it is drawn, and takes over the diagnostics of every graph   *)
(* that is still the object it was, as long as the registry and what the   *)
(* document says of its functions are the same.  The edits are those that  *)
(* add and remove connections, nodes, functions, parameters and variables. *)
(*                                                                         *)
(* The code recognises a graph by identity.  A graph that a command, or    *)
(* the inverse of one, changes becomes a new object, and so does every     *)
(* graph of a document that is opened, and a snapshot of the registry that *)
(* is gone: here what the cache holds of them is dropped at that moment,   *)
(* where the code would not find it again.                                 *)
(***************************************************************************)
EXTENDS GraphVocabulary

CONSTANTS
  Stored,         \* documents that can be opened
  Registries,     \* snapshots the runtime may have sent
  Insertable,     \* node types the palette offers
  NodePool,       \* nodes that may be on the clipboard
  ParameterTypes, \* types a parameter may get
  VariablePool,   \* variables a user may create
  NewNames,       \* names a variable may get
  MaxPast,        \* bound: edits since a document was opened
  MaxUnrendered,  \* bound: changes between two drawings of the panel
  MaxEdges        \* bound: edges of a graph that is drawn in

Editor == INSTANCE EditorValidation
Runtime == INSTANCE RuntimeValidation
LOCAL INSTANCE Graphs

VARIABLES
  document,    \* the open document, or NoDocument
  past,        \* the edits that can be undone: [label, document before it]
  registry,    \* the registry snapshot, or NoRegistry
  cache,       \* [registry, context, entries: id -> [source, diagnostics]]
  shown,       \* [document, registry, diagnostics] the panel shows, or Nothing
  unrendered   \* changes since the panel was drawn

vars == <<document, past, registry, cache, shown, unrendered>>

NoDocument == [entry |-> None, graphs |-> <<>>, variables |-> <<>>, assets |-> <<>>]
NoRegistry == "none" :> Unknown
Nothing == [document |-> NoDocument, registry |-> NoRegistry, diagnostics |-> {}]

NoCache == [registry |-> NoRegistry, context |-> <<>>, entries |-> <<>>]

Init ==
  /\ document = NoDocument
  /\ past = <<>>
  /\ registry = NoRegistry
  /\ cache = NoCache
  /\ shown = Nothing
  /\ unrendered = 0

(***************************************************************************)
(* The panel.                                                              *)
(***************************************************************************)
FunctionContext(d) ==
  [i \in DOMAIN d.graphs |->
     LET graph == d.graphs[i]
     IN  [id |-> graph.id, kind |-> graph.kind, inputs |-> graph.inputs,
          outputs |-> graph.outputs,
          calls |-> {<<n.id, n.target>> :
                       n \in {m \in Elements(graph.nodes) : m.type = FunctionCall}}]]

(* The entries that may be taken over.                                     *)
Kept == IF cache.registry = registry /\ cache.context = FunctionContext(document)
        THEN cache.entries ELSE <<>>

(* validateGraph, or what the cache holds for the same graph.              *)
Revalidated(entries, graph) ==
  IF graph.id \in DOMAIN entries /\ entries[graph.id].source = graph
  THEN entries[graph.id]
  ELSE [source |-> graph, diagnostics |-> Editor!GraphProblems(graph, document, registry)]

Render ==
  LET renders(checked) ==
        /\ cache' = [registry |-> registry, context |-> FunctionContext(document),
                     entries |-> [id \in Ids(document.graphs) |->
                                    checked[ById(document.graphs)[id]]]]
        /\ shown' = [document |-> document, registry |-> registry,
                     diagnostics |-> Editor!Structure(document) \cup
                       UNION {checked[g].diagnostics : g \in DOMAIN checked}]
  IN  /\ unrendered > 0
      /\ unrendered' = 0
      /\ IF document = NoDocument \/ registry = NoRegistry
         THEN shown' = Nothing /\ UNCHANGED cache
         ELSE renders([g \in Elements(document.graphs) |-> Revalidated(Kept, g)])
      /\ UNCHANGED <<document, past, registry>>

(***************************************************************************)
(* Projects and the runtime.                                               *)
(***************************************************************************)
Changed == unrendered < MaxUnrendered /\ unrendered' = unrendered + 1

OpenDocument(d) ==
  /\ Changed
  /\ document # d
  /\ document' = d
  /\ past' = <<>>
  /\ cache' = [cache EXCEPT !.entries = <<>>]
  /\ UNCHANGED <<registry, shown>>

RegistryArrives(r) ==
  /\ Changed
  /\ registry # r
  /\ registry' = r
  /\ UNCHANGED <<document, past, cache, shown>>

(* The runtime stops.                                                      *)
RegistryLost ==
  /\ Changed
  /\ registry # NoRegistry
  /\ registry' = NoRegistry
  /\ cache' = NoCache
  /\ UNCHANGED <<document, past, shown>>

(***************************************************************************)
(* Edits.                                                                  *)
(***************************************************************************)
Graph(id) == ById(document.graphs)[id]
Unused(used) == CHOOSE n \in 1..(Cardinality(used) + 1) : n \notin used

WithGraph(d, graph) ==
  [d EXCEPT !.graphs = [i \in DOMAIN @ |-> IF @[i].id = graph.id THEN graph ELSE @[i]]]

(* The cache after a change: what it holds of graphs that are replaced is  *)
(* of no use; a graph that is removed can come back as it was.             *)
Untouched(next) ==
  [cache EXCEPT !.entries =
     [id \in {i \in DOMAIN @ : \/ i \notin Ids(next.graphs)
                              \/ @[i].source \in Elements(next.graphs)} |-> @[id]]]

(* Bound: a file in which identifiers repeat is shown, but not edited.      *)
Distinct ==
  LET distinct(items) == Repeated(items, LAMBDA item : item.id) = {}
  IN  /\ distinct(document.graphs)
      /\ \A g \in Elements(document.graphs) : distinct(g.nodes) /\ distinct(g.edges)

Edit(label, next) ==
  /\ Changed
  /\ document # NoDocument /\ Distinct
  /\ Len(past) < MaxPast
  /\ document' = next
  /\ past' = Append(past, [label |-> label, document |-> document])
  /\ cache' = Untouched(next)
  /\ UNCHANGED <<registry, shown>>

Undo ==
  /\ Changed
  /\ past # <<>>
  /\ document' = Last(past).document
  /\ past' = Front(past)
  /\ cache' = Untouched(Last(past).document)
  /\ UNCHANGED <<registry, shown>>

PortsOf(graph, node) ==
  DOMAIN Editor!Definition(ById(graph.nodes)[node], graph, document, registry).ports

(* Every pair of ports of two nodes.                                       *)
Candidates(graph) ==
  UNION {{[from |-> a, out |-> p, to |-> b, in |-> q] :
            p \in PortsOf(graph, a), q \in PortsOf(graph, b)} :
         a \in Ids(graph.nodes), b \in Ids(graph.nodes)}

Edge(graph, candidate, kind) ==
  [id |-> Unused(Ids(graph.edges)), kind |-> kind] @@ candidate

(* The rules are applied to a graph as part of a document; where they      *)
(* allow the connection, the edges it displaces go and it comes.           *)
Join(label, graph, freed, context, candidate) ==
  LET joined(evaluation) ==
        /\ evaluation.accepted
        /\ Edit(label, WithGraph(document, Editor!WithEdge(graph, evaluation.replaces \cup freed,
                                             Edge(graph, candidate, evaluation.kind))))
  IN  /\ registry # NoRegistry
      /\ joined(Editor!EvaluateConnection(graph, context, registry, candidate))

Draw(id, candidate) ==
  /\ Len(Graph(id).edges) < MaxEdges
  /\ Join("connect", Graph(id), {}, document, candidate)

(* An end of an edge is dropped on another port.  The rules are applied to *)
(* the graph that still has the edge.                                      *)
Reconnect(id, edge, candidate) ==
  /\ \/ <<edge.from, edge.out>> = <<candidate.from, candidate.out>>
     \/ <<edge.to, edge.in>> = <<candidate.to, candidate.in>>
  /\ Join("reconnectEdge", Graph(id), {edge.id}, document, candidate)

(* Without its document a call has no parameters.                          *)
Alone == [document EXCEPT !.graphs = <<>>]

(* All edges of one output or input move to another, one after the other,  *)
(* unless one is refused or displaces one that has moved.                  *)
Retarget(id, origin, destination) ==
  LET graph == Graph(id)
      touches(e) == origin \in {<<e.from, e.out, "output">>, <<e.to, e.in, "input">>}
      moved == SelectSeq(graph.edges, touches)
      candidate(e) ==
        IF origin[3] = "output"
        THEN [from |-> destination[1], out |-> destination[2], to |-> e.to, in |-> e.in]
        ELSE [from |-> e.from, out |-> e.out, to |-> destination[1], in |-> destination[2]]
      moves(result, edge, evaluation) ==
        IF ~evaluation.accepted \/ evaluation.replaces \cap result.added # {}
        THEN [result EXCEPT !.ok = FALSE]
        ELSE [ok |-> TRUE, added |-> result.added \cup {edge.id},
              graph |-> Editor!WithEdge(result.graph, evaluation.replaces,
                                        [kind |-> evaluation.kind] @@ edge)]
      move(result, e) ==
        IF ~result.ok THEN result
        ELSE moves(result,
                   [id |-> Unused(Ids(graph.edges) \cup result.added)] @@ candidate(e),
                   Editor!EvaluateConnection(result.graph, Alone, registry, candidate(e)))
      retargeted(result) ==
        /\ result.ok
        /\ Edit("retargetPortConnections", WithGraph(document, result.graph))
  IN  /\ registry # NoRegistry
      /\ origin # destination /\ origin[3] = destination[3]
      /\ moved # <<>>
      /\ retargeted(FoldLeft(move, [ok |-> TRUE, added |-> {}, graph |-> [graph EXCEPT
             !.edges = SelectSeq(@, LAMBDA e : ~touches(e))]], moved))

Cut(id, edge) ==
  Edit("disconnect", WithGraph(document,
    [Graph(id) EXCEPT !.edges = SelectSeq(@, LAMBDA e : e # edge)]))

(* A node goes with the edges that touch it.                               *)
WithoutNodes(graph, nodes) ==
  [graph EXCEPT !.nodes = SelectSeq(@, LAMBDA n : n.id \notin nodes),
                !.edges = SelectSeq(@, LAMBDA e : {e.from, e.to} \cap nodes = {})]

RemoveNode(id, node) ==
  Edit("removeNode", WithGraph(document, WithoutNodes(Graph(id), {node})))

WithNode(graph, node) ==
  [graph EXCEPT !.nodes = Append(@, [node EXCEPT !.id = Unused(Ids(graph.nodes))])]

Paste(id, node) == Edit("paste", WithGraph(document, WithNode(Graph(id), node)))

FreshNode(type, version, target, variable) ==
  [id |-> None, type |-> type, version |-> version, target |-> target,
   variable |-> variable, values |-> {}, mode |-> "point", segments |-> NoSegments]

(* A node of the palette dropped from an output or an input, connected to  *)
(* it; here too the rules see no document.                                 *)
InsertConnected(id, type, way, node, port, own) ==
  LET inserted == WithNode(Graph(id), FreshNode(type, registry[type].version, None, None))
      new == Last(inserted.nodes).id
  IN  /\ type \in DOMAIN registry
      /\ Join("insertConnected", inserted, {}, Alone,
              IF way = "output" THEN [from |-> node, out |-> port, to |-> new, in |-> own]
                                ELSE [from |-> new, out |-> own, to |-> node, in |-> port])

(* The arcs of the call graph, as an author would have them.               *)
CallArcs ==
  {<<c.graph, c.target>> : c \in
     {d \in Editor!Calls(document) :
        d.graph = document.entry \/ Graph(d.graph).kind = "function"}}

(* A chain of calls that is too long, without a repetition but at its end. *)
ChainTooLong(arcs) ==
  \E chain \in [1..(MaxFunctionDepth + 2) -> UNION {{arc[1], arc[2]} : arc \in arcs}] :
    /\ \A i \in 1..(MaxFunctionDepth + 1) : <<chain[i], chain[i + 1]>> \in arcs
    /\ \A i, j \in 1..(MaxFunctionDepth + 1) : chain[i] = chain[j] => i = j

InsertCall(id, function) ==
  LET arcs == CallArcs \cup {<<id, function>>}
  IN  /\ Graph(function).kind = "function"
      /\ id \notin Reach(arcs, {function})
      /\ ~ChainTooLong(arcs)
      /\ Edit("insertCall", WithGraph(document,
                        WithNode(Graph(id), FreshNode(FunctionCall, 1, function, None))))

DeleteFunction(function) ==
  LET calls(graph) == {n.id : n \in {m \in Elements(graph.nodes) :
                                        m.type = FunctionCall /\ m.target = function}}
      uncalled == [i \in DOMAIN document.graphs |->
                     WithoutNodes(document.graphs[i], calls(document.graphs[i]))]
  IN  /\ Graph(function).kind = "function"
      /\ Len(document.graphs) > 1 /\ document.entry # function
      /\ Edit("deleteFunction", [document EXCEPT !.graphs =
                SelectSeq(uncalled, LAMBDA g : g.id # function)])

(***************************************************************************)
(* Parameters: a function's inputs or outputs.                             *)
(***************************************************************************)
Parameters(graph, direction) == IF direction = "input" THEN graph.inputs ELSE graph.outputs
WithParameters(graph, direction, parameters) ==
  IF direction = "input" THEN [graph EXCEPT !.inputs = parameters]
                         ELSE [graph EXCEPT !.outputs = parameters]

AddParameter(function, direction, name, type) ==
  LET graph == Graph(function)
      all == Elements(graph.inputs \o graph.outputs)
      id == Unused({q.id : q \in all})
  IN  /\ graph.kind = "function"
      /\ name.lower \notin {q.name.lower : q \in all}
      /\ Edit("addParameter", WithGraph(document, WithParameters(graph, direction,
                Append(Parameters(graph, direction),
                       [id |-> id, port |-> "p" \o ToString(id), name |-> name, type |-> type]))))

(* Edges and literals of a port that goes or changes its type go with it:  *)
(* at the function's own boundary, and at every call of it.                *)
Cleaned(graph, function, direction, port) ==
  LET boundary == IF direction = "input" THEN FunctionInput ELSE FunctionReturn
      inner == IF graph.id # function THEN {}
               ELSE {n.id : n \in {m \in Elements(graph.nodes) : m.type = boundary}}
      outer == {n.id : n \in {m \in Elements(graph.nodes) :
                                m.type = FunctionCall /\ m.target = function}}
      leaving == IF direction = "input" THEN inner ELSE outer
      arriving == IF direction = "input" THEN outer ELSE inner
      stale(e) == /\ e.kind = "data"
                  /\ \/ e.from \in leaving /\ e.out = port
                     \/ e.to \in arriving /\ e.in = port
  IN  [graph EXCEPT
         !.edges = SelectSeq(@, LAMBDA e : ~stale(e)),
         !.nodes = [i \in DOMAIN @ |-> IF @[i].id \in inner \cup outer
                                       THEN [@[i] EXCEPT !.values = @ \ {port}] ELSE @[i]]]

WithSignature(function, direction, port, parameters) ==
  LET cleaned == [i \in DOMAIN document.graphs |->
                    Cleaned(document.graphs[i], function, direction, port)]
  IN  [document EXCEPT !.graphs = [i \in DOMAIN cleaned |->
         IF cleaned[i].id = function
         THEN WithParameters(cleaned[i], direction, parameters) ELSE cleaned[i]]]

RemoveParameter(function, direction, parameter) ==
  /\ Graph(function).kind = "function"
  /\ Edit("removeParameter", WithSignature(function, direction, parameter.port,
            SelectSeq(Parameters(Graph(function), direction), LAMBDA q : q.id # parameter.id)))

RetypeParameter(function, direction, parameter, type) ==
  /\ Graph(function).kind = "function"
  /\ parameter.type # type
  /\ Edit("changeParameter", WithSignature(function, direction, parameter.port,
            [i \in DOMAIN Parameters(Graph(function), direction) |->
               LET q == Parameters(Graph(function), direction)[i]
               IN  IF q = parameter THEN [q EXCEPT !.type = type] ELSE q]))

(***************************************************************************)
(* Variables belong to the project: changing them leaves every graph the   *)
(* object it was.                                                          *)
(***************************************************************************)
Referenced(variable) ==
  \E g \in Elements(document.graphs) : \E n \in Elements(g.nodes) : n.variable = variable

(* validateVariableDefinitions, of which identifiers and names matter.     *)
Acceptable(variables) ==
  \A i, j \in DOMAIN variables :
    variables[i].id = variables[j].id \/ variables[i].name.lower = variables[j].name.lower
      => i = j

SetVariables(variables) ==
  /\ Acceptable(variables)
  /\ Edit("setVariables", [document EXCEPT !.variables = variables])

CreateVariable(variable) == SetVariables(Append(document.variables, variable))

(* Mutant: nodes may still read the variable.                              *)
DeleteReferencedVariable(variable) ==
  SetVariables(SelectSeq(document.variables, LAMBDA v : v # variable))
DeleteVariable(variable) ==
  /\ ~Referenced(variable.id)
  /\ SetVariables(SelectSeq(document.variables, LAMBDA v : v # variable))

RetypeVariable(variable, type) ==
  /\ variable.type # type
  /\ ~Referenced(variable.id)
  /\ SetVariables([i \in DOMAIN document.variables |->
       IF document.variables[i] = variable
       THEN [variable EXCEPT !.type = type] ELSE document.variables[i]])

RenameVariable(variable, name) ==
  /\ variable.name # name
  /\ SetVariables([i \in DOMAIN document.variables |->
       IF document.variables[i] = variable
       THEN [variable EXCEPT !.name = name] ELSE document.variables[i]])

InsertVariableNode(id, variable, type) ==
  /\ VariableKind[type] = variable.type
  /\ Edit("insertVariableNode", WithGraph(document,
       WithNode(Graph(id), FreshNode(type, 1, None, variable.id))))

(***************************************************************************)
(* The specification.                                                      *)
(***************************************************************************)
Next ==
  \/ Render
  \/ Undo
  \/ \E d \in Stored : OpenDocument(d)
  \/ \E r \in Registries : RegistryArrives(r)
  \/ RegistryLost
  \/ \E id \in Ids(document.graphs) :
       \/ \E c \in Candidates(Graph(id)) :
            \/ Draw(id, c)
            \/ \E e \in Elements(Graph(id).edges) : Reconnect(id, e, c)
       \/ \E a, b \in Ids(Graph(id).nodes), way \in {"output", "input"} :
            \E p \in PortsOf(Graph(id), a), q \in PortsOf(Graph(id), b) :
              Retarget(id, <<a, p, way>>, <<b, q, way>>)
       \/ \E e \in Elements(Graph(id).edges) : Cut(id, e)
       \/ \E n \in Ids(Graph(id).nodes) : RemoveNode(id, n)
       \/ \E n \in NodePool : Paste(id, n)
       \/ \E n \in Ids(Graph(id).nodes), type \in Insertable, way \in {"output", "input"} :
            \E p \in PortsOf(Graph(id), n), q \in DOMAIN Editor!Registered(registry, type).ports :
              InsertConnected(id, type, way, n, p, q)
       \/ \E f \in Ids(document.graphs) : InsertCall(id, f)
       \/ DeleteFunction(id)
       \/ \E way \in {"input", "output"} :
            \/ \E type \in ParameterTypes :
                 AddParameter(id, way, [lower |-> "new", folded |-> "new"], type)
            \/ \E q \in Elements(Parameters(Graph(id), way)) :
                 \/ RemoveParameter(id, way, q)
                 \/ \E type \in ParameterTypes : RetypeParameter(id, way, q, type)
       \/ \E v \in Elements(document.variables), type \in DOMAIN VariableKind :
            InsertVariableNode(id, v, type)
  \/ \E v \in VariablePool : CreateVariable(v)
  \/ \E v \in Elements(document.variables) :
       \/ DeleteVariable(v)
       \/ \E type \in {"number", "string"} : RetypeVariable(v, type)
       \/ \E name \in NewNames : RenameVariable(v, name)

Spec == Init /\ [][Next]_vars

(***************************************************************************)
(* Properties.                                                             *)
(***************************************************************************)
Drawn == unrendered = 0 /\ shown # Nothing

(* Every state is well formed: the panel shows nothing unless there were a *)
(* document and a registry to show problems of, and the cache holds the    *)
(* graphs of the document that was validated last, none that is gone.      *)
TypeOK ==
  /\ unrendered \in 0..MaxUnrendered
  /\ Len(past) <= MaxPast
  /\ registry \in Registries \cup {NoRegistry}
  /\ document = NoDocument => past = <<>> /\ cache.entries = <<>>
  /\ shown # Nothing => shown.registry # NoRegistry /\ shown.document # NoDocument
  /\ \A id \in DOMAIN cache.entries : cache.entries[id].source.id = id
  /\ Drawn => DOMAIN cache.entries = Ids(document.graphs)

(* The panel is right: whatever was edited, undone, opened or sent by the  *)
(* runtime before, and whatever was taken over from the cache, it shows    *)
(* what a full pass over the open document finds.  Reuse looks at no       *)
(* variable, so this also says that no edit of a variable changes what a   *)
(* graph it leaves alone means.  Every state is well formed besides.       *)
ProblemsAreCurrent ==
  /\ TypeOK
  /\ Drawn => /\ shown.document = document /\ shown.registry = registry
              /\ shown.diagnostics = Editor!Validate(document, registry)

(* Where the two validators are known to differ: names that are one to the *)
(* runtime and two to the editor, variables of two types with the same     *)
(* identifier, nodes of another version than the registered one, and log   *)
(* messages whose segments are not what the inspector makes of them.       *)
Comparable(d) ==
  LET names == {v.name : v \in Elements(d.variables)}
               \cup UNION {{q.name : q \in Elements(g.inputs \o g.outputs)} :
                             g \in Elements(d.graphs)}
      nodes == UNION {Elements(g.nodes) : g \in Elements(d.graphs)}
  IN  /\ \A m, n \in names : m.folded = n.folded => m.lower = n.lower
      /\ \A v, w \in Elements(d.variables) : v.id = w.id => v.type = w.type
      /\ \A n \in nodes :
           /\ n.version = IF n.type \in DOMAIN registry THEN registry[n.type].version ELSE 1
           /\ n.segments # <<>>
           /\ n.segments = NoSegments \/ Elements(n.segments) \subseteq {"text", "number"}

(* The editor and the runtime, two programs, agree on every problem of     *)
(* such a document: what the panel says is executable the runtime runs,    *)
(* and what it refuses is what the panel shows.                            *)
ValidatorsAgree ==
  Drawn /\ Comparable(document) => shown.diagnostics = Runtime!Validate(document, registry)

(***************************************************************************)
(* What the searches of the validator are for, said without a search.      *)
(***************************************************************************)
(* A path of at least one arc.                                             *)
Connects(arcs, a, b) ==
  LET nodes == {arc[1] : arc \in arcs} \cup {arc[2] : arc \in arcs}
      connections == ConnectionsIn([node |-> nodes, edge |-> arcs])
  IN  \E c \in nodes : <<a, c>> \in arcs /\ b \in nodes /\ connections[c, b]

Found(code) == {d[2] : d \in {e \in shown.diagnostics : e[1] = code}}

CyclesAreFound(graph) ==
  LET pure == {n \in Ids(graph.nodes) :
                 Editor!Definition(ById(graph.nodes)[n], graph, document, registry).kind = "pure"}
      arcs == {<<e.from, e.to>> : e \in {d \in Elements(graph.edges) :
                 d.kind = "data" /\ {d.from, d.to} \subseteq pure}}
  IN  (\E n \in pure : Connects(arcs, n, n))
      <=> \E n \in pure : <<"node", graph.id, n>> \in Found("GRAPH_PURE_DATA_CYCLE")

SecondParallelsAreFound(graph) ==
  LET arcs == Editor!ExecutionArcs(graph, document, registry)
      nodes == ById(graph.nodes)
      parallels == {n \in DOMAIN nodes : nodes[n].type = Parallel}
      entries == {n \in DOMAIN nodes :
                    Editor!Definition(nodes[n], graph, document, registry).kind = "entry"}
  IN  \A n \in parallels :
        <<"node", graph.id, n>> \in Found("GRAPH_MULTIPLE_PARALLEL_ON_PATH")
        <=> \E e \in entries, m \in parallels : Connects(arcs, e, m) /\ Connects(arcs, m, n)

CallsAreFound ==
  LET calls == Editor!Calls(document)
      arcs == {<<c.graph, c.target>> : c \in calls}
      place(c) == <<"node", c.graph, c.node>>
      chains == {chain \in [1..(MaxFunctionDepth + 1) -> calls] :
                   /\ chain[1].graph = document.entry
                   /\ \A i \in 1..MaxFunctionDepth : chain[i].target = chain[i + 1].graph}
  IN  /\ \A c \in calls : place(c) \in Found("FUNCTION_RECURSION_FORBIDDEN")
                          <=> Connects(arcs, c.target, c.graph) \/ c.target = c.graph
      /\ Found("FUNCTION_RECURSION_FORBIDDEN") = {} =>
           Found("FUNCTION_CALL_DEPTH_EXCEEDED")
             = {place(chain[MaxFunctionDepth + 1]) : chain \in chains}

(* The searches are exact: a cycle of pure nodes, a parallel node after    *)
(* another on a path from an entry, a recursion and a chain of calls that  *)
(* is too deep are reported if there is one, and only then.                *)
SearchesAreExact ==
  Drawn /\ Distinct =>
    /\ CallsAreFound
    /\ \A g \in Elements(document.graphs) : CyclesAreFound(g) /\ SecondParallelsAreFound(g)

(* A gesture the editor has checked does not break the document: drawing,  *)
(* moving or dropping a connection, calling a function, taking away or     *)
(* retyping a parameter with its edges, and deleting a function with its   *)
(* calls bring no new kind of error, except that an input may be left      *)
(* without a value.                                                        *)
Checked == {"connect", "reconnectEdge", "retargetPortConnections", "insertConnected",
            "insertCall", "removeParameter", "changeParameter", "deleteFunction"}
Codes(d) == {problem[1] : problem \in Editor!Validate(d, registry)}
CheckedEditsBreakNothing ==
  [][ Len(past') > Len(past) /\ Last(past').label \in Checked /\ registry # NoRegistry
      => Codes(document') \ Codes(document)
           \subseteq {"NODE_REQUIRED_INPUT_MISSING"} \cup Warnings ]_vars
=============================================================================
