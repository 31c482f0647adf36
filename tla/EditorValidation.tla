--------------------------- MODULE EditorValidation ---------------------------
(***************************************************************************)
(* The editor's validator (apps/desktop/src/graph/validate-graph.ts) with  *)
(* the definitions it resolves (function-node-semantics.ts,                *)
(* node-registry-index.ts, type-compatibility.ts), and the rules a drawn   *)
(* connection has to meet (connection-rules.ts).  Capabilities are left    *)
(* out: the editor never passes any.                                       *)
(***************************************************************************)
EXTENDS GraphVocabulary

(***************************************************************************)
(* Types and ports.                                                        *)
(***************************************************************************)
RECURSIVE IsAssignable(_, _)
IsAssignable(source, target) ==
  IF Exec \in {source, target} THEN source = target
  ELSE IF target[1] = "optional"
       THEN IsAssignable(IF source[1] = "optional" THEN source[2] ELSE source, target[2])
  ELSE IF source[1] = "collection" /\ target[1] = "collection"
       THEN IsAssignable(source[2], target[2])
  ELSE source[1] # "optional" /\ source = target

SingleConnection(port) ==
  IF port.kind = "data" THEN port.direction = "input"
                        ELSE port.direction = "output" /\ ~port.fanOut

FunctionPort(direction, kind, type, required, literal) ==
  [direction |-> direction, kind |-> kind, type |-> type, required |-> required,
   literal |-> literal, fanOut |-> FALSE]

RunPort == "run" :> FunctionPort("input", "execution", Exec, FALSE, FALSE)
NextPort == "next" :> FunctionPort("output", "execution", Exec, FALSE, FALSE)

(* Of several parameters with the same port the first counts, and none     *)
(* takes the place of an execution port.                                   *)
ParameterPorts(parameters, Port(_)) ==
  [p \in {q.port : q \in Elements(parameters)} \ {"run", "next"} |->
     Port(parameters[CHOOSE i \in DOMAIN parameters :
            parameters[i].port = p /\ \A j \in 1..(i - 1) : parameters[j].port # p])]
InputParameters(parameters, literals) ==
  ParameterPorts(parameters, LAMBDA q :
    FunctionPort("input", "data", <<q.type>>, TRUE,
                 literals /\ q.type \in {"bool", "number", "string"}))
OutputParameters(parameters) ==
  ParameterPorts(parameters, LAMBDA q : FunctionPort("output", "data", <<q.type>>, FALSE, FALSE))

FunctionDefinition(node, graph, document) ==
  LET defined(kind, ports) ==
        [version |-> 1, kind |-> kind, deprecated |-> FALSE, ports |-> ports]
      target == First(document.graphs, node.target)
      known == node.target \in Ids(document.graphs) /\ target.kind = "function"
  IN  CASE node.type = FunctionInput ->
             defined("entry", NextPort @@ OutputParameters(graph.inputs))
        [] node.type = FunctionReturn ->
             defined("execution", RunPort @@ InputParameters(graph.outputs, FALSE))
        [] node.type = FunctionCall /\ ~known ->
             defined("execution", RunPort @@ NextPort)
        [] OTHER ->
             defined("execution", RunPort @@ NextPort @@ InputParameters(target.inputs, TRUE)
                                  @@ OutputParameters(target.outputs))

Registered(registry, type) == IF type \in DOMAIN registry THEN registry[type] ELSE Unknown
Definition(node, graph, document, registry) ==
  IF node.type \in FunctionNodes THEN FunctionDefinition(node, graph, document)
                                 ELSE Registered(registry, node.type)

(***************************************************************************)
(* Document structure.                                                     *)
(***************************************************************************)
FunctionSemantics(document, graph) ==
  LET here == <<"graph", graph.id>>
      parameters == graph.inputs \o graph.outputs
      repeats(sequence, Key(_)) == Repeated(sequence, Key) # {}
  IN  Report("GRAPH_ENTRY_KIND_INVALID", here,
             graph.id = document.entry /\ graph.kind # "entry")
      \cup Report("GRAPH_NON_ENTRY_KIND_INVALID", here,
             graph.id # document.entry /\ graph.kind # "function")
      \cup (IF graph.kind # "function" THEN {} ELSE
             Report("FUNCTION_DUPLICATE_PARAMETER_ID", here,
                    repeats(parameters, LAMBDA q : q.id))
             \cup Report("FUNCTION_DUPLICATE_PORT_ID", here,
                    repeats(parameters, LAMBDA q : q.port))
             \cup Report("FUNCTION_DUPLICATE_PARAMETER_NAME", here,
                    \/ repeats(graph.inputs, LAMBDA q : q.name.lower)
                    \/ repeats(graph.outputs, LAMBDA q : q.name.lower))
             \cup Report("FUNCTION_PARAMETER_PORT_RESERVED", here,
                    \E q \in Elements(parameters) : q.port \in {"run", "next"})
             \cup {<<"FUNCTION_PARALLEL_FORBIDDEN", <<"node", graph.id, n.id>>>> :
                    n \in {m \in Elements(graph.nodes) : m.type = Parallel}})

(* A call that names a function of the document.                           *)
Calls(document) ==
  {c \in UNION {{[graph |-> g.id, node |-> n.id, target |-> n.target] :
                   n \in {m \in Elements(g.nodes) : m.type = FunctionCall}} :
                g \in Elements(document.graphs)} :
     /\ c.target \in Ids(document.graphs)
     /\ ById(document.graphs)[c.target].kind = "function"}

Recursive(calls) ==
  LET arcs == {<<c.graph, c.target>> : c \in calls}
  IN  {c \in calls : c.graph \in Reach(arcs, {c.target})}

(* visitDepth: the graphs that a chain of so many calls leads to from the  *)
(* entry graph, and the calls that would be one too deep.                  *)
TooDeep(document, calls) ==
  LET layer[depth \in 0..MaxFunctionDepth] ==
        IF depth = 0 THEN {document.entry}
        ELSE {c.target : c \in {d \in calls : d.graph \in layer[depth - 1]}}
  IN  IF document.entry \notin Ids(document.graphs) THEN {}
      ELSE {c \in calls : c.graph \in layer[MaxFunctionDepth]}

FunctionNodeSemantics(document) ==
  LET calls == Calls(document)
      recursive == Recursive(calls)
      at(code, c) == <<code, <<"node", c.graph, c.node>>>>
      ofType(graph, types) == {n \in Elements(graph.nodes) : n.type \in types}
      boundary(graph) ==
        LET here == <<"graph", graph.id>>
            inputs == Cardinality({i \in DOMAIN graph.nodes : graph.nodes[i].type = FunctionInput})
        IN  IF graph.kind = "function"
            THEN Report("FUNCTION_ENTRY_NODE_MISSING", here, inputs = 0)
                 \cup Report("FUNCTION_MULTIPLE_ENTRY_NODES", here, inputs > 1)
                 \cup Report("FUNCTION_RETURN_NODE_MISSING", here,
                             ofType(graph, {FunctionReturn}) = {})
            ELSE {<<"FUNCTION_NODE_OUTSIDE_FUNCTION", <<"node", graph.id, n.id>>>> :
                    n \in ofType(graph, {FunctionInput, FunctionReturn})}
      targets(graph) ==
        UNION {LET here == <<"node", graph.id, n.id>>
                   known == n.target \in Ids(document.graphs)
               IN  Report("FUNCTION_CALL_TARGET_MISSING", here, ~known)
                   \cup Report("FUNCTION_CALL_TARGET_NOT_FUNCTION", here,
                          known /\ ById(document.graphs)[n.target].kind # "function") :
               n \in ofType(graph, {FunctionCall})}
  IN  UNION {boundary(g) \cup targets(g) : g \in Elements(document.graphs)}
      \cup {at("FUNCTION_RECURSION_FORBIDDEN", c) : c \in recursive}
      \cup {at("FUNCTION_CALL_DEPTH_EXCEEDED", c) : c \in TooDeep(document, calls \ recursive)}

ProjectVariables(document) ==
  LET repeats(Key(_)) == Repeated(document.variables, Key) # {}
  IN  Report("GRAPH_DUPLICATE_VARIABLE_ID", <<"document">>, repeats(LAMBDA v : v.id))
      \cup Report("GRAPH_DUPLICATE_VARIABLE_NAME", <<"document">>,
                  repeats(LAMBDA v : v.name.lower))
      \cup Report("GRAPH_VARIABLE_PERSISTENCE_UNSUPPORTED", <<"document">>,
                  \E v \in Elements(document.variables) : v.type = "imageRef" /\ v.persistent)

Structure(document) ==
  {<<"GRAPH_DUPLICATE_GRAPH_ID", <<"graph", g.id>>>> :
     g \in Repeated(document.graphs, LAMBDA g : g.id)}
  \cup Report("GRAPH_ENTRY_GRAPH_MISSING", <<"document">>,
              document.entry \notin Ids(document.graphs))
  \cup UNION {FunctionSemantics(document, g) : g \in Elements(document.graphs)}
  \cup FunctionNodeSemantics(document)
  \cup ProjectVariables(document)
  \cup {<<"DOCUMENT_DUPLICATE_ASSET_ID", <<"asset", a.id>>>> :
          a \in Repeated(document.assets, LAMBDA a : a.id)}
  \cup {<<"DOCUMENT_DUPLICATE_ASSET_NAME", <<"asset", a.id>>>> :
          a \in Repeated(document.assets, LAMBDA a : a.name.lower)}

(***************************************************************************)
(* One graph.                                                              *)
(***************************************************************************)
InputValues(graph, node, definition) ==
  UNION {LET here == <<"port", graph.id, node.id, p>>
             port == definition.ports[p]
         IN  IF ~HasPort(definition, p) THEN {<<"NODE_INPUT_VALUE_UNKNOWN_PORT", here>>}
             ELSE Report("NODE_INPUT_VALUE_NOT_ACCEPTED", here,
                    ~(port.direction = "input" /\ port.kind = "data" /\ port.literal)) :
         p \in node.values}

VariableReference(graph, node, document) ==
  LET here == <<"node", graph.id, node.id>>
      variable == First(document.variables, node.variable)
  IN  IF node.type \notin DOMAIN VariableKind \/ node.variable = None THEN {}
      ELSE IF node.variable \notin Ids(document.variables)
           THEN {<<"NODE_VARIABLE_UNKNOWN", here>>}
      ELSE Report("NODE_VARIABLE_TYPE_MISMATCH", here, variable.type # VariableKind[node.type])

Described(graph, node, document, definition) ==
  LET here == <<"node", graph.id, node.id>>
  IN  IF definition.kind = "unknown" THEN {<<"NODE_TYPE_UNKNOWN", here>>}
      ELSE Report("NODE_TYPE_VERSION_UNSUPPORTED", here, node.version > definition.version)
           \cup Report("NODE_TYPE_DEPRECATED", here, definition.deprecated)
           \cup InputValues(graph, node, definition)
           \cup VariableReference(graph, node, document)
NodeProblems(graph, node, document, registry) ==
  Described(graph, node, document, Definition(node, graph, document, registry))

(* The definitions at the two ends of an edge.                             *)
Ends(graph, edge, document, registry) ==
  LET nodes == ById(graph.nodes)
      at(n) == IF n \in DOMAIN nodes THEN Definition(nodes[n], graph, document, registry)
                                     ELSE Unknown
  IN  [source |-> at(edge.from), target |-> at(edge.to)]

(* The first objections to an edge between such ends.                      *)
Objections(graph, edge, ends) ==
  LET here == <<"edge", graph.id, edge.id>>
      source == ends.source.ports[edge.out]
      target == ends.target.ports[edge.in]
  IN  CASE edge.from = edge.to -> {<<"EDGE_SELF_CONNECTION", here>>}
        [] ~({edge.from, edge.to} \subseteq Ids(graph.nodes)) ->
             Report("EDGE_SOURCE_NODE_MISSING", here, edge.from \notin Ids(graph.nodes))
             \cup Report("EDGE_TARGET_NODE_MISSING", here, edge.to \notin Ids(graph.nodes))
        [] ~(HasPort(ends.source, edge.out) /\ HasPort(ends.target, edge.in)) ->
             Report("EDGE_SOURCE_PORT_MISSING", here, ~HasPort(ends.source, edge.out))
             \cup Report("EDGE_TARGET_PORT_MISSING", here, ~HasPort(ends.target, edge.in))
        [] source.direction # "output" \/ target.direction # "input" ->
             {<<"EDGE_DIRECTION_INVALID", here>>}
        [] source.kind # target.kind \/ source.kind # edge.kind ->
             {<<"EDGE_KIND_MISMATCH", here>>}
        [] OTHER ->
             Report("EDGE_TYPE_INCOMPATIBLE", here, ~IsAssignable(source.type, target.type))

(* An earlier edge takes the place of this one at a port that has only one. *)
Crowds(earlier, edge, ends) ==
  \/ /\ <<earlier.from, earlier.out>> = <<edge.from, edge.out>>
     /\ SingleConnection(ends.source.ports[edge.out])
  \/ /\ <<earlier.to, earlier.in>> = <<edge.to, edge.in>>
     /\ SingleConnection(ends.target.ports[edge.in])

(* An edge without an objection counts as a connection of its two ports.   *)
Counted(graph, ends) ==
  LET objections == [i \in DOMAIN ends |-> Objections(graph, graph.edges[i], ends[i])]
      sound == {i \in DOMAIN ends : objections[i] = {}}
  IN  UNION Elements(objections)
      \cup {<<"EDGE_CARDINALITY_EXCEEDED", <<"edge", graph.id, graph.edges[i].id>>>> :
              i \in {k \in sound : \E j \in sound :
                       j < k /\ Crowds(graph.edges[j], graph.edges[k], ends[k])}}
EdgeProblems(graph, document, registry) ==
  Counted(graph, [i \in DOMAIN graph.edges |-> Ends(graph, graph.edges[i], document, registry)])

(* isValidExecutionEdge, as arcs between nodes.                            *)
ExecutionArcs(graph, document, registry) ==
  {<<e.from, e.to>> : e \in {d \in Elements(graph.edges) :
     /\ d.kind = "execution"
     /\ Objections(graph, d, Ends(graph, d, document, registry)) = {}}}

(* The parallel nodes that a path from an entry node reaches after another *)
(* parallel node: the walk remembers whether it has met one.               *)
SecondParallels(graph, document, registry) ==
  LET nodes == ById(graph.nodes)
      parallel(n) == nodes[n].type = Parallel
      entries == {n \in DOMAIN nodes :
                    Definition(nodes[n], graph, document, registry).kind = "entry"}
      steps == {<< <<arc[1], seen>>, <<arc[2], seen \/ parallel(arc[1])>> >> :
                  arc \in ExecutionArcs(graph, document, registry), seen \in BOOLEAN}
      walked == Reach(steps, {<<n, FALSE>> : n \in entries})
  IN  {n \in DOMAIN nodes : parallel(n) /\ <<n, TRUE>> \in walked}

EntryNodes(graph, registry) ==
  LET nodes == ById(graph.nodes)
      entries == SelectSeq(Order(graph.nodes),
                           LAMBDA n : Registered(registry, nodes[n].type).kind = "entry")
  IN  IF graph.kind = "function" \/ graph.nodes = <<>> THEN {}
      ELSE Report("GRAPH_ENTRY_NODE_MISSING", <<"graph", graph.id>>, entries = <<>>)
           \cup {<<"GRAPH_MULTIPLE_ENTRY_NODES", <<"node", graph.id, entries[i]>>>> :
                   i \in {k \in DOMAIN entries : k > 1}}

ClickPorts(mode) ==
  CASE mode = "coordinates" -> {"image", "x", "y", "referenceWidth", "referenceHeight"}
    [] mode \in {"randomPoints", "sequentialPoints"} -> {"points"}
    [] mode \in {"rectCenter", "rectRandom"} -> {"rect"}
    [] OTHER -> {"point"}

(* Segments count only when there are some and all are text or number.     *)
LogPorts(segments) ==
  IF segments = <<>> \/ ~(Elements(segments) \subseteq {"text", "number"})
  THEN {"message"} ELSE {PartPort[segments[i]][i] : i \in DOMAIN segments}

(* The inputs a node needs, has, and is not given.                         *)
MissingInputs(node, ports, fed) ==
  LET required == {p \in DOMAIN ports : ports[p].required}
                  \cup (IF node.type = ClickPoint THEN ClickPorts(node.mode) ELSE {})
                  \cup (IF node.type = Log THEN LogPorts(node.segments) ELSE {})
  IN  {p \in required \cap DOMAIN ports :
         /\ ports[p].direction = "input" /\ ports[p].kind = "data"
         /\ <<node.id, p>> \notin fed
         /\ p \notin node.values}

RequiredInputs(graph, document, registry) ==
  LET nodes == ById(graph.nodes)
      fed == {<<e.to, e.in>> : e \in Elements(graph.edges)}
      missing(node) ==
        MissingInputs(node, Definition(node, graph, document, registry).ports, fed)
  IN  UNION {{<<"NODE_REQUIRED_INPUT_MISSING", <<"port", graph.id, n, p>>>> :
                p \in missing(nodes[n])} : n \in DOMAIN nodes}

(* The depth-first search for cycles, from each node in order: a node met  *)
(* while its own dependencies are being visited is reported.               *)
RECURSIVE VisitForgetful(_, _, _)
(* Mutant: a node that has been left counts as being visited.              *)
VisitForgetful(dependencies, n, search) ==
  CASE n \in search.visiting -> [search EXCEPT !.reported = @ \cup {n}]
    [] OTHER -> FoldLeft(LAMBDA found, d : VisitForgetful(dependencies, d, found),
                         [search EXCEPT !.visiting = @ \cup {n}], dependencies[n])
RECURSIVE Visit(_, _, _)
Visit(dependencies, n, search) ==
  CASE n \in search.settled -> search
    [] n \in search.visiting -> [search EXCEPT !.reported = @ \cup {n}]
    [] OTHER ->
         LET below == FoldLeft(LAMBDA found, d : Visit(dependencies, d, found),
                               [search EXCEPT !.visiting = @ \cup {n}], dependencies[n])
         IN  [below EXCEPT !.visiting = @ \ {n}, !.settled = @ \cup {n}]

PureDataCycles(graph, registry) ==
  LET nodes == ById(graph.nodes)
      pure(n) == n \in DOMAIN nodes /\ Registered(registry, nodes[n].type).kind = "pure"
      dependencies == [n \in DOMAIN nodes |->
        LET incoming == SelectSeq(graph.edges, LAMBDA e :
                          e.kind = "data" /\ e.to = n /\ pure(e.from))
        IN  [i \in DOMAIN incoming |-> incoming[i].from]]
      nothing == [visiting |-> {}, settled |-> {}, reported |-> {}]
  IN  FoldLeft(LAMBDA found, n : Visit(dependencies, n, found),
               nothing, Order(graph.nodes)).reported

GraphProblems(graph, document, registry) ==
  {<<"GRAPH_DUPLICATE_NODE_ID", <<"node", graph.id, n.id>>>> :
     n \in Repeated(graph.nodes, LAMBDA n : n.id)}
  \cup {<<"GRAPH_DUPLICATE_EDGE_ID", <<"edge", graph.id, e.id>>>> :
          e \in Repeated(graph.edges, LAMBDA e : e.id)}
  \cup UNION {NodeProblems(graph, n, document, registry) : n \in Elements(graph.nodes)}
  \cup EdgeProblems(graph, document, registry)
  \cup {<<"GRAPH_MULTIPLE_PARALLEL_ON_PATH", <<"node", graph.id, n>>>> :
          n \in SecondParallels(graph, document, registry)}
  \cup EntryNodes(graph, registry)
  \cup RequiredInputs(graph, document, registry)
  \cup {<<"GRAPH_PURE_DATA_CYCLE", <<"node", graph.id, n>>>> :
          n \in PureDataCycles(graph, registry)}

(* validateProjectDocument: a full pass.                                   *)
Validate(document, registry) ==
  Structure(document)
  \cup UNION {GraphProblems(g, document, registry) : g \in Elements(document.graphs)}

(***************************************************************************)
(* Drawing a connection.  A candidate has the ends of an edge.             *)
(***************************************************************************)
Rejected == [accepted |-> FALSE]

(* Mutant: only the nodes it is connected to.                              *)
PureParents(graph, document, registry, n) ==
  LET nodes == ById(graph.nodes)
      pure(m) == m \in DOMAIN nodes
                 /\ Definition(nodes[m], graph, document, registry).kind = "pure"
  IN  {n} \cup {e.from : e \in {d \in Elements(graph.edges) :
                                d.kind = "data" /\ d.to = n /\ pure(d.from)}}
(* The pure nodes whose values a node depends on, itself included.         *)
PureAncestors(graph, document, registry, n) ==
  LET nodes == ById(graph.nodes)
      pure(m) == m \in DOMAIN nodes
                 /\ Definition(nodes[m], graph, document, registry).kind = "pure"
      arcs == {<<e.to, e.from>> : e \in {d \in Elements(graph.edges) :
                                           d.kind = "data" /\ pure(d.from)}}
  IN  IF pure(n) THEN Reach(arcs, {n}) ELSE {}

(* The edges that make room at a port that takes a single connection.      *)
Displaced(graph, candidate, source, target) ==
  {e.id : e \in {d \in Elements(graph.edges) :
     \/ /\ <<d.from, d.out>> = <<candidate.from, candidate.out>>
        /\ SingleConnection(source)
     \/ /\ <<d.to, d.in>> = <<candidate.to, candidate.in>>
        /\ SingleConnection(target)}}

WithEdge(graph, replaces, edge) ==
  [graph EXCEPT !.edges = Append(SelectSeq(@, LAMBDA e : e.id \notin replaces), edge)]

(* What the two ports and the edges that are there say of it.              *)
PortsRefuse(graph, candidate, ends, source, target) ==
  \/ candidate.from = candidate.to
  \/ ~(HasPort(ends.source, candidate.out) /\ HasPort(ends.target, candidate.in))
  \/ source.direction # "output" \/ target.direction # "input"
  \/ source.kind # target.kind
  \/ ~IsAssignable(source.type, target.type)
  \/ \E e \in Elements(graph.edges) :
       <<e.from, e.out, e.to, e.in>>
         = <<candidate.from, candidate.out, candidate.to, candidate.in>>

EvaluateConnection(graph, document, registry, candidate) ==
  LET joined == [kind |-> "execution", id |-> None] @@ candidate
      parallels(g) == SecondParallels(g, document, registry)
      loops == candidate.to \in PureAncestors(graph, document, registry, candidate.from)
      evaluate(ends, source, target, kind, replaces) ==
        IF \/ PortsRefuse(graph, candidate, ends, source, target)
           \/ kind = "data" /\ loops
           \/ /\ kind = "execution"
              /\ ~(parallels(WithEdge(graph, replaces, joined)) \subseteq parallels(graph))
        THEN Rejected
        ELSE [accepted |-> TRUE, kind |-> kind, replaces |-> replaces]
      between(ends, source, target) ==
        evaluate(ends, source, target, IF source.type = Exec THEN "execution" ELSE "data",
                 Displaced(graph, candidate, source, target))
      joining(ends) == between(ends, ends.source.ports[candidate.out],
                                     ends.target.ports[candidate.in])
  IN  joining(Ends(graph, joined, document, registry))
=============================================================================
