------------------------ MODULE MCIncrementalValidation ------------------------
(* Small projects, one for each part of the validators, and two registries. *)
EXTENDS IncrementalValidation

Port(direction, kind, type, required, literal, fanOut) ==
  [direction |-> direction, kind |-> kind, type |-> type, required |-> required,
   literal |-> literal, fanOut |-> fanOut]
In == Port("input", "execution", Exec, FALSE, FALSE, FALSE)
Out == Port("output", "execution", Exec, FALSE, FALSE, FALSE)
Each == Port("output", "execution", Exec, FALSE, FALSE, TRUE)
Takes(type, required) == Port("input", "data", type, required, TRUE, FALSE)
Gives(type) == Port("output", "data", type, FALSE, FALSE, FALSE)

Type(kind, ports) == [version |-> 1, kind |-> kind, deprecated |-> FALSE, ports |-> ports]
Number == <<"number">>
String == <<"string">>

NewRegistry ==
  ("start" :> Type("entry", "next" :> Out)) @@
  (Parallel :> Type("execution", ("run" :> In) @@ ("each" :> Each))) @@
  ("add" :> Type("pure", ("a" :> Takes(Number, FALSE)) @@ ("sum" :> Gives(Number)))) @@
  ("core.variable.getNumber" :> Type("pure", "value" :> Gives(Number))) @@
  (ClickPoint :> Type("execution", ("run" :> In) @@ ("x" :> Takes(Number, FALSE)))) @@
  (Log :> Type("execution", ("run" :> In) @@ ("message" :> Takes(<<"optional", String>>, FALSE))
                            @@ ("numberPart2" :> Takes(Number, FALSE))))
(* The older runtime lacks one type, and has not yet deprecated another.    *)
OldRegistry == [t \in DOMAIN NewRegistry \ {"add"} |->
                  IF t = "start" THEN [NewRegistry[t] EXCEPT !.deprecated = TRUE] ELSE NewRegistry[t]]

N(id, type) == [FreshNode(type, 1, None, None) EXCEPT !.id = id]
Call(id, function) == [N(id, FunctionCall) EXCEPT !.target = function]
Get(id, variable) == [N(id, "core.variable.getNumber") EXCEPT !.variable = variable]
E(id, from, out, to, in) ==
  [id |-> id, kind |-> IF out \in {"next", "each"} THEN "execution" ELSE "data",
   from |-> from, out |-> out, to |-> to, in |-> in]
Named(text) == [lower |-> text, folded |-> text]
Parameter(id, port, name, type) == [id |-> id, port |-> port, name |-> Named(name), type |-> type]
Variable(id, name, type) ==
  [id |-> id, name |-> name, type |-> type, persistent |-> FALSE]

Function(id, inputs, outputs, nodes, edges) ==
  [id |-> id, kind |-> "function", inputs |-> inputs, outputs |-> outputs,
   nodes |-> nodes, edges |-> edges]
Main(id, nodes, edges) ==
  [id |-> id, kind |-> "entry", inputs |-> <<>>, outputs |-> <<>>, nodes |-> nodes, edges |-> edges]
Project(graphs, variables) ==
  [entry |-> graphs[1].id, graphs |-> graphs, variables |-> variables, assets |-> <<>>]

Count == Variable(1, Named("count"), "number")

(* Data: a chain of three pure nodes, which an edge more would close.       *)
Sums == Project(<< Main(11, <<N(1, "start"), N(2, "add"), N(3, "add"), N(4, "add")>>,
                        <<E(1, 2, "sum", 3, "a"), E(2, 3, "sum", 4, "a")>>) >>, <<>>)
(* Execution: two parallel nodes that no path joins yet.                   *)
Branches == Project(<< Main(21, <<N(1, "start"), N(2, Parallel), N(3, Parallel), N(4, Log)>>,
                            <<E(1, 1, "next", 2, "run"), E(2, 3, "each", 4, "run")>>) >>, <<>>)
(* A function with a parameter, called with a value and with a literal.    *)
Calling ==
  Project(<< Main(31, <<N(1, "start"), [Call(2, 32) EXCEPT !.values = {"p1"}], Get(3, 1)>>,
                  <<E(1, 1, "next", 2, "run")>>),
             Function(32, <<Parameter(1, "p1", "left", "number")>>,
                      <<Parameter(2, "p2", "right", "number")>>,
                      <<N(1, FunctionInput), N(2, FunctionReturn)>>,
                      <<E(1, 1, "next", 2, "run"), E(2, 1, "p1", 2, "p2")>>),
             Function(33, <<>>, <<>>, <<N(1, FunctionInput), N(2, FunctionReturn)>>, <<>>) >>,
          <<Count>>)
(* Functions that call each other, as deep as they may.                    *)
Deep == Project(<< Main(41, <<N(1, "start"), Call(2, 42)>>, <<>>),
                   Function(42, <<>>, <<>>,
                            <<N(1, FunctionInput), N(2, FunctionReturn), Call(3, 43)>>, <<>>),
                   Function(43, <<>>, <<>>, <<N(1, FunctionInput), N(2, FunctionReturn)>>, <<>>),
                   Function(44, <<>>, <<>>, <<N(1, FunctionInput), N(2, FunctionReturn)>>, <<>>) >>,
                <<>>)
(* A variable that two graphs read, one of them through a wrong type.      *)
Variables ==
  Project(<< Main(51, <<N(1, "start"), Get(2, 1), [N(3, ClickPoint) EXCEPT !.mode = "coordinates"]>>,
                  <<E(1, 1, "next", 3, "run")>>),
             Function(52, <<>>, <<>>,
                      <<N(1, FunctionInput), N(2, FunctionReturn), Get(3, 2)>>, <<>>) >>,
          << Count, Variable(2, Named("name"), "string"), Variable(3, Named("spare"), "string") >>)
(* What only a file brings: a cycle and a diamond of pure nodes, two edges  *)
(* at one input, parallel nodes in a row, one of them in a loop.           *)
Knotted ==
  Project(<< Main(61, <<N(1, "start"), N(2, "add"), N(3, "add"), N(4, "add"), N(5, Parallel), N(6, Parallel)>>,
                  <<E(1, 2, "sum", 3, "a"), E(2, 3, "sum", 4, "a"), E(3, 2, "sum", 4, "a"),
                    E(4, 4, "sum", 3, "a"), E(5, 1, "next", 5, "run"), E(6, 5, "each", 6, "run"),
                    E(7, 6, "each", 6, "run"), E(8, 6, "each", 5, "run")>>) >>, <<>>)
(* A chain of calls that is too deep, beside one that is not; a recursion. *)
Towering ==
  LET boundary == <<N(1, FunctionInput), N(2, FunctionReturn)>>
      function(id, calls) == Function(id, <<>>, <<>>, boundary \o calls, <<>>)
  IN  Project(<< Main(71, <<N(1, "start"), Call(2, 72), Call(3, 73)>>, <<>>),
                 function(72, <<Call(3, 73)>>), function(73, <<Call(3, 74)>>),
                 function(74, <<>>), function(75, <<Call(3, 75)>>) >>, <<>>)
(* Repeated identifiers and names, edges that lead nowhere, functions       *)
(* without their boundary or with too much of it.                          *)
Malformed ==
  [Project(<< Main(81, <<N(1, "start"), N(1, "start"), N(2, "start"), N(3, "gone"),
                         [N(4, Log) EXCEPT !.segments = <<"text", "number">>, !.values = {"x", "run"}],
                         N(5, FunctionInput), Call(6, 80), Call(7, 82), N(8, "add")>>,
                   << E(1, 2, "next", 4, "run"), E(1, 1, "next", 4, "run"), E(2, 3, "next", 4, "run"),
                      E(3, 4, "run", 2, "next"), E(4, 2, "next", 2, "next"), E(5, 9, "next", 10, "run"),
                      E(6, 8, "sum", 4, "message"), E(7, 8, "sum", 7, "none"),
                      [E(8, 1, "next", 4, "run") EXCEPT !.kind = "data"] >>),
              Main(82, <<>>, <<>>),
              Function(83, <<Parameter(1, "run", "same", "number"), Parameter(1, "run", "same", "number")>>,
                       <<>>, <<N(1, Parallel)>>, <<>>),
              Function(83, <<>>, <<>>, <<N(1, FunctionInput), N(2, FunctionInput)>>, <<>>) >>,
           << Variable(1, Named("same"), "imageRef"), Variable(1, Named("same"), "imageRef") >>)
     EXCEPT !.variables[1].persistent = TRUE,
            !.assets = << [id |-> 1, name |-> Named("a")], [id |-> 1, name |-> Named("a")] >>]
(* A function as the entry, and an entry that is not there.                *)
Entered == Project(<<Function(91, <<>>, <<>>, <<N(1, FunctionInput), N(2, FunctionReturn)>>, <<>>)>>, <<>>)
Lost == [Entered EXCEPT !.entry = 92]
(* What the runtime judges otherwise: names, versions, segments, twins.    *)
Divergent ==
  Project(<< Main(95, <<N(1, "start"), [N(2, "add") EXCEPT !.version = 0],
                        [N(4, "add") EXCEPT !.version = 2], [N(3, Log) EXCEPT !.segments = <<>>],
                         Get(5, 3)>>, <<>>) >>,
          << Variable(1, [lower |-> "gross", folded |-> "gross"], "number"),
             Variable(2, [lower |-> "grosz", folded |-> "gross"], "number"),
             Variable(3, Named("twin"), "number"), Variable(3, Named("other"), "string") >>)

Documents == {Sums, Branches, Calling, Deep, Variables, Knotted, Towering,
              Malformed, Entered, Lost, Divergent}
Snapshots == {NewRegistry, OldRegistry}
Palette == {"add"}
Clipboard == {Call(1, 42), Get(1, 2)}
NewVariables == {Variable(9, Named("count"), "string")}
Renamings == {Named("other")}
=============================================================================
