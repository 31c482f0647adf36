--------------------------- MODULE GraphVocabulary ---------------------------
(***************************************************************************)
(* What the two graph validators, the editor's and the runtime's, read: a  *)
(* project document and a registry of node definitions.  Identifiers are   *)
(* numbers; a parsed document always has project variables, so a graph has *)
(* none of its own.                                                        *)
(*                                                                         *)
(*   document   entry, graphs, variables, assets                           *)
(*   graph      id, kind ("entry", "function"), inputs, outputs (its       *)
(*              signature), nodes, edges                                   *)
(*   node       id, type, version, target (the function it calls),         *)
(*              variable, values (ports with a literal), mode (of a click),*)
(*              segments (of a log message)                                *)
(*   edge       id, kind ("execution", "data"), from, out, to, in          *)
(*   parameter  id, port, name, type                                       *)
(*   variable   id, name, type, persistent                                 *)
(*   registry   a function from node types to [version, kind, deprecated,  *)
(*              ports], ports being a function from port ids               *)
(*   port       direction, kind, type, required, literal, fanOut           *)
(*                                                                         *)
(* A name is the pair of forms in which the validators compare names:      *)
(* lower case, and case folded.  A diagnostic is a pair of a code and a    *)
(* location; its message and its parameters are left out, and a report is  *)
(* a set, so neither its order nor its limit of 2000 entries is kept.      *)
(***************************************************************************)
EXTENDS Integers, Sequences, FiniteSets, SequencesExt, TLC

CONSTANT MaxFunctionDepth  \* how deep calls may nest (16 in the code)

None == 0                  \* no variable, no function
NoSegments == <<"absent">> \* a log node without the property

Exec == <<"exec">>
FunctionInput == "core.function.input"
FunctionReturn == "core.function.return"
FunctionCall == "core.function.call"
FunctionNodes == {FunctionInput, FunctionReturn, FunctionCall}
Parallel == "core.flow.parallel"
ClickPoint == "automation.clickPoint"
Log == "core.diagnostic.log"

(* The value kind a variable node reads or writes.                         *)
VariableKind == ("core.variable.getNumber" :> "number") @@
                ("core.variable.getString" :> "string")

PartPort == [text |-> <<"textPart1", "textPart2">>,
             number |-> <<"numberPart1", "numberPart2">>]

Warnings == {"NODE_TYPE_DEPRECATED", "NODE_CAPABILITY_UNAVAILABLE"}

Elements(sequence) == {sequence[i] : i \in DOMAIN sequence}
Ids(items) == {item.id : item \in Elements(items)}

(* A map filled in order: the last item with an identifier wins, and the   *)
(* identifiers keep the order in which they first occur.                   *)
ById(items) ==
  [id \in Ids(items) |-> items[CHOOSE i \in DOMAIN items :
      items[i].id = id /\ \A j \in DOMAIN items : j > i => items[j].id # id]]
Order(items) ==
  FoldLeft(LAMBDA order, item : IF item.id \in Elements(order) THEN order
                                ELSE Append(order, item.id), <<>>, items)

(* The first item with an identifier that occurs.                          *)
First(items, id) ==
  items[CHOOSE i \in DOMAIN items :
          items[i].id = id /\ \A j \in 1..(i - 1) : items[j].id # id]

(* The elements that repeat, under Key, an earlier one.                    *)
Repeated(items, Key(_)) ==
  {items[i] : i \in {k \in DOMAIN items : \E j \in 1..(k - 1) : Key(items[j]) = Key(items[k])}}

Report(code, where, holds) == IF holds THEN {<<code, where>>} ELSE {}
Executable(diagnostics) == \A d \in diagnostics : d[1] \in Warnings

(* All that can be reached from a set along arcs.                          *)
RECURSIVE Reach(_, _)
Reach(arcs, set) ==
  LET next == set \cup {arc[2] : arc \in {a \in arcs : a[1] \in set}}
  IN  IF next = set THEN set ELSE Reach(arcs, next)

Unknown == [version |-> 0, kind |-> "unknown", deprecated |-> FALSE, ports |-> <<>>]
HasPort(definition, port) == port \in DOMAIN definition.ports
=============================================================================
