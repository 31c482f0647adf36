------------------------- MODULE GraphDocument_proofs -------------------------
(***************************************************************************)
(* Proofs about GraphDocument: whatever commands are applied to a document,*)
(* the inverse that is kept for them brings back the very document that    *)
(* was there, and a document that is sound inside stays so; and what each  *)
(* command does to the wiring of the graph it changes.                     *)
(***************************************************************************)
EXTENDS GraphDocument, ListFacts

Commands == INSTANCE ListFacts WITH Step <- Then

-----------------------------------------------------------------------------
(* Lists: inserting.                                                       *)

LEMMA InsertAtFacts ==
  ASSUME NEW T, NEW s \in Seq(T), NEW e \in T, NEW k \in 1..Len(s) + 1
  PROVE  /\ InsertAt(s, k, e) \in Seq(T)
         /\ Len(InsertAt(s, k, e)) = Len(s) + 1
         /\ \A j \in 1..Len(s) + 1 :
              InsertAt(s, k, e)[j] = IF j < k THEN s[j] ELSE IF j = k THEN e ELSE s[j - 1]
<1> DEFINE a == SubSeq(s, 1, k - 1)
           c == SubSeq(s, k, Len(s))
<1>1. a \in Seq(T) /\ Len(a) = k - 1 /\ \A j \in 1..k - 1 : a[j] = s[j]
  BY SubSeqProperties
<1>2. c \in Seq(T) /\ Len(c) = Len(s) - k + 1 /\ \A j \in 1..Len(s) - k + 1 : c[j] = s[k + j - 1]
  BY SubSeqProperties
<1> HIDE DEF a, c
<1>3. /\ a \o <<e>> \in Seq(T) /\ Len(a \o <<e>>) = k
      /\ \A j \in 1..k : (a \o <<e>>)[j] = IF j < k THEN s[j] ELSE e
  <2>1. /\ <<e>> \in Seq(T) /\ Len(<<e>>) = 1 /\ <<e>>[1] = e
    OBVIOUS
  <2> QED
    BY <1>1, <2>1, ConcatProperties
<1>4. InsertAt(s, k, e) = (a \o <<e>>) \o c
  BY DEF InsertAt, a, c
<1>5. /\ (a \o <<e>>) \o c \in Seq(T)
      /\ Len((a \o <<e>>) \o c) = k + (Len(s) - k + 1)
      /\ \A j \in 1..k + (Len(s) - k + 1) : ((a \o <<e>>) \o c)[j] =
           IF j <= k THEN (a \o <<e>>)[j] ELSE c[j - k]
  <2> DEFINE b == a \o <<e>>
  <2>1. b \in Seq(T) /\ Len(b) = k
    BY <1>3
  <2> HIDE DEF b
  <2>2. /\ b \o c \in Seq(T) /\ Len(b \o c) = k + (Len(s) - k + 1)
        /\ \A j \in 1..k + (Len(s) - k + 1) : (b \o c)[j] = IF j <= k THEN b[j] ELSE c[j - k]
    BY <1>2, <2>1, ConcatProperties
  <2> QED
    BY <2>2 DEF b
<1>6. k + (Len(s) - k + 1) = Len(s) + 1
  OBVIOUS
<1>7. ASSUME NEW j \in 1..Len(s) + 1
      PROVE  InsertAt(s, k, e)[j] = IF j < k THEN s[j] ELSE IF j = k THEN e ELSE s[j - 1]
  <2>1. CASE j <= k
    BY <1>3, <1>4, <1>5, <1>6, <2>1
  <2>2. CASE j > k
    <3>1. j - k \in 1..Len(s) - k + 1 /\ k + (j - k) - 1 = j - 1
      BY <2>2
    <3>2. c[j - k] = s[j - 1]
      BY <1>2, <3>1
    <3>3. InsertAt(s, k, e)[j] = c[j - k]
      BY <1>4, <1>5, <1>6, <2>2
    <3> QED
      BY <2>2, <3>2, <3>3
  <2> QED
    BY <2>1, <2>2
<1> QED
  BY <1>4, <1>5, <1>6, <1>7

(* Inserting at the position of an element, or behind the last one.        *)
\* r is s with e inserted at k.
IsInserted(r, T, s, e, k) ==
  /\ r \in Seq(T) /\ Len(r) = Len(s) + 1
  /\ k = AtEnd \/ k > Len(s) => r = Append(s, e)
  /\ k \in 1..Len(s) + 1 =>
       \A j \in 1..Len(s) + 1 : r[j] = IF j < k THEN s[j] ELSE IF j = k THEN e ELSE s[j - 1]
LEMMA InsertedFacts ==
  ASSUME NEW T, NEW s \in Seq(T), NEW e \in T, NEW k \in Nat
  PROVE  IsInserted(Inserted(s, e, k), T, s, e, k)
<1>1. CASE k = AtEnd \/ k > Len(s)
  <2>1. Inserted(s, e, k) = Append(s, e)
    BY <1>1 DEF Inserted
  <2>2. /\ Append(s, e) \in Seq(T) /\ Len(Append(s, e)) = Len(s) + 1
        /\ \A i \in 1..Len(s) : Append(s, e)[i] = s[i]
        /\ Append(s, e)[Len(s) + 1] = e
    BY AppendProperties
  <2>3. k \in 1..Len(s) + 1 => k = Len(s) + 1
    BY <1>1 DEF AtEnd
  <2> QED
    BY <2>1, <2>2, <2>3 DEF IsInserted
<1>2. CASE ~(k = AtEnd \/ k > Len(s))
  <2>1. k \in 1..Len(s) + 1 /\ Inserted(s, e, k) = InsertAt(s, k, e)
    BY <1>2 DEF Inserted, AtEnd
  <2> QED
    BY <1>2, <2>1, InsertAtFacts DEF IsInserted
<1> QED
  BY <1>1, <1>2

LEMMA InsertedAppend ==
  ASSUME NEW T, NEW s \in Seq(T), NEW e \in T, NEW x \in T, NEW k \in 1..Len(s) + 1
  PROVE  Append(Inserted(s, x, k), e) = Inserted(Append(s, e), x, k)
<1> DEFINE a == Inserted(s, x, k)
           b == Append(s, e)
<1>1. /\ b \in Seq(T) /\ Len(b) = Len(s) + 1 /\ b[Len(s) + 1] = e
      /\ \A i \in 1..Len(s) : b[i] = s[i]
  BY AppendProperties
<1>2. /\ a \in Seq(T) /\ Len(a) = Len(s) + 1
      /\ \A j \in 1..Len(s) + 1 : a[j] = IF j < k THEN s[j] ELSE IF j = k THEN x ELSE s[j - 1]
  <2>1. k \in Nat
    OBVIOUS
  <2>2. IsInserted(a, T, s, x, k)
    BY <2>1, InsertedFacts
  <2> HIDE DEF a
  <2> QED
    BY <2>2 DEF IsInserted
<1>3. k \in Nat /\ k \in 1..Len(b) + 1 /\ Len(s) \in Nat
  BY <1>1
<1> HIDE DEF a, b
<1>4. /\ Inserted(b, x, k) \in Seq(T) /\ Len(Inserted(b, x, k)) = Len(s) + 2
      /\ \A j \in 1..Len(s) + 2 :
           Inserted(b, x, k)[j] = IF j < k THEN b[j] ELSE IF j = k THEN x ELSE b[j - 1]
  <2>1. /\ Inserted(b, x, k) \in Seq(T) /\ Len(Inserted(b, x, k)) = Len(b) + 1
        /\ \A j \in 1..Len(b) + 1 :
             Inserted(b, x, k)[j] = IF j < k THEN b[j] ELSE IF j = k THEN x ELSE b[j - 1]
    <3>1. b \in Seq(T) /\ k \in Nat /\ k \in 1..Len(b) + 1
      BY <1>1, <1>3
    <3>2. IsInserted(Inserted(b, x, k), T, b, x, k)
      BY <3>1, InsertedFacts
    <3> QED
      BY <3>1, <3>2 DEF IsInserted
  <2>2. Len(b) + 1 = Len(s) + 2
    BY <1>1
  <2> QED
    BY <2>1, <2>2
<1>5. /\ Append(a, e) \in Seq(T) /\ Len(Append(a, e)) = Len(s) + 2
      /\ Append(a, e)[Len(s) + 2] = e
      /\ \A j \in 1..Len(s) + 1 : Append(a, e)[j] = a[j]
  BY <1>2, AppendProperties
<1>6. ASSUME NEW j \in 1..Len(s) + 2 PROVE Append(a, e)[j] = Inserted(b, x, k)[j]
  <2>1. CASE j = Len(s) + 2
    <3>1. j - 1 = Len(s) + 1 /\ j > k
      BY <2>1
    <3>2. Inserted(b, x, k)[j] = b[j - 1]
      BY <1>4, <3>1
    <3> QED
      BY <1>1, <1>5, <2>1, <3>1, <3>2
  <2>2. CASE j < Len(s) + 2
    <3>1. j \in 1..Len(s) + 1 /\ (j < k => j \in 1..Len(s)) /\ (j > k => j - 1 \in 1..Len(s))
      BY <2>2
    <3>2. Append(a, e)[j] = IF j < k THEN s[j] ELSE IF j = k THEN x ELSE s[j - 1]
      BY <1>2, <1>5, <3>1
    <3>3. Inserted(b, x, k)[j] = IF j < k THEN b[j] ELSE IF j = k THEN x ELSE b[j - 1]
      BY <1>4
    <3>4. (j < k => b[j] = s[j]) /\ (j > k => b[j - 1] = s[j - 1])
      BY <1>1, <3>1
    <3> QED
      BY <1>3, <3>2, <3>3, <3>4
  <2>3. j = Len(s) + 2 \/ j < Len(s) + 2
    BY <1>3
  <2> QED
    BY <2>1, <2>2, <2>3
<1>7. Append(a, e) = Inserted(b, x, k)
  BY <1>4, <1>5, <1>6, SeqEqual
<1> QED
  BY <1>7 DEF a, b

-----------------------------------------------------------------------------
(* Lists: selecting.                                                       *)

(* Putting one more element in its place among those selected, when all    *)
(* the elements before it are there.                                       *)
LEMMA SelectedInsert ==
  ASSUME NEW T, NEW items \in Seq(T), NEW K, NEW k \in 1..Len(items),
         k \notin K, 1..k - 1 \subseteq K
  PROVE  Inserted(Selected(items, K), items[k], k) = Selected(items, K \cup {k})
<1> DEFINE L == K \cup {k}
<1>1. PICK a \in [0..Len(items) -> Seq(T)] : Selects(a, items, K)
  BY SelectedSteps
<1>2. PICK b \in [0..Len(items) -> Seq(T)] : Selects(b, items, L)
  BY SelectedSteps
<1>3. items[k] \in T /\ k \in Nat /\ Len(items) \in Nat
  OBVIOUS
<1> DEFINE P == {i \in Nat : i <= k - 1 => Len(a[i]) = i /\ a[i] = b[i]}
<1>4. 0 \in P
  BY <1>1, <1>2 DEF Selects
<1>5. ASSUME NEW i \in Nat, i \in P PROVE i + 1 \in P
  <2> SUFFICES ASSUME i + 1 <= k - 1 PROVE Len(a[i + 1]) = i + 1 /\ a[i + 1] = b[i + 1]
    OBVIOUS
  <2>1. i + 1 \in 1..Len(items) /\ (i + 1) - 1 = i /\ i \in 0..Len(items) /\ i + 1 \in 1..k - 1
    OBVIOUS
  <2>2. i + 1 \in K /\ i + 1 \in L
    BY <2>1
  <2>3. a[i] \in Seq(T) /\ items[i + 1] \in T /\ Len(a[i]) = i /\ a[i] = b[i]
    BY <1>5, <2>1
  <2> HIDE DEF L
  <2>4. a[i + 1] = Append(a[i], items[i + 1]) /\ b[i + 1] = Append(b[i], items[i + 1])
    BY <1>1, <1>2, <2>1, <2>2 DEF Selects
  <2> QED
    BY <2>3, <2>4, AppendProperties
<1> HIDE DEF P
<1>6. k - 1 \in P
  BY <1>3, <1>4, <1>5, NatSetInduction
<1>7. Len(a[k - 1]) = k - 1 /\ a[k - 1] = b[k - 1]
  BY <1>6 DEF P
<1> DEFINE Q == {i \in Nat : k + i <= Len(items) =>
                   k \in 1..Len(a[k + i]) + 1 /\ b[k + i] = Inserted(a[k + i], items[k], k)}
<1>8. 0 \in Q
  <2>1. k \in L /\ k - 1 \in 0..Len(items) /\ k + 0 = k
    BY <1>3
  <2> HIDE DEF L
  <2>2. a[k] = a[k - 1] /\ b[k] = Append(b[k - 1], items[k])
    BY <1>1, <1>2, <2>1 DEF Selects
  <2>3. a[k - 1] \in Seq(T) /\ Len(a[k]) = k - 1
    BY <1>7, <2>1, <2>2
  <2>4. Inserted(a[k], items[k], k) = Append(a[k], items[k])
    BY <1>3, <2>3 DEF Inserted
  <2>5. k \in 1..Len(a[k]) + 1
    BY <1>3, <2>3
  <2> QED
    BY <1>7, <2>1, <2>2, <2>4, <2>5
<1>9. ASSUME NEW i \in Nat, i \in Q PROVE i + 1 \in Q
  <2> DEFINE m == k + i
  <2> SUFFICES ASSUME m + 1 <= Len(items)
      PROVE  k \in 1..Len(a[m + 1]) + 1 /\ b[m + 1] = Inserted(a[m + 1], items[k], k)
    <3>1. k + (i + 1) = m + 1
      BY <1>3
    <3> QED
      BY <3>1
  <2>1. m + 1 \in 1..Len(items) /\ (m + 1) - 1 = m /\ m \in 0..Len(items) /\ m + 1 # k
    BY <1>3
  <2>2. k \in 1..Len(a[m]) + 1 /\ b[m] = Inserted(a[m], items[k], k)
    BY <1>9, <2>1
  <2>3. m + 1 \in L <=> m + 1 \in K
    BY <2>1
  <2> HIDE DEF L, m
  <2>4. a[m] \in Seq(T) /\ items[m + 1] \in T
    BY <2>1
  <2>5. CASE m + 1 \in K
    <3>1. a[m + 1] = Append(a[m], items[m + 1]) /\ b[m + 1] = Append(b[m], items[m + 1])
      BY <1>1, <1>2, <2>1, <2>3, <2>5 DEF Selects
    <3>2. Append(Inserted(a[m], items[k], k), items[m + 1])
            = Inserted(Append(a[m], items[m + 1]), items[k], k)
      BY <1>3, <2>2, <2>4, InsertedAppend, SMTT(30)
    <3>3. Len(Append(a[m], items[m + 1])) = Len(a[m]) + 1 /\ Len(a[m]) \in Nat
      BY <2>4, AppendProperties, LenProperties
    <3>4. k \in 1..(Len(a[m]) + 1) + 1
      BY <1>3, <2>2, <3>3
    <3> QED
      BY <2>2, <3>1, <3>2, <3>3, <3>4
  <2>6. CASE m + 1 \notin K
    <3>1. a[m + 1] = a[m] /\ b[m + 1] = b[m]
      BY <1>1, <1>2, <2>1, <2>3, <2>6 DEF Selects
    <3> QED
      BY <2>2, <3>1
  <2> QED
    BY <2>5, <2>6
<1> HIDE DEF Q
<1>10. Len(items) - k \in Q /\ k + (Len(items) - k) = Len(items)
  <2>1. Nat \subseteq Q
    BY <1>8, <1>9, NatSetInduction
  <2>2. Len(items) - k \in Nat /\ k + (Len(items) - k) = Len(items)
    BY <1>3
  <2> QED
    BY <2>1, <2>2
<1>11. b[Len(items)] = Inserted(a[Len(items)], items[k], k)
  BY <1>3, <1>10 DEF Q
<1> QED
  BY <1>1, <1>2, <1>11 DEF Selects

-----------------------------------------------------------------------------
(* Items and graphs.                                                       *)

\* The commands there are.
AddCommands ==
  UNION {[op : {"add"}, graph : Nat, kind : {k}, item : Records[k], index : Nat] : k \in Kinds}
RemoveCommands == [op : {"remove"}, graph : Nat, kind : Kinds, id : Nat]
ReplaceCommands ==
  UNION {[op : {"replace"}, graph : Nat, kind : {k}, item : Records[k]] : k \in Kinds}
AddGraphCommands == [op : {"addGraph"}, item : GraphRecords, index : Nat]
ChooseCommands == [op : {"removeGraph", "setEntryGraph"}, graph : Nat]
SignatureCommands == [op : {"setFunctionSignature"}, graph : Nat, parameters : Seq(Nat)]
GraphCommands == AddCommands \cup RemoveCommands \cup ReplaceCommands \cup AddGraphCommands
                   \cup ChooseCommands \cup SignatureCommands

LEMMA CommandTypes ==
  ASSUME NEW g \in Nat
  PROVE  /\ \A k \in Kinds : \A item \in Records[k], index \in Nat :
              AddItemAt(g, k, item, index) \in AddCommands
         /\ \A k \in Kinds, id \in Nat : RemoveItem(g, k, id) \in RemoveCommands
         /\ \A k \in Kinds : \A item \in Records[k] : ReplaceItem(g, k, item) \in ReplaceCommands
         /\ \A graph \in GraphRecords, index \in Nat : AddGraphAt(graph, index) \in AddGraphCommands
         /\ RemoveGraph(g) \in ChooseCommands /\ SetEntryGraph(g) \in ChooseCommands
         /\ \A parameters \in Seq(Nat) : SetSignature(g, parameters) \in SignatureCommands
<1>1. ASSUME NEW k \in Kinds, NEW item \in Records[k], NEW index \in Nat
      PROVE  AddItemAt(g, k, item, index) \in AddCommands
  <2>1. AddItemAt(g, k, item, index)
          \in [op : {"add"}, graph : Nat, kind : {k}, item : Records[k], index : Nat]
    BY DEF AddItemAt
  <2> QED
    BY <2>1 DEF AddCommands
<1>2. ASSUME NEW k \in Kinds, NEW item \in Records[k]
      PROVE  ReplaceItem(g, k, item) \in ReplaceCommands
  <2>1. ReplaceItem(g, k, item)
          \in [op : {"replace"}, graph : Nat, kind : {k}, item : Records[k]]
    BY DEF ReplaceItem
  <2> QED
    BY <2>1 DEF ReplaceCommands
<1>3. \A k \in Kinds, id \in Nat : RemoveItem(g, k, id) \in RemoveCommands
  BY DEF RemoveCommands, RemoveItem
<1>4. \A graph \in GraphRecords, index \in Nat : AddGraphAt(graph, index) \in AddGraphCommands
  BY DEF AddGraphCommands, AddGraphAt
<1>5. RemoveGraph(g) \in ChooseCommands /\ SetEntryGraph(g) \in ChooseCommands
  BY DEF ChooseCommands, RemoveGraph, SetEntryGraph
<1>6. \A parameters \in Seq(Nat) : SetSignature(g, parameters) \in SignatureCommands
  BY DEF SignatureCommands, SetSignature
<1> QED
  BY <1>1, <1>2, <1>3, <1>4, <1>5, <1>6

LEMMA RecordIds == \A k \in Kinds : \A item \in Records[k] : item.id \in Nat
<1> SUFFICES ASSUME NEW k \in Kinds, NEW item \in Records[k] PROVE item.id \in Nat
  OBVIOUS
<1>1. k \in {"nodes", "edges", "groups", "hints"}
  BY DEF Kinds
<1>2. CASE k = "nodes"
  BY <1>2 DEF Records
<1>3. CASE k = "edges"
  BY <1>3 DEF Records
<1>4. CASE k = "groups"
  BY <1>4 DEF Records
<1>5. CASE k = "hints"
  BY <1>5 DEF Records
<1> QED
  BY <1>1, <1>2, <1>3, <1>4, <1>5

(* The item with an identifier.                                            *)
LEMMA ItemFacts ==
  ASSUME NEW T, NEW items \in Seq(T), NEW id, Has(items, id)
  PROVE  /\ IndexOf(items, id) \in 1..Len(items) /\ items[IndexOf(items, id)].id = id
         /\ Item(items, id) \in T /\ Item(items, id).id = id
<1>1. PICK i \in DOMAIN items : items[i].id = id
  BY DEF Has
<1>2. DOMAIN items = 1..Len(items)
  OBVIOUS
<1>3. IndexOf(items, id) \in DOMAIN items /\ items[IndexOf(items, id)].id = id
  BY <1>1 DEF IndexOf
<1> QED
  BY <1>2, <1>3 DEF Item

LEMMA ItemAt ==
  ASSUME NEW T, NEW items \in Seq(T), Distinct(items), NEW i \in 1..Len(items)
  PROVE  /\ Has(items, items[i].id) /\ IndexOf(items, items[i].id) = i
         /\ Item(items, items[i].id) = items[i]
<1>1. i \in DOMAIN items /\ DOMAIN items = 1..Len(items)
  OBVIOUS
<1>2. Has(items, items[i].id)
  BY <1>1 DEF Has
<1>3. IndexOf(items, items[i].id) = i
  BY <1>1, <1>2, ItemFacts DEF Distinct
<1> QED
  BY <1>2, <1>3 DEF Item

\* r is items with item in the place of the one of its id.
IsReplaced(r, T, items, item) ==
  /\ r \in Seq(T) /\ Len(r) = Len(items)
  /\ \A i \in 1..Len(items) : r[i] = IF items[i].id = item.id THEN item ELSE items[i]
  /\ \A i \in 1..Len(items) : r[i].id = items[i].id
  /\ \A id : Has(r, id) <=> Has(items, id)
  /\ Distinct(items) => Distinct(r)
LEMMA ReplacedFacts ==
  ASSUME NEW T, NEW items \in Seq(T), NEW item \in T
  PROVE  IsReplaced(Replaced(items, item), T, items, item)
<1> DEFINE r == Replaced(items, item)
<1>1. DOMAIN items = 1..Len(items) /\ Len(items) \in Nat /\ \A i \in 1..Len(items) : items[i] \in T
  OBVIOUS
<1>2. r = [i \in 1..Len(items) |-> IF items[i].id = item.id THEN item ELSE items[i]]
  BY <1>1 DEF Replaced
<1>3. r \in Seq(T) /\ Len(r) = Len(items) /\ DOMAIN r = 1..Len(items)
  BY <1>1, <1>2
<1>4. \A i \in 1..Len(items) : r[i] = IF items[i].id = item.id THEN item ELSE items[i]
  BY <1>2
<1> HIDE DEF r
<1>5. \A i \in 1..Len(items) : r[i].id = items[i].id
  BY <1>4
<1>6. \A id : Has(r, id) <=> Has(items, id)
  BY <1>1, <1>3, <1>5 DEF Has
<1>7. Distinct(items) => Distinct(r)
  BY <1>1, <1>3, <1>5 DEF Distinct
<1> QED
  BY <1>3, <1>4, <1>5, <1>6, <1>7 DEF r, IsReplaced

(* Replacing an item and putting it back.                                  *)
LEMMA ReplacedTwice ==
  ASSUME NEW T, NEW items \in Seq(T), NEW x \in T, NEW y \in T, x.id = y.id
  PROVE  /\ Replaced(Replaced(items, x), y) = Replaced(items, y)
         /\ Distinct(items) /\ Has(items, x.id) =>
              /\ Replaced(items, Item(items, x.id)) = items
              /\ Item(Replaced(items, x), x.id) = x
<1>1. \A z \in T : IsReplaced(Replaced(items, z), T, items, z)
  BY ReplacedFacts
<1>2. /\ Replaced(items, x) \in Seq(T) /\ Len(Replaced(items, x)) = Len(items)
      /\ \A i \in 1..Len(items) :
           Replaced(items, x)[i] = IF items[i].id = x.id THEN x ELSE items[i]
      /\ \A i \in 1..Len(items) : Replaced(items, x)[i].id = items[i].id
      /\ \A id : Has(Replaced(items, x), id) <=> Has(items, id)
      /\ Distinct(items) => Distinct(Replaced(items, x))
  BY <1>1 DEF IsReplaced
<1>3. \A z \in T : /\ Replaced(items, z) \in Seq(T) /\ Len(Replaced(items, z)) = Len(items)
                   /\ \A i \in 1..Len(items) :
                        Replaced(items, z)[i] = IF items[i].id = z.id THEN z ELSE items[i]
  BY <1>1 DEF IsReplaced
<1>4. Replaced(Replaced(items, x), y) = Replaced(items, y)
  <2> DEFINE r == Replaced(items, x)
  <2>1. /\ r \in Seq(T) /\ Len(r) = Len(items)
        /\ \A i \in 1..Len(items) : r[i] = IF items[i].id = x.id THEN x ELSE items[i]
    BY <1>2
  <2> HIDE DEF r
  <2>2. /\ Replaced(r, y) \in Seq(T) /\ Len(Replaced(r, y)) = Len(items)
        /\ \A i \in 1..Len(items) : Replaced(r, y)[i] = IF r[i].id = y.id THEN y ELSE r[i]
    <3>1. IsReplaced(Replaced(r, y), T, r, y)
      BY <2>1, ReplacedFacts
    <3> QED
      BY <2>1, <3>1 DEF IsReplaced
  <2>3. ASSUME NEW i \in 1..Len(items) PROVE Replaced(r, y)[i] = Replaced(items, y)[i]
    <3>1. Replaced(items, y)[i] = IF items[i].id = y.id THEN y ELSE items[i]
      BY <1>3
    <3>2. Replaced(r, y)[i] = IF r[i].id = y.id THEN y ELSE r[i]
      BY <2>2
    <3>3. r[i] = IF items[i].id = x.id THEN x ELSE items[i]
      BY <2>1
    <3> QED
      BY <3>1, <3>2, <3>3
  <2>4. Replaced(r, y) = Replaced(items, y)
    BY <1>3, <2>2, <2>3, SeqEqual
  <2> QED
    BY <2>4 DEF r
<1>5. ASSUME Distinct(items), Has(items, x.id) PROVE Replaced(items, Item(items, x.id)) = items
  <2> DEFINE z == Item(items, x.id)
             k == IndexOf(items, x.id)
  <2>1. k \in 1..Len(items) /\ items[k].id = x.id /\ z = items[k] /\ z \in T
    BY <1>5, ItemFacts DEF Item
  <2>2. \A i \in 1..Len(items) : items[i].id = z.id => i = k
    BY <1>5, <2>1 DEF Distinct
  <2> HIDE DEF z, k
  <2>3. \A i \in 1..Len(items) : Replaced(items, z)[i] = items[i]
    BY <1>3, <2>1, <2>2
  <2>4. Replaced(items, z) = items
    BY <1>3, <2>1, <2>3, SeqEqual
  <2> QED
    BY <2>4 DEF z
<1>6. ASSUME Distinct(items), Has(items, x.id) PROVE Item(Replaced(items, x), x.id) = x
  <2> DEFINE k == IndexOf(items, x.id)
  <2>1. k \in 1..Len(items) /\ items[k].id = x.id
    BY <1>6, ItemFacts
  <2> HIDE DEF k
  <2>2. Replaced(items, x)[k] = x
    BY <1>2, <2>1
  <2> QED
    BY <1>2, <1>6, <2>1, <2>2, ItemAt
<1> QED
  BY <1>4, <1>5, <1>6

(* A graph with one of its lists changed.                                  *)
LEMMA ListChanged ==
  ASSUME NEW x \in GraphRecords, NEW k \in Kinds, NEW s \in Seq(Records[k]), NEW t
  PROVE  /\ x[k] \in Seq(Records[k]) /\ [x EXCEPT ![k] = s] \in GraphRecords
         /\ [x EXCEPT ![k] = s][k] = s /\ [x EXCEPT ![k] = s].id = x.id
         /\ \A l \in Kinds \ {k} : [x EXCEPT ![k] = s][l] = x[l]
         /\ [[x EXCEPT ![k] = s] EXCEPT ![k] = t] = [x EXCEPT ![k] = t]
         /\ [x EXCEPT ![k] = x[k]] = x
<1>1. x[k] \in Seq(Records[k])
  BY DEF GraphRecords, Kinds
<1>2. /\ [x EXCEPT ![k] = s] \in GraphRecords
      /\ [x EXCEPT ![k] = s][k] = s /\ [x EXCEPT ![k] = s].id = x.id
      /\ \A l \in Kinds \ {k} : [x EXCEPT ![k] = s][l] = x[l]
  BY DEF GraphRecords, Kinds
<1>3. /\ [[x EXCEPT ![k] = s] EXCEPT ![k] = t] = [x EXCEPT ![k] = t]
      /\ [x EXCEPT ![k] = x[k]] = x
  BY DEF GraphRecords, Kinds
<1> QED
  BY <1>1, <1>2, <1>3

(* A document with one of its graphs changed.                              *)
LEMMA GraphChanged ==
  ASSUME NEW d \in DocumentRecords, Distinct(d.graphs), NEW x \in GraphRecords,
         Has(d.graphs, x.id)
  PROVE  /\ PutGraph(d, x) \in DocumentRecords /\ Distinct(PutGraph(d, x).graphs)
         /\ PutGraph(d, x).entry = d.entry /\ Len(PutGraph(d, x).graphs) = Len(d.graphs)
         /\ \A g : Has(PutGraph(d, x).graphs, g) <=> Has(d.graphs, g)
         /\ Graph(PutGraph(d, x), x.id) = x
         /\ \A i \in 1..Len(d.graphs) : PutGraph(d, x).graphs[i] =
              IF d.graphs[i].id = x.id THEN x ELSE d.graphs[i]
         /\ \A y \in GraphRecords : x.id = y.id => PutGraph(PutGraph(d, x), y) = PutGraph(d, y)
         /\ PutGraph(d, Graph(d, x.id)) = d
<1> DEFINE e == PutGraph(d, x)
<1>1. d.graphs \in Seq(GraphRecords) /\ d.entry \in Nat
  BY DEF DocumentRecords
<1>2. /\ e = [d EXCEPT !.graphs = Replaced(d.graphs, x)]
      /\ e.graphs = Replaced(d.graphs, x) /\ e.entry = d.entry
  BY DEF PutGraph, DocumentRecords
<1>3. /\ e.graphs \in Seq(GraphRecords) /\ Len(e.graphs) = Len(d.graphs)
      /\ \A i \in 1..Len(d.graphs) : e.graphs[i] =
           IF d.graphs[i].id = x.id THEN x ELSE d.graphs[i]
      /\ \A g : Has(e.graphs, g) <=> Has(d.graphs, g)
      /\ Distinct(e.graphs)
  <2> DEFINE s == d.graphs
  <2>1. s \in Seq(GraphRecords) /\ Distinct(s)
    BY <1>1
  <2> HIDE DEF s
  <2>2. IsReplaced(Replaced(s, x), GraphRecords, s, x)
    BY <2>1, ReplacedFacts
  <2> QED
    BY <1>2, <2>1, <2>2 DEF s, IsReplaced
<1>4. e \in DocumentRecords
  BY <1>2, <1>3 DEF DocumentRecords
<1>5. Graph(e, x.id) = x
  BY <1>1, <1>2, ReplacedTwice DEF Graph
<1>6. ASSUME NEW y \in GraphRecords, x.id = y.id PROVE PutGraph(e, y) = PutGraph(d, y)
  <2>1. Replaced(Replaced(d.graphs, x), y) = Replaced(d.graphs, y)
    BY <1>1, <1>6, ReplacedTwice
  <2>2. PutGraph(e, y) = [e EXCEPT !.graphs = Replaced(e.graphs, y)]
    BY DEF PutGraph
  <2>3. PutGraph(d, y) = [d EXCEPT !.graphs = Replaced(d.graphs, y)]
    BY DEF PutGraph
  <2> QED
    BY <1>2, <2>1, <2>2, <2>3, ZenonT(60) DEF DocumentRecords
<1>7. PutGraph(d, Graph(d, x.id)) = d
  <2>1. Replaced(d.graphs, Item(d.graphs, x.id)) = d.graphs
    BY <1>1, ReplacedTwice
  <2> QED
    BY <2>1 DEF PutGraph, Graph, DocumentRecords
<1> HIDE DEF e
<1> QED
  BY <1>2, <1>3, <1>4, <1>5, <1>6, <1>7 DEF e

-----------------------------------------------------------------------------
(* Lists of commands.                                                      *)

\* The commands lead from one document of x to the next.
Leads(x, cs) ==
  \A i \in 1..Len(cs) :
    LET step == ApplyOne(x[i - 1], cs[i]) IN step.ok /\ step.document = x[i]
Restores(w, cs, v) == Apply(w, cs).ok /\ Apply(w, cs).document = v

\* p holds what applying the commands has done so far.
Passes(p, d, cs) ==
  /\ p[0] = Done(d, <<>>)
  /\ \A i \in 1..Len(cs) :
       LET step == ApplyOne(p[i - 1].document, cs[i]) IN
       step.ok /\ p[i] = Done(step.document, step.inverse \o p[i - 1].inverse)
  /\ Apply(d, cs) = p[Len(cs)]

LEMMA FoldsThen ==
  ASSUME NEW T, NEW cs \in Seq(T), NEW d
  PROVE  \E p : /\ p[0] = Done(d, <<>>)
                /\ \A i \in 1..Len(cs) : p[i] = Then(p[i - 1], cs[i])
                /\ Apply(d, cs) = p[Len(cs)]
<1>1. PICK p : Commands!Folds(p, Done(d, <<>>), cs)
  BY Commands!FoldLeftSteps
<1>2. Apply(d, cs) = Commands!FoldLeft(Then, Done(d, <<>>), cs)
  BY DEF Apply, FoldLeft, Commands!FoldLeft, MapThenFoldSet, Commands!MapThenFoldSet,
         Max, Commands!Max
<1> QED
  BY <1>1, <1>2 DEF Commands!Folds

LEMMA ThenFacts ==
  ASSUME NEW b, NEW c
  PROVE  /\ Then(b, c).ok => b.ok /\ ApplyOne(b.document, c).ok
         /\ b.ok /\ ApplyOne(b.document, c).ok =>
              Then(b, c) = Done(ApplyOne(b.document, c).document,
                                ApplyOne(b.document, c).inverse \o b.inverse)
BY DEF Then, Continued, Refused

LEMMA DoneFacts ==
  ASSUME NEW d, NEW v
  PROVE  Done(d, v).ok /\ Done(d, v).document = d /\ Done(d, v).inverse = v
BY DEF Done

LEMMA DoneFields ==
  ASSUME NEW step, NEW d, NEW v, step = Done(d, v)
  PROVE  step.ok /\ step.document = d /\ step.inverse = v
BY DEF Done

LEMMA LeadsApplies ==
  ASSUME NEW T, NEW cs \in Seq(T), NEW x, Leads(x, cs)
  PROVE  Restores(x[0], cs, x[Len(cs)])
<1>1. PICK p : /\ p[0] = Done(x[0], <<>>)
               /\ \A i \in 1..Len(cs) : p[i] = Then(p[i - 1], cs[i])
               /\ Apply(x[0], cs) = p[Len(cs)]
  BY FoldsThen
<1> DEFINE P == {k \in Nat : k <= Len(cs) => p[k].ok /\ p[k].document = x[k]}
<1>2. 0 \in P
  BY <1>1, DoneFacts
<1>3. ASSUME NEW k \in Nat, k \in P PROVE k + 1 \in P
  <2> SUFFICES ASSUME k + 1 <= Len(cs) PROVE p[k + 1].ok /\ p[k + 1].document = x[k + 1]
    OBVIOUS
  <2>1. k + 1 \in 1..Len(cs) /\ (k + 1) - 1 = k /\ p[k].ok /\ p[k].document = x[k]
    BY <1>3
  <2>2. ApplyOne(x[k], cs[k + 1]).ok /\ ApplyOne(x[k], cs[k + 1]).document = x[k + 1]
    BY <2>1 DEF Leads
  <2>3. p[k + 1] = Then(p[k], cs[k + 1])
    BY <1>1, <2>1
  <2> QED
    BY <2>1, <2>2, <2>3, ThenFacts, DoneFacts
<1> HIDE DEF P
<1>4. Len(cs) \in P
  BY <1>2, <1>3, NatSetInduction
<1> QED
  BY <1>1, <1>4 DEF P, Restores

LEMMA ApplyPasses ==
  ASSUME NEW T, NEW cs \in Seq(T), NEW d, Apply(d, cs).ok
  PROVE  \E p : Passes(p, d, cs)
<1> DEFINE n == Len(cs)
<1>1. PICK p : /\ p[0] = Done(d, <<>>)
               /\ \A i \in 1..n : p[i] = Then(p[i - 1], cs[i])
               /\ Apply(d, cs) = p[n]
  BY FoldsThen
<1>2. n \in Nat
  OBVIOUS
<1> HIDE DEF n
<1> DEFINE P == {k \in Nat : k <= n => p[n - k].ok}
<1>3. 0 \in P
  BY <1>1, <1>2
<1>4. ASSUME NEW k \in Nat, k \in P PROVE k + 1 \in P
  <2> SUFFICES ASSUME k + 1 <= n PROVE p[n - (k + 1)].ok
    OBVIOUS
  <2>1. n - k \in 1..n /\ (n - k) - 1 = n - (k + 1) /\ p[n - k].ok
    BY <1>2, <1>4
  <2>2. p[n - k] = Then(p[n - (k + 1)], cs[n - k])
    BY <1>1, <2>1
  <2> QED
    BY <2>1, <2>2, ThenFacts
<1> HIDE DEF P
<1>5. Nat \subseteq P
  BY <1>3, <1>4, NatSetInduction
<1>6. \A i \in 0..n : p[i].ok
  <2> TAKE i \in 0..n
  <2>1. n - i \in Nat /\ n - i <= n /\ n - (n - i) = i
    BY <1>2
  <2> QED
    BY <1>5, <2>1 DEF P
<1>7. ASSUME NEW i \in 1..n
      PROVE  /\ ApplyOne(p[i - 1].document, cs[i]).ok
             /\ p[i] = Done(ApplyOne(p[i - 1].document, cs[i]).document,
                            ApplyOne(p[i - 1].document, cs[i]).inverse \o p[i - 1].inverse)
  <2>1. i \in 0..n /\ p[i] = Then(p[i - 1], cs[i])
    BY <1>1, <1>2
  <2> QED
    BY <1>6, <2>1, ThenFacts
<1> QED
  BY <1>1, <1>7 DEF Passes, n

LEMMA RestoresConcat ==
  ASSUME NEW T, NEW a \in Seq(T), NEW b \in Seq(T), NEW u, NEW v, NEW w,
         Restores(u, a, v), Restores(v, b, w)
  PROVE  Restores(u, a \o b, w)
<1> DEFINE m == Len(a)
           n == Len(b)
<1>1. PICK p : Passes(p, u, a)
  BY ApplyPasses DEF Restores
<1>2. PICK q : Passes(q, v, b)
  BY ApplyPasses DEF Restores
<1>3. m \in Nat /\ n \in Nat
  OBVIOUS
<1>4. /\ a \o b \in Seq(T) /\ Len(a \o b) = m + n
      /\ \A i \in 1..m + n : (a \o b)[i] = IF i <= m THEN a[i] ELSE b[i - m]
  BY ConcatProperties
<1> DEFINE c == a \o b
           x == [i \in 0..m + n |-> IF i <= m THEN p[i].document ELSE q[i - m].document]
<1>5. p[0].document = u /\ p[m].document = v /\ q[0].document = v /\ q[n].document = w
  BY <1>1, <1>2, DoneFacts DEF Passes, Restores
<1> HIDE DEF m, n, c
<1>6. ASSUME NEW i \in 1..m + n
      PROVE  ApplyOne(x[i - 1], c[i]).ok /\ ApplyOne(x[i - 1], c[i]).document = x[i]
  <2>1. i - 1 \in 0..m + n /\ i \in 0..m + n
    BY <1>3
  <2>2. CASE i <= m
    <3>1. i \in 1..m /\ i - 1 <= m
      BY <1>3, <2>2
    <3>2. x[i - 1] = p[i - 1].document /\ x[i] = p[i].document /\ c[i] = a[i]
      BY <1>3, <1>4, <2>1, <3>1 DEF c
    <3>3. /\ ApplyOne(p[i - 1].document, a[i]).ok
          /\ p[i].document = ApplyOne(p[i - 1].document, a[i]).document
      BY <1>1, <3>1, DoneFacts DEF Passes, m
    <3> HIDE DEF x
    <3> QED
      BY <3>2, <3>3
  <2>3. CASE i > m
    <3>1. i - m \in 1..n /\ (i - 1) - m = (i - m) - 1
      BY <1>3, <2>3
    <3>2. x[i] = q[i - m].document /\ c[i] = b[i - m]
      BY <1>3, <1>4, <2>1, <2>3 DEF c
    <3>3. x[i - 1] = q[(i - m) - 1].document
      <4>1. CASE i = m + 1
        <5>1. i - 1 <= m /\ i - 1 = m /\ (i - m) - 1 = 0
          BY <1>3, <4>1
        <5> QED
          BY <1>5, <2>1, <5>1
      <4>2. CASE i # m + 1
        <5>1. ~(i - 1 <= m)
          BY <1>3, <2>3, <4>2
        <5> QED
          BY <2>1, <3>1, <5>1
      <4> QED
        BY <4>1, <4>2
    <3>4. /\ ApplyOne(q[(i - m) - 1].document, b[i - m]).ok
          /\ q[i - m].document = ApplyOne(q[(i - m) - 1].document, b[i - m]).document
      BY <1>2, <3>1, DoneFacts DEF Passes, n
    <3> HIDE DEF x
    <3> QED
      BY <3>2, <3>3, <3>4
  <2> QED
    BY <1>3, <2>2, <2>3
<1>7. x[0] = u /\ x[m + n] = w
  <2>1. 0 \in 0..m + n /\ m + n \in 0..m + n /\ 0 <= m /\ (m + n) - m = n
    BY <1>3
  <2>2. CASE n = 0
    <3>1. m + n <= m /\ m + n = m /\ v = w
      BY <1>3, <1>5, <2>2
    <3> QED
      BY <1>5, <2>1, <3>1
  <2>3. CASE n # 0
    <3>1. ~(m + n <= m)
      BY <1>3, <2>3
    <3> QED
      BY <1>5, <2>1, <3>1
  <2> QED
    BY <2>2, <2>3
<1> HIDE DEF x
<1>8. c \in Seq(T) /\ Len(c) = m + n
  BY <1>4 DEF c, m, n
<1>9. Leads(x, c)
  BY <1>6, <1>8 DEF Leads
<1>10. Restores(x[0], c, x[Len(c)])
  BY <1>8, <1>9, LeadsApplies
<1> QED
  BY <1>7, <1>8, <1>10 DEF c

LEMMA RestoresNothing == \A w : Restores(w, <<>>, w)
<1> TAKE w
<1>1. <<>> \in Seq({w}) /\ Len(<<>>) = 0
  OBVIOUS
<1> DEFINE x == [i \in 0..0 |-> w]
<1>2. Leads(x, <<>>) /\ x[0] = w
  BY DEF Leads
<1> HIDE DEF x
<1> QED
  BY <1>1, <1>2, LeadsApplies

LEMMA RestoresOne ==
  ASSUME NEW c, NEW w, ApplyOne(w, c).ok
  PROVE  Restores(w, <<c>>, ApplyOne(w, c).document)
<1>1. <<c>> \in Seq({c}) /\ Len(<<c>>) = 1 /\ <<c>>[1] = c
  OBVIOUS
<1> DEFINE x == [i \in 0..1 |-> IF i = 0 THEN w ELSE ApplyOne(w, c).document]
<1>2. x[0] = w /\ x[1] = ApplyOne(w, c).document
  OBVIOUS
<1> HIDE DEF x
<1>3. Leads(x, <<c>>)
  <2>1. \A i \in 1..1 : i = 1 /\ i - 1 = 0
    OBVIOUS
  <2> QED
    BY <1>1, <1>2, <2>1 DEF Leads
<1> QED
  BY <1>1, <1>2, <1>3, LeadsApplies
-----------------------------------------------------------------------------
(* What is left of a list of items.                                        *)

LEMMA SelectedFacts ==
  ASSUME NEW T, NEW items \in Seq(T), NEW K
  PROVE  /\ Selected(items, K) \in Seq(T) /\ Len(Selected(items, K)) <= Len(items)
         /\ Len(Selected(items, K)) \in Nat
         /\ \A i \in 1..Len(Selected(items, K)) : \E j \in 1..Len(items) :
              j \in K /\ Selected(items, K)[i] = items[j]
         /\ \A j \in 1..Len(items) : j \in K =>
              \E i \in 1..Len(Selected(items, K)) : Selected(items, K)[i] = items[j]
         /\ Distinct(items) => Distinct(Selected(items, K))
<1> DEFINE s == Selected(items, K)
<1>1. s \in Seq(T) /\ Len(s) <= Len(items) /\ Len(s) \in Nat /\ DOMAIN s = 1..Len(s)
  BY SelectedType, SelectedLength, LenProperties
<1>2. PICK h \in Seq(1..Len(items)) : Indexes(h, s, items, K, Len(items))
  BY SelectedIndex
<1> HIDE DEF s
<1>3. \A i \in 1..Len(s) : h[i] \in 1..Len(items) /\ h[i] \in K /\ s[i] = items[h[i]]
  BY <1>2, ElementOfSeq DEF Indexes
<1>4. \A j \in 1..Len(items) : j \in K => \E i \in 1..Len(s) : s[i] = items[j]
  BY <1>2, <1>3 DEF Indexes
<1>5. ASSUME Distinct(items) PROVE Distinct(s)
  <2> SUFFICES ASSUME NEW i \in 1..Len(s), NEW j \in 1..Len(s), s[i].id = s[j].id
      PROVE  i = j
    BY <1>1 DEF Distinct
  <2>1. h[i] = h[j]
    BY <1>3, <1>5, SMTT(30) DEF Distinct
  <2>2. (i < j => h[i] < h[j]) /\ (j < i => h[j] < h[i])
    BY <1>2 DEF Ascending, Indexes
  <2>3. h[i] \in Nat /\ h[j] \in Nat
    BY <1>3
  <2> QED
    BY <2>1, <2>2, <2>3
<1> QED
  BY <1>1, <1>3, <1>4, <1>5 DEF s

\* The positions of the items that have, and that do not have, one of the ids.
Marked(items, ids) == {i \in DOMAIN items : items[i].id \in ids}
Unmarked(items, ids) == {i \in DOMAIN items : items[i].id \notin ids}

LEMMA WithoutIsSelected ==
  ASSUME NEW items, NEW ids
  PROVE  /\ Without(items, ids) = Selected(items, Unmarked(items, ids))
         /\ Those(items, ids) = Selected(items, Marked(items, ids))
BY DEF Without, Those, Filter, Marked, Unmarked

\* s is items without those that have one of the ids.
IsWithout(s, T, items, ids) ==
  /\ s \in Seq(T) /\ Len(s) <= Len(items) /\ Len(s) \in Nat
  /\ \A i \in 1..Len(s) : \E j \in 1..Len(items) : items[j].id \notin ids /\ s[i] = items[j]
  /\ \A j \in 1..Len(items) : items[j].id \notin ids => \E i \in 1..Len(s) : s[i] = items[j]
  /\ \A id : Has(s, id) <=> Has(items, id) /\ id \notin ids
  /\ Distinct(items) => Distinct(s)
LEMMA WithoutFacts ==
  ASSUME NEW T, NEW items \in Seq(T), NEW ids
  PROVE  IsWithout(Without(items, ids), T, items, ids)
<1> DEFINE s == Without(items, ids)
<1>1. \A j \in 1..Len(items) : j \in Unmarked(items, ids) <=> items[j].id \notin ids
  BY DEF Unmarked
<1>2. /\ s \in Seq(T) /\ Len(s) <= Len(items)
      /\ Len(s) \in Nat
      /\ \A i \in 1..Len(s) : \E j \in 1..Len(items) :
           j \in Unmarked(items, ids) /\ s[i] = items[j]
      /\ \A j \in 1..Len(items) : j \in Unmarked(items, ids) =>
           \E i \in 1..Len(s) : s[i] = items[j]
      /\ Distinct(items) => Distinct(s)
  <2> DEFINE K == Unmarked(items, ids)
             r == Selected(items, K)
  <2>1. s = r
    BY WithoutIsSelected
  <2> HIDE DEF s, K
  <2>2. /\ r \in Seq(T) /\ Len(r) <= Len(items)
        /\ Len(r) \in Nat
        /\ \A i \in 1..Len(r) : \E j \in 1..Len(items) :
             j \in K /\ r[i] = items[j]
        /\ \A j \in 1..Len(items) : j \in K =>
             \E i \in 1..Len(r) : r[i] = items[j]
        /\ Distinct(items) => Distinct(r)
    BY SelectedFacts
  <2> QED
    BY <2>1, <2>2 DEF K
<1> HIDE DEF s
<1>3. DOMAIN s = 1..Len(s) /\ DOMAIN items = 1..Len(items)
  BY <1>2
<1>4. ASSUME NEW id PROVE Has(s, id) <=> Has(items, id) /\ id \notin ids
  <2>1. ASSUME Has(s, id) PROVE Has(items, id) /\ id \notin ids
    <3>1. PICK i \in 1..Len(s) : s[i].id = id
      BY <1>3, <2>1 DEF Has
    <3>2. PICK j \in 1..Len(items) : j \in Unmarked(items, ids) /\ s[i] = items[j]
      BY <1>2
    <3> QED
      BY <1>1, <1>3, <3>1, <3>2 DEF Has
  <2>2. ASSUME Has(items, id), id \notin ids PROVE Has(s, id)
    <3>1. PICK j \in 1..Len(items) : items[j].id = id
      BY <1>3, <2>2 DEF Has
    <3>2. PICK i \in 1..Len(s) : s[i] = items[j]
      BY <1>1, <1>2, <2>2, <3>1
    <3> QED
      BY <1>3, <3>1, <3>2 DEF Has
  <2> QED
    BY <2>1, <2>2
<1> QED
  BY <1>1, <1>2, <1>4 DEF s, IsWithout

(* The positions of the items with one of the ids, in ascending order.     *)
LEMMA PositionsFacts ==
  ASSUME NEW items, NEW n \in Nat, DOMAIN items = 1..n, NEW K \in SUBSET (1..n),
         NEW h, h = Selected(Indices(items), K)
  PROVE  /\ h \in Seq(1..n) /\ Len(h) \in Nat /\ Ascending(h, Len(h))
         /\ \A j \in 1..Len(h) : h[j] \in K
         /\ \A i \in K : \E j \in 1..Len(h) : h[j] = i
<1> DEFINE all == Indices(items)
<1>1. h = Selected(all, K)
  OBVIOUS
<1>2. all \in Seq(1..n) /\ Len(all) = n /\ \A i \in 1..n : all[i] = i
  BY DEF Indices
<1> HIDE DEF all
<1>3. PICK g \in Seq(1..Len(all)) : Indexes(g, h, all, K, Len(all))
  BY ONLY <1>1, <1>2, SelectedIndex
<1>4. h \in Seq(1..n) /\ Len(h) \in Nat
  BY <1>1, <1>2, SelectedType, LenProperties
<1>5. \A j \in 1..Len(h) : h[j] = g[j] /\ h[j] \in K
  <2> TAKE j \in 1..Len(h)
  <2>1. g[j] \in K /\ h[j] = all[g[j]] /\ g[j] \in 1..n
    BY <1>2, <1>3 DEF Indexes
  <2> QED
    BY <1>2, <2>1
<1>6. \A i \in K : \E j \in 1..Len(h) : h[j] = i
  BY <1>2, <1>3, <1>5 DEF Indexes
<1>7. Ascending(h, Len(h))
  BY <1>3, <1>5 DEF Ascending, Indexes
<1> QED
  BY <1>4, <1>5, <1>6, <1>7

-----------------------------------------------------------------------------
(* What each command does.                                                 *)

Adds(step, e, x, g, k, item, index) ==
  /\ step.ok <=> Has(e.graphs, g) /\ ~Has(x[k], item.id) /\ Storable(x, k, item)
  /\ step.ok => step = Done(PutGraph(e, [x EXCEPT ![k] = Inserted(x[k], item, index)]),
                           << RemoveItem(g, k, item.id) >>)
LEMMA AddOutcome ==
  ASSUME NEW e, NEW g, NEW x, x = Graph(e, g), NEW k, NEW item, NEW index
  PROVE  Adds(ApplyOne(e, AddItemAt(g, k, item, index)), e, x, g, k, item, index)
BY DEF ApplyOne, ApplyAdd, AddItemAt, Refused, Done, Adds

Replaces(step, e, x, g, k, item) ==
  /\ step.ok <=> Has(e.graphs, g) /\ Has(x[k], item.id) /\ Storable(x, k, item)
  /\ step.ok => step = Done(PutGraph(e, [x EXCEPT ![k] = Replaced(x[k], item)]),
                           << ReplaceItem(g, k, Item(x[k], item.id)) >>)
LEMMA ReplaceOutcome ==
  ASSUME NEW e, NEW g, NEW x, x = Graph(e, g), NEW k, NEW item
  PROVE  Replaces(ApplyOne(e, ReplaceItem(g, k, item)), e, x, g, k, item)
BY DEF ApplyOne, ApplyReplace, ReplaceItem, Refused, Done, Replaces

\* A graph without one of its edges, and without one of its groups or hints.
EdgeRemoved(x, id) == [x EXCEPT !.edges = Without(x.edges, {id}),
                                !.hints = Without(x.hints, HintsOf(x, {id}))]
ItemRemoved(x, k, id) == [x EXCEPT ![k] = Without(x[k], {id})]

Removes(step, e, x, g, k, id) ==
  /\ step.ok <=> Has(e.graphs, g) /\ Has(x[k], id)
  /\ step.ok => step =
       IF k = "nodes" THEN Done(PutGraph(e, NodeRemoved(x, id)), NodeBack(x, id))
       ELSE IF k = "edges" THEN
         Done(PutGraph(e, EdgeRemoved(x, id)),
              AddBack(x, "edges", {id}) \o AddBack(x, "hints", HintsOf(x, {id})))
       ELSE Done(PutGraph(e, ItemRemoved(x, k, id)), AddBack(x, k, {id}))
LEMMA RemoveOutcome ==
  ASSUME NEW e, NEW g, NEW x, x = Graph(e, g), NEW k, NEW id
  PROVE  Removes(ApplyOne(e, RemoveItem(g, k, id)), e, x, g, k, id)
BY DEF ApplyOne, ApplyRemove, RemoveItem, Refused, Done, EdgeRemoved, ItemRemoved, Removes

LEMMA AddGraphOutcome ==
  ASSUME NEW e, NEW x, NEW index, NEW step, step = ApplyOne(e, AddGraphAt(x, index))
  PROVE  /\ step.ok <=> ~Has(e.graphs, x.id) /\ ~(Len(e.graphs) >= MaxGraphs)
         /\ step.ok => step = Done([e EXCEPT !.graphs = Inserted(e.graphs, x, index)],
                                  << RemoveGraph(x.id) >>)
BY DEF ApplyOne, ApplyAddGraph, AddGraphAt, Refused, Done

LEMMA RemoveGraphOutcome ==
  ASSUME NEW e, NEW g, NEW step, step = ApplyOne(e, RemoveGraph(g))
  PROVE  /\ step.ok <=> Has(e.graphs, g) /\ Len(e.graphs) # 1 /\ e.entry # g
         /\ step.ok => step = Done([e EXCEPT !.graphs = Without(e.graphs, {g})],
                                  << AddGraphAt(Graph(e, g), IndexOf(e.graphs, g)) >>)
BY DEF ApplyOne, ApplyRemoveGraph, RemoveGraph, Refused, Done

LEMMA SetEntryOutcome ==
  ASSUME NEW e, NEW g, NEW step, step = ApplyOne(e, SetEntryGraph(g))
  PROVE  /\ step.ok <=> Has(e.graphs, g)
         /\ step.ok => step = Done([e EXCEPT !.entry = g], << SetEntryGraph(e.entry) >>)
BY DEF ApplyOne, ApplySetEntryGraph, SetEntryGraph, Refused, Done

Signs(step, e, x, g, parameters) ==
  /\ step.ok <=> Has(e.graphs, g) /\ x.kind = "function"
  /\ step.ok => step = Done(PutGraph(e, [x EXCEPT !.parameters = parameters]),
                           << SetSignature(g, x.parameters) >>)
LEMMA SetSignatureOutcome ==
  ASSUME NEW e, NEW g, NEW parameters, NEW x, x = Graph(e, g)
  PROVE  Signs(ApplyOne(e, SetSignature(g, parameters)), e, x, g, parameters)
BY DEF ApplyOne, ApplySetSignature, SetSignature, Refused, Done, Signs

-----------------------------------------------------------------------------
(* Adding items back where they were.                                      *)

(* One item, added to a graph of which only that list has changed.         *)
LEMMA AddStep ==
  ASSUME NEW d \in DocumentRecords, Distinct(d.graphs), NEW z \in GraphRecords,
         Has(d.graphs, z.id), NEW k \in Kinds, NEW item \in Records[k], NEW index \in Nat,
         ~Has(z[k], item.id), Storable(z, k, item)
  PROVE  LET step == ApplyOne(PutGraph(d, z), AddItemAt(z.id, k, item, index)) IN
         /\ step.ok
         /\ step.document = PutGraph(d, [z EXCEPT ![k] = Inserted(z[k], item, index)])
<1> DEFINE e == PutGraph(d, z)
           y == [z EXCEPT ![k] = Inserted(z[k], item, index)]
<1>1. z[k] \in Seq(Records[k]) /\ Inserted(z[k], item, index) \in Seq(Records[k])
  <2>1. z[k] \in Seq(Records[k])
    BY DEF GraphRecords, Kinds
  <2>2. IsInserted(Inserted(z[k], item, index), Records[k], z[k], item, index)
    BY <2>1, InsertedFacts
  <2> QED
    BY <2>1, <2>2 DEF IsInserted
<1>2. y \in GraphRecords /\ y.id = z.id
  <2> DEFINE s == Inserted(z[k], item, index)
  <2>1. s \in Seq(Records[k])
    BY <1>1
  <2> HIDE DEF s
  <2>2. [z EXCEPT ![k] = s] \in GraphRecords /\ [z EXCEPT ![k] = s].id = z.id
    BY <2>1 DEF GraphRecords, Kinds
  <2> QED
    BY <2>2 DEF s
<1>3. /\ Has(e.graphs, z.id) /\ Graph(e, z.id) = z
      /\ \A w \in GraphRecords : z.id = w.id => PutGraph(e, w) = PutGraph(d, w)
  BY GraphChanged
<1> HIDE DEF e, y
<1>4. PutGraph(e, y) = PutGraph(d, y)
  BY <1>2, <1>3
<1>5. LET step == ApplyOne(e, AddItemAt(z.id, k, item, index)) IN
      step.ok /\ step = Done(PutGraph(e, [z EXCEPT ![k] = Inserted(z[k], item, index)]),
                             << RemoveItem(z.id, k, item.id) >>)
  <2>1. Adds(ApplyOne(e, AddItemAt(z.id, k, item, index)), e, z, z.id, k, item, index)
    BY <1>3, AddOutcome
  <2> QED
    BY <1>3, <2>1 DEF Adds
<1> QED
  BY <1>4, <1>5, DoneFacts DEF e, y

LEMMA AddBackRestores ==
  ASSUME NEW d \in DocumentRecords, Distinct(d.graphs), NEW x \in GraphRecords,
         Has(d.graphs, x.id), NEW k \in Kinds, Distinct(x[k]), NEW ids,
         NEW y \in GraphRecords, y.id = x.id, y[k] = Without(x[k], ids),
         \A K \in SUBSET (1..Len(x[k])), i \in 1..Len(x[k]) :
           i \notin K /\ x[k][i].id \in ids =>
             Storable([y EXCEPT ![k] = Selected(x[k], K)], k, x[k][i])
  PROVE  /\ AddBack(x, k, ids) \in Seq(AddCommands)
         /\ Restores(PutGraph(d, y), AddBack(x, k, ids), PutGraph(d, [y EXCEPT ![k] = x[k]]))
<1> DEFINE items == x[k]
           n == Len(items)
           M == Marked(items, ids)
           h == Selected(Indices(items), M)
           m == Len(h)
           cs == [j \in 1..m |-> AddItemAt(x.id, k, items[h[j]], h[j])]
           K(j) == Unmarked(items, ids) \cup {h[l] : l \in 1..j}
           z(j) == [y EXCEPT ![k] = Selected(items, K(j))]
           docs == [j \in 0..m |-> PutGraph(d, z(j))]
<1>1. items \in Seq(Records[k]) /\ n \in Nat /\ DOMAIN items = 1..n /\ x.id \in Nat
  BY ListChanged DEF GraphRecords, Kinds
<1>2. /\ M \in SUBSET (1..n) /\ \A i \in 1..n : i \in M <=> items[i].id \in ids
      /\ Unmarked(items, ids) = (1..n) \ M
  BY <1>1 DEF Marked, Unmarked
<1>3. /\ h \in Seq(1..n) /\ m \in Nat /\ DOMAIN h = 1..m
      /\ \A j \in 1..m : h[j] \in M /\ h[j] \in 1..n
      /\ \A i, j \in 1..m : i < j => h[i] < h[j]
      /\ \A i \in M : \E j \in 1..m : h[j] = i
  <2>1. /\ n \in Nat /\ DOMAIN items = 1..n /\ M \in SUBSET (1..n)
        /\ h = Selected(Indices(items), M)
    BY <1>1, <1>2
  <2> HIDE DEF items, n, M, h
  <2>2. /\ h \in Seq(1..n) /\ Len(h) \in Nat /\ Ascending(h, Len(h))
        /\ \A j \in 1..Len(h) : h[j] \in M
        /\ \A i \in M : \E j \in 1..Len(h) : h[j] = i
    BY ONLY <2>1, PositionsFacts
  <2>3. DOMAIN h = 1..m /\ \A j \in 1..m : h[j] \in 1..n
    BY ONLY <2>2, LenProperties, ElementOfSeq
  <2> QED
    BY <2>2, <2>3 DEF Ascending
<1>4. AddBack(x, k, ids) = cs
  BY <1>3 DEF AddBack, Positions, Marked
<1> HIDE DEF items, n, M, h
<1>5. \A j \in 1..m : AddItemAt(x.id, k, items[h[j]], h[j]) \in AddCommands
  BY <1>1, <1>3, CommandTypes, ElementOfSeq DEF n
<1>6. cs \in Seq(AddCommands) /\ Len(cs) = m
  BY <1>3, <1>5
<1>7. ASSUME NEW j \in 0..m
      PROVE  /\ K(j) \in SUBSET (1..n) /\ Selected(items, K(j)) \in Seq(Records[k])
             /\ z(j) \in GraphRecords /\ z(j).id = x.id /\ z(j)[k] = Selected(items, K(j))
             /\ \A t : [z(j) EXCEPT ![k] = t] = [y EXCEPT ![k] = t]
  <2>1. K(j) \in SUBSET (1..n)
    <3>1. \A l \in 1..j : l \in 1..m
      BY <1>3
    <3> QED
      BY <1>2, <1>3, <3>1
  <2> DEFINE s == Selected(items, K(j))
  <2>2. s \in Seq(Records[k])
    BY <1>1, SelectedType
  <2> HIDE DEF s
  <2>3. /\ [y EXCEPT ![k] = s] \in GraphRecords /\ [y EXCEPT ![k] = s].id = y.id
        /\ [y EXCEPT ![k] = s][k] = s
        /\ \A t : [[y EXCEPT ![k] = s] EXCEPT ![k] = t] = [y EXCEPT ![k] = t]
    BY <2>2 DEF GraphRecords, Kinds
  <2> QED
    BY <2>1, <2>2, <2>3 DEF s
<1>8. ASSUME NEW j \in 1..m
      PROVE  /\ ApplyOne(docs[j - 1], cs[j]).ok
             /\ ApplyOne(docs[j - 1], cs[j]).document = docs[j]
  <2> DEFINE p == h[j]
             item == items[h[j]]
             before == z(j - 1)
             L == K(j - 1)
  <2>1. j - 1 \in 0..m /\ j \in 0..m /\ p \in M /\ p \in 1..n /\ p \in Nat
        /\ item \in Records[k] /\ item.id \in ids
    BY <1>1, <1>2, <1>3, ElementOfSeq DEF n
  <2>2. p \notin L
    <3>1. \A l \in 1..j - 1 : l \in 1..m /\ l < j
      BY <1>3
    <3>2. \A l \in 1..j - 1 : h[l] # p
      BY <1>3, <3>1
    <3> QED
      BY <1>2, <2>1, <3>2
  <2>3. 1..p - 1 \subseteq L
    <3> SUFFICES ASSUME NEW i \in 1..p - 1, i \in M PROVE i \in {h[l] : l \in 1..j - 1}
      <4>1. \A i \in 1..p - 1 : i \in 1..n
        BY <1>1, <2>1
      <4> QED
        BY <1>2, <4>1
    <3>1. PICK l \in 1..m : h[l] = i
      BY <1>3
    <3>2. ~(l > j) /\ l # j
      BY <1>3, <2>1, <3>1
    <3>3. l \in 1..j - 1
      BY <1>3, <3>2
    <3> QED
      BY <3>1, <3>3
  <2>4. K(j) = L \cup {p}
    <3>1. \A l \in 1..j : l \in 1..j - 1 \/ l = j
      OBVIOUS
    <3>2. \A l \in 1..j - 1 : l \in 1..j
      OBVIOUS
    <3>3. j \in 1..j
      OBVIOUS
    <3> QED
      BY <3>1, <3>2, <3>3
  <2>5. Selected(items, K(j)) = Inserted(Selected(items, L), items[p], p)
    <3> HIDE DEF L, p
    <3>1. Inserted(Selected(items, L), items[p], p) = Selected(items, L \cup {p})
      BY <1>1, <2>1, <2>2, <2>3, SelectedInsert DEF n
    <3> QED
      BY <2>4, <3>1
  <2>6. L \in SUBSET (1..n)
    BY <1>7, <2>1
  <2>7. ~Has(Selected(items, L), item.id)
    <3> SUFFICES ASSUME Has(Selected(items, L), item.id) PROVE FALSE
      OBVIOUS
    <3> DEFINE s == Selected(items, L)
    <3> HIDE DEF L
    <3>1. /\ s \in Seq(Records[k]) /\ Len(s) \in Nat
          /\ \A i \in 1..Len(s) : \E l \in 1..Len(items) : l \in L /\ s[i] = items[l]
      BY <1>1, SelectedFacts
    <3> HIDE DEF s
    <3>2. PICK i \in 1..Len(s) : s[i].id = item.id
      BY <3>1 DEF Has, s
    <3>3. PICK l \in 1..n : l \in L /\ s[i] = items[l]
      BY <3>1 DEF n
    <3>4. l = p
      BY <1>1, <2>1, <3>2, <3>3 DEF Distinct, items
    <3> QED
      BY <2>2, <3>3, <3>4
  <2>8. Storable(before, k, item)
    <3>1. \A A \in SUBSET (1..n), i \in 1..n : i \notin A /\ items[i].id \in ids =>
            Storable([y EXCEPT ![k] = Selected(items, A)], k, items[i])
      BY DEF items, n
    <3>2. p \in 1..n /\ items[p].id \in ids
      BY <2>1
    <3> HIDE DEF L, p, M
    <3>3. \A A \in SUBSET (1..n) : p \notin A =>
            Storable([y EXCEPT ![k] = Selected(items, A)], k, items[p])
      BY <3>1, <3>2
    <3>4. Storable([y EXCEPT ![k] = Selected(items, L)], k, items[p])
      BY <2>2, <2>6, <3>3
    <3> QED
      BY <3>4 DEF L, p
  <2>9. /\ before \in GraphRecords /\ before.id = x.id /\ before[k] = Selected(items, L)
        /\ \A t : [before EXCEPT ![k] = t] = [y EXCEPT ![k] = t]
    BY <1>7, <2>1
  <2>10. docs[j - 1] = PutGraph(d, before) /\ docs[j] = PutGraph(d, z(j))
         /\ cs[j] = AddItemAt(before.id, k, item, p)
    BY <2>1, <2>9
  <2>11. z(j) = [before EXCEPT ![k] = Inserted(before[k], item, p)]
    BY <2>5, <2>9
  <2> HIDE DEF before, L, item, p, docs, cs, z, K
  <2>12. /\ ApplyOne(PutGraph(d, before), AddItemAt(before.id, k, item, p)).ok
         /\ ApplyOne(PutGraph(d, before), AddItemAt(before.id, k, item, p)).document
              = PutGraph(d, [before EXCEPT ![k] = Inserted(before[k], item, p)])
    BY <2>1, <2>7, <2>8, <2>9, AddStep
  <2> QED
    BY <2>10, <2>11, <2>12
<1>9. docs[0] = PutGraph(d, y)
  <2>1. K(0) = Unmarked(items, ids) /\ 0 \in 0..m
    BY <1>3
  <2>2. Selected(items, K(0)) = y[k]
    BY <2>1, WithoutIsSelected DEF items
  <2>3. [y EXCEPT ![k] = y[k]] = y
    BY DEF GraphRecords, Kinds
  <2> QED
    BY <2>1, <2>2, <2>3
<1>10. docs[m] = PutGraph(d, [y EXCEPT ![k] = items])
  <2>1. 1..n \subseteq K(m) /\ m \in 0..m
    BY <1>2, <1>3
  <2>2. Selected(items, K(m)) = items
    <3> DEFINE L == K(m)
    <3>1. 1..n \subseteq L
      BY <2>1
    <3> HIDE DEF L
    <3>2. Selected(items, L) = items
      BY <1>1, <3>1, SelectedAll DEF n
    <3> QED
      BY <3>2 DEF L
  <2> QED
    BY <2>1, <2>2
<1>11. Leads(docs, cs)
  BY <1>6, <1>8 DEF Leads
<1> HIDE DEF docs, cs
<1>12. Restores(docs[0], cs, docs[Len(cs)])
  BY <1>6, <1>11, LeadsApplies
<1> QED
  BY <1>4, <1>6, <1>9, <1>10, <1>12 DEF items
-----------------------------------------------------------------------------
(* Taking out what was put in, and leaving groups.                         *)

LEMMA WithoutNone ==
  ASSUME NEW T, NEW items \in Seq(T), NEW ids, \A i \in 1..Len(items) : items[i].id \notin ids
  PROVE  Without(items, ids) = items
<1>1. 1..Len(items) \subseteq Unmarked(items, ids)
  BY DEF Unmarked
<1> DEFINE K == Unmarked(items, ids)
<1>2. 1..Len(items) \subseteq K
  BY <1>1
<1> HIDE DEF K
<1>3. Selected(items, K) = items
  BY <1>2, SelectedAll
<1> QED
  BY <1>3, WithoutIsSelected DEF K

\* t is s with e at p.
HoldsAt(t, T, s, e, p) ==
  /\ t \in Seq(T) /\ Len(t) = Len(s) + 1 /\ DOMAIN t = 1..Len(s) + 1
  /\ \A j \in 1..Len(s) + 1 : t[j] = IF j < p THEN s[j] ELSE IF j = p THEN e ELSE s[j - 1]
LEMMA InsertedPlace ==
  ASSUME NEW T, NEW s \in Seq(T), NEW e \in T, NEW k \in Nat
  PROVE  \E p \in 1..Len(s) + 1 : HoldsAt(Inserted(s, e, k), T, s, e, p)
<1> DEFINE p == IF k = AtEnd \/ k > Len(s) THEN Len(s) + 1 ELSE k
           t == Inserted(s, e, k)
<1>1. Len(s) \in Nat /\ p \in 1..Len(s) + 1
  BY DEF AtEnd
<1>2. IsInserted(t, T, s, e, k)
  BY InsertedFacts
<1> HIDE DEF t
<1>3. t \in Seq(T) /\ Len(t) = Len(s) + 1 /\ DOMAIN t = 1..Len(s) + 1
  BY <1>2 DEF IsInserted
<1>4. CASE k = AtEnd \/ k > Len(s)
  <2>1. t = Append(s, e) /\ p = Len(s) + 1
    BY <1>2, <1>4 DEF IsInserted
  <2>2. t[Len(s) + 1] = e /\ \A j \in 1..Len(s) : t[j] = s[j]
    BY <2>1, AppendProperties
  <2>3. \A j \in 1..Len(s) + 1 : (j < p => j \in 1..Len(s)) /\ ~(j > p)
    BY <1>1, <2>1
  <2> HIDE DEF p
  <2>4. HoldsAt(t, T, s, e, p)
    BY <1>1, <1>3, <2>1, <2>2, <2>3 DEF HoldsAt
  <2> QED
    BY <1>1, <2>4 DEF t
<1>5. CASE ~(k = AtEnd \/ k > Len(s))
  <2>1. k \in 1..Len(s) + 1
    BY <1>1, <1>5 DEF AtEnd
  <2>2. HoldsAt(t, T, s, e, k)
    BY <1>2, <1>3, <2>1 DEF IsInserted, HoldsAt
  <2> QED
    BY <2>1, <2>2 DEF t
<1> QED
  BY <1>4, <1>5

(* A list with one more item.                                              *)
IsWith(t, T, s, e) ==
  /\ t \in Seq(T) /\ Len(t) = Len(s) + 1 /\ DOMAIN t = 1..Len(t)
  /\ \A i \in 1..Len(t) : t[i] = e \/ \E j \in 1..Len(s) : t[i] = s[j]
  /\ \A j \in 1..Len(s) : \E i \in 1..Len(t) : t[i] = s[j]
  /\ \E i \in 1..Len(t) : t[i] = e
  /\ \A id : Has(t, id) <=> Has(s, id) \/ id = e.id
  /\ Distinct(s) /\ ~Has(s, e.id) => Distinct(t)
LEMMA InsertedElements ==
  ASSUME NEW T, NEW s \in Seq(T), NEW e \in T, NEW k \in Nat
  PROVE  IsWith(Inserted(s, e, k), T, s, e)
<1> DEFINE t == Inserted(s, e, k)
<1>1. PICK p \in 1..Len(s) + 1 : HoldsAt(t, T, s, e, p)
  BY InsertedPlace
<1> HIDE DEF t
<1>2. Len(s) \in Nat /\ DOMAIN s = 1..Len(s)
  OBVIOUS
<1>3. t \in Seq(T) /\ Len(t) = Len(s) + 1 /\ DOMAIN t = 1..Len(s) + 1
  BY <1>1 DEF HoldsAt
<1>4. /\ t[p] = e /\ p \in 1..Len(t)
      /\ \A j \in 1..Len(s) : j < p => j \in 1..Len(t) /\ t[j] = s[j]
      /\ \A j \in 1..Len(s) : ~(j < p) => j + 1 \in 1..Len(t) /\ t[j + 1] = s[j]
  <2>1. t[p] = e /\ p \in 1..Len(t)
    BY <1>1, <1>2, <1>3 DEF HoldsAt
  <2>2. ASSUME NEW j \in 1..Len(s), j < p PROVE j \in 1..Len(t) /\ t[j] = s[j]
    <3>1. j \in 1..Len(s) + 1
      BY <1>2
    <3> QED
      BY <1>1, <1>3, <2>2, <3>1 DEF HoldsAt
  <2>3. ASSUME NEW j \in 1..Len(s), ~(j < p) PROVE j + 1 \in 1..Len(t) /\ t[j + 1] = s[j]
    <3>1. j + 1 \in 1..Len(s) + 1 /\ ~(j + 1 < p) /\ j + 1 # p /\ (j + 1) - 1 = j
      BY <1>2, <2>3
    <3>2. t[j + 1] = s[(j + 1) - 1]
      BY <1>1, <3>1 DEF HoldsAt
    <3> QED
      BY <1>3, <3>1, <3>2
  <2> QED
    BY <2>1, <2>2, <2>3
<1>5. \A i \in 1..Len(t) :
        /\ i < p => i \in 1..Len(s) /\ t[i] = s[i]
        /\ i > p => i - 1 \in 1..Len(s) /\ t[i] = s[i - 1]
  <2> TAKE i \in 1..Len(t)
  <2>1. i \in 1..Len(s) + 1 /\ (i < p => i \in 1..Len(s)) /\ (i > p => i - 1 \in 1..Len(s))
    BY <1>2, <1>3
  <2>2. t[i] = IF i < p THEN s[i] ELSE IF i = p THEN e ELSE s[i - 1]
    BY <1>1, <2>1 DEF HoldsAt
  <2>3. (i < p => t[i] = s[i]) /\ (i > p => t[i] = s[i - 1])
    BY <1>2, <2>2
  <2> QED
    BY <2>1, <2>3
<1>6. \A i \in 1..Len(t) : i < p \/ i = p \/ i > p
  BY <1>2, <1>3
<1>7. \A i \in 1..Len(t) : t[i] = e \/ \E j \in 1..Len(s) : t[i] = s[j]
  BY <1>4, <1>5, <1>6
<1>8. \A j \in 1..Len(s) : \E i \in 1..Len(t) : t[i] = s[j]
  BY <1>4
<1>9. ASSUME NEW id PROVE Has(t, id) <=> Has(s, id) \/ id = e.id
  <2>1. Has(t, id) => Has(s, id) \/ id = e.id
    BY <1>2, <1>3, <1>7 DEF Has
  <2>2. Has(s, id) => Has(t, id)
    BY <1>2, <1>3, <1>8 DEF Has
  <2>3. Has(t, e.id)
    BY <1>3, <1>4 DEF Has
  <2> QED
    BY <2>1, <2>2, <2>3
<1>10. ASSUME Distinct(s), ~Has(s, e.id) PROVE Distinct(t)
  <2> SUFFICES ASSUME NEW i \in 1..Len(t), NEW j \in 1..Len(t), t[i].id = t[j].id
      PROVE  i = j
    BY <1>3 DEF Distinct
  <2>1. \A l \in 1..Len(s) : s[l].id # e.id
    BY <1>2, <1>10 DEF Has
  <2>2. \A l, m \in 1..Len(s) : s[l].id = s[m].id => l = m
    BY <1>2, <1>10 DEF Distinct
  <2> DEFINE f(l) == IF l < p THEN l ELSE l - 1
  <2>3. \A l \in 1..Len(t) : l # p => f(l) \in 1..Len(s) /\ t[l] = s[f(l)]
    <3> TAKE l \in 1..Len(t)
    <3>1. (l < p => f(l) = l) /\ (l > p => f(l) = l - 1)
      BY <1>2, <1>3
    <3>2. /\ l < p => l \in 1..Len(s) /\ t[l] = s[l]
          /\ l > p => l - 1 \in 1..Len(s) /\ t[l] = s[l - 1]
          /\ l < p \/ l = p \/ l > p
      BY <1>5, <1>6
    <3> HIDE DEF f
    <3>3. CASE l < p
      BY <3>1, <3>2, <3>3
    <3>4. CASE l > p
      BY <3>1, <3>2, <3>4
    <3> QED
      BY <3>2, <3>3, <3>4
  <2>4. \A l \in 1..Len(t) : t[l].id = e.id <=> l = p
    <3> TAKE l \in 1..Len(t)
    <3> HIDE DEF f
    <3>1. CASE l = p
      BY <1>4, <3>1
    <3>2. CASE l # p
      BY <2>1, <2>3, <3>2
    <3> QED
      BY <3>1, <3>2
  <2>5. CASE i = p \/ j = p
    BY <2>4, <2>5
  <2>6. CASE i # p /\ j # p
    <3>1. f(i) = f(j)
      <4> HIDE DEF f
      <4> QED
        BY <2>2, <2>3, <2>6
    <3> QED
      BY <1>2, <1>3, <2>6, <3>1
  <2> QED
    BY <2>5, <2>6
<1> QED
  BY <1>3, <1>4, <1>7, <1>8, <1>9, <1>10 DEF IsWith, t

LEMMA WithoutInserted ==
  ASSUME NEW T, NEW s \in Seq(T), NEW e \in T, NEW k \in Nat, ~Has(s, e.id)
  PROVE  Without(Inserted(s, e, k), {e.id}) = s
<1> DEFINE t == Inserted(s, e, k)
<1>1. PICK p \in 1..Len(s) + 1 : HoldsAt(t, T, s, e, p)
  BY InsertedPlace
<1> DEFINE K == (1..Len(s) + 1) \ {p}
           u == Selected(t, K)
<1>2. Len(s) \in Nat /\ DOMAIN s = 1..Len(s) /\ p \in 1..Len(s) + 1
  OBVIOUS
<1> HIDE DEF t
<1>3. /\ t \in Seq(T) /\ Len(t) = Len(s) + 1 /\ DOMAIN t = 1..Len(s) + 1
      /\ \A j \in 1..Len(s) + 1 : t[j] = IF j < p THEN s[j] ELSE IF j = p THEN e ELSE s[j - 1]
  BY <1>1 DEF HoldsAt
<1>4. \A j \in 1..Len(s) + 1 : (j < p => j \in 1..Len(s)) /\ (j > p => j - 1 \in 1..Len(s))
  BY <1>2
<1>5. \A j \in 1..Len(s) + 1 : t[j].id = e.id <=> j = p
  <2> TAKE j \in 1..Len(s) + 1
  <2>1. j < p \/ j = p \/ j > p
    BY <1>2
  <2>2. \A i \in 1..Len(s) : s[i].id # e.id
    BY <1>2 DEF Has
  <2>3. t[j] = IF j < p THEN s[j] ELSE IF j = p THEN e ELSE s[j - 1]
    BY <1>3
  <2>4. CASE j < p
    BY <1>2, <1>4, <2>2, <2>3, <2>4
  <2>5. CASE j = p
    BY <1>2, <2>3, <2>5
  <2>6. CASE j > p
    BY <1>2, <1>4, <2>2, <2>3, <2>6
  <2> QED
    BY <2>1, <2>4, <2>5, <2>6
<1>6. Without(t, {e.id}) = u
  <2>1. Unmarked(t, {e.id}) = K
    BY <1>3, <1>5 DEF Unmarked
  <2> QED
    BY <2>1, WithoutIsSelected
<1>7. u \in Seq(T) /\ Len(u) \in Nat
  BY <1>3, SelectedType, LenProperties
<1>8. Inserted(u, e, p) = t
  <2>1. t[p] = e
    BY <1>2, <1>3
  <2>2. 1..Len(t) \subseteq K \cup {p}
    BY <1>3
  <2>3. Selected(t, K \cup {p}) = t
    <3> DEFINE L == K \cup {p}
    <3>1. 1..Len(t) \subseteq L
      BY <2>2
    <3> HIDE DEF L
    <3>2. Selected(t, L) = t
      BY <1>3, <3>1, SelectedAll
    <3> QED
      BY <3>2 DEF L
  <2>4. p \in 1..Len(t) /\ p \notin K /\ 1..p - 1 \subseteq K
    BY <1>2, <1>3
  <2> HIDE DEF K
  <2>5. Inserted(Selected(t, K), t[p], p) = Selected(t, K \cup {p})
    BY <1>3, <2>4, SelectedInsert
  <2> QED
    BY <2>1, <2>3, <2>5
<1> HIDE DEF u
<1>9. IsInserted(t, T, u, e, p)
  <2>1. p \in Nat
    BY <1>2
  <2>2. IsInserted(Inserted(u, e, p), T, u, e, p)
    BY <1>7, <2>1, InsertedFacts
  <2> QED
    BY <1>8, <2>2
<1>10. /\ Len(u) = Len(s)
       /\ \A j \in 1..Len(s) + 1 : t[j] = IF j < p THEN u[j] ELSE IF j = p THEN e ELSE u[j - 1]
  <2>1. Len(u) = Len(s)
    BY <1>2, <1>3, <1>7, <1>9 DEF IsInserted
  <2> QED
    BY <1>2, <1>9, <2>1 DEF IsInserted
<1>11. ASSUME NEW i \in 1..Len(s) PROVE u[i] = s[i]
  <2>1. CASE i < p
    <3>1. i \in 1..Len(s) + 1
      BY <1>2
    <3>2. t[i] = s[i] /\ t[i] = u[i]
      BY <1>3, <1>10, <2>1, <3>1
    <3> QED
      BY <3>2
  <2>2. CASE ~(i < p)
    <3>1. i + 1 \in 1..Len(s) + 1 /\ (i + 1) - 1 = i /\ ~(i + 1 < p) /\ i + 1 # p
      BY <1>2, <2>2
    <3>2. t[i + 1] = s[(i + 1) - 1] /\ t[i + 1] = u[(i + 1) - 1]
      BY <1>3, <1>10, <3>1
    <3> QED
      BY <3>1, <3>2
  <2> QED
    BY <2>1, <2>2
<1>12. u = s
  BY <1>7, <1>10, <1>11, SeqEqual
<1> QED
  BY <1>6, <1>12 DEF t

\* No two groups share a node and none is empty.
Apart(groups) ==
  \A i \in DOMAIN groups :
    /\ groups[i].members # {}
    /\ \A j \in DOMAIN groups \ {i} : groups[i].members \cap groups[j].members = {}

\* A group without a node.
Left(group, n) == [group EXCEPT !.members = @ \ {n}]

LEMMA LeftFacts ==
  ASSUME NEW group \in Records["groups"], NEW n
  PROVE  /\ Left(group, n) \in Records["groups"] /\ Left(group, n).id = group.id
         /\ Left(group, n).members = group.members \ {n}
         /\ n \notin group.members => Left(group, n) = group
BY DEF Left, Records

LEMMA GroupsWithoutFacts ==
  ASSUME NEW groups \in Seq(Records["groups"]), Distinct(groups), Apart(groups), NEW n
  PROVE  /\ (\A i \in 1..Len(groups) : n \notin groups[i].members) =>
              GroupsWithout(groups, n) = groups
         /\ \A p \in 1..Len(groups) : n \in groups[p].members =>
              GroupsWithout(groups, n) =
                IF groups[p].members = {n} THEN Without(groups, {groups[p].id})
                                           ELSE Replaced(groups, Left(groups[p], n))
<1> DEFINE left == [i \in DOMAIN groups |-> Left(groups[i], n)]
           K == {i \in DOMAIN left : left[i].members # {}}
<1>1. DOMAIN groups = 1..Len(groups) /\ Len(groups) \in Nat
      /\ \A i \in 1..Len(groups) : groups[i] \in Records["groups"]
  OBVIOUS
<1>2. /\ left \in Seq(Records["groups"]) /\ Len(left) = Len(groups)
      /\ DOMAIN left = 1..Len(groups)
      /\ \A i \in 1..Len(groups) : left[i] = Left(groups[i], n)
  BY <1>1, LeftFacts
<1>3. GroupsWithout(groups, n) = Selected(left, K)
  BY DEF GroupsWithout, Filter, Left
<1> HIDE DEF left
<1>4. \A i \in 1..Len(groups) :
        /\ left[i].members = groups[i].members \ {n} /\ left[i].id = groups[i].id
        /\ n \notin groups[i].members => left[i] = groups[i]
        /\ groups[i].members # {}
  BY <1>1, <1>2, LeftFacts DEF Apart
<1>5. ASSUME \A i \in 1..Len(groups) : n \notin groups[i].members
      PROVE  GroupsWithout(groups, n) = groups
  <2>1. \A i \in 1..Len(groups) : i \in K /\ left[i] = groups[i]
    BY <1>2, <1>4, <1>5
  <2>2. 1..Len(left) \subseteq K
    BY <1>2, <2>1
  <2> HIDE DEF K
  <2>3. Selected(left, K) = left
    BY <1>2, <2>2, SelectedAll
  <2>4. left = groups
    BY <1>2, <2>1, SeqEqual
  <2> QED
    BY <1>3, <2>3, <2>4
<1>6. ASSUME NEW p \in 1..Len(groups), n \in groups[p].members
      PROVE  GroupsWithout(groups, n) =
               IF groups[p].members = {n} THEN Without(groups, {groups[p].id})
                                          ELSE Replaced(groups, Left(groups[p], n))
  <2>1. \A i \in 1..Len(groups) : i # p => n \notin groups[i].members
    BY <1>1, <1>6 DEF Apart
  <2>2. \A i \in 1..Len(groups) : i # p => i \in K /\ left[i] = groups[i]
    BY <1>2, <1>4, <2>1
  <2>3. \A i \in 1..Len(groups) : groups[i].id = groups[p].id <=> i = p
    BY <1>1 DEF Distinct
  <2>4. CASE groups[p].members = {n}
    <3> DEFINE L == Unmarked(groups, {groups[p].id})
    <3>1. p \notin K
      BY <1>4, <2>4
    <3>2. \A i \in 1..Len(groups) : i \in L <=> i # p
      BY <1>1, <2>3 DEF Unmarked
    <3>3. \A i \in 1..Len(left) : (i \in K <=> i \in L) /\ (i \in K => left[i] = groups[i])
      BY <1>2, <2>2, <3>1, <3>2
    <3> HIDE DEF K, L
    <3>4. Selected(left, K) = Selected(groups, L)
      BY <1>2, <3>3, SelectedSame
    <3> QED
      BY <1>3, <2>4, <3>4, WithoutIsSelected DEF L
  <2>5. CASE groups[p].members # {n}
    <3>1. left[p].members # {}
      BY <1>4, <1>6, <2>5
    <3>2. 1..Len(left) \subseteq K
      BY <1>2, <2>2, <3>1
    <3> HIDE DEF K
    <3>3. Selected(left, K) = left
      BY <1>2, <3>2, SelectedAll
    <3>4. Left(groups[p], n).id = groups[p].id /\ Left(groups[p], n) \in Records["groups"]
      BY <1>1, LeftFacts
    <3> DEFINE r == Replaced(groups, Left(groups[p], n))
    <3>5. /\ r = [i \in 1..Len(groups) |->
                   IF groups[i].id = groups[p].id THEN Left(groups[p], n) ELSE groups[i]]
      BY <1>1, <3>4 DEF Replaced
    <3> HIDE DEF r
    <3>6. r \in Seq(Records["groups"]) /\ Len(r) = Len(groups)
      BY <1>1, <3>4, <3>5
    <3>7. \A i \in 1..Len(groups) : r[i] = left[i]
      BY <1>2, <2>2, <2>3, <3>5
    <3>8. r = left
      BY <1>2, <3>6, <3>7, SeqEqual
    <3> QED
      BY <1>3, <2>5, <3>3, <3>8 DEF r
  <2> QED
    BY <2>4, <2>5
<1> QED
  BY <1>5, <1>6
-----------------------------------------------------------------------------
(* Sound documents.                                                        *)

Sound(d) == d \in DocumentRecords /\ Intact(d) /\ Len(d.graphs) <= MaxGraphs

LEMMA GraphFacts ==
  ASSUME NEW d \in DocumentRecords, Intact(d), NEW g, Has(d.graphs, g)
  PROVE  /\ d.graphs \in Seq(GraphRecords) /\ Distinct(d.graphs)
         /\ Graph(d, g) \in GraphRecords /\ Graph(d, g).id = g /\ g \in Nat
         /\ GraphIntact(Graph(d, g))
<1>1. d.graphs \in Seq(GraphRecords) /\ Distinct(d.graphs)
  BY DEF DocumentRecords, Intact
<1> DEFINE s == d.graphs
<1>2. s \in Seq(GraphRecords) /\ Has(s, g)
  BY <1>1
<1> HIDE DEF s
<1>3. /\ IndexOf(s, g) \in 1..Len(s) /\ s[IndexOf(s, g)].id = g
      /\ Item(s, g) \in GraphRecords /\ Item(s, g).id = g
  BY <1>2, ItemFacts
<1>4. Graph(d, g) = s[IndexOf(s, g)] /\ IndexOf(s, g) \in DOMAIN s
  BY <1>2, <1>3 DEF Graph, Item, s
<1>5. GraphIntact(Graph(d, g))
  BY <1>4 DEF Intact, s
<1>6. \A x \in GraphRecords : x.id \in Nat
  BY DEF GraphRecords
<1> QED
  BY <1>1, <1>3, <1>5, <1>6 DEF Graph, s

(* A sound document with one of its graphs replaced by a sound one.        *)
LEMMA PutSound ==
  ASSUME NEW d, Sound(d), NEW x \in GraphRecords, GraphIntact(x), Has(d.graphs, x.id)
  PROVE  Sound(PutGraph(d, x))
<1> DEFINE e == PutGraph(d, x)
<1>1. d \in DocumentRecords /\ Distinct(d.graphs) /\ d.graphs \in Seq(GraphRecords)
      /\ DOMAIN d.graphs = 1..Len(d.graphs) /\ Len(d.graphs) <= MaxGraphs
  BY DEF Sound, Intact, DocumentRecords
<1>2. /\ e \in DocumentRecords /\ Distinct(e.graphs)
      /\ e.entry = d.entry /\ Len(e.graphs) = Len(d.graphs)
      /\ \A g : Has(e.graphs, g) <=> Has(d.graphs, g)
      /\ \A i \in 1..Len(d.graphs) : e.graphs[i] =
           IF d.graphs[i].id = x.id THEN x ELSE d.graphs[i]
  BY <1>1, GraphChanged
<1> HIDE DEF e
<1>3. DOMAIN e.graphs = 1..Len(d.graphs)
  BY <1>2 DEF DocumentRecords
<1>4. \A i \in 1..Len(d.graphs) : GraphIntact(e.graphs[i])
  <2>1. \A i \in 1..Len(d.graphs) : GraphIntact(d.graphs[i])
    BY <1>1 DEF Sound, Intact
  <2> QED
    BY <1>2, <2>1
<1>5. Has(e.graphs, e.entry)
  BY <1>2 DEF Sound, Intact
<1> QED
  BY <1>1, <1>2, <1>3, <1>4, <1>5 DEF Sound, Intact, e

\* The parts of GraphIntact.
EdgesJoin(x) ==
  \A i \in DOMAIN x.edges : Has(x.nodes, x.edges[i].from) /\ Has(x.nodes, x.edges[i].to)
HintsMark(x) ==
  \A i \in DOMAIN x.hints :
    /\ Has(x.edges, x.hints[i].edge)
    /\ Item(x.edges, x.hints[i].edge).kind = "execution"
    /\ \A j \in DOMAIN x.hints : x.hints[i].edge = x.hints[j].edge => i = j
GroupsHold(x) ==
  /\ Apart(x.groups)
  /\ \A i \in DOMAIN x.groups : \A n \in x.groups[i].members : Has(x.nodes, n)

LEMMA IntactParts ==
  ASSUME NEW x
  PROVE  GraphIntact(x) <=>
           /\ \A k \in Kinds : Distinct(x[k])
           /\ EdgesJoin(x) /\ HintsMark(x) /\ GroupsHold(x)
BY DEF GraphIntact, Kinds, EdgesJoin, HintsMark, GroupsHold, Apart

\* The lists of a graph, one by one.
LEMMA Lists ==
  ASSUME NEW x \in GraphRecords
  PROVE  /\ x.nodes \in Seq(Records["nodes"]) /\ x.edges \in Seq(Records["edges"])
         /\ x.hints \in Seq(Records["hints"]) /\ x.groups \in Seq(Records["groups"])
         /\ DOMAIN x.nodes = 1..Len(x.nodes) /\ DOMAIN x.edges = 1..Len(x.edges)
         /\ DOMAIN x.hints = 1..Len(x.hints) /\ DOMAIN x.groups = 1..Len(x.groups)
<1>1. /\ x.nodes \in Seq(Records["nodes"]) /\ x.edges \in Seq(Records["edges"])
      /\ x.hints \in Seq(Records["hints"]) /\ x.groups \in Seq(Records["groups"])
  BY DEF GraphRecords
<1> QED
  BY <1>1, LenProperties

(* The same item in two lists.                                             *)
LEMMA SameItem ==
  ASSUME NEW T, NEW a \in Seq(T), NEW b \in Seq(T), Distinct(a), Distinct(b),
         NEW i \in 1..Len(a), NEW j \in 1..Len(b), a[i] = b[j]
  PROVE  Has(b, a[i].id) /\ Item(b, a[i].id) = Item(a, a[i].id)
<1>1. Item(a, a[i].id) = a[i]
  BY ItemAt
<1>2. Has(b, b[j].id) /\ Item(b, b[j].id) = b[j]
  BY ItemAt
<1> QED
  BY <1>1, <1>2

(* Hints whose edges are still there.                                      *)
LEMMA HintsStay ==
  ASSUME NEW x \in GraphRecords, NEW y \in GraphRecords, HintsMark(x),
         Distinct(x.edges), Distinct(y.edges), Distinct(y.hints),
         \A i \in 1..Len(y.hints) : \E j \in 1..Len(x.hints) : y.hints[i] = x.hints[j],
         \A i \in 1..Len(y.hints) : \A j \in 1..Len(x.edges) :
           x.edges[j].id = y.hints[i].edge => \E k \in 1..Len(y.edges) : y.edges[k] = x.edges[j]
  PROVE  HintsMark(y)
<1> DEFINE hints == y.hints
           edges == y.edges
<1>1. /\ hints \in Seq(Records["hints"]) /\ DOMAIN hints = 1..Len(hints)
      /\ edges \in Seq(Records["edges"]) /\ DOMAIN edges = 1..Len(edges)
      /\ x.edges \in Seq(Records["edges"]) /\ DOMAIN x.edges = 1..Len(x.edges)
      /\ DOMAIN x.hints = 1..Len(x.hints)
  BY Lists
<1>2. ASSUME NEW i \in 1..Len(hints)
      PROVE  /\ Has(edges, hints[i].edge)
             /\ Item(edges, hints[i].edge).kind = "execution"
             /\ \A j \in 1..Len(hints) : hints[i].edge = hints[j].edge => i = j
  <2>1. PICK a \in 1..Len(x.hints) : hints[i] = x.hints[a]
    OBVIOUS
  <2>2. Has(x.edges, hints[i].edge) /\ Item(x.edges, hints[i].edge).kind = "execution"
    BY <1>1, <2>1 DEF HintsMark
  <2>3. PICK c \in 1..Len(x.edges) : x.edges[c].id = hints[i].edge
    BY <1>1, <2>2 DEF Has
  <2>4. PICK b \in 1..Len(edges) : edges[b] = x.edges[c]
    BY <2>3
  <2>5. Has(edges, hints[i].edge) /\ Item(edges, hints[i].edge) = Item(x.edges, hints[i].edge)
    <3>1. Has(edges, x.edges[c].id) /\ Item(edges, x.edges[c].id) = Item(x.edges, x.edges[c].id)
      BY <1>1, <2>4, SameItem
    <3> QED
      BY <2>3, <3>1
  <2>6. ASSUME NEW j \in 1..Len(hints), hints[i].edge = hints[j].edge PROVE i = j
    <3>1. PICK b1 \in 1..Len(x.hints) : hints[j] = x.hints[b1]
      OBVIOUS
    <3>2. a = b1
      BY <1>1, <2>1, <2>6, <3>1 DEF HintsMark
    <3>3. hints[i].id = hints[j].id
      BY <2>1, <3>1, <3>2
    <3> QED
      BY <1>1, <3>3 DEF Distinct
  <2> QED
    BY <2>2, <2>5, <2>6
<1> QED
  BY <1>1, <1>2 DEF HintsMark

(* Some of the groups are apart as all of them are.                        *)
LEMMA GroupsStay ==
  ASSUME NEW T, NEW s \in Seq(T), NEW t \in Seq(T), Apart(s), Distinct(t),
         \A i \in 1..Len(t) : \E j \in 1..Len(s) : t[i] = s[j]
  PROVE  Apart(t)
<1>1. DOMAIN s = 1..Len(s) /\ DOMAIN t = 1..Len(t)
  OBVIOUS
<1>2. ASSUME NEW i \in 1..Len(t)
      PROVE  /\ t[i].members # {}
             /\ \A j \in 1..Len(t) : j # i => t[i].members \cap t[j].members = {}
  <2>1. PICK a \in 1..Len(s) : t[i] = s[a]
    OBVIOUS
  <2>2. ASSUME NEW j \in 1..Len(t), j # i PROVE t[i].members \cap t[j].members = {}
    <3>1. PICK b \in 1..Len(s) : t[j] = s[b]
      OBVIOUS
    <3>2. t[i].id # t[j].id
      BY <1>1, <2>2 DEF Distinct
    <3>3. a # b
      BY <2>1, <3>1, <3>2
    <3> QED
      BY <1>1, <2>1, <3>1, <3>3, SMTT(30) DEF Apart
  <2> QED
    BY <1>1, <2>1, <2>2 DEF Apart
<1> QED
  BY <1>1, <1>2 DEF Apart

(* Removing a node.                                                        *)
LEMMA NodeRemovedIntact ==
  ASSUME NEW x \in GraphRecords, GraphIntact(x), NEW n
  PROVE  NodeRemoved(x, n) \in GraphRecords /\ GraphIntact(NodeRemoved(x, n))
         /\ NodeRemoved(x, n).id = x.id
<1> DEFINE cut == EdgesOf(x, n)
           marks == HintsOf(x, cut)
           nodes == Without(x.nodes, {n})
           edges == Without(x.edges, cut)
           hints == Without(x.hints, marks)
           groups == GroupsWithout(x.groups, n)
           y == [x EXCEPT !.nodes = nodes, !.edges = edges, !.hints = hints, !.groups = groups]
<1>1. NodeRemoved(x, n) = y
  BY DEF NodeRemoved
<1>2. /\ \A k \in Kinds : Distinct(x[k])
      /\ EdgesJoin(x) /\ HintsMark(x) /\ GroupsHold(x)
  BY IntactParts
<1>3. Distinct(x.nodes) /\ Distinct(x.edges) /\ Distinct(x.hints) /\ Distinct(x.groups)
  BY <1>2 DEF Kinds
<1>4. /\ nodes \in Seq(Records["nodes"]) /\ Distinct(nodes)
      /\ \A m : Has(nodes, m) <=> Has(x.nodes, m) /\ m # n
  <2>1. IsWithout(nodes, Records["nodes"], x.nodes, {n})
    BY Lists, WithoutFacts
  <2> HIDE DEF nodes
  <2> QED
    BY <1>3, <2>1 DEF IsWithout
<1>5. /\ edges \in Seq(Records["edges"]) /\ Distinct(edges)
      /\ \A id : Has(edges, id) <=> Has(x.edges, id) /\ id \notin cut
      /\ \A i \in 1..Len(edges) : \E j \in 1..Len(x.edges) :
           x.edges[j].id \notin cut /\ edges[i] = x.edges[j]
      /\ \A j \in 1..Len(x.edges) : x.edges[j].id \notin cut =>
           \E i \in 1..Len(edges) : edges[i] = x.edges[j]
  <2>1. IsWithout(edges, Records["edges"], x.edges, cut)
    BY Lists, WithoutFacts
  <2> HIDE DEF edges, cut
  <2> QED
    BY <1>3, <2>1 DEF IsWithout
<1>6. /\ hints \in Seq(Records["hints"]) /\ Distinct(hints)
      /\ \A i \in 1..Len(hints) : \E j \in 1..Len(x.hints) :
           x.hints[j].id \notin marks /\ hints[i] = x.hints[j]
  <2>1. IsWithout(hints, Records["hints"], x.hints, marks)
    BY Lists, WithoutFacts, SMTT(30)
  <2> HIDE DEF hints, marks
  <2> QED
    BY <1>3, <2>1 DEF IsWithout
<1> HIDE DEF nodes, edges, hints
<1>7. /\ \A j \in 1..Len(x.edges) : x.edges[j].id \notin cut =>
           x.edges[j].from # n /\ x.edges[j].to # n
      /\ \A j \in 1..Len(x.hints) : x.hints[j].id \notin marks => x.hints[j].edge \notin cut
  BY Lists DEF EdgesOf, HintsOf, Touches
<1> HIDE DEF cut, marks
<1>8. /\ groups \in Seq(Records["groups"]) /\ Distinct(groups)
      /\ Apart(groups)
      /\ \A i \in 1..Len(groups) : \A m \in groups[i].members : Has(x.nodes, m) /\ m # n
  <2> DEFINE s == x.groups
  <2>1. s \in Seq(Records["groups"]) /\ Distinct(s) /\ Apart(s)
        /\ DOMAIN s = 1..Len(s)
    BY <1>2, <1>3, Lists DEF GroupsHold
  <2>2. \A i \in 1..Len(s) : \A m \in s[i].members : Has(x.nodes, m)
    BY <1>2, Lists DEF GroupsHold
  <2> HIDE DEF s
  <2>3. CASE \A i \in 1..Len(s) : n \notin s[i].members
    <3>1. GroupsWithout(s, n) = s
      BY <2>1, <2>3, GroupsWithoutFacts
    <3> QED
      BY <2>1, <2>2, <2>3, <3>1 DEF s
  <2>4. ASSUME NEW p \in 1..Len(s), n \in s[p].members
        PROVE  /\ groups \in Seq(Records["groups"]) /\ Distinct(groups)
               /\ Apart(groups)
               /\ \A i \in 1..Len(groups) : \A m \in groups[i].members : Has(x.nodes, m) /\ m # n
    <3>1. \A i \in 1..Len(s) : i # p => n \notin s[i].members
      BY <2>1, <2>4 DEF Apart
    <3>2. groups = IF s[p].members = {n} THEN Without(s, {s[p].id}) ELSE Replaced(s, Left(s[p], n))
      BY <2>1, <2>4, GroupsWithoutFacts DEF s
    <3> HIDE DEF groups
    <3>3. CASE s[p].members = {n}
      <4> DEFINE ids == {s[p].id}
      <4>1. groups = Without(s, ids)
        BY <3>2, <3>3
      <4>2. \A id : id \notin ids <=> id # s[p].id
        OBVIOUS
      <4> HIDE DEF ids
      <4>3. /\ groups \in Seq(Records["groups"]) /\ Distinct(groups)
            /\ \A i \in 1..Len(groups) : \E j \in 1..Len(s) :
                 s[j].id \notin ids /\ groups[i] = s[j]
        <5>1. IsWithout(Without(s, ids), Records["groups"], s, ids)
          BY <2>1, WithoutFacts
        <5> QED
          BY <2>1, <4>1, <5>1 DEF IsWithout
      <4>4. DOMAIN groups = 1..Len(groups)
        BY <4>3
      <4>5. \A i \in 1..Len(groups) : \A m \in groups[i].members : Has(x.nodes, m) /\ m # n
        BY <2>2, <3>1, <4>2, <4>3
      <4>6. Apart(groups)
        BY <2>1, <4>3, GroupsStay
      <4> QED
        BY <4>3, <4>5, <4>6
    <3>4. CASE s[p].members # {n}
      <4> DEFINE r == Left(s[p], n)
      <4>1. s[p] \in Records["groups"]
        BY <2>1
      <4>2. r \in Records["groups"] /\ r.id = s[p].id /\ r.members = s[p].members \ {n}
        BY <4>1, LeftFacts
      <4> HIDE DEF r
      <4>3. groups = Replaced(s, r)
        BY <3>2, <3>4 DEF r
      <4>4. /\ groups \in Seq(Records["groups"]) /\ Len(groups) = Len(s)
            /\ \A i \in 1..Len(s) : groups[i] = IF s[i].id = r.id THEN r ELSE s[i]
            /\ Distinct(groups)
        <5>1. IsReplaced(Replaced(s, r), Records["groups"], s, r)
          BY <2>1, <4>2, ReplacedFacts
        <5> QED
          BY <2>1, <4>3, <5>1 DEF IsReplaced
      <4>5. \A i \in 1..Len(s) : s[i].id = r.id <=> i = p
        BY <2>1, <4>2 DEF Distinct
      <4>6. \A i \in 1..Len(s) : groups[i] = IF i = p THEN r ELSE s[i]
        BY <4>4, <4>5
      <4>7. DOMAIN groups = 1..Len(s)
        BY <4>4
      <4>8. \A i \in 1..Len(s) : groups[i].members \subseteq s[i].members
                                 /\ n \notin groups[i].members
        BY <3>1, <4>2, <4>6
      <4>9. \A i \in 1..Len(s) : groups[i].members # {}
        BY <2>1, <2>4, <3>4, <4>2, <4>6 DEF Apart
      <4>10. Apart(groups)
        <5>1. \A i, j \in 1..Len(s) : j # i => groups[i].members \cap groups[j].members = {}
          BY <2>1, <4>8 DEF Apart
        <5> QED
          BY <4>7, <4>9, <5>1 DEF Apart
      <4> QED
        BY <2>2, <4>4, <4>8, <4>10
    <3> QED
      BY <3>3, <3>4
  <2> QED
    BY <2>3, <2>4
<1> HIDE DEF groups
<1>9. y \in GraphRecords /\ y.id = x.id /\ y.nodes = nodes /\ y.edges = edges
      /\ y.hints = hints /\ y.groups = groups
  BY <1>4, <1>5, <1>6, <1>8 DEF GraphRecords
<1> HIDE DEF y
<1>10. /\ DOMAIN edges = 1..Len(edges) /\ DOMAIN hints = 1..Len(hints)
       /\ DOMAIN groups = 1..Len(groups)
  BY <1>5, <1>6, <1>8, LenProperties
<1>11. EdgesJoin(y)
  <2> SUFFICES ASSUME NEW i \in 1..Len(edges) PROVE Has(nodes, edges[i].from) /\ Has(nodes, edges[i].to)
    BY <1>9, <1>10 DEF EdgesJoin
  <2>1. PICK j \in 1..Len(x.edges) : x.edges[j].id \notin cut /\ edges[i] = x.edges[j]
    BY <1>5
  <2>2. Has(x.nodes, x.edges[j].from) /\ Has(x.nodes, x.edges[j].to)
    BY <1>2, Lists DEF EdgesJoin
  <2> QED
    BY <1>4, <1>7, <2>1, <2>2
<1>12. HintsMark(y)
  <2>1. \A i \in 1..Len(hints) : \E j \in 1..Len(x.hints) : hints[i] = x.hints[j]
    BY <1>6
  <2>2. \A i \in 1..Len(hints) : \A j \in 1..Len(x.edges) :
          x.edges[j].id = hints[i].edge => \E k \in 1..Len(edges) : edges[k] = x.edges[j]
    <3> TAKE i \in 1..Len(hints)
    <3> TAKE j \in 1..Len(x.edges)
    <3>1. hints[i].edge \notin cut
      BY <1>6, <1>7
    <3> QED
      BY <1>5, <3>1
  <2>3. /\ \A i \in 1..Len(y.hints) : \E j \in 1..Len(x.hints) : y.hints[i] = x.hints[j]
        /\ \A i \in 1..Len(y.hints) : \A j \in 1..Len(x.edges) :
             x.edges[j].id = y.hints[i].edge => \E k \in 1..Len(y.edges) : y.edges[k] = x.edges[j]
        /\ y \in GraphRecords /\ HintsMark(x)
        /\ Distinct(x.edges) /\ Distinct(y.edges) /\ Distinct(y.hints)
    BY <1>2, <1>3, <1>5, <1>6, <1>9, <2>1, <2>2
  <2> QED
    BY <2>3, HintsStay
<1>13. GroupsHold(y)
  <2>1. \A i \in 1..Len(groups) : \A m \in groups[i].members : Has(nodes, m)
    BY <1>4, <1>8
  <2> QED
    BY <1>8, <1>9, <1>10, <2>1 DEF GroupsHold
<1>14. \A k \in Kinds : Distinct(y[k])
  BY <1>4, <1>5, <1>6, <1>8, <1>9 DEF Kinds
<1>15. GraphIntact(y)
  BY <1>11, <1>12, <1>13, <1>14, IntactParts
<1> QED
  BY <1>1, <1>9, <1>15 DEF y
(* Removing an edge.                                                       *)
LEMMA EdgeRemovedIntact ==
  ASSUME NEW x \in GraphRecords, GraphIntact(x), NEW id
  PROVE  EdgeRemoved(x, id) \in GraphRecords /\ GraphIntact(EdgeRemoved(x, id))
         /\ EdgeRemoved(x, id).id = x.id
<1> DEFINE marks == HintsOf(x, {id})
           edges == Without(x.edges, {id})
           hints == Without(x.hints, marks)
           y == [x EXCEPT !.edges = edges, !.hints = hints]
<1>1. EdgeRemoved(x, id) = y
  BY DEF EdgeRemoved
<1>2. /\ \A k \in Kinds : Distinct(x[k])
      /\ EdgesJoin(x) /\ HintsMark(x) /\ GroupsHold(x)
  BY IntactParts
<1>3. Distinct(x.nodes) /\ Distinct(x.edges) /\ Distinct(x.hints) /\ Distinct(x.groups)
  BY <1>2 DEF Kinds
<1>4. /\ edges \in Seq(Records["edges"]) /\ Distinct(edges)
      /\ \A i \in 1..Len(edges) : \E j \in 1..Len(x.edges) : edges[i] = x.edges[j]
      /\ \A j \in 1..Len(x.edges) : x.edges[j].id # id =>
           \E i \in 1..Len(edges) : edges[i] = x.edges[j]
  <2>1. IsWithout(edges, Records["edges"], x.edges, {id})
    BY Lists, WithoutFacts
  <2> HIDE DEF edges
  <2> QED
    BY <1>3, <2>1 DEF IsWithout
<1>5. /\ hints \in Seq(Records["hints"]) /\ Distinct(hints)
      /\ \A i \in 1..Len(hints) : \E j \in 1..Len(x.hints) :
           x.hints[j].id \notin marks /\ hints[i] = x.hints[j]
  <2>1. IsWithout(hints, Records["hints"], x.hints, marks)
    BY Lists, WithoutFacts
  <2> HIDE DEF hints, marks
  <2> QED
    BY <1>3, <2>1 DEF IsWithout
<1> HIDE DEF edges, hints
<1>6. \A j \in 1..Len(x.hints) : x.hints[j].id \notin marks => x.hints[j].edge # id
  BY Lists DEF HintsOf
<1> HIDE DEF marks
<1>7. /\ y \in GraphRecords /\ y.id = x.id /\ y.nodes = x.nodes /\ y.edges = edges
      /\ y.hints = hints /\ y.groups = x.groups
  BY <1>4, <1>5 DEF GraphRecords
<1> HIDE DEF y
<1>8. EdgesJoin(y)
  <2>1. DOMAIN edges = 1..Len(edges)
    BY <1>4
  <2>2. \A i \in 1..Len(edges) : Has(x.nodes, edges[i].from) /\ Has(x.nodes, edges[i].to)
    BY <1>2, <1>4, Lists DEF EdgesJoin
  <2> QED
    BY <1>7, <2>1, <2>2 DEF EdgesJoin
<1>9. HintsMark(y)
  <2>1. \A i \in 1..Len(hints) : \A j \in 1..Len(x.edges) :
          x.edges[j].id = hints[i].edge => \E k \in 1..Len(edges) : edges[k] = x.edges[j]
    <3> TAKE i \in 1..Len(hints)
    <3> TAKE j \in 1..Len(x.edges)
    <3>1. hints[i].edge # id
      BY <1>5, <1>6
    <3> QED
      BY <1>4, <3>1
  <2>2. /\ \A i \in 1..Len(y.hints) : \E j \in 1..Len(x.hints) : y.hints[i] = x.hints[j]
        /\ \A i \in 1..Len(y.hints) : \A j \in 1..Len(x.edges) :
             x.edges[j].id = y.hints[i].edge => \E k \in 1..Len(y.edges) : y.edges[k] = x.edges[j]
        /\ y \in GraphRecords /\ HintsMark(x)
        /\ Distinct(x.edges) /\ Distinct(y.edges) /\ Distinct(y.hints)
    BY <1>2, <1>3, <1>4, <1>5, <1>7, <2>1
  <2> QED
    BY <2>2, HintsStay
<1>10. GroupsHold(y)
  BY <1>2, <1>7 DEF GroupsHold
<1>11. \A k \in Kinds : Distinct(y[k])
  BY <1>3, <1>4, <1>5, <1>7 DEF Kinds
<1>12. GraphIntact(y)
  BY <1>8, <1>9, <1>10, <1>11, IntactParts
<1> QED
  BY <1>1, <1>7, <1>12 DEF y

(* Removing a hint or a group.                                             *)
LEMMA ItemRemovedIntact ==
  ASSUME NEW x \in GraphRecords, GraphIntact(x), NEW k \in {"hints", "groups"}, NEW id
  PROVE  ItemRemoved(x, k, id) \in GraphRecords /\ GraphIntact(ItemRemoved(x, k, id))
         /\ ItemRemoved(x, k, id).id = x.id
<1> DEFINE s == Without(x[k], {id})
           y == [x EXCEPT ![k] = s]
<1>1. ItemRemoved(x, k, id) = y
  BY DEF ItemRemoved
<1>2. /\ \A l \in Kinds : Distinct(x[l])
      /\ EdgesJoin(x) /\ HintsMark(x) /\ GroupsHold(x) /\ k \in Kinds
  BY IntactParts DEF Kinds
<1>3. x[k] \in Seq(Records[k]) /\ Distinct(x[k])
  BY <1>2 DEF GraphRecords, Kinds
<1>4. /\ s \in Seq(Records[k]) /\ Distinct(s)
      /\ \A i \in 1..Len(s) : \E j \in 1..Len(x[k]) : s[i] = x[k][j]
  <2>1. IsWithout(s, Records[k], x[k], {id})
    BY <1>3, WithoutFacts
  <2> HIDE DEF s
  <2> QED
    BY <1>3, <2>1 DEF IsWithout
<1> HIDE DEF s
<1>5. /\ y \in GraphRecords /\ y.id = x.id /\ y.nodes = x.nodes /\ y.edges = x.edges
      /\ y[k] = s
  BY <1>4 DEF GraphRecords
<1>6. (k = "hints" => y.groups = x.groups) /\ (k = "groups" => y.hints = x.hints)
  BY DEF GraphRecords
<1> HIDE DEF y
<1>7. EdgesJoin(y)
  BY <1>2, <1>5 DEF EdgesJoin
<1>8. \A l \in Kinds : Distinct(y[l])
  BY <1>2, <1>4, <1>5, <1>6 DEF Kinds
<1>9. HintsMark(y) /\ GroupsHold(y)
  <2>1. CASE k = "hints"
    <3>1. GroupsHold(y)
      BY <1>2, <1>5, <1>6, <2>1 DEF GroupsHold
    <3>2. /\ \A i \in 1..Len(y.hints) : \E j \in 1..Len(x.hints) : y.hints[i] = x.hints[j]
          /\ \A i \in 1..Len(y.hints) : \A j \in 1..Len(x.edges) :
               x.edges[j].id = y.hints[i].edge => \E m \in 1..Len(y.edges) : y.edges[m] = x.edges[j]
          /\ y \in GraphRecords /\ HintsMark(x)
          /\ Distinct(x.edges) /\ Distinct(y.edges) /\ Distinct(y.hints)
      BY <1>2, <1>4, <1>5, <1>8, <2>1 DEF Kinds
    <3> QED
      BY <3>1, <3>2, HintsStay
  <2>2. CASE k = "groups"
    <3>1. HintsMark(y)
      BY <1>2, <1>5, <1>6, <2>2 DEF HintsMark
    <3>2. Apart(x.groups) /\ DOMAIN x.groups = 1..Len(x.groups)
          /\ x.groups \in Seq(Records["groups"])
      BY <1>2, Lists DEF GroupsHold
    <3>3. s \in Seq(Records["groups"]) /\ DOMAIN s = 1..Len(s) /\ y.groups = s
          /\ \A i \in 1..Len(s) : \E j \in 1..Len(x.groups) : s[i] = x.groups[j]
      BY <1>4, <1>5, <2>2
    <3>4. Apart(s)
      BY <1>4, <3>2, <3>3, GroupsStay
    <3>5. \A i \in 1..Len(s) : \A n \in s[i].members : Has(x.nodes, n)
      BY <1>2, <3>2, <3>3 DEF GroupsHold
    <3> QED
      BY <1>5, <3>1, <3>3, <3>4, <3>5 DEF GroupsHold
  <2> QED
    BY <2>1, <2>2
<1>10. GraphIntact(y)
  BY <1>7, <1>8, <1>9, IntactParts
<1> QED
  BY <1>1, <1>5, <1>10 DEF y

(* Replacing a node.                                                       *)
LEMMA NodeReplacedIntact ==
  ASSUME NEW x \in GraphRecords, GraphIntact(x), NEW item \in Records["nodes"]
  PROVE  LET y == [x EXCEPT !.nodes = Replaced(x.nodes, item)] IN
         y \in GraphRecords /\ GraphIntact(y) /\ y.id = x.id
<1> DEFINE s == Replaced(x.nodes, item)
           y == [x EXCEPT !.nodes = s]
<1>1. /\ \A l \in Kinds : Distinct(x[l])
      /\ EdgesJoin(x) /\ HintsMark(x) /\ GroupsHold(x)
  BY IntactParts
<1>2. IsReplaced(s, Records["nodes"], x.nodes, item)
  BY Lists, ReplacedFacts
<1> HIDE DEF s
<1>3. s \in Seq(Records["nodes"]) /\ Distinct(s) /\ \A id : Has(s, id) <=> Has(x.nodes, id)
  BY <1>1, <1>2 DEF IsReplaced, Kinds
<1>4. /\ y \in GraphRecords /\ y.id = x.id /\ y.nodes = s /\ y.edges = x.edges
      /\ y.hints = x.hints /\ y.groups = x.groups
  BY <1>3 DEF GraphRecords
<1> HIDE DEF y
<1>5. EdgesJoin(y) /\ HintsMark(y) /\ GroupsHold(y)
  <2>1. EdgesJoin(y)
    BY <1>1, <1>3, <1>4 DEF EdgesJoin
  <2>2. HintsMark(y)
    BY <1>1, <1>4 DEF HintsMark
  <2>3. GroupsHold(y)
    BY <1>1, <1>3, <1>4 DEF GroupsHold
  <2> QED
    BY <2>1, <2>2, <2>3
<1>6. \A l \in Kinds : Distinct(y[l])
  BY <1>1, <1>3, <1>4 DEF Kinds
<1>7. GraphIntact(y)
  BY <1>5, <1>6, IntactParts
<1> QED
  BY <1>4, <1>7 DEF y, s
(* Adding an item.                                                         *)
LEMMA AddedIntact ==
  ASSUME NEW x \in GraphRecords, GraphIntact(x), NEW k \in Kinds, NEW item \in Records[k],
         NEW index \in Nat, ~Has(x[k], item.id), Storable(x, k, item),
         k = "edges" => Has(x.nodes, item.from) /\ Has(x.nodes, item.to),
         k = "groups" => item.members # {}
  PROVE  LET y == [x EXCEPT ![k] = Inserted(x[k], item, index)] IN
         y \in GraphRecords /\ GraphIntact(y) /\ y.id = x.id
<1> DEFINE s == Inserted(x[k], item, index)
           y == [x EXCEPT ![k] = s]
<1>1. /\ \A l \in Kinds : Distinct(x[l])
      /\ EdgesJoin(x) /\ HintsMark(x) /\ GroupsHold(x)
  BY IntactParts
<1>2. x[k] \in Seq(Records[k]) /\ Distinct(x[k]) /\ DOMAIN x[k] = 1..Len(x[k])
  <2>1. x[k] \in Seq(Records[k])
    BY DEF GraphRecords, Kinds
  <2> QED
    BY <1>1, <2>1, LenProperties
<1>3. IsWith(s, Records[k], x[k], item)
  BY <1>2, InsertedElements
<1> HIDE DEF s
<1>4. /\ s \in Seq(Records[k]) /\ DOMAIN s = 1..Len(s) /\ Distinct(s)
      /\ \A i \in 1..Len(s) : s[i] = item \/ \E j \in 1..Len(x[k]) : s[i] = x[k][j]
      /\ \A j \in 1..Len(x[k]) : \E i \in 1..Len(s) : s[i] = x[k][j]
      /\ \A id : Has(s, id) <=> Has(x[k], id) \/ id = item.id
  BY <1>2, <1>3 DEF IsWith
<1>5. y \in GraphRecords /\ y.id = x.id /\ y[k] = s /\ \A l \in Kinds \ {k} : y[l] = x[l]
  BY <1>4 DEF GraphRecords, Kinds
<1> HIDE DEF y
<1>6. \A l \in Kinds : Distinct(y[l])
  BY <1>1, <1>4, <1>5
<1>7. ASSUME k = "nodes" PROVE GraphIntact(y)
  <2>1. /\ y.nodes = s /\ y.edges = x.edges /\ y.hints = x.hints /\ y.groups = x.groups
        /\ \A id : Has(x.nodes, id) => Has(s, id)
    BY <1>4, <1>5, <1>7 DEF Kinds
  <2>2. EdgesJoin(y)
    BY <1>1, <2>1 DEF EdgesJoin
  <2>3. HintsMark(y)
    BY <1>1, <2>1 DEF HintsMark
  <2>4. GroupsHold(y)
    BY <1>1, <2>1 DEF GroupsHold
  <2> QED
    BY <1>6, <2>2, <2>3, <2>4, IntactParts
<1>8. ASSUME k = "edges" PROVE GraphIntact(y)
  <2>1. /\ y.edges = s /\ y.nodes = x.nodes /\ y.hints = x.hints /\ y.groups = x.groups
    BY <1>5, <1>8 DEF Kinds
  <2>2. EdgesJoin(y)
    <3>1. \A i \in 1..Len(s) : Has(x.nodes, s[i].from) /\ Has(x.nodes, s[i].to)
      <4> TAKE i \in 1..Len(s)
      <4>1. s[i] = item \/ \E j \in 1..Len(x.edges) : s[i] = x.edges[j]
        BY <1>4, <1>8
      <4>2. \A j \in 1..Len(x.edges) : Has(x.nodes, x.edges[j].from) /\ Has(x.nodes, x.edges[j].to)
        BY <1>1, Lists DEF EdgesJoin
      <4> QED
        BY <1>8, <4>1, <4>2
    <3> QED
      BY <1>4, <2>1, <3>1 DEF EdgesJoin
  <2>3. HintsMark(y)
    <3>1. /\ \A i \in 1..Len(y.hints) : \E j \in 1..Len(x.hints) : y.hints[i] = x.hints[j]
          /\ \A i \in 1..Len(y.hints) : \A j \in 1..Len(x.edges) :
               x.edges[j].id = y.hints[i].edge => \E m \in 1..Len(y.edges) : y.edges[m] = x.edges[j]
          /\ y \in GraphRecords /\ HintsMark(x)
          /\ Distinct(x.edges) /\ Distinct(y.edges) /\ Distinct(y.hints)
      BY <1>1, <1>4, <1>5, <1>6, <1>8, <2>1 DEF Kinds
    <3> QED
      BY <3>1, HintsStay
  <2>4. GroupsHold(y)
    BY <1>1, <2>1 DEF GroupsHold
  <2> QED
    BY <1>6, <2>2, <2>3, <2>4, IntactParts
<1>9. ASSUME k = "groups" PROVE GraphIntact(y)
  <2>1. /\ y.edges = x.edges /\ y.nodes = x.nodes /\ y.hints = x.hints /\ y.groups = s
    BY <1>5, <1>9 DEF Kinds
  <2>2. EdgesJoin(y)
    BY <1>1, <2>1 DEF EdgesJoin
  <2>3. HintsMark(y)
    BY <1>1, <2>1 DEF HintsMark
  <2>4. /\ \A n \in item.members : Has(x.nodes, n)
        /\ \A i \in 1..Len(x.groups) : x.groups[i].members \cap item.members = {}
    <3>1. /\ \A n \in item.members : Has(x.nodes, n)
          /\ \A i \in DOMAIN x.groups : \/ x.groups[i].id = item.id
                                        \/ x.groups[i].members \cap item.members = {}
      BY <1>9 DEF Storable
    <3>2. \A i \in 1..Len(x.groups) : x.groups[i].id # item.id
      BY <1>2, <1>9 DEF Has
    <3> QED
      BY <3>1, <3>2, Lists
  <2>5. /\ \A i \in 1..Len(s) : s[i] = item \/ \E j \in 1..Len(x.groups) : s[i] = x.groups[j]
        /\ DOMAIN s = 1..Len(s) /\ Distinct(s)
    BY <1>4, <1>9
  <2>6. \A i \in 1..Len(s) : \A n \in s[i].members : Has(x.nodes, n)
    <3>1. \A j \in 1..Len(x.groups) : \A n \in x.groups[j].members : Has(x.nodes, n)
      BY <1>1, Lists DEF GroupsHold
    <3> QED
      BY <2>4, <2>5, <3>1
  <2>7. /\ \A j \in 1..Len(x.groups) : x.groups[j].members # {}
        /\ \A j, l \in 1..Len(x.groups) : j # l =>
             x.groups[j].members \cap x.groups[l].members = {}
    <3>1. Apart(x.groups) /\ DOMAIN x.groups = 1..Len(x.groups)
      BY <1>1, Lists DEF GroupsHold
    <3> QED
      BY ONLY <3>1 DEF Apart
  <2>8. \A i \in 1..Len(s) : s[i].members # {}
    BY <1>9, <2>5, <2>7
  <2>9. ASSUME NEW i \in 1..Len(s), NEW j \in 1..Len(s), i # j
        PROVE  s[i].members \cap s[j].members = {}
    <3>1. s[i].id # s[j].id
      BY <2>5, <2>9 DEF Distinct
    <3>2. CASE s[i] = item
      <4>1. PICK b \in 1..Len(x.groups) : s[j] = x.groups[b]
        BY <2>5, <3>1, <3>2
      <4> QED
        BY <2>4, <3>2, <4>1
    <3>3. CASE s[j] = item
      <4>1. PICK a \in 1..Len(x.groups) : s[i] = x.groups[a]
        BY <2>5, <3>1, <3>3
      <4> QED
        BY <2>4, <3>3, <4>1
    <3>4. CASE s[i] # item /\ s[j] # item
      <4>1. PICK a \in 1..Len(x.groups) : s[i] = x.groups[a]
        BY <2>5, <3>4
      <4>2. PICK b \in 1..Len(x.groups) : s[j] = x.groups[b]
        BY <2>5, <3>4
      <4>3. a # b
        BY <3>1, <4>1, <4>2
      <4> QED
        BY <2>7, <4>1, <4>2, <4>3
    <3> QED
      BY <3>2, <3>3, <3>4
  <2>10. GroupsHold(y)
    BY <2>1, <2>5, <2>6, <2>8, <2>9 DEF GroupsHold, Apart
  <2> QED
    BY <1>6, <2>2, <2>3, <2>10, IntactParts
<1>10. ASSUME k = "hints" PROVE GraphIntact(y)
  <2>1. /\ y.edges = x.edges /\ y.nodes = x.nodes /\ y.groups = x.groups /\ y.hints = s
    BY <1>5, <1>10 DEF Kinds
  <2>2. EdgesJoin(y)
    BY <1>1, <2>1 DEF EdgesJoin
  <2>3. GroupsHold(y)
    BY <1>1, <2>1 DEF GroupsHold
  <2>4. /\ \A i \in 1..Len(x.hints) : x.hints[i].edge # item.edge
        /\ Has(x.edges, item.edge) /\ Item(x.edges, item.edge).kind = "execution"
    <3>1. /\ \A i \in DOMAIN x.hints : x.hints[i].edge # item.edge
          /\ \E i \in DOMAIN x.edges : x.edges[i].id = item.edge /\ x.edges[i].kind = "execution"
      BY <1>10 DEF Storable
    <3>2. PICK i \in 1..Len(x.edges) : x.edges[i].id = item.edge /\ x.edges[i].kind = "execution"
      BY <3>1, Lists
    <3>3. Has(x.edges, x.edges[i].id) /\ Item(x.edges, x.edges[i].id) = x.edges[i]
      <4>1. x.edges \in Seq(Records["edges"]) /\ Distinct(x.edges)
        BY <1>1, Lists DEF Kinds
      <4> QED
        BY <4>1, ItemAt
    <3> QED
      BY <3>1, <3>2, <3>3, Lists
  <2>5. /\ \A i \in 1..Len(s) : s[i] = item \/ \E j \in 1..Len(x.hints) : s[i] = x.hints[j]
        /\ DOMAIN s = 1..Len(s) /\ Distinct(s)
    BY <1>4, <1>10
  <2>6. /\ \A j \in 1..Len(x.hints) : /\ Has(x.edges, x.hints[j].edge)
                                      /\ Item(x.edges, x.hints[j].edge).kind = "execution"
        /\ \A j, l \in 1..Len(x.hints) : x.hints[j].edge = x.hints[l].edge => j = l
    BY <1>1, Lists DEF HintsMark
  <2>7. \A i \in 1..Len(s) : Has(x.edges, s[i].edge) /\ Item(x.edges, s[i].edge).kind = "execution"
    BY <2>4, <2>5, <2>6
  <2>8. ASSUME NEW i \in 1..Len(s), NEW j \in 1..Len(s), s[i].edge = s[j].edge PROVE i = j
    <3>1. s[i].id = s[j].id => i = j
      BY <2>5 DEF Distinct
    <3>2. CASE s[i] = item
      <4>1. s[j] = item
        BY <2>4, <2>5, <2>8, <3>2
      <4> QED
        BY <3>1, <3>2, <4>1
    <3>3. CASE s[i] # item
      <4>1. PICK a \in 1..Len(x.hints) : s[i] = x.hints[a]
        BY <2>5, <3>3
      <4>2. PICK b \in 1..Len(x.hints) : s[j] = x.hints[b]
        BY <2>4, <2>5, <2>8, <4>1
      <4>3. a = b
        BY <2>6, <2>8, <4>1, <4>2
      <4> QED
        BY <3>1, <4>1, <4>2, <4>3
    <3> QED
      BY <3>2, <3>3
  <2>9. HintsMark(y)
    BY <2>1, <2>5, <2>7, <2>8 DEF HintsMark
  <2> QED
    BY <1>6, <2>2, <2>3, <2>9, IntactParts
<1> QED
  BY <1>5, <1>7, <1>8, <1>9, <1>10 DEF Kinds, y, s
-----------------------------------------------------------------------------
(* An item that was added is removed without taking anything along.        *)

LEMMA ListBack ==
  ASSUME NEW x \in GraphRecords, NEW k \in Kinds, NEW s
  PROVE  [[x EXCEPT ![k] = s] EXCEPT ![k] = x[k]] = x
BY DEF GraphRecords, Kinds

LEMMA AddedNodeRemoved ==
  ASSUME NEW x \in GraphRecords, GraphIntact(x), NEW item \in Records["nodes"],
         NEW index \in Nat, ~Has(x.nodes, item.id)
  PROVE  NodeRemoved([x EXCEPT !.nodes = Inserted(x.nodes, item, index)], item.id) = x
<1> DEFINE s == Inserted(x.nodes, item, index)
           y == [x EXCEPT !.nodes = s]
           n == item.id
<1>1. EdgesJoin(x) /\ HintsMark(x) /\ GroupsHold(x) /\ Distinct(x.groups)
  BY IntactParts DEF Kinds
<1>2. Without(s, {n}) = x.nodes
  BY Lists, WithoutInserted
<1> HIDE DEF s
<1>3. /\ y.nodes = s /\ y.edges = x.edges /\ y.hints = x.hints /\ y.groups = x.groups
      /\ [y EXCEPT !.nodes = x.nodes, !.edges = x.edges, !.hints = x.hints,
                   !.groups = x.groups] = x
  BY DEF GraphRecords
<1> HIDE DEF y
<1>4. EdgesOf(y, n) = {}
  <2>1. \A j \in DOMAIN x.edges : x.edges[j].from # n /\ x.edges[j].to # n
    BY <1>1 DEF EdgesJoin
  <2> QED
    BY <1>3, <2>1 DEF EdgesOf, Touches
<1>5. HintsOf(y, {}) = {}
  BY DEF HintsOf
<1>6. Without(x.edges, {}) = x.edges /\ Without(x.hints, {}) = x.hints
  BY Lists, WithoutNone
<1>7. GroupsWithout(x.groups, n) = x.groups
  <2>1. Apart(x.groups) /\ x.groups \in Seq(Records["groups"])
    BY <1>1, Lists DEF GroupsHold
  <2>2. \A i \in 1..Len(x.groups) : n \notin x.groups[i].members
    BY <1>1, Lists DEF GroupsHold
  <2> QED
    BY <1>1, <2>1, <2>2, GroupsWithoutFacts
<1>8. NodeRemoved(y, n) =
        [y EXCEPT !.nodes = Without(y.nodes, {n}), !.edges = Without(y.edges, EdgesOf(y, n)),
                  !.hints = Without(y.hints, HintsOf(y, EdgesOf(y, n))),
                  !.groups = GroupsWithout(y.groups, n)]
  BY DEF NodeRemoved
<1>9. NodeRemoved(y, n) = [y EXCEPT !.nodes = x.nodes, !.edges = x.edges, !.hints = x.hints,
                                    !.groups = x.groups]
  BY <1>2, <1>3, <1>4, <1>5, <1>6, <1>7, <1>8
<1> QED
  BY <1>3, <1>9 DEF y, s

LEMMA AddedEdgeRemoved ==
  ASSUME NEW x \in GraphRecords, GraphIntact(x), NEW item \in Records["edges"],
         NEW index \in Nat, ~Has(x.edges, item.id)
  PROVE  EdgeRemoved([x EXCEPT !.edges = Inserted(x.edges, item, index)], item.id) = x
<1> DEFINE s == Inserted(x.edges, item, index)
           y == [x EXCEPT !.edges = s]
           id == item.id
<1>1. HintsMark(x)
  BY IntactParts
<1>2. Without(s, {id}) = x.edges
  BY Lists, WithoutInserted
<1> HIDE DEF s
<1>3. /\ y.edges = s /\ y.hints = x.hints
      /\ [y EXCEPT !.edges = x.edges, !.hints = x.hints] = x
  BY DEF GraphRecords
<1> HIDE DEF y
<1>4. HintsOf(y, {id}) = {}
  BY <1>1, <1>3 DEF HintsOf, HintsMark
<1>5. Without(x.hints, {}) = x.hints
  BY Lists, WithoutNone
<1>6. EdgeRemoved(y, id) = [y EXCEPT !.edges = x.edges, !.hints = x.hints]
  BY <1>2, <1>3, <1>4, <1>5 DEF EdgeRemoved
<1> QED
  BY <1>3, <1>6 DEF y, s

LEMMA AddedItemRemoved ==
  ASSUME NEW x \in GraphRecords, NEW k \in Kinds, NEW item \in Records[k],
         NEW index \in Nat, ~Has(x[k], item.id)
  PROVE  ItemRemoved([x EXCEPT ![k] = Inserted(x[k], item, index)], k, item.id) = x
<1> DEFINE s == Inserted(x[k], item, index)
           y == [x EXCEPT ![k] = s]
<1>1. x[k] \in Seq(Records[k])
  BY DEF GraphRecords, Kinds
<1>2. Without(s, {item.id}) = x[k]
  BY <1>1, WithoutInserted
<1> HIDE DEF s
<1>3. y[k] = s /\ [y EXCEPT ![k] = x[k]] = x
  BY DEF GraphRecords, Kinds
<1> HIDE DEF y
<1> QED
  BY <1>2, <1>3 DEF y, s, ItemRemoved

(* A change of one graph, of which the last step is known, is undone.      *)
LEMMA PutBack ==
  ASSUME NEW d, Sound(d), NEW x \in GraphRecords, Has(d.graphs, x.id), Graph(d, x.id) = x,
         NEW y \in GraphRecords, y.id = x.id
  PROVE  /\ Has(PutGraph(d, y).graphs, x.id) /\ Graph(PutGraph(d, y), x.id) = y
         /\ PutGraph(PutGraph(d, y), x) = d
<1>1. d \in DocumentRecords /\ Distinct(d.graphs)
  BY DEF Sound, Intact
<1>2. PutGraph(d, x) = d
  BY <1>1, GraphChanged
<1>3. /\ Has(PutGraph(d, y).graphs, y.id) /\ Graph(PutGraph(d, y), y.id) = y
      /\ PutGraph(PutGraph(d, y), x) = PutGraph(d, x)
  BY <1>1, GraphChanged
<1> QED
  BY <1>2, <1>3

\* What a reversible command promises: the document stays sound and the
\* inverse restores the one that was there.
Reverses(d, c) ==
  LET step == ApplyOne(d, c) IN
  /\ Sound(step.document) /\ step.inverse \in Seq(GraphCommands)
  /\ Restores(step.document, step.inverse, d)

LEMMA OneCommand ==
  ASSUME NEW c \in GraphCommands PROVE <<c>> \in Seq(GraphCommands)
OBVIOUS

LEMMA AddReverses ==
  ASSUME NEW d, Sound(d), NEW g \in Nat, NEW k \in Kinds, NEW item \in Records[k],
         NEW index \in Nat, ApplyOne(d, AddItemAt(g, k, item, index)).ok,
         k = "edges" => Has(Graph(d, g).nodes, item.from) /\ Has(Graph(d, g).nodes, item.to),
         k = "groups" => item.members # {}
  PROVE  Reverses(d, AddItemAt(g, k, item, index))
<1> DEFINE c == AddItemAt(g, k, item, index)
           x == Graph(d, g)
           y == [x EXCEPT ![k] = Inserted(x[k], item, index)]
           e == PutGraph(d, y)
           r == RemoveItem(g, k, item.id)
<1>1. /\ Has(d.graphs, g) /\ ~Has(x[k], item.id) /\ Storable(x, k, item)
      /\ ApplyOne(d, c) = Done(e, << r >>)
  <2>1. Adds(ApplyOne(d, c), d, x, g, k, item, index)
    BY AddOutcome
  <2>2. ApplyOne(d, c).ok
    OBVIOUS
  <2> HIDE DEF c, x
  <2> QED
    BY <2>1, <2>2 DEF Adds
<1>2. x \in GraphRecords /\ x.id = g /\ GraphIntact(x)
  BY <1>1, GraphFacts DEF Sound
<1> HIDE DEF x
<1>3. y \in GraphRecords /\ GraphIntact(y) /\ y.id = g
  BY <1>1, <1>2, AddedIntact DEF x
<1>4. x[k] \in Seq(Records[k])
  BY <1>2 DEF GraphRecords, Kinds
<1>5. Has(y[k], item.id)
  <2> DEFINE s == Inserted(x[k], item, index)
  <2>1. IsWith(s, Records[k], x[k], item)
    BY <1>4, InsertedElements
  <2> HIDE DEF s
  <2>2. [x EXCEPT ![k] = s][k] = s
    BY <1>2 DEF GraphRecords, Kinds
  <2> QED
    BY <2>1, <2>2 DEF IsWith, s
<1>6. /\ k = "nodes" => NodeRemoved(y, item.id) = x
      /\ k = "edges" => EdgeRemoved(y, item.id) = x
      /\ ItemRemoved(y, k, item.id) = x
  <2>1. CASE k = "nodes"
    <3>1. NodeRemoved(y, item.id) = x
      BY <1>1, <1>2, <2>1, AddedNodeRemoved
    <3> QED
      BY <1>1, <1>2, <2>1, <3>1, AddedItemRemoved
  <2>2. CASE k = "edges"
    <3>1. EdgeRemoved(y, item.id) = x
      BY <1>1, <1>2, <2>2, AddedEdgeRemoved
    <3> QED
      BY <1>1, <1>2, <2>2, <3>1, AddedItemRemoved
  <2>3. CASE k # "nodes" /\ k # "edges"
    BY <1>1, <1>2, <2>3, AddedItemRemoved
  <2> QED
    BY <2>1, <2>2, <2>3
<1> HIDE DEF y
<1>7. Has(e.graphs, g) /\ Graph(e, g) = y /\ PutGraph(e, x) = d
  BY <1>1, <1>2, <1>3, PutBack DEF x
<1>8. Sound(e)
  BY <1>1, <1>3, PutSound
<1> HIDE DEF e
<1>9. Removes(ApplyOne(e, r), e, y, g, k, item.id)
  BY <1>7, RemoveOutcome
<1> HIDE DEF r
<1>10. ApplyOne(e, r).ok /\ ApplyOne(e, r).document = d
  BY <1>5, <1>6, <1>7, <1>9, DoneFacts DEF Removes
<1>11. Restores(e, << r >>, d)
  BY <1>10, RestoresOne
<1>12. << r >> \in Seq(GraphCommands)
  <2>1. item.id \in Nat
    BY RecordIds
  <2>2. r \in RemoveCommands
    BY <2>1, CommandTypes DEF r
  <2> QED
    BY <2>2 DEF GraphCommands
<1> HIDE DEF c
<1>13. /\ ApplyOne(d, c).document = e /\ ApplyOne(d, c).inverse = << r >>
  BY <1>1, DoneFacts
<1> QED
  BY <1>8, <1>11, <1>12, <1>13 DEF Reverses, c

LEMMA ReplaceReverses ==
  ASSUME NEW d, Sound(d), NEW g \in Nat, NEW item \in Records["nodes"],
         ApplyOne(d, ReplaceItem(g, "nodes", item)).ok
  PROVE  Reverses(d, ReplaceItem(g, "nodes", item))
<1> DEFINE c == ReplaceItem(g, "nodes", item)
           x == Graph(d, g)
           y == [x EXCEPT !.nodes = Replaced(x.nodes, item)]
           e == PutGraph(d, y)
           old == Item(x.nodes, item.id)
           r == ReplaceItem(g, "nodes", old)
<1>1. /\ Has(d.graphs, g) /\ Has(x.nodes, item.id)
      /\ ApplyOne(d, c) = Done(e, << r >>)
  <2>1. Replaces(ApplyOne(d, c), d, x, g, "nodes", item)
    BY ReplaceOutcome
  <2>2. ApplyOne(d, c).ok
    OBVIOUS
  <2> HIDE DEF c, x
  <2> QED
    BY <2>1, <2>2 DEF Replaces
<1>2. x \in GraphRecords /\ x.id = g /\ GraphIntact(x)
  BY <1>1, GraphFacts DEF Sound
<1> HIDE DEF x
<1>3. y \in GraphRecords /\ GraphIntact(y) /\ y.id = g
  BY <1>2, NodeReplacedIntact
<1>4. x.nodes \in Seq(Records["nodes"]) /\ Distinct(x.nodes)
  BY <1>2, Lists, IntactParts DEF Kinds
<1>5. old \in Records["nodes"] /\ old.id = item.id
  BY <1>1, <1>4, ItemFacts
<1> HIDE DEF old
<1>6. y.nodes = Replaced(x.nodes, item) /\ [y EXCEPT !.nodes = x.nodes] = x
  BY <1>2 DEF GraphRecords
<1>7. Replaced(y.nodes, old) = x.nodes /\ Has(y.nodes, old.id)
  <2>1. /\ Replaced(Replaced(x.nodes, item), old) = Replaced(x.nodes, old)
        /\ Replaced(x.nodes, Item(x.nodes, item.id)) = x.nodes
    BY <1>1, <1>4, <1>5, ReplacedTwice
  <2>2. IsReplaced(Replaced(x.nodes, item), Records["nodes"], x.nodes, item)
    BY <1>4, ReplacedFacts
  <2>3. Has(Replaced(x.nodes, item), item.id)
    BY <1>1, <2>2 DEF IsReplaced
  <2> QED
    BY <1>5, <1>6, <2>1, <2>3 DEF old
<1> HIDE DEF y
<1>8. Has(e.graphs, g) /\ Graph(e, g) = y /\ PutGraph(e, x) = d
  BY <1>1, <1>2, <1>3, PutBack DEF x
<1>9. Sound(e)
  BY <1>1, <1>3, PutSound
<1> HIDE DEF e
<1>10. Storable(y, "nodes", old)
  BY DEF Storable
<1>11. ApplyOne(e, r).ok /\ ApplyOne(e, r).document = d
  <2>1. Replaces(ApplyOne(e, r), e, y, g, "nodes", old)
    BY <1>8, ReplaceOutcome
  <2> HIDE DEF r
  <2> QED
    BY <1>6, <1>7, <1>8, <1>10, <2>1, DoneFacts DEF Replaces
<1>12. Restores(e, << r >>, d)
  BY <1>11, RestoresOne
<1>13. << r >> \in Seq(GraphCommands)
  <2>1. "nodes" \in Kinds
    BY DEF Kinds
  <2>2. r \in ReplaceCommands
    BY <1>5, <2>1, CommandTypes
  <2> QED
    BY <2>2 DEF GraphCommands
<1> HIDE DEF c, r
<1>14. /\ ApplyOne(d, c).document = e /\ ApplyOne(d, c).inverse = << r >>
  BY <1>1, DoneFacts
<1> QED
  BY <1>9, <1>12, <1>13, <1>14 DEF Reverses, c
-----------------------------------------------------------------------------
(* What a removal took along is stored again.                              *)

LEMMA HintStorable ==
  ASSUME NEW x \in GraphRecords, HintsMark(x), NEW i \in 1..Len(x.hints),
         NEW K \in SUBSET (1..Len(x.hints)), i \notin K,
         NEW w, w.edges = x.edges, w.hints = Selected(x.hints, K)
  PROVE  Storable(w, "hints", x.hints[i])
<1>1. /\ x.hints \in Seq(Records["hints"]) /\ x.edges \in Seq(Records["edges"])
      /\ DOMAIN x.hints = 1..Len(x.hints)
  BY Lists
<1>2. \A j \in DOMAIN w.hints : w.hints[j].edge # x.hints[i].edge
  <2> DEFINE s == Selected(x.hints, K)
  <2>1. s \in Seq(Records["hints"]) /\ \A j \in 1..Len(s) : \E l \in 1..Len(x.hints) :
          l \in K /\ s[j] = x.hints[l]
    BY <1>1, SelectedFacts
  <2> HIDE DEF s
  <2> SUFFICES ASSUME NEW j \in 1..Len(s) PROVE s[j].edge # x.hints[i].edge
    BY <2>1 DEF s
  <2>2. PICK l \in 1..Len(x.hints) : l \in K /\ s[j] = x.hints[l]
    BY <2>1
  <2>3. l # i
    BY <2>2
  <2> QED
    BY <1>1, <2>2, <2>3 DEF HintsMark
<1>3. \E j \in DOMAIN w.edges : w.edges[j].id = x.hints[i].edge /\ w.edges[j].kind = "execution"
  <2> DEFINE a == x.hints[i].edge
  <2>1. Has(x.edges, a) /\ Item(x.edges, a).kind = "execution"
    BY <1>1 DEF HintsMark
  <2>2. IndexOf(x.edges, a) \in DOMAIN x.edges /\ x.edges[IndexOf(x.edges, a)].id = a
    BY <1>1, <2>1, ItemFacts
  <2> QED
    BY <2>1, <2>2 DEF Item
<1> QED
  BY <1>2, <1>3 DEF Storable

LEMMA GroupStorable ==
  ASSUME NEW x \in GraphRecords, GroupsHold(x), NEW i \in 1..Len(x.groups),
         NEW K \in SUBSET (1..Len(x.groups)), i \notin K,
         NEW w, w.nodes = x.nodes, w.groups = Selected(x.groups, K)
  PROVE  Storable(w, "groups", x.groups[i])
<1>1. /\ x.groups \in Seq(Records["groups"]) /\ DOMAIN x.groups = 1..Len(x.groups)
  BY Lists
<1>2. \A j \in DOMAIN w.groups : w.groups[j].members \cap x.groups[i].members = {}
  <2> DEFINE s == Selected(x.groups, K)
  <2>1. s \in Seq(Records["groups"]) /\ \A j \in 1..Len(s) : \E l \in 1..Len(x.groups) :
          l \in K /\ s[j] = x.groups[l]
    BY <1>1, SelectedFacts
  <2> HIDE DEF s
  <2> SUFFICES ASSUME NEW j \in 1..Len(s) PROVE s[j].members \cap x.groups[i].members = {}
    BY <2>1 DEF s
  <2>2. PICK l \in 1..Len(x.groups) : l \in K /\ s[j] = x.groups[l]
    BY <2>1
  <2>3. i \in DOMAIN x.groups \ {l} /\ l \in DOMAIN x.groups
    BY <1>1, <2>2
  <2> QED
    BY <2>2, <2>3 DEF GroupsHold, Apart
<1>3. \A m \in x.groups[i].members : Has(w.nodes, m)
  BY <1>1 DEF GroupsHold
<1> QED
  BY <1>2, <1>3 DEF Storable

LEMMA AddsBackGraphCommands == Seq(AddCommands) \subseteq Seq(GraphCommands)
BY DEF GraphCommands

LEMMA ReplaceStep ==
  ASSUME NEW d \in DocumentRecords, Distinct(d.graphs), NEW z \in GraphRecords,
         Has(d.graphs, z.id), NEW k \in Kinds, NEW item \in Records[k],
         Has(z[k], item.id), Storable(z, k, item)
  PROVE  LET step == ApplyOne(PutGraph(d, z), ReplaceItem(z.id, k, item)) IN
         /\ step.ok
         /\ step.document = PutGraph(d, [z EXCEPT ![k] = Replaced(z[k], item)])
<1> DEFINE e == PutGraph(d, z)
           s == Replaced(z[k], item)
           y == [z EXCEPT ![k] = s]
<1>1. s \in Seq(Records[k])
  <2>1. z[k] \in Seq(Records[k])
    BY DEF GraphRecords, Kinds
  <2>2. IsReplaced(s, Records[k], z[k], item)
    BY <2>1, ReplacedFacts
  <2> QED
    BY <2>2 DEF IsReplaced
<1>2. y \in GraphRecords /\ y.id = z.id
  <2> HIDE DEF s
  <2> QED
    BY <1>1 DEF GraphRecords, Kinds
<1>3. /\ Has(e.graphs, z.id) /\ Graph(e, z.id) = z
      /\ \A w \in GraphRecords : z.id = w.id => PutGraph(e, w) = PutGraph(d, w)
  BY GraphChanged
<1> HIDE DEF e, y
<1>4. PutGraph(e, y) = PutGraph(d, y)
  BY <1>2, <1>3
<1>5. LET step == ApplyOne(e, ReplaceItem(z.id, k, item)) IN
      step.ok /\ step = Done(PutGraph(e, [z EXCEPT ![k] = Replaced(z[k], item)]),
                             << ReplaceItem(z.id, k, Item(z[k], item.id)) >>)
  <2>1. Replaces(ApplyOne(e, ReplaceItem(z.id, k, item)), e, z, z.id, k, item)
    BY <1>3, ReplaceOutcome
  <2> QED
    BY <1>3, <2>1 DEF Replaces
<1> QED
  BY <1>4, <1>5, DoneFacts DEF e, y

\* At most one group held the node: it is added back or its members restored.
LEMMA GroupsAffected ==
  ASSUME NEW x \in GraphRecords, GraphIntact(x), NEW n
  PROVE  \/ /\ \A i \in 1..Len(x.groups) : n \notin x.groups[i].members
            /\ GroupsBack(x, n) = <<>>
         \/ \E p \in 1..Len(x.groups) :
              /\ n \in x.groups[p].members
              /\ GroupsBack(x, n) =
                   << IF x.groups[p].members = {n} THEN AddItemAt(x.id, "groups", x.groups[p], p)
                                                   ELSE ReplaceItem(x.id, "groups", x.groups[p]) >>
<1> DEFINE groups == x.groups
           m == Len(groups)
           K == {i \in DOMAIN groups : n \in groups[i].members}
           h == Selected(Indices(groups), K)
           C(p) == IF groups[p].members = {n} THEN AddItemAt(x.id, "groups", groups[p], p)
                                              ELSE ReplaceItem(x.id, "groups", groups[p])
<1>1. m \in Nat /\ DOMAIN groups = 1..m /\ K \in SUBSET (1..m)
  BY Lists
<1>2. \A i, j \in K : i = j
  <2>1. Apart(groups)
    BY IntactParts DEF GroupsHold
  <2> QED
    BY <2>1 DEF Apart
<1>3. /\ h \in Seq(1..m) /\ Len(h) \in Nat /\ Ascending(h, Len(h))
      /\ \A j \in 1..Len(h) : h[j] \in K
      /\ \A i \in K : \E j \in 1..Len(h) : h[j] = i
  <2>1. DOMAIN groups = 1..m /\ K \in SUBSET (1..m) /\ m \in Nat /\ h = Selected(Indices(groups), K)
    BY <1>1
  <2> HIDE DEF h, K, m
  <2> QED
    BY <2>1, PositionsFacts
<1>4. GroupsBack(x, n) = [k \in DOMAIN h |-> C(h[k])]
  BY DEF GroupsBack, Positions
<1>5. \A p \in K : n \in groups[p].members /\ p \in 1..m
  BY <1>1
<1>6. K = {} => \A i \in 1..m : n \notin groups[i].members
  BY <1>1
<1> HIDE DEF h, C, K, m
<1>7. Len(h) <= 1
  <2> SUFFICES ASSUME Len(h) > 1 PROVE FALSE
    BY <1>3
  <2>1. 1 \in 1..Len(h) /\ 2 \in 1..Len(h) /\ 1 < 2
    BY <1>3
  <2>2. h[1] \in K /\ h[2] \in K /\ h[1] < h[2] /\ h[1] \in Nat
    BY <1>1, <1>3, <2>1 DEF Ascending
  <2> QED
    BY <1>2, <2>2
<1>8. CASE Len(h) = 0
  <2>1. DOMAIN h = {} /\ K = {}
    BY <1>3, <1>8
  <2>2. GroupsBack(x, n) = <<>>
    BY <1>3, <1>4, <1>8, <2>1
  <2> QED
    BY <1>6, <2>1, <2>2 DEF m
<1>9. CASE Len(h) = 1
  <2>1. h[1] \in K /\ DOMAIN h = 1..1
    BY <1>3, <1>9
  <2> DEFINE t == [k \in 1..1 |-> C(h[k])]
  <2>2. t = << t[1] >> /\ t[1] = C(h[1])
    OBVIOUS
  <2>3. GroupsBack(x, n) = t
    BY <1>4, <2>1
  <2>4. GroupsBack(x, n) = << C(h[1]) >>
    BY <2>2, <2>3
  <2> QED
    BY <1>5, <2>1, <2>4 DEF m, C
<1>10. Len(h) = 0 \/ Len(h) = 1
  BY <1>3, <1>7
<1> QED
  BY <1>8, <1>9, <1>10

LEMMA GroupsBackRestores ==
  ASSUME NEW d \in DocumentRecords, Distinct(d.graphs), NEW x \in GraphRecords, GraphIntact(x),
         Has(d.graphs, x.id), NEW n, NEW y \in GraphRecords, y.id = x.id,
         y.nodes = x.nodes, y.groups = GroupsWithout(x.groups, n)
  PROVE  /\ GroupsBack(x, n) \in Seq(GraphCommands)
         /\ Restores(PutGraph(d, y), GroupsBack(x, n), PutGraph(d, [y EXCEPT !.groups = x.groups]))
<1> DEFINE groups == x.groups
           w == [y EXCEPT !.groups = groups]
<1>1. /\ groups \in Seq(Records["groups"]) /\ Distinct(groups) /\ Apart(groups)
      /\ DOMAIN groups = 1..Len(groups) /\ "groups" \in Kinds
  BY IntactParts, Lists DEF GroupsHold, Kinds
<1>2. CASE /\ \A i \in 1..Len(groups) : n \notin groups[i].members
           /\ GroupsBack(x, n) = <<>>
  <2>1. y.groups = groups
    BY <1>1, <1>2, GroupsWithoutFacts
  <2>2. w = y
    BY <2>1 DEF GraphRecords
  <2>3. Restores(PutGraph(d, y), GroupsBack(x, n), PutGraph(d, y))
    BY <1>2, RestoresNothing
  <2> QED
    BY <1>2, <2>2, <2>3
<1>3. ASSUME NEW p \in 1..Len(groups), n \in groups[p].members, groups[p].members = {n},
             GroupsBack(x, n) = << AddItemAt(x.id, "groups", groups[p], p) >>
      PROVE  /\ GroupsBack(x, n) \in Seq(GraphCommands)
             /\ Restores(PutGraph(d, y), GroupsBack(x, n), PutGraph(d, w))
  <2> DEFINE K == 1..Len(groups) \ {p}
             c == AddItemAt(x.id, "groups", groups[p], p)
  <2>1. y.groups = Without(groups, {groups[p].id})
    BY <1>1, <1>3, GroupsWithoutFacts
  <2>2. Unmarked(groups, {groups[p].id}) = K
    BY <1>1 DEF Unmarked, Distinct
  <2>3. y.groups = Selected(groups, K)
    BY <2>1, <2>2, WithoutIsSelected
  <2>4. Inserted(y.groups, groups[p], p) = groups
    <3>1. p \notin K /\ 1..p - 1 \subseteq K /\ 1..Len(groups) \subseteq K \cup {p}
      OBVIOUS
    <3> HIDE DEF K
    <3>2. Inserted(Selected(groups, K), groups[p], p) = Selected(groups, K \cup {p})
      BY <1>1, <3>1, SelectedInsert
    <3>3. Selected(groups, K \cup {p}) = groups
      BY <1>1, <3>1, SelectedAll
    <3> QED
      BY <2>3, <3>2, <3>3
  <2>5. Storable(y, "groups", groups[p])
    <3>1. GroupsHold(x)
      BY IntactParts
    <3>2. K \in SUBSET (1..Len(groups)) /\ p \notin K
      OBVIOUS
    <3> HIDE DEF K
    <3> QED
      BY <2>3, <3>1, <3>2, GroupStorable
  <2>6. ~Has(y.groups, groups[p].id)
    <3> DEFINE s == Without(groups, {groups[p].id})
    <3>1. IsWithout(s, Records["groups"], groups, {groups[p].id})
      BY <1>1, WithoutFacts
    <3> HIDE DEF s
    <3> QED
      BY <2>1, <3>1 DEF IsWithout, s
  <2>7. groups[p] \in Records["groups"] /\ p \in Nat
    BY <1>1
  <2>8. /\ ApplyOne(PutGraph(d, y), c).ok
        /\ ApplyOne(PutGraph(d, y), c).document =
             PutGraph(d, [y EXCEPT !["groups"] = Inserted(y["groups"], groups[p], p)])
    BY <1>1, <2>5, <2>6, <2>7, AddStep
  <2>9. Restores(PutGraph(d, y), << c >>, PutGraph(d, w))
    BY <2>4, <2>8, RestoresOne
  <2>10. << c >> \in Seq(GraphCommands)
    <3>1. x.id \in Nat
      BY DEF GraphRecords
    <3>2. c \in AddCommands
      BY <1>1, <2>7, <3>1, CommandTypes
    <3> HIDE DEF c
    <3> QED
      BY <3>2 DEF GraphCommands
  <2> QED
    BY <1>3, <2>9, <2>10
<1>4. ASSUME NEW p \in 1..Len(groups), n \in groups[p].members, groups[p].members # {n},
             GroupsBack(x, n) = << ReplaceItem(x.id, "groups", groups[p]) >>
      PROVE  /\ GroupsBack(x, n) \in Seq(GraphCommands)
             /\ Restores(PutGraph(d, y), GroupsBack(x, n), PutGraph(d, w))
  <2> DEFINE c == ReplaceItem(x.id, "groups", groups[p])
             l == Left(groups[p], n)
  <2>1. y.groups = Replaced(groups, l)
    BY <1>1, <1>4, GroupsWithoutFacts
  <2>2. /\ groups[p] \in Records["groups"] /\ l \in Records["groups"]
        /\ l.id = groups[p].id /\ l.members = groups[p].members \ {n}
    BY <1>1, LeftFacts
  <2>3. Has(groups, groups[p].id) /\ Item(groups, groups[p].id) = groups[p]
    BY <1>1, ItemAt
  <2> HIDE DEF l
  <2>4. Replaced(y.groups, groups[p]) = groups
    BY <1>1, <2>1, <2>2, <2>3, ReplacedTwice
  <2>5. IsReplaced(y.groups, Records["groups"], groups, l)
    BY <1>1, <2>1, <2>2, ReplacedFacts
  <2>6. Has(y.groups, groups[p].id)
    BY <2>3, <2>5 DEF IsReplaced
  <2>7. Storable(y, "groups", groups[p])
    <3>1. \A m \in groups[p].members : Has(y.nodes, m)
      BY <1>1, IntactParts DEF GroupsHold
    <3>2. ASSUME NEW i \in DOMAIN y.groups, y.groups[i].id # groups[p].id
          PROVE  y.groups[i].members \cap groups[p].members = {}
      <4>1. i \in 1..Len(groups)
        BY <2>5, <3>2 DEF IsReplaced
      <4>2. y.groups[i] = groups[i] /\ i # p
        BY <2>2, <2>5, <3>2, <4>1 DEF IsReplaced
      <4> QED
        BY <1>1, <4>1, <4>2 DEF Apart
    <3> QED
      BY <3>1, <3>2 DEF Storable
  <2>8. /\ ApplyOne(PutGraph(d, y), c).ok
        /\ ApplyOne(PutGraph(d, y), c).document =
             PutGraph(d, [y EXCEPT !["groups"] = Replaced(y["groups"], groups[p])])
    BY <1>1, <2>2, <2>6, <2>7, ReplaceStep
  <2>9. Restores(PutGraph(d, y), << c >>, PutGraph(d, w))
    BY <2>4, <2>8, RestoresOne
  <2>10. << c >> \in Seq(GraphCommands)
    <3>1. x.id \in Nat
      BY DEF GraphRecords
    <3>2. c \in ReplaceCommands
      BY <1>1, <2>2, <3>1, CommandTypes
    <3> HIDE DEF c
    <3> QED
      BY <3>2 DEF GraphCommands
  <2> QED
    BY <1>4, <2>9, <2>10
<1>5. \/ /\ \A i \in 1..Len(groups) : n \notin groups[i].members
         /\ GroupsBack(x, n) = <<>>
      \/ \E p \in 1..Len(groups) :
           /\ n \in groups[p].members /\ groups[p].members = {n}
           /\ GroupsBack(x, n) = << AddItemAt(x.id, "groups", groups[p], p) >>
      \/ \E p \in 1..Len(groups) :
           /\ n \in groups[p].members /\ groups[p].members # {n}
           /\ GroupsBack(x, n) = << ReplaceItem(x.id, "groups", groups[p]) >>
  BY GroupsAffected
<1> QED
  BY <1>2, <1>3, <1>4, <1>5

-----------------------------------------------------------------------------
(* A removal, with what it takes along, is undone.                         *)

\* The graph as a node's removal is taken back, list by list.
LEMMA NodeBackRestores ==
  ASSUME NEW d, Sound(d), NEW x \in GraphRecords, GraphIntact(x), Has(d.graphs, x.id),
         Graph(d, x.id) = x, NEW n
  PROVE  /\ NodeBack(x, n) \in Seq(GraphCommands)
         /\ Restores(PutGraph(d, NodeRemoved(x, n)), NodeBack(x, n), d)
<1> DEFINE cut == EdgesOf(x, n)
           marks == HintsOf(x, cut)
           y == NodeRemoved(x, n)
           y1 == [y EXCEPT !["nodes"] = x["nodes"]]
           y2 == [y1 EXCEPT !["edges"] = x["edges"]]
           y3 == [y2 EXCEPT !["hints"] = x["hints"]]
           a == AddBack(x, "nodes", {n})
           b == AddBack(x, "edges", cut)
           c == AddBack(x, "hints", marks)
           f == GroupsBack(x, n)
<1>1. d \in DocumentRecords /\ Distinct(d.graphs)
  BY DEF Sound, Intact
<1>2. /\ \A k \in Kinds : Distinct(x[k])
      /\ HintsMark(x)
      /\ "nodes" \in Kinds /\ "edges" \in Kinds /\ "hints" \in Kinds
  BY IntactParts DEF Kinds
<1>3. y \in GraphRecords /\ y.id = x.id
  BY NodeRemovedIntact
<1>4. /\ y.nodes = Without(x.nodes, {n}) /\ y.edges = Without(x.edges, cut)
      /\ y.hints = Without(x.hints, marks) /\ y.groups = GroupsWithout(x.groups, n)
      /\ [y EXCEPT !.nodes = x.nodes, !.edges = x.edges, !.hints = x.hints,
                   !.groups = x.groups] = x
  BY DEF NodeRemoved, GraphRecords
<1> HIDE DEF y, cut, marks
<1>5. /\ y1 \in GraphRecords /\ y1.id = x.id /\ y1.nodes = x.nodes /\ y1.edges = y.edges
      /\ y1.hints = y.hints /\ y1.groups = y.groups
  BY <1>3 DEF GraphRecords
<1>6. /\ y2 \in GraphRecords /\ y2.id = x.id /\ y2.nodes = x.nodes /\ y2.edges = x.edges
      /\ y2.hints = y.hints /\ y2.groups = y.groups
  BY <1>3 DEF GraphRecords
<1>7. /\ y3 \in GraphRecords /\ y3.id = x.id /\ y3.nodes = x.nodes /\ y3.edges = x.edges
      /\ y3.hints = x.hints /\ y3.groups = y.groups /\ [y3 EXCEPT !.groups = x.groups] = x
  BY <1>3, <1>4 DEF GraphRecords
<1> HIDE DEF y1, y2, y3
<1>8. a \in Seq(AddCommands) /\ Restores(PutGraph(d, y), a, PutGraph(d, y1))
  <2>1. \A K \in SUBSET (1..Len(x["nodes"])), i \in 1..Len(x["nodes"]) :
          Storable([y EXCEPT !["nodes"] = Selected(x["nodes"], K)], "nodes", x["nodes"][i])
    BY DEF Storable
  <2>2. /\ AddBack(x, "nodes", {n}) \in Seq(AddCommands)
        /\ Restores(PutGraph(d, y), AddBack(x, "nodes", {n}),
                    PutGraph(d, [y EXCEPT !["nodes"] = x["nodes"]]))
    BY <1>1, <1>2, <1>3, <1>4, <2>1, AddBackRestores
  <2> QED
    BY <2>2 DEF y1
<1>9. b \in Seq(AddCommands) /\ Restores(PutGraph(d, y1), b, PutGraph(d, y2))
  <2>1. \A K \in SUBSET (1..Len(x["edges"])), i \in 1..Len(x["edges"]) :
          Storable([y1 EXCEPT !["edges"] = Selected(x["edges"], K)], "edges", x["edges"][i])
    BY DEF Storable
  <2>2. /\ AddBack(x, "edges", cut) \in Seq(AddCommands)
        /\ Restores(PutGraph(d, y1), AddBack(x, "edges", cut),
                    PutGraph(d, [y1 EXCEPT !["edges"] = x["edges"]]))
    BY <1>1, <1>2, <1>4, <1>5, <2>1, AddBackRestores
  <2> QED
    BY <2>2 DEF y2
<1>10. c \in Seq(AddCommands) /\ Restores(PutGraph(d, y2), c, PutGraph(d, y3))
  <2>1. ASSUME NEW K \in SUBSET (1..Len(x["hints"])), NEW i \in 1..Len(x["hints"]), i \notin K
        PROVE  Storable([y2 EXCEPT !["hints"] = Selected(x["hints"], K)], "hints", x["hints"][i])
    <3> DEFINE s == Selected(x["hints"], K)
               w == [y2 EXCEPT !["hints"] = s]
    <3> HIDE DEF s
    <3>1. w.edges = x.edges /\ w.hints = s
      BY <1>6 DEF GraphRecords
    <3> HIDE DEF w
    <3>2. Storable(w, "hints", x.hints[i])
      BY <1>2, <2>1, <3>1, HintStorable DEF s
    <3> QED
      BY <3>2 DEF w, s
  <2>2. /\ AddBack(x, "hints", marks) \in Seq(AddCommands)
        /\ Restores(PutGraph(d, y2), AddBack(x, "hints", marks),
                    PutGraph(d, [y2 EXCEPT !["hints"] = x["hints"]]))
    BY <1>1, <1>2, <1>4, <1>6, <2>1, AddBackRestores
  <2> QED
    BY <2>2 DEF y3
<1>11. f \in Seq(GraphCommands) /\ Restores(PutGraph(d, y3), f, PutGraph(d, x))
  <2>1. /\ GroupsBack(x, n) \in Seq(GraphCommands)
        /\ Restores(PutGraph(d, y3), GroupsBack(x, n), PutGraph(d, [y3 EXCEPT !.groups = x.groups]))
    BY <1>1, <1>4, <1>7, GroupsBackRestores
  <2> QED
    BY <1>7, <2>1
<1> HIDE DEF a, b, c, f
<1>12. a \in Seq(GraphCommands) /\ b \in Seq(GraphCommands) /\ c \in Seq(GraphCommands)
  BY <1>8, <1>9, <1>10, AddsBackGraphCommands
<1>13. /\ a \o b \in Seq(GraphCommands) /\ (a \o b) \o c \in Seq(GraphCommands)
       /\ ((a \o b) \o c) \o f \in Seq(GraphCommands)
  BY <1>11, <1>12
<1>14. Restores(PutGraph(d, y), a \o b, PutGraph(d, y2))
  BY <1>8, <1>9, <1>12, RestoresConcat
<1>15. Restores(PutGraph(d, y), (a \o b) \o c, PutGraph(d, y3))
  BY <1>10, <1>12, <1>13, <1>14, RestoresConcat
<1>16. Restores(PutGraph(d, y), ((a \o b) \o c) \o f, PutGraph(d, x))
  BY <1>11, <1>12, <1>13, <1>15, RestoresConcat
<1>17. NodeBack(x, n) = ((a \o b) \o c) \o f
  BY DEF NodeBack, a, b, c, f, cut, marks
<1>18. PutGraph(d, x) = d
  BY <1>1, GraphChanged
<1> QED
  BY <1>13, <1>16, <1>17, <1>18 DEF y

LEMMA EdgeBackRestores ==
  ASSUME NEW d, Sound(d), NEW x \in GraphRecords, GraphIntact(x), Has(d.graphs, x.id),
         Graph(d, x.id) = x, NEW id
  PROVE  LET back == AddBack(x, "edges", {id}) \o AddBack(x, "hints", HintsOf(x, {id})) IN
         /\ back \in Seq(GraphCommands)
         /\ Restores(PutGraph(d, EdgeRemoved(x, id)), back, d)
<1> DEFINE marks == HintsOf(x, {id})
           y == EdgeRemoved(x, id)
           y1 == [y EXCEPT !["edges"] = x["edges"]]
           b == AddBack(x, "edges", {id})
           c == AddBack(x, "hints", marks)
<1>1. d \in DocumentRecords /\ Distinct(d.graphs)
  BY DEF Sound, Intact
<1>2. /\ \A k \in Kinds : Distinct(x[k])
      /\ HintsMark(x)
      /\ "edges" \in Kinds /\ "hints" \in Kinds
  BY IntactParts DEF Kinds
<1>3. y \in GraphRecords /\ y.id = x.id
  BY EdgeRemovedIntact
<1>4. /\ y.edges = Without(x.edges, {id}) /\ y.hints = Without(x.hints, marks)
      /\ [y EXCEPT !.edges = x.edges, !.hints = x.hints] = x
  BY DEF EdgeRemoved, GraphRecords
<1> HIDE DEF y, marks
<1>5. /\ y1 \in GraphRecords /\ y1.id = x.id /\ y1.edges = x.edges /\ y1.hints = y.hints
      /\ [y1 EXCEPT !["hints"] = x["hints"]] = x
  BY <1>3, <1>4 DEF GraphRecords
<1> HIDE DEF y1
<1>6. b \in Seq(AddCommands) /\ Restores(PutGraph(d, y), b, PutGraph(d, y1))
  <2>1. \A K \in SUBSET (1..Len(x["edges"])), i \in 1..Len(x["edges"]) :
          Storable([y EXCEPT !["edges"] = Selected(x["edges"], K)], "edges", x["edges"][i])
    BY DEF Storable
  <2>2. /\ AddBack(x, "edges", {id}) \in Seq(AddCommands)
        /\ Restores(PutGraph(d, y), AddBack(x, "edges", {id}),
                    PutGraph(d, [y EXCEPT !["edges"] = x["edges"]]))
    BY <1>1, <1>2, <1>3, <1>4, <2>1, AddBackRestores
  <2> QED
    BY <2>2 DEF y1
<1>7. c \in Seq(AddCommands) /\ Restores(PutGraph(d, y1), c, PutGraph(d, x))
  <2>1. ASSUME NEW K \in SUBSET (1..Len(x["hints"])), NEW i \in 1..Len(x["hints"]), i \notin K
        PROVE  Storable([y1 EXCEPT !["hints"] = Selected(x["hints"], K)], "hints", x["hints"][i])
    <3> DEFINE s == Selected(x["hints"], K)
               w == [y1 EXCEPT !["hints"] = s]
    <3> HIDE DEF s
    <3>1. w.edges = x.edges /\ w.hints = s
      BY <1>5 DEF GraphRecords
    <3> HIDE DEF w
    <3>2. Storable(w, "hints", x.hints[i])
      BY <1>2, <2>1, <3>1, HintStorable DEF s
    <3> QED
      BY <3>2 DEF w, s
  <2>2. /\ AddBack(x, "hints", marks) \in Seq(AddCommands)
        /\ Restores(PutGraph(d, y1), AddBack(x, "hints", marks),
                    PutGraph(d, [y1 EXCEPT !["hints"] = x["hints"]]))
    BY <1>1, <1>2, <1>4, <1>5, <2>1, AddBackRestores
  <2> QED
    BY <1>5, <2>2
<1> HIDE DEF b, c
<1>8. b \in Seq(GraphCommands) /\ c \in Seq(GraphCommands)
  BY <1>6, <1>7, AddsBackGraphCommands
<1>9. b \o c \in Seq(GraphCommands)
  BY <1>8
<1>10. Restores(PutGraph(d, y), b \o c, PutGraph(d, x))
  BY <1>6, <1>7, <1>8, RestoresConcat
<1>11. PutGraph(d, x) = d
  BY <1>1, GraphChanged
<1> QED
  BY <1>9, <1>10, <1>11 DEF y, b, c, marks

LEMMA ItemBackRestores ==
  ASSUME NEW d, Sound(d), NEW x \in GraphRecords, GraphIntact(x), Has(d.graphs, x.id),
         Graph(d, x.id) = x, NEW k \in {"hints", "groups"}, NEW id
  PROVE  /\ AddBack(x, k, {id}) \in Seq(GraphCommands)
         /\ Restores(PutGraph(d, ItemRemoved(x, k, id)), AddBack(x, k, {id}), d)
<1> DEFINE y == ItemRemoved(x, k, id)
<1>1. d \in DocumentRecords /\ Distinct(d.graphs)
  BY DEF Sound, Intact
<1>2. k \in Kinds /\ Distinct(x[k]) /\ HintsMark(x) /\ GroupsHold(x)
  BY IntactParts DEF Kinds
<1>3. y \in GraphRecords /\ y.id = x.id
  BY ItemRemovedIntact
<1>4. /\ y[k] = Without(x[k], {id}) /\ [y EXCEPT ![k] = x[k]] = x
      /\ k = "hints" => y.edges = x.edges
      /\ k = "groups" => y.nodes = x.nodes
  BY DEF ItemRemoved, GraphRecords, Kinds
<1> HIDE DEF y
<1>5. ASSUME NEW K \in SUBSET (1..Len(x[k])), NEW i \in 1..Len(x[k]), i \notin K
      PROVE  Storable([y EXCEPT ![k] = Selected(x[k], K)], k, x[k][i])
  <2> DEFINE s == Selected(x[k], K)
             w == [y EXCEPT ![k] = s]
  <2> HIDE DEF s
  <2>1. /\ w[k] = s
        /\ k = "hints" => w.edges = x.edges
        /\ k = "groups" => w.nodes = x.nodes
    BY <1>3, <1>4 DEF GraphRecords
  <2> HIDE DEF w
  <2>2. CASE k = "hints"
    <3>1. Storable(w, "hints", x.hints[i])
      BY <1>2, <1>5, <2>1, <2>2, HintStorable DEF s
    <3> QED
      BY <2>2, <3>1 DEF w, s
  <2>3. CASE k = "groups"
    <3>1. Storable(w, "groups", x.groups[i])
      BY <1>2, <1>5, <2>1, <2>3, GroupStorable DEF s
    <3> QED
      BY <2>3, <3>1 DEF w, s
  <2> QED
    BY <2>2, <2>3
<1>6. /\ AddBack(x, k, {id}) \in Seq(AddCommands)
      /\ Restores(PutGraph(d, y), AddBack(x, k, {id}), PutGraph(d, [y EXCEPT ![k] = x[k]]))
  BY <1>1, <1>2, <1>3, <1>4, <1>5, AddBackRestores
<1>7. PutGraph(d, x) = d
  BY <1>1, GraphChanged
<1> QED
  BY <1>4, <1>6, <1>7, AddsBackGraphCommands DEF y

LEMMA RemoveReverses ==
  ASSUME NEW d, Sound(d), NEW g \in Nat, NEW k \in Kinds, NEW id,
         ApplyOne(d, RemoveItem(g, k, id)).ok
  PROVE  Reverses(d, RemoveItem(g, k, id))
<1> DEFINE c == RemoveItem(g, k, id)
           x == Graph(d, g)
<1>1. Removes(ApplyOne(d, c), d, x, g, k, id)
  BY RemoveOutcome
<1>2. ApplyOne(d, c).ok
  OBVIOUS
<1>3. Has(d.graphs, g)
  BY <1>1, <1>2 DEF Removes
<1>4. x \in GraphRecords /\ x.id = g /\ GraphIntact(x)
  BY <1>3, GraphFacts DEF Sound
<1>5. Graph(d, x.id) = x /\ Has(d.graphs, x.id)
  BY <1>3, <1>4
<1> HIDE DEF c, x
<1>6. CASE k = "nodes"
  <2>1. ApplyOne(d, c) = Done(PutGraph(d, NodeRemoved(x, id)), NodeBack(x, id))
    BY <1>1, <1>2, <1>6 DEF Removes
  <2>2. Sound(PutGraph(d, NodeRemoved(x, id)))
    BY <1>4, <1>5, NodeRemovedIntact, PutSound
  <2>3. /\ NodeBack(x, id) \in Seq(GraphCommands)
        /\ Restores(PutGraph(d, NodeRemoved(x, id)), NodeBack(x, id), d)
    BY <1>4, <1>5, NodeBackRestores
  <2> QED
    BY <2>1, <2>2, <2>3, DoneFacts DEF Reverses, c
<1>7. CASE k = "edges"
  <2> DEFINE back == AddBack(x, "edges", {id}) \o AddBack(x, "hints", HintsOf(x, {id}))
  <2>1. ApplyOne(d, c) = Done(PutGraph(d, EdgeRemoved(x, id)), back)
    BY <1>1, <1>2, <1>7 DEF Removes
  <2>2. Sound(PutGraph(d, EdgeRemoved(x, id)))
    BY <1>4, <1>5, EdgeRemovedIntact, PutSound
  <2>3. back \in Seq(GraphCommands) /\ Restores(PutGraph(d, EdgeRemoved(x, id)), back, d)
    BY <1>4, <1>5, EdgeBackRestores
  <2> HIDE DEF back
  <2> QED
    BY <2>1, <2>2, <2>3, DoneFacts DEF Reverses, c
<1>8. CASE k # "nodes" /\ k # "edges"
  <2>1. ApplyOne(d, c) = Done(PutGraph(d, ItemRemoved(x, k, id)), AddBack(x, k, {id}))
    BY <1>1, <1>2, <1>8 DEF Removes
  <2>2. k \in {"hints", "groups"}
    BY <1>8 DEF Kinds
  <2>3. Sound(PutGraph(d, ItemRemoved(x, k, id)))
    BY <1>4, <1>5, <2>2, ItemRemovedIntact, PutSound
  <2>4. /\ AddBack(x, k, {id}) \in Seq(GraphCommands)
        /\ Restores(PutGraph(d, ItemRemoved(x, k, id)), AddBack(x, k, {id}), d)
    BY <1>4, <1>5, <2>2, ItemBackRestores
  <2> QED
    BY <2>1, <2>3, <2>4, DoneFacts DEF Reverses, c
<1> QED
  BY <1>6, <1>7, <1>8

-----------------------------------------------------------------------------
(* Commands on whole graphs.                                               *)

LEMMA GraphsSound ==
  ASSUME NEW d, Sound(d), NEW s \in Seq(GraphRecords), Distinct(s), Has(s, d.entry),
         Len(s) <= MaxGraphs, \A i \in 1..Len(s) : GraphIntact(s[i])
  PROVE  LET e == [d EXCEPT !.graphs = s] IN
         Sound(e) /\ e.graphs = s /\ e.entry = d.entry /\ [e EXCEPT !.graphs = d.graphs] = d
<1> DEFINE e == [d EXCEPT !.graphs = s]
<1>1. e \in DocumentRecords /\ e.graphs = s /\ e.entry = d.entry /\ DOMAIN s = 1..Len(s)
      /\ [e EXCEPT !.graphs = d.graphs] = d
  <2>1. d \in [entry : Nat, graphs : Seq(GraphRecords)]
    BY DEF Sound, DocumentRecords
  <2>2. /\ e \in [entry : Nat, graphs : Seq(GraphRecords)] /\ e.graphs = s /\ e.entry = d.entry
        /\ [e EXCEPT !.graphs = d.graphs] = d
    BY <2>1
  <2> QED
    BY <2>2 DEF DocumentRecords
<1> HIDE DEF e
<1>2. Intact(e)
  BY <1>1 DEF Intact
<1> QED
  BY <1>1, <1>2 DEF Sound, e

LEMMA AddGraphReverses ==
  ASSUME NEW d, Sound(d), NEW x \in GraphRecords, GraphIntact(x), NEW index \in Nat,
         ApplyOne(d, AddGraphAt(x, index)).ok
  PROVE  Reverses(d, AddGraphAt(x, index))
<1> DEFINE c == AddGraphAt(x, index)
           r == RemoveGraph(x.id)
           s == Inserted(d.graphs, x, index)
           e == [d EXCEPT !.graphs = s]
<1>1. ApplyOne(d, c).ok
  OBVIOUS
<1>2. /\ ~Has(d.graphs, x.id) /\ ~(Len(d.graphs) >= MaxGraphs)
      /\ ApplyOne(d, c) = Done(e, << r >>)
  BY <1>1, AddGraphOutcome
<1>3. /\ d.graphs \in Seq(GraphRecords) /\ Distinct(d.graphs) /\ Has(d.graphs, d.entry)
      /\ \A i \in 1..Len(d.graphs) : GraphIntact(d.graphs[i])
  BY DEF Sound, Intact, DocumentRecords
<1>4. IsWith(s, GraphRecords, d.graphs, x)
  BY <1>3, InsertedElements
<1>5. Without(s, {x.id}) = d.graphs
  BY <1>2, <1>3, WithoutInserted
<1> HIDE DEF s
<1>6. /\ s \in Seq(GraphRecords) /\ Distinct(s) /\ Has(s, d.entry) /\ Has(s, x.id)
      /\ Len(s) = Len(d.graphs) + 1 /\ \A i \in 1..Len(s) : GraphIntact(s[i])
  BY <1>2, <1>3, <1>4 DEF IsWith
<1>7. Len(s) <= MaxGraphs /\ Len(s) # 1
  <2>1. Len(d.graphs) \in Nat /\ DOMAIN d.graphs = 1..Len(d.graphs)
    BY <1>3
  <2>2. Len(d.graphs) # 0
    BY <1>3, <2>1 DEF Has
  <2> QED
    BY <1>2, <1>6, <2>1, <2>2, DocumentAssumption
<1>8. Sound(e) /\ e.graphs = s /\ e.entry = d.entry /\ [e EXCEPT !.graphs = d.graphs] = d
  BY <1>6, <1>7, GraphsSound
<1>9. d.entry # x.id
  BY <1>2, <1>3
<1> HIDE DEF e
<1>10. ApplyOne(e, r).ok /\ ApplyOne(e, r).document = [e EXCEPT !.graphs = Without(e.graphs, {x.id})]
  <2>1. ApplyOne(e, r).ok
    BY <1>6, <1>7, <1>8, <1>9, RemoveGraphOutcome
  <2>2. ApplyOne(e, r) = Done([e EXCEPT !.graphs = Without(e.graphs, {x.id})], << AddGraphAt(Graph(e, x.id), IndexOf(e.graphs, x.id)) >>)
    BY <2>1, RemoveGraphOutcome
  <2> HIDE DEF r
  <2> QED
    BY <2>1, <2>2, DoneFacts
<1>11. Restores(e, << r >>, d)
  BY <1>5, <1>8, <1>10, RestoresOne
<1>12. << r >> \in Seq(GraphCommands)
  <2>1. x.id \in Nat
    BY DEF GraphRecords
  <2>2. r \in ChooseCommands
    BY <2>1, CommandTypes
  <2> QED
    BY <2>2 DEF GraphCommands
<1> HIDE DEF c, r
<1>13. ApplyOne(d, c).document = e /\ ApplyOne(d, c).inverse = << r >>
  BY <1>2, DoneFacts
<1> QED
  BY <1>8, <1>11, <1>12, <1>13 DEF Reverses, c

LEMMA RemoveGraphReverses ==
  ASSUME NEW d, Sound(d), NEW g \in Nat, ApplyOne(d, RemoveGraph(g)).ok
  PROVE  Reverses(d, RemoveGraph(g))
<1> DEFINE c == RemoveGraph(g)
           gs == d.graphs
           p == IndexOf(gs, g)
           x == Graph(d, g)
           K == 1..Len(gs) \ {p}
           s == Without(gs, {g})
           r == AddGraphAt(x, p)
           e == [d EXCEPT !.graphs = s]
<1>1. ApplyOne(d, c).ok
  OBVIOUS
<1>2. Has(gs, g) /\ d.entry # g /\ ApplyOne(d, c) = Done(e, << r >>)
  BY <1>1, RemoveGraphOutcome
<1>3. /\ gs \in Seq(GraphRecords) /\ Distinct(gs) /\ Has(gs, d.entry) /\ Len(gs) <= MaxGraphs
      /\ \A i \in 1..Len(gs) : GraphIntact(gs[i])
      /\ DOMAIN gs = 1..Len(gs)
  BY DEF Sound, Intact, DocumentRecords
<1>4. IsWithout(s, GraphRecords, gs, {g})
  BY <1>3, WithoutFacts
<1>5. p \in 1..Len(gs) /\ gs[p].id = g /\ x = gs[p] /\ x \in GraphRecords
  BY <1>2, <1>3, ItemFacts DEF Graph, Item
<1>6. s = Selected(gs, K)
  <2>1. Unmarked(gs, {g}) = K
    BY <1>3, <1>5 DEF Unmarked, Distinct
  <2> QED
    BY <2>1, WithoutIsSelected
<1> HIDE DEF s
<1>7. Inserted(s, x, p) = gs
  <2>1. p \notin K /\ 1..p - 1 \subseteq K /\ 1..Len(gs) \subseteq K \cup {p}
    BY <1>5
  <2> HIDE DEF K, p
  <2>2. Inserted(Selected(gs, K), gs[p], p) = Selected(gs, K \cup {p})
    BY <1>3, <1>5, <2>1, SelectedInsert
  <2>3. Selected(gs, K \cup {p}) = gs
    BY <1>3, <2>1, SelectedAll
  <2> QED
    BY <1>5, <1>6, <2>2, <2>3
<1> HIDE DEF p, x, K
<1>8. /\ s \in Seq(GraphRecords) /\ Distinct(s) /\ Has(s, d.entry) /\ ~Has(s, g)
      /\ Len(s) \in Nat /\ Len(s) <= Len(gs)
      /\ \A i \in 1..Len(s) : GraphIntact(s[i])
  BY <1>2, <1>3, <1>4 DEF IsWithout
<1>9. Len(gs) = Len(s) + 1
  <2>1. IsInserted(Inserted(s, x, p), GraphRecords, s, x, p)
    BY <1>5, <1>8, InsertedFacts
  <2> QED
    BY <1>7, <2>1 DEF IsInserted
<1>10. Len(s) <= MaxGraphs /\ ~(Len(s) >= MaxGraphs)
  BY <1>3, <1>8, <1>9, DocumentAssumption
<1>11. Sound(e) /\ e.graphs = s /\ e.entry = d.entry /\ [e EXCEPT !.graphs = d.graphs] = d
  BY <1>8, <1>10, GraphsSound
<1> HIDE DEF e
<1>12. ApplyOne(e, r).ok /\ ApplyOne(e, r).document = [e EXCEPT !.graphs = Inserted(e.graphs, x, p)]
  <2>1. x.id = g
    BY <1>5 DEF x, p
  <2>2. ApplyOne(e, r).ok
    BY <2>1, <1>5, <1>8, <1>10, <1>11, AddGraphOutcome
  <2>3. ApplyOne(e, r) = Done([e EXCEPT !.graphs = Inserted(e.graphs, x, p)], << RemoveGraph(x.id) >>)
    BY <2>2, AddGraphOutcome
  <2> HIDE DEF r
  <2> QED
    BY <2>2, <2>3, DoneFacts
<1>13. Restores(e, << r >>, d)
  BY <1>7, <1>11, <1>12, RestoresOne
<1>14. << r >> \in Seq(GraphCommands)
  <2>1. r \in AddGraphCommands
    BY <1>5, CommandTypes
  <2> QED
    BY <2>1 DEF GraphCommands
<1> HIDE DEF c, r
<1>15. ApplyOne(d, c).document = e /\ ApplyOne(d, c).inverse = << r >>
  BY <1>2, DoneFacts
<1> QED
  BY <1>11, <1>13, <1>14, <1>15 DEF Reverses, c

LEMMA SetEntryReverses ==
  ASSUME NEW d, Sound(d), NEW g \in Nat, ApplyOne(d, SetEntryGraph(g)).ok
  PROVE  Reverses(d, SetEntryGraph(g))
<1> DEFINE c == SetEntryGraph(g)
           r == SetEntryGraph(d.entry)
           e == [d EXCEPT !.entry = g]
<1>1. ApplyOne(d, c).ok
  OBVIOUS
<1>2. Has(d.graphs, g) /\ ApplyOne(d, c) = Done(e, << r >>)
  BY <1>1, SetEntryOutcome
<1>3. /\ e \in DocumentRecords /\ e.graphs = d.graphs /\ e.entry = g
      /\ [e EXCEPT !.entry = d.entry] = d /\ d.entry \in Nat
  BY DEF Sound, DocumentRecords
<1> HIDE DEF e
<1>4. Sound(e) /\ Has(e.graphs, d.entry)
  BY <1>2, <1>3 DEF Sound, Intact
<1>5. ApplyOne(e, r).ok /\ ApplyOne(e, r).document = [e EXCEPT !.entry = d.entry]
  <2>1. ApplyOne(e, r).ok
    BY <1>4, SetEntryOutcome
  <2>2. ApplyOne(e, r) = Done([e EXCEPT !.entry = d.entry], << SetEntryGraph(e.entry) >>)
    BY <2>1, SetEntryOutcome
  <2> HIDE DEF r
  <2> QED
    BY <2>1, <2>2, DoneFacts
<1>6. Restores(e, << r >>, d)
  BY <1>3, <1>5, RestoresOne
<1>7. << r >> \in Seq(GraphCommands)
  <2>1. r \in ChooseCommands
    BY <1>3, CommandTypes
  <2> QED
    BY <2>1 DEF GraphCommands
<1> HIDE DEF c, r
<1>8. ApplyOne(d, c).document = e /\ ApplyOne(d, c).inverse = << r >>
  BY <1>2, DoneFacts
<1> QED
  BY <1>4, <1>6, <1>7, <1>8 DEF Reverses, c

LEMMA SetSignatureReverses ==
  ASSUME NEW d, Sound(d), NEW g \in Nat, NEW parameters \in Seq(Nat),
         ApplyOne(d, SetSignature(g, parameters)).ok
  PROVE  Reverses(d, SetSignature(g, parameters))
<1> DEFINE c == SetSignature(g, parameters)
           x == Graph(d, g)
           y == [x EXCEPT !.parameters = parameters]
           e == PutGraph(d, y)
           r == SetSignature(g, x.parameters)
<1>1. ApplyOne(d, c).ok
  OBVIOUS
<1>2. Has(d.graphs, g) /\ x.kind = "function" /\ ApplyOne(d, c) = Done(e, << r >>)
  <2>1. Signs(ApplyOne(d, c), d, x, g, parameters)
    BY SetSignatureOutcome
  <2> HIDE DEF c, x
  <2> QED
    BY <1>1, <2>1 DEF Signs
<1>3. x \in GraphRecords /\ x.id = g /\ GraphIntact(x)
  BY <1>2, GraphFacts DEF Sound
<1> HIDE DEF x
<1>4. /\ y \in GraphRecords /\ y.id = g /\ y.kind = x.kind
      /\ y.nodes = x.nodes /\ y.edges = x.edges /\ y.hints = x.hints /\ y.groups = x.groups
      /\ [y EXCEPT !.parameters = x.parameters] = x /\ x.parameters \in Seq(Nat)
  BY <1>3 DEF GraphRecords
<1> HIDE DEF y
<1>5. GraphIntact(y)
  BY <1>3, <1>4 DEF GraphIntact
<1>6. Has(e.graphs, g) /\ Graph(e, g) = y /\ PutGraph(e, x) = d
  BY <1>2, <1>3, <1>4, PutBack DEF x
<1>7. Sound(e)
  BY <1>2, <1>4, <1>5, PutSound
<1> HIDE DEF e
<1>8. ApplyOne(e, r).ok /\ ApplyOne(e, r).document = PutGraph(e, [y EXCEPT !.parameters = x.parameters])
  <2>1. Signs(ApplyOne(e, r), e, y, g, x.parameters)
    BY <1>6, SetSignatureOutcome
  <2> HIDE DEF r
  <2> QED
    BY <1>2, <1>4, <1>6, <2>1, DoneFacts DEF Signs
<1>9. Restores(e, << r >>, d)
  <2>1. ApplyOne(e, r).ok /\ ApplyOne(e, r).document = d
    BY <1>4, <1>6, <1>8
  <2> HIDE DEF r
  <2> QED
    BY <2>1, RestoresOne
<1>10. << r >> \in Seq(GraphCommands)
  <2>1. r \in SignatureCommands
    BY <1>4, CommandTypes
  <2> QED
    BY <2>1 DEF GraphCommands
<1> HIDE DEF c, r
<1>11. ApplyOne(d, c).document = e /\ ApplyOne(d, c).inverse = << r >>
  BY <1>2, DoneFacts
<1> QED
  BY <1>7, <1>9, <1>10, <1>11 DEF Reverses, c

-----------------------------------------------------------------------------
(* Every command, and every list of commands.                              *)

\* What the operations see to and the commands do not check: an added edge
\* joins nodes that exist, an added group has members, an added graph is
\* sound inside, and only nodes are replaced.
Fit(d, c) ==
  /\ c.op = "add" /\ c.kind = "edges" =>
       Has(Graph(d, c.graph).nodes, c.item.from) /\ Has(Graph(d, c.graph).nodes, c.item.to)
  /\ c.op = "add" /\ c.kind = "groups" => c.item.members # {}
  /\ c.op = "replace" => c.kind = "nodes"
  /\ c.op = "addGraph" => GraphIntact(c.item)

LEMMA OneReverses ==
  ASSUME NEW d, Sound(d), NEW c \in GraphCommands, Fit(d, c), ApplyOne(d, c).ok
  PROVE  Reverses(d, c)
<1>1. CASE c \in AddCommands
  <2>1. PICK k \in Kinds : c \in [op : {"add"}, graph : Nat, kind : {k}, item : Records[k], index : Nat]
    BY <1>1 DEF AddCommands
  <2>2. /\ c = AddItemAt(c.graph, k, c.item, c.index) /\ c.graph \in Nat /\ c.item \in Records[k]
        /\ c.index \in Nat /\ c.op = "add" /\ c.kind = k
    BY <2>1 DEF AddItemAt
  <2>3. /\ k = "edges" => Has(Graph(d, c.graph).nodes, c.item.from)
                            /\ Has(Graph(d, c.graph).nodes, c.item.to)
        /\ k = "groups" => c.item.members # {}
    BY <2>2 DEF Fit
  <2>4. Reverses(d, AddItemAt(c.graph, k, c.item, c.index))
    BY <2>2, <2>3, AddReverses
  <2> QED
    BY <2>2, <2>4
<1>2. CASE c \in RemoveCommands
  <2>1. c = RemoveItem(c.graph, c.kind, c.id) /\ c.graph \in Nat /\ c.kind \in Kinds
    BY <1>2 DEF RemoveCommands, RemoveItem
  <2>2. Reverses(d, RemoveItem(c.graph, c.kind, c.id))
    BY <2>1, RemoveReverses
  <2> QED
    BY <2>1, <2>2
<1>3. CASE c \in ReplaceCommands
  <2>1. PICK k \in Kinds : c \in [op : {"replace"}, graph : Nat, kind : {k}, item : Records[k]]
    BY <1>3 DEF ReplaceCommands
  <2>2. /\ c = ReplaceItem(c.graph, k, c.item) /\ c.graph \in Nat /\ c.item \in Records[k]
        /\ c.op = "replace" /\ c.kind = k
    BY <2>1 DEF ReplaceItem
  <2>3. k = "nodes"
    BY <2>2 DEF Fit
  <2>4. Reverses(d, ReplaceItem(c.graph, "nodes", c.item))
    BY <2>2, <2>3, ReplaceReverses
  <2> QED
    BY <2>2, <2>3, <2>4
<1>4. CASE c \in AddGraphCommands
  <2>1. /\ c = AddGraphAt(c.item, c.index) /\ c.item \in GraphRecords /\ c.index \in Nat
        /\ c.op = "addGraph"
    BY <1>4 DEF AddGraphCommands, AddGraphAt
  <2>2. GraphIntact(c.item)
    BY <2>1 DEF Fit
  <2>3. Reverses(d, AddGraphAt(c.item, c.index))
    BY <2>1, <2>2, AddGraphReverses
  <2> QED
    BY <2>1, <2>3
<1>5. CASE c \in ChooseCommands
  <2>1. c.graph \in Nat /\ (c = RemoveGraph(c.graph) \/ c = SetEntryGraph(c.graph))
    BY <1>5 DEF ChooseCommands, RemoveGraph, SetEntryGraph
  <2>2. CASE c = RemoveGraph(c.graph)
    <3>1. Reverses(d, RemoveGraph(c.graph))
      BY <2>1, <2>2, RemoveGraphReverses
    <3> QED
      BY <2>2, <3>1
  <2>3. CASE c = SetEntryGraph(c.graph)
    <3>1. Reverses(d, SetEntryGraph(c.graph))
      BY <2>1, <2>3, SetEntryReverses
    <3> QED
      BY <2>3, <3>1
  <2> QED
    BY <2>1, <2>2, <2>3
<1>6. CASE c \in SignatureCommands
  <2>1. c = SetSignature(c.graph, c.parameters) /\ c.graph \in Nat /\ c.parameters \in Seq(Nat)
    BY <1>6 DEF SignatureCommands, SetSignature
  <2>2. Reverses(d, SetSignature(c.graph, c.parameters))
    BY <2>1, SetSignatureReverses
  <2> QED
    BY <2>1, <2>2
<1> QED
  BY <1>1, <1>2, <1>3, <1>4, <1>5, <1>6 DEF GraphCommands

\* From a sound document of P the commands fit, one after another, and lead
\* to a document of Q: F[i] holds what the first i of them may lead to.
Leading(F, cs) ==
  \A i \in 1..Len(cs) : \A e \in F[i - 1] :
    LET step == ApplyOne(e, cs[i]) IN
    Sound(e) => /\ Fit(e, cs[i])
                /\ step.ok /\ Sound(step.document) => step.document \in F[i]
Takes(P, cs, Q) ==
  cs \in Seq(GraphCommands) /\
    \E F : P \subseteq F[0] /\ F[Len(cs)] \subseteq Q /\ Leading(F, cs)

(* Commands that fit, applied as a whole, leave the document sound inside   *)
(* and come with commands that restore the very document there was, file    *)
(* order included (applyComposite and applyCommand in graph-commands.ts).   *)
THEOREM CommandsAreReversible ==
  ASSUME NEW d, Sound(d), NEW P, NEW cs, NEW Q, d \in P, Takes(P, cs, Q), Apply(d, cs).ok
  PROVE  /\ Sound(Apply(d, cs).document) /\ Apply(d, cs).document \in Q
         /\ Apply(d, cs).inverse \in Seq(GraphCommands)
         /\ Restores(Apply(d, cs).document, Apply(d, cs).inverse, d)
<1>1. PICK F : P \subseteq F[0] /\ F[Len(cs)] \subseteq Q /\ Leading(F, cs)
  BY DEF Takes
<1>2. cs \in Seq(GraphCommands)
  BY DEF Takes
<1>3. PICK p : Passes(p, d, cs)
  BY <1>2, ApplyPasses
<1> DEFINE Goal(i) == /\ Sound(p[i].document) /\ p[i].document \in F[i]
                      /\ p[i].inverse \in Seq(GraphCommands)
                      /\ Restores(p[i].document, p[i].inverse, d)
           R == {i \in Nat : i <= Len(cs) => Goal(i)}
<1>4. 0 \in R
  <2>1. p[0].document = d /\ p[0].inverse = <<>>
    BY <1>3, DoneFacts DEF Passes
  <2>2. Restores(d, <<>>, d)
    BY RestoresNothing
  <2>3. <<>> \in Seq(GraphCommands)
    OBVIOUS
  <2>4. Goal(0)
    BY <1>1, <2>1, <2>2, <2>3
  <2> HIDE DEF Goal
  <2> QED
    BY <2>4
<1>5. ASSUME NEW i \in Nat, i \in R PROVE i + 1 \in R
  <2> SUFFICES ASSUME i + 1 <= Len(cs) PROVE Goal(i + 1)
    OBVIOUS
  <2> DEFINE e == p[i].document
             c == cs[i + 1]
  <2>1. PICK step : step = ApplyOne(e, c)
    OBVIOUS
  <2>2. i + 1 \in 1..Len(cs) /\ (i + 1) - 1 = i /\ Goal(i) /\ c \in GraphCommands
    BY <1>5, <1>2
  <2>3. PICK v : v = step.inverse \o p[i].inverse
    OBVIOUS
  <2>4. step.ok /\ p[i + 1] = Done(step.document, v)
    BY <1>3, <2>1, <2>2, <2>3 DEF Passes
  <2>5. Sound(e) /\ Fit(e, c)
    BY <1>1, <2>2 DEF Leading
  <2>6. Reverses(e, c)
    BY <2>1, <2>2, <2>4, <2>5, OneReverses
  <2>7. Sound(step.document) => step.document \in F[i + 1]
    BY <1>1, <2>1, <2>2, <2>4, <2>5 DEF Leading
  <2> HIDE DEF c
  <2>8. /\ Sound(step.document) /\ step.inverse \in Seq(GraphCommands)
        /\ Restores(step.document, step.inverse, e)
    BY <2>1, <2>6 DEF Reverses
  <2> HIDE DEF e
  <2>9. p[i].inverse \in Seq(GraphCommands) /\ Restores(e, p[i].inverse, d)
    BY <2>2 DEF e
  <2>10. Restores(step.document, v, d)
    BY <2>3, <2>8, <2>9, RestoresConcat
  <2>11. v \in Seq(GraphCommands)
    BY <2>3, <2>8, <2>9
  <2>12. p[i + 1].document = step.document /\ p[i + 1].inverse = v
    BY <2>4, DoneFields
  <2> QED
    BY <2>8, <2>10, <2>11, <2>12, <2>7
<1> HIDE DEF R
<1>6. Len(cs) \in R
  BY <1>4, <1>5, <1>2, NatSetInduction
<1> HIDE DEF Goal
<1>7. Goal(Len(cs))
  BY <1>6 DEF R
<1>8. Apply(d, cs) = p[Len(cs)]
  BY <1>3 DEF Passes
<1> QED
  BY <1>1, <1>7, <1>8 DEF Goal

-----------------------------------------------------------------------------
(* How lists of commands are shown to fit.                                 *)

TakesOne(P, c, Q) ==
  /\ c \in GraphCommands
  /\ \A e \in P :
       LET step == ApplyOne(e, c) IN
       Sound(e) => /\ Fit(e, c)
                   /\ step.ok /\ Sound(step.document) => step.document \in Q

LEMMA TakesNothing ==
  ASSUME NEW P
  PROVE  Takes(P, <<>>, P)
<1> DEFINE F == [i \in Nat |-> P]
<1>1. F[0] = P /\ Len(<<>>) = 0 /\ <<>> \in Seq(GraphCommands) /\ 1..0 = {}
  OBVIOUS
<1> HIDE DEF F
<1>2. Leading(F, <<>>)
  BY <1>1 DEF Leading
<1> QED
  BY <1>1, <1>2 DEF Takes

LEMMA TakesWeaker ==
  ASSUME NEW P, NEW cs, NEW Q, NEW P1, NEW Q1, Takes(P, cs, Q), P1 \subseteq P, Q \subseteq Q1
  PROVE  Takes(P1, cs, Q1)
BY DEF Takes

(* F[i] holds what the first i commands lead to.                            *)
LEMMA TakesEach ==
  ASSUME NEW cs \in Seq(GraphCommands), NEW F,
         \A i \in 1..Len(cs) : TakesOne(F[i - 1], cs[i], F[i])
  PROVE  Takes(F[0], cs, F[Len(cs)])
<1>1. Leading(F, cs)
  BY DEF Leading, TakesOne
<1> QED
  BY <1>1 DEF Takes

LEMMA TakesKeeping ==
  ASSUME NEW cs, NEW T, cs \in Seq(T), NEW P, \A i \in 1..Len(cs) : TakesOne(P, cs[i], P)
  PROVE  Takes(P, cs, P)
<1> DEFINE F == [i \in Nat |-> P]
<1>1. Len(cs) \in Nat /\ \A i \in 1..Len(cs) : i - 1 \in Nat /\ i \in Nat /\ cs[i] \in GraphCommands
  BY DEF TakesOne
<1>2. cs \in Seq(GraphCommands)
  BY <1>1
<1>3. F[0] = P /\ F[Len(cs)] = P /\ \A i \in 1..Len(cs) : F[i - 1] = P /\ F[i] = P
  BY <1>1
<1> HIDE DEF F
<1>4. \A i \in 1..Len(cs) : TakesOne(F[i - 1], cs[i], F[i])
  BY <1>3
<1>5. Takes(F[0], cs, F[Len(cs)])
  BY <1>2, <1>4, TakesEach
<1> QED
  BY <1>3, <1>5

LEMMA TakesConcat ==
  ASSUME NEW a, NEW b, NEW P, NEW Q, NEW R, Takes(P, a, Q), Takes(Q, b, R)
  PROVE  Takes(P, a \o b, R)
<1>1. a \in Seq(GraphCommands) /\ b \in Seq(GraphCommands)
  BY DEF Takes
<1>2. PICK F : P \subseteq F[0] /\ F[Len(a)] \subseteq Q /\ Leading(F, a)
  BY DEF Takes
<1>3. PICK G : Q \subseteq G[0] /\ G[Len(b)] \subseteq R /\ Leading(G, b)
  BY DEF Takes
<1> DEFINE m == Len(a)
           n == Len(b)
<1>4. PICK c : c = a \o b
  OBVIOUS
<1>5. /\ c \in Seq(GraphCommands) /\ Len(c) = m + n /\ m \in Nat /\ n \in Nat
      /\ \A i \in 1..m : c[i] = a[i]
      /\ \A i \in 1..n : c[m + i] = b[i]
  BY <1>1, <1>4
<1> HIDE DEF m, n
<1> DEFINE H == [i \in Nat |-> IF i < m THEN F[i] ELSE G[i - m]]
<1>6. /\ H[m] = G[0]
      /\ \A i \in Nat : i < m => H[i] = F[i]
      /\ \A i \in Nat : m < i => H[i] = G[i - m]
  BY <1>5
<1> HIDE DEF H
<1>7. ASSUME NEW i \in 1..m + n, NEW e \in H[i - 1], Sound(e)
      PROVE  /\ Fit(e, c[i])
             /\ LET step == ApplyOne(e, c[i]) IN
                step.ok /\ Sound(step.document) => step.document \in H[i]
  <2>1. CASE i \in 1..m
    <3>1. c[i] = a[i] /\ e \in F[i - 1] /\ i - 1 \in Nat /\ i \in Nat /\ i \in 1..Len(a)
      BY <1>5, <1>6, <1>7, <2>1 DEF m
    <3>2. LET step == ApplyOne(e, c[i]) IN
          Fit(e, c[i]) /\ (step.ok /\ Sound(step.document) => step.document \in F[i])
      BY <1>2, <1>7, <3>1 DEF Leading
    <3>3. F[i] \subseteq H[i]
      <4>1. CASE i < m
        BY <1>6, <3>1, <4>1
      <4>2. CASE i = m
        BY <1>2, <1>3, <1>6, <4>2 DEF m
      <4> QED
        BY <1>5, <2>1, <4>1, <4>2
    <3> QED
      BY <3>2, <3>3
  <2>2. CASE i \notin 1..m
    <3> DEFINE j == i - m
    <3>1. j \in 1..n /\ i = m + j /\ i - 1 \in Nat /\ j - 1 = (i - 1) - m /\ m < i /\ i \in Nat
          /\ (i - 1 = m \/ m < i - 1)
      BY <1>5, <1>7, <2>2
    <3> HIDE DEF j
    <3>2. c[i] = b[j] /\ H[i] = G[j]
      BY <1>5, <1>6, <3>1 DEF j
    <3>3. H[i - 1] = G[j - 1]
      <4>1. CASE i - 1 = m
        <5>1. j - 1 = 0
          BY <1>5, <3>1, <4>1
        <5> QED
          BY <1>6, <4>1, <5>1
      <4>2. CASE m < i - 1
        BY <1>6, <3>1, <4>2
      <4> QED
        BY <3>1, <4>1, <4>2
    <3> QED
      BY <1>3, <1>7, <3>1, <3>2, <3>3 DEF Leading, n
  <2> QED
    BY <2>1, <2>2
<1>8. Leading(H, c)
  BY <1>5, <1>7 DEF Leading
<1>9. P \subseteq H[0]
  <2>1. CASE m = 0
    BY <1>2, <1>3, <1>6, <2>1 DEF m
  <2>2. CASE m # 0
    BY <1>2, <1>5, <1>6, <2>2
  <2> QED
    BY <2>1, <2>2
<1>10. H[Len(c)] \subseteq R
  <2>1. CASE n = 0
    <3>1. Len(c) = m
      BY <1>5, <2>1
    <3> QED
      BY <1>3, <1>6, <2>1, <3>1 DEF n
  <2>2. CASE n # 0
    <3>1. Len(c) \in Nat /\ m < Len(c) /\ Len(c) - m = n
      BY <1>5, <2>2
    <3> QED
      BY <1>3, <1>6, <3>1 DEF n
  <2> QED
    BY <2>1, <2>2
<1>11. Takes(P, c, R)
  BY <1>5, <1>8, <1>9, <1>10 DEF Takes
<1> QED
  BY <1>4, <1>11

LEMMA TakesOneCommand ==
  ASSUME NEW P, NEW c, NEW Q, TakesOne(P, c, Q)
  PROVE  Takes(P, <<c>>, Q)
<1> DEFINE F == [i \in Nat |-> IF i = 0 THEN P ELSE Q]
<1>1. PICK cs : cs = <<c>>
  OBVIOUS
<1>2. c \in GraphCommands
  BY DEF TakesOne
<1>3. cs \in Seq(GraphCommands) /\ Len(cs) = 1 /\ cs[1] = c
  BY <1>1, <1>2
<1>4. F[0] = P /\ F[1] = Q
  OBVIOUS
<1> HIDE DEF F
<1>5. \A i \in 1..Len(cs) : i = 1 /\ i - 1 = 0
  BY <1>3
<1>6. Takes(F[0], cs, F[Len(cs)])
  BY <1>3, <1>4, <1>5, TakesEach
<1> QED
  BY <1>1, <1>3, <1>4, <1>6

LEMMA TakesThen ==
  ASSUME NEW P, NEW cs, NEW Q, NEW c, NEW R, Takes(P, cs, Q), TakesOne(Q, c, R)
  PROVE  Takes(P, Append(cs, c), R)
<1>1. Takes(P, cs \o <<c>>, R)
  BY TakesOneCommand, TakesConcat
<1>2. cs \o <<c>> = Append(cs, c)
  <2>1. cs \in Seq(GraphCommands) /\ c \in GraphCommands
    BY DEF Takes, TakesOne
  <2> QED
    BY <2>1
<1> QED
  BY <1>1, <1>2

-----------------------------------------------------------------------------
(* The wiring rules, about the nodes M and the edges D of a graph: one edge *)
(* in each place, and no pure node waits for itself.                        *)
Pure(M) == {n.id : n \in {m \in M : m.type = "value"}}
Data(D) == {e \in D : e.kind = "data"}
SamePlace(e, f) ==
  /\ e.kind = f.kind
  /\ IF e.kind = "data" THEN e.to = f.to /\ e.in = f.in ELSE e.from = f.from /\ e.out = f.out
OneEach(D) == \A e, f \in D : SamePlace(e, f) => e = f
Closed(S, P, D) == \A e \in D : e.to \in S /\ e.from \in P => e.from \in S
Acyclic(P, D) ==
  \A e \in D : e.from \in P /\ e.to \in P =>
    \E S \in SUBSET P : Closed(S, P, D) /\ e.from \in S /\ e.to \notin S
Wiring(M, D) == OneEach(D) /\ Acyclic(Pure(M), Data(D))
GraphWired(x) == Wiring(ToSet(x.nodes), ToSet(x.edges))
Wired(d) == \A i \in DOMAIN d.graphs : GraphWired(d.graphs[i])

LEMMA AcyclicLess ==
  ASSUME NEW P, NEW D, Acyclic(P, D), NEW Q \in SUBSET P, NEW E \in SUBSET D
  PROVE  Acyclic(Q, E)
<1> SUFFICES ASSUME NEW e \in E, e.from \in Q, e.to \in Q
             PROVE  \E S \in SUBSET Q : Closed(S, Q, E) /\ e.from \in S /\ e.to \notin S
  BY DEF Acyclic
<1>1. PICK S \in SUBSET P : Closed(S, P, D) /\ e.from \in S /\ e.to \notin S
  BY DEF Acyclic
<1>2. Closed(S \cap Q, Q, E)
  BY <1>1 DEF Closed
<1> QED
  BY <1>1, <1>2

(* An edge may be added whose first end does not wait for its second.       *)
LEMMA AcyclicAdd ==
  ASSUME NEW P, NEW D, Acyclic(P, D), NEW c,
         c.from \in P /\ c.to \in P =>
           \E T \in SUBSET P : Closed(T, P, D) /\ c.from \in T /\ c.to \notin T
  PROVE  Acyclic(P, D \cup {c})
<1> DEFINE E == D \cup {c}
<1> SUFFICES ASSUME NEW e \in E, e.from \in P, e.to \in P
             PROVE  \E S \in SUBSET P : Closed(S, P, E) /\ e.from \in S /\ e.to \notin S
  BY DEF Acyclic
<1>1. CASE ~(c.from \in P /\ c.to \in P)
  <2>1. e \in D /\ \A S \in SUBSET P : Closed(S, P, D) => Closed(S, P, E)
    BY <1>1 DEF Closed
  <2> QED
    BY <2>1 DEF Acyclic
<1>2. CASE c.from \in P /\ c.to \in P
  <2>1. PICK T \in SUBSET P : Closed(T, P, D) /\ c.from \in T /\ c.to \notin T
    BY <1>2
  <2>2. Closed(T, P, E)
    BY <2>1 DEF Closed
  <2>3. CASE e = c
    BY <2>1, <2>2, <2>3
  <2>4. CASE e \in D
    <3>1. PICK S \in SUBSET P : Closed(S, P, D) /\ e.from \in S /\ e.to \notin S
      BY <2>4 DEF Acyclic
    <3>2. CASE e.to \in T
      <4>1. Closed(S \cap T, P, E) /\ e.from \in T
        BY <2>1, <2>4, <3>1, <3>2 DEF Closed
      <4> QED
        BY <3>1, <4>1
    <3>3. CASE e.to \notin T
      <4>1. Closed(S \cup T, P, E)
        BY <2>1, <3>1 DEF Closed
      <4> QED
        BY <3>1, <3>3, <4>1
    <3> QED
      BY <3>2, <3>3
  <2> QED
    BY <2>3, <2>4
<1> QED
  BY <1>1, <1>2

\* The edges D join nodes of I.
Joins(D, I) == \A e \in D : e.from \in I /\ e.to \in I

(* Side by side, two graphs without a node in common keep the rules.        *)
LEMMA AcyclicUnion ==
  ASSUME NEW I, NEW J, I \cap J = {}, NEW P \in SUBSET I, NEW Q \in SUBSET J,
         NEW D, NEW E, Joins(D, I), Joins(E, J), Acyclic(P, D), Acyclic(Q, E)
  PROVE  Acyclic(P \cup Q, D \cup E)
<1> SUFFICES ASSUME NEW e \in D \cup E, e.from \in P \cup Q, e.to \in P \cup Q
             PROVE  \E S \in SUBSET (P \cup Q) :
                      Closed(S, P \cup Q, D \cup E) /\ e.from \in S /\ e.to \notin S
  BY DEF Acyclic
<1>1. CASE e \in D
  <2>1. e.from \in P /\ e.to \in P
    BY <1>1 DEF Joins
  <2>2. PICK S \in SUBSET P : Closed(S, P, D) /\ e.from \in S /\ e.to \notin S
    BY <1>1, <2>1 DEF Acyclic
  <2>3. Closed(S, P \cup Q, D \cup E)
    BY <2>2 DEF Closed, Joins
  <2> QED
    BY <2>2, <2>3
<1>2. CASE e \in E
  <2>1. e.from \in Q /\ e.to \in Q
    BY <1>2 DEF Joins
  <2>2. PICK S \in SUBSET Q : Closed(S, Q, E) /\ e.from \in S /\ e.to \notin S
    BY <1>2, <2>1 DEF Acyclic
  <2>3. Closed(S, P \cup Q, D \cup E)
    BY <2>2 DEF Closed, Joins
  <2> QED
    BY <2>2, <2>3
<1> QED
  BY <1>1, <1>2

LEMMA OneEachUnion ==
  ASSUME NEW I, NEW J, I \cap J = {}, NEW D, NEW E, Joins(D, I), Joins(E, J),
         OneEach(D), OneEach(E)
  PROVE  OneEach(D \cup E)
<1> SUFFICES ASSUME NEW e \in D \cup E, NEW f \in D \cup E, SamePlace(e, f) PROVE e = f
  BY DEF OneEach
<1>1. (e \in D /\ f \in D) \/ (e \in E /\ f \in E)
  BY DEF SamePlace, Joins
<1> QED
  BY <1>1 DEF OneEach

LEMMA WiringLess ==
  ASSUME NEW M, NEW D, Wiring(M, D), NEW N \in SUBSET M, NEW E \in SUBSET D
  PROVE  Wiring(N, E)
<1>1. Pure(N) \subseteq Pure(M) /\ Data(E) \subseteq Data(D)
  BY DEF Pure, Data
<1>2. Acyclic(Pure(N), Data(E))
  BY <1>1, AcyclicLess DEF Wiring
<1> QED
  BY <1>2 DEF Wiring, OneEach

Ids(M) == {n.id : n \in M}

LEMMA WiringUnion ==
  ASSUME NEW M, NEW N, Ids(M) \cap Ids(N) = {}, NEW D, NEW E, Joins(D, Ids(M)), Joins(E, Ids(N)),
         Wiring(M, D), Wiring(N, E)
  PROVE  Wiring(M \cup N, D \cup E)
<1>1. /\ Pure(M) \subseteq Ids(M) /\ Pure(N) \subseteq Ids(N)
      /\ Pure(M \cup N) = Pure(M) \cup Pure(N)
  BY DEF Pure, Ids
<1>2. /\ Joins(Data(D), Ids(M)) /\ Joins(Data(E), Ids(N))
      /\ Data(D \cup E) = Data(D) \cup Data(E)
  BY DEF Joins, Data
<1> DEFINE I == Ids(M)
           J == Ids(N)
           P == Pure(M)
           Q == Pure(N)
           A == Data(D)
           B == Data(E)
<1>3. Acyclic(P, A) /\ Acyclic(Q, B) /\ OneEach(D) /\ OneEach(E)
  BY DEF Wiring
<1>4. I \cap J = {} /\ Joins(D, I) /\ Joins(E, J)
  OBVIOUS
<1> HIDE DEF I, J, P, Q, A, B
<1>5. OneEach(D \cup E)
  BY <1>3, <1>4, OneEachUnion
<1>6. P \in SUBSET I /\ Q \in SUBSET J /\ Joins(A, I) /\ Joins(B, J)
  BY <1>1, <1>2 DEF I, J, P, Q, A, B
<1>7. Acyclic(P \cup Q, A \cup B)
  BY <1>3, <1>4, <1>6, AcyclicUnion
<1> QED
  BY <1>1, <1>2, <1>5, <1>7 DEF Wiring, P, Q, A, B

(* A node that no edge touches.                                             *)
LEMMA WiringWider ==
  ASSUME NEW M, NEW D, Joins(D, Ids(M)), Wiring(M, D), NEW n, n.id \notin Ids(M)
  PROVE  Wiring(M \cup {n}, D)
<1>1. Wiring({n}, {})
  BY DEF Wiring, OneEach, Acyclic, Data
<1>2. Joins({}, Ids({n})) /\ Ids(M) \cap Ids({n}) = {}
  BY DEF Joins, Ids
<1>3. Wiring(M \cup {n}, D \cup {})
  BY <1>1, <1>2, WiringUnion
<1>4. D \cup {} = D
  OBVIOUS
<1> QED
  BY <1>3, <1>4

\* E is D with its nodes renamed: alike, and one edge of E for each of D.
Renames(f, g, I, D, E) ==
  /\ \A a, b \in I : f[a] = f[b] => a = b
  /\ \A e \in E : \E d \in D : e = g[d] 
  /\ \A d \in D : /\ g[d].from = f[d.from] /\ g[d].to = f[d.to] /\ g[d].kind = d.kind
                  /\ g[d].in = d.in /\ g[d].out = d.out

LEMMA AcyclicRenamed ==
  ASSUME NEW f, NEW g, NEW I, NEW P \in SUBSET I, NEW D, NEW E, Joins(D, I),
         Renames(f, g, I, D, E), Acyclic(P, D)
  PROVE  Acyclic({f[p] : p \in P}, E)
<1> DEFINE Q == {f[p] : p \in P}
<1> SUFFICES ASSUME NEW e \in E, e.from \in Q, e.to \in Q
             PROVE  \E S \in SUBSET Q : Closed(S, Q, E) /\ e.from \in S /\ e.to \notin S
  BY DEF Acyclic
<1>1. PICK d \in D : e = g[d]
  BY DEF Renames
<1>2. \A x \in D : x.from \in I /\ x.to \in I
  BY DEF Joins
<1>3. \A a \in I : f[a] \in Q => a \in P
  BY DEF Renames
<1>4. d.from \in P /\ d.to \in P /\ e.from = f[d.from] /\ e.to = f[d.to]
  BY <1>1, <1>2, <1>3 DEF Renames
<1>5. PICK S \in SUBSET P : Closed(S, P, D) /\ d.from \in S /\ d.to \notin S
  BY <1>4 DEF Acyclic
<1> DEFINE T == {f[p] : p \in S}
<1>6. \A a \in I : f[a] \in T => a \in S
  BY DEF Renames
<1>7. T \in SUBSET Q /\ e.from \in T /\ e.to \notin T
  BY <1>2, <1>4, <1>5, <1>6
<1>8. ASSUME NEW x \in E, x.to \in T, x.from \in Q PROVE x.from \in T
  <2>1. PICK y \in D : x = g[y]
    BY DEF Renames
  <2>2. x.from = f[y.from] /\ x.to = f[y.to] /\ y.from \in I /\ y.to \in I
    BY <1>2, <2>1 DEF Renames
  <2>3. y.to \in S /\ y.from \in P
    BY <1>3, <1>6, <1>8, <2>2
  <2>4. y.from \in S
    BY <1>5, <2>3 DEF Closed
  <2> QED
    BY <2>2, <2>4
<1>9. Closed(T, Q, E)
  BY <1>8 DEF Closed
<1> QED
  BY <1>7, <1>9

LEMMA OneEachRenamed ==
  ASSUME NEW f, NEW g, NEW I, NEW D, NEW E, Joins(D, I), Renames(f, g, I, D, E), OneEach(D)
  PROVE  OneEach(E)
<1> SUFFICES ASSUME NEW a \in E, NEW b \in E, SamePlace(a, b) PROVE a = b
  BY DEF OneEach
<1>1. PICK x \in D, y \in D : a = g[x] /\ b = g[y]
  BY DEF Renames
<1>2. SamePlace(x, y)
  BY <1>1 DEF SamePlace, Renames, Joins
<1> QED
  BY <1>1, <1>2 DEF OneEach

-----------------------------------------------------------------------------
(* What the commands of an operation lead to, one graph at a time.         *)

WiredRecords == {e \in DocumentRecords : Wired(e)}
Families == {DocumentRecords, WiredRecords}
\* What a graph of a document of the family must be.
Suits(A, x) == A = WiredRecords => GraphWired(x)

LEMMA FamilyFacts ==
  ASSUME NEW A \in Families, NEW e \in A, Sound(e)
  PROVE  /\ e \in DocumentRecords /\ \A g : Has(e.graphs, g) => Suits(A, Graph(e, g))
<1>1. e \in DocumentRecords /\ (A = WiredRecords => Wired(e))
  BY DEF Families, WiredRecords
<1>2. ASSUME NEW g, Has(e.graphs, g), A = WiredRecords PROVE GraphWired(Graph(e, g))
  <2>1. e.graphs \in Seq(GraphRecords)
    BY <1>1 DEF DocumentRecords
  <2>2. IndexOf(e.graphs, g) \in 1..Len(e.graphs) /\ DOMAIN e.graphs = 1..Len(e.graphs)
    BY <1>2, <2>1, ItemFacts
  <2>3. Graph(e, g) = e.graphs[IndexOf(e.graphs, g)]
    BY DEF Graph, Item
  <2> QED
    BY <1>1, <1>2, <2>2, <2>3 DEF Wired
<1> QED
  BY <1>1, <1>2 DEF Suits

LEMMA InFamily ==
  ASSUME NEW A \in Families, NEW e \in DocumentRecords,
         \A i \in 1..Len(e.graphs) : Suits(A, e.graphs[i])
  PROVE  e \in A
<1>1. DOMAIN e.graphs = 1..Len(e.graphs)
  BY DEF DocumentRecords
<1>2. CASE A = WiredRecords
  BY <1>1, <1>2 DEF WiredRecords, Wired, Suits
<1> QED
  BY <1>2 DEF Families

LEMMA GraphsSuit ==
  ASSUME NEW A \in Families, NEW e \in A, NEW i \in 1..Len(e.graphs)
  PROVE  Suits(A, e.graphs[i])
<1>1. e \in DocumentRecords /\ (A = WiredRecords => Wired(e))
  BY DEF Families, WiredRecords
<1>2. DOMAIN e.graphs = 1..Len(e.graphs)
  BY <1>1 DEF DocumentRecords
<1> QED
  BY <1>1, <1>2 DEF Wired, Suits

\* Graph g has the nodes M and some of the edges D.
Within(g, M, D, A) ==
  {e \in A : /\ Has(e.graphs, g) /\ ToSet(Graph(e, g).nodes) = M
             /\ ToSet(Graph(e, g).edges) \subseteq D}

LEMMA PutWithin ==
  ASSUME NEW A \in Families, NEW e \in A, Sound(e), NEW y \in GraphRecords,
         NEW g, y.id = g, Has(e.graphs, g), Suits(A, y), NEW M, M = ToSet(y.nodes),
         NEW D, ToSet(y.edges) \subseteq D
  PROVE  PutGraph(e, y) \in A /\ PutGraph(e, y) \in Within(g, M, D, A)
<1>1. e \in DocumentRecords /\ Distinct(e.graphs)
  BY DEF Sound, Intact
<1>2. PICK r : r = PutGraph(e, y)
  OBVIOUS
<1>3. /\ r \in DocumentRecords /\ Len(r.graphs) = Len(e.graphs)
      /\ Has(r.graphs, y.id) /\ Graph(r, y.id) = y
      /\ \A i \in 1..Len(e.graphs) : r.graphs[i] = IF e.graphs[i].id = y.id THEN y ELSE e.graphs[i]
  BY <1>1, <1>2, GraphChanged
<1>4. \A i \in 1..Len(r.graphs) : Suits(A, r.graphs[i])
  <2> TAKE i \in 1..Len(r.graphs)
  <2>1. i \in 1..Len(e.graphs)
    BY <1>3
  <2>2. Suits(A, e.graphs[i])
    BY <2>1, GraphsSuit
  <2> QED
    BY <1>3, <2>1, <2>2
<1>5. r \in A
  BY <1>3, <1>4, InFamily
<1> QED
  BY <1>2, <1>3, <1>5 DEF Within

LEMMA WithinGraph ==
  ASSUME NEW A \in Families, NEW g, NEW M, NEW D, NEW e \in Within(g, M, D, A), Sound(e),
         NEW x, x = Graph(e, g)
  PROVE  /\ e \in A /\ Has(e.graphs, g) /\ x \in GraphRecords /\ x.id = g /\ g \in Nat
         /\ GraphIntact(x) /\ ToSet(x.nodes) = M /\ ToSet(x.edges) \subseteq D
         /\ Suits(A, x) /\ DOMAIN x.nodes = 1..Len(x.nodes) /\ DOMAIN x.edges = 1..Len(x.edges)
<1>1. e \in A /\ Has(e.graphs, g) /\ ToSet(x.nodes) = M /\ ToSet(x.edges) \subseteq D
  BY DEF Within
<1>2. Suits(A, x) /\ e \in DocumentRecords
  BY <1>1, FamilyFacts
<1>3. x \in GraphRecords /\ x.id = g /\ g \in Nat /\ GraphIntact(x)
  BY <1>1, <1>2, GraphFacts DEF Sound
<1> QED
  BY <1>1, <1>2, <1>3, Lists

LEMMA HasIds ==
  ASSUME NEW items, NEW id
  PROVE  Has(items, id) <=> id \in Ids(ToSet(items))
BY DEF Has, Ids, ToSet

LEMMA EdgesJoinIds ==
  ASSUME NEW x, GraphIntact(x)
  PROVE  Joins(ToSet(x.edges), Ids(ToSet(x.nodes)))
<1>1. EdgesJoin(x)
  BY IntactParts
<1>2. \A i \in DOMAIN x.edges : /\ x.edges[i].from \in Ids(ToSet(x.nodes))
                                /\ x.edges[i].to \in Ids(ToSet(x.nodes))
  BY <1>1, HasIds DEF EdgesJoin
<1> QED
  BY <1>2 DEF Joins, ToSet

(* A graph with fewer nodes and edges suits wherever the graph did.         *)
LEMMA SuitsLess ==
  ASSUME NEW A, NEW x, Suits(A, x), NEW y, ToSet(y.nodes) \subseteq ToSet(x.nodes),
         ToSet(y.edges) \subseteq ToSet(x.edges)
  PROVE  Suits(A, y)
BY WiringLess DEF Suits, GraphWired

LEMMA WithoutSet ==
  ASSUME NEW T, NEW items \in Seq(T), NEW ids
  PROVE  ToSet(Without(items, ids)) = {t \in ToSet(items) : t.id \notin ids}
<1>1. PICK s : s = Without(items, ids)
  OBVIOUS
<1>2. IsWithout(s, T, items, ids)
  BY <1>1, WithoutFacts
<1>3. /\ s \in Seq(T)
      /\ \A i \in 1..Len(s) : \E j \in 1..Len(items) : items[j].id \notin ids /\ s[i] = items[j]
      /\ \A j \in 1..Len(items) : items[j].id \notin ids => \E i \in 1..Len(s) : s[i] = items[j]
  BY <1>2 DEF IsWithout
<1>4. DOMAIN s = 1..Len(s) /\ DOMAIN items = 1..Len(items)
  BY <1>3
<1>5. ToSet(s) = {t \in ToSet(items) : t.id \notin ids}
  BY <1>3, <1>4, ZenonT(60) DEF ToSet
<1> QED
  BY <1>1, <1>5

LEMMA InsertedSet ==
  ASSUME NEW T, NEW items \in Seq(T), NEW item \in T, NEW k \in Nat
  PROVE  ToSet(Inserted(items, item, k)) = ToSet(items) \cup {item}
<1>1. PICK t : t = Inserted(items, item, k)
  OBVIOUS
<1>2. IsWith(t, T, items, item)
  BY <1>1, InsertedElements
<1>3. /\ DOMAIN t = 1..Len(t)
      /\ \A i \in 1..Len(t) : t[i] = item \/ \E j \in 1..Len(items) : t[i] = items[j]
      /\ \A j \in 1..Len(items) : \E i \in 1..Len(t) : t[i] = items[j]
      /\ \E i \in 1..Len(t) : t[i] = item
  BY <1>2 DEF IsWith
<1>4. DOMAIN items = 1..Len(items)
  OBVIOUS
<1>5. ToSet(t) \subseteq ToSet(items) \cup {item}
  BY <1>3, <1>4 DEF ToSet
<1>6. ToSet(items) \subseteq ToSet(t) /\ item \in ToSet(t)
  BY <1>3, <1>4 DEF ToSet
<1>7. ToSet(t) = ToSet(items) \cup {item}
  BY <1>5, <1>6
<1> QED
  BY <1>1, <1>7

LEMMA EdgeCut ==
  ASSUME NEW A \in Families, NEW g \in Nat, NEW M, NEW D, NEW id \in Nat,
         NEW E, \A t \in D : t.id # id => t \in E
  PROVE  TakesOne(Within(g, M, D, A), RemoveItem(g, "edges", id), Within(g, M, E, A))
<1> DEFINE c == RemoveItem(g, "edges", id)
           R == Within(g, M, E, A)
<1>1. c \in GraphCommands
  BY CommandTypes DEF GraphCommands, Kinds
<1>2. ASSUME NEW e \in Within(g, M, D, A), NEW step, step = ApplyOne(e, c), Sound(e)
      PROVE  Fit(e, c) /\ (step.ok => step.document \in R)
  <2>1. Fit(e, c)
    BY DEF Fit, RemoveItem
  <2>2. ASSUME step.ok PROVE step.document \in R
    <3>1. PICK x : x = Graph(e, g)
      OBVIOUS
    <3>2. /\ e \in A /\ Has(e.graphs, g) /\ x \in GraphRecords /\ x.id = g /\ g \in Nat
          /\ GraphIntact(x) /\ ToSet(x.nodes) = M /\ ToSet(x.edges) \subseteq D /\ Suits(A, x)
      BY <1>2, <3>1, WithinGraph
    <3>3. Removes(step, e, x, g, "edges", id)
      BY <1>2, <3>1, RemoveOutcome
    <3>4. PICK y : y = EdgeRemoved(x, id)
      OBVIOUS
    <3>5. step.document = PutGraph(e, y)
      <4>1. PICK v : v = AddBack(x, "edges", {id}) \o AddBack(x, "hints", HintsOf(x, {id}))
        OBVIOUS
      <4>2. step = Done(PutGraph(e, y), v)
        BY <2>2, <3>3, <3>4, <4>1 DEF Removes
      <4> QED
        BY <4>2, DoneFields
    <3>6. y \in GraphRecords /\ y.id = g
      BY <3>2, <3>4, EdgeRemovedIntact
    <3>7. y.nodes = x.nodes /\ y.edges = Without(x.edges, {id})
      BY <3>2, <3>4 DEF EdgeRemoved, GraphRecords
    <3>8. ToSet(y.edges) = {t \in ToSet(x.edges) : t.id \notin {id}}
      BY <3>2, <3>7, WithoutSet, Lists
    <3>9. Suits(A, y)
      BY <3>2, <3>7, <3>8, SuitsLess
    <3>10. ToSet(y.edges) \subseteq E
      BY <3>2, <3>8
    <3>11. M = ToSet(y.nodes)
      BY <3>2, <3>7
    <3>12. PutGraph(e, y) \in Within(g, M, E, A)
      BY <1>2, <3>2, <3>6, <3>9, <3>10, <3>11, PutWithin
    <3> QED
      BY <3>5, <3>12
  <2> QED
    BY <2>1, <2>2
<1> HIDE DEF c, R
<1> QED
  BY <1>1, <1>2 DEF TakesOne, c, R

\* A graph with an item more.
Grown(x, k, item) == [x EXCEPT ![k] = Inserted(x[k], item, AtEnd)]
LEMMA AddedTo ==
  ASSUME NEW e, Sound(e), NEW g \in Nat, NEW x, x = Graph(e, g), NEW k \in Kinds,
         NEW item \in Records[k], NEW step, step = ApplyOne(e, AddItem(g, k, item)), step.ok,
         Sound(step.document)
  PROVE  /\ Has(e.graphs, g) /\ ~Has(x[k], item.id) /\ step.document = PutGraph(e, Grown(x, k, item))
         /\ Grown(x, k, item) \in GraphRecords /\ Grown(x, k, item).id = g
         /\ ToSet(Grown(x, k, item)[k]) = ToSet(x[k]) \cup {item}
         /\ \A l \in Kinds \ {k} : Grown(x, k, item)[l] = x[l]
<1>1. Adds(step, e, x, g, k, item, AtEnd)
  BY AddOutcome DEF AddItem
<1>2. PICK y : y = Grown(x, k, item)
  OBVIOUS
<1>3. /\ Has(e.graphs, g) /\ ~Has(x[k], item.id)
      /\ step = Done(PutGraph(e, y), << RemoveItem(g, k, item.id) >>)
  BY <1>1, <1>2 DEF Adds, Grown
<1>4. step.document = PutGraph(e, y)
  <2>1. PICK v : v = << RemoveItem(g, k, item.id) >>
    OBVIOUS
  <2> QED
    BY <1>3, <2>1, DoneFields
<1>5. x \in GraphRecords /\ x.id = g
  BY <1>3, GraphFacts DEF Sound
<1>6. x[k] \in Seq(Records[k])
  BY <1>5 DEF GraphRecords, Kinds
<1>7. PICK s : s = Inserted(x[k], item, AtEnd)
  OBVIOUS
<1>8. AtEnd \in Nat
  BY DEF AtEnd
<1>9. IsWith(s, Records[k], x[k], item)
  BY <1>6, <1>7, <1>8, InsertedElements
<1>10. s \in Seq(Records[k]) /\ ToSet(s) = ToSet(x[k]) \cup {item}
  BY <1>6, <1>7, <1>8, <1>9, InsertedSet DEF IsWith
<1>11. y = [x EXCEPT ![k] = s]
  BY <1>2, <1>7 DEF Grown
<1>12. y \in GraphRecords /\ y[k] = s /\ y.id = x.id /\ \A l \in Kinds \ {k} : y[l] = x[l]
  BY <1>5, <1>10, <1>11 DEF GraphRecords, Kinds
<1> QED
  BY <1>2, <1>3, <1>4, <1>5, <1>10, <1>12

LEMMA EdgeAdded ==
  ASSUME NEW A \in Families, NEW g \in Nat, NEW M, NEW D, NEW t \in Records["edges"],
         t.from \in Ids(M), t.to \in Ids(M), A = WiredRecords => Wiring(M, D \cup {t})
  PROVE  TakesOne(Within(g, M, D, A), AddItem(g, "edges", t), Within(g, M, D \cup {t}, A))
<1> DEFINE c == AddItem(g, "edges", t)
           R == Within(g, M, D \cup {t}, A)
<1>1. c \in GraphCommands
  <2>1. "edges" \in Kinds /\ AtEnd \in Nat
    BY DEF Kinds, AtEnd
  <2>2. AddItemAt(g, "edges", t, AtEnd) \in AddCommands
    BY <2>1, CommandTypes
  <2> QED
    BY <2>2 DEF GraphCommands, AddItem
<1>2. ASSUME NEW e \in Within(g, M, D, A), NEW step, step = ApplyOne(e, c), Sound(e)
      PROVE  Fit(e, c) /\ (step.ok /\ Sound(step.document) => step.document \in R)
  <2>1. PICK x : x = Graph(e, g)
    OBVIOUS
  <2>2. /\ e \in A /\ Has(e.graphs, g) /\ x \in GraphRecords /\ x.id = g /\ g \in Nat
        /\ GraphIntact(x) /\ ToSet(x.nodes) = M /\ ToSet(x.edges) \subseteq D /\ Suits(A, x)
    BY <1>2, <2>1, WithinGraph
  <2>3. Fit(e, c)
    <3>1. c.op = "add" /\ c.kind = "edges" /\ c.graph = g /\ c.item = t
      BY DEF AddItem, AddItemAt
    <3>2. Has(x.nodes, t.from) /\ Has(x.nodes, t.to)
      BY <2>2, HasIds
    <3> HIDE DEF c
    <3> QED
      BY <2>1, <3>1, <3>2 DEF Fit
  <2>4. ASSUME step.ok, Sound(step.document) PROVE step.document \in R
    <3>1. PICK y : y = Grown(x, "edges", t)
      OBVIOUS
    <3>2. /\ step.document = PutGraph(e, y) /\ y \in GraphRecords /\ y.id = g
          /\ ToSet(y.edges) = ToSet(x.edges) \cup {t} /\ y.nodes = x.nodes
      BY <1>2, <2>1, <2>4, <3>1, AddedTo DEF Kinds
    <3>3. ToSet(y.edges) \subseteq D \cup {t} /\ ToSet(y.nodes) = M
      BY <2>2, <3>2
    <3>4. Suits(A, y)
      BY <3>3, WiringLess DEF Suits, GraphWired
    <3>5. PutGraph(e, y) \in Within(g, M, D \cup {t}, A)
      BY <1>2, <2>2, <3>2, <3>3, <3>4, PutWithin
    <3> QED
      BY <3>2, <3>3, <3>5
  <2> QED
    BY <2>3, <2>4
<1> HIDE DEF c, R
<1> QED
  BY <1>1, <1>2 DEF TakesOne, c, R

(* A new node, which no edge touches.                                       *)
LEMMA NodeAdded ==
  ASSUME NEW A \in Families, NEW g \in Nat, NEW M, NEW D, NEW n \in Records["nodes"],
         NEW R, n.id \notin Ids(M) => Within(g, M \cup {n}, D, A) \subseteq R
  PROVE  TakesOne(Within(g, M, D, A), AddItem(g, "nodes", n), R)
<1> DEFINE c == AddItem(g, "nodes", n)
<1>1. c \in GraphCommands
  <2>1. "nodes" \in Kinds /\ AtEnd \in Nat
    BY DEF Kinds, AtEnd
  <2>2. AddItemAt(g, "nodes", n, AtEnd) \in AddCommands
    BY <2>1, CommandTypes
  <2> QED
    BY <2>2 DEF GraphCommands, AddItem
<1>2. ASSUME NEW e \in Within(g, M, D, A), NEW step, step = ApplyOne(e, c), Sound(e)
      PROVE  Fit(e, c) /\ (step.ok /\ Sound(step.document) => step.document \in R)
  <2>1. PICK x : x = Graph(e, g)
    OBVIOUS
  <2>2. /\ e \in A /\ Has(e.graphs, g) /\ x \in GraphRecords /\ x.id = g /\ g \in Nat
        /\ GraphIntact(x) /\ ToSet(x.nodes) = M /\ ToSet(x.edges) \subseteq D /\ Suits(A, x)
    BY <1>2, <2>1, WithinGraph
  <2>3. Fit(e, c)
    BY DEF Fit, AddItem, AddItemAt
  <2>4. ASSUME step.ok, Sound(step.document) PROVE step.document \in R
    <3>1. PICK y : y = Grown(x, "nodes", n)
      OBVIOUS
    <3>2. /\ step.document = PutGraph(e, y) /\ y \in GraphRecords /\ y.id = g
          /\ ToSet(y.nodes) = ToSet(x.nodes) \cup {n} /\ y.edges = x.edges /\ ~Has(x.nodes, n.id)
      BY <1>2, <2>1, <2>4, <3>1, AddedTo DEF Kinds
    <3>3. n.id \notin Ids(M)
      BY <2>2, <3>2, HasIds
    <3>4. Joins(ToSet(x.edges), Ids(M))
      BY <2>2, EdgesJoinIds
    <3>5. Suits(A, y)
      <4> SUFFICES ASSUME A = WiredRecords PROVE GraphWired(y)
        BY DEF Suits
      <4>1. Wiring(M, ToSet(x.edges))
        BY <2>2 DEF Suits, GraphWired
      <4>2. Wiring(M \cup {n}, ToSet(x.edges))
        BY <3>3, <3>4, <4>1, WiringWider
      <4> QED
        BY <2>2, <3>2, <4>2 DEF GraphWired
    <3>6. ToSet(y.edges) \subseteq D /\ ToSet(y.nodes) = M \cup {n}
      BY <2>2, <3>2
    <3>7. PutGraph(e, y) \in Within(g, M \cup {n}, D, A)
      BY <1>2, <2>2, <3>2, <3>5, <3>6, PutWithin
    <3> QED
      BY <3>2, <3>3, <3>6, <3>7
  <2> QED
    BY <2>3, <2>4
<1> HIDE DEF c
<1> QED
  BY <1>1, <1>2 DEF TakesOne, c

(* A hint, or a group that has members.                                     *)
LEMMA MarkAdded ==
  ASSUME NEW A \in Families, NEW g \in Nat, NEW M, NEW D, NEW k \in {"hints", "groups"},
         NEW item \in Records[k], k = "groups" => item.members # {}
  PROVE  TakesOne(Within(g, M, D, A), AddItem(g, k, item), Within(g, M, D, A))
<1> DEFINE c == AddItem(g, k, item)
           R == Within(g, M, D, A)
<1>1. k \in Kinds /\ "nodes" \in Kinds \ {k} /\ "edges" \in Kinds \ {k} /\ AtEnd \in Nat
  BY DEF Kinds, AtEnd
<1>2. c \in GraphCommands
  <2>1. AddItemAt(g, k, item, AtEnd) \in AddCommands
    BY <1>1, CommandTypes
  <2> QED
    BY <2>1 DEF GraphCommands, AddItem
<1>3. ASSUME NEW e \in Within(g, M, D, A), NEW step, step = ApplyOne(e, c), Sound(e)
      PROVE  Fit(e, c) /\ (step.ok /\ Sound(step.document) => step.document \in R)
  <2>1. PICK x : x = Graph(e, g)
    OBVIOUS
  <2>2. /\ e \in A /\ Has(e.graphs, g) /\ x \in GraphRecords /\ x.id = g /\ g \in Nat
        /\ GraphIntact(x) /\ ToSet(x.nodes) = M /\ ToSet(x.edges) \subseteq D /\ Suits(A, x)
    BY <1>3, <2>1, WithinGraph
  <2>3. Fit(e, c)
    BY DEF Fit, AddItem, AddItemAt
  <2>4. ASSUME step.ok, Sound(step.document) PROVE step.document \in R
    <3>1. PICK y : y = Grown(x, k, item)
      OBVIOUS
    <3>2. /\ step.document = PutGraph(e, y) /\ y \in GraphRecords /\ y.id = g
          /\ y.nodes = x.nodes /\ y.edges = x.edges
      BY <1>1, <1>3, <2>1, <2>4, <3>1, AddedTo
    <3>3. Suits(A, y)
      BY <2>2, <3>2, SuitsLess
    <3>4. ToSet(y.edges) \subseteq D /\ ToSet(y.nodes) = M
      BY <2>2, <3>2
    <3>5. PutGraph(e, y) \in Within(g, M, D, A)
      BY <1>3, <2>2, <3>2, <3>3, <3>4, PutWithin
    <3> QED
      BY <3>2, <3>4, <3>5
  <2> QED
    BY <2>3, <2>4
<1> HIDE DEF c, R
<1> QED
  BY <1>2, <1>3 DEF TakesOne, c, R

(* Commands that keep a document in its family, whatever it is.             *)

LEMMA PutInFamily ==
  ASSUME NEW A \in Families, NEW e \in A, Sound(e), NEW y \in GraphRecords, NEW g, y.id = g,
         Has(e.graphs, g), Suits(A, y)
  PROVE  PutGraph(e, y) \in A
BY PutWithin

LEMMA GraphInFamily ==
  ASSUME NEW A \in Families, NEW e \in A, Sound(e), NEW g, Has(e.graphs, g), NEW x, x = Graph(e, g)
  PROVE  /\ x \in GraphRecords /\ x.id = g /\ GraphIntact(x) /\ Suits(A, x)
         /\ e \in DocumentRecords /\ Distinct(e.graphs)
<1>1. e \in DocumentRecords /\ Suits(A, x)
  BY FamilyFacts
<1> QED
  BY <1>1, GraphFacts DEF Sound

LEMMA NodeCut ==
  ASSUME NEW A \in Families, NEW g \in Nat, NEW id \in Nat
  PROVE  TakesOne(A, RemoveItem(g, "nodes", id), A)
<1> DEFINE c == RemoveItem(g, "nodes", id)
<1>1. c \in GraphCommands
  BY CommandTypes DEF GraphCommands, Kinds
<1>2. ASSUME NEW e \in A, NEW step, step = ApplyOne(e, c), Sound(e)
      PROVE  Fit(e, c) /\ (step.ok => step.document \in A)
  <2>1. Fit(e, c)
    BY DEF Fit, RemoveItem
  <2>2. ASSUME step.ok PROVE step.document \in A
    <3>1. PICK x : x = Graph(e, g)
      OBVIOUS
    <3>2. Removes(step, e, x, g, "nodes", id)
      BY <1>2, <3>1, RemoveOutcome
    <3>3. PICK y : y = NodeRemoved(x, id)
      OBVIOUS
    <3>4. Has(e.graphs, g) /\ step.document = PutGraph(e, y)
      <4>1. PICK v : v = NodeBack(x, id)
        OBVIOUS
      <4>2. Has(e.graphs, g) /\ step = Done(PutGraph(e, y), v)
        BY <2>2, <3>2, <3>3, <4>1 DEF Removes
      <4> QED
        BY <4>2, DoneFields
    <3>5. x \in GraphRecords /\ x.id = g /\ GraphIntact(x) /\ Suits(A, x)
      BY <1>2, <3>1, <3>4, GraphInFamily
    <3>6. y \in GraphRecords /\ y.id = g
      BY <3>3, <3>5, NodeRemovedIntact
    <3>7. y.nodes = Without(x.nodes, {id}) /\ y.edges = Without(x.edges, EdgesOf(x, id))
      BY <3>3, <3>5 DEF NodeRemoved, GraphRecords
    <3>8. ToSet(y.nodes) \subseteq ToSet(x.nodes) /\ ToSet(y.edges) \subseteq ToSet(x.edges)
      <4>1. ToSet(y.nodes) = {t \in ToSet(x.nodes) : t.id \notin {id}}
        BY <3>5, <3>7, WithoutSet, Lists
      <4>2. ToSet(y.edges) = {t \in ToSet(x.edges) : t.id \notin EdgesOf(x, id)}
        BY <3>5, <3>7, WithoutSet, Lists
      <4> QED
        BY <4>1, <4>2
    <3>9. Suits(A, y)
      BY <3>5, <3>8, SuitsLess
    <3> QED
      BY <1>2, <3>4, <3>6, <3>9, PutInFamily
  <2> QED
    BY <2>1, <2>2
<1> HIDE DEF c
<1> QED
  BY <1>1, <1>2 DEF TakesOne, c

LEMMA HintCut ==
  ASSUME NEW A \in Families, NEW g \in Nat, NEW id \in Nat
  PROVE  TakesOne(A, RemoveItem(g, "hints", id), A)
<1> DEFINE c == RemoveItem(g, "hints", id)
<1>1. c \in GraphCommands
  BY CommandTypes DEF GraphCommands, Kinds
<1>2. ASSUME NEW e \in A, NEW step, step = ApplyOne(e, c), Sound(e)
      PROVE  Fit(e, c) /\ (step.ok => step.document \in A)
  <2>1. Fit(e, c)
    BY DEF Fit, RemoveItem
  <2>2. ASSUME step.ok PROVE step.document \in A
    <3>1. PICK x : x = Graph(e, g)
      OBVIOUS
    <3>2. Removes(step, e, x, g, "hints", id)
      BY <1>2, <3>1, RemoveOutcome
    <3>3. PICK y : y = ItemRemoved(x, "hints", id)
      OBVIOUS
    <3>4. Has(e.graphs, g) /\ step.document = PutGraph(e, y)
      <4>1. PICK v : v = AddBack(x, "hints", {id})
        OBVIOUS
      <4>2. Has(e.graphs, g) /\ step = Done(PutGraph(e, y), v)
        BY <2>2, <3>2, <3>3, <4>1 DEF Removes
      <4> QED
        BY <4>2, DoneFields
    <3>5. x \in GraphRecords /\ x.id = g /\ GraphIntact(x) /\ Suits(A, x)
      BY <1>2, <3>1, <3>4, GraphInFamily
    <3>6. y \in GraphRecords /\ y.id = g
      BY <3>3, <3>5, ItemRemovedIntact
    <3>7. y.nodes = x.nodes /\ y.edges = x.edges
      BY <3>3, <3>5 DEF ItemRemoved, GraphRecords
    <3>8. Suits(A, y)
      BY <3>5, <3>7, SuitsLess
    <3> QED
      BY <1>2, <3>4, <3>6, <3>8, PutInFamily
  <2> QED
    BY <2>1, <2>2
<1> HIDE DEF c
<1> QED
  BY <1>1, <1>2 DEF TakesOne, c

LEMMA GraphsInFamily ==
  ASSUME NEW A \in Families, NEW e \in A, NEW r, Sound(r),
         \A i \in 1..Len(r.graphs) :
           Suits(A, r.graphs[i]) \/ \E j \in 1..Len(e.graphs) : r.graphs[i] = e.graphs[j]
  PROVE  r \in A
<1>1. \A i \in 1..Len(r.graphs) : Suits(A, r.graphs[i])
  <2> TAKE i \in 1..Len(r.graphs)
  <2>1. CASE \E j \in 1..Len(e.graphs) : r.graphs[i] = e.graphs[j]
    BY <2>1, GraphsSuit
  <2> QED
    BY <2>1
<1> QED
  BY <1>1, InFamily DEF Sound

LEMMA GraphAdded ==
  ASSUME NEW A \in Families, NEW x \in GraphRecords, GraphIntact(x), Suits(A, x)
  PROVE  TakesOne(A, AddGraphAt(x, AtEnd), A)
<1> DEFINE c == AddGraphAt(x, AtEnd)
<1>1. AtEnd \in Nat
  BY DEF AtEnd
<1>2. c \in GraphCommands
  <2>1. AddGraphAt(x, AtEnd) \in AddGraphCommands
    BY <1>1, CommandTypes
  <2> QED
    BY <2>1 DEF GraphCommands
<1>3. ASSUME NEW e \in A, NEW step, step = ApplyOne(e, c), Sound(e)
      PROVE  Fit(e, c) /\ (step.ok /\ Sound(step.document) => step.document \in A)
  <2>1. Fit(e, c)
    BY DEF Fit, AddGraphAt
  <2>2. ASSUME step.ok, Sound(step.document) PROVE step.document \in A
    <3>1. PICK r : r = step.document
      OBVIOUS
    <3>2. PICK s : s = Inserted(e.graphs, x, AtEnd)
      OBVIOUS
    <3>3. r = [e EXCEPT !.graphs = s]
      <4>1. PICK v : v = << RemoveGraph(x.id) >>
        OBVIOUS
      <4>2. step = Done([e EXCEPT !.graphs = s], v)
        BY <1>3, <2>2, <3>2, <4>1, AddGraphOutcome
      <4> QED
        BY <3>1, <4>2, DoneFields
    <3>4. e.graphs \in Seq(GraphRecords) /\ e \in DocumentRecords
      BY <1>3 DEF Sound, DocumentRecords
    <3>5. IsWith(s, GraphRecords, e.graphs, x)
      BY <1>1, <3>2, <3>4, InsertedElements
    <3>6. r.graphs = s
      BY <3>3, <3>4 DEF DocumentRecords
    <3>7. \A i \in 1..Len(s) : s[i] = x \/ \E j \in 1..Len(e.graphs) : s[i] = e.graphs[j]
      BY <3>5 DEF IsWith
    <3> QED
      BY <2>2, <3>1, <3>6, <3>7, GraphsInFamily
  <2> QED
    BY <2>1, <2>2
<1> HIDE DEF c
<1> QED
  BY <1>2, <1>3 DEF TakesOne, c

LEMMA GraphCut ==
  ASSUME NEW A \in Families, NEW g \in Nat
  PROVE  TakesOne(A, RemoveGraph(g), A)
<1> DEFINE c == RemoveGraph(g)
<1>1. c \in GraphCommands
  BY CommandTypes DEF GraphCommands
<1>2. ASSUME NEW e \in A, NEW step, step = ApplyOne(e, c), Sound(e)
      PROVE  Fit(e, c) /\ (step.ok /\ Sound(step.document) => step.document \in A)
  <2>1. Fit(e, c)
    BY DEF Fit, RemoveGraph
  <2>2. ASSUME step.ok, Sound(step.document) PROVE step.document \in A
    <3>1. PICK r : r = step.document
      OBVIOUS
    <3>2. PICK s : s = Without(e.graphs, {g})
      OBVIOUS
    <3>3. r = [e EXCEPT !.graphs = s]
      <4>1. PICK v : v = << AddGraphAt(Graph(e, g), IndexOf(e.graphs, g)) >>
        OBVIOUS
      <4>2. step = Done([e EXCEPT !.graphs = s], v)
        BY <1>2, <2>2, <3>2, <4>1, RemoveGraphOutcome
      <4> QED
        BY <3>1, <4>2, DoneFields
    <3>4. e.graphs \in Seq(GraphRecords) /\ e \in DocumentRecords
      BY <1>2 DEF Sound, DocumentRecords
    <3>5. IsWithout(s, GraphRecords, e.graphs, {g})
      BY <3>2, <3>4, WithoutFacts
    <3>6. r.graphs = s
      BY <3>3, <3>4 DEF DocumentRecords
    <3>7. \A i \in 1..Len(s) : \E j \in 1..Len(e.graphs) : s[i] = e.graphs[j]
      BY <3>5 DEF IsWithout
    <3> QED
      BY <2>2, <3>1, <3>6, <3>7, GraphsInFamily
  <2> QED
    BY <2>1, <2>2
<1> HIDE DEF c
<1> QED
  BY <1>1, <1>2 DEF TakesOne, c

LEMMA EntrySet ==
  ASSUME NEW A \in Families, NEW g \in Nat
  PROVE  TakesOne(A, SetEntryGraph(g), A)
<1> DEFINE c == SetEntryGraph(g)
<1>1. c \in GraphCommands
  BY CommandTypes DEF GraphCommands
<1>2. ASSUME NEW e \in A, NEW step, step = ApplyOne(e, c), Sound(e)
      PROVE  Fit(e, c) /\ (step.ok /\ Sound(step.document) => step.document \in A)
  <2>1. Fit(e, c)
    BY DEF Fit, SetEntryGraph
  <2>2. ASSUME step.ok, Sound(step.document) PROVE step.document \in A
    <3>1. PICK r : r = step.document
      OBVIOUS
    <3>2. r = [e EXCEPT !.entry = g]
      <4>1. PICK v : v = << SetEntryGraph(e.entry) >>
        OBVIOUS
      <4>2. step = Done([e EXCEPT !.entry = g], v)
        BY <1>2, <2>2, <4>1, SetEntryOutcome
      <4> QED
        BY <3>1, <4>2, DoneFields
    <3>3. r.graphs = e.graphs
      BY <1>2, <3>2 DEF Sound, DocumentRecords
    <3> QED
      BY <2>2, <3>1, <3>3, GraphsInFamily
  <2> QED
    BY <2>1, <2>2
<1> HIDE DEF c
<1> QED
  BY <1>1, <1>2 DEF TakesOne, c

LEMMA SignatureSet ==
  ASSUME NEW A \in Families, NEW g \in Nat, NEW parameters \in Seq(Nat)
  PROVE  TakesOne(A, SetSignature(g, parameters), A)
<1> DEFINE c == SetSignature(g, parameters)
<1>1. c \in GraphCommands
  BY CommandTypes DEF GraphCommands
<1>2. ASSUME NEW e \in A, NEW step, step = ApplyOne(e, c), Sound(e)
      PROVE  Fit(e, c) /\ (step.ok => step.document \in A)
  <2>1. Fit(e, c)
    BY DEF Fit, SetSignature
  <2>2. ASSUME step.ok PROVE step.document \in A
    <3>1. PICK x : x = Graph(e, g)
      OBVIOUS
    <3>2. Signs(step, e, x, g, parameters)
      BY <1>2, <3>1, SetSignatureOutcome
    <3>3. PICK y : y = [x EXCEPT !.parameters = parameters]
      OBVIOUS
    <3>4. Has(e.graphs, g) /\ step.document = PutGraph(e, y)
      <4>1. PICK v : v = << SetSignature(g, x.parameters) >>
        OBVIOUS
      <4>2. Has(e.graphs, g) /\ step = Done(PutGraph(e, y), v)
        BY <2>2, <3>2, <3>3, <4>1 DEF Signs
      <4> QED
        BY <4>2, DoneFields
    <3>5. x \in GraphRecords /\ x.id = g /\ GraphIntact(x) /\ Suits(A, x)
      BY <1>2, <3>1, <3>4, GraphInFamily
    <3>6. y \in GraphRecords /\ y.id = g /\ y.nodes = x.nodes /\ y.edges = x.edges
      BY <3>3, <3>5 DEF GraphRecords
    <3>7. Suits(A, y)
      BY <3>5, <3>6, SuitsLess
    <3> QED
      BY <1>2, <3>4, <3>6, <3>7, PutInFamily
  <2> QED
    BY <2>1, <2>2
<1> HIDE DEF c
<1> QED
  BY <1>1, <1>2 DEF TakesOne, c

(* Commands that leave every graph of d, and its nodes pure that were.      *)
Same(d, A) ==
  {e \in A : \A g : Has(d.graphs, g) =>
     Has(e.graphs, g) /\ Pure(ToSet(Graph(e, g).nodes)) = Pure(ToSet(Graph(d, g).nodes))}

LEMMA OtherGraphs ==
  ASSUME NEW e \in DocumentRecords, Distinct(e.graphs), NEW y \in GraphRecords,
         Has(e.graphs, y.id), NEW h, h # y.id, Has(e.graphs, h)
  PROVE  Has(PutGraph(e, y).graphs, h) /\ Graph(PutGraph(e, y), h) = Graph(e, h)
<1>1. PICK r : r = PutGraph(e, y)
  OBVIOUS
<1>2. /\ r \in DocumentRecords /\ Distinct(r.graphs) /\ Len(r.graphs) = Len(e.graphs)
      /\ \A i \in 1..Len(e.graphs) : r.graphs[i] = IF e.graphs[i].id = y.id THEN y ELSE e.graphs[i]
  BY <1>1, GraphChanged
<1>3. e.graphs \in Seq(GraphRecords) /\ r.graphs \in Seq(GraphRecords)
  BY <1>2 DEF DocumentRecords
<1>4. PICK i \in 1..Len(e.graphs) : e.graphs[i].id = h
  BY <1>3 DEF Has
<1>5. r.graphs[i] = e.graphs[i] /\ i \in 1..Len(r.graphs)
  BY <1>2, <1>4
<1>6. Item(e.graphs, h) = e.graphs[i]
  BY <1>3, <1>4, ItemAt
<1>7. Has(r.graphs, h) /\ Item(r.graphs, h) = r.graphs[i]
  BY <1>2, <1>3, <1>4, <1>5, ItemAt
<1> QED
  BY <1>1, <1>5, <1>6, <1>7 DEF Graph

LEMMA PutSame ==
  ASSUME NEW A \in Families, NEW d, NEW e \in Same(d, A), Sound(e), NEW g, Has(e.graphs, g),
         NEW x, x = Graph(e, g), NEW y \in GraphRecords, y.id = g, Suits(A, y),
         Has(d.graphs, g) => Pure(ToSet(y.nodes)) = Pure(ToSet(x.nodes))
  PROVE  PutGraph(e, y) \in Same(d, A)
<1>1. e \in A /\ e \in DocumentRecords /\ Distinct(e.graphs)
  BY GraphInFamily DEF Same
<1>2. PutGraph(e, y) \in A
  BY <1>1, PutInFamily
<1>3. ASSUME NEW h, Has(d.graphs, h)
      PROVE  /\ Has(PutGraph(e, y).graphs, h)
             /\ Pure(ToSet(Graph(PutGraph(e, y), h).nodes)) = Pure(ToSet(Graph(d, h).nodes))
  <2>1. Has(e.graphs, h) /\ Pure(ToSet(Graph(e, h).nodes)) = Pure(ToSet(Graph(d, h).nodes))
    BY <1>3 DEF Same
  <2>2. CASE h = g
    <3>1. Has(PutGraph(e, y).graphs, g) /\ Graph(PutGraph(e, y), g) = y
      BY <1>1, GraphChanged
    <3> QED
      BY <1>3, <2>1, <2>2, <3>1
  <2>3. CASE h # g
    <3>1. Has(PutGraph(e, y).graphs, h) /\ Graph(PutGraph(e, y), h) = Graph(e, h)
      BY <1>1, <2>1, <2>3, OtherGraphs
    <3> QED
      BY <2>1, <3>1
  <2> QED
    BY <2>2, <2>3
<1> QED
  BY <1>2, <1>3 DEF Same

LEMMA EdgeCutSame ==
  ASSUME NEW A \in Families, NEW d, NEW g \in Nat, NEW id \in Nat
  PROVE  TakesOne(Same(d, A), RemoveItem(g, "edges", id), Same(d, A))
<1> DEFINE c == RemoveItem(g, "edges", id)
<1>1. c \in GraphCommands
  BY CommandTypes DEF GraphCommands, Kinds
<1>2. ASSUME NEW e \in Same(d, A), NEW step, step = ApplyOne(e, c), Sound(e)
      PROVE  Fit(e, c) /\ (step.ok => step.document \in Same(d, A))
  <2>1. Fit(e, c)
    BY DEF Fit, RemoveItem
  <2>2. ASSUME step.ok PROVE step.document \in Same(d, A)
    <3>1. PICK x : x = Graph(e, g)
      OBVIOUS
    <3>2. Removes(step, e, x, g, "edges", id)
      BY <1>2, <3>1, RemoveOutcome
    <3>3. PICK y : y = EdgeRemoved(x, id)
      OBVIOUS
    <3>4. Has(e.graphs, g) /\ step.document = PutGraph(e, y)
      <4>1. PICK v : v = AddBack(x, "edges", {id}) \o AddBack(x, "hints", HintsOf(x, {id}))
        OBVIOUS
      <4>2. Has(e.graphs, g) /\ step = Done(PutGraph(e, y), v)
        BY <2>2, <3>2, <3>3, <4>1 DEF Removes
      <4> QED
        BY <4>2, DoneFields
    <3>5. x \in GraphRecords /\ x.id = g /\ GraphIntact(x) /\ Suits(A, x)
      BY <1>2, <3>1, <3>4, GraphInFamily DEF Same
    <3>6. y \in GraphRecords /\ y.id = g
      BY <3>3, <3>5, EdgeRemovedIntact
    <3>7. y.nodes = x.nodes /\ y.edges = Without(x.edges, {id})
      BY <3>3, <3>5 DEF EdgeRemoved, GraphRecords
    <3>8. ToSet(y.edges) = {t \in ToSet(x.edges) : t.id \notin {id}}
      BY <3>5, <3>7, WithoutSet, Lists
    <3>9. Suits(A, y)
      BY <3>5, <3>7, <3>8, SuitsLess
    <3> QED
      BY <1>2, <3>1, <3>4, <3>6, <3>7, <3>9, PutSame
  <2> QED
    BY <2>1, <2>2
<1> HIDE DEF c
<1> QED
  BY <1>1, <1>2 DEF TakesOne, c

LEMMA NodeReplaced ==
  ASSUME NEW A \in Families, NEW d, NEW g \in Nat, Has(d.graphs, g),
         NEW item \in Records["nodes"],
         item.type = "value" <=> item.id \in Pure(ToSet(Graph(d, g).nodes))
  PROVE  TakesOne(Same(d, A), ReplaceItem(g, "nodes", item), Same(d, A))
<1> DEFINE c == ReplaceItem(g, "nodes", item)
<1>1. c \in GraphCommands
  BY CommandTypes DEF GraphCommands, Kinds
<1>2. ASSUME NEW e \in Same(d, A), NEW step, step = ApplyOne(e, c), Sound(e)
      PROVE  Fit(e, c) /\ (step.ok => step.document \in Same(d, A))
  <2>1. Fit(e, c)
    BY DEF Fit, ReplaceItem
  <2>2. ASSUME step.ok PROVE step.document \in Same(d, A)
    <3>1. PICK x : x = Graph(e, g)
      OBVIOUS
    <3>2. Replaces(step, e, x, g, "nodes", item)
      BY <1>2, <3>1, ReplaceOutcome
    <3>3. PICK s : s = Replaced(x.nodes, item)
      OBVIOUS
    <3>4. PICK y : y = [x EXCEPT !.nodes = s]
      OBVIOUS
    <3>5. Has(e.graphs, g) /\ step.document = PutGraph(e, y)
      <4>1. PICK v : v = << ReplaceItem(g, "nodes", Item(x.nodes, item.id)) >>
        OBVIOUS
      <4>2. Has(e.graphs, g) /\ step = Done(PutGraph(e, y), v)
        BY <2>2, <3>2, <3>4, <3>3, <4>1 DEF Replaces
      <4> QED
        BY <4>2, DoneFields
    <3>6. x \in GraphRecords /\ x.id = g /\ GraphIntact(x) /\ Suits(A, x)
      BY <1>2, <3>1, <3>5, GraphInFamily DEF Same
    <3>7. y \in GraphRecords /\ y.id = g
      BY <3>4, <3>6, <3>3, NodeReplacedIntact
    <3>8. y.nodes = s /\ y.edges = x.edges
      BY <3>4, <3>6 DEF GraphRecords
    <3>9. IsReplaced(s, Records["nodes"], x.nodes, item)
      BY <3>6, <3>3, ReplacedFacts, Lists
    <3>10. Pure(ToSet(x.nodes)) = Pure(ToSet(Graph(d, g).nodes))
      BY <1>2, <3>1 DEF Same
    <3>11. Pure(ToSet(s)) = Pure(ToSet(x.nodes))
      <4>1. /\ DOMAIN s = DOMAIN x.nodes
            /\ \A i \in DOMAIN x.nodes :
                 /\ s[i] = IF x.nodes[i].id = item.id THEN item ELSE x.nodes[i]
                 /\ s[i].id = x.nodes[i].id
        <5>1. s \in Seq(Records["nodes"]) /\ Len(s) = Len(x.nodes)
          BY <3>9 DEF IsReplaced
        <5>2. DOMAIN s = DOMAIN x.nodes /\ DOMAIN x.nodes = 1..Len(x.nodes)
          BY <3>6, <5>1, Lists
        <5> QED
          BY <3>9, <5>2 DEF IsReplaced
      <4>2. \A p : p \in Pure(ToSet(s)) <=>
                     \E i \in DOMAIN x.nodes : s[i].type = "value" /\ s[i].id = p
        BY <4>1 DEF Pure, ToSet
      <4>3. \A p : p \in Pure(ToSet(x.nodes)) <=>
                     \E i \in DOMAIN x.nodes : x.nodes[i].type = "value" /\ x.nodes[i].id = p
        BY DEF Pure, ToSet
      <4>4. ASSUME NEW p \in Pure(ToSet(s)) PROVE p \in Pure(ToSet(x.nodes))
        <5>1. PICK i \in DOMAIN x.nodes : s[i].type = "value" /\ s[i].id = p
          BY <4>2, <4>4
        <5> QED
          BY <3>10, <4>1, <4>3, <5>1
      <4>5. ASSUME NEW p \in Pure(ToSet(x.nodes)) PROVE p \in Pure(ToSet(s))
        <5>1. PICK i \in DOMAIN x.nodes : x.nodes[i].type = "value" /\ x.nodes[i].id = p
          BY <4>3, <4>5
        <5> QED
          BY <3>10, <4>1, <4>2, <4>5, <5>1
      <4> QED
        BY <4>4, <4>5
    <3>12. Suits(A, y)
      BY <3>6, <3>8, <3>11 DEF Suits, GraphWired, Wiring
    <3> QED
      BY <1>2, <3>1, <3>5, <3>7, <3>8, <3>11, <3>12, PutSame
  <2> QED
    BY <2>1, <2>2
<1> HIDE DEF c
<1> QED
  BY <1>1, <1>2 DEF TakesOne, c

=============================================================================
