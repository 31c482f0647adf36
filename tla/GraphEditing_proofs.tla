------------------------ MODULE GraphEditing_proofs ------------------------
(***************************************************************************)
(* Proofs about editing: for every document opened and every sequence of   *)
(* operations, the document stays sound inside, undoing and redoing walk a *)
(* line of documents, and a history that says there is nothing to save is  *)
(* telling the truth.                                                      *)
(*                                                                         *)
(* The history reads no document, so what it promises rests on what an     *)
(* entry holds: commands that lead from the document before it to the one  *)
(* after it, and commands that lead back.  Neighbouring entries agree on   *)
(* the document between them, and positions grow along the line, so that   *)
(* the mark of the saved state names one place on it.                      *)
(***************************************************************************)
EXTENDS GraphEditing, GraphDocument_proofs

Entries ==
  {e \in [position : Nat \ {0}, commands : Seq(GraphCommands), inverse : Seq(GraphCommands),
          was : DocumentRecords, became : DocumentRecords] :
     /\ Sound(e.was) /\ Sound(e.became)
     /\ Restores(e.was, e.commands, e.became) /\ Restores(e.became, e.inverse, e.was)}

HistoryTyped ==
  /\ undoable \in Seq(Entries) /\ redoable \in Seq(Entries)
  /\ Len(undoable) + Len(redoable) <= MaxHistory
  /\ position \in [saved : Nat, next : Nat \ {0}]
  /\ position.saved < position.next /\ position.next <= MaxCommands + 1
  /\ truncated \in BOOLEAN

(* Neighbours on the line agree on the document between them.               *)
Chained ==
  /\ \A i \in 1..Len(undoable) - 1 : undoable[i].became = undoable[i + 1].was
  /\ Len(undoable) > 0 => undoable[Len(undoable)].became = document
  /\ \A i \in 1..Len(redoable) - 1 : redoable[i + 1].became = redoable[i].was
  /\ Len(redoable) > 0 => redoable[Len(redoable)].was = document

(* Positions grow along the line.                                           *)
Ordered ==
  /\ \A i, j \in 1..Len(undoable) : i < j => undoable[i].position < undoable[j].position
  /\ \A i, j \in 1..Len(redoable) : i < j => redoable[j].position < redoable[i].position
  /\ \A i \in 1..Len(undoable), j \in 1..Len(redoable) :
       undoable[i].position < redoable[j].position
  /\ \A i \in 1..Len(undoable) : undoable[i].position < position.next
  /\ \A i \in 1..Len(redoable) : redoable[i].position < position.next

(* The mark names the place on the line at which the document was written.  *)
Bottom == IF Len(undoable) = 0 THEN document ELSE undoable[1].was
MarkIsTrue ==
  /\ \A i \in 1..Len(undoable) : undoable[i].position = position.saved => undoable[i].became = saved
  /\ \A i \in 1..Len(redoable) : redoable[i].position = position.saved => redoable[i].became = saved
  /\ ~truncated /\ position.saved = 0 => Bottom = saved

History == HistoryTyped /\ Chained /\ Ordered /\ MarkIsTrue

(* A fragment is the lists of a graph, sound inside.                        *)
Fragments == {f \in [nodes : Seq(Records["nodes"]), edges : Seq(Records["edges"]),
                     groups : Seq(Records["groups"]), hints : Seq(Records["hints"])] :
                GraphIntact(f)}

EditingTyped == Sound(document) /\ minted \in Nat /\ clipboard \in Fragments

IInv == EditingTyped /\ History

(* With documents that respect the rules at the start, every document of    *)
(* the history and the clipboard do.                                        *)
InOrder ==
  /\ Wired(document) /\ GraphWired(clipboard)
  /\ \A i \in 1..Len(undoable) : Wired(undoable[i].was)
  /\ \A i \in 1..Len(redoable) : Wired(redoable[i].became)

-----------------------------------------------------------------------------
(* The lists of the history.                                               *)

LEMMA FrontFacts ==
  ASSUME NEW T, NEW s \in Seq(T), s # <<>>
  PROVE  /\ Front(s) \in Seq(T) /\ Len(Front(s)) = Len(s) - 1 /\ Len(s) \in Nat \ {0}
         /\ \A i \in 1..Len(s) - 1 : Front(s)[i] = s[i]
         /\ Last(s) = s[Len(s)] /\ Last(s) \in T
<1>1. Len(s) \in Nat \ {0}
  OBVIOUS
<1> DEFINE n == Len(s) - 1
           r == SubSeq(s, 1, n)
<1>2. r \in Seq(T) /\ Len(r) = n /\ \A i \in 1..n : r[i] = s[i]
  <2>1. n \in Nat /\ 1 \in Int /\ n \in Int /\ \A i \in 1..n : s[i] \in T
    BY <1>1
  <2> HIDE DEF n
  <2>2. /\ r \in Seq(T) /\ Len(r) = IF 1 <= n THEN n - 1 + 1 ELSE 0
        /\ \A i \in 1..n - 1 + 1 : r[i] = s[1 + i - 1]
    BY <2>1, SubSeqProperties
  <2>3. n - 1 + 1 = n /\ (IF 1 <= n THEN n - 1 + 1 ELSE 0) = n /\ \A i \in 1..n : 1 + i - 1 = i
    BY <2>1
  <2> HIDE DEF r
  <2> QED
    BY <2>2, <2>3
<1> QED
  BY <1>1, <1>2 DEF Front, Last

\* r is s without its first k elements.
IsEnd(r, T, s, k) ==
  /\ r \in Seq(T) /\ Len(r) = Len(s) - k /\ Len(s) \in Nat /\ k \in 0..Len(s)
  /\ \A i \in 1..Len(s) - k : r[i] = s[i + k]
Dropped(s) == IF Len(s) > MaxHistory THEN Len(s) - MaxHistory ELSE 0

LEMMA LastEntriesFacts ==
  ASSUME NEW T, NEW s \in Seq(T)
  PROVE  IsEnd(LastEntries(s), T, s, Dropped(s))
<1>1. MaxHistory \in Nat \ {0} /\ Len(s) \in Nat
  BY EditingAssumption
<1>2. CASE Len(s) > MaxHistory
  <2> DEFINE k == Len(s) - MaxHistory
             r == SubSeq(s, k + 1, Len(s))
  <2>1. k \in 1..Len(s) - 1 /\ k \in 0..Len(s)
    BY <1>1, <1>2
  <2>2. r \in Seq(T) /\ Len(r) = Len(s) - k /\ \A i \in 1..Len(s) - k : r[i] = s[i + k]
    <3>1. k + 1 \in 1..Len(s) + 1 /\ Len(s) \in k..Len(s)
      BY <1>1, <2>1
    <3>2. /\ r \in Seq(T) /\ Len(r) = Len(s) - (k + 1) + 1
          /\ \A i \in 1..Len(s) - (k + 1) + 1 : r[i] = s[(k + 1) + i - 1]
      BY <3>1, SubSeqProperties
    <3>3. Len(s) - (k + 1) + 1 = Len(s) - k /\ \A i \in 1..Len(s) - k : (k + 1) + i - 1 = i + k
      BY <1>1, <2>1
    <3> HIDE DEF r
    <3> QED
      BY <3>2, <3>3
  <2> HIDE DEF r
  <2>3. LastEntries(s) = r /\ Dropped(s) = k
    BY <1>2 DEF LastEntries, Dropped, r
  <2> HIDE DEF k
  <2> QED
    BY <1>1, <2>1, <2>2, <2>3 DEF IsEnd
<1>3. CASE ~(Len(s) > MaxHistory)
  BY <1>1, <1>3 DEF LastEntries, Dropped, IsEnd
<1> QED
  BY <1>2, <1>3

-----------------------------------------------------------------------------
(* The history: what may be applied as one command, and how each step      *)
(* keeps the line.                                                         *)

\* From d the commands fit, and lead to a document of A.
Legal(d, cs, A) == \E P, Q : d \in P /\ Takes(P, cs, Q) /\ Q \subseteq A

LEMMA EntryFields ==
  ASSUME NEW e \in Entries
  PROVE  /\ e.position \in Nat \ {0} /\ Sound(e.was) /\ Sound(e.became)
         /\ Restores(e.was, e.commands, e.became) /\ Restores(e.became, e.inverse, e.was)
BY DEF Entries

(* A command that is applied, and the entry that is made of it.             *)
LEMMA PerformMakes ==
  ASSUME NEW cs, NEW used, NEW A, Sound(document), Legal(document, cs, A),
         position.next \in Nat \ {0}, Perform(cs, used)
  PROVE  \E e \in Entries :
           /\ e.position = position.next /\ e.was = document /\ e.became = document'
           /\ undoable' = LastEntries(Append(undoable, e)) /\ redoable' = <<>>
           /\ truncated' = (truncated \/ Len(Append(undoable, e)) > MaxHistory)
           /\ Sound(document') /\ document' \in A
<1> DEFINE out == Apply(document, cs)
           e == [position |-> position.next, commands |-> cs, inverse |-> out.inverse,
                 was |-> document, became |-> out.document]
<1>1. /\ out.ok /\ document' = out.document
      /\ undoable' = LastEntries(Append(undoable, e)) /\ redoable' = <<>>
      /\ truncated' = (truncated \/ Len(Append(undoable, e)) > MaxHistory)
  BY DEF Perform
<1>2. PICK P, Q : document \in P /\ Takes(P, cs, Q) /\ Q \subseteq A
  BY DEF Legal
<1>3. cs \in Seq(GraphCommands)
  BY <1>2 DEF Takes
<1>4. /\ Sound(out.document) /\ out.document \in A /\ out.inverse \in Seq(GraphCommands)
      /\ Restores(out.document, out.inverse, document)
  BY <1>1, <1>2, CommandsAreReversible
<1>5. Restores(document, cs, out.document)
  BY <1>1 DEF Restores
<1>6. document \in DocumentRecords /\ out.document \in DocumentRecords
  BY <1>4 DEF Sound
<1> HIDE DEF out
<1>7. e \in Entries
  BY <1>3, <1>4, <1>5, <1>6 DEF Entries
<1> QED
  BY <1>1, <1>4, <1>7

LEMMA PerformKeepsHistory ==
  ASSUME NEW cs, NEW used, NEW A, Sound(document), History, Legal(document, cs, A),
         Perform(cs, used)
  PROVE  Sound(document') /\ History'
<1>1. /\ undoable \in Seq(Entries) /\ redoable \in Seq(Entries)
      /\ position.saved \in Nat /\ position.next \in Nat \ {0}
      /\ position.saved < position.next /\ position.next <= MaxCommands + 1
      /\ position \in [saved : Nat, next : Nat \ {0}]
      /\ truncated \in BOOLEAN
  BY DEF History, HistoryTyped
<1>2. PICK e \in Entries :
           /\ e.position = position.next /\ e.was = document /\ e.became = document'
           /\ undoable' = LastEntries(Append(undoable, e)) /\ redoable' = <<>>
           /\ truncated' = (truncated \/ Len(Append(undoable, e)) > MaxHistory)
           /\ Sound(document') /\ document' \in A
  BY <1>1, PerformMakes
<1>3. /\ position.next <= MaxCommands /\ position' = [position EXCEPT !.next = @ + 1]
      /\ saved' = saved
  BY DEF Perform
<1>4. /\ position'.saved = position.saved /\ position'.next = position.next + 1
      /\ position' \in [saved : Nat, next : Nat \ {0}]
  BY <1>1, <1>3
<1> DEFINE all == Append(undoable, e)
           k == Dropped(all)
           n == Len(undoable)
<1>5. /\ all \in Seq(Entries) /\ Len(all) = n + 1 /\ n \in Nat
      /\ \A i \in 1..n : all[i] = undoable[i]
      /\ all[n + 1] = e
  BY <1>1
<1>6. IsEnd(undoable', Entries, all, k)
  BY <1>2, <1>5, LastEntriesFacts
<1>7. Len(redoable') = 0 /\ redoable' \in Seq(Entries)
  BY <1>2
<1> HIDE DEF n
<1>8. /\ MaxHistory \in Nat \ {0} /\ k \in Nat /\ n + 1 - k <= MaxHistory /\ k < n + 1
      /\ k = 0 \/ n + 1 > MaxHistory
  <2>1. MaxHistory \in Nat \ {0}
    BY EditingAssumption
  <2>2. k = IF n + 1 > MaxHistory THEN (n + 1) - MaxHistory ELSE 0
    BY <1>5 DEF Dropped
  <2> HIDE DEF k
  <2> QED
    BY <1>5, <2>1, <2>2
<1>9. ~truncated' => ~truncated /\ k = 0
  BY <1>2, <1>5, <1>8
<1> HIDE DEF all, k
<1>10. /\ undoable' \in Seq(Entries) /\ Len(undoable') = n + 1 - k
       /\ \A i \in 1..n - k : undoable'[i] = undoable[i + k] /\ i + k \in 1..n
       /\ undoable'[n + 1 - k] = e
  <2>1. /\ undoable' \in Seq(Entries) /\ Len(undoable') = n + 1 - k
        /\ \A i \in 1..n + 1 - k : undoable'[i] = all[i + k]
    BY <1>5, <1>6 DEF IsEnd
  <2>2. \A i \in 1..n - k : i \in 1..n + 1 - k /\ i + k \in 1..n
    BY <1>5, <1>8
  <2>3. n + 1 - k \in 1..n + 1 - k /\ (n + 1 - k) + k = n + 1
    BY <1>5, <1>8
  <2> QED
    BY <1>5, <2>1, <2>2, <2>3
<1> DEFINE m == Len(undoable')
<1>11. m \in Nat /\ m = n + 1 - k /\ m - 1 = n - k /\ m > 0 /\ m \in 1..m
       /\ \A i \in 1..m : i = m \/ i \in 1..n - k
  BY <1>5, <1>8, <1>10
<1> HIDE DEF m
<1>12. HistoryTyped'
  <2>1. Len(undoable') + Len(redoable') <= MaxHistory
    BY <1>5, <1>7, <1>8, <1>10
  <2>2. /\ position'.saved < position'.next /\ position'.next <= MaxCommands + 1
    BY <1>1, <1>3, <1>4, EditingAssumption
  <2>3. truncated' \in BOOLEAN
    BY <1>2
  <2> QED
    BY <1>4, <1>7, <1>10, <2>1, <2>2, <2>3 DEF HistoryTyped
<1>13. Chained'
  <2>1. ASSUME NEW i \in 1..m - 1 PROVE undoable'[i].became = undoable'[i + 1].was
    <3>1. i \in 1..n - k /\ undoable'[i] = undoable[i + k] /\ i + k \in 1..n
      BY <1>10, <1>11
    <3>2. CASE i = n - k
      <4>1. i + k = n /\ i + 1 = m /\ n > 0
        BY <1>5, <1>8, <1>11, <3>1, <3>2
      <4>2. undoable[n].became = document
        BY <4>1 DEF History, Chained, n
      <4> QED
        BY <1>2, <1>10, <1>11, <3>1, <4>1, <4>2
    <3>3. CASE i # n - k
      <4>1. i + 1 \in 1..n - k /\ (i + 1) + k = (i + k) + 1 /\ i + k \in 1..n - 1
        BY <1>5, <1>8, <3>1, <3>3
      <4>2. undoable[i + k].became = undoable[(i + k) + 1].was
        BY <4>1 DEF History, Chained, n
      <4> QED
        BY <1>10, <3>1, <4>1, <4>2
    <3> QED
      BY <3>2, <3>3
  <2>2. undoable'[m].became = document'
    BY <1>2, <1>10, <1>11
  <2> QED
    BY <1>7, <2>1, <2>2 DEF Chained, m
<1>14. Ordered'
  <2>1. \A i \in 1..n - k : undoable'[i].position < position.next /\ undoable'[i].position \in Nat
    BY <1>1, <1>10, EntryFields DEF History, Ordered, n
  <2>2. \A i \in 1..m : undoable'[i].position < position'.next
    BY <1>1, <1>2, <1>4, <1>10, <1>11, <2>1, SMTT(60)
  <2>3. ASSUME NEW i \in 1..m, NEW j \in 1..m, i < j
        PROVE  undoable'[i].position < undoable'[j].position
    <3>1. i \in 1..n - k
      BY <1>11, <2>3
    <3>2. CASE j = m
      BY <1>2, <1>10, <1>11, <2>1, <3>1, <3>2
    <3>3. CASE j \in 1..n - k
      <4>1. i + k \in 1..n /\ j + k \in 1..n /\ i + k < j + k
        BY <1>8, <1>10, <2>3, <3>1, <3>3
      <4>2. undoable[i + k].position < undoable[j + k].position
        BY <4>1 DEF History, Ordered, n
      <4> QED
        BY <1>10, <3>1, <3>3, <4>2
    <3> QED
      BY <1>11, <3>2, <3>3
  <2> QED
    BY <1>7, <2>2, <2>3 DEF Ordered, m
<1>15. MarkIsTrue'
  <2>1. \A i \in 1..m : undoable'[i].position = position'.saved => undoable'[i].became = saved'
    <3> SUFFICES ASSUME NEW i \in 1..m, undoable'[i].position = position'.saved
                 PROVE  undoable'[i].became = saved'
      OBVIOUS
    <3>1. CASE i = m
      BY <1>1, <1>2, <1>4, <1>10, <1>11, <3>1
    <3>2. CASE i \in 1..n - k
      BY <1>3, <1>4, <1>10, <3>2 DEF History, MarkIsTrue, n
    <3> QED
      BY <1>11, <3>1, <3>2
  <2>2. ~truncated' /\ position'.saved = 0 => Bottom' = saved'
    <3> SUFFICES ASSUME ~truncated', position'.saved = 0 PROVE Bottom' = saved'
      OBVIOUS
    <3>1. k = 0 /\ Bottom = saved
      BY <1>4, <1>9 DEF History, MarkIsTrue
    <3>2. Bottom' = undoable'[1].was
      BY <1>11 DEF Bottom, m
    <3>3. CASE n = 0
      <4>1. m = 1 /\ undoable'[1] = e
        BY <1>10, <1>11, <3>1, <3>3
      <4> QED
        BY <1>2, <1>3, <3>1, <3>2, <3>3, <4>1 DEF Bottom, n
    <3>4. CASE n # 0
      <4>1. 1 \in 1..n - k /\ 1 + k = 1
        BY <1>5, <3>1, <3>4
      <4>2. undoable'[1] = undoable[1]
        BY <1>10, <4>1
      <4> QED
        BY <1>3, <3>1, <3>2, <3>4, <4>2 DEF Bottom, n
    <3> QED
      BY <3>3, <3>4
  <2> QED
    BY <1>7, <2>1, <2>2 DEF MarkIsTrue, m
<1> QED
  BY <1>2, <1>12, <1>13, <1>14, <1>15 DEF History

-----------------------------------------------------------------------------
(* Undoing, redoing and saving.                                            *)

LEMMA UndoKeepsHistory ==
  ASSUME Sound(document), History, Undo
  PROVE  Sound(document') /\ History'
<1> DEFINE n == Len(undoable)
           m == Len(redoable)
           e == Last(undoable)
<1>1. /\ undoable \in Seq(Entries) /\ redoable \in Seq(Entries)
      /\ position.saved \in Nat /\ position.next \in Nat \ {0}
      /\ n + m <= MaxHistory /\ m \in Nat
  BY DEF History, HistoryTyped
<1>2. /\ undoable # <<>> /\ document' = Apply(document, e.inverse).document
      /\ undoable' = Front(undoable) /\ redoable' = Append(redoable, e)
      /\ position' = position /\ truncated' = truncated /\ saved' = saved
  BY DEF Undo
<1>3. /\ Front(undoable) \in Seq(Entries) /\ Len(Front(undoable)) = n - 1 /\ n \in Nat \ {0}
      /\ \A i \in 1..n - 1 : Front(undoable)[i] = undoable[i]
      /\ e = undoable[n] /\ e \in Entries
  BY <1>1, <1>2, FrontFacts
<1>4. n \in 1..n /\ e.became = document
  BY <1>3 DEF History, Chained
<1>5. Sound(document') /\ document' = e.was
  BY <1>2, <1>3, <1>4, EntryFields DEF Restores
<1>6. /\ redoable' \in Seq(Entries) /\ Len(redoable') = m + 1 /\ redoable'[m + 1] = e
      /\ \A i \in 1..m : redoable'[i] = redoable[i]
  BY <1>1, <1>2, <1>3
<1>7. /\ undoable' \in Seq(Entries) /\ Len(undoable') = n - 1
      /\ \A i \in 1..n - 1 : undoable'[i] = undoable[i] /\ i \in 1..n
  BY <1>2, <1>3
<1> HIDE DEF e
<1>8. HistoryTyped'
  BY <1>1, <1>2, <1>3, <1>6, <1>7 DEF History, HistoryTyped
<1>9. Chained'
  <2>1. ASSUME NEW i \in 1..(n - 1) - 1 PROVE undoable'[i].became = undoable'[i + 1].was
    <3>1. i \in 1..n - 1 /\ i + 1 \in 1..n - 1
      BY <1>3
    <3> QED
      BY <1>7, <3>1 DEF History, Chained
  <2>2. n - 1 > 0 => undoable'[n - 1].became = document'
    <3> SUFFICES ASSUME n - 1 > 0 PROVE undoable'[n - 1].became = document'
      OBVIOUS
    <3>1. n - 1 \in 1..n - 1 /\ (n - 1) + 1 = n
      BY <1>3
    <3> QED
      BY <1>3, <1>5, <1>7, <3>1 DEF History, Chained
  <2>3. ASSUME NEW i \in 1..(m + 1) - 1 PROVE redoable'[i + 1].became = redoable'[i].was
    <3>1. i \in 1..m
      BY <1>1
    <3>2. CASE i = m
      <4>1. redoable[m].was = document
        BY <1>1, <3>1, <3>2 DEF History, Chained
      <4> QED
        BY <1>4, <1>6, <3>1, <3>2, <4>1
    <3>3. CASE i # m
      <4>1. i \in 1..m - 1 /\ i + 1 \in 1..m
        BY <1>1, <3>1, <3>3
      <4> QED
        BY <1>6, <3>1, <4>1 DEF History, Chained
    <3> QED
      BY <3>2, <3>3
  <2>4. redoable'[m + 1].was = document'
    BY <1>5, <1>6
  <2> QED
    BY <1>6, <1>7, <2>1, <2>2, <2>3, <2>4 DEF Chained
<1>10. Ordered'
  <2>1. \A i, j \in 1..n - 1 : i < j => undoable'[i].position < undoable'[j].position
    BY <1>7 DEF History, Ordered
  <2>2. ASSUME NEW i \in 1..m + 1, NEW j \in 1..m + 1, i < j
        PROVE  redoable'[j].position < redoable'[i].position
    <3>1. i \in 1..m /\ (j \in 1..m \/ j = m + 1)
      BY <1>1, <2>2
    <3>2. CASE j \in 1..m
      BY <1>6, <2>2, <3>1, <3>2 DEF History, Ordered
    <3>3. CASE j = m + 1
      BY <1>3, <1>4, <1>6, <3>1, <3>3 DEF History, Ordered
    <3> QED
      BY <3>1, <3>2, <3>3
  <2>3. ASSUME NEW i \in 1..n - 1, NEW j \in 1..m + 1
        PROVE  undoable'[i].position < redoable'[j].position
    <3>1. CASE j = m + 1
      <4>1. i \in 1..n /\ n \in 1..n /\ i < n
        BY <1>3
      <4> QED
        BY <1>3, <1>6, <1>7, <3>1, <4>1 DEF History, Ordered
    <3>2. CASE j # m + 1
      <4>1. i \in 1..n /\ j \in 1..m
        BY <1>1, <1>3, <3>2
      <4> QED
        BY <1>6, <1>7, <4>1 DEF History, Ordered
    <3> QED
      BY <3>1, <3>2
  <2>4. \A i \in 1..n - 1 : undoable'[i].position < position'.next
    BY <1>2, <1>7 DEF History, Ordered
  <2>5. \A j \in 1..m + 1 : redoable'[j].position < position'.next
    <3> TAKE j \in 1..m + 1
    <3>1. CASE j = m + 1
      BY <1>2, <1>3, <1>4, <1>6, <3>1 DEF History, Ordered
    <3>2. CASE j \in 1..m
      BY <1>2, <1>6, <3>2 DEF History, Ordered
    <3> QED
      BY <1>1, <3>1, <3>2
  <2> QED
    BY <1>6, <1>7, <2>1, <2>2, <2>3, <2>4, <2>5 DEF Ordered
<1>11. MarkIsTrue'
  <2>1. \A i \in 1..n - 1 : undoable'[i].position = position'.saved => undoable'[i].became = saved'
    BY <1>2, <1>7 DEF History, MarkIsTrue
  <2>2. \A j \in 1..m + 1 : redoable'[j].position = position'.saved => redoable'[j].became = saved'
    <3> TAKE j \in 1..m + 1
    <3>1. CASE j = m + 1
      BY <1>2, <1>3, <1>4, <1>6, <3>1 DEF History, MarkIsTrue
    <3>2. CASE j \in 1..m
      BY <1>2, <1>6, <3>2 DEF History, MarkIsTrue
    <3> QED
      BY <1>1, <3>1, <3>2
  <2>3. Bottom' = Bottom
    <3>1. CASE n = 1
      BY <1>3, <1>5, <1>7, <3>1 DEF Bottom
    <3>2. CASE n # 1
      <4>1. 1 \in 1..n - 1 /\ n - 1 # 0 /\ n # 0
        BY <1>3, <3>2
      <4> QED
        BY <1>7, <4>1 DEF Bottom
    <3> QED
      BY <3>1, <3>2
  <2> QED
    BY <1>2, <1>6, <1>7, <2>1, <2>2, <2>3 DEF History, MarkIsTrue
<1> QED
  BY <1>5, <1>8, <1>9, <1>10, <1>11 DEF History

LEMMA RedoKeepsHistory ==
  ASSUME Sound(document), History, Redo
  PROVE  Sound(document') /\ History'
<1> DEFINE n == Len(undoable)
           m == Len(redoable)
           e == Last(redoable)
<1>1. /\ undoable \in Seq(Entries) /\ redoable \in Seq(Entries)
      /\ position.saved \in Nat /\ position.next \in Nat \ {0}
      /\ n + m <= MaxHistory /\ n \in Nat
  BY DEF History, HistoryTyped
<1>2. /\ redoable # <<>> /\ document' = Apply(document, e.commands).document
      /\ redoable' = Front(redoable) /\ undoable' = Append(undoable, e)
      /\ position' = position /\ truncated' = truncated /\ saved' = saved
  BY DEF Redo
<1>3. /\ Front(redoable) \in Seq(Entries) /\ Len(Front(redoable)) = m - 1 /\ m \in Nat \ {0}
      /\ \A i \in 1..m - 1 : Front(redoable)[i] = redoable[i]
      /\ e = redoable[m] /\ e \in Entries
  BY <1>1, <1>2, FrontFacts
<1>4. m \in 1..m /\ e.was = document
  BY <1>3 DEF History, Chained
<1>5. Sound(document') /\ document' = e.became
  BY <1>2, <1>3, <1>4, EntryFields DEF Restores
<1>6. /\ undoable' \in Seq(Entries) /\ Len(undoable') = n + 1 /\ undoable'[n + 1] = e
      /\ \A i \in 1..n : undoable'[i] = undoable[i]
  BY <1>1, <1>2, <1>3
<1>7. /\ redoable' \in Seq(Entries) /\ Len(redoable') = m - 1
      /\ \A i \in 1..m - 1 : redoable'[i] = redoable[i] /\ i \in 1..m
  BY <1>2, <1>3
<1> HIDE DEF e
<1>8. HistoryTyped'
  BY <1>1, <1>2, <1>3, <1>6, <1>7 DEF History, HistoryTyped
<1>9. Chained'
  <2>1. ASSUME NEW i \in 1..(m - 1) - 1 PROVE redoable'[i + 1].became = redoable'[i].was
    <3>1. i \in 1..m - 1 /\ i + 1 \in 1..m - 1
      BY <1>3
    <3> QED
      BY <1>7, <3>1 DEF History, Chained
  <2>2. m - 1 > 0 => redoable'[m - 1].was = document'
    <3> SUFFICES ASSUME m - 1 > 0 PROVE redoable'[m - 1].was = document'
      OBVIOUS
    <3>1. m - 1 \in 1..m - 1 /\ (m - 1) + 1 = m
      BY <1>3
    <3> QED
      BY <1>3, <1>5, <1>7, <3>1 DEF History, Chained
  <2>3. ASSUME NEW i \in 1..(n + 1) - 1 PROVE undoable'[i].became = undoable'[i + 1].was
    <3>1. i \in 1..n
      BY <1>1
    <3>2. CASE i = n
      <4>1. undoable[n].became = document
        BY <1>1, <3>1, <3>2 DEF History, Chained
      <4> QED
        BY <1>4, <1>6, <3>1, <3>2, <4>1
    <3>3. CASE i # n
      <4>1. i \in 1..n - 1 /\ i + 1 \in 1..n
        BY <1>1, <3>1, <3>3
      <4> QED
        BY <1>6, <3>1, <4>1 DEF History, Chained
    <3> QED
      BY <3>2, <3>3
  <2>4. undoable'[n + 1].became = document'
    BY <1>5, <1>6
  <2> QED
    BY <1>6, <1>7, <2>1, <2>2, <2>3, <2>4 DEF Chained
<1>10. Ordered'
  <2>1. \A i, j \in 1..m - 1 : i < j => redoable'[j].position < redoable'[i].position
    BY <1>7 DEF History, Ordered
  <2>2. ASSUME NEW i \in 1..n + 1, NEW j \in 1..n + 1, i < j
        PROVE  undoable'[i].position < undoable'[j].position
    <3>1. i \in 1..n /\ (j \in 1..n \/ j = n + 1)
      BY <1>1, <2>2
    <3>2. CASE j \in 1..n
      BY <1>6, <2>2, <3>1, <3>2 DEF History, Ordered
    <3>3. CASE j = n + 1
      BY <1>3, <1>4, <1>6, <3>1, <3>3 DEF History, Ordered
    <3> QED
      BY <3>1, <3>2, <3>3
  <2>3. ASSUME NEW i \in 1..n + 1, NEW j \in 1..m - 1
        PROVE  undoable'[i].position < redoable'[j].position
    <3>1. CASE i = n + 1
      <4>1. j \in 1..m /\ m \in 1..m /\ j < m
        BY <1>3
      <4> QED
        BY <1>3, <1>6, <1>7, <3>1, <4>1 DEF History, Ordered
    <3>2. CASE i # n + 1
      <4>1. j \in 1..m /\ i \in 1..n
        BY <1>1, <1>3, <3>2
      <4> QED
        BY <1>6, <1>7, <4>1 DEF History, Ordered
    <3> QED
      BY <3>1, <3>2
  <2>4. \A i \in 1..m - 1 : redoable'[i].position < position'.next
    BY <1>2, <1>7 DEF History, Ordered
  <2>5. \A j \in 1..n + 1 : undoable'[j].position < position'.next
    <3> TAKE j \in 1..n + 1
    <3>1. CASE j = n + 1
      BY <1>2, <1>3, <1>4, <1>6, <3>1 DEF History, Ordered
    <3>2. CASE j \in 1..n
      BY <1>2, <1>6, <3>2 DEF History, Ordered
    <3> QED
      BY <1>1, <3>1, <3>2
  <2> QED
    BY <1>6, <1>7, <2>1, <2>2, <2>3, <2>4, <2>5 DEF Ordered
<1>11. MarkIsTrue'
  <2>1. \A i \in 1..m - 1 : redoable'[i].position = position'.saved => redoable'[i].became = saved'
    BY <1>2, <1>7 DEF History, MarkIsTrue
  <2>2. \A j \in 1..n + 1 : undoable'[j].position = position'.saved => undoable'[j].became = saved'
    <3> TAKE j \in 1..n + 1
    <3>1. CASE j = n + 1
      BY <1>2, <1>3, <1>4, <1>6, <3>1 DEF History, MarkIsTrue
    <3>2. CASE j \in 1..n
      BY <1>2, <1>6, <3>2 DEF History, MarkIsTrue
    <3> QED
      BY <1>1, <3>1, <3>2
  <2>3. Bottom' = Bottom
    <3>1. CASE n = 0
      BY <1>4, <1>6, <3>1 DEF Bottom
    <3>2. CASE n # 0
      <4>1. 1 \in 1..n /\ n + 1 # 0
        BY <1>1, <3>2
      <4> QED
        BY <1>6, <3>2, <4>1 DEF Bottom
    <3> QED
      BY <3>1, <3>2
  <2> QED
    BY <1>2, <1>6, <1>7, <2>1, <2>2, <2>3 DEF History, MarkIsTrue
<1> QED
  BY <1>5, <1>8, <1>9, <1>10, <1>11 DEF History

LEMMA SaveKeepsHistory ==
  ASSUME History, Save
  PROVE  History'
<1> DEFINE n == Len(undoable)
<1>1. /\ undoable \in Seq(Entries) /\ redoable \in Seq(Entries) /\ n \in Nat
      /\ position \in [saved : Nat, next : Nat \ {0}]
  BY DEF History, HistoryTyped
<1>2. /\ saved' = document /\ position' = [position EXCEPT !.saved = CurrentPosition]
      /\ undoable' = undoable /\ redoable' = redoable /\ truncated' = truncated
      /\ document' = document
  BY DEF Save
<1>3. CASE undoable = <<>>
  <2>1. n = 0 /\ CurrentPosition = 0
    BY <1>3 DEF CurrentPosition
  <2>2. /\ position' \in [saved : Nat, next : Nat \ {0}] /\ position'.saved = 0
        /\ position'.next = position.next /\ position'.saved < position'.next
    BY <1>1, <1>2, <2>1
  <2>3. \A i \in 1..Len(redoable) : redoable[i].position # 0
    BY <1>1, EntryFields
  <2>4. HistoryTyped' /\ Chained' /\ Ordered'
    BY <1>2, <2>2 DEF History, HistoryTyped, Chained, Ordered
  <2>5. MarkIsTrue'
    BY <1>2, <2>1, <2>2, <2>3 DEF MarkIsTrue, Bottom
  <2> QED
    BY <2>4, <2>5 DEF History
<1>4. CASE undoable # <<>>
  <2> DEFINE e == Last(undoable)
  <2>1. n \in Nat \ {0} /\ e = undoable[n] /\ e \in Entries
    BY <1>1, <1>4, FrontFacts
  <2>2. CurrentPosition = e.position /\ e.position \in Nat \ {0} /\ n \in 1..n
    BY <1>4, <2>1, EntryFields DEF CurrentPosition
  <2>3. e.position < position.next /\ e.became = document
    BY <2>1, <2>2 DEF History, Ordered, Chained
  <2> HIDE DEF e
  <2>4. /\ position' \in [saved : Nat, next : Nat \ {0}] /\ position'.saved = e.position
        /\ position'.next = position.next /\ position'.saved < position'.next
    BY <1>1, <1>2, <2>2, <2>3
  <2>5. HistoryTyped' /\ Chained' /\ Ordered'
    BY <1>2, <2>4 DEF History, HistoryTyped, Chained, Ordered
  <2>6. ASSUME NEW i \in 1..n, undoable[i].position = e.position PROVE undoable[i].became = document
    <3>1. i = n \/ i < n
      BY <1>1
    <3>2. i < n => undoable[i].position < e.position
      BY <2>1, <2>2 DEF History, Ordered
    <3>3. i = n
      BY <2>2, <2>6, <3>1, <3>2
    <3> QED
      BY <2>1, <2>3, <3>3
  <2>7. \A i \in 1..Len(redoable) : redoable[i].position # e.position
    <3> TAKE i \in 1..Len(redoable)
    <3>1. e.position < redoable[i].position
      BY <2>1, <2>2 DEF History, Ordered
    <3> QED
      BY <2>2, <3>1
  <2>8. MarkIsTrue'
    BY <1>2, <2>2, <2>4, <2>6, <2>7 DEF MarkIsTrue
  <2> QED
    BY <2>5, <2>8 DEF History
<1> QED
  BY <1>3, <1>4

LEMMA NothingDoneKeepsHistory ==
  ASSUME History, UNCHANGED <<document, undoable, redoable, position, truncated, saved>>
  PROVE  History'
BY DEF History, HistoryTyped, Chained, Ordered, MarkIsTrue, Bottom

LEMMA HistoryIsClean ==
  ASSUME History
  PROVE  CleanIsSaved
<1> SUFFICES ASSUME ~truncated, CurrentPosition = position.saved PROVE document = saved
  BY DEF CleanIsSaved, Dirty
<1>1. undoable \in Seq(Entries)
  BY DEF History, HistoryTyped
<1>2. CASE undoable = <<>>
  BY <1>2 DEF CurrentPosition, History, MarkIsTrue, Bottom
<1>3. CASE undoable # <<>>
  <2>1. Len(undoable) \in Nat \ {0} /\ Last(undoable) = undoable[Len(undoable)]
    BY <1>1, <1>3, FrontFacts
  <2>2. undoable[Len(undoable)].position = position.saved
    BY <1>3, <2>1 DEF CurrentPosition
  <2>3. undoable[Len(undoable)].became = document
    BY <2>1 DEF History, Chained
  <2>4. undoable[Len(undoable)].became = saved
    BY <2>1, <2>2 DEF History, MarkIsTrue
  <2> QED
    BY <2>3, <2>4
<1> QED
  BY <1>2, <1>3

-----------------------------------------------------------------------------
(* The line of documents that the history walks.                           *)

\* What the entries of a list hold in one of their fields.
Column(s, f) == [i \in DOMAIN s |-> s[i][f]]

LEMMA SameSequence ==
  ASSUME NEW V, NEW a \in Seq(V), NEW b \in Seq(V), Len(a) = Len(b),
         \A i \in 1..Len(a) : a[i] = b[i]
  PROVE  a = b
OBVIOUS

IsColumn(c, V, s, f) ==
  c \in Seq(V) /\ Len(c) = Len(s) /\ \A i \in 1..Len(s) : c[i] = s[i][f]
LEMMA ColumnFacts ==
  ASSUME NEW T, NEW V, NEW f, \A e \in T : e[f] \in V, NEW s \in Seq(T)
  PROVE  IsColumn(Column(s, f), V, s, f)
BY DEF Column, IsColumn

LEMMA ColumnAppend ==
  ASSUME NEW T, NEW V, NEW f, \A e \in T : e[f] \in V, NEW s \in Seq(T), NEW e \in T
  PROVE  Column(Append(s, e), f) = Append(Column(s, f), e[f])
<1> DEFINE t == Append(s, e)
           a == Column(t, f)
           c == Column(s, f)
           b == Append(c, e[f])
<1>1. /\ t \in Seq(T) /\ Len(t) = Len(s) + 1 /\ Len(s) \in Nat /\ t[Len(s) + 1] = e
      /\ \A i \in 1..Len(s) : t[i] = s[i]
  OBVIOUS
<1> HIDE DEF t
<1>2. IsColumn(a, V, t, f)
  BY <1>1, ColumnFacts
<1>3. IsColumn(c, V, s, f)
  BY ColumnFacts
<1> HIDE DEF a, c
<1>4. /\ b \in Seq(V) /\ Len(b) = Len(s) + 1 /\ b[Len(s) + 1] = e[f]
      /\ \A i \in 1..Len(s) : b[i] = c[i]
  BY <1>3 DEF IsColumn
<1> HIDE DEF b
<1>5. \A i \in 1..Len(a) : a[i] = b[i]
  <2> TAKE i \in 1..Len(a)
  <2>1. i \in 1..Len(t) /\ (i \in 1..Len(s) \/ i = Len(s) + 1)
    BY <1>1, <1>2 DEF IsColumn
  <2> QED
    BY <1>1, <1>2, <1>3, <1>4, <2>1 DEF IsColumn
<1>6. a = b
  BY <1>1, <1>2, <1>4, <1>5, SameSequence DEF IsColumn
<1> QED
  BY <1>6 DEF a, b, c, t

LEMMA ColumnFront ==
  ASSUME NEW T, NEW V, NEW f, \A e \in T : e[f] \in V, NEW s \in Seq(T), s # <<>>
  PROVE  /\ Column(s, f) # <<>> /\ Last(Column(s, f)) = Last(s)[f]
         /\ Column(Front(s), f) = Front(Column(s, f))
<1> DEFINE t == Front(s)
           a == Column(t, f)
           c == Column(s, f)
<1>1. /\ t \in Seq(T) /\ Len(t) = Len(s) - 1 /\ Len(s) \in Nat \ {0}
      /\ \A i \in 1..Len(s) - 1 : t[i] = s[i]
      /\ Last(s) = s[Len(s)]
  BY FrontFacts
<1> HIDE DEF t
<1>2. IsColumn(a, V, t, f)
  BY <1>1, ColumnFacts
<1>3. IsColumn(c, V, s, f)
  BY ColumnFacts
<1> HIDE DEF a, c
<1>4. c # <<>>
  BY <1>1, <1>3 DEF IsColumn
<1>5. /\ Front(c) \in Seq(V) /\ Len(Front(c)) = Len(c) - 1
      /\ \A i \in 1..Len(c) - 1 : Front(c)[i] = c[i]
      /\ Last(c) = c[Len(c)]
  BY <1>3, <1>4, FrontFacts DEF IsColumn
<1>6. \A i \in 1..Len(a) : a[i] = Front(c)[i]
  <2> TAKE i \in 1..Len(a)
  <2>1. i \in 1..Len(s) - 1 /\ i \in 1..Len(s) /\ i \in 1..Len(t)
    BY <1>1, <1>2 DEF IsColumn
  <2> QED
    BY <1>1, <1>2, <1>3, <1>5, <2>1 DEF IsColumn
<1>7. a = Front(c)
  BY <1>1, <1>2, <1>3, <1>5, <1>6, SameSequence DEF IsColumn
<1>8. Last(c) = Last(s)[f]
  BY <1>1, <1>3, <1>5 DEF IsColumn
<1> QED
  BY <1>4, <1>7, <1>8 DEF a, c, t

LEMMA ColumnEnd ==
  ASSUME NEW T, NEW V, NEW f, \A e \in T : e[f] \in V, NEW s \in Seq(T)
  PROVE  Column(LastEntries(s), f) = LastEntries(Column(s, f))
<1> DEFINE t == LastEntries(s)
           a == Column(t, f)
           c == Column(s, f)
           b == LastEntries(c)
           k == Dropped(s)
<1>1. IsEnd(t, T, s, k)
  BY LastEntriesFacts
<1> HIDE DEF t
<1>2. IsColumn(a, V, t, f)
  BY <1>1, ColumnFacts DEF IsEnd
<1>3. IsColumn(c, V, s, f)
  BY ColumnFacts
<1>4. Dropped(c) = k
  BY <1>3 DEF Dropped, IsColumn
<1>5. IsEnd(b, V, c, k)
  BY <1>3, <1>4, LastEntriesFacts DEF IsColumn
<1> HIDE DEF a, b, c, k
<1>6. \A i \in 1..Len(a) : a[i] = b[i]
  <2> TAKE i \in 1..Len(a)
  <2>1. i \in 1..Len(s) - k /\ i + k \in 1..Len(s) /\ i \in 1..Len(t)
    BY <1>1, <1>2 DEF IsEnd, IsColumn
  <2> QED
    BY <1>1, <1>2, <1>3, <1>5, <2>1 DEF IsEnd, IsColumn
<1>7. Len(a) = Len(b)
  BY <1>1, <1>2, <1>3, <1>5 DEF IsEnd, IsColumn
<1>8. a = b
  BY <1>2, <1>5, <1>6, <1>7, SameSequence DEF IsEnd, IsColumn
<1> QED
  BY <1>8 DEF a, b, c, t

LEMMA EntryColumns ==
  /\ \A e \in Entries : e["was"] \in DocumentRecords
  /\ \A e \in Entries : e["became"] \in DocumentRecords
BY DEF Entries

LEMMA Columns ==
  /\ Past = Column(undoable, "was") /\ Past' = Column(undoable', "was")
  /\ Future = Column(redoable, "became") /\ Future' = Column(redoable', "became")
BY DEF Past, Future, Column

LEMMA EmptyColumn == \A f : Column(<<>>, f) = <<>>
BY DEF Column

LEMMA PerformIsEdit ==
  ASSUME NEW cs, NEW used, NEW A, Sound(document), History, Legal(document, cs, A),
         Perform(cs, used)
  PROVE  Line!Edit
<1>1. undoable \in Seq(Entries) /\ position.next \in Nat \ {0}
  BY DEF History, HistoryTyped
<1>2. PICK e \in Entries :
           /\ e.was = document
           /\ undoable' = LastEntries(Append(undoable, e)) /\ redoable' = <<>>
  BY <1>1, PerformMakes
<1>3. Append(undoable, e) \in Seq(Entries)
  BY <1>1
<1>4. Column(LastEntries(Append(undoable, e)), "was")
        = LastEntries(Column(Append(undoable, e), "was"))
  BY <1>3, EntryColumns, ColumnEnd
<1>5. Column(Append(undoable, e), "was") = Append(Column(undoable, "was"), e["was"])
  BY <1>1, EntryColumns, ColumnAppend
<1>6. Past' = LastEntries(Append(Past, document))
  BY <1>2, <1>4, <1>5, Columns
<1>7. Future' = <<>>
  BY <1>2, Columns, EmptyColumn
<1>8. \A s : Line!Kept(s) = LastEntries(s)
  BY DEF Line!Kept, LastEntries
<1> QED
  BY <1>6, <1>7, <1>8 DEF Line!Edit

LEMMA UndoIsUndo ==
  ASSUME History, Undo
  PROVE  Line!Undo
<1>1. undoable \in Seq(Entries) /\ redoable \in Seq(Entries)
  BY DEF History, HistoryTyped
<1>2. /\ undoable # <<>> /\ document' = Apply(document, Last(undoable).inverse).document
      /\ undoable' = Front(undoable) /\ redoable' = Append(redoable, Last(undoable))
  BY DEF Undo
<1>3. Last(undoable) = undoable[Len(undoable)] /\ Last(undoable) \in Entries
      /\ Len(undoable) \in Nat \ {0}
  BY <1>1, <1>2, FrontFacts
<1>4. Last(undoable).became = document
  BY <1>3 DEF History, Chained
<1>5. document' = Last(undoable).was
  BY <1>2, <1>3, <1>4, EntryFields DEF Restores
<1>6. /\ Column(undoable, "was") # <<>>
      /\ Last(Column(undoable, "was")) = Last(undoable)["was"]
      /\ Column(Front(undoable), "was") = Front(Column(undoable, "was"))
  BY <1>1, <1>2, EntryColumns, ColumnFront
<1>7. Column(Append(redoable, Last(undoable)), "became")
        = Append(Column(redoable, "became"), Last(undoable)["became"])
  BY <1>1, <1>3, EntryColumns, ColumnAppend, ZenonT(60)
<1>8. Past # <<>> /\ document' = Last(Past)
  BY <1>5, <1>6, Columns
<1>9. Past' = Front(Past)
  BY <1>2, <1>6, Columns
<1>10. Future' = Append(Future, document)
  BY <1>2, <1>4, <1>7, Columns
<1> QED
  BY <1>8, <1>9, <1>10 DEF Line!Undo, Last, Front, Line!Last, Line!Front

LEMMA RedoIsRedo ==
  ASSUME History, Redo
  PROVE  Line!Redo
<1>1. undoable \in Seq(Entries) /\ redoable \in Seq(Entries)
  BY DEF History, HistoryTyped
<1>2. /\ redoable # <<>> /\ document' = Apply(document, Last(redoable).commands).document
      /\ redoable' = Front(redoable) /\ undoable' = Append(undoable, Last(redoable))
  BY DEF Redo
<1>3. Last(redoable) = redoable[Len(redoable)] /\ Last(redoable) \in Entries
      /\ Len(redoable) \in Nat \ {0}
  BY <1>1, <1>2, FrontFacts
<1>4. Last(redoable).was = document
  BY <1>3 DEF History, Chained
<1>5. document' = Last(redoable).became
  BY <1>2, <1>3, <1>4, EntryFields DEF Restores
<1>6. /\ Column(redoable, "became") # <<>>
      /\ Last(Column(redoable, "became")) = Last(redoable)["became"]
      /\ Column(Front(redoable), "became") = Front(Column(redoable, "became"))
  BY <1>1, <1>2, EntryColumns, ColumnFront
<1>7. Column(Append(undoable, Last(redoable)), "was")
        = Append(Column(undoable, "was"), Last(redoable)["was"])
  BY <1>1, <1>3, EntryColumns, ColumnAppend, ZenonT(60)
<1>8. Future # <<>> /\ document' = Last(Future)
  BY <1>5, <1>6, Columns
<1>9. Future' = Front(Future)
  BY <1>2, <1>6, Columns
<1>10. Past' = Append(Past, document)
  BY <1>2, <1>4, <1>7, Columns
<1> QED
  BY <1>8, <1>9, <1>10 DEF Line!Redo, Last, Front, Line!Last, Line!Front

-----------------------------------------------------------------------------
(* Fragments.                                                              *)

IsPart(s, T, items, K) ==
  /\ s \in Seq(T) /\ DOMAIN s = 1..Len(s) /\ ToSet(s) \subseteq ToSet(items)
  /\ \A i \in 1..Len(s) : \E j \in K : s[i] = items[j]
  /\ \A j \in K : \E i \in 1..Len(s) : s[i] = items[j]
  /\ Distinct(items) => Distinct(s)
LEMMA PartFacts ==
  ASSUME NEW T, NEW items \in Seq(T), NEW K \in SUBSET (1..Len(items))
  PROVE  IsPart(Selected(items, K), T, items, K)
<1>1. PICK s : s = Selected(items, K)
  OBVIOUS
<1>2. /\ Selected(items, K) \in Seq(T)
      /\ \A i \in 1..Len(Selected(items, K)) : \E j \in 1..Len(items) :
           j \in K /\ Selected(items, K)[i] = items[j]
      /\ \A j \in 1..Len(items) : j \in K =>
           \E i \in 1..Len(Selected(items, K)) : Selected(items, K)[i] = items[j]
      /\ Distinct(items) => Distinct(Selected(items, K))
  BY SelectedFacts
<1>3. /\ s \in Seq(T)
      /\ \A i \in 1..Len(s) : \E j \in 1..Len(items) : j \in K /\ s[i] = items[j]
      /\ \A j \in 1..Len(items) : j \in K => \E i \in 1..Len(s) : s[i] = items[j]
      /\ Distinct(items) => Distinct(s)
  BY <1>1, <1>2
<1>4. DOMAIN s = 1..Len(s) /\ DOMAIN items = 1..Len(items)
  BY <1>3
<1>5. ToSet(s) \subseteq ToSet(items)
  BY <1>3, <1>4 DEF ToSet
<1>6. (\A i \in 1..Len(s) : \E j \in K : s[i] = items[j])
      /\ (\A j \in K : \E i \in 1..Len(s) : s[i] = items[j])
  BY <1>3
<1>7. IsPart(s, T, items, K)
  BY <1>3, <1>4, <1>5, <1>6 DEF IsPart
<1> QED
  BY <1>1, <1>7

LEMMA Sums ==
  ASSUME NEW a \in Nat, NEW b \in Nat, NEW c \in Nat, NEW d \in Nat
  PROVE  a + b \in Nat /\ a + b + c \in Nat /\ a + b + c + d \in Nat
OBVIOUS

LEMMA FragmentFields ==
  ASSUME NEW f \in Fragments
  PROVE  /\ f.nodes \in Seq(Records["nodes"]) /\ f.edges \in Seq(Records["edges"])
         /\ f.hints \in Seq(Records["hints"]) /\ f.groups \in Seq(Records["groups"])
         /\ DOMAIN f.nodes = 1..Len(f.nodes) /\ DOMAIN f.edges = 1..Len(f.edges)
         /\ DOMAIN f.hints = 1..Len(f.hints) /\ DOMAIN f.groups = 1..Len(f.groups)
         /\ Distinct(f.nodes) /\ Distinct(f.edges) /\ Distinct(f.hints) /\ Distinct(f.groups)
         /\ EdgesJoin(f) /\ HintsMark(f) /\ GroupsHold(f) /\ GraphIntact(f)
<1>1. /\ f.nodes \in Seq(Records["nodes"]) /\ f.edges \in Seq(Records["edges"])
      /\ f.hints \in Seq(Records["hints"]) /\ f.groups \in Seq(Records["groups"])
      /\ GraphIntact(f)
  BY DEF Fragments
<1>2. EdgesJoin(f) /\ HintsMark(f) /\ GroupsHold(f)
  BY <1>1, IntactParts
<1>3. Distinct(f.nodes) /\ Distinct(f.edges) /\ Distinct(f.hints) /\ Distinct(f.groups)
  BY <1>1 DEF GraphIntact
<1>4. /\ DOMAIN f.nodes = 1..Len(f.nodes) /\ DOMAIN f.edges = 1..Len(f.edges)
      /\ DOMAIN f.hints = 1..Len(f.hints) /\ DOMAIN f.groups = 1..Len(f.groups)
  BY <1>1
<1> QED
  BY <1>1, <1>2, <1>3, <1>4

LEMMA AFragment ==
  ASSUME NEW nodes \in Seq(Records["nodes"]), NEW edges \in Seq(Records["edges"]),
         NEW groups \in Seq(Records["groups"]), NEW hints \in Seq(Records["hints"]),
         Distinct(nodes), Distinct(edges), Distinct(groups), Distinct(hints),
         NEW f, f = [nodes |-> nodes, edges |-> edges, groups |-> groups, hints |-> hints],
         EdgesJoin(f), HintsMark(f), GroupsHold(f)
  PROVE  f \in Fragments
<1>1. f.nodes = nodes /\ f.edges = edges /\ f.groups = groups /\ f.hints = hints
  OBVIOUS
<1>2. \A k \in Kinds : Distinct(f[k])
  BY <1>1 DEF Kinds
<1>3. GraphIntact(f)
  BY <1>2, IntactParts
<1> QED
  BY <1>3 DEF Fragments

(* The selected part of a graph.                                            *)
LEMMA FragmentFacts ==
  ASSUME NEW x \in GraphRecords, GraphIntact(x), NEW S
  PROVE  /\ Fragment(x, S) \in Fragments
         /\ GraphWired(x) => GraphWired(Fragment(x, S))
<1>1. /\ Distinct(x.nodes) /\ Distinct(x.edges) /\ Distinct(x.hints) /\ Distinct(x.groups)
      /\ EdgesJoin(x) /\ HintsMark(x) /\ GroupsHold(x)
  BY IntactParts DEF Kinds
<1>2. /\ x.nodes \in Seq(Records["nodes"]) /\ x.edges \in Seq(Records["edges"])
      /\ x.hints \in Seq(Records["hints"]) /\ x.groups \in Seq(Records["groups"])
      /\ DOMAIN x.nodes = 1..Len(x.nodes) /\ DOMAIN x.edges = 1..Len(x.edges)
      /\ DOMAIN x.hints = 1..Len(x.hints) /\ DOMAIN x.groups = 1..Len(x.groups)
  BY Lists
<1> DEFINE N == {i \in DOMAIN x.nodes : x.nodes[i].id \in S}
           E == {i \in DOMAIN x.edges : x.edges[i].from \in S /\ x.edges[i].to \in S}
           G == {i \in DOMAIN x.groups : x.groups[i].members \subseteq S}
<1>3. PICK nodes : nodes = Selected(x.nodes, N)
  OBVIOUS
<1>4. PICK edges : edges = Selected(x.edges, E)
  OBVIOUS
<1>5. PICK groups : groups = Selected(x.groups, G)
  OBVIOUS
<1> DEFINE H == {i \in DOMAIN x.hints : Has(edges, x.hints[i].edge)}
<1>6. PICK hints : hints = Selected(x.hints, H)
  OBVIOUS
<1>7. PICK f : f = [nodes |-> nodes, edges |-> edges, groups |-> groups, hints |-> hints]
  OBVIOUS
<1>8. Fragment(x, S) = f
  BY <1>3, <1>4, <1>5, <1>6, <1>7 DEF Fragment, Those, Filter
<1>9. IsPart(nodes, Records["nodes"], x.nodes, N)
  <2>1. N \in SUBSET (1..Len(x.nodes))
    BY <1>2
  <2> HIDE DEF N
  <2> QED
    BY <1>2, <1>3, <2>1, PartFacts
<1>10. IsPart(edges, Records["edges"], x.edges, E)
  <2>1. E \in SUBSET (1..Len(x.edges))
    BY <1>2
  <2> HIDE DEF E
  <2> QED
    BY <1>2, <1>4, <2>1, PartFacts
<1>11. IsPart(groups, Records["groups"], x.groups, G)
  <2>1. G \in SUBSET (1..Len(x.groups))
    BY <1>2
  <2> HIDE DEF G
  <2> QED
    BY <1>2, <1>5, <2>1, PartFacts
<1>12. IsPart(hints, Records["hints"], x.hints, H)
  <2>1. H \in SUBSET (1..Len(x.hints))
    BY <1>2
  <2> HIDE DEF H
  <2> QED
    BY <1>2, <1>6, <2>1, PartFacts
<1>13. Distinct(nodes) /\ Distinct(edges) /\ Distinct(groups) /\ Distinct(hints)
  BY <1>1, <1>9, <1>10, <1>11, <1>12 DEF IsPart
<1>14. f.nodes = nodes /\ f.edges = edges /\ f.groups = groups /\ f.hints = hints
  BY <1>7
<1>15. \A n \in S : Has(x.nodes, n) => Has(nodes, n)
  <2> SUFFICES ASSUME NEW n \in S, Has(x.nodes, n) PROVE Has(nodes, n)
    OBVIOUS
  <2>1. PICK j \in DOMAIN x.nodes : x.nodes[j].id = n
    BY DEF Has
  <2>2. j \in N
    BY <2>1
  <2>3. PICK i \in 1..Len(nodes) : nodes[i] = x.nodes[j]
    BY <1>9, <2>2 DEF IsPart
  <2> QED
    BY <1>9, <2>1, <2>3 DEF Has, IsPart
<1>16. EdgesJoin(f)
  <2> SUFFICES ASSUME NEW i \in 1..Len(edges)
               PROVE  Has(nodes, edges[i].from) /\ Has(nodes, edges[i].to)
    BY <1>10, <1>14 DEF EdgesJoin, IsPart
  <2>1. PICK j \in E : edges[i] = x.edges[j]
    BY <1>10 DEF IsPart
  <2> QED
    BY <1>1, <1>15, <2>1 DEF EdgesJoin
<1>17. HintsMark(f)
  <2>1. ASSUME NEW i \in 1..Len(hints)
        PROVE  Has(edges, hints[i].edge) /\ Item(edges, hints[i].edge).kind = "execution"
    <3>1. PICK j \in H : hints[i] = x.hints[j]
      BY <1>12 DEF IsPart
    <3>2. Has(edges, hints[i].edge) /\ Item(x.edges, hints[i].edge).kind = "execution"
      BY <1>1, <3>1 DEF HintsMark
    <3>3. PICK m \in 1..Len(edges) : edges[m].id = hints[i].edge
      BY <1>10, <3>2 DEF Has, IsPart
    <3>4. PICK n \in E : edges[m] = x.edges[n]
      BY <1>10 DEF IsPart
    <3>5. Item(x.edges, edges[m].id) = Item(edges, edges[m].id)
      <4>1. n \in 1..Len(x.edges)
        BY <1>2
      <4> QED
        BY <1>1, <1>2, <1>10, <1>13, <3>3, <3>4, <4>1, SameItem, SMTT(30) DEF IsPart
    <3> QED
      BY <3>2, <3>3, <3>5
  <2>2. ASSUME NEW i \in 1..Len(hints), NEW j \in 1..Len(hints), hints[i].edge = hints[j].edge
        PROVE  i = j
    <3>1. PICK a \in H : hints[i] = x.hints[a]
      BY <1>12 DEF IsPart
    <3>2. PICK b \in H : hints[j] = x.hints[b]
      BY <1>12 DEF IsPart
    <3>3. a = b
      BY <1>1, <2>2, <3>1, <3>2 DEF HintsMark
    <3>4. i \in DOMAIN hints /\ j \in DOMAIN hints /\ hints[i].id = hints[j].id
      BY <1>12, <3>1, <3>2, <3>3 DEF IsPart
    <3> QED
      BY <1>13, <3>4 DEF Distinct
  <2> QED
    BY <1>12, <1>14, <2>1, <2>2 DEF HintsMark, IsPart
<1>18. GroupsHold(f)
  <2>1. \A i \in 1..Len(groups) : \E j \in 1..Len(x.groups) : groups[i] = x.groups[j]
    BY <1>2, <1>11 DEF IsPart
  <2>2. Apart(groups)
    BY <1>1, <1>2, <1>11, <1>13, <2>1, GroupsStay DEF GroupsHold, IsPart
  <2>3. ASSUME NEW i \in 1..Len(groups), NEW n \in groups[i].members PROVE Has(nodes, n)
    <3>1. PICK j \in G : groups[i] = x.groups[j]
      BY <1>11 DEF IsPart
    <3> QED
      BY <1>1, <1>15, <2>3, <3>1 DEF GroupsHold
  <2> QED
    BY <1>11, <1>14, <2>2, <2>3 DEF GroupsHold, IsPart
<1>19. f \in Fragments
  <2>1. /\ nodes \in Seq(Records["nodes"]) /\ edges \in Seq(Records["edges"])
        /\ groups \in Seq(Records["groups"]) /\ hints \in Seq(Records["hints"])
    BY <1>9, <1>10, <1>11, <1>12 DEF IsPart
  <2> QED
    BY <1>7, <1>16, <1>17, <1>18, <1>13, <2>1, AFragment
<1>20. ToSet(nodes) \subseteq ToSet(x.nodes) /\ ToSet(edges) \subseteq ToSet(x.edges)
  BY <1>9, <1>10 DEF IsPart
<1>21. GraphWired(x) => GraphWired(f)
  BY <1>14, <1>20, WiringLess DEF GraphWired
<1> QED
  BY <1>8, <1>19, <1>21

\* The lists of r are those of f, in which the identifiers are made anew.
IsRenumbered(r, f, first) ==
  LET edges == first + Len(f.nodes)
      groups == edges + Len(f.edges)
      hints == groups + Len(f.groups) IN
  /\ r.nodes \in Seq(Records["nodes"]) /\ Len(r.nodes) = Len(f.nodes)
  /\ \A i \in 1..Len(f.nodes) : r.nodes[i].id = first + i /\ r.nodes[i].type = f.nodes[i].type
  /\ r.edges \in Seq(Records["edges"]) /\ Len(r.edges) = Len(f.edges)
  /\ \A i \in 1..Len(f.edges) :
       /\ r.edges[i].id = edges + i /\ r.edges[i].kind = f.edges[i].kind
       /\ r.edges[i].in = f.edges[i].in /\ r.edges[i].out = f.edges[i].out
       /\ r.edges[i].from = first + IndexOf(f.nodes, f.edges[i].from)
       /\ r.edges[i].to = first + IndexOf(f.nodes, f.edges[i].to)
  /\ r.groups \in Seq(Records["groups"]) /\ Len(r.groups) = Len(f.groups)
  /\ \A i \in 1..Len(f.groups) :
       /\ r.groups[i].id = groups + i
       /\ r.groups[i].members = {first + IndexOf(f.nodes, n) : n \in f.groups[i].members}
  /\ r.hints \in Seq(Records["hints"]) /\ Len(r.hints) = Len(f.hints)
  /\ \A i \in 1..Len(f.hints) :
       r.hints[i].id = hints + i /\ r.hints[i].edge = edges + IndexOf(f.edges, f.hints[i].edge)

LEMMA RenumberedLists ==
  ASSUME NEW f \in Fragments, NEW first \in Nat
  PROVE  /\ IsRenumbered(Renumbered(f, first), f, first)
         /\ Renumbered(f, first) = [nodes |-> Renumbered(f, first).nodes,
              edges |-> Renumbered(f, first).edges, groups |-> Renumbered(f, first).groups,
              hints |-> Renumbered(f, first).hints]
<1>1. /\ f.nodes \in Seq(Records["nodes"]) /\ f.edges \in Seq(Records["edges"])
      /\ f.hints \in Seq(Records["hints"]) /\ f.groups \in Seq(Records["groups"])
      /\ DOMAIN f.nodes = 1..Len(f.nodes) /\ DOMAIN f.edges = 1..Len(f.edges)
      /\ DOMAIN f.hints = 1..Len(f.hints) /\ DOMAIN f.groups = 1..Len(f.groups)
      /\ EdgesJoin(f) /\ HintsMark(f) /\ GroupsHold(f)
  BY FragmentFields
<1>2. /\ Len(f.nodes) \in Nat /\ Len(f.edges) \in Nat /\ Len(f.groups) \in Nat /\ Len(f.hints) \in Nat
  BY <1>1
<1> DEFINE edges == first + Len(f.nodes)
           groups == edges + Len(f.edges)
           hints == groups + Len(f.groups)
<1>3. edges \in Nat /\ groups \in Nat /\ hints \in Nat
  BY <1>2, Sums
<1>4. \A n : Has(f.nodes, n) => first + IndexOf(f.nodes, n) \in Nat
  <2> SUFFICES ASSUME NEW n, Has(f.nodes, n) PROVE first + IndexOf(f.nodes, n) \in Nat
    OBVIOUS
  <2>1. IndexOf(f.nodes, n) \in 1..Len(f.nodes)
    BY <1>1, ItemFacts
  <2> QED
    BY <1>2, <2>1
<1>5. \A n : Has(f.edges, n) => edges + IndexOf(f.edges, n) \in Nat
  <2> SUFFICES ASSUME NEW n, Has(f.edges, n) PROVE edges + IndexOf(f.edges, n) \in Nat
    OBVIOUS
  <2>1. IndexOf(f.edges, n) \in 1..Len(f.edges)
    BY <1>1, ItemFacts
  <2> QED
    BY <1>2, <1>3, <2>1
<1> HIDE DEF edges, groups, hints
<1> DEFINE ns == [i \in DOMAIN f.nodes |-> [f.nodes[i] EXCEPT !.id = first + i]]
           es == [i \in DOMAIN f.edges |->
                    [f.edges[i] EXCEPT !.id = edges + i,
                       !.from = first + IndexOf(f.nodes, @), !.to = first + IndexOf(f.nodes, @)]]
           gs == [i \in DOMAIN f.groups |->
                     [id |-> groups + i,
                      members |-> {first + IndexOf(f.nodes, n) : n \in f.groups[i].members}]]
           hs == [i \in DOMAIN f.hints |->
                    [id |-> hints + i, edge |-> edges + IndexOf(f.edges, f.hints[i].edge)]]
<1>6. Renumbered(f, first) = [nodes |-> ns, edges |-> es, groups |-> gs, hints |-> hs]
  BY DEF Renumbered, edges, groups, hints
<1>7. /\ ns \in Seq(Records["nodes"]) /\ Len(ns) = Len(f.nodes)
      /\ \A i \in 1..Len(f.nodes) : ns[i].id = first + i /\ ns[i].type = f.nodes[i].type
  <2>1. \A i \in 1..Len(f.nodes) : f.nodes[i] \in Records["nodes"] /\ first + i \in Nat
    BY <1>1
  <2>2. \A i \in 1..Len(f.nodes) : /\ ns[i] \in Records["nodes"]
                                   /\ ns[i].id = first + i /\ ns[i].type = f.nodes[i].type
    BY <1>1, <2>1 DEF Records
  <2>3. ns \in [1..Len(f.nodes) -> Records["nodes"]]
    BY <1>1, <2>2
  <2> HIDE DEF ns
  <2>4. ns \in Seq(Records["nodes"]) /\ Len(ns) = Len(f.nodes)
    BY <1>2, <2>3, FunctionSequence
  <2> QED
    BY <2>2, <2>4
<1>8. /\ es \in Seq(Records["edges"]) /\ Len(es) = Len(f.edges)
      /\ \A i \in 1..Len(f.edges) :
           /\ es[i].id = edges + i /\ es[i].kind = f.edges[i].kind
           /\ es[i].in = f.edges[i].in /\ es[i].out = f.edges[i].out
           /\ es[i].from = first + IndexOf(f.nodes, f.edges[i].from)
           /\ es[i].to = first + IndexOf(f.nodes, f.edges[i].to)
  <2>1. \A i \in 1..Len(f.edges) :
          /\ f.edges[i] \in Records["edges"] /\ edges + i \in Nat
          /\ first + IndexOf(f.nodes, f.edges[i].from) \in Nat
          /\ first + IndexOf(f.nodes, f.edges[i].to) \in Nat
    <3> TAKE i \in 1..Len(f.edges)
    <3>1. f.edges[i] \in Records["edges"] /\ i \in Nat
      BY <1>1, <1>2
    <3>2. Has(f.nodes, f.edges[i].from) /\ Has(f.nodes, f.edges[i].to)
      BY <1>1 DEF EdgesJoin
    <3> QED
      BY <1>3, <1>4, <3>1, <3>2
  <2>2. \A i \in 1..Len(f.edges) :
           /\ es[i] \in Records["edges"]
           /\ es[i].id = edges + i /\ es[i].kind = f.edges[i].kind
           /\ es[i].in = f.edges[i].in /\ es[i].out = f.edges[i].out
           /\ es[i].from = first + IndexOf(f.nodes, f.edges[i].from)
           /\ es[i].to = first + IndexOf(f.nodes, f.edges[i].to)
    BY <1>1, <2>1, ZenonT(60) DEF Records
  <2>3. es \in [1..Len(f.edges) -> Records["edges"]]
    BY <1>1, <2>2, Zenon
  <2> HIDE DEF es
  <2>4. es \in Seq(Records["edges"]) /\ Len(es) = Len(f.edges)
    BY <1>2, <2>3, FunctionSequence
  <2> QED
    BY <2>2, <2>4
<1>9. /\ gs \in Seq(Records["groups"]) /\ Len(gs) = Len(f.groups)
      /\ \A i \in 1..Len(f.groups) :
           /\ gs[i].id = groups + i
           /\ gs[i].members = {first + IndexOf(f.nodes, n) : n \in f.groups[i].members}
  <2>1. \A i \in 1..Len(f.groups) :
          /\ groups + i \in Nat
          /\ {first + IndexOf(f.nodes, n) : n \in f.groups[i].members} \in SUBSET Nat
    <3> TAKE i \in 1..Len(f.groups)
    <3>1. i \in Nat /\ \A n \in f.groups[i].members : Has(f.nodes, n)
      BY <1>1, <1>2, SMTT(60) DEF GroupsHold
    <3> QED
      BY <1>3, <1>4, <3>1
  <2>2. \A i \in 1..Len(f.groups) :
           /\ gs[i] \in Records["groups"] /\ gs[i].id = groups + i
           /\ gs[i].members = {first + IndexOf(f.nodes, n) : n \in f.groups[i].members}
    BY <1>1, <2>1 DEF Records
  <2>3. gs \in [1..Len(f.groups) -> Records["groups"]]
    BY <1>1, <2>2
  <2> HIDE DEF gs
  <2>4. gs \in Seq(Records["groups"]) /\ Len(gs) = Len(f.groups)
    BY <1>2, <2>3, FunctionSequence
  <2> QED
    BY <2>2, <2>4
<1>10. /\ hs \in Seq(Records["hints"]) /\ Len(hs) = Len(f.hints)
       /\ \A i \in 1..Len(f.hints) :
            hs[i].id = hints + i /\ hs[i].edge = edges + IndexOf(f.edges, f.hints[i].edge)
  <2>1. \A i \in 1..Len(f.hints) :
          hints + i \in Nat /\ edges + IndexOf(f.edges, f.hints[i].edge) \in Nat
    <3> TAKE i \in 1..Len(f.hints)
    <3>1. i \in Nat /\ Has(f.edges, f.hints[i].edge)
      BY <1>1, <1>2 DEF HintsMark
    <3> QED
      BY <1>3, <1>5, <3>1
  <2>2. \A i \in 1..Len(f.hints) :
           /\ hs[i] \in Records["hints"]
           /\ hs[i].id = hints + i /\ hs[i].edge = edges + IndexOf(f.edges, f.hints[i].edge)
    BY <1>1, <2>1 DEF Records
  <2>3. hs \in [1..Len(f.hints) -> Records["hints"]]
    BY <1>1, <2>2
  <2> HIDE DEF hs
  <2>4. hs \in Seq(Records["hints"]) /\ Len(hs) = Len(f.hints)
    BY <1>2, <2>3, FunctionSequence
  <2> QED
    BY <2>2, <2>4
<1> HIDE DEF ns, es, gs, hs
<1>11. PICK r : r = Renumbered(f, first)
  OBVIOUS
<1>12. r.nodes = ns /\ r.edges = es /\ r.groups = gs /\ r.hints = hs
  BY <1>6, <1>11
<1>13. IsRenumbered(r, f, first)
  BY <1>7, <1>8, <1>9, <1>10, <1>12 DEF IsRenumbered, edges, groups, hints
<1> QED
  BY <1>6, <1>11, <1>12, <1>13

(* A fragment under fresh identifiers is a fragment, wired as it was.       *)
LEMMA RenumberedFacts ==
  ASSUME NEW f \in Fragments, NEW first \in Nat
  PROVE  /\ Renumbered(f, first) \in Fragments
         /\ GraphWired(f) => GraphWired(Renumbered(f, first))
<1>1. PICK r : r = Renumbered(f, first)
  OBVIOUS
<1>2. /\ IsRenumbered(r, f, first)
      /\ r = [nodes |-> r.nodes, edges |-> r.edges, groups |-> r.groups, hints |-> r.hints]
  BY <1>1, RenumberedLists
<1>3. /\ f.nodes \in Seq(Records["nodes"]) /\ f.edges \in Seq(Records["edges"])
      /\ f.hints \in Seq(Records["hints"]) /\ f.groups \in Seq(Records["groups"])
      /\ DOMAIN f.nodes = 1..Len(f.nodes) /\ DOMAIN f.edges = 1..Len(f.edges)
      /\ DOMAIN f.hints = 1..Len(f.hints) /\ DOMAIN f.groups = 1..Len(f.groups)
      /\ Distinct(f.nodes) /\ Distinct(f.edges)
      /\ EdgesJoin(f) /\ HintsMark(f) /\ GroupsHold(f)
  BY FragmentFields
<1> DEFINE P == Len(f.nodes)
           Q == Len(f.edges)
           G == Len(f.groups)
           H == Len(f.hints)
           edges == first + P
           groups == edges + Q
           hints == groups + G
<1>4. P \in Nat /\ Q \in Nat /\ G \in Nat /\ H \in Nat
  BY <1>3
<1> HIDE DEF P, Q, G, H
<1>5. edges \in Nat /\ groups \in Nat /\ hints \in Nat
  BY <1>4
<1>6. /\ r.nodes \in Seq(Records["nodes"]) /\ DOMAIN r.nodes = 1..P /\ Len(r.nodes) = P
      /\ \A i \in 1..P : r.nodes[i].id = first + i /\ r.nodes[i].type = f.nodes[i].type
  BY <1>2 DEF IsRenumbered, P
<1>7. /\ r.edges \in Seq(Records["edges"]) /\ DOMAIN r.edges = 1..Q /\ Len(r.edges) = Q
      /\ \A i \in 1..Q :
           /\ r.edges[i].id = edges + i /\ r.edges[i].kind = f.edges[i].kind
           /\ r.edges[i].in = f.edges[i].in /\ r.edges[i].out = f.edges[i].out
           /\ r.edges[i].from = first + IndexOf(f.nodes, f.edges[i].from)
           /\ r.edges[i].to = first + IndexOf(f.nodes, f.edges[i].to)
  BY <1>2 DEF IsRenumbered, P, Q
<1>8. /\ r.groups \in Seq(Records["groups"]) /\ DOMAIN r.groups = 1..G /\ Len(r.groups) = G
      /\ \A i \in 1..G :
           /\ r.groups[i].id = groups + i
           /\ r.groups[i].members = {first + IndexOf(f.nodes, n) : n \in f.groups[i].members}
  BY <1>2 DEF IsRenumbered, P, Q, G
<1>9. /\ r.hints \in Seq(Records["hints"]) /\ DOMAIN r.hints = 1..H /\ Len(r.hints) = H
      /\ \A i \in 1..H :
           /\ r.hints[i].id = hints + i
           /\ r.hints[i].edge = edges + IndexOf(f.edges, f.hints[i].edge)
  BY <1>2 DEF IsRenumbered, P, Q, G, H
<1> HIDE DEF edges, groups, hints
\* The new name of a node.
<1> DEFINE I == Ids(ToSet(f.nodes))
           to == [n \in I |-> first + IndexOf(f.nodes, n)]
<1>10. \A n : Has(f.nodes, n) <=> n \in I
  BY HasIds
<1>11. \A n \in I : IndexOf(f.nodes, n) \in 1..P /\ f.nodes[IndexOf(f.nodes, n)].id = n
  BY <1>3, <1>10, ItemFacts DEF P
<1>12. \A n, m \in I : to[n] = to[m] => n = m
  <2> SUFFICES ASSUME NEW n \in I, NEW m \in I, to[n] = to[m] PROVE n = m
    OBVIOUS
  <2>1. first + IndexOf(f.nodes, n) = first + IndexOf(f.nodes, m)
    OBVIOUS
  <2>2. IndexOf(f.nodes, n) \in Nat /\ IndexOf(f.nodes, m) \in Nat
    BY <1>4, <1>11
  <2>3. IndexOf(f.nodes, n) = IndexOf(f.nodes, m)
    BY <2>1, <2>2
  <2> QED
    BY <1>11, <2>3
<1>13. \A n \in I : to[n] = first + IndexOf(f.nodes, n) /\ Has(r.nodes, to[n])
  <2> TAKE n \in I
  <2>1. IndexOf(f.nodes, n) \in 1..P
    BY <1>11
  <2> QED
    BY <1>6, <2>1 DEF Has
<1> HIDE DEF I, to
<1>14. Distinct(r.nodes) /\ Distinct(r.edges) /\ Distinct(r.groups) /\ Distinct(r.hints)
  <2>1. ASSUME NEW a \in Nat, NEW i \in Nat, NEW j \in Nat, a + i = a + j PROVE i = j
    BY <2>1
  <2>2. Distinct(r.nodes)
    BY <1>4, <1>6, <2>1 DEF Distinct
  <2>3. Distinct(r.edges)
    BY <1>4, <1>5, <1>7, <2>1 DEF Distinct
  <2>4. Distinct(r.groups)
    BY <1>4, <1>5, <1>8, <2>1 DEF Distinct
  <2>5. Distinct(r.hints)
    BY <1>4, <1>5, <1>9, <2>1 DEF Distinct
  <2> QED
    BY <2>2, <2>3, <2>4, <2>5
<1>15. \A i \in 1..Q : f.edges[i].from \in I /\ f.edges[i].to \in I
  BY <1>3, <1>10 DEF EdgesJoin, Q
<1>16. \A i \in 1..Q : r.edges[i].from = to[f.edges[i].from] /\ r.edges[i].to = to[f.edges[i].to]
  BY <1>7, <1>13, <1>15
<1>17. EdgesJoin(r)
  BY <1>7, <1>13, <1>15, <1>16 DEF EdgesJoin
<1>18. HintsMark(r)
  <2>1. \A i \in 1..H : /\ IndexOf(f.edges, f.hints[i].edge) \in 1..Q
                        /\ f.edges[IndexOf(f.edges, f.hints[i].edge)].id = f.hints[i].edge
                        /\ f.edges[IndexOf(f.edges, f.hints[i].edge)].kind = "execution"
    <3> TAKE i \in 1..H
    <3>1. Has(f.edges, f.hints[i].edge) /\ Item(f.edges, f.hints[i].edge).kind = "execution"
      BY <1>3 DEF HintsMark, H
    <3> QED
      BY <1>3, <3>1, ItemFacts DEF Item, Q
  <2>2. ASSUME NEW i \in 1..H
        PROVE  Has(r.edges, r.hints[i].edge) /\ Item(r.edges, r.hints[i].edge).kind = "execution"
    <3>1. PICK m \in 1..Q : m = IndexOf(f.edges, f.hints[i].edge)
      BY <2>1
    <3>2. r.hints[i].edge = r.edges[m].id /\ r.edges[m].kind = "execution"
      BY <1>7, <1>9, <2>1, <3>1, ZenonT(60)
    <3>3. Has(r.edges, r.edges[m].id) /\ Item(r.edges, r.edges[m].id) = r.edges[m]
      BY <1>7, <1>14, ItemAt
    <3> QED
      BY <3>2, <3>3
  <2>3. ASSUME NEW i \in 1..H, NEW j \in 1..H, r.hints[i].edge = r.hints[j].edge
        PROVE  i = j
    <3>1. PICK m \in 1..Q : m = IndexOf(f.edges, f.hints[i].edge)
      BY <2>1
    <3>2. PICK n \in 1..Q : n = IndexOf(f.edges, f.hints[j].edge)
      BY <2>1
    <3>3. edges + m = edges + n
      BY <1>9, <2>3, <3>1, <3>2
    <3>4. m = n
      BY <1>4, <1>5, <3>3
    <3>5. f.hints[i].edge = f.hints[j].edge
      BY <2>1, <3>1, <3>2, <3>4
    <3> QED
      BY <1>3, <3>5 DEF HintsMark, H
  <2> QED
    BY <1>9, <2>2, <2>3 DEF HintsMark
<1>19. GroupsHold(r)
  <2>1. \A i \in 1..G : \A n \in f.groups[i].members : n \in I
    BY <1>3, <1>10 DEF GroupsHold, G
  <2>2. \A i \in 1..G : r.groups[i].members = {to[n] : n \in f.groups[i].members}
    BY <1>8, <1>13, <2>1
  <2>3. ASSUME NEW i \in 1..G
        PROVE  r.groups[i].members # {} /\ \A n \in r.groups[i].members : Has(r.nodes, n)
    <3>1. f.groups[i].members # {}
      BY <1>3 DEF GroupsHold, Apart, G
    <3> QED
      BY <1>13, <2>1, <2>2, <3>1
  <2>4. ASSUME NEW i \in 1..G, NEW j \in (1..G) \ {i}
        PROVE  r.groups[i].members \cap r.groups[j].members = {}
    <3>1. f.groups[i].members \cap f.groups[j].members = {}
      BY <1>3 DEF GroupsHold, Apart, G
    <3>2. ASSUME NEW n \in f.groups[i].members, NEW m \in f.groups[j].members, to[n] = to[m]
          PROVE  FALSE
      <4>1. n = m
        BY <1>12, <2>1, <3>2
      <4> QED
        BY <3>1, <4>1
    <3> QED
      BY <2>2, <3>2
  <2> QED
    BY <1>8, <2>3, <2>4 DEF GroupsHold, Apart
<1>20. r \in Fragments
  BY <1>2, <1>6, <1>7, <1>8, <1>9, <1>14, <1>17, <1>18, <1>19, AFragment
<1>21. ASSUME GraphWired(f) PROVE GraphWired(r)
  <2> DEFINE D == ToSet(f.edges)
             E == ToSet(r.edges)
             as == [e \in D |-> r.edges[IndexOf(f.edges, e.id)]]
  <2>1. \A i \in 1..Q : f.edges[i] \in D /\ as[f.edges[i]] = r.edges[i]
    <3> TAKE i \in 1..Q
    <3>1. f.edges[i] \in D
      BY <1>3 DEF ToSet, Q
    <3>2. IndexOf(f.edges, f.edges[i].id) = i
      BY <1>3, ItemAt DEF Q
    <3> QED
      BY <3>1, <3>2
  <2>2. \A e \in D : \E i \in 1..Q : e = f.edges[i]
    BY <1>3 DEF ToSet, Q
  <2>3. \A e \in E : \E i \in 1..Q : e = r.edges[i]
    BY <1>7 DEF ToSet
  <2> HIDE DEF D, E, as
  <2>4. Joins(D, I)
    BY <1>15, <2>2 DEF Joins
  <2>5. Renames(to, as, I, D, E)
    <3>1. \A e \in E : \E d \in D : e = as[d]
      BY <2>1, <2>3, ZenonT(60)
    <3>2. \A d \in D : /\ as[d].from = to[d.from] /\ as[d].to = to[d.to] /\ as[d].kind = d.kind
                       /\ as[d].in = d.in /\ as[d].out = d.out
      <4> TAKE d \in D
      <4>1. PICK i \in 1..Q : d = f.edges[i]
        BY <2>2
      <4>2. as[d] = r.edges[i]
        BY <2>1, <4>1
      <4> QED
        BY <1>7, <1>16, <4>1, <4>2
    <3> QED
      BY <1>12, <3>1, <3>2 DEF Renames
  <2>6. Joins(Data(D), I) /\ Renames(to, as, I, Data(D), Data(E))
    <3>1. Joins(Data(D), I)
      BY <2>4 DEF Joins, Data
    <3>2. \A e \in Data(E) : \E d \in Data(D) : e = as[d]
      <4> TAKE e \in Data(E)
      <4>1. PICK d \in D : e = as[d]
        BY <2>5 DEF Renames, Data
      <4>2. d \in Data(D)
        BY <2>5, <4>1 DEF Renames, Data
      <4> QED
        BY <4>1, <4>2
    <3> QED
      BY <2>5, <3>1, <3>2 DEF Renames, Data
  <2>7. OneEach(E)
    BY <1>21, <2>4, <2>5, OneEachRenamed DEF GraphWired, Wiring, D
  <2>8. Pure(ToSet(f.nodes)) \in SUBSET I
    BY DEF Pure, Ids, I
  <2>9. Acyclic({to[p] : p \in Pure(ToSet(f.nodes))}, Data(E))
    BY <1>21, <2>6, <2>8, AcyclicRenamed DEF GraphWired, Wiring, D
  <2>10. Pure(ToSet(r.nodes)) \subseteq {to[p] : p \in Pure(ToSet(f.nodes))}
    <3> SUFFICES ASSUME NEW i \in 1..P, r.nodes[i].type = "value"
                 PROVE  \E p \in Pure(ToSet(f.nodes)) : r.nodes[i].id = to[p]
      BY <1>6 DEF Pure, ToSet
    <3>1. f.nodes[i].id \in Pure(ToSet(f.nodes)) /\ f.nodes[i].id \in I
      BY <1>3, <1>6 DEF Pure, ToSet, Ids, I, P
    <3>2. IndexOf(f.nodes, f.nodes[i].id) = i
      BY <1>3, ItemAt DEF P
    <3> QED
      BY <1>6, <1>13, <3>1, <3>2
  <2>11. Acyclic(Pure(ToSet(r.nodes)), Data(E))
    BY <2>9, <2>10, AcyclicLess
  <2> QED
    BY <2>7, <2>11 DEF GraphWired, Wiring, E
<1> QED
  BY <1>1, <1>20, <1>21

LEMMA TemplateFacts ==
  /\ Template \in Fragments /\ GraphWired(Template)
<1>1. PICK t : t = Template
  OBVIOUS
<1>2. PICK a : a = Node(1, "value", NoGraph)
  OBVIOUS
<1>3. PICK b : b = Node(2, "step", NoGraph)
  OBVIOUS
<1> DEFINE nodes == << a, b >>
           e == [id |-> 3, kind |-> "data", from |-> 1, out |-> Result,
                           to |-> 2, in |-> Argument]
           x == [id |-> 4, members |-> {1, 2}]
<1>4. t = [nodes |-> nodes, edges |-> <<e>>, groups |-> <<x>>, hints |-> <<>>]
  BY <1>1, <1>2, <1>3 DEF Template
<1>5. /\ nodes \in Seq(Records["nodes"]) /\ Len(nodes) = 2 /\ DOMAIN nodes = {1, 2}
      /\ nodes[1].id = 1 /\ nodes[2].id = 2 /\ nodes[1].type = "value" /\ nodes[2].type = "step"
  <2>1. /\ a \in Records["nodes"] /\ a.id = 1 /\ a.type = "value"
        /\ b \in Records["nodes"] /\ b.id = 2 /\ b.type = "step"
    BY <1>2, <1>3 DEF Node, Records, Types, NoGraph
  <2>2. ASSUME NEW S, NEW y \in S, NEW z \in S
        PROVE  <<y, z>> \in Seq(S) /\ Len(<<y, z>>) = 2 /\ <<y, z>>[1] = y /\ <<y, z>>[2] = z
    OBVIOUS
  <2>3. nodes \in Seq(Records["nodes"]) /\ Len(nodes) = 2 /\ nodes[1] = a /\ nodes[2] = b
    BY <2>1, <2>2
  <2>4. DOMAIN nodes = 1..2
    BY <2>3
  <2>5. 1..2 = {1, 2}
    OBVIOUS
  <2> QED
    BY <2>1, <2>3, <2>4, <2>5
<1>6. e \in Records["edges"]
  <2>1. Result \in Ports
    BY DEF Ports, Result
  <2>2. Argument \in Ports
    BY DEF Ports, Argument
  <2> QED
    BY <2>1, <2>2 DEF Records
<1>7. x \in Records["groups"]
  BY DEF Records
<1> HIDE DEF nodes
<1>8. Distinct(nodes) /\ Has(nodes, 1) /\ Has(nodes, 2)
  BY <1>5 DEF Distinct, Has
<1> HIDE DEF e, x
<1>9. /\ <<e>> \in Seq(Records["edges"]) /\ DOMAIN <<e>> = {1} /\ <<e>>[1] = e
      /\ <<x>> \in Seq(Records["groups"]) /\ DOMAIN <<x>> = {1} /\ <<x>>[1] = x
      /\ <<>> \in Seq(Records["hints"]) /\ DOMAIN <<>> = {}
  <2>1. ASSUME NEW S, NEW y \in S
        PROVE  <<y>> \in Seq(S) /\ DOMAIN <<y>> = {1} /\ <<y>>[1] = y
    <3>1. <<y>> \in Seq(S) /\ Len(<<y>>) = 1 /\ <<y>>[1] = y
      OBVIOUS
    <3>2. DOMAIN <<y>> = 1..1 /\ 1..1 = {1}
      BY <3>1
    <3> QED
      BY <3>1, <3>2
  <2>2. <<>> \in Seq(Records["hints"]) /\ DOMAIN <<>> = {}
    OBVIOUS
  <2>3. <<e>> \in Seq(Records["edges"]) /\ DOMAIN <<e>> = {1} /\ <<e>>[1] = e
    BY <1>6, <2>1
  <2>4. <<x>> \in Seq(Records["groups"]) /\ DOMAIN <<x>> = {1} /\ <<x>>[1] = x
    BY <1>7, <2>1
  <2> QED
    BY <2>2, <2>3, <2>4
<1>10. e.from = 1 /\ e.to = 2 /\ x.members = {1, 2}
  BY DEF e, x
<1>11. Distinct(<<e>>) /\ Distinct(<<x>>) /\ Distinct(<<>>)
  BY <1>9 DEF Distinct
<1>12. t.nodes = nodes /\ t.edges = <<e>> /\ t.groups = <<x>> /\ t.hints = <<>>
  BY <1>4
<1>13. EdgesJoin(t)
  BY <1>8, <1>9, <1>10, <1>12 DEF EdgesJoin
<1>14. HintsMark(t)
  BY <1>9, <1>12 DEF HintsMark
<1>15. GroupsHold(t)
  BY <1>8, <1>9, <1>10, <1>12 DEF GroupsHold, Apart
<1>16. t \in Fragments
  BY <1>4, <1>5, <1>8, <1>9, <1>11, <1>13, <1>14, <1>15, AFragment
<1>17. GraphWired(t)
  <2>1. ToSet(t.edges) = {e}
    BY <1>9, <1>12 DEF ToSet
  <2>2. 2 \notin Pure(ToSet(t.nodes))
    BY <1>5, <1>12 DEF Pure, ToSet
  <2>3. OneEach({e})
    BY DEF OneEach
  <2>4. Acyclic(Pure(ToSet(t.nodes)), Data({e}))
    BY <1>10, <2>2 DEF Acyclic, Data
  <2> QED
    BY <2>1, <2>3, <2>4 DEF GraphWired, Wiring
<1> QED
  BY <1>1, <1>16, <1>17

-----------------------------------------------------------------------------
(* What the operations build.                                              *)

\* What an operation finds.
Standing(A) ==
  /\ A \in Families /\ EditingTyped /\ document \in A
  /\ A = WiredRecords => GraphWired(clipboard)
\* What it does.
Does(A) == \E cs, used : used \in Nat /\ Legal(document, cs, A) /\ Perform(cs, used)

LEMMA DoesCommands ==
  ASSUME NEW A, NEW cs, NEW used \in Nat, NEW P, document \in P, Takes(P, cs, A),
         Perform(cs, used)
  PROVE  Does(A)
BY DEF Does, Legal

LEMMA StandingGraph ==
  ASSUME NEW A, Standing(A), NEW g, Has(document.graphs, g), NEW x, x = Graph(document, g)
  PROVE  /\ A \in Families /\ Sound(document) /\ document \in A /\ minted \in Nat
         /\ x \in GraphRecords /\ x.id = g /\ g \in Nat /\ GraphIntact(x) /\ Suits(A, x)
         /\ Distinct(x.nodes) /\ document \in Within(g, ToSet(x.nodes), ToSet(x.edges), A)
<1>1. A \in Families /\ Sound(document) /\ document \in A /\ minted \in Nat
  BY DEF Standing, EditingTyped
<1>2. x \in GraphRecords /\ x.id = g /\ GraphIntact(x) /\ Suits(A, x)
  BY <1>1, GraphInFamily
<1>3. g \in Nat
  BY <1>2 DEF GraphRecords
<1>4. Distinct(x.nodes)
  BY <1>2 DEF GraphIntact
<1> QED
  BY <1>1, <1>2, <1>3, <1>4 DEF Within

LEMMA WithinWeaker ==
  ASSUME NEW g, NEW M, NEW D, NEW A, NEW E, D \subseteq E
  PROVE  Within(g, M, D, A) \subseteq Within(g, M, E, A) /\ Within(g, M, D, A) \subseteq A
BY DEF Within

LEMMA TakesLess ==
  ASSUME NEW P, NEW c, NEW Q, TakesOne(P, c, Q), NEW P1 \in SUBSET P, NEW Q1,
         P1 # {} => Q \subseteq Q1
  PROVE  TakesOne(P1, c, Q1)
BY DEF TakesOne

(* Where no document is, any commands fit.                                  *)
LEMMA TakesNone ==
  ASSUME NEW cs \in Seq(GraphCommands), NEW Q
  PROVE  Takes({}, cs, Q)
<1> DEFINE F == [i \in Nat |-> {}]
<1>1. \A i \in Nat : F[i] = {}
  OBVIOUS
<1>2. Len(cs) \in Nat /\ \A i \in 1..Len(cs) : i - 1 \in Nat
  OBVIOUS
<1> HIDE DEF F
<1>3. Leading(F, cs)
  BY <1>1, <1>2 DEF Leading
<1> QED
  BY <1>1, <1>2, <1>3 DEF Takes

(* Several removals of a list's elements.                                   *)
IsRemoval(cs, x, k, ids) ==
  /\ cs \in Seq(RemoveCommands)
  /\ \A i \in 1..Len(cs) : \E t \in ToSet(x[k]) :
       t.id \in ids /\ t.id \in Nat /\ cs[i] = RemoveItem(x.id, k, t.id)
  /\ \A t \in ToSet(x[k]) : t.id \in ids => \E i \in 1..Len(cs) : cs[i].id = t.id
LEMMA RemovalFacts ==
  ASSUME NEW x \in GraphRecords, NEW k \in Kinds, NEW ids
  PROVE  IsRemoval(RemoveAll(x, k, ids), x, k, ids)
<1> DEFINE K == Marked(x[k], ids)
<1>1. PICK items : items = Those(x[k], ids)
  OBVIOUS
<1>2. x[k] \in Seq(Records[k]) /\ DOMAIN x[k] = 1..Len(x[k]) /\ x.id \in Nat
  BY Lists DEF Kinds, GraphRecords
<1>3. K \in SUBSET (1..Len(x[k])) /\ \A j \in 1..Len(x[k]) : j \in K <=> x[k][j].id \in ids
  BY <1>2 DEF Marked
<1>4. items = Selected(x[k], K)
  BY <1>1, WithoutIsSelected
<1> HIDE DEF K
<1>5. IsPart(items, Records[k], x[k], K)
  BY <1>2, <1>3, <1>4, PartFacts
<1>6. /\ items \in Seq(Records[k]) /\ DOMAIN items = 1..Len(items) /\ Len(items) \in Nat
      /\ \A i \in 1..Len(items) : items[i] \in ToSet(x[k]) /\ items[i].id \in ids
      /\ \A t \in ToSet(x[k]) : t.id \in ids => \E i \in 1..Len(items) : items[i] = t
  <2>1. items \in Seq(Records[k]) /\ DOMAIN items = 1..Len(items)
    BY <1>5 DEF IsPart
  <2>2. ASSUME NEW i \in 1..Len(items) PROVE items[i] \in ToSet(x[k]) /\ items[i].id \in ids
    <3>1. PICK j \in K : items[i] = x[k][j]
      BY <1>5 DEF IsPart
    <3> QED
      BY <1>2, <1>3, <3>1 DEF ToSet
  <2>3. ASSUME NEW t \in ToSet(x[k]), t.id \in ids
        PROVE  \E i \in 1..Len(items) : items[i] = t
    <3>1. PICK j \in 1..Len(x[k]) : t = x[k][j]
      BY <1>2 DEF ToSet
    <3>2. j \in K
      BY <1>3, <2>3, <3>1
    <3> QED
      BY <1>5, <3>1, <3>2 DEF IsPart
  <2>4. Len(items) \in Nat
    BY <2>1
  <2> QED
    BY <2>1, <2>2, <2>3, <2>4
<1>7. \A i \in 1..Len(items) : items[i].id \in Nat
  BY <1>6, RecordIds
<1> DEFINE n == Len(items)
           s == [i \in 1..n |-> RemoveItem(x.id, k, items[i].id)]
<1>8. RemoveAll(x, k, ids) = s
  BY <1>1, <1>6 DEF RemoveAll
<1> HIDE DEF n
<1>9. s \in [1..n -> RemoveCommands] /\ n \in Nat
  BY <1>2, <1>6, <1>7, CommandTypes DEF n
<1>10. /\ \A i \in 1..n : s[i] = RemoveItem(x.id, k, items[i].id)
       /\ \A i \in 1..n : s[i].id = items[i].id
  BY DEF RemoveItem
<1> HIDE DEF s
<1>11. s \in Seq(RemoveCommands) /\ Len(s) = n
  BY <1>9, FunctionSequence
<1>12. \A t \in ToSet(x[k]) : t.id \in ids => \E i \in 1..Len(s) : s[i].id = t.id
  <2> TAKE t \in ToSet(x[k])
  <2> HAVE t.id \in ids
  <2>1. PICK i \in 1..n : items[i] = t
    BY <1>6 DEF n
  <2> QED
    BY <1>10, <1>11, <2>1
<1>13. \A i \in 1..Len(s) : \E t \in ToSet(x[k]) :
         t.id \in ids /\ t.id \in Nat /\ s[i] = RemoveItem(x.id, k, t.id)
  <2> TAKE i \in 1..Len(s)
  <2>1. i \in 1..n /\ i \in 1..Len(items)
    BY <1>11 DEF n
  <2>2. items[i] \in ToSet(x[k])
    BY <1>6, <2>1
  <2>3. items[i].id \in ids /\ items[i].id \in Nat /\ s[i] = RemoveItem(x.id, k, items[i].id)
    BY <1>6, <1>7, <1>10, <2>1
  <2> QED
    BY <2>2, <2>3
<1>14. IsRemoval(s, x, k, ids)
  BY <1>11, <1>12, <1>13 DEF IsRemoval
<1> QED
  BY <1>8, <1>14

LEMMA RemovalTyped == Seq(RemoveCommands) \subseteq Seq(GraphCommands)
<1> RemoveCommands \subseteq GraphCommands
  BY DEF GraphCommands
<1> QED
  OBVIOUS

(* Removing edges leaves those that were not named.                         *)
LEMMA EdgesRemoved ==
  ASSUME NEW A \in Families, NEW x \in GraphRecords, NEW ids, NEW M, NEW D \in SUBSET ToSet(x.edges)
  PROVE  Takes(Within(x.id, M, D, A), RemoveAll(x, "edges", ids),
               Within(x.id, M, {t \in D : t.id \notin ids}, A))
<1> DEFINE cs == RemoveAll(x, "edges", ids)
           n == Len(cs)
           E(i) == {t \in D : \A j \in 1..i : t.id # cs[j].id}
           F == [i \in 0..n |-> Within(x.id, M, E(i), A)]
<1>1. IsRemoval(cs, x, "edges", ids)
  BY RemovalFacts DEF Kinds
<1>2. x.id \in Nat /\ x["edges"] = x.edges
  BY DEF GraphRecords
<1> HIDE DEF cs
<1>3. cs \in Seq(GraphCommands) /\ n \in Nat
  BY <1>1, RemovalTyped DEF IsRemoval
<1>4. 0 \in 0..n /\ n \in 0..n
  BY <1>3
<1>5. F[0] = Within(x.id, M, E(0), A) /\ F[n] = Within(x.id, M, E(n), A)
  BY <1>4
<1>6. \A i \in 1..n : F[i - 1] = Within(x.id, M, E(i - 1), A) /\ F[i] = Within(x.id, M, E(i), A)
  <2> TAKE i \in 1..n
  <2>1. i - 1 \in 0..n /\ i \in 0..n
    BY <1>3
  <2> QED
    BY <2>1
<1> HIDE DEF F, n
<1>7. E(0) = D /\ E(n) \subseteq {t \in D : t.id \notin ids}
  BY <1>1 DEF IsRemoval, n
<1>8. \A i \in 1..n : TakesOne(F[i - 1], cs[i], F[i])
  <2> TAKE i \in 1..n
  <2>1. PICK id \in Nat : cs[i] = RemoveItem(x.id, "edges", id)
    BY <1>1 DEF IsRemoval, n
  <2>2. cs[i].id = id
    BY <2>1 DEF RemoveItem
  <2>3. \A t \in E(i - 1) : t.id # id => t \in E(i)
    <3>1. \A j \in 1..i : j \in 1..i - 1 \/ j = i
      BY <1>3
    <3> QED
      BY <2>2, <3>1
  <2> HIDE DEF E
  <2>4. TakesOne(Within(x.id, M, E(i - 1), A), RemoveItem(x.id, "edges", id), Within(x.id, M, E(i), A))
    BY <1>2, <2>3, EdgeCut
  <2> QED
    BY <1>6, <2>1, <2>4
<1> HIDE DEF E
<1>9. Takes(F[0], cs, F[n])
  BY <1>3, <1>8, TakesEach DEF n
<1>10. F[n] \subseteq Within(x.id, M, {t \in D : t.id \notin ids}, A)
  BY <1>5, <1>7, WithinWeaker
<1>11. Takes(F[0], cs, Within(x.id, M, {t \in D : t.id \notin ids}, A))
  BY <1>9, <1>10, TakesWeaker
<1> QED
  BY <1>5, <1>7, <1>11 DEF cs

LEMMA NodesRemoved ==
  ASSUME NEW A \in Families, NEW x \in GraphRecords, NEW ids
  PROVE  Takes(A, RemoveAll(x, "nodes", ids), A)
<1>1. PICK cs : cs = RemoveAll(x, "nodes", ids)
  OBVIOUS
<1>2. IsRemoval(cs, x, "nodes", ids) /\ x.id \in Nat
  BY <1>1, RemovalFacts DEF Kinds, GraphRecords
<1>3. cs \in Seq(RemoveCommands)
  BY <1>2 DEF IsRemoval
<1>4. \A i \in 1..Len(cs) : TakesOne(A, cs[i], A)
  BY <1>2, NodeCut DEF IsRemoval
<1> QED
  BY <1>1, <1>3, <1>4, TakesKeeping

(* Edges removed while the nodes stay as pure as they were.                 *)
LEMMA EdgesRemovedSame ==
  ASSUME NEW A \in Families, NEW d, NEW x \in GraphRecords, NEW ids
  PROVE  Takes(Same(d, A), RemoveAll(x, "edges", ids), Same(d, A))
<1>1. PICK cs : cs = RemoveAll(x, "edges", ids)
  OBVIOUS
<1>2. IsRemoval(cs, x, "edges", ids) /\ x.id \in Nat
  BY <1>1, RemovalFacts DEF Kinds, GraphRecords
<1>3. cs \in Seq(RemoveCommands)
  BY <1>2 DEF IsRemoval
<1>4. \A i \in 1..Len(cs) : TakesOne(Same(d, A), cs[i], Same(d, A))
  BY <1>2, EdgeCutSame DEF IsRemoval
<1> QED
  BY <1>1, <1>3, <1>4, TakesKeeping

-----------------------------------------------------------------------------
(* Ports, and what the connection rules say of a graph's wiring.           *)

LEMMA ParameterPortsTyped ==
  ASSUME NEW x \in GraphRecords
  PROVE  ParameterPorts(x) \subseteq Ports
<1>1. ASSUME NEW p \in ToSet(x.parameters) PROVE ParameterPort(p) \in Ports
  <2>1. p \in Nat
    BY DEF ToSet, GraphRecords
  <2> QED
    BY <2>1 DEF ParameterPort, Ports
<1> QED
  BY <1>1 DEF ParameterPorts

LEMMA PortsTyped ==
  /\ Run \in Ports /\ NextPort \in Ports /\ Argument \in Ports /\ Result \in Ports
BY DEF Run, NextPort, Argument, Result, Ports

LEMMA OutputsTyped ==
  ASSUME NEW x \in GraphRecords, NEW n
  PROVE  Outputs(x, n) \subseteq Ports
<1>1. ParameterPorts(x) \subseteq Ports /\ {Result} \subseteq Ports /\ {NextPort} \subseteq Ports
  BY ParameterPortsTyped, PortsTyped
<1>2. DataOutputs(x, n) \subseteq Ports
  BY <1>1 DEF DataOutputs
<1>3. RunOutputs(n) \subseteq Ports
  BY <1>1 DEF RunOutputs
<1> QED
  BY <1>2, <1>3 DEF Outputs

LEMMA InputsTyped ==
  ASSUME NEW d \in DocumentRecords, NEW n
  PROVE  Inputs(d, n) \subseteq Ports /\ DataInputs(d, n) \subseteq Ports
<1>1. CallPorts(d, n) \subseteq Ports
  <2> SUFFICES ASSUME n.target \in Functions(d) PROVE ParameterPorts(Graph(d, n.target)) \subseteq Ports
    BY DEF CallPorts
  <2>1. d.graphs \in Seq(GraphRecords) /\ Has(d.graphs, n.target)
    BY DEF Functions, GraphIds, Has, DocumentRecords
  <2>2. Graph(d, n.target) \in GraphRecords
    BY <2>1, ItemFacts DEF Graph
  <2> QED
    BY <2>2, ParameterPortsTyped
<1>2. {Argument} \subseteq Ports /\ {Run} \subseteq Ports
  BY PortsTyped
<1>3. DataInputs(d, n) \subseteq Ports
  BY <1>1, <1>2 DEF DataInputs
<1>4. RunInputs(n) \subseteq Ports
  BY <1>2 DEF RunInputs
<1> QED
  BY <1>3, <1>4 DEF Inputs

LEMMA NodesTyped ==
  ASSUME NEW x \in GraphRecords, NEW n \in ToSet(x.nodes)
  PROVE  n \in Records["nodes"] /\ n.id \in Nat /\ n.id \in Ids(ToSet(x.nodes))
<1>1. n \in Records["nodes"]
  BY Lists DEF ToSet
<1> QED
  BY <1>1, RecordIds DEF Kinds, Ids

LEMMA EdgesTyped ==
  ASSUME NEW x \in GraphRecords, NEW t \in ToSet(x.edges)
  PROVE  t \in Records["edges"] /\ t.id \in Nat
<1>1. t \in Records["edges"]
  BY Lists DEF ToSet
<1> QED
  BY <1>1, RecordIds DEF Kinds

\* A connection between nodes of the graph.
IsConnection(x, c) ==
  /\ c.from \in Nat /\ c.to \in Nat /\ c.out \in Ports /\ c.in \in Ports
  /\ c.from \in Ids(ToSet(x.nodes)) /\ c.to \in Ids(ToSet(x.nodes))
LEMMA CandidateFacts ==
  ASSUME NEW d \in DocumentRecords, NEW x \in GraphRecords, NEW c \in Candidates(d, x)
  PROVE  IsConnection(x, c) /\ Accepted(d, x, c)
<1>1. Accepted(d, x, c)
  BY DEF Candidates
<1> DEFINE Between(n, m) == [from : {n.id}, out : Outputs(x, n), to : {m.id}, in : Inputs(d, m)]
<1>2. c \in UNION {Between(n, m) : n, m \in ToSet(x.nodes)}
  BY DEF Candidates
<1> HIDE DEF Between
<1>3. PICK n, m \in ToSet(x.nodes) : c \in Between(n, m)
  BY <1>2
<1>4. c \in [from : {n.id}, out : Outputs(x, n), to : {m.id}, in : Inputs(d, m)]
  BY <1>3 DEF Between
<1>5. c.from = n.id /\ c.to = m.id /\ c.out \in Outputs(x, n) /\ c.in \in Inputs(d, m)
  BY <1>4
<1>6. c.out \in Ports /\ c.in \in Ports
  BY <1>5, OutputsTyped, InputsTyped
<1> QED
  BY <1>1, <1>5, <1>6, NodesTyped DEF IsConnection

LEMMA EdgeFacts ==
  ASSUME NEW x, NEW c, IsConnection(x, c), NEW id \in Nat, NEW kind \in {"execution", "data"},
         NEW t, t = Edge(id, kind, c)
  PROVE  /\ t \in Records["edges"] /\ t.id = id /\ t.kind = kind
         /\ t.from = c.from /\ t.to = c.to /\ t.out = c.out /\ t.in = c.in
BY DEF Edge, Records, IsConnection

LEMMA KindTyped == \A c : Kind(c) \in {"execution", "data"}
BY DEF Kind

(* The pure nodes, as the rules and as the graph have them.                 *)
LEMMA PureIsPure ==
  ASSUME NEW x \in GraphRecords, Distinct(x.nodes)
  PROVE  /\ PureNodes(x) = Pure(ToSet(x.nodes))
         /\ \A n \in ToSet(x.nodes) : n.type = "value" <=> n.id \in Pure(ToSet(x.nodes))
<1>1. /\ x.nodes \in Seq(Records["nodes"]) /\ DOMAIN x.nodes = 1..Len(x.nodes)
      /\ Distinct(x.nodes)
  BY Lists
<1>2. \A i \in 1..Len(x.nodes) : Item(x.nodes, x.nodes[i].id) = x.nodes[i]
  BY <1>1, ItemAt
<1>3. \A n \in ToSet(x.nodes) : Item(x.nodes, n.id) = n
  BY <1>1, <1>2 DEF ToSet
<1>4. NodeIds(x) = {n.id : n \in ToSet(x.nodes)}
  BY DEF NodeIds, ToSet
<1>5. ASSUME NEW p \in PureNodes(x) PROVE p \in Pure(ToSet(x.nodes))
  <2>1. PICK n \in ToSet(x.nodes) : p = n.id
    BY <1>4 DEF PureNodes
  <2>2. n.type = "value"
    BY <1>3, <2>1 DEF PureNodes
  <2> QED
    BY <2>1, <2>2 DEF Pure
<1>6. ASSUME NEW p \in Pure(ToSet(x.nodes)) PROVE p \in PureNodes(x)
  <2>1. PICK n \in ToSet(x.nodes) : p = n.id /\ n.type = "value"
    BY DEF Pure
  <2> QED
    BY <1>3, <1>4, <2>1 DEF PureNodes
<1>7. ASSUME NEW n \in ToSet(x.nodes), n.id \in Pure(ToSet(x.nodes)) PROVE n.type = "value"
  <2>1. PICK m \in ToSet(x.nodes) : n.id = m.id /\ m.type = "value"
    BY <1>7 DEF Pure
  <2>2. n = m
    BY <1>3, <2>1
  <2> QED
    BY <2>1, <2>2
<1>8. \A n \in ToSet(x.nodes) : n.type = "value" => n.id \in Pure(ToSet(x.nodes))
  BY DEF Pure
<1> QED
  BY <1>5, <1>6, <1>7, <1>8

(* What "depends on" means for the wiring.                                  *)
LEMMA DependsFacts ==
  ASSUME NEW x \in GraphRecords, Distinct(x.nodes), NEW n, NEW m,
         NEW P, P = Pure(ToSet(x.nodes)), n \in P
  PROVE  ~DependsOn(x, n, m) <=>
           \E S \in SUBSET P : Closed(S, P, Data(ToSet(x.edges))) /\ n \in S /\ m \notin S
<1>1. PureNodes(x) = P /\ DataEdges(x) = Data(ToSet(x.edges))
  BY PureIsPure DEF DataEdges, Data
<1> QED
  BY <1>1 DEF DependsOn, Closed

(* An edge that takes a free place, and that the rules accept.              *)
LEMMA EdgePlaced ==
  ASSUME NEW x \in GraphRecords, Distinct(x.nodes), NEW M, M = ToSet(x.nodes),
         NEW D \in SUBSET ToSet(x.edges), Wiring(M, D), NEW c, NEW id,
         \A e \in D : e.id \notin Displaced(x, c),
         Kind(c) = "data" => ~DependsOn(x, c.from, c.to),
         NEW t, t.id = id, t.kind = Kind(c), t.from = c.from, t.to = c.to, t.out = c.out, t.in = c.in
  PROVE  Wiring(M, D \cup {t})
<1>1. OneEach(D) /\ Acyclic(Pure(M), Data(D))
  BY DEF Wiring
<1>2. ASSUME NEW e \in D, SamePlace(e, t) \/ SamePlace(t, e) PROVE FALSE
  <2>1. e \in ToSet(x.edges) /\ e.id \notin Displaced(x, c)
    OBVIOUS
  <2>2. CASE t.kind = "data"
    <3>1. Kind(c) # "execution" /\ e.to = c.to /\ e.in = c.in
      BY <1>2, <2>2 DEF SamePlace
    <3> QED
      BY <2>1, <3>1 DEF Displaced
  <2>3. CASE t.kind # "data"
    <3>1. Kind(c) = "execution" /\ e.from = c.from /\ e.out = c.out
      BY <1>2, <2>3, KindTyped DEF SamePlace
    <3> QED
      BY <2>1, <3>1 DEF Displaced
  <2> QED
    BY <2>2, <2>3
<1>3. OneEach(D \cup {t})
  BY <1>1, <1>2 DEF OneEach
<1>4. Acyclic(Pure(M), Data(D \cup {t}))
  <2>1. CASE t.kind # "data"
    <3>1. Data(D \cup {t}) = Data(D)
      BY <2>1 DEF Data
    <3> QED
      BY <1>1, <3>1
  <2>2. CASE t.kind = "data"
    <3>1. Data(D \cup {t}) = Data(D) \cup {t}
      BY <2>2 DEF Data
    <3>2. ASSUME t.from \in Pure(M), t.to \in Pure(M)
          PROVE  \E S \in SUBSET Pure(M) :
                   Closed(S, Pure(M), Data(D)) /\ t.from \in S /\ t.to \notin S
      <4>1. PICK S \in SUBSET Pure(M) :
              Closed(S, Pure(M), Data(ToSet(x.edges))) /\ t.from \in S /\ t.to \notin S
        BY <2>2, <3>2, DependsFacts
      <4>2. Closed(S, Pure(M), Data(D))
        BY <4>1 DEF Closed, Data
      <4> QED
        BY <4>1, <4>2
    <3>3. Acyclic(Pure(M), Data(D) \cup {t})
      BY <1>1, <3>2, AcyclicAdd
    <3> QED
      BY <3>1, <3>3
  <2> QED
    BY <2>1, <2>2
<1> QED
  BY <1>3, <1>4 DEF Wiring
-----------------------------------------------------------------------------
(* The canvas: nodes and connections.                                      *)

LEMMA AddNodeDoes ==
  ASSUME NEW A, Standing(A), NEW g, Has(document.graphs, g), NEW n \in Records["nodes"],
         NEW used \in Nat, Perform(<< AddItem(g, "nodes", n) >>, used)
  PROVE  Does(A)
<1>1. PICK x : x = Graph(document, g)
  OBVIOUS
<1> DEFINE M == ToSet(x.nodes)
           D == ToSet(x.edges)
<1>2. A \in Families /\ g \in Nat /\ document \in Within(g, M, D, A)
  BY <1>1, StandingGraph
<1> HIDE DEF M, D
<1>3. Within(g, M \cup {n}, D, A) \subseteq A
  BY WithinWeaker
<1>4. TakesOne(Within(g, M, D, A), AddItem(g, "nodes", n), A)
  BY <1>2, <1>3, NodeAdded
<1>5. Takes(Within(g, M, D, A), << AddItem(g, "nodes", n) >>, A)
  BY <1>4, TakesOneCommand
<1> QED
  BY <1>2, <1>5, DoesCommands

LEMMA NodeTyped ==
  ASSUME NEW id \in Nat, NEW type \in Types, NEW target \in Nat
  PROVE  Node(id, type, target) \in Records["nodes"]
BY DEF Node, Records

LEMMA InsertNodeDoes ==
  ASSUME NEW A, Standing(A), NEW g, Has(document.graphs, g), NEW type \in {"step", "value"},
         InsertNode(g, type)
  PROVE  Does(A)
<1>1. minted + 1 \in Nat /\ NoGraph \in Nat /\ type \in Types
  BY DEF Standing, EditingTyped, NoGraph, Types
<1>2. Node(minted + 1, type, NoGraph) \in Records["nodes"]
  BY <1>1, NodeTyped
<1> QED
  BY <1>2, AddNodeDoes DEF InsertNode

LEMMA InsertCallDoes ==
  ASSUME NEW A, Standing(A), NEW g, Has(document.graphs, g), NEW f \in Functions(document),
         InsertCall(g, f)
  PROVE  Does(A)
<1>1. minted + 1 \in Nat /\ "call" \in Types
  BY DEF Standing, EditingTyped, Types
<1>2. f \in Nat
  <2>1. Has(document.graphs, f)
    BY DEF Functions, GraphIds, Has
  <2> QED
    BY <2>1, StandingGraph
<1>3. Node(minted + 1, "call", f) \in Records["nodes"]
  BY <1>1, <1>2, NodeTyped
<1>4. Perform(<< AddItem(g, "nodes", Node(minted + 1, "call", f)) >>, 1)
  BY DEF InsertCall
<1> QED
  BY <1>3, <1>4, AddNodeDoes

(* A node that stays pure, or not, as it was.                               *)
LEMMA DocumentIsSame ==
  ASSUME NEW A, Standing(A)
  PROVE  document \in Same(document, A) /\ Same(document, A) \subseteq A
BY DEF Same, Standing

LEMMA NodeChanged ==
  ASSUME NEW A, Standing(A), NEW x \in GraphRecords, Has(document.graphs, x.id),
         Graph(document, x.id) = x, NEW n \in ToSet(x.nodes),
         NEW item \in Records["nodes"], item.id = n.id, item.type = n.type
  PROVE  TakesOne(Same(document, A), ReplaceItem(x.id, "nodes", item), Same(document, A))
<1>1. A \in Families /\ x.id \in Nat /\ Distinct(x.nodes)
  BY StandingGraph
<1>2. item.type = "value" <=> item.id \in Pure(ToSet(x.nodes))
  BY <1>1, PureIsPure
<1> QED
  BY <1>1, <1>2, NodeReplaced

LEMMA LiteralsChanged ==
  ASSUME NEW n \in Records["nodes"], NEW literals \in SUBSET Ports
  PROVE  LET item == [n EXCEPT !.literals = literals] IN
         item \in Records["nodes"] /\ item.id = n.id /\ item.type = n.type
BY DEF Records

LEMMA SetInputValueDoes ==
  ASSUME NEW A, Standing(A), NEW g, Has(document.graphs, g),
         NEW n \in ToSet(Graph(document, g).nodes), NEW port \in DataInputs(document, n),
         SetInputValue(g, n, port)
  PROVE  Does(A)
<1>1. PICK x : x = Graph(document, g)
  OBVIOUS
<1>2. x \in GraphRecords /\ x.id = g /\ A \in Families /\ document \in DocumentRecords
  BY <1>1, StandingGraph DEF Sound
<1>3. n \in Records["nodes"]
  BY <1>1, <1>2, NodesTyped
<1>4. port \in Ports
  BY <1>2, InputsTyped
<1> DEFINE literals == IF port \in n.literals THEN n.literals \ {port} ELSE n.literals \cup {port}
<1>5. literals \in SUBSET Ports
  BY <1>3, <1>4 DEF Records
<1>6. Perform(<< ReplaceItem(g, "nodes", [n EXCEPT !.literals = literals]) >>, 0)
  BY DEF SetInputValue
<1> HIDE DEF literals
<1>7. PICK item : item = [n EXCEPT !.literals = literals]
  OBVIOUS
<1>8. item \in Records["nodes"] /\ item.id = n.id /\ item.type = n.type
  BY <1>3, <1>5, <1>7, LiteralsChanged
<1>9. TakesOne(Same(document, A), ReplaceItem(g, "nodes", item), Same(document, A))
  BY <1>1, <1>2, <1>8, NodeChanged
<1>10. Takes(Same(document, A), << ReplaceItem(g, "nodes", item) >>, Same(document, A))
  BY <1>9, TakesOneCommand
<1>11. Takes(Same(document, A), << ReplaceItem(g, "nodes", item) >>, A)
  BY <1>10, DocumentIsSame, TakesWeaker
<1> QED
  BY <1>6, <1>7, <1>11, DocumentIsSame, DoesCommands

(* Edges removed to make room, and one put in their place.                  *)
LEMMA RoomMade ==
  ASSUME NEW A, Standing(A), NEW g, Has(document.graphs, g), NEW x, x = Graph(document, g),
         NEW ids, NEW c, IsConnection(x, c), Displaced(x, c) \subseteq ids,
         Kind(c) = "data" => ~DependsOn(x, c.from, c.to),
         NEW t, t = Edge(minted + 1, Kind(c), c)
  PROVE  /\ document \in Within(g, ToSet(x.nodes), ToSet(x.edges), A)
         /\ \E D : Takes(Within(g, ToSet(x.nodes), ToSet(x.edges), A),
                         Append(RemoveAll(x, "edges", ids), AddItem(g, "edges", t)),
                         Within(g, ToSet(x.nodes), D, A))
<1> DEFINE M == ToSet(x.nodes)
           D == ToSet(x.edges)
           E == {e \in D : e.id \notin ids}
<1>1. /\ A \in Families /\ minted \in Nat /\ g \in Nat /\ document \in Within(g, M, D, A)
      /\ x \in GraphRecords /\ x.id = g /\ Distinct(x.nodes) /\ Suits(A, x)
  BY StandingGraph
<1>2. minted + 1 \in Nat /\ Kind(c) \in {"execution", "data"}
  BY <1>1, KindTyped
<1>3. /\ t \in Records["edges"] /\ t.id = minted + 1 /\ t.kind = Kind(c)
      /\ t.from = c.from /\ t.to = c.to /\ t.out = c.out /\ t.in = c.in
  BY <1>2, EdgeFacts
<1>4. t.from \in Ids(M) /\ t.to \in Ids(M)
  BY <1>3 DEF IsConnection
<1>5. E \in SUBSET D /\ \A e \in E : e.id \notin Displaced(x, c)
  OBVIOUS
<1>6. Takes(Within(g, M, D, A), RemoveAll(x, "edges", ids), Within(g, M, E, A))
  BY <1>1, EdgesRemoved
<1> HIDE DEF E
<1>7. A = WiredRecords => Wiring(M, E \cup {t})
  <2> SUFFICES ASSUME A = WiredRecords PROVE Wiring(M, E \cup {t})
    OBVIOUS
  <2>1. Wiring(M, D)
    BY <1>1 DEF Suits, GraphWired
  <2>2. Wiring(M, E)
    BY <1>5, <2>1, WiringLess
  <2> QED
    BY <1>1, <1>3, <1>5, <2>2, EdgePlaced
<1> HIDE DEF M, D
<1>8. TakesOne(Within(g, M, E, A), AddItem(g, "edges", t), Within(g, M, E \cup {t}, A))
  BY <1>1, <1>3, <1>4, <1>7, EdgeAdded
<1>9. PICK F : F = E \cup {t}
  OBVIOUS
<1>10. Takes(Within(g, M, D, A), Append(RemoveAll(x, "edges", ids), AddItem(g, "edges", t)),
             Within(g, M, F, A))
  BY <1>6, <1>8, <1>9, TakesThen
<1> QED
  BY <1>1, <1>10 DEF M, D

LEMMA AcceptedFacts ==
  ASSUME NEW d, NEW x, NEW c, Accepted(d, x, c)
  PROVE  Kind(c) = "data" => ~DependsOn(x, c.from, c.to)
BY DEF Accepted

LEMMA ConnectDoes ==
  ASSUME NEW A, Standing(A), NEW g, Has(document.graphs, g),
         NEW c \in Candidates(document, Graph(document, g)), NEW ids, NEW cs,
         Displaced(Graph(document, g), c) \subseteq ids,
         cs = Append(RemoveAll(Graph(document, g), "edges", ids),
                     AddItem(g, "edges", Edge(minted + 1, Kind(c), c))),
         Perform(cs, 1)
  PROVE  Does(A)
<1>1. PICK x : x = Graph(document, g)
  OBVIOUS
<1>2. x \in GraphRecords /\ document \in DocumentRecords
  BY <1>1, StandingGraph DEF Sound
<1>3. IsConnection(x, c) /\ Accepted(document, x, c)
  BY <1>1, <1>2, CandidateFacts
<1>4. PICK t : t = Edge(minted + 1, Kind(c), c)
  OBVIOUS
<1>5. PICK P : P = Within(g, ToSet(x.nodes), ToSet(x.edges), A)
  OBVIOUS
<1>6. /\ document \in P
      /\ \E D : Takes(P, Append(RemoveAll(x, "edges", ids), AddItem(g, "edges", t)),
                      Within(g, ToSet(x.nodes), D, A))
  BY <1>1, <1>3, <1>4, <1>5, AcceptedFacts, RoomMade
<1>7. PICK D : Takes(P, cs, Within(g, ToSet(x.nodes), D, A))
  BY <1>1, <1>4, <1>6
<1>8. Takes(P, cs, A)
  BY <1>7, WithinWeaker, TakesWeaker
<1> QED
  BY <1>6, <1>8, DoesCommands

LEMMA AppendTwo ==
  ASSUME NEW T, NEW s \in Seq(T), NEW a, NEW b
  PROVE  s \o <<a, b>> = Append(Append(s, a), b)
OBVIOUS

LEMMA RepeatDoes ==
  ASSUME NEW A, Standing(A), NEW g, Has(document.graphs, g),
         NEW c \in Candidates(document, Graph(document, g)), Repeat(g, c)
  PROVE  Does(A)
<1>1. PICK x : x = Graph(document, g)
  OBVIOUS
<1>2. x \in GraphRecords /\ document \in DocumentRecords /\ A \in Families /\ g \in Nat /\ minted \in Nat
  BY <1>1, StandingGraph DEF Sound
<1>3. IsConnection(x, c) /\ Accepted(document, x, c)
  BY <1>1, <1>2, CandidateFacts
<1>4. PICK t : t = Edge(minted + 1, Kind(c), c)
  OBVIOUS
<1>5. PICK P : P = Within(g, ToSet(x.nodes), ToSet(x.edges), A)
  OBVIOUS
<1>6. PICK ids : ids = Displaced(x, c)
  OBVIOUS
<1>7. PICK r : r = RemoveAll(x, "edges", ids)
  OBVIOUS
<1>8. PICK a : a = AddItem(g, "edges", t)
  OBVIOUS
<1>9. PICK h : h = [id |-> minted + 2, edge |-> minted + 1]
  OBVIOUS
<1>10. PICK b : b = AddItem(g, "hints", h)
  OBVIOUS
<1>11. document \in P /\ \E D : Takes(P, Append(r, a), Within(g, ToSet(x.nodes), D, A))
  <2>1. Displaced(x, c) \subseteq ids
    BY <1>6
  <2> QED
    BY <1>1, <1>3, <1>4, <1>5, <1>7, <1>8, <2>1, AcceptedFacts, RoomMade
<1>12. PICK D : Takes(P, Append(r, a), Within(g, ToSet(x.nodes), D, A))
  BY <1>11
<1>13. Perform(r \o <<a, b>>, 2)
  <2>1. Kind(c) = "execution"
    BY DEF Repeat
  <2>2. a = AddItem(g, "edges", Edge(minted + 1, "execution", c))
    BY <1>4, <1>8, <2>1
  <2> QED
    BY <1>1, <1>6, <1>7, <1>9, <1>10, <2>2 DEF Repeat
<1>14. r \o <<a, b>> = Append(Append(r, a), b)
  <2>1. r \in Seq(RemoveCommands)
    BY <1>2, <1>7, RemovalFacts DEF IsRemoval, Kinds
  <2> QED
    BY <2>1, AppendTwo
<1>15. TakesOne(Within(g, ToSet(x.nodes), D, A), b, Within(g, ToSet(x.nodes), D, A))
  <2>1. h \in Records["hints"]
    BY <1>2, <1>9 DEF Records
  <2> QED
    BY <1>2, <1>10, <2>1, MarkAdded
<1>16. Takes(P, Append(Append(r, a), b), Within(g, ToSet(x.nodes), D, A))
  BY <1>12, <1>15, TakesThen
<1>17. Takes(P, Append(Append(r, a), b), A)
  BY <1>16, WithinWeaker, TakesWeaker
<1> QED
  BY <1>11, <1>13, <1>14, <1>17, DoesCommands

LEMMA RemoveRepeatDoes ==
  ASSUME NEW A, Standing(A), NEW g, Has(document.graphs, g), NEW x, x = Graph(document, g),
         NEW i \in DOMAIN x.hints, RemoveRepeat(g, x.hints[i].id)
  PROVE  Does(A)
<1>1. x \in GraphRecords /\ A \in Families /\ g \in Nat /\ document \in A
  BY StandingGraph
<1>2. PICK h \in Nat : h = x.hints[i].id
  <2>1. x.hints[i] \in Records["hints"]
    BY <1>1, Lists
  <2> QED
    BY <2>1, RecordIds DEF Kinds
<1>3. TakesOne(A, RemoveItem(g, "hints", h), A)
  BY <1>1, HintCut
<1>4. Takes(A, << RemoveItem(g, "hints", h) >>, A)
  BY <1>3, TakesOneCommand
<1>5. Perform(<< RemoveItem(g, "hints", h) >>, 0)
  BY <1>2 DEF RemoveRepeat
<1> QED
  BY <1>1, <1>4, <1>5, DoesCommands

LEMMA RemoveEdgesDoes ==
  ASSUME NEW A, Standing(A), NEW g, Has(document.graphs, g), NEW S, RemoveEdges(g, S)
  PROVE  Does(A)
<1>1. PICK x : x = Graph(document, g)
  OBVIOUS
<1>2. A \in Families /\ x \in GraphRecords
  BY <1>1, StandingGraph
<1>3. Takes(Same(document, A), RemoveAll(x, "edges", S), Same(document, A))
  BY <1>2, EdgesRemovedSame
<1>4. Takes(Same(document, A), RemoveAll(x, "edges", S), A)
  BY <1>3, DocumentIsSame, TakesWeaker
<1> QED
  BY <1>1, <1>4, DocumentIsSame, DoesCommands DEF RemoveEdges

LEMMA RemoveNodesDoes ==
  ASSUME NEW A, Standing(A), NEW g, Has(document.graphs, g), NEW S, RemoveNodes(g, S)
  PROVE  Does(A)
<1>1. PICK x : x = Graph(document, g)
  OBVIOUS
<1>2. A \in Families /\ x \in GraphRecords /\ document \in A
  BY <1>1, StandingGraph
<1>3. Takes(A, RemoveAll(x, "nodes", S), A)
  BY <1>2, NodesRemoved
<1> QED
  BY <1>1, <1>2, <1>3, DoesCommands DEF RemoveNodes
-----------------------------------------------------------------------------
(* The canvas: the edges of a port moved to another.                       *)

Moves == INSTANCE ListFacts WITH Step <- MoveOne

LEMMA AppendedSet ==
  ASSUME NEW T, NEW s \in Seq(T), NEW e \in T
  PROVE  Append(s, e) \in Seq(T) /\ ToSet(Append(s, e)) = ToSet(s) \cup {e}
<1>1. AtEnd \in Nat /\ Inserted(s, e, AtEnd) = Append(s, e)
  BY DEF Inserted, AtEnd
<1>2. ToSet(Inserted(s, e, AtEnd)) = ToSet(s) \cup {e}
  BY <1>1, InsertedSet, ZenonT(60)
<1> QED
  BY <1>1, <1>2, AppendProperties

LEMMA EdgesChanged ==
  ASSUME NEW x \in GraphRecords, NEW s \in Seq(Records["edges"]), NEW y, y = [x EXCEPT !.edges = s]
  PROVE  y \in GraphRecords /\ y.edges = s /\ y.nodes = x.nodes /\ y.id = x.id
BY DEF GraphRecords

\* What moving some edges of graph x has built: commands, and the graph they
\* lead to.
Built(x, A) ==
  {v \in [ok : BOOLEAN, commands : Seq(GraphCommands), graph : GraphRecords] :
     v.ok => /\ v.graph.id = x.id /\ v.graph.nodes = x.nodes /\ Suits(A, v.graph)
             /\ Takes(Within(x.id, ToSet(x.nodes), ToSet(x.edges), A), v.commands,
                      Within(x.id, ToSet(x.nodes), ToSet(v.graph.edges), A))}

LEMMA EdgesTaken ==
  ASSUME NEW A \in Families, NEW x \in GraphRecords, Suits(A, x), NEW ids
  PROVE  [ok |-> TRUE, commands |-> RemoveAll(x, "edges", ids),
          graph |-> [x EXCEPT !.edges = Without(@, ids)]] \in Built(x, A)
<1>1. PICK s : s = Without(x.edges, ids)
  OBVIOUS
<1>2. PICK y : y = [x EXCEPT !.edges = s]
  OBVIOUS
<1>3. PICK cs : cs = RemoveAll(x, "edges", ids)
  OBVIOUS
<1>4. s \in Seq(Records["edges"]) /\ ToSet(s) = {t \in ToSet(x.edges) : t.id \notin ids}
  <2>1. x.edges \in Seq(Records["edges"])
    BY Lists
  <2>2. IsWithout(s, Records["edges"], x.edges, ids)
    BY <1>1, <2>1, WithoutFacts
  <2>3. s \in Seq(Records["edges"])
    BY <2>2 DEF IsWithout
  <2>4. ToSet(s) = {t \in ToSet(x.edges) : t.id \notin ids}
    BY <1>1, <2>1, WithoutSet
  <2> QED
    BY <2>3, <2>4
<1>5. y \in GraphRecords /\ y.edges = s /\ y.nodes = x.nodes /\ y.id = x.id
  BY <1>2, <1>4, EdgesChanged
<1>6. Takes(Within(x.id, ToSet(x.nodes), ToSet(x.edges), A), cs,
            Within(x.id, ToSet(x.nodes), ToSet(s), A))
  <2>1. PICK E : E = {t \in ToSet(x.edges) : t.id \notin ids}
    OBVIOUS
  <2>2. Takes(Within(x.id, ToSet(x.nodes), ToSet(x.edges), A), cs,
              Within(x.id, ToSet(x.nodes), {t \in ToSet(x.edges) : t.id \notin ids}, A))
    BY <1>3, EdgesRemoved
  <2> QED
    BY <1>4, <2>2
<1>7. cs \in Seq(GraphCommands)
  BY <1>6 DEF Takes
<1>8. Suits(A, y)
  BY <1>4, <1>5, SuitsLess
<1> DEFINE v == [ok |-> TRUE, commands |-> cs, graph |-> y]
<1>9. v \in [ok : BOOLEAN, commands : Seq(GraphCommands), graph : GraphRecords]
  BY <1>5, <1>7
<1>10. v.commands = cs /\ v.graph = y
  OBVIOUS
<1> HIDE DEF v
<1>11. v \in Built(x, A)
  BY <1>5, <1>6, <1>8, <1>9, <1>10 DEF Built
<1> QED
  BY <1>1, <1>2, <1>3, <1>11 DEF v

LEMMA EdgeMoved ==
  ASSUME NEW A \in Families, NEW x \in GraphRecords, Distinct(x.nodes), NEW v \in Built(x, A),
         NEW c, IsConnection(x, c), c.id \in Nat
  PROVE  MoveOne(v, c) \in Built(x, A)
<1>1. v \in [ok : BOOLEAN, commands : Seq(GraphCommands), graph : GraphRecords]
  BY DEF Built
<1>2. CASE MoveOne(v, c) = [v EXCEPT !.ok = FALSE]
  <2>1. PICK w : w = [v EXCEPT !.ok = FALSE]
    OBVIOUS
  <2>2. ~w.ok /\ w \in [ok : BOOLEAN, commands : Seq(GraphCommands), graph : GraphRecords]
    BY <1>1, <2>1
  <2>3. w \in Built(x, A)
    BY <2>2 DEF Built
  <2> QED
    BY <1>2, <2>1, <2>3
<1>3. CASE MoveOne(v, c) # [v EXCEPT !.ok = FALSE]
  <2>1. PICK y : y = v.graph
    OBVIOUS
  <2>2. PICK out : out = Displaced(y, c)
    OBVIOUS
  <2>3. PICK t : t = Edge(c.id, Kind(c), c)
    OBVIOUS
  <2>4. PICK s : s = Append(Without(y.edges, out), t)
    OBVIOUS
  <2>5. PICK z : z = [y EXCEPT !.edges = s]
    OBVIOUS
  <2>6. PICK cs : cs = Append(v.commands \o RemoveAll(y, "edges", out), AddItem(y.id, "edges", t))
    OBVIOUS
  <2> DEFINE w == [ok |-> TRUE, commands |-> cs, graph |-> z]
  <2>7. v.ok /\ Accepted(NoDocument, y, c) /\ MoveOne(v, c) = w
    BY <1>3, <2>1, <2>2, <2>3, <2>4, <2>5, <2>6 DEF MoveOne
  <2> DEFINE g == x.id
             M == ToSet(x.nodes)
             D == ToSet(y.edges)
             E == {e \in D : e.id \notin out}
             P == Within(g, M, ToSet(x.edges), A)
  <2>8. /\ y \in GraphRecords /\ y.id = g /\ y.nodes = x.nodes /\ Suits(A, y)
        /\ Takes(P, v.commands, Within(g, M, D, A))
    BY <1>1, <2>1, <2>7 DEF Built
  <2>9. g \in Nat
    BY DEF GraphRecords
  <2>10. /\ t \in Records["edges"] /\ t.kind = Kind(c) /\ t.id = c.id
         /\ t.from = c.from /\ t.to = c.to /\ t.out = c.out /\ t.in = c.in
    BY <2>3, KindTyped, EdgeFacts
  <2>11. t.from \in Ids(M) /\ t.to \in Ids(M)
    BY <2>10 DEF IsConnection
  <2>12. ToSet(s) = E \cup {t} /\ s \in Seq(Records["edges"])
    <3>1. PICK r : r = Without(y.edges, out)
      OBVIOUS
    <3>2. y.edges \in Seq(Records["edges"])
      BY <2>8, Lists
    <3>3. IsWithout(r, Records["edges"], y.edges, out)
      BY <3>1, <3>2, WithoutFacts
    <3>4. r \in Seq(Records["edges"])
      BY <3>3 DEF IsWithout
    <3>5. ToSet(r) = E
      BY <3>1, <3>2, WithoutSet
    <3> HIDE DEF E
    <3>6. s = Append(r, t)
      BY <2>4, <3>1
    <3>7. PICK T : T = Records["edges"]
      OBVIOUS
    <3>8. r \in Seq(T) /\ t \in T
      BY <2>10, <3>4, <3>7
    <3>9. s \in Seq(T) /\ ToSet(s) = ToSet(r) \cup {t}
      BY <3>6, <3>8, AppendedSet
    <3> QED
      BY <3>5, <3>7, <3>9
  <2>13. E \in SUBSET D /\ \A e \in E : e.id \notin Displaced(y, c)
    BY <2>2
  <2>14. Takes(Within(g, M, D, A), RemoveAll(y, "edges", out), Within(g, M, E, A))
    BY <2>8, EdgesRemoved
  <2> HIDE DEF E
  <2>15. A = WiredRecords => Wiring(M, E \cup {t})
    <3> SUFFICES ASSUME A = WiredRecords PROVE Wiring(M, E \cup {t})
      OBVIOUS
    <3>1. M = ToSet(y.nodes) /\ Distinct(y.nodes)
      BY <2>8
    <3>2. Wiring(M, D)
      BY <2>8, <3>1 DEF Suits, GraphWired
    <3>3. Wiring(M, E)
      BY <2>13, <3>2, WiringLess
    <3>4. Kind(c) = "data" => ~DependsOn(y, c.from, c.to)
      BY <2>7, AcceptedFacts
    <3> HIDE DEF M, g
    <3> QED
      BY <2>8, <2>10, <2>13, <3>1, <3>3, <3>4, EdgePlaced
  <2> HIDE DEF M, D, g, P
  <2>16. TakesOne(Within(g, M, E, A), AddItem(g, "edges", t), Within(g, M, E \cup {t}, A))
    BY <2>9, <2>10, <2>11, <2>15, EdgeAdded
  <2>17. Takes(P, v.commands \o RemoveAll(y, "edges", out), Within(g, M, E, A))
    BY <2>8, <2>14, TakesConcat
  <2>18. Takes(P, cs, Within(g, M, E \cup {t}, A))
    BY <2>6, <2>8, <2>16, <2>17, TakesThen
  <2>19. cs \in Seq(GraphCommands)
    BY <2>18 DEF Takes
  <2>20. z \in GraphRecords /\ z.edges = s /\ z.nodes = y.nodes /\ z.id = y.id
    BY <2>5, <2>8, <2>12, EdgesChanged
  <2>21. Suits(A, z)
    BY <2>8, <2>12, <2>15, <2>20 DEF Suits, GraphWired, M
  <2>22. w \in [ok : BOOLEAN, commands : Seq(GraphCommands), graph : GraphRecords]
    BY <2>19, <2>20
  <2>23. w.commands = cs /\ w.graph = z
    OBVIOUS
  <2> HIDE DEF w
  <2>24. Takes(P, cs, Within(g, M, ToSet(z.edges), A))
    BY <2>12, <2>18, <2>20
  <2>25. w \in Built(x, A)
    BY <2>8, <2>20, <2>21, <2>22, <2>23, <2>24 DEF Built, P, M, g
  <2> QED
    BY <2>7, <2>25
<1> QED
  BY <1>2, <1>3

LEMMA RetargetingFacts ==
  ASSUME NEW A \in Families, NEW x \in GraphRecords, Distinct(x.nodes), Suits(A, x), minted \in Nat,
         NEW moved \in Seq(Records["edges"]), NEW destination,
         \A i \in 1..Len(moved) : IsConnection(x, Retargeted(moved[i], destination))
  PROVE  Retargeting(x, moved, destination) \in Built(x, A)
<1> DEFINE ids == {moved[k].id : k \in DOMAIN moved}
           taken == [ok |-> TRUE, commands |-> RemoveAll(x, "edges", ids),
                     graph |-> [x EXCEPT !.edges = Without(@, ids)]]
           moves == [i \in DOMAIN moved |-> [Retargeted(moved[i], destination) EXCEPT !.id = minted + i]]
           n == Len(moved)
           V == Built(x, A)
           C == {c \in Records["edges"] : IsConnection(x, c)}
<1>1. Retargeting(x, moved, destination) = FoldLeft(MoveOne, taken, moves)
  BY DEF Retargeting
<1>2. DOMAIN moved = 1..n /\ n \in Nat
  OBVIOUS
<1>3. taken \in V
  <2> HIDE DEF ids
  <2> QED
    BY EdgesTaken
<1>4. \A i \in 1..n : [Retargeted(moved[i], destination) EXCEPT !.id = minted + i] \in C
  <2> TAKE i \in 1..n
  <2>1. PICK e \in Records["edges"] : e = moved[i]
    OBVIOUS
  <2>2. PICK c : c = Retargeted(e, destination)
    OBVIOUS
  <2>3. IsConnection(x, c) /\ minted + i \in Nat
    BY <1>2, <2>1, <2>2
  <2>4. /\ c = [e EXCEPT !.from = c.from, !.out = c.out, !.to = c.to, !.in = c.in]
    BY <2>2, Zenon DEF Retargeted, Records
  <2>5. c \in Records["edges"]
    BY <2>3, <2>4 DEF IsConnection, Records
  <2>6. PICK r : r = [c EXCEPT !.id = minted + i]
    OBVIOUS
  <2>7. r \in Records["edges"] /\ r.from = c.from /\ r.to = c.to /\ r.out = c.out /\ r.in = c.in
    BY <2>3, <2>5, <2>6 DEF Records
  <2>8. IsConnection(x, r)
    BY <2>3, <2>7 DEF IsConnection
  <2> QED
    BY <2>1, <2>2, <2>6, <2>7, <2>8
<1> HIDE DEF n, C, V
<1>5. moves \in [1..n -> C]
  BY <1>2, <1>4
<1> HIDE DEF taken, moves
<1>6. moves \in Seq(C) /\ DOMAIN moves = 1..n
  BY <1>2, <1>5, FunctionSequence
<1>7. \A v \in V, i \in DOMAIN moves : MoveOne(v, moves[i]) \in V
  <2> SUFFICES ASSUME NEW v \in V, NEW i \in DOMAIN moves PROVE MoveOne(v, moves[i]) \in V
    OBVIOUS
  <2>1. PICK c \in Records["edges"] : c = moves[i] /\ IsConnection(x, c)
    BY <1>5, <1>6 DEF C
  <2>2. c.id \in Nat
    BY RecordIds DEF Kinds
  <2>3. MoveOne(v, c) \in Built(x, A)
    BY <2>1, <2>2, EdgeMoved DEF V
  <2> QED
    BY <2>1, <2>3 DEF V
<1>8. FoldLeft(MoveOne, taken, moves) \in V
  <2>1. Moves!FoldLeft(MoveOne, taken, moves) \in V
    BY <1>3, <1>6, <1>7, Moves!FoldLeftKeeps
  <2>2. FoldLeft(MoveOne, taken, moves) = Moves!FoldLeft(MoveOne, taken, moves)
    BY DEF FoldLeft, Moves!FoldLeft, MapThenFoldSet, Moves!MapThenFoldSet, Max, Moves!Max
  <2> QED
    BY <2>1, <2>2
<1> QED
  BY <1>1, <1>8 DEF V

LEMMA RetargetDoes ==
  ASSUME NEW A, Standing(A), NEW g, Has(document.graphs, g), NEW x, x = Graph(document, g),
         NEW origin \in Ends(x), NEW n \in ToSet(x.nodes),
         NEW port \in IF origin.side = "output" THEN Outputs(x, n) ELSE Inputs(document, n),
         Retarget(g, origin, [node |-> n.id, port |-> port, side |-> origin.side])
  PROVE  Does(A)
<1>1. /\ A \in Families /\ minted \in Nat /\ x \in GraphRecords /\ x.id = g /\ Suits(A, x)
      /\ Distinct(x.nodes) /\ GraphIntact(x) /\ document \in DocumentRecords
      /\ document \in Within(g, ToSet(x.nodes), ToSet(x.edges), A)
  BY StandingGraph DEF Sound
<1>2. PICK destination : destination = [node |-> n.id, port |-> port, side |-> origin.side]
  OBVIOUS
<1>3. PICK moved : moved = Touching(x, origin)
  OBVIOUS
<1>4. PICK built : built = Retargeting(x, moved, destination)
  OBVIOUS
<1>5. built.ok /\ Perform(built.commands, Len(moved))
  BY <1>2, <1>3, <1>4 DEF Retarget
<1>6. port \in Ports /\ n.id \in Nat /\ n.id \in Ids(ToSet(x.nodes))
  BY <1>1, OutputsTyped, InputsTyped, NodesTyped
<1>7. moved \in Seq(Records["edges"]) /\ \A i \in 1..Len(moved) : moved[i] \in ToSet(x.edges)
  <2>1. x.edges \in Seq(Records["edges"]) /\ DOMAIN x.edges = 1..Len(x.edges)
    BY <1>1, Lists
  <2>2. PICK K \in SUBSET (1..Len(x.edges)) : moved = Selected(x.edges, K)
    BY <1>3, <2>1 DEF Touching, Filter
  <2>3. IsPart(moved, Records["edges"], x.edges, K)
    BY <2>1, <2>2, PartFacts
  <2>4. moved \in Seq(Records["edges"]) /\ ToSet(moved) \subseteq ToSet(x.edges)
    BY <2>3 DEF IsPart
  <2> QED
    BY <2>4 DEF ToSet
<1>8. ASSUME NEW i \in 1..Len(moved) PROVE IsConnection(x, Retargeted(moved[i], destination))
  <2>1. PICK e : e = moved[i]
    OBVIOUS
  <2>2. e \in Records["edges"] /\ e.from \in Ids(ToSet(x.nodes)) /\ e.to \in Ids(ToSet(x.nodes))
    BY <1>1, <1>7, <2>1, EdgesTyped, EdgesJoinIds DEF Joins
  <2>3. PICK c : c = Retargeted(e, destination)
    OBVIOUS
  <2>4. destination.node = n.id /\ destination.port = port
    BY <1>2
  <2>5. \/ c = [e EXCEPT !.from = n.id, !.out = port]
        \/ c = [e EXCEPT !.to = n.id, !.in = port]
    BY <2>3, <2>4 DEF Retargeted
  <2>6. \/ c.from = n.id /\ c.out = port /\ c.to = e.to /\ c.in = e.in
        \/ c.from = e.from /\ c.out = e.out /\ c.to = n.id /\ c.in = port
    BY <2>2, <2>5 DEF Records
  <2>7. e.from \in Nat /\ e.to \in Nat /\ e.in \in Ports /\ e.out \in Ports
    BY <2>2 DEF Records
  <2>8. IsConnection(x, c)
    BY <1>6, <2>2, <2>6, <2>7 DEF IsConnection
  <2> QED
    BY <2>1, <2>3, <2>8
<1>9. built \in Built(x, A)
  BY <1>1, <1>4, <1>7, <1>8, RetargetingFacts
<1>10. Takes(Within(g, ToSet(x.nodes), ToSet(x.edges), A), built.commands,
             Within(g, ToSet(x.nodes), ToSet(built.graph.edges), A))
  BY <1>1, <1>5, <1>9 DEF Built
<1>11. Takes(Within(g, ToSet(x.nodes), ToSet(x.edges), A), built.commands, A)
  BY <1>10, WithinWeaker, TakesWeaker
<1>12. Len(moved) \in Nat
  BY <1>7
<1> QED
  BY <1>1, <1>5, <1>11, <1>12, DoesCommands

-----------------------------------------------------------------------------
(* Pasting a fragment.                                                      *)

(* What the items of a list are added with.                                 *)
IsAdding(cs, g, k, items) ==
  /\ cs \in Seq(AddCommands) /\ cs \in Seq(GraphCommands)
  /\ Len(cs) = Len(items) /\ Len(cs) \in Nat
  /\ \A i \in 1..Len(cs) : items[i] \in Records[k] /\ cs[i] = AddItem(g, k, items[i])
LEMMA AddingFacts ==
  ASSUME NEW g \in Nat, NEW k \in Kinds, NEW items \in Seq(Records[k])
  PROVE  IsAdding(Additions(g, k, items), g, k, items)
<1> DEFINE n == Len(items)
           s == [i \in 1..n |-> AddItem(g, k, items[i])]
<1>1. DOMAIN items = 1..n /\ n \in Nat
  OBVIOUS
<1>2. Additions(g, k, items) = s
  BY <1>1 DEF Additions
<1>3. \A i \in 1..n : items[i] \in Records[k] /\ AddItem(g, k, items[i]) \in AddCommands
  BY CommandTypes DEF AddItem, AtEnd
<1>4. \A i \in 1..n : s[i] = AddItem(g, k, items[i])
  OBVIOUS
<1>5. s \in [1..n -> AddCommands]
  BY <1>3
<1> HIDE DEF s, n
<1>6. s \in Seq(AddCommands) /\ Len(s) = n
  BY <1>1, <1>5, FunctionSequence
<1>7. IsAdding(s, g, k, items)
  BY <1>1, <1>3, <1>4, <1>6, AddsBackGraphCommands DEF IsAdding, n
<1> QED
  BY <1>2, <1>7

(* Nodes under identifiers that the graph may hold: then they are refused.  *)
Pasted(g, M, N, D, A) == IF Ids(M) \cap Ids(N) = {} THEN Within(g, M \cup N, D, A) ELSE {}
LEMMA NodePasted ==
  ASSUME NEW A \in Families, NEW g \in Nat, NEW M, NEW N, NEW D, NEW n \in Records["nodes"],
         NEW O, O = N \cup {n}
  PROVE  TakesOne(Pasted(g, M, N, D, A), AddItem(g, "nodes", n), Pasted(g, M, O, D, A))
<1>1. PICK L : L = M \cup N
  OBVIOUS
<1>2. Ids(M) \cap Ids(N) = {} /\ n.id \notin Ids(L) =>
        Within(g, L \cup {n}, D, A) \subseteq Pasted(g, M, O, D, A)
  <2> SUFFICES ASSUME Ids(M) \cap Ids(N) = {}, n.id \notin Ids(L)
               PROVE  Within(g, L \cup {n}, D, A) \subseteq Pasted(g, M, O, D, A)
    OBVIOUS
  <2>1. Ids(M) \cap Ids(O) = {}
    BY <1>1 DEF Ids
  <2>2. L \cup {n} = M \cup O
    BY <1>1
  <2> QED
    BY <2>1, <2>2 DEF Pasted
<1>3. CASE Ids(M) \cap Ids(N) = {}
  <2>1. TakesOne(Within(g, L, D, A), AddItem(g, "nodes", n), Pasted(g, M, O, D, A))
    BY <1>2, <1>3, NodeAdded
  <2> QED
    BY <1>1, <1>3, <2>1 DEF Pasted
<1>4. CASE Ids(M) \cap Ids(N) # {}
  <2>1. TakesOne(Within(g, L, D, A), AddItem(g, "nodes", n), A)
    BY WithinWeaker, NodeAdded
  <2>2. Pasted(g, M, N, D, A) = {}
    BY <1>4 DEF Pasted
  <2> QED
    BY <2>1, <2>2, TakesLess
<1> QED
  BY <1>3, <1>4

LEMMA NodesPasted ==
  ASSUME NEW A \in Families, NEW g \in Nat, NEW M, NEW D, NEW nodes \in Seq(Records["nodes"]),
         NEW N, N = ToSet(nodes)
  PROVE  Takes(Within(g, M, D, A), Additions(g, "nodes", nodes), Pasted(g, M, N, D, A))
<1>1. PICK cs : cs = Additions(g, "nodes", nodes)
  OBVIOUS
<1> DEFINE n == Len(nodes)
           O(i) == {nodes[j] : j \in 1..i}
           F == [i \in 0..n |-> Pasted(g, M, O(i), D, A)]
<1>2. IsAdding(cs, g, "nodes", nodes)
  BY <1>1, AddingFacts DEF Kinds
<1>3. cs \in Seq(GraphCommands) /\ Len(cs) = n /\ n \in Nat
  BY <1>2 DEF IsAdding
<1>4. O(0) = {} /\ O(n) = N
  <2>1. DOMAIN nodes = 1..n
    OBVIOUS
  <2>2. O(n) = N
    BY <2>1 DEF ToSet
  <2> QED
    BY <2>2
<1>5. Pasted(g, M, {}, D, A) = Within(g, M, D, A)
  BY DEF Pasted, Ids
<1>6. F[0] = Pasted(g, M, O(0), D, A) /\ F[n] = Pasted(g, M, O(n), D, A)
  BY <1>3
<1>7. \A i \in 1..n : F[i - 1] = Pasted(g, M, O(i - 1), D, A) /\ F[i] = Pasted(g, M, O(i), D, A)
  <2> TAKE i \in 1..n
  <2>1. i - 1 \in 0..n /\ i \in 0..n
    BY <1>3
  <2> QED
    BY <2>1
<1> HIDE DEF F
<1>8. \A i \in 1..n : TakesOne(F[i - 1], cs[i], F[i])
  <2> TAKE i \in 1..n
  <2>1. nodes[i] \in Records["nodes"] /\ cs[i] = AddItem(g, "nodes", nodes[i])
    BY <1>2, <1>3 DEF IsAdding
  <2>2. O(i) = O(i - 1) \cup {nodes[i]}
    <3>1. 1..i = (1..i - 1) \cup {i}
      BY <1>3
    <3> QED
      BY <3>1
  <2> HIDE DEF O, n
  <2>3. TakesOne(Pasted(g, M, O(i - 1), D, A), AddItem(g, "nodes", nodes[i]), Pasted(g, M, O(i), D, A))
    BY <2>1, <2>2, NodePasted
  <2> QED
    BY <1>7, <2>1, <2>3
<1> HIDE DEF O
<1>9. Takes(F[0], cs, F[n])
  BY <1>3, <1>8, TakesEach
<1> QED
  BY <1>1, <1>4, <1>5, <1>6, <1>9

(* Edges among nodes of the graph.                                          *)
LEMMA EdgesAdded ==
  ASSUME NEW A \in Families, NEW g \in Nat, NEW M, NEW D, NEW edges \in Seq(Records["edges"]),
         NEW E, E = ToSet(edges), Joins(E, Ids(M)), A = WiredRecords => Wiring(M, D \cup E)
  PROVE  Takes(Within(g, M, D, A), Additions(g, "edges", edges), Within(g, M, D \cup E, A))
<1>1. PICK cs : cs = Additions(g, "edges", edges)
  OBVIOUS
<1> DEFINE n == Len(edges)
           O(i) == D \cup {edges[j] : j \in 1..i}
           F == [i \in 0..n |-> Within(g, M, O(i), A)]
<1>2. IsAdding(cs, g, "edges", edges)
  BY <1>1, AddingFacts DEF Kinds
<1>3. cs \in Seq(GraphCommands) /\ Len(cs) = n /\ n \in Nat
  BY <1>2 DEF IsAdding
<1>4. O(0) = D /\ O(n) = D \cup E /\ \A i \in 1..n : edges[i] \in E
  <2>1. DOMAIN edges = 1..n
    OBVIOUS
  <2>2. E = {edges[j] : j \in 1..n}
    BY <2>1 DEF ToSet
  <2> QED
    BY <2>2
<1>5. F[0] = Within(g, M, O(0), A) /\ F[n] = Within(g, M, O(n), A)
  BY <1>3
<1>6. \A i \in 1..n : F[i - 1] = Within(g, M, O(i - 1), A) /\ F[i] = Within(g, M, O(i), A)
  <2> TAKE i \in 1..n
  <2>1. i - 1 \in 0..n /\ i \in 0..n
    BY <1>3
  <2> QED
    BY <2>1
<1> HIDE DEF F
<1>7. \A i \in 1..n : TakesOne(F[i - 1], cs[i], F[i])
  <2> TAKE i \in 1..n
  <2>1. PICK t \in Records["edges"] : t = edges[i] /\ cs[i] = AddItem(g, "edges", t)
    BY <1>2, <1>3 DEF IsAdding
  <2>2. PICK B : B = O(i - 1)
    OBVIOUS
  <2>3. O(i) = B \cup {t} /\ O(i) \subseteq D \cup E
    <3>1. 1..i = (1..i - 1) \cup {i} /\ \A j \in 1..i : j \in 1..n
      BY <1>3
    <3> QED
      BY <1>4, <2>1, <2>2, <3>1
  <2>4. t.from \in Ids(M) /\ t.to \in Ids(M)
    BY <1>4, <2>1 DEF Joins
  <2> HIDE DEF O
  <2>5. A = WiredRecords => Wiring(M, B \cup {t})
    BY <2>3, WiringLess
  <2>6. TakesOne(Within(g, M, B, A), AddItem(g, "edges", t), Within(g, M, B \cup {t}, A))
    BY <2>4, <2>5, EdgeAdded
  <2> QED
    BY <1>6, <2>1, <2>2, <2>3, <2>6
<1> HIDE DEF O
<1>8. Takes(F[0], cs, F[n])
  BY <1>3, <1>7, TakesEach
<1> QED
  BY <1>1, <1>4, <1>5, <1>8

LEMMA MarksAdded ==
  ASSUME NEW A \in Families, NEW g \in Nat, NEW M, NEW D, NEW k \in {"hints", "groups"},
         NEW items \in Seq(Records[k]),
         k = "groups" => \A i \in 1..Len(items) : items[i].members # {}
  PROVE  Takes(Within(g, M, D, A), Additions(g, k, items), Within(g, M, D, A))
<1>1. PICK cs : cs = Additions(g, k, items)
  OBVIOUS
<1>2. IsAdding(cs, g, k, items)
  BY <1>1, AddingFacts DEF Kinds
<1>3. PICK P : P = Within(g, M, D, A)
  OBVIOUS
<1>4. ASSUME NEW i \in 1..Len(cs) PROVE TakesOne(P, cs[i], P)
  <2>1. PICK item \in Records[k] : item = items[i] /\ cs[i] = AddItem(g, k, item)
    BY <1>2 DEF IsAdding
  <2>2. k = "groups" => item.members # {}
    BY <1>2, <2>1 DEF IsAdding
  <2> QED
    BY <1>3, <2>1, <2>2, MarkAdded
<1>5. cs \in Seq(AddCommands)
  BY <1>2 DEF IsAdding
<1> QED
  BY <1>1, <1>3, <1>4, <1>5, TakesKeeping

LEMMA PasteTaken ==
  ASSUME NEW A, Standing(A), NEW g, Has(document.graphs, g), NEW f \in Fragments,
         A = WiredRecords => GraphWired(f), NEW used \in Nat,
         Perform(PasteCommands(g, f, minted), used)
  PROVE  Does(A)
<1>1. PICK x : x = Graph(document, g)
  OBVIOUS
<1>2. /\ A \in Families /\ g \in Nat /\ minted \in Nat /\ GraphIntact(x) /\ Suits(A, x)
      /\ document \in Within(g, ToSet(x.nodes), ToSet(x.edges), A)
  BY <1>1, StandingGraph
<1>3. PICK r : r = Renumbered(f, minted)
  OBVIOUS
<1>4. r \in Fragments /\ (A = WiredRecords => GraphWired(r))
  BY <1>2, <1>3, RenumberedFacts
<1>5. PICK nodes, edges, groups, hints :
        /\ nodes = Additions(g, "nodes", r.nodes) /\ edges = Additions(g, "edges", r.edges)
        /\ groups = Additions(g, "groups", r.groups) /\ hints = Additions(g, "hints", r.hints)
  OBVIOUS
<1>6. PICK cs : cs = nodes \o groups \o edges \o hints
  OBVIOUS
<1>7. Perform(cs, used)
  BY <1>3, <1>5, <1>6 DEF PasteCommands
<1> DEFINE M == ToSet(x.nodes)
           D == ToSet(x.edges)
           N == ToSet(r.nodes)
           E == ToSet(r.edges)
           W == Within(g, M \cup N, D, A)
           WE == Within(g, M \cup N, D \cup E, A)
<1>8. /\ r.nodes \in Seq(Records["nodes"]) /\ r.edges \in Seq(Records["edges"])
      /\ r.hints \in Seq(Records["hints"]) /\ r.groups \in Seq(Records["groups"])
      /\ GroupsHold(r) /\ GraphIntact(r) /\ DOMAIN r.groups = 1..Len(r.groups)
  BY <1>4, FragmentFields
<1>9. \A i \in 1..Len(r.groups) : r.groups[i].members # {}
  BY <1>8 DEF GroupsHold, Apart
<1>10. Joins(D, Ids(M)) /\ Joins(E, Ids(N))
  BY <1>2, <1>8, EdgesJoinIds
<1>11. A = WiredRecords => Wiring(M, D) /\ Wiring(N, E)
  BY <1>2, <1>4 DEF Suits, GraphWired
<1> HIDE DEF M, D, N, E
<1>12. Takes(Within(g, M, D, A), nodes, Pasted(g, M, N, D, A))
  BY <1>2, <1>5, <1>8, NodesPasted DEF N
<1>13. Takes(W, groups, W) /\ Takes(WE, hints, WE)
  BY <1>2, <1>5, <1>8, <1>9, MarksAdded
<1>14. CASE Ids(M) \cap Ids(N) = {}
  <2>1. A = WiredRecords => Wiring(M \cup N, D \cup E)
    BY <1>10, <1>11, <1>14, WiringUnion
  <2>2. Joins(E, Ids(M \cup N))
    BY <1>10 DEF Joins, Ids
  <2>3. Takes(W, edges, WE)
    BY <1>2, <1>5, <1>8, <2>1, <2>2, EdgesAdded DEF E
  <2>4. Pasted(g, M, N, D, A) = W
    BY <1>14 DEF Pasted
  <2> HIDE DEF W, WE
  <2>5. Takes(Within(g, M, D, A), nodes \o groups, W)
    BY <1>12, <1>13, <2>4, TakesConcat
  <2>6. Takes(Within(g, M, D, A), nodes \o groups \o edges, WE)
    BY <2>3, <2>5, TakesConcat
  <2>7. Takes(Within(g, M, D, A), cs, WE)
    BY <1>6, <1>13, <2>6, TakesConcat
  <2>8. WE \subseteq A
    BY WithinWeaker DEF WE
  <2>9. Takes(Within(g, M, D, A), cs, A)
    BY <2>7, <2>8, TakesWeaker
  <2> QED
    BY <1>2, <1>7, <2>9, DoesCommands DEF M, D
<1>15. CASE Ids(M) \cap Ids(N) # {}
  <2>1. Pasted(g, M, N, D, A) = {}
    BY <1>15 DEF Pasted
  <2>2. groups \in Seq(GraphCommands) /\ edges \in Seq(GraphCommands) /\ hints \in Seq(GraphCommands)
    BY <1>2, <1>5, <1>8, AddingFacts DEF IsAdding, Kinds
  <2>3. Takes({}, groups, {}) /\ Takes({}, edges, {}) /\ Takes({}, hints, A)
    BY <2>2, TakesNone
  <2>4. Takes(Within(g, M, D, A), nodes \o groups, {})
    BY <1>12, <2>1, <2>3, TakesConcat
  <2>5. Takes(Within(g, M, D, A), nodes \o groups \o edges, {})
    BY <2>3, <2>4, TakesConcat
  <2>6. Takes(Within(g, M, D, A), cs, A)
    BY <1>6, <2>3, <2>5, TakesConcat
  <2> QED
    BY <1>2, <1>7, <2>6, DoesCommands DEF M, D
<1> QED
  BY <1>14, <1>15

LEMMA SizeTyped ==
  ASSUME NEW f \in Fragments
  PROVE  Size(f) \in Nat /\ 1 + Size(f) \in Nat
<1>1. Len(f.nodes) \in Nat /\ Len(f.edges) \in Nat /\ Len(f.groups) \in Nat /\ Len(f.hints) \in Nat
  BY FragmentFields
<1>2. Size(f) \in Nat
  BY <1>1, Sums DEF Size
<1> QED
  BY <1>2

LEMMA InsertTemplateDoes ==
  ASSUME NEW A, Standing(A), NEW g, Has(document.graphs, g), InsertTemplate(g)
  PROVE  Does(A)
BY TemplateFacts, SizeTyped, PasteTaken DEF InsertTemplate

LEMMA PasteDoes ==
  ASSUME NEW A, Standing(A), NEW g, Has(document.graphs, g), Paste(g)
  PROVE  Does(A)
<1>1. clipboard \in Fragments /\ (A = WiredRecords => GraphWired(clipboard))
  BY DEF Standing, EditingTyped
<1> QED
  BY <1>1, SizeTyped, PasteTaken DEF Paste

LEMMA DuplicateDoes ==
  ASSUME NEW A, Standing(A), NEW g, Has(document.graphs, g), NEW S, Duplicate(g, S)
  PROVE  Does(A)
<1>1. PICK x : x = Graph(document, g)
  OBVIOUS
<1>2. x \in GraphRecords /\ GraphIntact(x) /\ Suits(A, x)
  BY <1>1, StandingGraph
<1>3. PICK f : f = Fragment(x, S)
  OBVIOUS
<1>4. f \in Fragments /\ (A = WiredRecords => GraphWired(f))
  BY <1>2, <1>3, FragmentFacts DEF Suits
<1>5. Perform(PasteCommands(g, f, minted), Size(f))
  BY <1>1, <1>3 DEF Duplicate
<1> QED
  BY <1>4, <1>5, SizeTyped, PasteTaken

-----------------------------------------------------------------------------
(* The task dialog and the function library.                                *)

(* A new graph whose lists form a fragment.                                 *)
LEMMA NewGraph ==
  ASSUME NEW A \in Families, NEW f \in Fragments, A = WiredRecords => GraphWired(f),
         NEW x \in GraphRecords, x.nodes = f.nodes, x.edges = f.edges,
         x.groups = f.groups, x.hints = f.hints
  PROVE  TakesOne(A, AddGraphAt(x, AtEnd), A)
<1>1. GraphIntact(f)
  BY FragmentFields
<1>2. GraphIntact(x)
  BY <1>1 DEF GraphIntact
<1>3. Suits(A, x)
  BY DEF Suits, GraphWired
<1> QED
  BY <1>2, <1>3, GraphAdded

(* Nodes alone: no edge, no group, no hint.                                 *)
LEMMA NodesAlone ==
  ASSUME NEW nodes \in Seq(Records["nodes"]), Distinct(nodes), NEW f,
         f = [nodes |-> nodes, edges |-> <<>>, groups |-> <<>>, hints |-> <<>>]
  PROVE  f \in Fragments /\ GraphWired(f)
<1>1. /\ <<>> \in Seq(Records["edges"]) /\ <<>> \in Seq(Records["groups"])
      /\ <<>> \in Seq(Records["hints"]) /\ DOMAIN <<>> = {}
  OBVIOUS
<1>2. f.nodes = nodes /\ f.edges = <<>> /\ f.groups = <<>> /\ f.hints = <<>>
  OBVIOUS
<1>3. Distinct(<<>>)
  BY <1>1 DEF Distinct
<1>4. EdgesJoin(f) /\ HintsMark(f) /\ GroupsHold(f)
  BY <1>1, <1>2 DEF EdgesJoin, HintsMark, GroupsHold, Apart
<1>5. f \in Fragments
  BY <1>1, <1>3, <1>4, AFragment
<1>6. ToSet(f.edges) = {}
  BY <1>1, <1>2 DEF ToSet
<1>7. GraphWired(f)
  BY <1>6 DEF GraphWired, Wiring, OneEach, Acyclic, Data
<1> QED
  BY <1>5, <1>7

LEMMA EmptyFragmentFacts == EmptyFragment \in Fragments /\ GraphWired(EmptyFragment)
<1>1. <<>> \in Seq(Records["nodes"]) /\ Distinct(<<>>)
  BY DEF Distinct
<1> QED
  BY <1>1, NodesAlone DEF EmptyFragment

LEMMA CreateTaskDoes ==
  ASSUME NEW A, Standing(A), CreateTask
  PROVE  Does(A)
<1>1. PICK x : x = [id |-> minted + 1, kind |-> "entry", parameters |-> <<>>, nodes |-> <<>>,
                    edges |-> <<>>, groups |-> <<>>, hints |-> <<>>]
  OBVIOUS
<1>2. minted + 1 \in Nat /\ A \in Families /\ document \in A
  BY DEF Standing, EditingTyped
<1>3. x \in GraphRecords
  BY <1>1, <1>2 DEF GraphRecords
<1>4. PICK f : f = EmptyFragment
  OBVIOUS
<1>5. f \in Fragments /\ GraphWired(f)
  BY <1>4, EmptyFragmentFacts
<1>6. x.nodes = f.nodes /\ x.edges = f.edges /\ x.groups = f.groups /\ x.hints = f.hints
  BY <1>1, <1>4 DEF EmptyFragment
<1>7. TakesOne(A, AddGraphAt(x, AtEnd), A)
  BY <1>2, <1>3, <1>5, <1>6, NewGraph
<1>8. Takes(A, << AddGraphAt(x, AtEnd) >>, A)
  BY <1>7, TakesOneCommand
<1>9. Perform(<< AddGraphAt(x, AtEnd) >>, 1)
  BY <1>1 DEF CreateTask
<1> QED
  BY <1>2, <1>8, <1>9, DoesCommands

LEMMA CreateFunctionDoes ==
  ASSUME NEW A, Standing(A), CreateFunction
  PROVE  Does(A)
<1>1. PICK a, b : a = Node(minted + 2, "input", NoGraph) /\ b = Node(minted + 3, "return", NoGraph)
  OBVIOUS
<1>2. PICK nodes : nodes = << a, b >>
  OBVIOUS
<1>3. PICK x : x = [id |-> minted + 1, kind |-> "function", parameters |-> <<>>, nodes |-> nodes,
                    edges |-> <<>>, groups |-> <<>>, hints |-> <<>>]
  OBVIOUS
<1>4. minted \in Nat /\ A \in Families /\ document \in A
  BY DEF Standing, EditingTyped
<1>5. /\ a \in Records["nodes"] /\ b \in Records["nodes"] /\ a.id = minted + 2 /\ b.id = minted + 3
  BY <1>1, <1>4 DEF Node, Records, Types, NoGraph
<1>6. ASSUME NEW S, NEW y \in S, NEW z \in S
      PROVE  <<y, z>> \in Seq(S) /\ Len(<<y, z>>) = 2 /\ <<y, z>>[1] = y /\ <<y, z>>[2] = z
  OBVIOUS
<1>7. nodes \in Seq(Records["nodes"]) /\ Len(nodes) = 2 /\ nodes[1] = a /\ nodes[2] = b
  BY <1>2, <1>5, <1>6
<1>8. DOMAIN nodes = 1..2
  BY <1>7
<1>9. Distinct(nodes)
  BY <1>4, <1>5, <1>7, <1>8 DEF Distinct
<1>10. PICK f : f = [nodes |-> nodes, edges |-> <<>>, groups |-> <<>>, hints |-> <<>>]
  OBVIOUS
<1>11. f \in Fragments /\ GraphWired(f)
  BY <1>7, <1>9, <1>10, NodesAlone
<1>12. x \in GraphRecords
  BY <1>3, <1>4, <1>7 DEF GraphRecords
<1>13. x.nodes = f.nodes /\ x.edges = f.edges /\ x.groups = f.groups /\ x.hints = f.hints
  BY <1>3, <1>10
<1>14. TakesOne(A, AddGraphAt(x, AtEnd), A)
  BY <1>4, <1>11, <1>12, <1>13, NewGraph
<1>15. Takes(A, << AddGraphAt(x, AtEnd) >>, A)
  BY <1>14, TakesOneCommand
<1>16. Perform(<< AddGraphAt(x, AtEnd) >>, 3)
  BY <1>1, <1>2, <1>3 DEF CreateFunction
<1> QED
  BY <1>4, <1>15, <1>16, DoesCommands

LEMMA DuplicateTaskDoes ==
  ASSUME NEW A, Standing(A), NEW g, Has(document.graphs, g), DuplicateTask(g)
  PROVE  Does(A)
<1>1. PICK x : x = Graph(document, g)
  OBVIOUS
<1>2. /\ A \in Families /\ document \in A /\ minted \in Nat /\ minted + 1 \in Nat
      /\ x \in GraphRecords /\ GraphIntact(x) /\ Suits(A, x)
  BY <1>1, StandingGraph
<1>3. PICK f : f = [nodes |-> x.nodes, edges |-> x.edges, groups |-> x.groups, hints |-> x.hints]
  OBVIOUS
<1>4. f.nodes = x.nodes /\ f.edges = x.edges /\ f.groups = x.groups /\ f.hints = x.hints
  BY <1>3
<1>5. f \in [nodes : Seq(Records["nodes"]), edges : Seq(Records["edges"]),
             groups : Seq(Records["groups"]), hints : Seq(Records["hints"])]
  BY <1>2, <1>3, Lists
<1>6. GraphIntact(f)
  BY <1>2, <1>4 DEF GraphIntact
<1>7. f \in Fragments
  BY <1>5, <1>6 DEF Fragments
<1>8. A = WiredRecords => GraphWired(f)
  BY <1>2, <1>4 DEF Suits, GraphWired
<1>9. PICK copy : copy = Renumbered(f, minted + 1)
  OBVIOUS
<1>10. copy \in Fragments /\ (A = WiredRecords => GraphWired(copy))
  BY <1>2, <1>7, <1>8, <1>9, RenumberedFacts
<1>11. PICK y : y = [x EXCEPT !.id = minted + 1, !.nodes = copy.nodes, !.edges = copy.edges,
                              !.groups = copy.groups, !.hints = copy.hints]
  OBVIOUS
<1>12. y \in GraphRecords /\ y.nodes = copy.nodes /\ y.edges = copy.edges
       /\ y.groups = copy.groups /\ y.hints = copy.hints
  BY <1>2, <1>10, <1>11, FragmentFields DEF GraphRecords
<1>13. TakesOne(A, AddGraphAt(y, AtEnd), A)
  BY <1>2, <1>10, <1>12, NewGraph
<1>14. Takes(A, << AddGraphAt(y, AtEnd) >>, A)
  BY <1>13, TakesOneCommand
<1>15. Perform(<< AddGraphAt(y, AtEnd) >>, 1 + Size(copy))
  BY <1>1, <1>3, <1>9, <1>11 DEF DuplicateTask
<1> QED
  BY <1>2, <1>10, <1>14, <1>15, SizeTyped, DoesCommands

LEMMA FallbackTyped ==
  ASSUME Sound(document), NEW g, Has(document.graphs, g), Len(document.graphs) > 1
  PROVE  Fallback(g) \in Nat
<1>1. PICK s : s = document.graphs
  OBVIOUS
<1>2. s \in Seq(GraphRecords) /\ Len(s) > 1 /\ Has(s, g)
  BY <1>1 DEF Sound, DocumentRecords
<1>3. PICK i \in 1..Len(s) : i = IndexOf(s, g)
  BY <1>2, ItemFacts
<1>4. PICK j \in 1..Len(s) : j = IF i < Len(s) THEN i + 1 ELSE i - 1
  BY <1>2, <1>3
<1>5. Fallback(g) = s[j].id
  BY <1>1, <1>3, <1>4 DEF Fallback
<1>6. s[j] \in GraphRecords
  BY <1>2
<1> QED
  BY <1>5, <1>6 DEF GraphRecords

LEMMA TwoCommands ==
  ASSUME NEW P, NEW a, NEW b, NEW Q, NEW R, TakesOne(P, a, Q), TakesOne(Q, b, R)
  PROVE  Takes(P, <<a, b>>, R)
<1> DEFINE F == [i \in Nat |-> IF i = 0 THEN P ELSE IF i = 1 THEN Q ELSE R]
<1>1. ASSUME NEW S, NEW y \in S, NEW z \in S
      PROVE  <<y, z>> \in Seq(S) /\ Len(<<y, z>>) = 2 /\ <<y, z>>[1] = y /\ <<y, z>>[2] = z
  OBVIOUS
<1>2. a \in GraphCommands /\ b \in GraphCommands
  BY DEF TakesOne
<1>3. PICK cs : cs = <<a, b>>
  OBVIOUS
<1>4. cs \in Seq(GraphCommands) /\ Len(cs) = 2 /\ cs[1] = a /\ cs[2] = b
  BY <1>1, <1>2, <1>3
<1>5. F[0] = P /\ F[1] = Q /\ F[2] = R
  OBVIOUS
<1> HIDE DEF F
<1>6. \A i \in 1..Len(cs) : TakesOne(F[i - 1], cs[i], F[i])
  <2> TAKE i \in 1..Len(cs)
  <2>1. i = 1 \/ i = 2
    BY <1>4
  <2>2. CASE i = 1
    BY <1>4, <1>5, <2>2
  <2>3. CASE i = 2
    BY <1>4, <1>5, <2>3
  <2> QED
    BY <2>1, <2>2, <2>3
<1>7. Takes(F[0], cs, F[Len(cs)])
  BY <1>4, <1>6, TakesEach
<1> QED
  BY <1>3, <1>4, <1>5, <1>7

LEMMA DeleteTaskDoes ==
  ASSUME NEW A, Standing(A), NEW g, Has(document.graphs, g), DeleteTask(g)
  PROVE  Does(A)
<1>1. A \in Families /\ document \in A /\ Sound(document) /\ g \in Nat
  BY StandingGraph
<1>2. Fallback(g) \in Nat
  BY <1>1, FallbackTyped DEF DeleteTask
<1>3. TakesOne(A, SetEntryGraph(Fallback(g)), A) /\ TakesOne(A, RemoveGraph(g), A)
  BY <1>1, <1>2, EntrySet, GraphCut
<1>4. Takes(A, << SetEntryGraph(Fallback(g)), RemoveGraph(g) >>, A) /\ Takes(A, << RemoveGraph(g) >>, A)
  BY <1>3, TwoCommands, TakesOneCommand
<1>5. PICK cs : cs = IF document.entry = g THEN << SetEntryGraph(Fallback(g)), RemoveGraph(g) >>
                                           ELSE << RemoveGraph(g) >>
  OBVIOUS
<1>6. Takes(A, cs, A)
  BY <1>4, <1>5
<1>7. Perform(cs, 0)
  BY <1>5 DEF DeleteTask
<1> QED
  BY <1>1, <1>6, <1>7, DoesCommands

LEMMA SetDefaultTaskDoes ==
  ASSUME NEW A, Standing(A), NEW g, Has(document.graphs, g), SetDefaultTask(g)
  PROVE  Does(A)
<1>1. A \in Families /\ document \in A /\ g \in Nat
  BY StandingGraph
<1>2. Takes(A, << SetEntryGraph(g) >>, A)
  BY <1>1, EntrySet, TakesOneCommand
<1> QED
  BY <1>1, <1>2, DoesCommands DEF SetDefaultTask

(* Lists of commands one after another.                                     *)
Concats == INSTANCE ListFacts WITH Step <- Joined
LEMMA ConcatTakes ==
  ASSUME NEW P, NEW n \in Nat, NEW lists, lists = [i \in 1..n |-> lists[i]],
         \A i \in 1..n : Takes(P, lists[i], P)
  PROVE  Takes(P, Concat(lists), P)
<1> DEFINE S == Seq(GraphCommands)
           V == {cs \in S : Takes(P, cs, P)}
<1>1. \A i \in 1..n : lists[i] \in S
  BY DEF Takes
<1> HIDE DEF S
<1>2. lists \in [1..n -> S]
  BY <1>1
<1>3. lists \in Seq(S) /\ DOMAIN lists = 1..n
  BY <1>2, FunctionSequence
<1>4. <<>> \in V
  BY TakesNothing DEF Takes, S
<1>5. \A v \in V, i \in DOMAIN lists : Joined(v, lists[i]) \in V
  <2> SUFFICES ASSUME NEW v \in V, NEW i \in 1..n PROVE Joined(v, lists[i]) \in V
    BY <1>3
  <2>1. Takes(P, v, P) /\ Takes(P, lists[i], P)
    OBVIOUS
  <2>2. Takes(P, v \o lists[i], P)
    BY <2>1, TakesConcat
  <2> QED
    BY <2>2 DEF Takes, S, Joined
<1> HIDE DEF V
<1>6. Concats!FoldLeft(Joined, <<>>, lists) \in V
  BY <1>3, <1>4, <1>5, Concats!FoldLeftKeeps
<1>7. FoldLeft(Joined, <<>>, lists) = Concats!FoldLeft(Joined, <<>>, lists)
  BY DEF FoldLeft, Concats!FoldLeft, MapThenFoldSet, Concats!MapThenFoldSet, Max, Concats!Max
<1> QED
  BY <1>6, <1>7 DEF Concat, V

LEMMA DeleteFunctionDoes ==
  ASSUME NEW A, Standing(A), NEW f, Has(document.graphs, f), DeleteFunction(f)
  PROVE  Does(A)
<1>1. A \in Families /\ document \in A /\ Sound(document) /\ f \in Nat
  BY StandingGraph
<1>2. PICK others : others = Filter(document.graphs, LAMBDA graph : graph.id # f)
  OBVIOUS
<1>3. others \in Seq(GraphRecords)
  BY <1>1, <1>2, SelectedType DEF Filter, Sound, DocumentRecords
<1> DEFINE n == Len(others)
           lists == [i \in 1..n |-> RemoveAll(others[i], "nodes", Calls(others[i], f))]
<1>4. n \in Nat /\ DOMAIN others = 1..n
  BY <1>3
<1>5. \A i \in 1..n : Takes(A, lists[i], A)
  <2> TAKE i \in 1..n
  <2>1. others[i] \in GraphRecords
    BY <1>3
  <2> QED
    BY <1>1, <2>1, NodesRemoved
<1>6. lists = [i \in 1..n |-> lists[i]]
  OBVIOUS
<1>7. Perform(Append(Concat(lists), RemoveGraph(f)), 0)
  BY <1>2, <1>4 DEF DeleteFunction
<1> HIDE DEF lists, n
<1>8. Takes(A, Concat(lists), A)
  BY <1>4, <1>5, <1>6, ConcatTakes
<1>9. Takes(A, Append(Concat(lists), RemoveGraph(f)), A)
  BY <1>1, <1>8, GraphCut, TakesThen
<1> QED
  BY <1>1, <1>7, <1>9, DoesCommands

LEMMA AddParameterDoes ==
  ASSUME NEW A, Standing(A), NEW f, Has(document.graphs, f), AddParameter(f)
  PROVE  Does(A)
<1>1. PICK x : x = Graph(document, f)
  OBVIOUS
<1>2. A \in Families /\ document \in A /\ f \in Nat /\ minted \in Nat /\ x \in GraphRecords
  BY <1>1, StandingGraph
<1>3. PICK parameters : parameters = Append(x.parameters, minted + 1)
  OBVIOUS
<1>4. parameters \in Seq(Nat)
  <2>1. x.parameters \in Seq(Nat) /\ minted + 1 \in Nat
    BY <1>2 DEF GraphRecords
  <2> QED
    BY <1>3, <2>1
<1>5. Takes(A, << SetSignature(f, parameters) >>, A)
  BY <1>2, <1>4, SignatureSet, TakesOneCommand
<1>6. Perform(<< SetSignature(f, parameters) >>, 1)
  BY <1>1, <1>3 DEF AddParameter
<1> QED
  BY <1>2, <1>5, <1>6, DoesCommands

(* The literals of a parameter, at the calls of one graph.                  *)
LEMMA LiteralsCleared ==
  ASSUME NEW A, Standing(A), NEW x \in GraphRecords, Has(document.graphs, x.id),
         Graph(document, x.id) = x, NEW f, NEW p
  PROVE  Takes(Same(document, A), ParameterLiterals(x, f, p), Same(document, A))
<1>1. PICK nodes : nodes = Filter(x.nodes, LAMBDA n : n.id \in Calls(x, f)
                                                        /\ ParameterPort(p) \in n.literals)
  OBVIOUS
<1>2. x.nodes \in Seq(Records["nodes"]) /\ DOMAIN x.nodes = 1..Len(x.nodes)
  BY Lists
<1>3. PICK K \in SUBSET (1..Len(x.nodes)) : nodes = Selected(x.nodes, K)
  BY <1>1, <1>2 DEF Filter
<1>4. IsPart(nodes, Records["nodes"], x.nodes, K)
  BY <1>2, <1>3, PartFacts
<1> DEFINE m == Len(nodes)
           item(i) == [nodes[i] EXCEPT !.literals = @ \ {ParameterPort(p)}]
           s == [i \in 1..m |-> ReplaceItem(x.id, "nodes", item(i))]
<1>5. m \in Nat /\ DOMAIN nodes = 1..m
  BY <1>4 DEF IsPart
<1>6. \A i \in 1..m : nodes[i] \in Records["nodes"] /\ nodes[i] \in ToSet(x.nodes)
  <2> TAKE i \in 1..m
  <2>1. nodes[i] \in ToSet(nodes)
    BY <1>5 DEF ToSet
  <2> QED
    BY <1>4, <1>5, <2>1 DEF IsPart
<1>7. \A i \in 1..m : item(i) \in Records["nodes"] /\ item(i).id = nodes[i].id /\ item(i).type = nodes[i].type
  <2> TAKE i \in 1..m
  <2>1. PICK n \in Records["nodes"] : n = nodes[i]
    BY <1>6
  <2>2. PICK literals \in SUBSET Ports : literals = n.literals \ {ParameterPort(p)}
    BY DEF Records
  <2>3. item(i) = [n EXCEPT !.literals = literals]
    BY <2>1, <2>2
  <2> QED
    BY <2>1, <2>3, LiteralsChanged, SMTT(60)
<1>8. ParameterLiterals(x, f, p) = s
  BY <1>1, <1>5 DEF ParameterLiterals
<1> HIDE DEF item, m
<1>9. x.id \in Nat
  BY DEF GraphRecords
<1>10. \A i \in 1..m : s[i] = ReplaceItem(x.id, "nodes", item(i))
  OBVIOUS
<1>11. s \in [1..m -> ReplaceCommands]
  BY <1>7, <1>9, CommandTypes DEF Kinds
<1> HIDE DEF s
<1>12. s \in Seq(ReplaceCommands) /\ Len(s) = m
  BY <1>5, <1>11, FunctionSequence
<1>13. \A i \in 1..m : TakesOne(Same(document, A), ReplaceItem(x.id, "nodes", item(i)), Same(document, A))
  <2> TAKE i \in 1..m
  <2>1. PICK n \in ToSet(x.nodes) : n = nodes[i]
    BY <1>6
  <2>2. item(i) \in Records["nodes"] /\ item(i).id = n.id /\ item(i).type = n.type
    BY <1>7, <2>1
  <2> QED
    BY <2>2, NodeChanged
<1>14. \A i \in 1..Len(s) : TakesOne(Same(document, A), s[i], Same(document, A))
  BY <1>10, <1>12, <1>13
<1>15. s \in Seq(GraphCommands)
  BY <1>12 DEF GraphCommands
<1> QED
  BY <1>8, <1>14, <1>15, TakesKeeping

LEMMA RemoveParameterDoes ==
  ASSUME NEW A, Standing(A), NEW f, Has(document.graphs, f), NEW p, RemoveParameter(f, p)
  PROVE  Does(A)
<1>1. A \in Families /\ document \in A /\ Sound(document) /\ f \in Nat
  BY StandingGraph
<1>2. PICK graphs : graphs = document.graphs
  OBVIOUS
<1>3. graphs \in Seq(GraphRecords) /\ Distinct(graphs)
  BY <1>1, <1>2 DEF Sound, DocumentRecords, Intact
<1> DEFINE n == Len(graphs)
           cut == [i \in 1..n |-> RemoveAll(graphs[i], "edges", ParameterEdges(graphs[i], f, p))]
           cleared == [i \in 1..n |-> ParameterLiterals(graphs[i], f, p)]
           S == Same(document, A)
<1>4. n \in Nat /\ DOMAIN graphs = 1..n
  BY <1>3
<1>5. CleanupParameter(f, p) = Concat(cut) \o Concat(cleared)
  BY <1>2, <1>4 DEF CleanupParameter
<1>6. \A i \in 1..n : Takes(S, cut[i], S)
  <2> TAKE i \in 1..n
  <2>1. graphs[i] \in GraphRecords
    BY <1>3
  <2> QED
    BY <1>1, <2>1, EdgesRemovedSame
<1>7. \A i \in 1..n : Takes(S, cleared[i], S)
  <2> TAKE i \in 1..n
  <2>1. PICK x \in GraphRecords : x = graphs[i]
    BY <1>3
  <2>2. Has(graphs, x.id) /\ Item(graphs, x.id) = x
    BY <1>3, <2>1, ItemAt
  <2>3. Has(document.graphs, x.id) /\ Graph(document, x.id) = x
    BY <1>2, <2>2 DEF Graph
  <2> QED
    BY <2>1, <2>3, LiteralsCleared
<1>8. cut = [i \in 1..n |-> cut[i]] /\ cleared = [i \in 1..n |-> cleared[i]]
  OBVIOUS
<1> HIDE DEF cut, cleared, n, S
<1>9. Takes(S, Concat(cut), S) /\ Takes(S, Concat(cleared), S)
  BY <1>4, <1>6, <1>7, <1>8, ConcatTakes
<1>10. Takes(S, CleanupParameter(f, p), S)
  BY <1>5, <1>9, TakesConcat
<1>11. Takes(S, CleanupParameter(f, p), A) /\ document \in S
  BY <1>10, DocumentIsSame, TakesWeaker DEF S
<1>12. PICK parameters : parameters = Filter(Graph(document, f).parameters, LAMBDA q : q # p)
  OBVIOUS
<1>13. parameters \in Seq(Nat)
  <2>1. Graph(document, f).parameters \in Seq(Nat)
    BY StandingGraph DEF GraphRecords
  <2> QED
    BY <1>12, <2>1, SelectedType DEF Filter
<1>14. Takes(S, Append(CleanupParameter(f, p), SetSignature(f, parameters)), A)
  BY <1>1, <1>11, <1>13, SignatureSet, TakesThen
<1>15. Perform(Append(CleanupParameter(f, p), SetSignature(f, parameters)), 0)
  BY <1>12 DEF RemoveParameter
<1> QED
  BY <1>11, <1>14, <1>15, DoesCommands

(* Every operation but copying.                                             *)
Copying == \E g \in GraphIds(document) : \E S : Copy(g, S)
LEMMA KnownGraphs ==
  /\ \A g \in GraphIds(document) : Has(document.graphs, g)
  /\ \A f \in Functions(document) : Has(document.graphs, f)
BY DEF GraphIds, Functions, Has

LEMMA ConnectingDoes ==
  ASSUME NEW A, Standing(A), NEW g, Has(document.graphs, g),
         NEW c \in Candidates(document, Graph(document, g)),
         Connect(g, c) \/ Repeat(g, c) \/ \E e \in EdgeIds(Graph(document, g)) : Reconnect(g, e, c)
  PROVE  Does(A)
<1>1. PICK x : x = Graph(document, g)
  OBVIOUS
<1>2. CASE Connect(g, c)
  <2>1. Perform(Append(RemoveAll(x, "edges", Displaced(x, c)),
                       AddItem(g, "edges", Edge(minted + 1, Kind(c), c))), 1)
    BY <1>1, <1>2 DEF Connect
  <2> QED
    BY <1>1, <2>1, ConnectDoes
<1>3. CASE \E e \in EdgeIds(x) : Reconnect(g, e, c)
  <2>1. PICK e : Reconnect(g, e, c)
    BY <1>3
  <2>2. PICK ids : ids = {e} \cup Displaced(x, c)
    OBVIOUS
  <2>3. Perform(Append(RemoveAll(x, "edges", ids),
                       AddItem(g, "edges", Edge(minted + 1, Kind(c), c))), 1)
    BY <1>1, <2>1, <2>2 DEF Reconnect
  <2>4. Displaced(x, c) \subseteq ids
    BY <2>2
  <2> QED
    BY <1>1, <2>3, <2>4, ConnectDoes
<1>4. CASE Repeat(g, c)
  BY <1>4, RepeatDoes
<1> QED
  BY <1>1, <1>2, <1>3, <1>4

LEMMA CanvasDoes ==
  ASSUME NEW A, Standing(A), NEW g \in GraphIds(document), OnCanvas(g),
         ~\E S : Copy(g, S)
  PROVE  Does(A)
<1>1. PICK x : x = Graph(document, g)
  OBVIOUS
<1>2. Has(document.graphs, g)
  BY KnownGraphs
<1>3. CASE \E type \in {"step", "value"} : InsertNode(g, type)
  BY <1>2, <1>3, InsertNodeDoes
<1>4. CASE InsertTemplate(g)
  BY <1>2, <1>4, InsertTemplateDoes
<1>5. CASE \E n \in ToSet(x.nodes) : \E port \in DataInputs(document, n) : SetInputValue(g, n, port)
  BY <1>1, <1>2, <1>5, SetInputValueDoes
<1>6. CASE \E c \in Candidates(document, x) :
             Connect(g, c) \/ Repeat(g, c) \/ \E e \in EdgeIds(x) : Reconnect(g, e, c)
  BY <1>1, <1>2, <1>6, ConnectingDoes
<1>7. CASE \E origin \in Ends(x), n \in ToSet(x.nodes) :
             \E port \in IF origin.side = "output" THEN Outputs(x, n) ELSE Inputs(document, n) :
               Retarget(g, origin, [node |-> n.id, port |-> port, side |-> origin.side])
  BY <1>1, <1>2, <1>7, RetargetDoes
<1>8. CASE \E i \in DOMAIN x.hints : RemoveRepeat(g, x.hints[i].id)
  BY <1>1, <1>2, <1>8, RemoveRepeatDoes
<1>9. CASE \E S \in EdgeSelections(x) : RemoveEdges(g, S)
  BY <1>2, <1>9, RemoveEdgesDoes
<1>10. CASE \E S \in Selections(x) : RemoveNodes(g, S) \/ Duplicate(g, S)
  BY <1>2, <1>10, RemoveNodesDoes, DuplicateDoes
<1>11. CASE Paste(g)
  BY <1>2, <1>11, PasteDoes
<1> QED
  BY <1>1, <1>3, <1>4, <1>5, <1>6, <1>7, <1>8, <1>9, <1>10, <1>11 DEF OnCanvas

LEMMA TaskDialogDoes ==
  ASSUME NEW A, Standing(A), InTaskDialog
  PROVE  Does(A)
<1>1. CASE CreateTask
  BY <1>1, CreateTaskDoes
<1>2. CASE \E g \in GraphIds(document) : DuplicateTask(g) \/ DeleteTask(g) \/ SetDefaultTask(g)
  BY <1>2, KnownGraphs, DuplicateTaskDoes, DeleteTaskDoes, SetDefaultTaskDoes
<1> QED
  BY <1>1, <1>2 DEF InTaskDialog

LEMMA FunctionLibraryDoes ==
  ASSUME NEW A, Standing(A), InFunctionLibrary
  PROVE  Does(A)
<1>1. CASE CreateFunction
  BY <1>1, CreateFunctionDoes
<1>2. CASE \E f \in Functions(document) : DeleteFunction(f)
  BY <1>2, KnownGraphs, DeleteFunctionDoes
<1>3. CASE \E f \in Functions(document), g \in GraphIds(document) : InsertCall(g, f)
  BY <1>3, KnownGraphs, InsertCallDoes
<1>4. CASE \E f \in Functions(document) : AddParameter(f)
  BY <1>4, KnownGraphs, AddParameterDoes
<1>5. CASE \E f \in Functions(document) : \E p : RemoveParameter(f, p)
  BY <1>5, KnownGraphs, RemoveParameterDoes
<1> QED
  BY <1>1, <1>2, <1>3, <1>4, <1>5 DEF InFunctionLibrary

(* So every step is a command that fits, a copy, or a move along the        *)
(* history.                                                                 *)
LEMMA StepsAre ==
  ASSUME NEW A, Standing(A), Next
  PROVE  Does(A) \/ Copying \/ Undo \/ Redo \/ Save
<1>1. CASE \E g \in GraphIds(document) : OnCanvas(g)
  <2>1. PICK g \in GraphIds(document) : OnCanvas(g)
    BY <1>1
  <2>2. CASE \E S : Copy(g, S)
    BY <2>2 DEF Copying
  <2>3. CASE ~\E S : Copy(g, S)
    BY <2>1, <2>3, CanvasDoes
  <2> QED
    BY <2>2, <2>3
<1>2. CASE InTaskDialog
  BY <1>2, TaskDialogDoes
<1>3. CASE InFunctionLibrary
  BY <1>3, FunctionLibraryDoes
<1> QED
  BY <1>1, <1>2, <1>3 DEF Next

-----------------------------------------------------------------------------
(* The invariant.                                                           *)

LEMMA DocumentStands ==
  ASSUME IInv
  PROVE  Standing(DocumentRecords)
<1>1. EditingTyped /\ document \in DocumentRecords /\ clipboard \in Fragments
  BY DEF IInv, EditingTyped, Sound
<1>2. ASSUME DocumentRecords = WiredRecords PROVE GraphWired(clipboard)
  <2>1. PICK f \in Fragments : f = clipboard
    BY <1>1
  <2>2. PICK x : x = [id |-> 0, kind |-> "entry", parameters |-> <<>>, nodes |-> f.nodes,
                      edges |-> f.edges, groups |-> f.groups, hints |-> f.hints]
    OBVIOUS
  <2>3. x \in GraphRecords
    BY <2>2, FragmentFields DEF GraphRecords
  <2>4. PICK graphs \in Seq(GraphRecords) : Len(graphs) = 1 /\ graphs[1] = x
    <3>1. ASSUME NEW S, NEW y \in S PROVE <<y>> \in Seq(S) /\ Len(<<y>>) = 1 /\ <<y>>[1] = y
      OBVIOUS
    <3> QED
      BY <2>3, <3>1
  <2>5. PICK d : d = [entry |-> 0, graphs |-> graphs]
    OBVIOUS
  <2>6. d \in DocumentRecords /\ d.graphs[1] = x /\ 1 \in DOMAIN d.graphs
    BY <2>4, <2>5 DEF DocumentRecords
  <2>7. GraphWired(x)
    BY <1>2, <2>6 DEF WiredRecords, Wired
  <2>8. x.nodes = f.nodes /\ x.edges = f.edges
    BY <2>2
  <2> QED
    BY <2>1, <2>7, <2>8 DEF GraphWired
<1> QED
  BY <1>1, <1>2 DEF Standing, Families

LEMMA InitHolds ==
  ASSUME Init
  PROVE  IInv
<1>1. Sound(document)
  BY EditingAssumption DEF Init, Sound
<1>2. minted \in Nat /\ clipboard \in Fragments
  BY EmptyFragmentFacts DEF Init
<1>3. <<>> \in Seq(Entries) /\ Len(<<>>) = 0
  OBVIOUS
<1>4. HistoryTyped
  <2>1. undoable \in Seq(Entries) /\ redoable \in Seq(Entries)
        /\ Len(undoable) = 0 /\ Len(redoable) = 0
    BY <1>3 DEF Init
  <2>2. position = [saved |-> 0, next |-> 1] /\ truncated \in BOOLEAN
    BY DEF Init
  <2>3. /\ position \in [saved : Nat, next : Nat \ {0}]
        /\ position.saved < position.next /\ position.next <= MaxCommands + 1
    BY <2>2, EditingAssumption
  <2>4. Len(undoable) + Len(redoable) <= MaxHistory
    BY <2>1, EditingAssumption
  <2> QED
    BY <2>1, <2>2, <2>3, <2>4 DEF HistoryTyped
<1>5. Chained /\ Ordered /\ MarkIsTrue
  BY <1>3 DEF Init, Chained, Ordered, MarkIsTrue, Bottom
<1> QED
  BY <1>1, <1>2, <1>4, <1>5 DEF IInv, EditingTyped, History

LEMMA CopyKeeps ==
  ASSUME NEW A, Standing(A), Copying
  PROVE  /\ clipboard' \in Fragments /\ (A = WiredRecords => GraphWired(clipboard'))
         /\ UNCHANGED <<document, undoable, redoable, position, truncated, minted, saved>>
<1>1. PICK g \in GraphIds(document) : \E S : Copy(g, S)
  BY DEF Copying
<1>2. PICK S : Copy(g, S)
  BY <1>1
<1>3. PICK x : x = Graph(document, g)
  OBVIOUS
<1>4. x \in GraphRecords /\ GraphIntact(x) /\ Suits(A, x)
  BY <1>3, KnownGraphs, StandingGraph
<1>5. clipboard' = Fragment(x, S)
  BY <1>2, <1>3 DEF Copy
<1>6. clipboard' \in Fragments /\ (A = WiredRecords => GraphWired(clipboard'))
  BY <1>4, <1>5, FragmentFacts DEF Suits
<1> QED
  BY <1>2, <1>6 DEF Copy

LEMMA StepKeeps ==
  ASSUME IInv, [Next]_vars
  PROVE  IInv'
<1>1. Sound(document) /\ minted \in Nat /\ clipboard \in Fragments /\ History
  BY DEF IInv, EditingTyped
<1>2. Standing(DocumentRecords)
  BY DocumentStands
<1>3. CASE Does(DocumentRecords)
  <2>1. PICK cs, used : /\ used \in Nat /\ Legal(document, cs, DocumentRecords)
                        /\ Perform(cs, used)
    BY <1>3 DEF Does
  <2>2. Sound(document') /\ History'
    BY <1>1, <2>1, PerformKeepsHistory
  <2>3. minted' = minted + used /\ clipboard' = clipboard
    BY <2>1 DEF Perform
  <2>4. minted' \in Nat
    BY <1>1, <2>1, <2>3
  <2> QED
    BY <1>1, <2>2, <2>3, <2>4 DEF IInv, EditingTyped
<1>4. CASE Copying
  <2>1. /\ clipboard' \in Fragments
        /\ UNCHANGED <<document, undoable, redoable, position, truncated, minted, saved>>
    BY <1>2, <1>4, CopyKeeps
  <2>2. History'
    BY <1>1, <2>1, NothingDoneKeepsHistory
  <2> QED
    BY <1>1, <2>1, <2>2 DEF IInv, EditingTyped
<1>5. CASE Undo
  <2>1. Sound(document') /\ History'
    BY <1>1, <1>5, UndoKeepsHistory
  <2> QED
    BY <1>1, <1>5, <2>1 DEF IInv, EditingTyped, Undo
<1>6. CASE Redo
  <2>1. Sound(document') /\ History'
    BY <1>1, <1>6, RedoKeepsHistory
  <2> QED
    BY <1>1, <1>6, <2>1 DEF IInv, EditingTyped, Redo
<1>7. CASE Save
  <2>1. History'
    BY <1>1, <1>7, SaveKeepsHistory
  <2> QED
    BY <1>1, <1>7, <2>1 DEF IInv, EditingTyped, Save
<1>8. CASE UNCHANGED vars
  <2>1. History'
    BY <1>1, <1>8, NothingDoneKeepsHistory DEF vars
  <2> QED
    BY <1>1, <1>8, <2>1 DEF IInv, EditingTyped, vars
<1> QED
  BY <1>2, <1>3, <1>4, <1>5, <1>6, <1>7, <1>8, StepsAre

LEMMA InvariantHolds == Spec => []IInv
<1>1. Init => IInv
  BY InitHolds
<1>2. IInv /\ [Next]_vars => IInv'
  BY StepKeeps
<1> QED
  BY <1>1, <1>2, PTL DEF Spec

(* The history and its marks keep their shape (command-history.ts:          *)
(* CommandHistory).                                                         *)
THEOREM EditingTypes == Spec => []TypeOK
<1>1. IInv => TypeOK
  <2> SUFFICES ASSUME IInv PROVE TypeOK
    OBVIOUS
  <2>1. Sound(document) /\ minted \in Nat /\ HistoryTyped /\ Ordered
    BY DEF IInv, EditingTyped, History
  <2>2. document.entry \in GraphIds(document)
    BY <2>1 DEF Sound, Intact, Has, GraphIds
  <2>3. undoable \in Seq(Entries) /\ Len(undoable) <= MaxHistory
    <3>1. undoable \in Seq(Entries) /\ redoable \in Seq(Entries)
          /\ Len(undoable) + Len(redoable) <= MaxHistory
      BY <2>1 DEF HistoryTyped
    <3>2. Len(undoable) \in Nat /\ Len(redoable) \in Nat
      BY <3>1
    <3> QED
      BY <3>1, <3>2, EditingAssumption
  <2>4. position \in [saved : 0..MaxCommands, next : 1..MaxCommands + 1]
        /\ position.next \in Nat \ {0}
    <3>1. /\ position \in [saved : Nat, next : Nat \ {0}]
          /\ position.saved < position.next /\ position.next <= MaxCommands + 1
      BY <2>1 DEF HistoryTyped
    <3>2. position.saved \in 0..MaxCommands /\ position.next \in 1..MaxCommands + 1
      BY <3>1, EditingAssumption
    <3> QED
      BY <3>1, <3>2
  <2>5. CurrentPosition < position.next
    <3>1. CASE undoable = <<>>
      BY <2>4, <3>1 DEF CurrentPosition
    <3>2. CASE undoable # <<>>
      <4>1. Len(undoable) \in Nat \ {0} /\ Last(undoable) = undoable[Len(undoable)]
        BY <2>3, <3>2, FrontFacts
      <4> QED
        BY <2>1, <3>2, <4>1 DEF CurrentPosition, Ordered
    <3> QED
      BY <3>1, <3>2
  <2>6. truncated \in BOOLEAN
    BY <2>1 DEF HistoryTyped
  <2> QED
    BY <2>1, <2>2, <2>3, <2>4, <2>5, <2>6 DEF TypeOK
<1> QED
  BY <1>1, InvariantHolds, PTL

(* Whatever is cut, pasted, duplicated, deleted, undone and redone, the     *)
(* document stays sound inside (graph-commands.ts).                         *)
THEOREM DocumentsStayIntact == Spec => []DocumentIntact
<1>1. IInv => DocumentIntact
  BY DEF IInv, EditingTyped, Sound, DocumentIntact
<1> QED
  BY <1>1, InvariantHolds, PTL

(* As long as no entry was dropped, a history without unsaved changes       *)
(* stands at the saved document (command-history.ts: dirty, markSaved).     *)
THEOREM CleanMeansSaved == Spec => []CleanIsSaved
<1>1. IInv => CleanIsSaved
  BY HistoryIsClean DEF IInv
<1> QED
  BY <1>1, InvariantHolds, PTL

(* Commands and their inverses walk a line of documents: undoing restores   *)
(* the very document that was there, and redoing the one that was undone    *)
(* (command-history.ts: perform, undo, redo).                               *)
THEOREM HistoryIsLinear == Spec => ImplementsLinearHistory
<1>1. Init => Line!Init
  <2> SUFFICES ASSUME Init PROVE Line!Init
    OBVIOUS
  <2>1. undoable = <<>> /\ redoable = <<>>
    BY DEF Init
  <2> QED
    BY <2>1, Columns, EmptyColumn DEF Line!Init
<1>2. IInv /\ [Next]_vars => [Line!Next]_(Line!vars)
  <2> SUFFICES ASSUME IInv, [Next]_vars PROVE [Line!Next]_(Line!vars)
    OBVIOUS
  <2>1. Sound(document) /\ History /\ Standing(DocumentRecords)
    BY DocumentStands DEF IInv, EditingTyped
  <2>2. CASE Does(DocumentRecords)
    <3>1. PICK cs, used : Legal(document, cs, DocumentRecords) /\ Perform(cs, used)
      BY <2>2 DEF Does
    <3>2. Line!Edit
      BY <2>1, <3>1, PerformIsEdit
    <3> QED
      BY <3>2 DEF Line!Next
  <2>3. CASE UNCHANGED <<document, undoable, redoable>>
    BY <2>3 DEF Line!vars, Past, Future
  <2>4. CASE Undo
    BY <2>1, <2>4, UndoIsUndo DEF Line!Next
  <2>5. CASE Redo
    BY <2>1, <2>5, RedoIsRedo DEF Line!Next
  <2>6. Copying \/ Save \/ UNCHANGED vars => UNCHANGED <<document, undoable, redoable>>
    BY DEF Copying, Copy, Save, vars
  <2> QED
    BY <2>1, <2>2, <2>3, <2>4, <2>5, <2>6, StepsAre
<1> QED
  BY <1>1, <1>2, InvariantHolds, PTL DEF Spec, Line!Spec, ImplementsLinearHistory

-----------------------------------------------------------------------------
(* The rules of the canvas.                                                 *)

LEMMA GraphWithinRules ==
  ASSUME NEW x \in GraphRecords, Distinct(x.nodes)
  PROVE  GraphWired(x) <=>
           /\ \A e, f \in ToSet(x.edges) :
                \/ e = f
                \/ e.kind # f.kind
                \/ e.kind = "data" /\ <<e.to, e.in>> # <<f.to, f.in>>
                \/ e.kind = "execution" /\ <<e.from, e.out>> # <<f.from, f.out>>
           /\ \A e \in DataEdges(x) : e.to \in PureNodes(x) => ~DependsOn(x, e.from, e.to)
<1> DEFINE D == ToSet(x.edges)
           P == Pure(ToSet(x.nodes))
<1>1. \A e \in D : e.kind \in {"execution", "data"}
  BY EdgesTyped DEF Records
<1>2. ASSUME NEW e \in D, NEW f \in D
      PROVE  (SamePlace(e, f) => e = f) <=>
               \/ e = f
               \/ e.kind # f.kind
               \/ e.kind = "data" /\ <<e.to, e.in>> # <<f.to, f.in>>
               \/ e.kind = "execution" /\ <<e.from, e.out>> # <<f.from, f.out>>
  <2>1. \A a, b, c, d : <<a, b>> = <<c, d>> <=> a = c /\ b = d
    OBVIOUS
  <2>2. e.kind = "data" \/ (e.kind = "execution" /\ e.kind # "data")
    BY <1>1
  <2> HIDE DEF D
  <2> QED
    BY <2>1, <2>2 DEF SamePlace
<1>3. DataEdges(x) = Data(D) /\ PureNodes(x) = P
  BY PureIsPure DEF DataEdges, Data
<1>4. ASSUME NEW e \in Data(D), e.to \in P
      PROVE  ~DependsOn(x, e.from, e.to) <=>
               (e.from \in P => \E S \in SUBSET P : Closed(S, P, Data(D)) /\ e.from \in S /\ e.to \notin S)
  <2>1. CASE e.from \in P
    BY <2>1, DependsFacts
  <2>2. CASE e.from \notin P
    BY <1>3, <2>2 DEF DependsOn
  <2> QED
    BY <2>1, <2>2
<1> HIDE DEF D, P
<1>5. OneEach(D) <=>
        \A e, f \in D :
          \/ e = f
          \/ e.kind # f.kind
          \/ e.kind = "data" /\ <<e.to, e.in>> # <<f.to, f.in>>
          \/ e.kind = "execution" /\ <<e.from, e.out>> # <<f.from, f.out>>
  BY <1>2 DEF OneEach
<1>6. Acyclic(P, Data(D)) <=>
        \A e \in DataEdges(x) : e.to \in PureNodes(x) => ~DependsOn(x, e.from, e.to)
  BY <1>3, <1>4 DEF Acyclic
<1> QED
  BY <1>5, <1>6 DEF GraphWired, Wiring, D, P

LEMMA WiredIsWithinRules ==
  ASSUME NEW d, Sound(d)
  PROVE  Wired(d) <=> WithinRules(d)
<1>1. ASSUME NEW i \in DOMAIN d.graphs
      PROVE  d.graphs[i] \in GraphRecords /\ Distinct(d.graphs[i].nodes)
  <2>1. d.graphs[i] \in GraphRecords
    BY <1>1 DEF Sound, DocumentRecords
  <2> QED
    BY <1>1, <2>1 DEF Sound, Intact, GraphIntact
<1>2. ASSUME NEW i \in DOMAIN d.graphs
      PROVE  GraphWired(d.graphs[i]) <=>
        LET x == d.graphs[i] IN
           /\ \A e, f \in ToSet(x.edges) :
                \/ e = f
                \/ e.kind # f.kind
                \/ e.kind = "data" /\ <<e.to, e.in>> # <<f.to, f.in>>
                \/ e.kind = "execution" /\ <<e.from, e.out>> # <<f.from, f.out>>
           /\ \A e \in DataEdges(x) : e.to \in PureNodes(x) => ~DependsOn(x, e.from, e.to)
  BY <1>1, <1>2, GraphWithinRules
<1> QED
  BY <1>2 DEF Wired, WithinRules

LEMMA InOrderInit ==
  ASSUME Init, \A opened \in Documents : WithinRules(opened)
  PROVE  InOrder
<1>1. Sound(document) /\ WithinRules(document)
  BY EditingAssumption DEF Init, Sound
<1>2. Wired(document)
  BY <1>1, WiredIsWithinRules
<1>3. undoable = <<>> /\ redoable = <<>> /\ clipboard = EmptyFragment
  BY DEF Init
<1> QED
  BY <1>2, <1>3, EmptyFragmentFacts DEF InOrder

LEMMA OrderStands ==
  ASSUME IInv, InOrder
  PROVE  Standing(WiredRecords)
BY DEF IInv, InOrder, EditingTyped, Sound, Standing, Families, WiredRecords

LEMMA PerformInOrder ==
  ASSUME IInv, InOrder, NEW cs, NEW used, Legal(document, cs, WiredRecords), Perform(cs, used)
  PROVE  InOrder'
<1>1. Sound(document) /\ undoable \in Seq(Entries) /\ position.next \in Nat \ {0}
  BY DEF IInv, EditingTyped, History, HistoryTyped
<1>2. PICK e \in Entries :
        /\ e.was = document /\ undoable' = LastEntries(Append(undoable, e)) /\ redoable' = <<>>
        /\ document' \in WiredRecords
  BY <1>1, PerformMakes
<1>3. Wired(document')
  BY <1>2 DEF WiredRecords
<1>4. GraphWired(clipboard')
  BY DEF InOrder, Perform
<1>5. PICK s : s = Append(undoable, e)
  OBVIOUS
<1>6. s \in Seq(Entries) /\ Len(s) = Len(undoable) + 1 /\ Len(undoable) \in Nat
  BY <1>1, <1>5
<1>7. \A i \in 1..Len(s) : Wired(s[i].was)
  <2> TAKE i \in 1..Len(s)
  <2>1. CASE i \in 1..Len(undoable)
    BY <1>1, <1>5, <2>1 DEF InOrder
  <2>2. CASE i = Len(undoable) + 1
    BY <1>1, <1>2, <1>5, <2>2 DEF InOrder
  <2> QED
    BY <1>6, <2>1, <2>2
<1>8. IsEnd(undoable', Entries, s, Dropped(s))
  BY <1>2, <1>5, <1>6, LastEntriesFacts
<1>9. \A i \in 1..Len(undoable') : Wired(undoable'[i].was)
  <2> TAKE i \in 1..Len(undoable')
  <2>1. PICK k \in 0..Len(s) : k = Dropped(s) /\ Len(undoable') = Len(s) - k
    BY <1>8 DEF IsEnd
  <2>2. undoable'[i] = s[i + k] /\ i + k \in 1..Len(s)
    BY <1>6, <1>8, <2>1 DEF IsEnd
  <2> QED
    BY <1>7, <2>2
<1> QED
  BY <1>2, <1>3, <1>4, <1>9 DEF InOrder

LEMMA UndoInOrder ==
  ASSUME IInv, InOrder, Undo
  PROVE  InOrder'
<1>1. /\ undoable \in Seq(Entries) /\ redoable \in Seq(Entries)
  BY DEF IInv, History, HistoryTyped
<1>2. /\ undoable # <<>> /\ document' = Apply(document, Last(undoable).inverse).document
      /\ undoable' = Front(undoable) /\ redoable' = Append(redoable, Last(undoable))
      /\ clipboard' = clipboard
  BY DEF Undo
<1>3. /\ Last(undoable) = undoable[Len(undoable)] /\ Last(undoable) \in Entries
      /\ Len(undoable) \in Nat \ {0} /\ Len(Front(undoable)) = Len(undoable) - 1
      /\ \A i \in 1..Len(undoable) - 1 : Front(undoable)[i] = undoable[i]
  BY <1>1, <1>2, FrontFacts
<1>4. Last(undoable).became = document
  BY <1>3 DEF IInv, History, Chained
<1>5. document' = Last(undoable).was
  BY <1>2, <1>3, <1>4, EntryFields DEF Restores
<1>6. Wired(document')
  BY <1>3, <1>5 DEF InOrder
<1>7. \A i \in 1..Len(undoable') : Wired(undoable'[i].was)
  <2> TAKE i \in 1..Len(undoable')
  <2>1. i \in 1..Len(undoable) - 1 /\ i \in 1..Len(undoable)
    BY <1>2, <1>3
  <2> QED
    BY <1>2, <1>3, <2>1 DEF InOrder
<1>8. Len(redoable') = Len(redoable) + 1 /\ Len(redoable) \in Nat
  BY <1>1, <1>2
<1>9. \A i \in 1..Len(redoable') : Wired(redoable'[i].became)
  <2> TAKE i \in 1..Len(redoable')
  <2>1. CASE i \in 1..Len(redoable)
    BY <1>1, <1>2, <2>1 DEF InOrder
  <2>2. CASE i = Len(redoable) + 1
    BY <1>1, <1>2, <1>4, <2>2 DEF InOrder
  <2> QED
    BY <1>8, <2>1, <2>2
<1>10. GraphWired(clipboard')
  BY <1>2 DEF InOrder
<1> QED
  BY <1>6, <1>7, <1>9, <1>10 DEF InOrder

LEMMA RedoInOrder ==
  ASSUME IInv, InOrder, Redo
  PROVE  InOrder'
<1>1. /\ undoable \in Seq(Entries) /\ redoable \in Seq(Entries)
  BY DEF IInv, History, HistoryTyped
<1>2. /\ redoable # <<>> /\ document' = Apply(document, Last(redoable).commands).document
      /\ redoable' = Front(redoable) /\ undoable' = Append(undoable, Last(redoable))
      /\ clipboard' = clipboard
  BY DEF Redo
<1>3. /\ Last(redoable) = redoable[Len(redoable)] /\ Last(redoable) \in Entries
      /\ Len(redoable) \in Nat \ {0} /\ Len(Front(redoable)) = Len(redoable) - 1
      /\ \A i \in 1..Len(redoable) - 1 : Front(redoable)[i] = redoable[i]
  BY <1>1, <1>2, FrontFacts
<1>4. Last(redoable).was = document
  BY <1>3 DEF IInv, History, Chained
<1>5. document' = Last(redoable).became
  BY <1>2, <1>3, <1>4, EntryFields DEF Restores
<1>6. Wired(document')
  BY <1>3, <1>5 DEF InOrder
<1>7. \A i \in 1..Len(redoable') : Wired(redoable'[i].became)
  <2> TAKE i \in 1..Len(redoable')
  <2>1. i \in 1..Len(redoable) - 1 /\ i \in 1..Len(redoable)
    BY <1>2, <1>3
  <2> QED
    BY <1>2, <1>3, <2>1 DEF InOrder
<1>8. Len(undoable') = Len(undoable) + 1 /\ Len(undoable) \in Nat
  BY <1>1, <1>2
<1>9. \A i \in 1..Len(undoable') : Wired(undoable'[i].was)
  <2> TAKE i \in 1..Len(undoable')
  <2>1. CASE i \in 1..Len(undoable)
    BY <1>1, <1>2, <2>1 DEF InOrder
  <2>2. CASE i = Len(undoable) + 1
    BY <1>1, <1>2, <1>4, <2>2 DEF InOrder
  <2> QED
    BY <1>8, <2>1, <2>2
<1>10. GraphWired(clipboard')
  BY <1>2 DEF InOrder
<1> QED
  BY <1>6, <1>7, <1>9, <1>10 DEF InOrder

LEMMA OrderKept ==
  ASSUME IInv, InOrder, [Next]_vars
  PROVE  InOrder'
<1>1. Standing(WiredRecords)
  BY OrderStands
<1>2. CASE Does(WiredRecords)
  BY <1>2, PerformInOrder DEF Does
<1>3. CASE Copying
  BY <1>1, <1>3, CopyKeeps DEF InOrder
<1>4. CASE Save
  BY <1>4 DEF InOrder, Save
<1>5. CASE UNCHANGED vars
  BY <1>5 DEF InOrder, vars
<1> QED
  BY <1>1, <1>2, <1>3, <1>4, <1>5, StepsAre, UndoInOrder, RedoInOrder

(* When the documents opened keep to the rules of the canvas, no sequence   *)
(* of operations, undone and redone, leaves a document that does not, nor   *)
(* one with a part that dangles (connection-rules.ts, graph-commands.ts).   *)
THEOREM DocumentsStaySound ==
  ASSUME \A opened \in Documents : WithinRules(opened)
  PROVE  Spec => []DocumentIsSound
<1>1. Init => InOrder
  BY InOrderInit
<1>2. IInv /\ InOrder /\ [Next]_vars => InOrder'
  BY OrderKept
<1>3. IInv /\ InOrder => DocumentIntact /\ WiringStaysWithinRules
  BY WiredIsWithinRules
     DEF IInv, InOrder, EditingTyped, Sound, DocumentIntact, WiringStaysWithinRules
<1>4. DocumentIsSound <=> TypeOK /\ DocumentIntact /\ WiringStaysWithinRules
  BY DEF DocumentIsSound
<1> QED
  BY <1>1, <1>2, <1>3, <1>4, InvariantHolds, EditingTypes, PTL DEF Spec
=============================================================================
