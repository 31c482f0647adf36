------------------------------ MODULE ListFacts ------------------------------
(***************************************************************************)
(* What the proofs need to know about the sequences of the models: which   *)
(* elements a channel holds, how often, and what sending (Append) and      *)
(* receiving (Head, Tail) do to that; which elements a filter leaves; and  *)
(* what folding an operator over a sequence keeps.  Only the last concerns *)
(* Step, which stands for any operator: a module that folds one takes the  *)
(* facts about it from an instance.                                        *)
(***************************************************************************)
EXTENDS Integers, Sequences, SequencesExt, Lists, SequenceTheorems, FiniteSetTheorems,
        TLAPS

CONSTANT Step(_, _)

(* Induction for sets of numbers: were x the first number that is not in   *)
(* S, adding one would map the numbers of S up to x into fewer numbers and *)
(* keep them apart.                                                        *)
LEMMA NatSetInduction ==
  ASSUME NEW S, 0 \in S, \A n \in Nat : n \in S => n + 1 \in S
  PROVE  Nat \subseteq S
<1> SUFFICES ASSUME NEW x \in Nat, x \notin S PROVE FALSE
  OBVIOUS
<1> DEFINE A == {n \in 0..x : n \in S}
           f == [n \in A |-> n + 1]
           B == A \ {0}
<1>1. \A n \in A : n + 1 \in B
  OBVIOUS
<1>2. f \in [A -> B] /\ \A a, b \in A : f[a] = f[b] => a = b
  BY <1>1
<1>3. IsFiniteSet(A) /\ IsFiniteSet(B)
  <2>1. A \in SUBSET (0..x) /\ B \in SUBSET (0..x)
    OBVIOUS
  <2>2. IsFiniteSet(0..x)
    BY FS_Interval
  <2> HIDE DEF A, B
  <2> QED
    BY <2>1, <2>2, FS_Subset
<1>4. Cardinality(B) < Cardinality(A)
  <2>1. 0 \in A
    OBVIOUS
  <2> HIDE DEF A
  <2>2. Cardinality(B) = Cardinality(A) - 1
    BY <1>3, <2>1, FS_RemoveElement
  <2>3. Cardinality(A) \in Nat
    BY <1>3, FS_CardinalityType
  <2> QED
    BY <2>2, <2>3
<1> HIDE DEF A, B, f
<1>5. \E a, b \in A : a # b /\ f[a] = f[b]
  BY <1>2, <1>3, <1>4, FS_PigeonHole
<1> QED
  BY <1>2, <1>5

-----------------------------------------------------------------------------
(* Channels.                                                               *)

\* No element of s is in S; at most one is.
Absent(s, S) == \A i \in DOMAIN s : s[i] \notin S
Once(s, S)   == \A i, j \in DOMAIN s : s[i] \in S /\ s[j] \in S => i = j

(* A function of the first numbers is a sequence.                          *)
LEMMA FunctionSequence ==
  ASSUME NEW T, NEW n \in Nat, NEW s \in [1..n -> T]
  PROVE  s \in Seq(T) /\ Len(s) = n
OBVIOUS

(* Where the elements of a channel are after a message is sent, and after   *)
(* one is received.                                                        *)
LEMMA AppendIndex ==
  ASSUME NEW T, NEW s \in Seq(T), NEW e \in T
  PROVE  /\ Append(s, e) \in Seq(T) /\ Append(s, e) # <<>>
         /\ Len(s) \in Nat /\ DOMAIN s = 1..Len(s)
         /\ DOMAIN Append(s, e) = DOMAIN s \cup {Len(s) + 1}
         /\ \A i \in DOMAIN s : Append(s, e)[i] = s[i] /\ i < Len(s) + 1
         /\ Append(s, e)[Len(s) + 1] = e
<1>1. /\ Append(s, e) \in Seq(T) /\ Append(s, e) # <<>>
      /\ DOMAIN s = 1..Len(s) /\ Len(s) \in Nat
      /\ DOMAIN Append(s, e) = 1..Len(s) + 1
      /\ \A i \in 1..Len(s) : Append(s, e)[i] = s[i]
      /\ Append(s, e)[Len(s) + 1] = e
  BY AppendProperties
<1>2. 1..Len(s) + 1 = (1..Len(s)) \cup {Len(s) + 1}
  BY <1>1
<1> QED
  BY <1>1, <1>2

LEMMA TailIndex ==
  ASSUME NEW T, NEW s \in Seq(T), s # <<>>
  PROVE  /\ Head(s) \in T /\ Tail(s) \in Seq(T) /\ Head(s) = s[1] /\ 1 \in DOMAIN s
         /\ \A i \in DOMAIN Tail(s) : i + 1 \in DOMAIN s /\ Tail(s)[i] = s[i + 1] /\ i \in Nat
         /\ \A i \in DOMAIN s : i = 1 \/ (i - 1 \in DOMAIN Tail(s) /\ Tail(s)[i - 1] = s[i])
         /\ \A i, j \in DOMAIN Tail(s) : i < j <=> i + 1 < j + 1
         /\ \A i \in DOMAIN Tail(s) : 1 < i + 1
<1>1. /\ Head(s) \in T /\ Tail(s) \in Seq(T) /\ Head(s) = s[1]
      /\ Len(s) \in Nat \ {0} /\ Len(Tail(s)) = Len(s) - 1 /\ DOMAIN s = 1..Len(s)
      /\ DOMAIN Tail(s) = 1..Len(s) - 1
      /\ \A i \in 1..Len(s) - 1 : Tail(s)[i] = s[i + 1]
  BY HeadTailProperties
<1> QED
  BY <1>1

(* A message sent is the last one of its channel.                          *)
LEMMA AppendFacts ==
  ASSUME NEW T, NEW s \in Seq(T), NEW e \in T
  PROVE  /\ Append(s, e) \in Seq(T)
         /\ \A S : Absent(Append(s, e), S) <=> Absent(s, S) /\ e \notin S
         /\ \A S : Once(s, S) /\ (e \in S => Absent(s, S)) => Once(Append(s, e), S)
  BY AppendIndex DEF Absent, Once

(* A message received was the first one, and leaves the others in order.   *)
LEMMA TailFacts ==
  ASSUME NEW T, NEW s \in Seq(T), s # <<>>
  PROVE  /\ Head(s) \in T /\ Tail(s) \in Seq(T)
         /\ \A S : Absent(s, S) <=> Absent(Tail(s), S) /\ Head(s) \notin S
         /\ \A S : Once(s, S) => /\ Once(Tail(s), S)
                                 /\ Head(s) \in S => Absent(Tail(s), S)
<1>1. /\ Head(s) \in T /\ Tail(s) \in Seq(T) /\ Head(s) = s[1] /\ 1 \in DOMAIN s
      /\ \A i \in DOMAIN Tail(s) : i + 1 \in DOMAIN s /\ Tail(s)[i] = s[i + 1]
      /\ \A i \in DOMAIN s : i = 1 \/ (i - 1 \in DOMAIN Tail(s) /\ Tail(s)[i - 1] = s[i])
  BY TailIndex
<1>2. DOMAIN s \subseteq Nat /\ DOMAIN Tail(s) \subseteq Nat \ {0}
  BY <1>1, HeadTailProperties
<1>3. ASSUME NEW S PROVE Absent(s, S) <=> Absent(Tail(s), S) /\ Head(s) \notin S
  BY <1>1, <1>2 DEF Absent
<1>4. ASSUME NEW S, Once(s, S)
      PROVE  Once(Tail(s), S) /\ (Head(s) \in S => Absent(Tail(s), S))
  <2>1. ASSUME NEW i \in DOMAIN Tail(s), NEW j \in DOMAIN Tail(s),
               Tail(s)[i] \in S, Tail(s)[j] \in S
        PROVE  i = j
    <3>1. i + 1 \in DOMAIN s /\ j + 1 \in DOMAIN s /\ s[i + 1] \in S /\ s[j + 1] \in S
      BY <1>1, <2>1
    <3> QED
      BY <1>1, <1>4, <3>1 DEF Once
  <2>2. ASSUME Head(s) \in S, NEW i \in DOMAIN Tail(s) PROVE Tail(s)[i] \notin S
    BY <1>1, <1>4, <2>2 DEF Once
  <2> QED
    BY <2>1, <2>2 DEF Once, Absent
<1> QED
  BY <1>1, <1>3, <1>4

(* Nothing, one or two messages are written at once.                       *)
LEMMA ConcatFacts ==
  ASSUME NEW T, NEW s \in Seq(T), NEW a \in T, NEW b \in T
  PROVE  /\ s \o <<>> = s /\ s \o <<a>> = Append(s, a)
         /\ s \o (<<a>> \o <<b>>) = Append(Append(s, a), b)
  OBVIOUS

-----------------------------------------------------------------------------
(* Filters.                                                                *)

\* r iterates the functions of G from v on.
Iterates(r, n, v, G) == r[0] = v /\ \A i \in 1..n : r[i] = G[i][r[i - 1]]

(* A recursive function of numbers exists when each step stays in a set.   *)
LEMMA StepsExist ==
  ASSUME NEW n \in Nat, NEW V, NEW v \in V, NEW G \in [1..n -> [V -> V]]
  PROVE  \E r \in [0..n -> V] : Iterates(r, n, v, G)
<1> DEFINE P == {k \in Nat : k <= n => \E r \in [0..k -> V] : Iterates(r, k, v, G)}
<1>1. 0 \in P
  <2> DEFINE r == [i \in 0..0 |-> v]
  <2>1. r \in [0..0 -> V] /\ r[0] = v /\ \A i \in 1..0 : r[i] = G[i][r[i - 1]]
    OBVIOUS
  <2> QED
    BY <2>1 DEF Iterates
<1>2. ASSUME NEW k \in Nat, k \in P PROVE k + 1 \in P
  <2> SUFFICES ASSUME k + 1 <= n
      PROVE  \E r \in [0..k + 1 -> V] : Iterates(r, k + 1, v, G)
    OBVIOUS
  <2>1. PICK q \in [0..k -> V] : q[0] = v /\ \A i \in 1..k : q[i] = G[i][q[i - 1]]
    BY <1>2 DEF Iterates
  <2> DEFINE r == [i \in 0..k + 1 |-> IF i = k + 1 THEN G[k + 1][q[k]] ELSE q[i]]
  <2>2. G[k + 1][q[k]] \in V
    OBVIOUS
  <2>3. r \in [0..k + 1 -> V]
    BY <2>2
  <2>4. r[0] = v
    BY <2>1
  <2>5. ASSUME NEW i \in 1..k + 1 PROVE r[i] = G[i][r[i - 1]]
    <3>1. i - 1 \in 0..k /\ r[i - 1] = q[i - 1]
      OBVIOUS
    <3>2. CASE i = k + 1
      BY <3>1, <3>2
    <3>3. CASE i \in 1..k
      BY <2>1, <3>1, <3>3
    <3> QED
      BY <3>2, <3>3
  <2> HIDE DEF r
  <2> QED
    BY <2>3, <2>4, <2>5 DEF Iterates
<1> HIDE DEF P
<1>3. n \in P
  BY <1>1, <1>2, NatSetInduction
<1> QED
  BY <1>3 DEF P

\* kept holds what is selected of the first elements.
Selects(kept, items, K) ==
  /\ kept[0] = <<>>
  /\ \A i \in 1..Len(items) :
       kept[i] = IF i \in K THEN Append(kept[i - 1], items[i]) ELSE kept[i - 1]
  /\ Selected(items, K) = kept[Len(items)]

LEMMA SelectedSteps ==
  ASSUME NEW T, NEW items \in Seq(T), NEW K
  PROVE  \E kept \in [0..Len(items) -> Seq(T)] : Selects(kept, items, K)
<1> DEFINE n == Len(items)
           G == [i \in 1..n |-> [w \in Seq(T) |->
                   IF i \in K THEN Append(w, items[i]) ELSE w]]
           it == CHOOSE f : f = [i \in 0..n |->
                   IF i = 0 THEN <<>>
                   ELSE IF i \in K THEN Append(f[i - 1], items[i]) ELSE f[i - 1]]
<1>1. n \in Nat /\ <<>> \in Seq(T)
  OBVIOUS
<1>2. Selected(items, K) = it[n]
  BY DEF Selected
<1>3. G \in [1..n -> [Seq(T) -> Seq(T)]]
  <2>1. \A i \in 1..n : items[i] \in T
    OBVIOUS
  <2>2. \A i \in 1..n, w \in Seq(T) :
          (IF i \in K THEN Append(w, items[i]) ELSE w) \in Seq(T)
    BY <2>1
  <2> QED
    BY <2>2
<1>4. PICK r \in [0..n -> Seq(T)] : Iterates(r, n, <<>>, G)
  <2> HIDE DEF n, G
  <2> QED
    BY <1>1, <1>3, StepsExist
<1>5. \A i \in 1..n : r[i] = IF i \in K THEN Append(r[i - 1], items[i]) ELSE r[i - 1]
  <2>1. \A i \in 1..n : i - 1 \in 0..n
    OBVIOUS
  <2>2. \A i \in 1..n : r[i - 1] \in Seq(T)
    BY <2>1
  <2> QED
    BY <1>4, <2>2 DEF Iterates
<1>6. r = [i \in 0..n |-> IF i = 0 THEN <<>>
                          ELSE IF i \in K THEN Append(r[i - 1], items[i]) ELSE r[i - 1]]
  <2>1. \A i \in 0..n : i = 0 \/ i \in 1..n
    OBVIOUS
  <2>2. \A i \in 0..n : r[i] = IF i = 0 THEN <<>>
                          ELSE IF i \in K THEN Append(r[i - 1], items[i]) ELSE r[i - 1]
    BY <1>4, <1>5, <2>1 DEF Iterates
  <2> HIDE DEF n
  <2> QED
    BY <2>2
<1>7. it = [i \in 0..n |-> IF i = 0 THEN <<>>
                           ELSE IF i \in K THEN Append(it[i - 1], items[i]) ELSE it[i - 1]]
  <2> HIDE DEF n
  <2> QED
    BY <1>6
<1> HIDE DEF it, G
<1>8. it[0] = <<>> /\ \A i \in 1..n : it[i] = IF i \in K THEN Append(it[i - 1], items[i]) ELSE it[i - 1]
  <2>1. \A i \in 1..n : i \in 0..n /\ i # 0
    OBVIOUS
  <2>2. 0 \in 0..n
    OBVIOUS
  <2> HIDE DEF n
  <2> QED
    BY <1>7, <2>1, <2>2
<1>9. it \in [0..n -> Seq(T)]
  <2> DEFINE P == {k \in Nat : k <= n => it[k] \in Seq(T)}
  <2>1. 0 \in P
    BY <1>1, <1>8
  <2>2. ASSUME NEW k \in Nat, k \in P PROVE k + 1 \in P
    <3> SUFFICES ASSUME k + 1 <= n PROVE it[k + 1] \in Seq(T)
      OBVIOUS
    <3>1. k + 1 \in 1..n /\ (k + 1) - 1 = k /\ it[k] \in Seq(T) /\ items[k + 1] \in T
      BY <2>2
    <3>2. it[k + 1] = IF k + 1 \in K THEN Append(it[k], items[k + 1]) ELSE it[k]
      BY <1>8, <3>1
    <3>3. Append(it[k], items[k + 1]) \in Seq(T)
      BY <3>1, AppendProperties
    <3> QED
      BY <3>1, <3>2, <3>3
  <2> HIDE DEF P
  <2>3. Nat \subseteq P
    BY <2>1, <2>2, NatSetInduction
  <2>4. \A k \in 0..n : it[k] \in Seq(T)
    BY <2>3 DEF P
  <2>5. DOMAIN it = 0..n
    BY <1>7
  <2>6. it = [i \in 0..n |-> it[i]]
    BY <1>7
  <2> QED
    BY <2>4, <2>6
<1> QED
  BY <1>2, <1>8, <1>9 DEF Selects

LEMMA SelectedType ==
  ASSUME NEW T, NEW items \in Seq(T), NEW K
  PROVE  Selected(items, K) \in Seq(T)
<1>1. PICK kept \in [0..Len(items) -> Seq(T)] : Selects(kept, items, K)
  BY SelectedSteps
<1>2. Len(items) \in 0..Len(items)
  OBVIOUS
<1> QED
  BY <1>1, <1>2 DEF Selects

(* Only the selected elements matter.                                      *)
LEMMA SelectedSame ==
  ASSUME NEW T, NEW items \in Seq(T), NEW others \in Seq(T), Len(others) = Len(items),
         NEW K, NEW L,
         \A i \in 1..Len(items) : (i \in K <=> i \in L) /\ (i \in K => items[i] = others[i])
  PROVE  Selected(items, K) = Selected(others, L)
<1>1. PICK a \in [0..Len(items) -> Seq(T)] : Selects(a, items, K)
  BY SelectedSteps
<1>2. PICK b \in [0..Len(others) -> Seq(T)] : Selects(b, others, L)
  BY SelectedSteps
<1> DEFINE P == {k \in Nat : k <= Len(items) => a[k] = b[k]}
<1>3. 0 \in P
  BY <1>1, <1>2 DEF Selects
<1>4. ASSUME NEW k \in Nat, k \in P PROVE k + 1 \in P
  <2> SUFFICES ASSUME k + 1 <= Len(items) PROVE a[k + 1] = b[k + 1]
    OBVIOUS
  <2>1. k + 1 \in 1..Len(items) /\ (k + 1) - 1 = k /\ a[k] = b[k]
    BY <1>4
  <2> QED
    BY <1>1, <1>2, <2>1 DEF Selects
<1> HIDE DEF P
<1>5. Len(items) \in P
  <2>1. Nat \subseteq P
    BY ONLY <1>3, <1>4, NatSetInduction
  <2> QED
    BY <2>1, LenProperties
<1> QED
  BY <1>1, <1>2, <1>5 DEF P, Selects

LEMMA SelectedAll ==
  ASSUME NEW T, NEW items \in Seq(T), NEW K, 1..Len(items) \subseteq K
  PROVE  Selected(items, K) = items
<1>1. PICK a \in [0..Len(items) -> Seq(T)] : Selects(a, items, K)
  BY SelectedSteps
<1> DEFINE P == {k \in Nat : k <= Len(items) =>
                   Len(a[k]) = k /\ \A j \in 1..k : a[k][j] = items[j]}
<1>2. 0 \in P
  BY <1>1 DEF Selects
<1>3. ASSUME NEW k \in Nat, k \in P PROVE k + 1 \in P
  <2> SUFFICES ASSUME k + 1 <= Len(items)
      PROVE  Len(a[k + 1]) = k + 1 /\ \A j \in 1..k + 1 : a[k + 1][j] = items[j]
    OBVIOUS
  <2>1. k + 1 \in 1..Len(items) /\ (k + 1) - 1 = k /\ k \in 0..Len(items)
    OBVIOUS
  <2>2. a[k] \in Seq(T) /\ items[k + 1] \in T /\ Len(a[k]) = k
          /\ \A j \in 1..k : a[k][j] = items[j]
    BY <1>3, <2>1
  <2>3. a[k + 1] = Append(a[k], items[k + 1])
    BY <1>1, <2>1 DEF Selects
  <2>4. /\ Len(Append(a[k], items[k + 1])) = k + 1
        /\ \A j \in 1..k : Append(a[k], items[k + 1])[j] = a[k][j]
        /\ Append(a[k], items[k + 1])[k + 1] = items[k + 1]
    BY <2>2, AppendProperties
  <2>5. \A j \in 1..k + 1 : j \in 1..k \/ j = k + 1
    OBVIOUS
  <2> QED
    BY <2>2, <2>3, <2>4, <2>5
<1> HIDE DEF P
<1>4. Len(items) \in P
  BY <1>2, <1>3, NatSetInduction
<1>5. Selected(items, K) \in Seq(T) /\ Selected(items, K) = a[Len(items)]
  BY <1>1, SelectedType DEF Selects
<1> QED
  BY <1>4, <1>5, SeqEqual DEF P

(* Where the selected elements come from.                                  *)
Ascending(h, n) == \A i, j \in 1..n : i < j => h[i] < h[j]
\* h holds the positions, in K, of the elements s, selected of the first n.
Indexes(h, s, items, K, n) ==
  /\ Len(h) = Len(s) /\ Ascending(h, Len(h))
  /\ \A j \in 1..Len(h) : h[j] \in K /\ s[j] = items[h[j]]
  /\ \A i \in 1..n : i \in K => \E j \in 1..Len(h) : h[j] = i
LEMMA SelectedIndex ==
  ASSUME NEW T, NEW items \in Seq(T), NEW K
  PROVE  \E h \in Seq(1..Len(items)) : Indexes(h, Selected(items, K), items, K, Len(items))
<1> DEFINE Index(s, n) == \E h \in Seq(1..n) : Indexes(h, s, items, K, n)
<1>1. PICK a \in [0..Len(items) -> Seq(T)] : Selects(a, items, K)
  BY SelectedSteps
<1> DEFINE P == {k \in Nat : k <= Len(items) => Index(a[k], k)}
<1>2. 0 \in P
  <2>1. a[0] = <<>>
    BY <1>1 DEF Selects
  <2>2. <<>> \in Seq(1..0) /\ Len(<<>>) = 0 /\ 1..0 = {}
    OBVIOUS
  <2>3. Ascending(<<>>, 0)
    BY <2>2 DEF Ascending
  <2>4. Indexes(<<>>, a[0], items, K, 0)
    BY <2>1, <2>2, <2>3 DEF Indexes
  <2>5. Index(a[0], 0)
    BY <2>2, <2>4
  <2> HIDE DEF Index
  <2> QED
    BY <2>5
<1>3. ASSUME NEW k \in Nat, k \in P PROVE k + 1 \in P
  <2> SUFFICES ASSUME k + 1 <= Len(items) PROVE Index(a[k + 1], k + 1)
    OBVIOUS
  <2>1. k + 1 \in 1..Len(items) /\ (k + 1) - 1 = k /\ k \in 0..Len(items)
    OBVIOUS
  <2>2. a[k] \in Seq(T) /\ items[k + 1] \in T
    BY <2>1
  <2>3. Index(a[k], k)
    BY <1>3, <2>1
  <2> PICK h \in Seq(1..k) : Indexes(h, a[k], items, K, k)
    BY <2>3
  <2>4. /\ Len(h) = Len(a[k]) /\ Ascending(h, Len(h))
        /\ \A j \in 1..Len(h) : h[j] \in K /\ a[k][j] = items[h[j]]
        /\ \A i \in 1..k : i \in K => \E j \in 1..Len(h) : h[j] = i
    BY DEF Indexes
  <2>5. h \in Seq(1..k + 1) /\ Len(h) \in Nat /\ \A j \in 1..Len(h) : h[j] \in 1..k
    <3>1. 1..k \subseteq 1..k + 1
      OBVIOUS
    <3> QED
      BY <3>1, SeqMonotonic, ElementOfSeq, LenProperties
  <2>6. CASE k + 1 \notin K
    <3>1. a[k + 1] = a[k]
      BY <1>1, <2>1, <2>6 DEF Selects
    <3>2. \A i \in 1..k + 1 : i \in K => i \in 1..k
      BY <2>6, SMTT(30)
    <3>3. \A i \in 1..k + 1 : i \in K => \E j \in 1..Len(h) : h[j] = i
      BY <2>4, <3>2
    <3>4. Indexes(h, a[k], items, K, k + 1)
      BY <2>4, <3>3 DEF Indexes
    <3>5. Index(a[k], k + 1)
      BY <2>5, <3>4
    <3> HIDE DEF Index
    <3> QED
      BY <3>1, <3>5
  <2>7. CASE k + 1 \in K
    <3> DEFINE g == Append(h, k + 1)
               s == Append(a[k], items[k + 1])
    <3>1. a[k + 1] = s
      BY <1>1, <2>1, <2>7 DEF Selects
    <3>2. /\ g \in Seq(1..k + 1) /\ Len(g) = Len(h) + 1 /\ g[Len(h) + 1] = k + 1
          /\ \A j \in 1..Len(h) : g[j] = h[j]
      <4>1. k + 1 \in 1..k + 1
        OBVIOUS
      <4> QED
        BY <2>5, <4>1, AppendProperties
    <3>3. /\ Len(s) = Len(h) + 1 /\ s[Len(h) + 1] = items[k + 1]
          /\ \A j \in 1..Len(h) : s[j] = a[k][j]
      BY <2>2, <2>4, AppendProperties
    <3> HIDE DEF g, s
    <3>4. \A j \in 1..Len(h) + 1 : j \in 1..Len(h) \/ j = Len(h) + 1
      BY <2>5
    <3>5. Ascending(g, Len(h) + 1)
      <4> SUFFICES ASSUME NEW i \in 1..Len(h) + 1, NEW j \in 1..Len(h) + 1, i < j
          PROVE  g[i] < g[j]
        BY DEF Ascending
      <4>1. i \in 1..Len(h)
        BY <2>5
      <4>2. CASE j \in 1..Len(h)
        BY <2>4, <3>2, <4>1, <4>2 DEF Ascending
      <4>3. CASE j = Len(h) + 1
        <5>1. g[i] = h[i] /\ h[i] \in 1..k /\ g[j] = k + 1
          BY <2>5, <3>2, <4>1, <4>3
        <5> QED
          BY <5>1
      <4> QED
        BY <3>4, <4>2, <4>3
    <3>6. \A j \in 1..Len(h) + 1 : g[j] \in K /\ s[j] = items[g[j]]
      BY <2>4, <2>7, <3>2, <3>3, <3>4
    <3>7. ASSUME NEW i \in 1..k + 1, i \in K PROVE \E j \in 1..Len(h) + 1 : g[j] = i
      <4>1. CASE i = k + 1
        <5>1. Len(h) + 1 \in 1..Len(h) + 1
          BY <2>5
        <5> QED
          BY <3>2, <4>1, <5>1
      <4>2. CASE i \in 1..k
        <5>1. PICK j \in 1..Len(h) : h[j] = i
          BY <2>4, <3>7, <4>2
        <5>2. j \in 1..Len(h) + 1 /\ g[j] = i
          BY <2>5, <3>2, <5>1, SMTT(30)
        <5> QED
          BY <5>2
      <4> QED
        BY <4>1, <4>2
    <3>8. Indexes(g, s, items, K, k + 1)
      BY <3>2, <3>3, <3>5, <3>6, <3>7 DEF Indexes
    <3>9. Index(s, k + 1)
      BY <3>2, <3>8
    <3> HIDE DEF Index
    <3> QED
      BY <3>1, <3>9
  <2> QED
    BY <2>6, <2>7
<1> HIDE DEF P
<1>4. Len(items) \in P
  BY <1>2, <1>3, NatSetInduction
<1>5. Index(a[Len(items)], Len(items))
  BY <1>4 DEF P
<1> QED
  BY <1>1, <1>5 DEF Selects

LEMMA SelectedLength ==
  ASSUME NEW T, NEW items \in Seq(T), NEW K
  PROVE  Len(Selected(items, K)) <= Len(items)
<1>1. PICK a \in [0..Len(items) -> Seq(T)] : Selects(a, items, K)
  BY SelectedSteps
<1> DEFINE P == {k \in Nat : k <= Len(items) => Len(a[k]) <= k}
<1>2. 0 \in P
  BY <1>1 DEF Selects
<1>3. ASSUME NEW k \in Nat, k \in P PROVE k + 1 \in P
  <2> SUFFICES ASSUME k + 1 <= Len(items) PROVE Len(a[k + 1]) <= k + 1
    OBVIOUS
  <2>1. k + 1 \in 1..Len(items) /\ (k + 1) - 1 = k /\ k \in 0..Len(items) /\ Len(a[k]) <= k
    BY <1>3
  <2>2. a[k] \in Seq(T) /\ items[k + 1] \in T
    BY <2>1
  <2>3. Len(a[k]) \in Nat /\ Len(Append(a[k], items[k + 1])) = Len(a[k]) + 1
    BY <2>2, AppendProperties, LenProperties
  <2>4. a[k + 1] = Append(a[k], items[k + 1]) \/ a[k + 1] = a[k]
    BY <1>1, <2>1 DEF Selects
  <2> QED
    BY <2>1, <2>3, <2>4
<1> HIDE DEF P
<1>4. Len(items) \in P
  BY <1>2, <1>3, NatSetInduction
<1> QED
  BY <1>1, <1>4 DEF P, Selects

(* The elements that are left are the selected ones.                       *)
Keeps(r, T, items, K) ==
  /\ r \in Seq(T) /\ Len(r) <= Len(items) /\ Len(r) \in Nat
  /\ \A i \in DOMAIN r : \E k \in DOMAIN items : k \in K /\ r[i] = items[k]
  /\ \A k \in DOMAIN items : k \in K => \E i \in DOMAIN r : r[i] = items[k]
LEMMA SelectedKeeps ==
  ASSUME NEW T, NEW items \in Seq(T), NEW K
  PROVE  Keeps(Selected(items, K), T, items, K)
<1> DEFINE r == Selected(items, K)
<1>1. r \in Seq(T) /\ Len(r) <= Len(items) /\ Len(r) \in Nat /\ DOMAIN r = 1..Len(r)
  BY SelectedType, SelectedLength, LenProperties
<1>2. PICK h \in Seq(1..Len(items)) : Indexes(h, r, items, K, Len(items))
  BY SelectedIndex
<1>3. DOMAIN items = 1..Len(items)
  OBVIOUS
<1> HIDE DEF r
<1>4. \A i \in 1..Len(r) : h[i] \in 1..Len(items) /\ h[i] \in K /\ r[i] = items[h[i]]
  BY <1>2, ElementOfSeq DEF Indexes
<1>5. \A k \in 1..Len(items) : k \in K => \E i \in 1..Len(r) : r[i] = items[k]
  BY <1>2, <1>4 DEF Indexes
<1> QED
  BY <1>1, <1>3, <1>4, <1>5 DEF r, Keeps

-----------------------------------------------------------------------------
(* Folds.                                                                  *)

(* The fold of the elements of s whose indices are in S, from the last.    *)
Folded(f, v, s, S) == IF S = {} THEN v ELSE Step(f[S \ {Max(S)}], s[Max(S)])
FoldsUpTo(f, v, s, n) == f = [S \in SUBSET (1..n) |-> Folded(f, v, s, S)]

LEMMA MaxOfInterval ==
  ASSUME NEW n \in Nat, NEW S \in SUBSET (1..n + 1), n + 1 \in S
  PROVE  Max(S) = n + 1
<1>1. n + 1 \in S /\ \A y \in S : n + 1 >= y
  OBVIOUS
<1>2. \A x \in S : (\A y \in S : x >= y) => x = n + 1
  OBVIOUS
<1> QED
  BY <1>1, <1>2 DEF Max

(* The recursive function that folds a sequence exists.                    *)
LEMMA FoldExists ==
  ASSUME NEW v, NEW s, NEW n \in Nat
  PROVE  \E f : FoldsUpTo(f, v, s, n)
<1> DEFINE P == {k \in Nat : \E f : FoldsUpTo(f, v, s, k)}
<1>1. 0 \in P
  <2> DEFINE f == [S \in SUBSET (1..0) |-> v]
  <2>1. \A S \in SUBSET (1..0) : S = {}
    OBVIOUS
  <2>2. FoldsUpTo(f, v, s, 0)
    BY <2>1 DEF FoldsUpTo, Folded
  <2> QED
    BY <2>2
<1>2. ASSUME NEW k \in Nat, k \in P PROVE k + 1 \in P
  <2>1. PICK f : FoldsUpTo(f, v, s, k)
    BY <1>2
  <2> DEFINE g == [S \in SUBSET (1..k + 1) |->
                     IF k + 1 \in S THEN Step(f[S \ {k + 1}], s[k + 1]) ELSE f[S]]
  <2>2. \A S \in SUBSET (1..k) : f[S] = Folded(f, v, s, S)
    BY <2>1 DEF FoldsUpTo
  <2>3. \A S \in SUBSET (1..k) : g[S] = f[S]
    <3>1. \A S \in SUBSET (1..k) : S \in SUBSET (1..k + 1) /\ k + 1 \notin S
      OBVIOUS
    <3> QED
      BY <3>1
  <2>4. ASSUME NEW S \in SUBSET (1..k + 1) PROVE g[S] = Folded(g, v, s, S)
    <3>1. CASE k + 1 \in S
      <4>1. Max(S) = k + 1
        BY <3>1, MaxOfInterval
      <4>2. S \ {k + 1} \in SUBSET (1..k)
        OBVIOUS
      <4>3. g[S \ {k + 1}] = f[S \ {k + 1}]
        BY <2>3, <4>2
      <4>4. g[S] = Step(f[S \ {k + 1}], s[k + 1])
        BY <3>1
      <4> HIDE DEF g
      <4> QED
        BY <3>1, <4>1, <4>3, <4>4 DEF Folded
    <3>2. CASE k + 1 \notin S
      <4>1. S \in SUBSET (1..k) /\ S \ {Max(S)} \in SUBSET (1..k)
        <5>1. \A i \in S : i \in 1..k
          BY <3>2
        <5> QED
          BY <5>1
      <4>2. g[S] = f[S] /\ g[S \ {Max(S)}] = f[S \ {Max(S)}] /\ f[S] = Folded(f, v, s, S)
        BY <2>2, <2>3, <4>1
      <4> HIDE DEF g
      <4> QED
        BY <4>2 DEF Folded
    <3> QED
      BY <3>1, <3>2
  <2>5. g = [S \in SUBSET (1..k + 1) |-> Folded(g, v, s, S)]
    BY <2>4
  <2> HIDE DEF g
  <2> QED
    BY <2>5 DEF FoldsUpTo
<1> HIDE DEF P
<1>3. Nat \subseteq P
  BY <1>1, <1>2, NatSetInduction
<1> QED
  BY <1>3 DEF P

\* p holds what is folded of s so far, from v on.
Folds(p, v, s) ==
  /\ p[0] = v
  /\ \A i \in 1..Len(s) : p[i] = Step(p[i - 1], s[i])
  /\ FoldLeft(Step, v, s) = p[Len(s)]

(* FoldLeft applies Step to the elements of a sequence in turn.            *)
LEMMA FoldLeftSteps ==
  ASSUME NEW v, NEW T, NEW s \in Seq(T)
  PROVE  \E p : Folds(p, v, s)
<1> DEFINE n == Len(s)
           it == CHOOSE f : f = [S \in SUBSET (1..n) |->
                   IF S = {} THEN v ELSE Step(f[S \ {Max(S)}], s[Max(S)])]
           p == [i \in 0..n |-> it[1..i]]
<1>1. n \in Nat /\ DOMAIN s = 1..n
  OBVIOUS
<1>2. FoldLeft(Step, v, s) = it[1..n]
  BY <1>1 DEF FoldLeft, MapThenFoldSet
<1>3. it = [S \in SUBSET (1..n) |-> Folded(it, v, s, S)]
  <2>1. \E f : f = [S \in SUBSET (1..n) |->
                 IF S = {} THEN v ELSE Step(f[S \ {Max(S)}], s[Max(S)])]
    <3> HIDE DEF n
    <3>1. PICK f : FoldsUpTo(f, v, s, n)
      BY <1>1, FoldExists
    <3> QED
      BY <3>1 DEF FoldsUpTo, Folded
  <2> QED
    BY <2>1 DEF Folded
<1> HIDE DEF n, it
<1>4. p[0] = v
  <2>1. 1..0 = {} /\ {} \in SUBSET (1..n)
    OBVIOUS
  <2> QED
    BY <1>1, <1>3, <2>1 DEF Folded
<1>5. ASSUME NEW i \in 1..n PROVE p[i] = Step(p[i - 1], s[i])
  <2>1. i \in 0..n /\ i - 1 \in 0..n /\ i - 1 \in Nat /\ (i - 1) + 1 = i
    BY <1>1
  <2>2. 1..i \in SUBSET (1..n) /\ i \in 1..i /\ 1..i # {} /\ (1..i) \ {i} = 1..(i - 1)
    BY <1>1
  <2>3. Max(1..i) = i
    BY <2>1, <2>2, MaxOfInterval
  <2>4. it[1..i] = Step(it[1..(i - 1)], s[i])
    BY <1>3, <2>2, <2>3 DEF Folded
  <2> QED
    BY <2>1, <2>4
<1>6. FoldLeft(Step, v, s) = p[n]
  BY <1>1, <1>2
<1> HIDE DEF p
<1> QED
  BY <1>4, <1>5, <1>6 DEF n, Folds

(* What each step keeps, the fold keeps.                                   *)
LEMMA FoldLeftKeeps ==
  ASSUME NEW V, NEW v \in V, NEW T, NEW s \in Seq(T),
         \A w \in V, i \in DOMAIN s : Step(w, s[i]) \in V
  PROVE  FoldLeft(Step, v, s) \in V
<1>1. PICK p : Folds(p, v, s)
  BY FoldLeftSteps
<1> DEFINE P == {k \in Nat : k <= Len(s) => p[k] \in V}
<1>2. 0 \in P
  BY <1>1 DEF Folds
<1>3. ASSUME NEW k \in Nat, k \in P PROVE k + 1 \in P
  <2>1. CASE k + 1 > Len(s)
    BY <2>1
  <2>2. CASE k + 1 <= Len(s)
    <3>1. k + 1 \in 1..Len(s) /\ DOMAIN s = 1..Len(s) /\ (k + 1) - 1 = k /\ p[k] \in V
      BY <1>3, <2>2
    <3>2. p[k + 1] = Step(p[k], s[k + 1]) /\ Step(p[k], s[k + 1]) \in V
      BY <1>1, <3>1 DEF Folds
    <3> QED
      BY <3>2
  <2> QED
    BY <2>1, <2>2
<1> HIDE DEF P
<1>4. Len(s) \in P
  BY <1>2, <1>3, NatSetInduction
<1> QED
  BY <1>1, <1>4 DEF P, Folds

=============================================================================
