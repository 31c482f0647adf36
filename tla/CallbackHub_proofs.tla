-------------------------- MODULE CallbackHub_proofs --------------------------
(***************************************************************************)
(* Proofs about CallbackHub: bindings and events belong to the jobs that   *)
(* are there, a joined close is quiet, and every callback is an event in   *)
(* order or counted, for any number of controllers, operations and         *)
(* threads and any limits of the hub.                                      *)
(***************************************************************************)
EXTENDS CallbackHub, ListFacts

Draining == INSTANCE ListFacts WITH Step <- DrainOne

-----------------------------------------------------------------------------
(* The inductive invariant.                                                *)

Bindings == [key : Jobs, job : Jobs]
Events == [job : Jobs, state : {"starting", "ended"}, posted : Jobs]
Views == {"nothing", "missed", "starting", "ended", "ended unstarted"}
Ended == {"ended", "ended unstarted"}

\* A table of diagnostics: generations have MaxBuckets rows at most.
Row(d) == {k \in DOMAIN d : k[2] # 0}
Counters(d) ==
  /\ DOMAIN d \subseteq Codes \X (0..MaxGeneration) /\ \A k \in DOMAIN d : d[k] \in Nat
  /\ IsFiniteSet(DOMAIN d) /\ Cardinality(Row(d)) <= MaxBuckets
  /\ IsFiniteSet(Tickets(d))

Reports(m) == UNION {{g} \X (1..m[g]) : g \in Generations}

HubTyped ==
  /\ registered \in 0..MaxGeneration /\ active \subseteq 1..registered
  /\ callbacks \in Seq(Callback) /\ Len(callbacks) <= MaxCallbacks
  /\ correlations \in Seq(Bindings) /\ Len(correlations) <= MaxCorrelations
  /\ Counters(diagnostics)
  /\ sink \in BOOLEAN /\ closing \in {"open", "stopping", "joining", "joined", "left"}
  /\ jobs \in [Jobs -> [native : {"idle", "posted", "starting", "ended"}, bound : BOOLEAN]]
  /\ view \in [Jobs -> Views]
  /\ malformed \in [Generations -> Nat] /\ IsFiniteSet(Reports(malformed))
  /\ unanswered \in Int
DispatcherTyped ==
  /\ dispatcher = [ended |-> dispatcher.ended, events |-> dispatcher.events,
                   taken |-> dispatcher.taken]
  /\ dispatcher.ended \in BOOLEAN /\ dispatcher.events \in Seq(Events)
  /\ Counters(dispatcher.taken)

\* A binding is filed under its job, and an event names the job it reports.
Keyed(bound) == \A i \in DOMAIN bound : bound[i].key = bound[i].job
Named(events) == \A i \in DOMAIN events : events[i].posted = events[i].job
Attributed == Keyed(correlations) /\ Named(dispatcher.events)

\* Bindings belong to sessions that are there, a job is bound once, and the
\* binding of a job whose end is an event is gone.
IsBound(bound, j) == \E i \in DOMAIN bound : bound[i].job = j
Ends(events, j) == \E i \in DOMAIN events : events[i].job = j /\ events[i].state = "ended"
BoundOnce ==
  /\ \A i \in DOMAIN correlations :
       GenerationOf(correlations[i].job) \in active /\ jobs[correlations[i].job].bound
  /\ \A j \in Jobs : view[j] \in Ended \/ Ends(dispatcher.events, j) =>
       jobs[j].bound /\ ~IsBound(correlations, j)

\* A dispatcher that has ended has told everything.
Quiet ==
  /\ dispatcher.ended => dispatcher.events = <<>> /\ DOMAIN dispatcher.taken = {}
  /\ closing = "joined" => dispatcher.ended

\* An end comes after the start of its job, unless the start is known or was
\* given up; the start of a job that has begun is known or on its way.
Starts(s, j) == \E i \in DOMAIN s : s[i].job = j /\ s[i].state = "starting"
Orderly(s, known) ==
  \A i \in DOMAIN s : s[i].state = "ended" =>
    \/ s[i].job \in known
    \/ \E k \in 1..(i - 1) : s[k].job = s[i].job /\ s[k].state = "starting"
Announced(v) == {j \in Jobs : v[j] # "nothing"}
Started(s) == {j \in Jobs : Starts(s, j)}
InOrder ==
  /\ AbsentStartIsAccounted
  /\ Orderly(dispatcher.events, Announced(view))
  /\ Orderly(callbacks, Announced(view) \cup Started(dispatcher.events))
BegunIsKnown ==
  ~Closed => \A j \in Jobs : jobs[j].native \in {"starting", "ended"} =>
    j \in Announced(view) \cup Started(dispatcher.events) \cup Started(callbacks)

IInv ==
  /\ HubTyped /\ DispatcherTyped /\ Attributed /\ BoundOnce /\ Quiet
  /\ InOrder /\ BegunIsKnown /\ NothingIsLostSilently

-----------------------------------------------------------------------------
(* Counting.                                                               *)

LEMMA TicketFacts ==
  ASSUME NEW d
  PROVE  \A t : t \in Tickets(d) <=>
           \E k \in DOMAIN d : k[1] = "lost" /\ t \in {k} \X (1..d[k])
BY DEF Tickets

\* r is d with one more callback counted under key.
Adds(r, d, key) ==
  /\ DOMAIN r = DOMAIN d \cup {key}
  /\ \A k \in DOMAIN d : k # key => r[k] = d[k]
  /\ key \in DOMAIN d => r[key] = d[key] + 1
  /\ key \notin DOMAIN d => r[key] = 1
\* A generation that has no row when the table is full counts under zero.
KeyOf(d, code, g) ==
  IF <<code, g>> \notin DOMAIN d /\ Cardinality(DOMAIN d) >= MaxBuckets
    THEN <<code, 0>> ELSE <<code, g>>

LEMMA RecordAdds ==
  ASSUME NEW d, Counters(d), NEW code \in Codes, NEW g \in 0..MaxGeneration
  PROVE  Adds(Record(d, code, g), d, KeyOf(d, code, g))
<1> DEFINE key == KeyOf(d, code, g)
           r == [k \in DOMAIN d \cup {key} |->
                   (IF k \in DOMAIN d THEN d[k] ELSE 0) + (IF k = key THEN 1 ELSE 0)]
<1>1. Record(d, code, g) = r
  BY DEF Record, KeyOf
<1>2. \A k \in DOMAIN d : d[k] \in Nat
  BY DEF Counters
<1> HIDE DEF key
<1>3. Adds(r, d, key)
  BY <1>2 DEF Adds
<1> QED
  BY <1>1, <1>3 DEF key

\* How a table grows when one more is counted.
Counted(r, d, code) ==
  /\ Counters(r) /\ Total(d) \in Nat
  /\ Total(r) = IF code = "lost" THEN Total(d) + 1 ELSE Total(d)
LEMMA RecordFacts ==
  ASSUME NEW d, Counters(d), NEW code \in Codes, NEW g \in 0..MaxGeneration
  PROVE  Counted(Record(d, code, g), d, code)
<1> DEFINE key == KeyOf(d, code, g)
           r == Record(d, code, g)
           full == <<code, g>> \notin DOMAIN d /\ Cardinality(DOMAIN d) >= MaxBuckets
<1>1. Adds(r, d, key)
  BY RecordAdds
<1>2. /\ DOMAIN d \subseteq Codes \X (0..MaxGeneration) /\ \A k \in DOMAIN d : d[k] \in Nat
      /\ IsFiniteSet(DOMAIN d) /\ Cardinality(Row(d)) <= MaxBuckets
      /\ IsFiniteSet(Tickets(d))
  BY DEF Counters
<1>3. MaxGeneration \in Nat /\ MaxBuckets \in Nat
  BY HubAssumption
<1>4. key \in Codes \X (0..MaxGeneration) /\ key[1] = code
  <2>1. 0 \in 0..MaxGeneration
    BY <1>3
  <2>2. key = <<code, 0>> \/ key = <<code, g>>
    BY DEF KeyOf
  <2> QED
    BY <2>1, <2>2
<1>5. key[2] # 0 /\ key \notin DOMAIN d => Cardinality(DOMAIN d) < MaxBuckets
  <2> SUFFICES ASSUME key[2] # 0, key \notin DOMAIN d PROVE Cardinality(DOMAIN d) < MaxBuckets
    OBVIOUS
  <2>1. ~full
    <3>1. full => key = <<code, 0>>
      BY DEF KeyOf
    <3> QED
      BY <3>1
  <2>2. key = <<code, g>>
    BY <2>1 DEF KeyOf
  <2>3. Cardinality(DOMAIN d) \in Nat
    BY <1>2, FS_CardinalityType
  <2> QED
    BY <1>3, <2>1, <2>2, <2>3
<1> HIDE DEF key, r, full
<1>6. DOMAIN r = DOMAIN d \cup {key}
  BY <1>1 DEF Adds
<1>7. DOMAIN r \subseteq Codes \X (0..MaxGeneration) /\ \A k \in DOMAIN r : r[k] \in Nat
  BY <1>1, <1>2, <1>4, <1>6 DEF Adds
<1>8. IsFiniteSet(DOMAIN r)
  BY <1>2, <1>6, FS_AddElement
<1>9. Cardinality(Row(r)) <= MaxBuckets
  <2>1. IsFiniteSet(Row(d)) /\ Cardinality(Row(d)) <= Cardinality(DOMAIN d)
        /\ Cardinality(Row(d)) \in Nat /\ Cardinality(DOMAIN d) \in Nat
    <3>1. Row(d) \in SUBSET DOMAIN d
      BY DEF Row
    <3> QED
      BY <1>2, <3>1, FS_Subset, FS_CardinalityType
  <2>2. CASE key[2] = 0 \/ key \in DOMAIN d
    <3>1. Row(r) = Row(d)
      BY <1>6, <2>2 DEF Row
    <3> QED
      BY <1>2, <3>1
  <2>3. CASE key[2] # 0 /\ key \notin DOMAIN d
    <3>1. Row(r) = Row(d) \cup {key}
      BY <1>6, <2>3 DEF Row
    <3>2. Cardinality(Row(d) \cup {key}) <= Cardinality(Row(d)) + 1
      BY <2>1, FS_AddElement
    <3>3. Cardinality(DOMAIN d) < MaxBuckets
      BY <1>5, <2>3
    <3>4. Cardinality(Row(r)) <= Cardinality(DOMAIN d) + 1
      <4>1. Cardinality(Row(d)) + 1 <= Cardinality(DOMAIN d) + 1
        BY <2>1
      <4>2. Cardinality(Row(d) \cup {key}) \in Nat
        BY <2>1, FS_AddElement, FS_CardinalityType
      <4> QED
        BY <2>1, <3>1, <3>2, <4>1, <4>2
    <3>5. Cardinality(Row(r)) \in Nat
      BY <2>1, <3>1, FS_AddElement, FS_CardinalityType
    <3> QED
      BY <1>3, <2>1, <3>3, <3>4, <3>5
  <2> QED
    BY <2>2, <2>3
<1>10. Total(d) \in Nat
  BY <1>2, FS_CardinalityType DEF Total
<1>11. CASE code = "lost"
  <2>1. r[key] \in Nat /\ r[key] >= 1
    BY <1>1, <1>2 DEF Adds
  <2>2. <<key, r[key]>> \notin Tickets(d)
    <3> SUFFICES ASSUME <<key, r[key]>> \in Tickets(d) PROVE FALSE
      OBVIOUS
    <3>1. PICK k \in DOMAIN d : <<key, r[key]>> \in {k} \X (1..d[k])
      BY TicketFacts
    <3>2. k = key /\ r[key] \in 1..d[key]
      BY <3>1
    <3> QED
      BY <1>1, <1>2, <3>2 DEF Adds
  <2>3. Tickets(r) = Tickets(d) \cup {<<key, r[key]>>}
    <3>1. ASSUME NEW t \in Tickets(r) PROVE t \in Tickets(d) \cup {<<key, r[key]>>}
      <4>1. PICK k \in DOMAIN r : k[1] = "lost" /\ t \in {k} \X (1..r[k])
        BY TicketFacts
      <4>2. PICK n \in 1..r[k] : t = <<k, n>>
        BY <4>1
      <4>3. CASE k # key
        <5>1. k \in DOMAIN d /\ r[k] = d[k]
          BY <1>1, <4>3 DEF Adds
        <5> QED
          BY <4>1, <5>1, TicketFacts
      <4>4. CASE k = key /\ n # r[key]
        <5>1. key \in DOMAIN d /\ n \in 1..d[key]
          BY <1>1, <1>2, <2>1, <4>4 DEF Adds
        <5> QED
          BY <4>1, <4>2, <4>4, <5>1, TicketFacts
      <4>5. CASE k = key /\ n = r[key]
        BY <4>2, <4>5
      <4> QED
        BY <4>3, <4>4, <4>5
    <3>2. ASSUME NEW t \in Tickets(d) PROVE t \in Tickets(r)
      <4>1. PICK k \in DOMAIN d : k[1] = "lost" /\ t \in {k} \X (1..d[k])
        BY TicketFacts
      <4>2. k \in DOMAIN r /\ r[k] \in Nat /\ d[k] \in Nat /\ r[k] >= d[k]
        BY <1>1, <1>2, <1>7 DEF Adds
      <4>3. t \in {k} \X (1..r[k])
        BY <4>1, <4>2
      <4> QED
        BY <4>1, <4>2, <4>3, TicketFacts
    <3>3. <<key, r[key]>> \in Tickets(r)
      <4>1. key \in DOMAIN r /\ key[1] = "lost" /\ <<key, r[key]>> \in {key} \X (1..r[key])
        BY <1>4, <1>6, <1>11, <2>1
      <4> QED
        BY <4>1, TicketFacts
    <3> QED
      BY <3>1, <3>2, <3>3
  <2>4. IsFiniteSet(Tickets(r)) /\ Cardinality(Tickets(r)) = Cardinality(Tickets(d)) + 1
    BY <1>2, <2>2, <2>3, FS_AddElement
  <2> QED
    BY <1>7, <1>8, <1>9, <1>10, <1>11, <2>4 DEF Counters, Counted, Total, r
<1>12. CASE code # "lost"
  <2>1. Tickets(r) = Tickets(d)
    <3>1. ASSUME NEW t \in Tickets(r) PROVE t \in Tickets(d)
      <4>1. PICK k \in DOMAIN r : k[1] = "lost" /\ t \in {k} \X (1..r[k])
        BY TicketFacts
      <4>2. k \in DOMAIN d /\ r[k] = d[k]
        BY <1>1, <1>4, <1>12, <4>1 DEF Adds
      <4> QED
        BY <4>1, <4>2, TicketFacts
    <3>2. ASSUME NEW t \in Tickets(d) PROVE t \in Tickets(r)
      <4>1. PICK k \in DOMAIN d : k[1] = "lost" /\ t \in {k} \X (1..d[k])
        BY TicketFacts
      <4>2. k \in DOMAIN r /\ r[k] = d[k]
        BY <1>1, <1>4, <1>12, <4>1 DEF Adds
      <4> QED
        BY <4>1, <4>2, TicketFacts
    <3> QED
      BY <3>1, <3>2
  <2> QED
    BY <1>2, <1>7, <1>8, <1>9, <1>10, <1>12, <2>1 DEF Counters, Counted, Total, r
<1> QED
  BY <1>11, <1>12

(* An empty table.                                                         *)
LEMMA NoCounters == Counters(<<>>) /\ Total(<<>>) = 0
<1>1. DOMAIN <<>> = {} /\ Row(<<>>) = {}
  BY DEF Row
<1>2. Tickets(<<>>) = {}
  BY <1>1, TicketFacts
<1>3. IsFiniteSet({}) /\ Cardinality({}) = 0 /\ MaxBuckets \in Nat
  BY FS_EmptySet, HubAssumption
<1>4. Cardinality(Row(<<>>)) <= MaxBuckets
  <2>1. Cardinality(Row(<<>>)) = 0
    BY <1>1, <1>3
  <2> HIDE DEF Row
  <2> QED
    BY <1>3, <2>1
<1>5. Total(<<>>) = 0 /\ IsFiniteSet(Tickets(<<>>))
  BY <1>2, <1>3 DEF Total
<1> QED
  BY <1>1, <1>3, <1>4, <1>5 DEF Counters

(* A diagnostic that is handed out.                                        *)
Dropped(d, k) == [other \in DOMAIN d \ {k} |-> d[other]]
LEMMA DroppedFacts ==
  ASSUME NEW d, Counters(d), NEW k \in DOMAIN d
  PROVE  /\ Counters(Dropped(d, k)) /\ Total(d) \in Nat /\ Worth(k, d[k]) \in Nat
         /\ Total(d) = Total(Dropped(d, k)) + Worth(k, d[k])
<1> DEFINE r == Dropped(d, k)
           D == {k} \X (1..d[k])
<1>1. DOMAIN r = DOMAIN d \ {k} /\ \A x \in DOMAIN d \ {k} : r[x] = d[x]
  BY DEF Dropped
<1>2. /\ DOMAIN d \subseteq Codes \X (0..MaxGeneration) /\ \A x \in DOMAIN d : d[x] \in Nat
      /\ IsFiniteSet(DOMAIN d) /\ Cardinality(Row(d)) <= MaxBuckets
      /\ IsFiniteSet(Tickets(d))
  BY DEF Counters
<1> HIDE DEF r
<1>3. IsFiniteSet(DOMAIN r)
  BY <1>1, <1>2, FS_RemoveElement
<1>4. Cardinality(Row(r)) <= MaxBuckets
  <2>1. Row(r) \in SUBSET Row(d) /\ Row(d) \in SUBSET DOMAIN d
    BY <1>1 DEF Row
  <2>2. IsFiniteSet(Row(d)) /\ Cardinality(Row(r)) <= Cardinality(Row(d))
        /\ Cardinality(Row(d)) \in Nat /\ Cardinality(Row(r)) \in Nat
    BY <1>2, <2>1, FS_Subset, FS_CardinalityType
  <2> QED
    BY <1>2, <2>2, HubAssumption
<1>5. ASSUME NEW t PROVE t \in Tickets(r) <=> t \in Tickets(d) /\ t \notin D
  <2>1. t \in Tickets(r) => t \in Tickets(d) /\ t \notin D
    <3> SUFFICES ASSUME t \in Tickets(r) PROVE t \in Tickets(d) /\ t \notin D
      OBVIOUS
    <3>1. PICK x \in DOMAIN r : x[1] = "lost" /\ t \in {x} \X (1..r[x])
      BY TicketFacts
    <3>2. x \in DOMAIN d /\ x # k /\ r[x] = d[x]
      BY <1>1
    <3>3. t \notin D
      BY <3>1, <3>2
    <3> QED
      BY <3>1, <3>2, <3>3, TicketFacts
  <2>2. t \in Tickets(d) /\ t \notin D => t \in Tickets(r)
    <3> SUFFICES ASSUME t \in Tickets(d), t \notin D PROVE t \in Tickets(r)
      OBVIOUS
    <3>1. PICK x \in DOMAIN d : x[1] = "lost" /\ t \in {x} \X (1..d[x])
      BY TicketFacts
    <3>2. x # k
      BY <3>1
    <3>3. x \in DOMAIN r /\ r[x] = d[x]
      BY <1>1, <3>2
    <3> QED
      BY <3>1, <3>3, TicketFacts
  <2> QED
    BY <2>1, <2>2
<1>6. IsFiniteSet(Tickets(r)) /\ Cardinality(Tickets(r)) \in Nat /\ Total(d) \in Nat
  <2>1. Tickets(r) \in SUBSET Tickets(d)
    BY <1>5
  <2> QED
    BY <1>2, <2>1, FS_Subset, FS_CardinalityType DEF Total
<1>7. Counters(r)
  BY <1>1, <1>2, <1>3, <1>4, <1>6 DEF Counters
<1>8. d[k] \in Nat
  BY <1>2
<1>9. CASE k[1] # "lost"
  <2>1. Tickets(r) = Tickets(d)
    <3>1. ASSUME NEW t \in Tickets(d) PROVE t \notin D
      <4>1. PICK x \in DOMAIN d : x[1] = "lost" /\ t \in {x} \X (1..d[x])
        BY TicketFacts
      <4> QED
        BY <1>9, <4>1
    <3> QED
      BY <1>5, <3>1
  <2>2. Worth(k, d[k]) = 0
    BY <1>9 DEF Worth
  <2> QED
    BY <1>6, <1>7, <1>8, <2>1, <2>2 DEF Total, r
<1>10. CASE k[1] = "lost"
  <2>1. IsFiniteSet(D) /\ Cardinality(D) = d[k]
    <3>1. IsFiniteSet(1..d[k]) /\ Cardinality(1..d[k]) = d[k]
      BY <1>8, FS_Interval
    <3>2. IsFiniteSet({k}) /\ Cardinality({k}) = 1
      BY FS_Singleton
    <3>3. IsFiniteSet(D) /\ Cardinality(D) = Cardinality({k}) * Cardinality(1..d[k])
      BY <3>1, <3>2, FS_Product
    <3> QED
      BY <1>8, <3>1, <3>2, <3>3
  <2>2. Tickets(d) = Tickets(r) \cup D /\ Tickets(r) \cap D = {}
    <3>1. D \subseteq Tickets(d)
      BY <1>10, TicketFacts
    <3> HIDE DEF D
    <3> QED
      BY <1>5, <3>1
  <2> HIDE DEF D
  <2>3. Cardinality(Tickets(r) \cup D)
          = Cardinality(Tickets(r)) + Cardinality(D) - Cardinality(Tickets(r) \cap D)
    BY <1>6, <2>1, FS_Union
  <2>4. Cardinality(Tickets(r) \cap D) = 0
    BY <2>2, FS_EmptySet
  <2>5. Worth(k, d[k]) = d[k]
    BY <1>10 DEF Worth
  <2> QED
    BY <1>6, <1>7, <1>8, <2>1, <2>2, <2>3, <2>4, <2>5 DEF Total, r
<1> QED
  BY <1>9, <1>10

(* One more thread that is about to report a callback.                     *)
LEMMA ReportFacts ==
  ASSUME NEW m \in [Generations -> Nat], NEW g \in Generations,
         NEW q, q = [m EXCEPT ![g] = @ + 1]
  PROVE  /\ Reports(q) = Reports(m) \cup {<<g, m[g] + 1>>}
         /\ <<g, m[g] + 1>> \notin Reports(m)
<1>1. \A n : \A t : t \in Reports(n) <=> \E x \in Generations : t \in {x} \X (1..n[x])
  BY DEF Reports
<1>2. m[g] \in Nat /\ q[g] = m[g] + 1 /\ \A x \in Generations : x # g => q[x] = m[x]
  OBVIOUS
<1>3. \A x \in Generations : \A y : y \in 1..q[x] <=> y \in 1..m[x] \/ (x = g /\ y = m[g] + 1)
  BY <1>2
<1>4. ASSUME NEW t \in Reports(q) PROVE t \in Reports(m) \cup {<<g, m[g] + 1>>}
  <2>1. PICK x \in Generations : t \in {x} \X (1..q[x])
    BY <1>1
  <2>2. PICK y \in 1..q[x] : t = <<x, y>>
    BY <2>1
  <2>3. y \in 1..m[x] \/ t = <<g, m[g] + 1>>
    BY <1>3, <2>2
  <2> QED
    BY <1>1, <2>2, <2>3
<1>5. ASSUME NEW t \in Reports(m) PROVE t \in Reports(q)
  <2>1. PICK x \in Generations : t \in {x} \X (1..m[x])
    BY <1>1
  <2>2. t \in {x} \X (1..q[x])
    BY <1>3, <2>1
  <2> QED
    BY <1>1, <2>2
<1>6. <<g, m[g] + 1>> \in {g} \X (1..q[g])
  BY <1>2
<1>7. <<g, m[g] + 1>> \notin Reports(m)
  <2> SUFFICES ASSUME <<g, m[g] + 1>> \in Reports(m) PROVE FALSE
    OBVIOUS
  <2>1. PICK x \in Generations : <<g, m[g] + 1>> \in {x} \X (1..m[x])
    BY <1>1
  <2> QED
    BY <1>2, <2>1
<1> QED
  BY <1>1, <1>4, <1>5, <1>6, <1>7

-----------------------------------------------------------------------------
(* Bindings.                                                               *)

\* r is bound without the binding of job j, without those of generation g.
WithoutJob(r, bound, j) ==
  /\ r \in Seq(Bindings) /\ Len(r) <= Len(bound) /\ Len(r) \in Nat
  /\ \A i \in DOMAIN r : r[i].job # j /\ \E k \in DOMAIN bound : r[i] = bound[k]
WithoutSession(r, bound, g) ==
  /\ r \in Seq(Bindings) /\ Len(r) <= Len(bound) /\ Len(r) \in Nat
  /\ \A i \in DOMAIN r : GenerationOf(r[i].job) # g /\ \E k \in DOMAIN bound : r[i] = bound[k]
LEMMA UnbindJob ==
  ASSUME NEW bound \in Seq(Bindings), Keyed(bound), NEW j
  PROVE  WithoutJob(Filter(bound, LAMBDA b : b.key # Key(j)), bound, j)
<1> DEFINE K == {i \in DOMAIN bound : bound[i].key # Key(j)}
           r == Selected(bound, K)
<1>1. Filter(bound, LAMBDA b : b.key # Key(j)) = r
  BY DEF Filter
<1>2. \A k \in DOMAIN bound : k \in K <=> bound[k].job # j
  BY DEF Keyed, Key
<1> HIDE DEF K
<1>3. Keeps(r, Bindings, bound, K)
  BY SelectedKeeps
<1> HIDE DEF r
<1>4. WithoutJob(r, bound, j)
  BY <1>2, <1>3 DEF Keeps, WithoutJob
<1> QED
  BY <1>1, <1>4
LEMMA UnbindSession ==
  ASSUME NEW bound \in Seq(Bindings), NEW g
  PROVE  WithoutSession(Filter(bound, LAMBDA c : GenerationOf(c.job) # g), bound, g)
<1> DEFINE K == {i \in DOMAIN bound : GenerationOf(bound[i].job) # g}
           r == Selected(bound, K)
<1>1. Filter(bound, LAMBDA c : GenerationOf(c.job) # g) = r
  BY DEF Filter
<1>2. \A k \in DOMAIN bound : k \in K <=> GenerationOf(bound[k].job) # g
  OBVIOUS
<1> HIDE DEF K
<1>3. Keeps(r, Bindings, bound, K)
  BY SelectedKeeps
<1> HIDE DEF r
<1>4. WithoutSession(r, bound, g)
  BY <1>2, <1>3 DEF Keeps, WithoutSession
<1> QED
  BY <1>1, <1>4

(* What a callback finds is its own job's binding.                         *)
LEMMA FoundFacts ==
  ASSUME NEW bound \in Seq(Bindings), Keyed(bound), NEW c,
         NEW found, found = BindingsOf(bound, c)
  PROVE  /\ found = <<>> <=> ~IsBound(bound, c.job)
         /\ found # <<>> => Head(found).job = c.job
<1> DEFINE K == {i \in DOMAIN bound : bound[i].key = Key(c.job)}
<1>1. found = Selected(bound, K)
  BY DEF BindingsOf, Filter
<1>2. \A k \in DOMAIN bound : k \in K <=> bound[k].job = c.job
  BY DEF Keyed, Key
<1> HIDE DEF K
<1>3. Keeps(found, Bindings, bound, K)
  BY <1>1, SelectedKeeps
<1>4. found \in Seq(Bindings)
  BY <1>3 DEF Keeps
<1>5. found # <<>> => 1 \in DOMAIN found /\ Head(found) = found[1]
  BY <1>4, HeadTailProperties
<1>6. found = <<>> => DOMAIN found = {}
  OBVIOUS
<1> QED
  BY <1>2, <1>3, <1>5, <1>6 DEF Keeps, IsBound

-----------------------------------------------------------------------------
(* Order.                                                                  *)

LEMMA StartsAppend ==
  ASSUME NEW T, NEW s \in Seq(T), NEW e \in T
  PROVE  \A j : Starts(Append(s, e), j) <=>
                  Starts(s, j) \/ (e.job = j /\ e.state = "starting")
BY AppendIndex DEF Starts
LEMMA StartsTail ==
  ASSUME NEW T, NEW s \in Seq(T), s # <<>>
  PROVE  \A j : Starts(s, j) <=>
                  Starts(Tail(s), j) \/ (Head(s).job = j /\ Head(s).state = "starting")
<1>1. /\ Head(s) = s[1] /\ 1 \in DOMAIN s
      /\ \A i \in DOMAIN Tail(s) : i + 1 \in DOMAIN s /\ Tail(s)[i] = s[i + 1]
      /\ \A i \in DOMAIN s : i = 1 \/ (i - 1 \in DOMAIN Tail(s) /\ Tail(s)[i - 1] = s[i])
  BY TailIndex
<1>2. ASSUME NEW j, Starts(s, j) PROVE Starts(Tail(s), j) \/ (Head(s).job = j /\ Head(s).state = "starting")
  <2>1. PICK i \in DOMAIN s : s[i].job = j /\ s[i].state = "starting"
    BY <1>2 DEF Starts
  <2> QED
    BY <1>1, <2>1 DEF Starts
<1>3. ASSUME NEW j, Starts(Tail(s), j) \/ (Head(s).job = j /\ Head(s).state = "starting") PROVE Starts(s, j)
  BY <1>1, <1>3 DEF Starts
<1> QED
  BY <1>2, <1>3
LEMMA EndsAppend ==
  ASSUME NEW T, NEW s \in Seq(T), NEW e \in T
  PROVE  \A j : Ends(Append(s, e), j) <=> Ends(s, j) \/ (e.job = j /\ e.state = "ended")
BY AppendIndex DEF Ends
LEMMA EndsTail ==
  ASSUME NEW T, NEW s \in Seq(T), s # <<>>
  PROVE  \A j : Ends(s, j) <=> Ends(Tail(s), j) \/ (Head(s).job = j /\ Head(s).state = "ended")
<1>1. /\ Head(s) = s[1] /\ 1 \in DOMAIN s
      /\ \A i \in DOMAIN Tail(s) : i + 1 \in DOMAIN s /\ Tail(s)[i] = s[i + 1]
      /\ \A i \in DOMAIN s : i = 1 \/ (i - 1 \in DOMAIN Tail(s) /\ Tail(s)[i - 1] = s[i])
  BY TailIndex
<1>2. ASSUME NEW j, Ends(s, j) PROVE Ends(Tail(s), j) \/ (Head(s).job = j /\ Head(s).state = "ended")
  <2>1. PICK i \in DOMAIN s : s[i].job = j /\ s[i].state = "ended"
    BY <1>2 DEF Ends
  <2> QED
    BY <1>1, <2>1 DEF Ends
<1>3. ASSUME NEW j, Ends(Tail(s), j) \/ (Head(s).job = j /\ Head(s).state = "ended") PROVE Ends(s, j)
  BY <1>1, <1>3 DEF Ends
<1> QED
  BY <1>2, <1>3

LEMMA OrderlyMore ==
  ASSUME NEW s, NEW K, NEW L, Orderly(s, K), K \subseteq L
  PROVE  Orderly(s, L)
BY DEF Orderly

LEMMA OrderlyAppend ==
  ASSUME NEW T, NEW s \in Seq(T), NEW e \in T, NEW K, Orderly(s, K),
         e.state = "ended" => e.job \in K \/ Starts(s, e.job)
  PROVE  Orderly(Append(s, e), K)
<1> DEFINE r == Append(s, e)
<1>1. /\ Len(s) \in Nat /\ DOMAIN s = 1..Len(s)
      /\ DOMAIN r = DOMAIN s \cup {Len(s) + 1}
      /\ \A i \in DOMAIN s : r[i] = s[i]
      /\ r[Len(s) + 1] = e
  BY AppendIndex
<1> HIDE DEF r
<1> SUFFICES ASSUME NEW i \in DOMAIN r, r[i].state = "ended", r[i].job \notin K
    PROVE  \E k \in 1..(i - 1) : r[k].job = r[i].job /\ r[k].state = "starting"
  BY DEF Orderly, r
<1>2. CASE i \in DOMAIN s
  <2>1. PICK k \in 1..(i - 1) : s[k].job = s[i].job /\ s[k].state = "starting"
    BY <1>1, <1>2 DEF Orderly
  <2>2. k \in DOMAIN s
    BY <1>1, <1>2
  <2> QED
    BY <1>1, <1>2, <2>1, <2>2
<1>3. CASE i = Len(s) + 1
  <2>1. PICK k \in DOMAIN s : s[k].job = e.job /\ s[k].state = "starting"
    BY <1>1, <1>3 DEF Starts
  <2>2. k \in 1..(i - 1)
    BY <1>1, <1>3
  <2> QED
    BY <1>1, <1>3, <2>1, <2>2
<1> QED
  BY <1>1, <1>2, <1>3

(* The first of a list leaves; if it was a start, it is known from then on. *)
LEMMA OrderlyTail ==
  ASSUME NEW T, NEW s \in Seq(T), s # <<>>, NEW K, Orderly(s, K),
         NEW L, K \subseteq L, Head(s).state = "starting" => Head(s).job \in L
  PROVE  /\ Orderly(Tail(s), L)
         /\ Head(s).state = "ended" => Head(s).job \in K
<1> DEFINE r == Tail(s)
<1>1. /\ Head(s) = s[1] /\ 1 \in DOMAIN s
      /\ \A i \in DOMAIN r : i + 1 \in DOMAIN s /\ r[i] = s[i + 1] /\ i \in Nat
      /\ \A i \in DOMAIN s : i = 1 \/ (i - 1 \in DOMAIN r /\ r[i - 1] = s[i])
  BY TailIndex
<1>2. DOMAIN s = 1..Len(s) /\ Len(s) \in Nat
  OBVIOUS
<1> HIDE DEF r
<1>3. ASSUME NEW i \in DOMAIN r, r[i].state = "ended", r[i].job \notin L
      PROVE  \E k \in 1..(i - 1) : r[k].job = r[i].job /\ r[k].state = "starting"
  <2>1. PICK k \in 1..((i + 1) - 1) : s[k].job = s[i + 1].job /\ s[k].state = "starting"
    BY <1>1, <1>3 DEF Orderly
  <2>2. k # 1
    BY <1>1, <1>3, <2>1
  <2>3. k \in DOMAIN s /\ k - 1 \in 1..(i - 1)
    BY <1>1, <1>2, <2>1, <2>2
  <2>4. r[k - 1] = s[k]
    BY <1>1, <2>2, <2>3
  <2> QED
    BY <1>1, <1>3, <2>1, <2>3, <2>4
<1>4. Head(s).state = "ended" => Head(s).job \in K
  <2>1. 1..(1 - 1) = {}
    OBVIOUS
  <2> QED
    BY <1>1, <2>1 DEF Orderly
<1> QED
  BY <1>3, <1>4 DEF Orderly, r

-----------------------------------------------------------------------------
(* Draining.                                                               *)

(* What has been made of the first i callbacks.                            *)
BatchTyped(b) ==
  /\ b = [events |-> b.events, waiting |-> b.waiting, bound |-> b.bound,
          diagnostics |-> b.diagnostics, view |-> b.view]
  /\ b.events \in Seq(Events) /\ b.waiting \in Seq(Callback)
  /\ b.bound \in Seq(Bindings) /\ b.view \in [Jobs -> Views]
  /\ Counters(b.diagnostics)
BatchCounted(b, i) ==
  /\ Len(b.waiting) <= i
  /\ Len(b.events) + Len(b.waiting) + Total(b.diagnostics) = i + Total(diagnostics)
BatchBound(b) ==
  /\ Len(b.bound) <= Len(correlations) /\ Keyed(b.bound) /\ Named(b.events)
  /\ \A k \in DOMAIN b.bound : \E m \in DOMAIN correlations : b.bound[k] = correlations[m]
  /\ \A j \in Jobs : Ends(b.events, j) => IsBound(correlations, j) /\ ~IsBound(b.bound, j)
  /\ \A j \in Jobs : Starts(b.waiting, j) => ~IsBound(b.bound, j)
BatchOrdered(b, i) ==
  /\ \A j \in Jobs : b.view[j] = view[j] \/ b.view[j] = "missed"
  /\ Orderly(b.events, Announced(b.view))
  /\ Orderly(b.waiting, Announced(b.view) \cup Started(b.events))
  /\ \A k \in 1..i : callbacks[k].state = "starting" =>
       callbacks[k].job \in Announced(b.view) \cup Started(b.events) \cup Started(b.waiting)
Drains(b, i) == BatchTyped(b) /\ BatchCounted(b, i) /\ BatchBound(b) /\ BatchOrdered(b, i)

\* The three things that may become of a callback.
IsGivenUp(b, e, c) ==
  e = [b EXCEPT !.diagnostics = Record(@, "lost", GenerationOf(c.job)), !.view = Missed(@, c)]
IsKept(b, e, c) == ~IsBound(b.bound, c.job) /\ e = [b EXCEPT !.waiting = Append(@, c)]
IsTold(b, e, c) ==
  /\ IsBound(b.bound, c.job)
  /\ e = [b EXCEPT !.events = Append(@, [job |-> c.job, state |-> c.state, posted |-> c.job]),
                   !.bound = Released(@, c)]
LEMMA DrainCases ==
  ASSUME NEW b, b.bound \in Seq(Bindings), Keyed(b.bound), NEW c
  PROVE  \/ IsGivenUp(b, DrainOne(b, c), c)
         \/ IsKept(b, DrainOne(b, c), c)
         \/ IsTold(b, DrainOne(b, c), c)
<1> DEFINE found == BindingsOf(b.bound, c)
           present == GenerationOf(c.job) \in active
<1>1. /\ found = <<>> <=> ~IsBound(b.bound, c.job)
      /\ found # <<>> => Head(found).job = c.job
  BY FoundFacts
<1> HIDE DEF found
<1>2. CASE ~present \/ (found = <<>> /\ Expired(c))
  BY <1>2 DEF DrainOne, GivenUp, IsGivenUp, found
<1>3. CASE present /\ found = <<>> /\ ~Expired(c)
  BY <1>1, <1>3 DEF DrainOne, Kept, IsKept, found
<1>4. CASE present /\ found # <<>>
  BY <1>1, <1>4 DEF DrainOne, IsTold, found
<1> QED
  BY <1>2, <1>3, <1>4

(* A start that is given up is announced as missed.                        *)
LEMMA MissedFacts ==
  ASSUME NEW v \in [Jobs -> Views], NEW c, c.job \in Jobs
  PROVE  /\ Missed(v, c) \in [Jobs -> Views]
         /\ \A j \in Jobs : Missed(v, c)[j] = v[j] \/ Missed(v, c)[j] = "missed"
         /\ Announced(v) \subseteq Announced(Missed(v, c))
         /\ c.state = "starting" => c.job \in Announced(Missed(v, c))
<1>1. CASE c.state = "starting"
  <2>1. Missed(v, c) = [v EXCEPT ![c.job] = "missed"]
    BY <1>1 DEF Missed
  <2>2. \A j \in Jobs : Missed(v, c)[j] = IF j = c.job THEN "missed" ELSE v[j]
    BY <2>1
  <2>3. Missed(v, c) \in [Jobs -> Views]
    BY <2>1 DEF Views
  <2> QED
    BY <2>2, <2>3 DEF Announced
<1>2. CASE c.state # "starting"
  BY <1>2 DEF Missed
<1> QED
  BY <1>1, <1>2

(* The start of a callback's job is known when its end is reached.         *)
LEMMA EndIsExpected ==
  ASSUME IInv, dispatcher = Idle, NEW i \in 1..Len(callbacks), NEW b, Drains(b, i - 1),
         callbacks[i].state = "ended"
  PROVE  callbacks[i].job \in Announced(b.view) \cup Started(b.events) \cup Started(b.waiting)
<1> DEFINE c == callbacks[i]
<1>1. callbacks \in Seq(Callback) /\ view \in [Jobs -> Views]
  BY DEF IInv, HubTyped
<1>2. c \in Callback /\ c.job \in Jobs /\ i \in DOMAIN callbacks
  <2>1. i \in DOMAIN callbacks /\ c \in Callback
    BY <1>1
  <2> QED
    BY <2>1 DEF Callback
<1>3. Orderly(callbacks, Announced(view) \cup Started(dispatcher.events))
  BY DEF IInv, InOrder
<1>4. Started(dispatcher.events) = {}
  <2>1. dispatcher.events = <<>>
    BY DEF Idle
  <2> QED
    BY <2>1 DEF Started, Starts
<1>5. Announced(view) \subseteq Announced(b.view)
  BY DEF Drains, BatchOrdered, Announced
<1>6. CASE c.job \in Announced(view)
  BY <1>5, <1>6
<1>7. CASE \E k \in 1..(i - 1) : callbacks[k].job = c.job /\ callbacks[k].state = "starting"
  BY <1>7 DEF Drains, BatchOrdered
<1> QED
  BY <1>2, <1>3, <1>4, <1>6, <1>7 DEF Orderly

LEMMA CountType ==
  ASSUME NEW d, Counters(d)
  PROVE  Total(d) \in Nat
BY FS_CardinalityType DEF Counters, Total
LEMMA AddOne ==
  ASSUME NEW x \in Int, NEW y \in Int, NEW z \in Int, NEW p \in Int, NEW q \in Int,
         NEW r \in Int, NEW i \in Int, NEW m \in Int,
         p + q + r = x + y + z + 1, x + y + z = (i - 1) + m
  PROVE  p + q + r = i + m
OBVIOUS
\* One of the three counts has grown by one.
Grew(b, e) ==
  /\ Len(b.events) \in Nat /\ Len(b.waiting) \in Nat /\ Total(b.diagnostics) \in Nat
  /\ \/ /\ Len(e.events) = Len(b.events) + 1 /\ Len(e.waiting) = Len(b.waiting)
        /\ Total(e.diagnostics) = Total(b.diagnostics)
     \/ /\ Len(e.events) = Len(b.events) /\ Len(e.waiting) = Len(b.waiting) + 1
        /\ Total(e.diagnostics) = Total(b.diagnostics)
     \/ /\ Len(e.events) = Len(b.events) /\ Len(e.waiting) = Len(b.waiting)
        /\ Total(e.diagnostics) = Total(b.diagnostics) + 1
LEMMA OneMore ==
  ASSUME NEW b, NEW e, NEW i, i \in Int, BatchCounted(b, i - 1),
         Total(diagnostics) \in Nat, Grew(b, e)
  PROVE  BatchCounted(e, i)
<1>1. PICK m \in Int : m = Total(diagnostics)
  OBVIOUS
<1>2. PICK x \in Int : x = Len(b.events)
  BY DEF Grew
<1>3. PICK y \in Int : y = Len(b.waiting)
  BY DEF Grew
<1>4. PICK z \in Int : z = Total(b.diagnostics)
  BY DEF Grew
<1>5. PICK p \in Int : p = Len(e.events)
  BY DEF Grew
<1>6. PICK q \in Int : q = Len(e.waiting)
  BY DEF Grew
<1>7. PICK r \in Int : r = Total(e.diagnostics)
  BY DEF Grew
<1>8. x + y + z = (i - 1) + m
  BY <1>1, <1>2, <1>3, <1>4 DEF BatchCounted
<1>9. \/ p = x + 1 /\ q = y /\ r = z
      \/ p = x /\ q = y + 1 /\ r = z
      \/ p = x /\ q = y /\ r = z + 1
  BY <1>2, <1>3, <1>4, <1>5, <1>6, <1>7 DEF Grew
<1>10. p + q + r = i + m
  <2>1. p + q + r = x + y + z + 1
    BY <1>9
  <2> QED
    BY <1>8, <2>1, AddOne
<1>11. Len(e.waiting) <= i
  <2>1. y <= i - 1
    BY <1>3 DEF BatchCounted
  <2>2. q <= i
    BY <1>9, <2>1
  <2> QED
    BY <1>6, <2>2
<1> QED
  BY <1>1, <1>5, <1>6, <1>7, <1>10, <1>11 DEF BatchCounted
LEMMA OldCount ==
  ASSUME IInv
  PROVE  Total(diagnostics) \in Nat /\ Len(callbacks) \in Nat
<1>1. Counters(diagnostics) /\ callbacks \in Seq(Callback)
  BY DEF IInv, HubTyped
<1> QED
  BY <1>1, CountType, LenProperties

(* The batch when a callback is given up, put back or told.                *)
LEMMA GivenUpDrains ==
  ASSUME IInv, dispatcher = Idle, NEW i \in 1..Len(callbacks), NEW b, Drains(b, i - 1),
         NEW e, IsGivenUp(b, e, callbacks[i])
  PROVE  Drains(e, i)
<1> DEFINE c == callbacks[i]
<1>1. c \in Callback /\ c.job \in Jobs /\ GenerationOf(c.job) \in 0..MaxGeneration
  <2>1. callbacks \in Seq(Callback) /\ i \in DOMAIN callbacks
    BY DEF IInv, HubTyped
  <2>2. c \in Callback
    BY <2>1
  <2>3. c.job \in Jobs
    BY <2>2 DEF Callback
  <2>4. MaxGeneration \in Nat
    BY HubAssumption
  <2> QED
    BY <2>2, <2>3, <2>4 DEF Jobs, Generations, GenerationOf
<1>2. /\ b = [events |-> b.events, waiting |-> b.waiting, bound |-> b.bound,
              diagnostics |-> b.diagnostics, view |-> b.view]
      /\ b.events \in Seq(Events) /\ b.waiting \in Seq(Callback)
      /\ b.bound \in Seq(Bindings) /\ b.view \in [Jobs -> Views]
      /\ Counters(b.diagnostics)
  BY DEF Drains, BatchTyped
<1> DEFINE d == Record(b.diagnostics, "lost", GenerationOf(c.job))
           v == Missed(b.view, c)
<1>3. e = [events |-> b.events, waiting |-> b.waiting, bound |-> b.bound,
           diagnostics |-> d, view |-> v]
  BY <1>2 DEF IsGivenUp
<1>4. Counters(d) /\ Total(d) = Total(b.diagnostics) + 1 /\ Total(b.diagnostics) \in Nat
  <2>1. "lost" \in Codes
    BY DEF Codes
  <2> QED
    BY <1>1, <1>2, <2>1, RecordFacts DEF Counted
<1>5. /\ v \in [Jobs -> Views]
      /\ \A j \in Jobs : v[j] = b.view[j] \/ v[j] = "missed"
      /\ Announced(b.view) \subseteq Announced(v)
      /\ c.state = "starting" => c.job \in Announced(v)
  BY <1>1, <1>2, MissedFacts
<1> HIDE DEF d, v, c
<1>6. /\ e.events = b.events /\ e.waiting = b.waiting /\ e.bound = b.bound
      /\ e.diagnostics = d /\ e.view = v
  BY <1>3
<1>7. BatchTyped(e)
  BY <1>2, <1>3, <1>4, <1>5, <1>6 DEF BatchTyped
<1>8. BatchCounted(e, i)
  <2>1. Len(b.events) \in Nat /\ Len(b.waiting) \in Nat /\ Total(diagnostics) \in Nat
        /\ i \in Int
    BY <1>2, LenProperties, OldCount
  <2>2. Total(e.diagnostics) = Total(b.diagnostics) + 1
    BY <1>4, <1>6
  <2>3. Len(e.events) = Len(b.events) /\ Len(e.waiting) = Len(b.waiting)
    BY <1>6
  <2>4. BatchCounted(b, i - 1)
    BY DEF Drains
  <2>5. Grew(b, e)
    BY <1>4, <2>1, <2>2, <2>3 DEF Grew
  <2> QED
    BY <2>1, <2>4, <2>5, OneMore
<1>9. BatchBound(e)
  BY <1>6 DEF Drains, BatchBound
<1>10. BatchOrdered(e, i)
  <2>1. /\ \A j \in Jobs : b.view[j] = view[j] \/ b.view[j] = "missed"
        /\ Orderly(b.events, Announced(b.view))
        /\ Orderly(b.waiting, Announced(b.view) \cup Started(b.events))
        /\ \A k \in 1..(i - 1) : callbacks[k].state = "starting" =>
             callbacks[k].job \in Announced(b.view) \cup Started(b.events) \cup Started(b.waiting)
    BY DEF Drains, BatchOrdered
  <2>2. \A j \in Jobs : v[j] = view[j] \/ v[j] = "missed"
    BY <1>5, <2>1
  <2>3. Orderly(b.events, Announced(v))
    BY <1>5, <2>1, OrderlyMore
  <2>4. Orderly(b.waiting, Announced(v) \cup Started(b.events))
    <3>1. Announced(b.view) \cup Started(b.events) \subseteq Announced(v) \cup Started(b.events)
      BY <1>5
    <3> QED
      BY <2>1, <3>1, OrderlyMore
  <2>5. ASSUME NEW k \in 1..i, callbacks[k].state = "starting"
        PROVE  callbacks[k].job \in Announced(v) \cup Started(b.events) \cup Started(b.waiting)
    <3>1. CASE k = i
      BY <1>5, <2>5, <3>1 DEF c
    <3>2. CASE k \in 1..(i - 1)
      BY <1>5, <2>1, <2>5, <3>2
    <3> QED
      BY <3>1, <3>2
  <2> QED
    BY <1>6, <2>2, <2>3, <2>4, <2>5 DEF BatchOrdered
<1> QED
  BY <1>7, <1>8, <1>9, <1>10 DEF Drains

LEMMA KeptDrains ==
  ASSUME IInv, dispatcher = Idle, NEW i \in 1..Len(callbacks), NEW b, Drains(b, i - 1),
         NEW e, IsKept(b, e, callbacks[i])
  PROVE  Drains(e, i)
<1> DEFINE c == callbacks[i]
           w == Append(b.waiting, c)
<1>1. c \in Callback /\ c.job \in Jobs
  <2>1. callbacks \in Seq(Callback) /\ i \in DOMAIN callbacks
    BY DEF IInv, HubTyped
  <2>2. c \in Callback
    BY <2>1
  <2> QED
    BY <2>2 DEF Callback
<1>2. /\ b = [events |-> b.events, waiting |-> b.waiting, bound |-> b.bound,
              diagnostics |-> b.diagnostics, view |-> b.view]
      /\ b.events \in Seq(Events) /\ b.waiting \in Seq(Callback)
      /\ b.bound \in Seq(Bindings) /\ b.view \in [Jobs -> Views]
      /\ Counters(b.diagnostics)
  BY DEF Drains, BatchTyped
<1>3. /\ e = [events |-> b.events, waiting |-> w, bound |-> b.bound,
              diagnostics |-> b.diagnostics, view |-> b.view]
      /\ ~IsBound(b.bound, c.job)
  BY <1>2 DEF IsKept
<1>4. c.state = "ended" =>
        c.job \in Announced(b.view) \cup Started(b.events) \cup Started(b.waiting)
  BY EndIsExpected
<1>5. /\ w \in Seq(Callback) /\ Len(w) = Len(b.waiting) + 1
      /\ \A j : Starts(w, j) <=> Starts(b.waiting, j) \/ (c.job = j /\ c.state = "starting")
  BY <1>1, <1>2, AppendProperties, StartsAppend
<1>6. Orderly(w, Announced(b.view) \cup Started(b.events))
  <2> DEFINE K == Announced(b.view) \cup Started(b.events)
  <2>1. Orderly(b.waiting, K)
    BY DEF Drains, BatchOrdered
  <2>2. c.state = "ended" => c.job \in K \/ Starts(b.waiting, c.job)
    BY <1>4 DEF Started
  <2> HIDE DEF K, c
  <2>3. Orderly(Append(b.waiting, c), K)
    BY <1>1, <1>2, <2>1, <2>2, OrderlyAppend
  <2> QED
    BY <2>3 DEF K
<1> HIDE DEF c, w
<1>7. /\ e.events = b.events /\ e.waiting = w /\ e.bound = b.bound
      /\ e.diagnostics = b.diagnostics /\ e.view = b.view
  BY <1>3
<1>8. BatchTyped(e)
  BY <1>2, <1>3, <1>5, <1>7 DEF BatchTyped
<1>9. BatchCounted(e, i)
  <2>1. Len(b.events) \in Nat /\ Len(b.waiting) \in Nat /\ Total(diagnostics) \in Nat
        /\ Total(b.diagnostics) \in Nat /\ i \in Int
    BY <1>2, LenProperties, OldCount, CountType
  <2>2. Total(e.diagnostics) = Total(b.diagnostics) /\ Len(e.events) = Len(b.events)
        /\ Len(e.waiting) = Len(b.waiting) + 1
    BY <1>5, <1>7
  <2>3. BatchCounted(b, i - 1)
    BY DEF Drains
  <2>4. Grew(b, e)
    BY <2>1, <2>2 DEF Grew
  <2> QED
    BY <2>1, <2>3, <2>4, OneMore
<1>10. BatchBound(e)
  <2>1. \A j \in Jobs : Starts(w, j) => ~IsBound(b.bound, j)
    BY <1>3, <1>5 DEF Drains, BatchBound
  <2> QED
    BY <1>7, <2>1 DEF Drains, BatchBound
<1>11. BatchOrdered(e, i)
  <2>1. /\ \A j \in Jobs : b.view[j] = view[j] \/ b.view[j] = "missed"
        /\ Orderly(b.events, Announced(b.view))
        /\ \A k \in 1..(i - 1) : callbacks[k].state = "starting" =>
             callbacks[k].job \in Announced(b.view) \cup Started(b.events) \cup Started(b.waiting)
    BY DEF Drains, BatchOrdered
  <2>2. Started(b.waiting) \subseteq Started(w)
    BY <1>5 DEF Started
  <2>3. ASSUME NEW k \in 1..i, callbacks[k].state = "starting"
        PROVE  callbacks[k].job \in Announced(b.view) \cup Started(b.events) \cup Started(w)
    <3>1. CASE k = i
      BY <1>1, <1>5, <2>3, <3>1 DEF c, Started
    <3>2. CASE k \in 1..(i - 1)
      BY <2>1, <2>2, <2>3, <3>2
    <3> QED
      BY <3>1, <3>2
  <2> QED
    BY <1>6, <1>7, <2>1, <2>3 DEF BatchOrdered
<1> QED
  BY <1>8, <1>9, <1>10, <1>11 DEF Drains

(* Without its own binding when a job has ended, as before otherwise.      *)
LEMMA ReleasedFacts ==
  ASSUME NEW bound \in Seq(Bindings), Keyed(bound), NEW c,
         NEW r, r = Released(bound, c)
  PROVE  /\ r \in Seq(Bindings) /\ Len(r) <= Len(bound) /\ Len(r) \in Nat
         /\ \A i \in DOMAIN r : \E k \in DOMAIN bound : r[i] = bound[k]
         /\ c.state # "starting" => ~IsBound(r, c.job)
<1>1. CASE c.state = "starting"
  BY <1>1, LenProperties DEF Released
<1>2. CASE c.state # "starting"
  <2>1. r = Filter(bound, LAMBDA b : b.key # Key(c.job))
    BY <1>2 DEF Released
  <2>2. WithoutJob(r, bound, c.job)
    <3> DEFINE j == c.job
    <3>1. r = Filter(bound, LAMBDA b : b.key # Key(j))
      BY <2>1
    <3> HIDE DEF j
    <3>2. WithoutJob(r, bound, j)
      BY <3>1, UnbindJob
    <3> QED
      BY <3>2 DEF j
  <2> QED
    BY <2>2 DEF WithoutJob, IsBound
<1> QED
  BY <1>1, <1>2

LEMMA ToldDrains ==
  ASSUME IInv, dispatcher = Idle, NEW i \in 1..Len(callbacks), NEW b, Drains(b, i - 1),
         NEW e, IsTold(b, e, callbacks[i])
  PROVE  Drains(e, i)
<1> DEFINE c == callbacks[i]
           told == [job |-> c.job, state |-> c.state, posted |-> c.job]
           s == Append(b.events, told)
           r == Released(b.bound, c)
<1>1. c \in Callback /\ c.job \in Jobs /\ c.state \in {"starting", "ended"}
  <2>1. callbacks \in Seq(Callback) /\ i \in DOMAIN callbacks
    BY DEF IInv, HubTyped
  <2>2. c \in Callback
    BY <2>1
  <2> QED
    BY <2>2 DEF Callback
<1>2. /\ b = [events |-> b.events, waiting |-> b.waiting, bound |-> b.bound,
              diagnostics |-> b.diagnostics, view |-> b.view]
      /\ b.events \in Seq(Events) /\ b.waiting \in Seq(Callback)
      /\ b.bound \in Seq(Bindings) /\ b.view \in [Jobs -> Views]
      /\ Counters(b.diagnostics)
  BY DEF Drains, BatchTyped
<1>3. /\ e = [events |-> s, waiting |-> b.waiting, bound |-> r,
              diagnostics |-> b.diagnostics, view |-> b.view]
      /\ IsBound(b.bound, c.job)
  BY <1>2 DEF IsTold
<1>4. c.state = "ended" =>
        c.job \in Announced(b.view) \cup Started(b.events) \cup Started(b.waiting)
  BY EndIsExpected
<1>5. /\ Len(b.bound) <= Len(correlations) /\ Keyed(b.bound) /\ Named(b.events)
      /\ \A k \in DOMAIN b.bound : \E m \in DOMAIN correlations : b.bound[k] = correlations[m]
      /\ \A j \in Jobs : Ends(b.events, j) => IsBound(correlations, j) /\ ~IsBound(b.bound, j)
      /\ \A j \in Jobs : Starts(b.waiting, j) => ~IsBound(b.bound, j)
  BY DEF Drains, BatchBound
<1>6. /\ \A j \in Jobs : b.view[j] = view[j] \/ b.view[j] = "missed"
      /\ Orderly(b.events, Announced(b.view))
      /\ Orderly(b.waiting, Announced(b.view) \cup Started(b.events))
      /\ \A k \in 1..(i - 1) : callbacks[k].state = "starting" =>
           callbacks[k].job \in Announced(b.view) \cup Started(b.events) \cup Started(b.waiting)
  BY DEF Drains, BatchOrdered
<1>7. told \in Events /\ told.job = c.job /\ told.state = c.state /\ told.posted = c.job
  BY <1>1 DEF Events
<1>8. /\ r \in Seq(Bindings) /\ Len(r) <= Len(b.bound) /\ Len(r) \in Nat
      /\ \A k \in DOMAIN r : \E m \in DOMAIN b.bound : r[k] = b.bound[m]
      /\ c.state # "starting" => ~IsBound(r, c.job)
  BY <1>2, <1>5, ReleasedFacts
<1> HIDE DEF told
<1>9. /\ s \in Seq(Events) /\ Len(s) = Len(b.events) + 1
      /\ \A j : Starts(s, j) <=> Starts(b.events, j) \/ (c.job = j /\ c.state = "starting")
      /\ \A j : Ends(s, j) <=> Ends(b.events, j) \/ (c.job = j /\ c.state = "ended")
  BY <1>2, <1>7, AppendProperties, StartsAppend, EndsAppend
<1>10. Named(s)
  <2>1. /\ DOMAIN s = DOMAIN b.events \cup {Len(b.events) + 1}
        /\ \A k \in DOMAIN b.events : s[k] = b.events[k]
        /\ s[Len(b.events) + 1] = told
    BY <1>2, <1>7, AppendIndex
  <2> QED
    BY <1>5, <1>7, <2>1 DEF Named
<1>11. Orderly(s, Announced(b.view))
  <2>1. c.job \notin Started(b.waiting)
    BY <1>1, <1>3, <1>5 DEF Started
  <2>2. told.state = "ended" => told.job \in Announced(b.view) \/ Starts(b.events, told.job)
    BY <1>4, <1>7, <2>1 DEF Started
  <2> QED
    BY <1>2, <1>6, <1>7, <2>2, OrderlyAppend
<1>12. \A j : IsBound(r, j) => IsBound(b.bound, j)
  BY <1>8 DEF IsBound
<1>13. IsBound(correlations, c.job)
  <2>1. PICK k \in DOMAIN b.bound : b.bound[k].job = c.job
    BY <1>3 DEF IsBound
  <2>2. PICK m \in DOMAIN correlations : b.bound[k] = correlations[m]
    BY <1>5
  <2> QED
    BY <2>1, <2>2 DEF IsBound
<1> HIDE DEF c, s, r
<1>14. /\ e.events = s /\ e.waiting = b.waiting /\ e.bound = r
       /\ e.diagnostics = b.diagnostics /\ e.view = b.view
  BY <1>3
<1>15. BatchTyped(e)
  BY <1>2, <1>3, <1>8, <1>9, <1>14 DEF BatchTyped
<1>16. BatchCounted(e, i)
  <2>1. Len(b.events) \in Nat /\ Len(b.waiting) \in Nat /\ Total(diagnostics) \in Nat
        /\ Total(b.diagnostics) \in Nat /\ i \in Int
    BY <1>2, LenProperties, OldCount, CountType
  <2>2. Grew(b, e)
    BY <1>9, <1>14, <2>1 DEF Grew
  <2>3. BatchCounted(b, i - 1)
    BY DEF Drains
  <2> QED
    BY <2>1, <2>2, <2>3, OneMore
<1>17. BatchBound(e)
  <2>1. Len(r) <= Len(correlations)
    <3>1. Len(b.bound) \in Nat /\ Len(correlations) \in Nat
      BY <1>2, LenProperties DEF IInv, HubTyped
    <3> QED
      BY <1>5, <1>8, <3>1
  <2>2. Keyed(r)
    BY <1>5, <1>8 DEF Keyed
  <2>3. \A k \in DOMAIN r : \E m \in DOMAIN correlations : r[k] = correlations[m]
    BY <1>5, <1>8
  <2>4. ASSUME NEW j \in Jobs, Ends(s, j) PROVE IsBound(correlations, j) /\ ~IsBound(r, j)
    <3>1. CASE Ends(b.events, j)
      BY <1>5, <1>12, <3>1
    <3>2. CASE c.job = j /\ c.state = "ended"
      BY <1>8, <1>13, <3>2
    <3> QED
      BY <1>9, <2>4, <3>1, <3>2
  <2>5. \A j \in Jobs : Starts(b.waiting, j) => ~IsBound(r, j)
    BY <1>5, <1>12
  <2> QED
    BY <1>10, <1>14, <2>1, <2>2, <2>3, <2>4, <2>5 DEF BatchBound
<1>18. BatchOrdered(e, i)
  <2>1. Started(b.events) \subseteq Started(s)
    BY <1>9 DEF Started
  <2>2. Orderly(b.waiting, Announced(b.view) \cup Started(s))
    <3>1. Announced(b.view) \cup Started(b.events) \subseteq Announced(b.view) \cup Started(s)
      BY <2>1
    <3> QED
      BY <1>6, <3>1, OrderlyMore
  <2>3. ASSUME NEW k \in 1..i, callbacks[k].state = "starting"
        PROVE  callbacks[k].job \in Announced(b.view) \cup Started(s) \cup Started(b.waiting)
    <3>1. CASE k = i
      BY <1>1, <1>9, <2>3, <3>1 DEF c, Started
    <3>2. CASE k \in 1..(i - 1)
      BY <1>6, <2>1, <2>3, <3>2
    <3> QED
      BY <3>1, <3>2
  <2> QED
    BY <1>6, <1>11, <1>14, <2>2, <2>3 DEF BatchOrdered
<1> QED
  BY <1>15, <1>16, <1>17, <1>18 DEF Drains

(* Nothing is drained yet.                                                 *)
NoBatch == [events |-> <<>>, waiting |-> <<>>, bound |-> correlations,
            diagnostics |-> diagnostics, view |-> view]
LEMMA NothingDrained ==
  ASSUME IInv
  PROVE  Drains(NoBatch, 0)
<1>1. /\ NoBatch.events = <<>> /\ NoBatch.waiting = <<>> /\ NoBatch.bound = correlations
      /\ NoBatch.diagnostics = diagnostics /\ NoBatch.view = view
  BY DEF NoBatch
<1>2. /\ correlations \in Seq(Bindings) /\ view \in [Jobs -> Views]
      /\ Counters(diagnostics) /\ Keyed(correlations)
  BY DEF IInv, HubTyped, Attributed
<1>3. BatchTyped(NoBatch)
  <2>1. NoBatch = [events |-> NoBatch.events, waiting |-> NoBatch.waiting,
                   bound |-> NoBatch.bound, diagnostics |-> NoBatch.diagnostics,
                   view |-> NoBatch.view]
    BY DEF NoBatch
  <2>2. <<>> \in Seq(Events) /\ <<>> \in Seq(Callback)
    OBVIOUS
  <2> QED
    BY <1>1, <1>2, <2>1, <2>2 DEF BatchTyped
<1>4. BatchCounted(NoBatch, 0)
  <2>1. Total(diagnostics) \in Nat
    BY OldCount
  <2>2. Len(<<>>) = 0
    OBVIOUS
  <2>3. 0 <= 0 /\ \A x \in Nat : 0 + 0 + x = 0 + x
    OBVIOUS
  <2> QED
    BY <1>1, <2>1, <2>2, <2>3 DEF BatchCounted
<1>5. \A j : ~Ends(<<>>, j) /\ ~Starts(<<>>, j)
  BY DEF Ends, Starts
<1>6. Orderly(<<>>, Announced(view)) /\ Orderly(<<>>, Announced(view) \cup Started(<<>>))
      /\ Named(<<>>)
  BY DEF Orderly, Named
<1>7. BatchBound(NoBatch)
  <2>1. Len(correlations) \in Nat
    BY <1>2, LenProperties
  <2> QED
    BY <1>1, <1>2, <1>5, <1>6, <2>1 DEF BatchBound
<1>8. BatchOrdered(NoBatch, 0)
  <2>1. 1..0 = {}
    OBVIOUS
  <2> QED
    BY <1>1, <1>6, <2>1 DEF BatchOrdered
<1> QED
  BY <1>3, <1>4, <1>7, <1>8 DEF Drains

(* What the dispatcher makes of the queue: each callback is an event, put  *)
(* back or given up, in order.                                             *)
LEMMA DrainedFacts ==
  ASSUME IInv, dispatcher = Idle
  PROVE  Drains(Drained, Len(callbacks))
<1>1. callbacks \in Seq(Callback) /\ Len(callbacks) \in Nat
  BY LenProperties DEF IInv, HubTyped
<1>2. PICK p : Draining!Folds(p, NoBatch, callbacks)
  BY <1>1, Draining!FoldLeftSteps
<1>3. /\ p[0] = NoBatch
      /\ \A i \in 1..Len(callbacks) : p[i] = DrainOne(p[i - 1], callbacks[i])
      /\ Drained = p[Len(callbacks)]
  <2>1. Draining!FoldLeft(DrainOne, NoBatch, callbacks) = FoldLeft(DrainOne, NoBatch, callbacks)
    BY DEF FoldLeft, Draining!FoldLeft, MapThenFoldSet, Draining!MapThenFoldSet, Max, Draining!Max
  <2> QED
    BY <1>2, <2>1 DEF Draining!Folds, Drained, NoBatch
<1> DEFINE P == {k \in Nat : k <= Len(callbacks) => Drains(p[k], k)}
<1>4. 0 \in P
  BY <1>3, NothingDrained
<1>5. ASSUME NEW k \in Nat, k \in P PROVE k + 1 \in P
  <2> SUFFICES ASSUME k + 1 <= Len(callbacks) PROVE Drains(p[k + 1], k + 1)
    OBVIOUS
  <2>1. PICK i \in 1..Len(callbacks) : i = k + 1 /\ i - 1 = k
    BY <1>1
  <2>2. Drains(p[k], i - 1)
    BY <1>1, <1>5, <2>1
  <2>3. p[i] = DrainOne(p[k], callbacks[i])
    BY <1>3, <2>1
  <2>4. \/ IsGivenUp(p[k], p[i], callbacks[i])
        \/ IsKept(p[k], p[i], callbacks[i])
        \/ IsTold(p[k], p[i], callbacks[i])
    <3>1. p[k].bound \in Seq(Bindings) /\ Keyed(p[k].bound)
      BY <2>2 DEF Drains, BatchTyped, BatchBound
    <3> QED
      BY <2>3, <3>1, DrainCases
  <2>5. Drains(p[i], i)
    BY <2>2, <2>4, GivenUpDrains, KeptDrains, ToldDrains
  <2> QED
    BY <2>1, <2>5
<1> HIDE DEF P
<1>6. Len(callbacks) \in P
  BY <1>1, <1>4, <1>5, NatSetInduction
<1> QED
  BY <1>1, <1>3, <1>6 DEF P

-----------------------------------------------------------------------------
(* Steps.                                                                  *)

\* What the queue, the events and the diagnostics stand for.
Accounted ==
  Len(callbacks) + Len(dispatcher.events) + Total(diagnostics)
    + Total(dispatcher.taken) + Pending
LEMMA AccountedTypes ==
  ASSUME IInv
  PROVE  /\ Len(callbacks) \in Nat /\ Len(dispatcher.events) \in Nat /\ Total(diagnostics) \in Nat
         /\ Total(dispatcher.taken) \in Nat /\ Pending \in Nat /\ unanswered \in Int
         /\ ~Closed => unanswered = Accounted
<1>1. /\ Counters(diagnostics) /\ callbacks \in Seq(Callback) /\ IsFiniteSet(Reports(malformed))
      /\ unanswered \in Int
  BY DEF IInv, HubTyped
<1>2. dispatcher.events \in Seq(Events) /\ Counters(dispatcher.taken)
  BY DEF IInv, DispatcherTyped
<1>3. Pending \in Nat
  <2>1. Pending = Cardinality(Reports(malformed))
    BY DEF Pending, Reports
  <2> QED
    BY <1>1, <2>1, FS_CardinalityType
<1>4. ~Closed => unanswered = Accounted
  BY DEF IInv, NothingIsLostSilently, Accounted
<1> QED
  BY <1>1, <1>2, <1>3, <1>4, CountType, LenProperties

LEMMA BoundJobs ==
  ASSUME NEW bound \in Seq(Bindings), NEW i \in DOMAIN bound
  PROVE  bound[i].job \in Jobs
<1>1. bound[i] \in Bindings
  OBVIOUS
<1> QED
  BY <1>1 DEF Bindings

LEMMA RegisterKeeps ==
  ASSUME IInv, RegisterGeneration
  PROVE  IInv'
<1>1. /\ registered < MaxGeneration /\ registered' = registered + 1
      /\ active' = active \cup {registered + 1}
      /\ UNCHANGED <<callbacks, correlations, diagnostics, sink, closing, dispatcher,
                     jobs, malformed, junk, unanswered, view>>
  BY DEF RegisterGeneration, outside
<1>2. HubTyped'
  <2>1. registered \in 0..MaxGeneration /\ active \subseteq 1..registered
    BY DEF IInv, HubTyped
  <2>2. registered' \in 0..MaxGeneration /\ active' \subseteq 1..registered'
    BY <1>1, <2>1, HubAssumption
  <2> QED
    BY <1>1, <2>2 DEF IInv, HubTyped
<1>3. DispatcherTyped' /\ Attributed' /\ Quiet'
  BY <1>1 DEF IInv, DispatcherTyped, Attributed, Quiet
<1>4. BoundOnce'
  BY <1>1 DEF IInv, BoundOnce
<1>5. InOrder' /\ BegunIsKnown'
  BY <1>1 DEF IInv, InOrder, AbsentStartIsAccounted, BegunIsKnown, Closed
<1>6. NothingIsLostSilently'
  BY <1>1 DEF IInv, NothingIsLostSilently, Pending, Closed
<1> QED
  BY <1>2, <1>3, <1>4, <1>5, <1>6 DEF IInv

LEMMA RetireKeeps ==
  ASSUME IInv, NEW g, RetireGeneration(g)
  PROVE  IInv'
<1>1. /\ active' = active \ {g}
      /\ UNCHANGED <<registered, callbacks, diagnostics, sink, closing, dispatcher,
                     jobs, malformed, junk, unanswered, view>>
  BY DEF RetireGeneration, outside
<1>2. /\ correlations \in Seq(Bindings) /\ Len(correlations) <= MaxCorrelations
      /\ Keyed(correlations)
  BY DEF IInv, HubTyped, Attributed
<1>3. /\ correlations' \in Seq(Bindings) /\ Len(correlations') <= Len(correlations)
      /\ Len(correlations') \in Nat
      /\ \A i \in DOMAIN correlations' :
           /\ GenerationOf(correlations'[i].job) # g
           /\ \E k \in DOMAIN correlations : correlations'[i] = correlations[k]
  <2>1. correlations' = Filter(correlations, LAMBDA c : GenerationOf(c.job) # g)
    BY DEF RetireGeneration
  <2>2. WithoutSession(correlations', correlations, g)
    BY <1>2, <2>1, UnbindSession
  <2> QED
    BY <2>2 DEF WithoutSession
<1>4. HubTyped'
  <2>1. Len(correlations') <= MaxCorrelations
    <3>1. Len(correlations) \in Nat
      BY <1>2, LenProperties
    <3> QED
      BY <1>2, <1>3, <3>1, HubAssumption
  <2> QED
    BY <1>1, <1>3, <2>1 DEF IInv, HubTyped
<1>5. DispatcherTyped' /\ Quiet'
  BY <1>1 DEF IInv, DispatcherTyped, Quiet
<1>6. Attributed'
  BY <1>1, <1>2, <1>3 DEF IInv, Attributed, Keyed
<1>7. BoundOnce'
  <2>1. \A j : IsBound(correlations', j) => IsBound(correlations, j)
    BY <1>3 DEF IsBound
  <2>2. \A i \in DOMAIN correlations' :
          GenerationOf(correlations'[i].job) \in active' /\ jobs'[correlations'[i].job].bound
    BY <1>1, <1>3 DEF IInv, BoundOnce
  <2> QED
    BY <1>1, <2>1, <2>2 DEF IInv, BoundOnce
<1>8. InOrder' /\ BegunIsKnown'
  BY <1>1 DEF IInv, InOrder, AbsentStartIsAccounted, BegunIsKnown, Closed
<1>9. NothingIsLostSilently'
  BY <1>1 DEF IInv, NothingIsLostSilently, Pending, Closed
<1> QED
  BY <1>4, <1>5, <1>6, <1>7, <1>8, <1>9 DEF IInv

LEMMA PostKeeps ==
  ASSUME IInv, NEW j \in Jobs, Post(j)
  PROVE  IInv'
<1>1. /\ jobs' = [jobs EXCEPT ![j].native = "posted"]
      /\ UNCHANGED <<registered, active, callbacks, correlations, diagnostics, sink, closing,
                     dispatcher, malformed, junk, unanswered, view>>
  BY DEF Post, hubVars
<1>2. jobs \in [Jobs -> [native : {"idle", "posted", "starting", "ended"}, bound : BOOLEAN]]
  BY DEF IInv, HubTyped
<1>3. \A k \in Jobs : /\ jobs'[k].bound = jobs[k].bound
                      /\ k # j => jobs'[k] = jobs[k]
                      /\ k = j => jobs'[k].native = "posted"
  BY <1>1, <1>2
<1>4. jobs' \in [Jobs -> [native : {"idle", "posted", "starting", "ended"}, bound : BOOLEAN]]
  BY <1>1, <1>2
<1>5. HubTyped'
  BY <1>1, <1>4 DEF IInv, HubTyped
<1>6. DispatcherTyped' /\ Attributed' /\ Quiet'
  BY <1>1 DEF IInv, DispatcherTyped, Attributed, Quiet
<1>7. BoundOnce'
  <2>1. correlations \in Seq(Bindings)
    BY DEF IInv, HubTyped
  <2>2. \A i \in DOMAIN correlations : correlations[i].job \in Jobs
    BY <2>1, BoundJobs
  <2> QED
    BY <1>1, <1>3, <2>2 DEF IInv, BoundOnce
<1>8. InOrder' /\ BegunIsKnown'
  BY <1>1, <1>3 DEF IInv, InOrder, AbsentStartIsAccounted, BegunIsKnown, Closed
<1>9. NothingIsLostSilently'
  BY <1>1 DEF IInv, NothingIsLostSilently, Pending, Closed
<1> QED
  BY <1>5, <1>6, <1>7, <1>8, <1>9 DEF IInv

\* correlations after a thread has bound its job: the binding of j, and some
\* of those that were there.
BindsJob(r, s, j) ==
  /\ r \in Seq(Bindings) /\ Len(r) <= MaxCorrelations
  /\ \A i \in DOMAIN r : r[i] = [key |-> j, job |-> j] \/ \E k \in DOMAIN s : r[i] = s[k]
LEMMA BindFacts ==
  ASSUME IInv, NEW j \in Jobs, BindOperation(j)
  PROVE  \/ UNCHANGED <<correlations, diagnostics>>
         \/ /\ GenerationOf(j) \in active
            /\ BindsJob(correlations', correlations, j)
            /\ Counters(diagnostics') /\ Total(diagnostics') = Total(diagnostics)
<1>1. CASE Closed \/ GenerationOf(j) \notin active
  BY <1>1 DEF BindOperation
<1>2. CASE ~(Closed \/ GenerationOf(j) \notin active)
  <2> DEFINE others == Filter(correlations, LAMBDA c : c.key # Key(j))
             evicts == Len(others) = Len(correlations) /\ Len(correlations) >= MaxCorrelations
             kept == IF evicts THEN Tail(others) ELSE others
             new == [key |-> Key(j), job |-> j]
  <2>1. /\ correlations' = Append(kept, new)
        /\ diagnostics' = IF evicts THEN Record(diagnostics, "evicted",
                                                GenerationOf(Head(correlations).job))
                          ELSE diagnostics
    BY <1>2 DEF BindOperation
  <2>2. /\ correlations \in Seq(Bindings) /\ Len(correlations) <= MaxCorrelations
        /\ Keyed(correlations) /\ Counters(diagnostics) /\ Len(correlations) \in Nat
    BY LenProperties DEF IInv, HubTyped, Attributed
  <2>3. WithoutJob(others, correlations, j)
    BY <2>2, UnbindJob
  <2>4. new \in Bindings /\ new = [key |-> j, job |-> j]
    BY DEF Key, Bindings
  <2> HIDE DEF others, new
  <2>5. /\ others \in Seq(Bindings) /\ Len(others) <= Len(correlations) /\ Len(others) \in Nat
        /\ \A i \in DOMAIN others : \E k \in DOMAIN correlations : others[i] = correlations[k]
    BY <2>3 DEF WithoutJob
  <2>6. MaxCorrelations \in Nat \ {0}
    BY HubAssumption
  <2>7. /\ kept \in Seq(Bindings) /\ Len(kept) + 1 <= MaxCorrelations /\ Len(kept) \in Nat
        /\ \A i \in DOMAIN kept : \E k \in DOMAIN correlations : kept[i] = correlations[k]
    <3>1. CASE evicts
      <4>1. Len(others) # 0
        BY <2>2, <2>5, <2>6, <3>1
      <4>2. others # <<>>
        BY <2>5, <4>1, EmptySeq
      <4>3. Tail(others) \in Seq(Bindings) /\ Len(Tail(others)) = Len(others) - 1
        BY <2>5, <4>2, HeadTailProperties
      <4>4. \A i \in DOMAIN Tail(others) : i + 1 \in DOMAIN others /\ Tail(others)[i] = others[i + 1]
        BY <2>5, <4>2, TailIndex
      <4>5. kept = Tail(others)
        BY <3>1
      <4> HIDE DEF kept, evicts
      <4>6. Len(kept) + 1 <= MaxCorrelations /\ Len(kept) \in Nat
        BY <2>2, <2>5, <2>6, <4>1, <4>3, <4>5
      <4> QED
        BY <2>5, <4>3, <4>4, <4>5, <4>6
    <3>2. CASE ~evicts
      <4>1. kept = others
        BY <3>2
      <4>2. Len(others) + 1 <= MaxCorrelations
        BY <2>2, <2>5, <2>6, <3>2
      <4> HIDE DEF kept, evicts
      <4> QED
        BY <2>5, <4>1, <4>2
    <3> QED
      BY <3>1, <3>2
  <2>8. Counters(diagnostics') /\ Total(diagnostics') = Total(diagnostics)
    <3>1. CASE evicts
      <4>1. Len(correlations) # 0
        BY <2>2, <2>6, <3>1
      <4>2. correlations # <<>>
        BY <2>2, <4>1, EmptySeq
      <4>3. Head(correlations) \in Bindings
        BY <2>2, <4>2, HeadTailProperties
      <4>4. GenerationOf(Head(correlations).job) \in 0..MaxGeneration /\ "evicted" \in Codes
        BY <4>3, HubAssumption DEF Bindings, Jobs, Generations, GenerationOf, Codes
      <4>5. diagnostics' = Record(diagnostics, "evicted", GenerationOf(Head(correlations).job))
        BY <2>1, <3>1
      <4>6. Counted(diagnostics', diagnostics, "evicted")
        BY <2>2, <4>4, <4>5, RecordFacts
      <4> QED
        BY <4>6 DEF Counted
    <3>2. CASE ~evicts
      BY <2>1, <2>2, <3>2
    <3> QED
      BY <3>1, <3>2
  <2>9. BindsJob(correlations', correlations, j)
    <3> HIDE DEF kept, evicts
    <3>1. /\ Append(kept, new) \in Seq(Bindings) /\ Len(Append(kept, new)) = Len(kept) + 1
          /\ DOMAIN Append(kept, new) = DOMAIN kept \cup {Len(kept) + 1}
          /\ \A i \in DOMAIN kept : Append(kept, new)[i] = kept[i]
          /\ Append(kept, new)[Len(kept) + 1] = new
      BY <2>4, <2>7, AppendIndex, AppendProperties
    <3> QED
      BY <2>1, <2>4, <2>7, <3>1 DEF BindsJob
  <2> QED
    BY <1>2, <2>8, <2>9
<1> QED
  BY <1>1, <1>2
LEMMA BindKeeps ==
  ASSUME IInv, NEW j \in Jobs, BindOperation(j)
  PROVE  IInv'
<1>1. /\ jobs' = [jobs EXCEPT ![j].bound = TRUE] /\ ~jobs[j].bound
      /\ UNCHANGED <<registered, active, callbacks, sink, closing, dispatcher, malformed,
                     junk, unanswered, view>>
  BY DEF BindOperation
<1>2. jobs \in [Jobs -> [native : {"idle", "posted", "starting", "ended"}, bound : BOOLEAN]]
  BY DEF IInv, HubTyped
<1>3. \A k \in Jobs : /\ jobs'[k].native = jobs[k].native
                      /\ k # j => jobs'[k] = jobs[k]
                      /\ k = j => jobs'[k].bound
  BY <1>1, <1>2
<1>4. jobs' \in [Jobs -> [native : {"idle", "posted", "starting", "ended"}, bound : BOOLEAN]]
  BY <1>1, <1>2
<1>5. /\ correlations \in Seq(Bindings) /\ Len(correlations) <= MaxCorrelations
      /\ Counters(diagnostics) /\ Keyed(correlations)
      /\ \A i \in DOMAIN correlations :
           GenerationOf(correlations[i].job) \in active /\ jobs[correlations[i].job].bound
  BY DEF IInv, HubTyped, Attributed, BoundOnce
<1>6. /\ correlations' \in Seq(Bindings) /\ Len(correlations') <= MaxCorrelations
      /\ Counters(diagnostics') /\ Total(diagnostics') = Total(diagnostics)
  BY <1>5, BindFacts DEF BindsJob
<1>7. \A i \in DOMAIN correlations' :
        \/ correlations'[i] = [key |-> j, job |-> j] /\ GenerationOf(j) \in active
        \/ \E k \in DOMAIN correlations : correlations'[i] = correlations[k]
  BY BindFacts DEF BindsJob
<1>8. HubTyped'
  BY <1>1, <1>4, <1>6 DEF IInv, HubTyped
<1>9. DispatcherTyped' /\ Quiet'
  BY <1>1 DEF IInv, DispatcherTyped, Quiet
<1>10. Attributed'
  <2>1. \A i \in DOMAIN correlations' : correlations'[i].key = correlations'[i].job
    BY <1>5, <1>7 DEF Keyed
  <2> QED
    BY <1>1, <2>1 DEF IInv, Attributed, Keyed
<1>11. BoundOnce'
  <2>1. ASSUME NEW i \in DOMAIN correlations'
        PROVE  GenerationOf(correlations'[i].job) \in active' /\ jobs'[correlations'[i].job].bound
    <3>1. CASE correlations'[i] = [key |-> j, job |-> j] /\ GenerationOf(j) \in active
      <4>1. correlations'[i].job = j
        BY <3>1
      <4> QED
        BY <1>1, <1>3, <3>1, <4>1
    <3>2. CASE \E k \in DOMAIN correlations : correlations'[i] = correlations[k]
      <4>1. PICK k \in DOMAIN correlations : correlations'[i] = correlations[k]
        BY <3>2
      <4>2. correlations[k].job \in Jobs
        BY <1>5, BoundJobs
      <4> QED
        BY <1>1, <1>3, <1>5, <4>1, <4>2
    <3> QED
      BY <1>7, <3>1, <3>2
  <2>2. ASSUME NEW k \in Jobs, view[k] \in Ended \/ Ends(dispatcher.events, k)
        PROVE  jobs'[k].bound /\ ~IsBound(correlations', k)
    <3>1. jobs[k].bound /\ ~IsBound(correlations, k)
      BY <2>2 DEF IInv, BoundOnce
    <3>2. k # j
      BY <1>1, <3>1
    <3>3. ASSUME NEW i \in DOMAIN correlations' PROVE correlations'[i].job # k
      <4>1. correlations'[i] = [key |-> j, job |-> j] => correlations'[i].job = j
        OBVIOUS
      <4> QED
        BY <1>7, <3>1, <3>2, <4>1 DEF IsBound
    <3> QED
      BY <1>3, <3>1, <3>2, <3>3 DEF IsBound
  <2> QED
    BY <1>1, <2>1, <2>2 DEF BoundOnce
<1>12. InOrder' /\ BegunIsKnown'
  BY <1>1, <1>3 DEF IInv, InOrder, AbsentStartIsAccounted, BegunIsKnown, Closed
<1>13. NothingIsLostSilently'
  BY <1>1, <1>6 DEF IInv, NothingIsLostSilently, Pending, Closed
<1> QED
  BY <1>8, <1>9, <1>10, <1>11, <1>12, <1>13 DEF IInv

(* A callback is received: it is in the queue, or in a diagnostic; if it   *)
(* takes the place of another one, that one is in a diagnostic.            *)
Known == Announced(view) \cup Started(dispatcher.events)
Arrives(j, state) ==
  /\ view' \in [Jobs -> Views] /\ \A k \in Jobs : view'[k] = view[k] \/ view'[k] = "missed"
  /\ callbacks' \in Seq(Callback) /\ Len(callbacks') <= MaxCallbacks
  /\ Counters(diagnostics')
  /\ Orderly(callbacks', Announced(view') \cup Started(dispatcher.events))
  /\ ~Closed =>
       /\ Known \cup Started(callbacks)
            \subseteq Announced(view') \cup Started(dispatcher.events) \cup Started(callbacks')
       /\ state = "starting" =>
            j \in Announced(view') \cup Started(dispatcher.events) \cup Started(callbacks')
       /\ unanswered' = unanswered + 1
       /\ Len(callbacks') + Total(diagnostics') = Len(callbacks) + Total(diagnostics) + 1
  /\ Closed => UNCHANGED unanswered

LEMMA HeadFacts ==
  ASSUME NEW s \in Seq(Callback), s # <<>>
  PROVE  /\ Head(s) \in Callback /\ Head(s).job \in Jobs
         /\ GenerationOf(Head(s).job) \in 0..MaxGeneration
<1>1. Head(s) \in Callback
  BY HeadTailProperties
<1> QED
  BY <1>1, HubAssumption DEF Callback, Jobs, Generations, GenerationOf

LEMMA ArrivalFacts ==
  ASSUME IInv, NEW j \in Jobs, NEW from, NEW state \in {"starting", "ended"},
         state = "ended" => from = "starting", Receive(j, from, state)
  PROVE  Arrives(j, state)
<1>1. /\ view \in [Jobs -> Views] /\ callbacks \in Seq(Callback) /\ Len(callbacks) <= MaxCallbacks
      /\ Counters(diagnostics) /\ Orderly(callbacks, Known)
      /\ Total(diagnostics) \in Nat /\ Len(callbacks) \in Nat
  BY AccountedTypes DEF IInv, HubTyped, InOrder, Known
<1>2. ~Closed /\ state = "ended" => j \in Known \cup Started(callbacks)
  BY DEF Receive, IInv, BegunIsKnown, Known
<1>3. "lost" \in Codes /\ GenerationOf(j) \in 0..MaxGeneration /\ MaxCallbacks \in Nat \ {0}
  BY HubAssumption DEF Codes, Jobs, Generations, GenerationOf
<1> DEFINE new == [job |-> j, state |-> state, old |-> FALSE]
<1>4. new \in Callback /\ new.job = j /\ new.state = state
  BY DEF Callback
<1>5. CASE Closed
  <2>1. UNCHANGED <<callbacks, diagnostics, unanswered, view>>
    BY <1>5 DEF Receive
  <2> QED
    BY <1>1, <1>5, <2>1 DEF Arrives, Known
<1>6. CASE ~Closed /\ GenerationOf(j) \notin active
  <2> DEFINE c == [job |-> j, state |-> state]
  <2>1. /\ diagnostics' = Record(diagnostics, "lost", GenerationOf(j))
        /\ unanswered' = unanswered + 1 /\ callbacks' = callbacks
        /\ view' = Missed(view, c)
    BY <1>6 DEF Receive
  <2>2. c.job = j /\ c.state = state
    OBVIOUS
  <2> HIDE DEF c
  <2>3. /\ view' \in [Jobs -> Views]
        /\ \A k \in Jobs : view'[k] = view[k] \/ view'[k] = "missed"
        /\ Announced(view) \subseteq Announced(view')
        /\ state = "starting" => j \in Announced(view')
    BY <1>1, <2>1, <2>2, MissedFacts
  <2>4. Counters(diagnostics') /\ Total(diagnostics') = Total(diagnostics) + 1
    BY <1>1, <1>3, <2>1, RecordFacts DEF Counted
  <2>5. Orderly(callbacks, Announced(view') \cup Started(dispatcher.events))
    <3>1. Known \subseteq Announced(view') \cup Started(dispatcher.events)
      BY <2>3 DEF Known
    <3> QED
      BY <1>1, <3>1, OrderlyMore
  <2>6. Len(callbacks') + Total(diagnostics') = Len(callbacks) + Total(diagnostics) + 1
    BY <1>1, <2>1, <2>4
  <2> QED
    BY <1>1, <1>6, <2>1, <2>3, <2>4, <2>5, <2>6 DEF Arrives, Known
<1>7. CASE ~Closed /\ GenerationOf(j) \in active /\ ~(Len(callbacks) >= MaxCallbacks)
  <2>1. /\ callbacks' = Append(callbacks, new) /\ UNCHANGED <<diagnostics, view>>
        /\ unanswered' = unanswered + 1
    BY <1>7 DEF Receive, Enqueue
  <2> HIDE DEF new
  <2>2. /\ callbacks' \in Seq(Callback) /\ Len(callbacks') = Len(callbacks) + 1
        /\ \A k : Starts(callbacks', k) <=> Starts(callbacks, k) \/ (j = k /\ state = "starting")
    BY <1>1, <1>4, <2>1, AppendProperties, StartsAppend
  <2>3. Orderly(callbacks', Known)
    <3>1. new.state = "ended" => new.job \in Known \/ Starts(callbacks, new.job)
      BY <1>2, <1>4, <1>7 DEF Started
    <3> QED
      BY <1>1, <1>4, <2>1, <3>1, OrderlyAppend
  <2>4. Started(callbacks) \subseteq Started(callbacks')
        /\ (state = "starting" => j \in Started(callbacks'))
    BY <2>2 DEF Started
  <2>5. /\ Len(callbacks') <= MaxCallbacks
        /\ Len(callbacks') + Total(diagnostics') = Len(callbacks) + Total(diagnostics) + 1
    <3>1. Len(callbacks') <= MaxCallbacks
      BY <1>1, <1>3, <1>7, <2>2
    <3>2. PICK x \in Int : x = Len(callbacks)
      BY <1>1
    <3>3. PICK y \in Int : y = Total(diagnostics)
      BY <1>1
    <3>4. Len(callbacks') = x + 1 /\ Total(diagnostics') = y
      BY <2>1, <2>2, <3>2, <3>3
    <3>5. (x + 1) + y = x + y + 1
      OBVIOUS
    <3> QED
      BY <3>1, <3>2, <3>3, <3>4, <3>5
  <2> QED
    BY <1>1, <1>7, <2>1, <2>2, <2>3, <2>4, <2>5 DEF Arrives, Known
<1>8. CASE ~Closed /\ GenerationOf(j) \in active /\ Len(callbacks) >= MaxCallbacks
  <2> DEFINE old == Head(callbacks)
             rest == Tail(callbacks)
             L == Announced(view') \cup Started(dispatcher.events)
  <2>1. /\ diagnostics' = Record(diagnostics, "lost", GenerationOf(old.job))
        /\ callbacks' = Append(rest, new) /\ view' = Missed(view, old)
        /\ unanswered' = unanswered + 1
    BY <1>8 DEF Receive, Enqueue
  <2>2. callbacks # <<>>
    BY <1>1, <1>3, <1>8, EmptySeq
  <2>3. old \in Callback /\ old.job \in Jobs /\ GenerationOf(old.job) \in 0..MaxGeneration
    BY <1>1, <2>2, HeadFacts
  <2>4. /\ view' \in [Jobs -> Views]
        /\ \A k \in Jobs : view'[k] = view[k] \/ view'[k] = "missed"
        /\ Announced(view) \subseteq Announced(view')
        /\ old.state = "starting" => old.job \in Announced(view')
    BY <1>1, <2>1, <2>3, MissedFacts
  <2>5. Counters(diagnostics') /\ Total(diagnostics') = Total(diagnostics) + 1
    BY <1>1, <1>3, <2>1, <2>3, RecordFacts DEF Counted
  <2>6. rest \in Seq(Callback) /\ Len(rest) = Len(callbacks) - 1
    BY <1>1, <2>2, HeadTailProperties
  <2>7. \A k : Starts(callbacks, k) <=> Starts(rest, k) \/ (old.job = k /\ old.state = "starting")
    BY <1>1, <2>2, StartsTail
  <2>8. Known \subseteq L
    BY <2>4 DEF Known
  <2>9. old.state = "starting" => old.job \in L
    BY <2>4
  <2> HIDE DEF new, old, L
  <2>10. Orderly(rest, L)
    BY <1>1, <2>2, <2>8, <2>9, OrderlyTail DEF old
  <2> HIDE DEF rest
  <2>11. Known \cup Started(callbacks) \subseteq L \cup Started(rest)
    BY <2>7, <2>8, <2>9 DEF Started
  <2>12. /\ callbacks' \in Seq(Callback) /\ Len(callbacks') = Len(rest) + 1
         /\ \A k : Starts(callbacks', k) <=> Starts(rest, k) \/ (j = k /\ state = "starting")
    BY <1>4, <2>1, <2>6, AppendProperties, StartsAppend
  <2>13. Orderly(callbacks', L)
    <3>1. new.state = "ended" => new.job \in L \/ Starts(rest, new.job)
      BY <1>2, <1>4, <1>8, <2>11 DEF Started
    <3> QED
      BY <1>4, <2>1, <2>6, <2>10, <3>1, OrderlyAppend
  <2>14. Started(rest) \subseteq Started(callbacks')
         /\ (state = "starting" => j \in Started(callbacks'))
    BY <2>12 DEF Started
  <2>15. Len(callbacks') = Len(callbacks)
    BY <1>1, <2>6, <2>12
  <2>16. /\ Len(callbacks') <= MaxCallbacks
         /\ Len(callbacks') + Total(diagnostics') = Len(callbacks) + Total(diagnostics) + 1
    BY <1>1, <2>5, <2>15
  <2> QED
    BY <1>8, <2>1, <2>4, <2>5, <2>11, <2>12, <2>13, <2>14, <2>16 DEF Arrives, L
<1> QED
  BY <1>5, <1>6, <1>7, <1>8

\* What a step does to a missed start leaves what has been said of the others.
LEMMA EndedViews ==
  ASSUME IInv, \A k \in Jobs : view'[k] = view[k] \/ view'[k] = "missed"
  PROVE  /\ \A k \in Jobs : view'[k] \in Ended => view[k] \in Ended
         /\ AbsentStartIsAccounted'
         /\ Announced(view) \subseteq Announced(view')
BY DEF IInv, InOrder, AbsentStartIsAccounted, Ended, Announced

LEMMA ReceiveKeeps ==
  ASSUME IInv, NEW j \in Jobs, NEW from, NEW state \in {"starting", "ended"},
         state = "ended" => from = "starting", Receive(j, from, state)
  PROVE  IInv'
<1>1. /\ jobs' = [jobs EXCEPT ![j].native = state] /\ jobs[j].native = from
      /\ UNCHANGED <<registered, active, correlations, sink, closing, dispatcher, malformed,
                     junk>>
  BY DEF Receive
<1>2. jobs \in [Jobs -> [native : {"idle", "posted", "starting", "ended"}, bound : BOOLEAN]]
  BY DEF IInv, HubTyped
<1>3. \A k \in Jobs : /\ jobs'[k].bound = jobs[k].bound
                      /\ k # j => jobs'[k] = jobs[k]
                      /\ k = j => jobs'[k].native = state
  BY <1>1, <1>2
<1>4. jobs' \in [Jobs -> [native : {"idle", "posted", "starting", "ended"}, bound : BOOLEAN]]
  BY <1>1, <1>2
<1>5. Arrives(j, state)
  BY ArrivalFacts
<1>6. /\ \A k \in Jobs : view'[k] \in Ended => view[k] \in Ended
      /\ AbsentStartIsAccounted'
      /\ Announced(view) \subseteq Announced(view')
  BY <1>5, EndedViews DEF Arrives
<1>7. unanswered' \in Int
  BY <1>5, AccountedTypes DEF Arrives
<1>8. HubTyped'
  BY <1>1, <1>4, <1>5, <1>7 DEF IInv, HubTyped, Arrives
<1>9. DispatcherTyped' /\ Attributed' /\ Quiet'
  BY <1>1 DEF IInv, DispatcherTyped, Attributed, Quiet
<1>10. BoundOnce'
  <2>1. \A i \in DOMAIN correlations : correlations[i].job \in Jobs
    BY BoundJobs DEF IInv, HubTyped
  <2> QED
    BY <1>1, <1>3, <1>6, <2>1 DEF IInv, BoundOnce
<1>11. InOrder'
  <2>1. Orderly(dispatcher.events, Announced(view'))
    BY <1>6, OrderlyMore DEF IInv, InOrder
  <2> QED
    BY <1>1, <1>5, <1>6, <2>1 DEF InOrder, Arrives
<1>12. BegunIsKnown'
  <2> SUFFICES ASSUME ~Closed', NEW k \in Jobs, jobs'[k].native \in {"starting", "ended"}
      PROVE  k \in Announced(view') \cup Started(dispatcher'.events) \cup Started(callbacks')
    BY DEF BegunIsKnown
  <2>1. ~Closed
    BY <1>1 DEF Closed
  <2>2. CASE k # j \/ state = "ended"
    <3>1. jobs[k].native \in {"starting", "ended"}
      BY <1>1, <1>3, <2>2
    <3>2. k \in Known \cup Started(callbacks)
      BY <2>1, <3>1 DEF IInv, BegunIsKnown, Known
    <3> QED
      BY <1>1, <1>5, <2>1, <3>2 DEF Arrives
  <2>3. CASE k = j /\ state = "starting"
    BY <1>1, <1>5, <2>1, <2>3 DEF Arrives
  <2> QED
    BY <2>2, <2>3
<1>13. NothingIsLostSilently'
  <2> SUFFICES ASSUME ~Closed'
      PROVE  unanswered' = Len(callbacks') + Len(dispatcher'.events) + Total(diagnostics')
                             + Total(dispatcher'.taken) + Pending'
    BY DEF NothingIsLostSilently
  <2>1. ~Closed /\ Pending' = Pending /\ dispatcher' = dispatcher
    BY <1>1 DEF Closed, Pending
  <2>2. unanswered' = unanswered + 1 /\ unanswered = Accounted
        /\ Len(callbacks') + Total(diagnostics') = Len(callbacks) + Total(diagnostics) + 1
    BY <1>5, <2>1, AccountedTypes DEF Arrives
  <2>3. /\ Len(callbacks) \in Nat /\ Len(dispatcher.events) \in Nat /\ Total(diagnostics) \in Nat
        /\ Total(dispatcher.taken) \in Nat /\ Pending \in Nat /\ unanswered \in Int
    BY AccountedTypes
  <2>4. Len(callbacks') \in Nat /\ Total(diagnostics') \in Nat
    BY <1>5, CountType, LenProperties DEF Arrives
  <2>5. PICK a \in Int, b \in Int, c \in Int, d \in Int, f \in Int :
          /\ a = Len(callbacks) /\ b = Len(dispatcher.events) /\ c = Total(diagnostics)
          /\ d = Total(dispatcher.taken) /\ f = Pending
    BY <2>3
  <2>6. PICK x \in Int, y \in Int : x = Len(callbacks') /\ y = Total(diagnostics')
    BY <2>4
  <2>7. PICK u \in Int : u = unanswered
    BY <2>3
  <2>8. u = a + b + c + d + f /\ x + y = a + c + 1
    BY <2>2, <2>5, <2>6, <2>7 DEF Accounted
  <2>9. u + 1 = x + b + y + d + f
    BY <2>8
  <2> QED
    BY <2>1, <2>2, <2>5, <2>6, <2>7, <2>9
<1> QED
  BY <1>8, <1>9, <1>10, <1>11, <1>12, <1>13 DEF IInv

(* Threads that are about to report a malformed callback.                  *)
LEMMA PendingGrows ==
  ASSUME NEW m \in [Generations -> Nat], IsFiniteSet(Reports(m)), NEW g \in Generations,
         NEW q, q = [m EXCEPT ![g] = @ + 1]
  PROVE  /\ IsFiniteSet(Reports(q)) /\ Cardinality(Reports(m)) \in Nat
         /\ Cardinality(Reports(q)) = Cardinality(Reports(m)) + 1
<1>1. /\ Reports(q) = Reports(m) \cup {<<g, m[g] + 1>>}
      /\ <<g, m[g] + 1>> \notin Reports(m)
  BY ReportFacts
<1>2. PICK t : t = <<g, m[g] + 1>>
  OBVIOUS
<1>3. Reports(q) = Reports(m) \cup {t} /\ t \notin Reports(m)
  BY <1>1, <1>2
<1>4. IsFiniteSet(Reports(m) \cup {t})
      /\ Cardinality(Reports(m) \cup {t}) = Cardinality(Reports(m)) + 1
  BY <1>3, FS_AddElement
<1>5. Cardinality(Reports(m)) \in Nat
  BY FS_CardinalityType
<1> QED
  BY <1>3, <1>4, <1>5

\* Nothing of jobs, the queue and the events changes.
Apart == UNCHANGED <<registered, active, callbacks, correlations, sink, closing, dispatcher,
                     jobs, view>>
LEMMA ApartKeeps ==
  ASSUME IInv, Apart, Counters(diagnostics'), malformed' \in [Generations -> Nat],
         IsFiniteSet(Reports(malformed')), unanswered' \in Int, NothingIsLostSilently'
  PROVE  IInv'
<1>1. HubTyped'
  BY DEF IInv, HubTyped, Apart
<1>2. DispatcherTyped' /\ Attributed' /\ Quiet' /\ BoundOnce'
  BY DEF IInv, DispatcherTyped, Attributed, Quiet, BoundOnce, Apart
<1>3. InOrder' /\ BegunIsKnown'
  BY DEF IInv, InOrder, AbsentStartIsAccounted, BegunIsKnown, Closed, Apart
<1> QED
  BY <1>1, <1>2, <1>3 DEF IInv

\* The diagnostics and the threads take one callback, or none.
LEMMA ApartCount ==
  ASSUME IInv, Apart, NEW t \in Int, Total(diagnostics') + Pending' = Total(diagnostics) + Pending + t,
         unanswered' = unanswered + t, Total(diagnostics') \in Nat, Pending' \in Nat
  PROVE  NothingIsLostSilently'
<1> SUFFICES ASSUME ~Closed'
    PROVE  unanswered' = Len(callbacks') + Len(dispatcher'.events) + Total(diagnostics')
                           + Total(dispatcher'.taken) + Pending'
  BY DEF NothingIsLostSilently
<1>1. ~Closed /\ callbacks' = callbacks /\ dispatcher' = dispatcher
  BY DEF Closed, Apart
<1>2. /\ Len(callbacks) \in Nat /\ Len(dispatcher.events) \in Nat /\ Total(diagnostics) \in Nat
      /\ Total(dispatcher.taken) \in Nat /\ Pending \in Nat /\ unanswered \in Int
      /\ unanswered = Accounted
  BY <1>1, AccountedTypes
<1>3. PICK a \in Int, b \in Int, c \in Int, d \in Int, f \in Int, u \in Int :
        /\ a = Len(callbacks) /\ b = Len(dispatcher.events) /\ c = Total(diagnostics)
        /\ d = Total(dispatcher.taken) /\ f = Pending /\ u = unanswered
  BY <1>2, SMTT(30)
<1>4. PICK x \in Int, y \in Int : x = Total(diagnostics') /\ y = Pending'
  OBVIOUS
<1>5. u = a + b + c + d + f
  BY <1>2, <1>3 DEF Accounted
<1>6. x + y = c + f + t /\ unanswered' = u + t
  BY <1>3, <1>4
<1>7. u + t = a + b + x + d + y
  BY <1>5, <1>6
<1> QED
  BY <1>1, <1>3, <1>4, <1>6, <1>7

LEMMA JunkKeeps ==
  ASSUME IInv, NEW g \in Generations, ReceiveJunk(g)
  PROVE  IInv'
<1>1. Apart
  BY DEF ReceiveJunk, Apart
<1>2. /\ Counters(diagnostics) /\ malformed \in [Generations -> Nat]
      /\ IsFiniteSet(Reports(malformed)) /\ Pending = Cardinality(Reports(malformed))
      /\ Total(diagnostics) \in Nat /\ Pending \in Nat /\ unanswered \in Int
  BY AccountedTypes DEF IInv, HubTyped, Pending, Reports
<1>3. "lost" \in Codes /\ g \in 0..MaxGeneration
  BY HubAssumption DEF Codes, Generations
<1>4. Pending' = Cardinality(Reports(malformed'))
  BY DEF Pending, Reports
<1>5. CASE Closed
  <2>1. UNCHANGED <<diagnostics, malformed, unanswered>>
    BY <1>5 DEF ReceiveJunk
  <2>2. Closed'
    BY <1>1, <1>5 DEF Closed, Apart
  <2> QED
    BY <1>1, <1>2, <2>1, <2>2, ApartKeeps DEF NothingIsLostSilently
<1>6. CASE ~Closed /\ unanswered' = unanswered + 1 /\ UNCHANGED malformed
           /\ diagnostics' = Record(diagnostics, "lost", g)
  <2>1. Counters(diagnostics') /\ Total(diagnostics') = Total(diagnostics) + 1
    BY <1>2, <1>3, <1>6, RecordFacts DEF Counted
  <2>2. Pending' = Pending
    BY <1>2, <1>4, <1>6
  <2>3. PICK x \in Int, y \in Int : x = Total(diagnostics) /\ y = Pending
    BY <1>2
  <2>4. (x + 1) + y = x + y + 1
    OBVIOUS
  <2>5. Total(diagnostics') + Pending' = Total(diagnostics) + Pending + 1
        /\ Total(diagnostics') \in Nat /\ Pending' \in Nat
    BY <1>2, <2>1, <2>2, <2>3, <2>4
  <2>6. NothingIsLostSilently'
    BY <1>1, <1>6, <2>5, ApartCount
  <2> QED
    BY <1>1, <1>2, <1>6, <2>1, <2>6, ApartKeeps
<1>7. CASE ~Closed /\ unanswered' = unanswered + 1 /\ UNCHANGED diagnostics
           /\ malformed' = [malformed EXCEPT ![g] = @ + 1]
  <2>1. IsFiniteSet(Reports(malformed')) /\ Pending' = Pending + 1
    BY <1>2, <1>4, <1>7, PendingGrows
  <2>2. malformed' \in [Generations -> Nat]
    BY <1>2, <1>7
  <2>3. PICK x \in Int, y \in Int : x = Total(diagnostics) /\ y = Pending
    BY <1>2
  <2>4. x + (y + 1) = x + y + 1
    OBVIOUS
  <2>5. Total(diagnostics') + Pending' = Total(diagnostics) + Pending + 1
        /\ Total(diagnostics') \in Nat /\ Pending' \in Nat
    BY <1>2, <1>7, <2>1, <2>3, <2>4
  <2>6. NothingIsLostSilently'
    BY <1>1, <1>7, <2>5, ApartCount
  <2> QED
    BY <1>1, <1>2, <1>7, <2>1, <2>2, <2>6, ApartKeeps
<1>8. \/ Closed
      \/ ~Closed /\ unanswered' = unanswered + 1 /\ UNCHANGED malformed
           /\ diagnostics' = Record(diagnostics, "lost", g)
      \/ ~Closed /\ unanswered' = unanswered + 1 /\ UNCHANGED diagnostics
           /\ malformed' = [malformed EXCEPT ![g] = @ + 1]
  BY DEF ReceiveJunk
<1> QED
  BY <1>5, <1>6, <1>7, <1>8

LEMMA MalformedKeeps ==
  ASSUME IInv, NEW g \in Generations, RecordMalformed(g)
  PROVE  IInv'
<1>1. /\ Apart /\ unanswered' = unanswered
      /\ malformed[g] > 0 /\ malformed' = [malformed EXCEPT ![g] = @ - 1]
      /\ diagnostics' = IF Closed THEN diagnostics ELSE Record(diagnostics, "lost", g)
  BY DEF RecordMalformed, Apart
<1>2. /\ Counters(diagnostics) /\ malformed \in [Generations -> Nat]
      /\ IsFiniteSet(Reports(malformed)) /\ Pending = Cardinality(Reports(malformed))
      /\ Total(diagnostics) \in Nat /\ Pending \in Nat /\ unanswered \in Int
  BY AccountedTypes DEF IInv, HubTyped, Pending, Reports
<1>3. "lost" \in Codes /\ g \in 0..MaxGeneration
  BY HubAssumption DEF Codes, Generations
<1>4. Pending' = Cardinality(Reports(malformed'))
  BY DEF Pending, Reports
<1>5. malformed' \in [Generations -> Nat] /\ malformed = [malformed' EXCEPT ![g] = @ + 1]
  <2>1. malformed[g] \in Nat /\ malformed[g] - 1 \in Nat
    BY <1>1, <1>2
  <2>2. malformed' \in [Generations -> Nat]
    BY <1>1, <1>2, <2>1
  <2>3. malformed'[g] + 1 = malformed[g] /\ \A x \in Generations : x # g => malformed'[x] = malformed[x]
    BY <1>1, <1>2, <2>1
  <2>4. [malformed' EXCEPT ![g] = @ + 1] \in [Generations -> Nat]
    BY <2>2
  <2>5. \A x \in Generations : [malformed' EXCEPT ![g] = @ + 1][x] = malformed[x]
    BY <2>2, <2>3
  <2> QED
    BY <1>2, <2>2, <2>4, <2>5
<1>6. IsFiniteSet(Reports(malformed'))
  <2>1. Reports(malformed') \subseteq Reports(malformed)
    <3>1. Reports(malformed) = Reports(malformed') \cup {<<g, malformed'[g] + 1>>}
      BY <1>5, ReportFacts
    <3> QED
      BY <3>1
  <2> QED
    BY <1>2, <2>1, FS_Subset
<1>7. Pending = Pending' + 1 /\ Pending' \in Nat
  BY <1>2, <1>4, <1>5, <1>6, PendingGrows
<1>8. CASE Closed
  <2>1. Closed'
    BY <1>1, <1>8 DEF Closed, Apart
  <2>2. diagnostics' = diagnostics
    BY <1>1, <1>8
  <2> QED
    BY <1>1, <1>2, <1>5, <1>6, <2>1, <2>2, ApartKeeps DEF NothingIsLostSilently
<1>9. CASE ~Closed
  <2>1. Counters(diagnostics') /\ Total(diagnostics') = Total(diagnostics) + 1
    BY <1>1, <1>2, <1>3, <1>9, RecordFacts DEF Counted
  <2>2. PICK x \in Int, y \in Int : x = Total(diagnostics) /\ y = Pending'
    BY <1>2, <1>7
  <2>3. Pending = y + 1
    BY <1>7, <2>2
  <2>4. (x + 1) + y = x + (y + 1) + 0
    OBVIOUS
  <2>5. Total(diagnostics') + Pending' = Total(diagnostics) + Pending + 0
        /\ Total(diagnostics') \in Nat /\ unanswered' = unanswered + 0
    BY <1>1, <1>2, <2>1, <2>2, <2>3, <2>4
  <2>6. NothingIsLostSilently'
    BY <1>1, <1>7, <2>5, ApartCount
  <2> QED
    BY <1>1, <1>2, <1>5, <1>6, <2>1, <2>6, ApartKeeps
<1> QED
  BY <1>8, <1>9

LEMMA AgeKeeps ==
  ASSUME IInv, Age
  PROVE  IInv'
<1>1. PICK i \in DOMAIN callbacks : callbacks' = [callbacks EXCEPT ![i].old = TRUE]
  BY DEF Age
<1>2. UNCHANGED <<registered, active, correlations, diagnostics, sink, closing, dispatcher,
                  jobs, malformed, junk, unanswered, view>>
  BY DEF Age, outside
<1>3. /\ callbacks \in Seq(Callback) /\ Len(callbacks) \in Nat /\ DOMAIN callbacks = 1..Len(callbacks)
      /\ callbacks \in [1..Len(callbacks) -> Callback]
  BY LenProperties DEF IInv, HubTyped
<1>4. /\ callbacks' \in [1..Len(callbacks) -> Callback]
      /\ \A k \in 1..Len(callbacks) : /\ callbacks'[k].job = callbacks[k].job
                                      /\ callbacks'[k].state = callbacks[k].state
  BY <1>1, <1>3 DEF Callback
<1>5. callbacks' \in Seq(Callback) /\ Len(callbacks') = Len(callbacks)
  BY <1>3, <1>4, FunctionSequence
<1>6. DOMAIN callbacks' = DOMAIN callbacks
  BY <1>3, <1>4
<1>7. Started(callbacks') = Started(callbacks)
  BY <1>3, <1>4, <1>6 DEF Started, Starts
<1>8. ASSUME NEW K, Orderly(callbacks, K) PROVE Orderly(callbacks', K)
  BY <1>3, <1>4, <1>6, <1>8 DEF Orderly
<1>9. HubTyped'
  BY <1>2, <1>5 DEF IInv, HubTyped
<1>10. DispatcherTyped' /\ Attributed' /\ Quiet' /\ BoundOnce'
  BY <1>2 DEF IInv, DispatcherTyped, Attributed, Quiet, BoundOnce
<1>11. InOrder' /\ BegunIsKnown'
  BY <1>2, <1>7, <1>8 DEF IInv, InOrder, AbsentStartIsAccounted, BegunIsKnown, Closed
<1>12. NothingIsLostSilently'
  BY <1>2, <1>5 DEF IInv, NothingIsLostSilently, Pending, Closed
<1> QED
  BY <1>9, <1>10, <1>11, <1>12 DEF IInv

(* The dispatcher takes what is in the queue.                              *)
LEMMA DrainKeeps ==
  ASSUME IInv, Drain
  PROVE  IInv'
<1> DEFINE b == Drained
<1>1. /\ dispatcher = Idle /\ ~Closed
      /\ callbacks' = b.waiting /\ correlations' = b.bound /\ diagnostics' = <<>>
      /\ dispatcher' = [Idle EXCEPT !.events = b.events, !.taken = b.diagnostics]
      /\ view' = b.view
      /\ UNCHANGED <<registered, active, sink, closing, jobs, malformed, junk, unanswered>>
  BY DEF Drain, Waiting
<1>2. Drains(b, Len(callbacks))
  BY <1>1, DrainedFacts
<1> HIDE DEF b
<1>3. /\ b.events \in Seq(Events) /\ b.waiting \in Seq(Callback)
      /\ b.bound \in Seq(Bindings) /\ b.view \in [Jobs -> Views]
      /\ Counters(b.diagnostics)
  BY <1>2 DEF Drains, BatchTyped
<1>4. /\ Len(b.waiting) <= Len(callbacks)
      /\ Len(b.events) + Len(b.waiting) + Total(b.diagnostics) = Len(callbacks) + Total(diagnostics)
  BY <1>2 DEF Drains, BatchCounted
<1>5. /\ Len(b.bound) <= Len(correlations) /\ Keyed(b.bound) /\ Named(b.events)
      /\ \A k \in DOMAIN b.bound : \E m \in DOMAIN correlations : b.bound[k] = correlations[m]
      /\ \A j \in Jobs : Ends(b.events, j) => IsBound(correlations, j) /\ ~IsBound(b.bound, j)
  BY <1>2 DEF Drains, BatchBound
<1>6. /\ \A j \in Jobs : b.view[j] = view[j] \/ b.view[j] = "missed"
      /\ Orderly(b.events, Announced(b.view))
      /\ Orderly(b.waiting, Announced(b.view) \cup Started(b.events))
      /\ \A k \in 1..Len(callbacks) : callbacks[k].state = "starting" =>
           callbacks[k].job \in Announced(b.view) \cup Started(b.events) \cup Started(b.waiting)
  BY <1>2 DEF Drains, BatchOrdered
<1>7. /\ dispatcher' = [ended |-> FALSE, events |-> b.events, taken |-> b.diagnostics]
      /\ dispatcher.events = <<>> /\ dispatcher.taken = <<>>
  BY <1>1 DEF Idle
<1>8. dispatcher'.ended = FALSE /\ dispatcher'.events = b.events /\ dispatcher'.taken = b.diagnostics
  BY <1>7
<1>9. /\ callbacks \in Seq(Callback) /\ Len(callbacks) \in Nat /\ Len(callbacks) <= MaxCallbacks
      /\ correlations \in Seq(Bindings) /\ Len(correlations) \in Nat
      /\ Len(correlations) <= MaxCorrelations
  BY LenProperties DEF IInv, HubTyped
<1>10. HubTyped'
  <2>1. Len(b.waiting) \in Nat /\ Len(b.bound) \in Nat
    BY <1>3, LenProperties
  <2>2. Len(b.waiting) <= MaxCallbacks /\ Len(b.bound) <= MaxCorrelations
    BY <1>4, <1>5, <1>9, <2>1, HubAssumption
  <2> QED
    BY <1>1, <1>3, <2>2, NoCounters DEF IInv, HubTyped
<1>11. DispatcherTyped'
  BY <1>3, <1>7, <1>8 DEF DispatcherTyped
<1>12. Attributed'
  BY <1>1, <1>5, <1>8 DEF Attributed
<1>13. BoundOnce'
  <2>1. \A j : IsBound(b.bound, j) => IsBound(correlations, j)
    BY <1>5 DEF IsBound
  <2>2. \A i \in DOMAIN correlations :
          GenerationOf(correlations[i].job) \in active /\ jobs[correlations[i].job].bound
    BY DEF IInv, BoundOnce
  <2>3. \A i \in DOMAIN b.bound :
          GenerationOf(b.bound[i].job) \in active /\ jobs[b.bound[i].job].bound
    BY <1>5, <2>2
  <2>4. ASSUME NEW j \in Jobs, b.view[j] \in Ended \/ Ends(b.events, j)
        PROVE  jobs[j].bound /\ ~IsBound(b.bound, j)
    <3>1. CASE b.view[j] \in Ended
      <4>1. view[j] \in Ended
        BY <1>6, <3>1 DEF Ended
      <4> QED
        BY <2>1, <4>1 DEF IInv, BoundOnce
    <3>2. CASE Ends(b.events, j)
      <4>1. IsBound(correlations, j) /\ ~IsBound(b.bound, j)
        BY <1>5, <3>2
      <4> QED
        BY <2>2, <4>1 DEF IsBound
    <3> QED
      BY <2>4, <3>1, <3>2
  <2> QED
    BY <1>1, <1>8, <2>3, <2>4 DEF BoundOnce
<1>14. Quiet'
  BY <1>1, <1>8 DEF Quiet, Closed
<1>15. AbsentStartIsAccounted' /\ Announced(view) \subseteq Announced(view')
  BY <1>1, <1>6, EndedViews
<1>16. InOrder'
  BY <1>1, <1>6, <1>8, <1>15 DEF InOrder
<1>17. BegunIsKnown'
  <2> SUFFICES ASSUME NEW j \in Jobs, jobs[j].native \in {"starting", "ended"}
      PROVE  j \in Announced(b.view) \cup Started(b.events) \cup Started(b.waiting)
    BY <1>1, <1>8 DEF BegunIsKnown
  <2>1. j \in Announced(view) \cup Started(callbacks)
    <3>1. Started(dispatcher.events) = {}
      BY <1>7 DEF Started, Starts
    <3> QED
      BY <1>1, <3>1 DEF IInv, BegunIsKnown
  <2>2. CASE j \in Started(callbacks)
    <3>1. PICK k \in DOMAIN callbacks : callbacks[k].job = j /\ callbacks[k].state = "starting"
      BY <2>2 DEF Started, Starts
    <3>2. k \in 1..Len(callbacks)
      BY <1>9
    <3> QED
      BY <1>6, <3>1, <3>2
  <2> QED
    BY <1>1, <1>15, <2>1, <2>2
<1>18. NothingIsLostSilently'
  <2>1. unanswered = Accounted /\ unanswered \in Int /\ Pending \in Nat /\ Total(diagnostics) \in Nat
    BY <1>1, AccountedTypes
  <2>2. Len(b.events) \in Nat /\ Len(b.waiting) \in Nat /\ Total(b.diagnostics) \in Nat
    BY <1>3, CountType, LenProperties
  <2>3. Total(dispatcher.taken) = 0 /\ Len(dispatcher.events) = 0 /\ Total(diagnostics') = 0
    BY <1>1, <1>7, NoCounters
  <2>4. PICK u \in Int, a \in Int, c \in Int, f \in Int :
          u = unanswered /\ a = Len(callbacks) /\ c = Total(diagnostics) /\ f = Pending
    BY <1>9, <2>1
  <2>5. PICK x \in Int, y \in Int, z \in Int :
          x = Len(b.waiting) /\ y = Len(b.events) /\ z = Total(b.diagnostics)
    BY <2>2
  <2>6. u = a + 0 + c + 0 + f
    BY <2>1, <2>3, <2>4 DEF Accounted
  <2>7. y + x + z = a + c
    BY <1>4, <2>4, <2>5
  <2>8. u = x + y + 0 + z + f
    BY <2>6, <2>7
  <2>9. Pending' = Pending
    BY <1>1 DEF Pending
  <2> QED
    BY <1>1, <1>8, <2>3, <2>4, <2>5, <2>8, <2>9 DEF NothingIsLostSilently
<1> QED
  BY <1>10, <1>11, <1>12, <1>13, <1>14, <1>16, <1>17, <1>18 DEF IInv

LEMMA DispatcherEndsKeeps ==
  ASSUME IInv, DispatcherEnds
  PROVE  IInv'
<1>1. /\ dispatcher = Idle /\ Closed /\ dispatcher' = [dispatcher EXCEPT !.ended = TRUE]
      /\ UNCHANGED <<registered, active, callbacks, correlations, diagnostics, sink, closing,
                     jobs, malformed, junk, unanswered, view>>
  BY DEF DispatcherEnds, Waiting, hubVars, outside
<1>2. dispatcher' = [ended |-> TRUE, events |-> <<>>, taken |-> <<>>]
      /\ dispatcher.events = <<>> /\ dispatcher.taken = <<>>
  BY <1>1 DEF Idle
<1>3. dispatcher'.ended = TRUE /\ dispatcher'.events = <<>> /\ dispatcher'.taken = <<>>
  BY <1>2
<1>4. HubTyped'
  BY <1>1 DEF IInv, HubTyped
<1>5. DispatcherTyped'
  <2>1. <<>> \in Seq(Events)
    OBVIOUS
  <2> QED
    BY <1>2, <1>3, <2>1, NoCounters DEF DispatcherTyped
<1>6. Attributed' /\ BoundOnce'
  BY <1>1, <1>2, <1>3 DEF IInv, Attributed, BoundOnce
<1>7. Quiet'
  <2>1. DOMAIN <<>> = {}
    OBVIOUS
  <2> QED
    BY <1>3, <2>1 DEF Quiet
<1>8. InOrder'
  BY <1>1, <1>2, <1>3 DEF IInv, InOrder, AbsentStartIsAccounted
<1>9. BegunIsKnown' /\ NothingIsLostSilently'
  BY <1>1 DEF BegunIsKnown, NothingIsLostSilently, Closed
<1> QED
  BY <1>4, <1>5, <1>6, <1>7, <1>8, <1>9 DEF IInv

(* The sink answers, or it raises and is given up.                         *)
LEMMA SinkFacts ==
  ASSUME IInv, NEW g \in 0..MaxGeneration,
         UNCHANGED <<sink, diagnostics>> \/ SinkFailed(g)
  PROVE  sink' \in BOOLEAN /\ Counters(diagnostics') /\ Total(diagnostics') = Total(diagnostics)
<1>1. Counters(diagnostics) /\ sink \in BOOLEAN
  BY DEF IInv, HubTyped
<1>2. CASE UNCHANGED <<sink, diagnostics>>
  BY <1>1, <1>2
<1>3. CASE ~Closed /\ sink' = FALSE /\ diagnostics' = Record(diagnostics, "sink", g)
  <2>1. "sink" \in Codes
    BY DEF Codes
  <2>2. Counted(diagnostics', diagnostics, "sink")
    BY <1>1, <1>3, <2>1, RecordFacts
  <2> QED
    BY <1>3, <2>2 DEF Counted
<1> QED
  BY <1>2, <1>3 DEF SinkFailed

LEMMA TellEventKeeps ==
  ASSUME IInv, TellEvent
  PROVE  IInv'
<1> DEFINE e == Head(dispatcher.events)
           rest == Tail(dispatcher.events)
<1>1. /\ dispatcher.events # <<>> /\ dispatcher' = [dispatcher EXCEPT !.events = rest]
      /\ \/ view' = Heard(view, e) /\ UNCHANGED <<sink, diagnostics>>
         \/ view' = Missed(view, e) /\ SinkFailed(GenerationOf(e.job))
      /\ unanswered' = unanswered - 1
      /\ UNCHANGED <<registered, active, callbacks, correlations, closing, jobs, malformed, junk>>
  BY DEF TellEvent
<1>2. /\ dispatcher = [ended |-> dispatcher.ended, events |-> dispatcher.events,
                       taken |-> dispatcher.taken]
      /\ dispatcher.ended \in BOOLEAN /\ dispatcher.events \in Seq(Events)
      /\ Counters(dispatcher.taken)
  BY DEF IInv, DispatcherTyped
<1>3. dispatcher' = [ended |-> dispatcher.ended, events |-> rest, taken |-> dispatcher.taken]
  BY <1>1, <1>2
<1>4. /\ dispatcher'.ended = dispatcher.ended /\ dispatcher'.events = rest
      /\ dispatcher'.taken = dispatcher.taken
  BY <1>3
<1>5. e \in Events /\ e.job \in Jobs /\ e.state \in {"starting", "ended"}
  <2>1. e \in Events
    BY <1>1, <1>2, HeadTailProperties
  <2> QED
    BY <2>1 DEF Events
<1>6. /\ rest \in Seq(Events) /\ Len(rest) = Len(dispatcher.events) - 1
      /\ \A j : Starts(dispatcher.events, j) <=> Starts(rest, j) \/ (e.job = j /\ e.state = "starting")
      /\ \A j : Ends(dispatcher.events, j) <=> Ends(rest, j) \/ (e.job = j /\ e.state = "ended")
      /\ \A i \in DOMAIN rest : i + 1 \in DOMAIN dispatcher.events
                                  /\ rest[i] = dispatcher.events[i + 1]
  BY <1>1, <1>2, HeadTailProperties, TailIndex, StartsTail, EndsTail
<1>7. /\ view \in [Jobs -> Views] /\ AbsentStartIsAccounted
      /\ Orderly(dispatcher.events, Announced(view))
      /\ Orderly(callbacks, Announced(view) \cup Started(dispatcher.events))
  BY DEF IInv, HubTyped, InOrder
<1> HIDE DEF e, rest
<1>8. GenerationOf(e.job) \in 0..MaxGeneration
  BY <1>5, HubAssumption DEF Jobs, Generations, GenerationOf
<1>9. sink' \in BOOLEAN /\ Counters(diagnostics') /\ Total(diagnostics') = Total(diagnostics)
  BY <1>1, <1>8, SinkFacts
<1>10. e.state = "ended" => e.job \in Announced(view)
  <2>1. \A K, L : Orderly(dispatcher.events, K) /\ K \subseteq L
                   /\ (e.state = "starting" => e.job \in L)
                   => Orderly(rest, L) /\ (e.state = "ended" => e.job \in K)
    BY <1>1, <1>2, OrderlyTail DEF e, rest
  <2>2. Announced(view) \subseteq Announced(view) \cup {e.job} /\ e.job \in Announced(view) \cup {e.job}
    OBVIOUS
  <2> QED
    BY <1>7, <2>1, <2>2
<1>11. /\ view' \in [Jobs -> Views]
       /\ \A j \in Jobs : view'[j] = view[j] \/ (j = e.job /\ view'[j] # "nothing")
       /\ e.state = "starting" => view'[e.job] # "nothing" /\ view'[e.job] \notin Ended
       /\ AbsentStartIsAccounted'
  <2>1. CASE view' = Missed(view, e)
    <3>1. CASE e.state = "starting"
      <4>1. view' = [view EXCEPT ![e.job] = "missed"]
        BY <2>1, <3>1 DEF Missed
      <4>2. \A j \in Jobs : view'[j] = IF j = e.job THEN "missed" ELSE view[j]
        BY <1>7, <4>1
      <4>3. view' \in [Jobs -> Views]
        BY <1>7, <4>1 DEF Views
      <4> QED
        BY <1>5, <1>7, <4>2, <4>3 DEF AbsentStartIsAccounted, Ended
    <3>2. CASE e.state # "starting"
      BY <1>7, <2>1, <3>2 DEF Missed, AbsentStartIsAccounted
    <3> QED
      BY <3>1, <3>2
  <2>2. CASE view' = Heard(view, e)
    <3> DEFINE said == IF e.state = "starting" THEN "starting"
                       ELSE IF view[e.job] = "nothing" THEN "ended unstarted" ELSE "ended"
    <3>1. view' = [view EXCEPT ![e.job] = said]
      BY <1>5, <1>7, <2>2 DEF Heard
    <3>2. \A j \in Jobs : view'[j] = IF j = e.job THEN said ELSE view[j]
      BY <1>7, <3>1
    <3>3. /\ said \in Views /\ said # "nothing" /\ said # "ended unstarted"
          /\ e.state = "starting" => said \notin Ended
      <4>1. e.state = "ended" => view[e.job] # "nothing"
        BY <1>5, <1>10 DEF Announced
      <4> QED
        BY <1>5, <4>1 DEF Views, Ended
    <3> HIDE DEF said
    <3>4. view' \in [Jobs -> Views]
      BY <1>7, <3>1, <3>3
    <3> QED
      BY <1>5, <1>7, <3>2, <3>3, <3>4 DEF AbsentStartIsAccounted
  <2> QED
    BY <1>1, <2>1, <2>2
<1>12. /\ Announced(view) \subseteq Announced(view')
       /\ e.state = "starting" => e.job \in Announced(view')
  BY <1>5, <1>11 DEF Announced
<1>13. Announced(view) \cup Started(dispatcher.events) \subseteq Announced(view') \cup Started(rest)
  BY <1>6, <1>12 DEF Started
<1>14. HubTyped'
  <2>1. unanswered' \in Int
    BY <1>1, AccountedTypes
  <2> QED
    BY <1>1, <1>9, <1>11, <2>1 DEF IInv, HubTyped
<1>15. DispatcherTyped'
  BY <1>2, <1>3, <1>4, <1>6 DEF DispatcherTyped
<1>16. Attributed'
  <2>1. Named(rest)
    BY <1>6 DEF IInv, Attributed, Named
  <2> QED
    BY <1>1, <1>4, <2>1 DEF IInv, Attributed
<1>17. BoundOnce'
  <2>1. ASSUME NEW j \in Jobs, view'[j] \in Ended \/ Ends(rest, j)
        PROVE  view[j] \in Ended \/ Ends(dispatcher.events, j)
    BY <1>5, <1>6, <1>11, <2>1
  <2> QED
    BY <1>1, <1>4, <2>1 DEF IInv, BoundOnce
<1>18. Quiet'
  BY <1>1, <1>4 DEF IInv, Quiet
<1>19. InOrder'
  <2>1. Orderly(rest, Announced(view'))
    BY <1>1, <1>2, <1>7, <1>12, OrderlyTail DEF e, rest
  <2>2. Orderly(callbacks, Announced(view') \cup Started(rest))
    BY <1>7, <1>13, OrderlyMore
  <2> QED
    BY <1>1, <1>4, <1>11, <2>1, <2>2 DEF InOrder
<1>20. BegunIsKnown'
  BY <1>1, <1>4, <1>13 DEF IInv, BegunIsKnown, Closed
<1>21. NothingIsLostSilently'
  <2> SUFFICES ASSUME ~Closed'
      PROVE  unanswered' = Len(callbacks) + Len(rest) + Total(diagnostics')
                             + Total(dispatcher.taken) + Pending
    BY <1>1, <1>4 DEF NothingIsLostSilently, Pending
  <2>1. ~Closed
    BY <1>1 DEF Closed
  <2>2. /\ Len(callbacks) \in Nat /\ Len(dispatcher.events) \in Nat /\ Total(diagnostics) \in Nat
        /\ Total(dispatcher.taken) \in Nat /\ Pending \in Nat /\ unanswered \in Int
        /\ unanswered = Accounted
    BY <2>1, AccountedTypes
  <2>3. PICK u \in Int, a \in Int, b \in Int, c \in Int, d \in Int, f \in Int :
          /\ u = unanswered /\ a = Len(callbacks) /\ b = Len(dispatcher.events)
          /\ c = Total(diagnostics) /\ d = Total(dispatcher.taken) /\ f = Pending
    BY <2>2
  <2>4. u = a + b + c + d + f
    BY <2>2, <2>3 DEF Accounted
  <2>5. u - 1 = a + (b - 1) + c + d + f
    BY <2>4
  <2> QED
    BY <1>1, <1>6, <1>9, <2>3, <2>5
<1> QED
  BY <1>14, <1>15, <1>16, <1>17, <1>18, <1>19, <1>20, <1>21 DEF IInv

LEMMA TellDiagnosticKeeps ==
  ASSUME IInv, TellDiagnostic
  PROVE  IInv'
<1>1. PICK k \in DOMAIN dispatcher.taken :
        /\ dispatcher' = [dispatcher EXCEPT !.taken = [other \in DOMAIN @ \ {k} |-> @[other]]]
        /\ unanswered' = unanswered - Worth(k, dispatcher.taken[k])
        /\ UNCHANGED <<sink, diagnostics>> \/ SinkFailed(k[2])
  BY DEF TellDiagnostic
<1>2. UNCHANGED <<registered, active, callbacks, correlations, closing, jobs, malformed,
                  junk, view>>
  BY DEF TellDiagnostic
<1> DEFINE taken == Dropped(dispatcher.taken, k)
           n == Worth(k, dispatcher.taken[k])
<1>3. /\ dispatcher = [ended |-> dispatcher.ended, events |-> dispatcher.events,
                       taken |-> dispatcher.taken]
      /\ dispatcher.ended \in BOOLEAN /\ dispatcher.events \in Seq(Events)
      /\ Counters(dispatcher.taken)
  BY DEF IInv, DispatcherTyped
<1>4. dispatcher' = [ended |-> dispatcher.ended, events |-> dispatcher.events, taken |-> taken]
  BY <1>1, <1>3 DEF Dropped
<1>5. /\ Counters(taken) /\ n \in Nat /\ Total(dispatcher.taken) = Total(taken) + n
      /\ Total(taken) \in Nat
  BY <1>3, DroppedFacts, CountType
<1>6. k[2] \in 0..MaxGeneration
  BY <1>3 DEF Counters
<1>7. sink' \in BOOLEAN /\ Counters(diagnostics') /\ Total(diagnostics') = Total(diagnostics)
  BY <1>1, <1>6, SinkFacts
<1>8. unanswered' = unanswered - n
  BY <1>1
<1>9. ~dispatcher.ended
  BY DEF IInv, Quiet
<1> HIDE DEF taken, n
<1>10. /\ dispatcher'.ended = dispatcher.ended /\ dispatcher'.events = dispatcher.events
       /\ dispatcher'.taken = taken
  BY <1>4
<1>11. HubTyped'
  <2>1. unanswered' \in Int
    BY <1>5, <1>8, AccountedTypes
  <2> QED
    BY <1>2, <1>7, <2>1 DEF IInv, HubTyped
<1>12. DispatcherTyped'
  BY <1>3, <1>4, <1>5, <1>10 DEF DispatcherTyped
<1>13. Attributed' /\ BoundOnce'
  BY <1>2, <1>10 DEF IInv, Attributed, BoundOnce
<1>14. Quiet'
  BY <1>2, <1>9, <1>10 DEF IInv, Quiet
<1>15. InOrder' /\ BegunIsKnown'
  BY <1>2, <1>10 DEF IInv, InOrder, AbsentStartIsAccounted, BegunIsKnown, Closed
<1>16. NothingIsLostSilently'
  <2> SUFFICES ASSUME ~Closed'
      PROVE  unanswered' = Len(callbacks) + Len(dispatcher.events) + Total(diagnostics')
                             + Total(taken) + Pending
    BY <1>2, <1>10 DEF NothingIsLostSilently, Pending
  <2>1. ~Closed
    BY <1>2 DEF Closed
  <2>2. /\ Len(callbacks) \in Nat /\ Len(dispatcher.events) \in Nat /\ Total(diagnostics) \in Nat
        /\ Pending \in Nat /\ unanswered \in Int /\ unanswered = Accounted
    BY <2>1, AccountedTypes
  <2>3. PICK u \in Int, a \in Int, b \in Int, c \in Int, f \in Int :
          /\ u = unanswered /\ a = Len(callbacks) /\ b = Len(dispatcher.events)
          /\ c = Total(diagnostics) /\ f = Pending
    BY <2>2
  <2>4. PICK d \in Int, m \in Int : d = Total(taken) /\ m = n
    BY <1>5
  <2>5. u = a + b + c + (d + m) + f
    BY <1>5, <2>2, <2>3, <2>4 DEF Accounted
  <2>6. u - m = a + b + c + d + f
    BY <2>5
  <2> QED
    BY <1>7, <1>8, <2>3, <2>4, <2>6
<1> QED
  BY <1>11, <1>12, <1>13, <1>14, <1>15, <1>16 DEF IInv

(* The service closes the hub.                                             *)
LEMMA ClosingKeeps ==
  ASSUME IInv, ClearEventSink \/ Joined \/ JoinTimesOut
  PROVE  IInv'
<1>1. /\ UNCHANGED <<registered, active, callbacks, correlations, diagnostics, dispatcher,
                     jobs, malformed, junk, unanswered, view>>
      /\ sink' = sink \/ sink' = FALSE
      /\ closing' \in {"stopping", "joined", "left"}
      /\ closing' = "joined" => dispatcher.ended
      /\ Closed' = Closed
  BY DEF ClearEventSink, Joined, JoinTimesOut, outside, Closed
<1>2. HubTyped'
  BY <1>1 DEF IInv, HubTyped
<1>3. DispatcherTyped' /\ Attributed' /\ BoundOnce' /\ Quiet'
  BY <1>1 DEF IInv, DispatcherTyped, Attributed, BoundOnce, Quiet
<1>4. InOrder' /\ BegunIsKnown' /\ NothingIsLostSilently'
  BY <1>1 DEF IInv, InOrder, AbsentStartIsAccounted, BegunIsKnown, NothingIsLostSilently, Pending
<1> QED
  BY <1>2, <1>3, <1>4 DEF IInv

LEMMA CloseKeeps ==
  ASSUME IInv, Close
  PROVE  IInv'
<1>1. /\ closing' = "joining" /\ active' = {} /\ callbacks' = <<>> /\ correlations' = <<>>
      /\ diagnostics' = <<>> /\ sink' = FALSE
      /\ UNCHANGED <<registered, dispatcher, jobs, malformed, junk, unanswered, view>>
  BY DEF Close, outside
<1>2. Closed'
  BY <1>1 DEF Closed
<1>3. HubTyped'
  <2>1. <<>> \in Seq(Callback) /\ <<>> \in Seq(Bindings) /\ Len(<<>>) = 0
    OBVIOUS
  <2>2. 0 <= MaxCallbacks /\ 0 <= MaxCorrelations
    BY HubAssumption
  <2> QED
    BY <1>1, <2>1, <2>2, NoCounters DEF IInv, HubTyped
<1>4. DispatcherTyped' /\ Quiet'
  BY <1>1 DEF IInv, DispatcherTyped, Quiet
<1>5. Attributed' /\ BoundOnce'
  BY <1>1 DEF IInv, Attributed, BoundOnce, Keyed, IsBound
<1>6. InOrder'
  <2>1. \A K : Orderly(<<>>, K)
    BY DEF Orderly
  <2> QED
    BY <1>1, <2>1 DEF IInv, InOrder, AbsentStartIsAccounted
<1>7. BegunIsKnown' /\ NothingIsLostSilently'
  BY <1>2 DEF BegunIsKnown, NothingIsLostSilently
<1> QED
  BY <1>3, <1>4, <1>5, <1>6, <1>7 DEF IInv

LEMMA Initially == Init => IInv
<1> SUFFICES ASSUME Init PROVE IInv
  OBVIOUS
<1>1. /\ registered = 0 /\ active = {}
      /\ callbacks = <<>> /\ correlations = <<>> /\ diagnostics = <<>>
      /\ sink = TRUE /\ closing = "open" /\ dispatcher = Idle
      /\ jobs = [j \in Jobs |-> [native |-> "idle", bound |-> FALSE]]
      /\ malformed = [g \in Generations |-> 0]
      /\ junk = 0 /\ unanswered = 0
      /\ view = [j \in Jobs |-> "nothing"]
  BY DEF Init
<1>2. dispatcher.ended = FALSE /\ dispatcher.events = <<>> /\ dispatcher.taken = <<>>
  BY <1>1 DEF Idle
<1>3. Reports(malformed) = {}
  BY <1>1 DEF Reports
<1>4. HubTyped
  <2>1. <<>> \in Seq(Callback) /\ <<>> \in Seq(Bindings) /\ Len(<<>>) = 0
    OBVIOUS
  <2>2. 0 <= MaxCallbacks /\ 0 <= MaxCorrelations /\ 0 \in 0..MaxGeneration
    BY HubAssumption
  <2>3. jobs \in [Jobs -> [native : {"idle", "posted", "starting", "ended"}, bound : BOOLEAN]]
        /\ view \in [Jobs -> Views] /\ malformed \in [Generations -> Nat]
    BY <1>1 DEF Views
  <2>4. IsFiniteSet(Reports(malformed)) /\ Counters(diagnostics)
    BY <1>1, <1>3, FS_EmptySet, NoCounters
  <2>5. registered \in 0..MaxGeneration /\ active \subseteq 1..registered /\ unanswered \in Int
    BY <1>1, <2>2
  <2>6. /\ callbacks \in Seq(Callback) /\ Len(callbacks) <= MaxCallbacks
        /\ correlations \in Seq(Bindings) /\ Len(correlations) <= MaxCorrelations
    BY <1>1, <2>1, <2>2
  <2>7. sink \in BOOLEAN /\ closing \in {"open", "stopping", "joining", "joined", "left"}
    BY <1>1
  <2> QED
    BY <2>3, <2>4, <2>5, <2>6, <2>7 DEF HubTyped
<1>5. DispatcherTyped
  <2>1. <<>> \in Seq(Events)
    OBVIOUS
  <2> QED
    BY <1>1, <1>2, <2>1, NoCounters DEF DispatcherTyped, Idle
<1>6. Attributed
  BY <1>1, <1>2 DEF Attributed, Keyed, Named
<1>7. BoundOnce
  BY <1>1, <1>2 DEF BoundOnce, Ends, Ended
<1>8. Quiet
  BY <1>1, <1>2 DEF Quiet
<1>9. InOrder /\ BegunIsKnown
  BY <1>1, <1>2 DEF InOrder, AbsentStartIsAccounted, BegunIsKnown, Orderly
<1>10. NothingIsLostSilently
  <2>1. Pending = 0
    <3>1. Pending = Cardinality(Reports(malformed))
      BY DEF Pending, Reports
    <3> QED
      BY <1>3, <3>1, FS_EmptySet
  <2>2. Len(<<>>) = 0 /\ Total(<<>>) = 0
    BY NoCounters
  <2> QED
    BY <1>1, <1>2, <2>1, <2>2 DEF NothingIsLostSilently
<1> QED
  BY <1>4, <1>5, <1>6, <1>7, <1>8, <1>9, <1>10 DEF IInv

-----------------------------------------------------------------------------
(* Every step keeps the invariant.                                         *)

LEMMA StepKeeps == IInv /\ [Next]_vars => IInv'
<1> SUFFICES ASSUME IInv, [Next]_vars PROVE IInv'
  OBVIOUS
<1>1. CASE RegisterGeneration
  BY <1>1, RegisterKeeps
<1>2. CASE \E g \in Generations : RetireGeneration(g)
  BY <1>2, RetireKeeps
<1>3. CASE \E j \in Jobs : Post(j)
  BY <1>3, PostKeeps
<1>4. CASE \E j \in Jobs : BindOperation(j)
  BY <1>4, BindKeeps
<1>5. CASE \E j \in Jobs : ReceiveStart(j) \/ ReceiveEnd(j)
  <2>1. PICK j \in Jobs : Receive(j, "posted", "starting") \/ Receive(j, "starting", "ended")
    BY <1>5 DEF ReceiveStart, ReceiveEnd
  <2> QED
    BY <2>1, ReceiveKeeps
<1>6. CASE \E g \in Generations : ReceiveJunk(g) \/ RecordMalformed(g)
  BY <1>6, JunkKeeps, MalformedKeeps
<1>7. CASE Age
  BY <1>7, AgeKeeps
<1>8. CASE Dispatcher
  BY <1>8, DrainKeeps, DispatcherEndsKeeps, TellEventKeeps, TellDiagnosticKeeps DEF Dispatcher
<1>9. CASE ClearEventSink \/ Joined \/ JoinTimesOut
  BY <1>9, ClosingKeeps
<1>10. CASE Close
  BY <1>10, CloseKeeps
<1>11. CASE UNCHANGED vars
  <2>1. UNCHANGED <<registered, active, callbacks, correlations, diagnostics, sink, closing,
                    dispatcher, jobs, malformed, junk, unanswered, view>>
    BY <1>11 DEF vars, hubVars, outside
  <2>2. HubTyped' /\ DispatcherTyped' /\ Attributed' /\ BoundOnce' /\ Quiet'
    BY <2>1 DEF IInv, HubTyped, DispatcherTyped, Attributed, BoundOnce, Quiet
  <2>3. InOrder' /\ BegunIsKnown' /\ NothingIsLostSilently'
    BY <2>1 DEF IInv, InOrder, AbsentStartIsAccounted, BegunIsKnown, NothingIsLostSilently,
                Pending, Closed
  <2> QED
    BY <2>2, <2>3 DEF IInv
<1> QED
  BY <1>1, <1>2, <1>3, <1>4, <1>5, <1>6, <1>7, <1>8, <1>9, <1>10, <1>11 DEF Next

(* The table of diagnostics has MaxBuckets rows, and one more per code.    *)
LEMMA TableIsBounded ==
  ASSUME NEW d, Counters(d)
  PROVE  Cardinality(DOMAIN d) <= MaxBuckets + Cardinality(Codes)
<1>1. IsFiniteSet(Codes) /\ Cardinality(Codes) \in Nat
  <2>1. IsFiniteSet({"lost"}) /\ IsFiniteSet({"evicted"}) /\ IsFiniteSet({"sink"})
    BY FS_Singleton
  <2>2. Codes = ({"lost"} \cup {"evicted"}) \cup {"sink"}
    BY DEF Codes
  <2> QED
    BY <2>1, <2>2, FS_Union, FS_CardinalityType
<1> DEFINE Shared == Codes \X {0}
<1>2. IsFiniteSet(Shared) /\ Cardinality(Shared) = Cardinality(Codes)
  <2>1. IsFiniteSet({0}) /\ Cardinality({0}) = 1
    BY FS_Singleton
  <2>2. IsFiniteSet(Shared) /\ Cardinality(Shared) = Cardinality(Codes) * Cardinality({0})
    BY <1>1, <2>1, FS_Product
  <2> QED
    BY <1>1, <2>1, <2>2
<1>3. /\ IsFiniteSet(Row(d)) /\ Cardinality(Row(d)) <= MaxBuckets
      /\ Cardinality(Row(d)) \in Nat /\ MaxBuckets \in Nat
  <2>1. Row(d) \subseteq DOMAIN d
    BY DEF Row
  <2> QED
    BY <2>1, FS_Subset, FS_CardinalityType, HubAssumption DEF Counters
<1>4. DOMAIN d \subseteq Row(d) \cup Shared
  BY DEF Counters, Row
<1> HIDE DEF Shared
<1>5. /\ IsFiniteSet(Row(d) \cup Shared) /\ Cardinality(Row(d) \cup Shared) \in Nat
      /\ Cardinality(Row(d) \cup Shared) <= Cardinality(Row(d)) + Cardinality(Shared)
  <2>1. IsFiniteSet(Row(d) \cap Shared)
    <3>1. Row(d) \cap Shared \subseteq Row(d)
      OBVIOUS
    <3> QED
      BY <1>3, <3>1, FS_Subset
  <2>2. Cardinality(Row(d) \cap Shared) \in Nat
    BY <2>1, FS_CardinalityType
  <2>3. IsFiniteSet(Row(d) \cup Shared)
        /\ Cardinality(Row(d) \cup Shared)
             = Cardinality(Row(d)) + Cardinality(Shared) - Cardinality(Row(d) \cap Shared)
    BY <1>2, <1>3, FS_Union
  <2>4. Cardinality(Row(d) \cup Shared) \in Nat
    BY <2>3, FS_CardinalityType
  <2> QED
    BY <1>1, <1>2, <1>3, <2>2, <2>3, <2>4
<1>6. Cardinality(DOMAIN d) <= Cardinality(Row(d) \cup Shared) /\ Cardinality(DOMAIN d) \in Nat
  BY <1>4, <1>5, FS_Subset, FS_CardinalityType DEF Counters
<1> QED
  BY <1>1, <1>2, <1>3, <1>5, <1>6

-----------------------------------------------------------------------------
(* The parts of the hub keep their types and limits; an event names the    *)
(* job it reports; bindings belong to sessions that are there and to jobs  *)
(* whose end has not become an event; and a hub whose close has joined the *)
(* dispatcher does not call the sink any more.                             *)
THEOREM HubStaysConsistent == Spec => []HubIsConsistent
<1>1. IInv => HubIsConsistent
  <2> SUFFICES ASSUME IInv PROVE HubIsConsistent
    OBVIOUS
  <2>1. TypeOK
    <3>1. \A i \in DOMAIN correlations : correlations[i].job \in Jobs
      BY BoundJobs DEF IInv, HubTyped
    <3>2. DOMAIN diagnostics \subseteq Codes \X (0..MaxGeneration)
          /\ Cardinality(DOMAIN diagnostics) <= MaxBuckets + Cardinality(Codes)
      BY TableIsBounded DEF IInv, HubTyped, Counters
    <3> QED
      BY <3>1, <3>2 DEF IInv, HubTyped, DispatcherTyped, TypeOK, Views
  <2>2. AttributedToItsJob
    BY DEF IInv, Attributed, Named, AttributedToItsJob
  <2>3. BindingsAreLive
    <3> SUFFICES ASSUME NEW i \in DOMAIN correlations
        PROVE  /\ GenerationOf(correlations[i].job) \in active
               /\ view[correlations[i].job] \notin {"ended", "ended unstarted"}
               /\ \A k \in DOMAIN dispatcher.events :
                    dispatcher.events[k].job = correlations[i].job =>
                      dispatcher.events[k].state = "starting"
      BY DEF BindingsAreLive
    <3>1. PICK j \in Jobs : j = correlations[i].job
      BY BoundJobs DEF IInv, HubTyped
    <3>2. GenerationOf(j) \in active /\ IsBound(correlations, j)
      BY <3>1 DEF IInv, BoundOnce, IsBound
    <3>3. view[j] \notin Ended /\ ~Ends(dispatcher.events, j)
      BY <3>2 DEF IInv, BoundOnce
    <3>4. ASSUME NEW k \in DOMAIN dispatcher.events PROVE dispatcher.events[k] \in Events
      BY DEF IInv, DispatcherTyped
    <3>5. \A k \in DOMAIN dispatcher.events : dispatcher.events[k].state \in {"starting", "ended"}
      BY <3>4 DEF Events
    <3> QED
      BY <3>1, <3>2, <3>3, <3>5 DEF Ended, Ends
  <2>4. ClosedIsQuiet
    BY DEF IInv, Quiet, ClosedIsQuiet
  <2> QED
    BY <2>1, <2>2, <2>3, <2>4 DEF HubIsConsistent
<1> QED
  BY <1>1, Initially, StepKeeps, PTL DEF Spec

(* Every callback received by the open hub is an event, in the count of a  *)
(* diagnostic, or waiting, and an end that is heard without its start has  *)
(* the start in a diagnostic.                                              *)
THEOREM CallbacksStayAccounted == Spec => []CallbacksAreAccounted
<1>1. IInv => CallbacksAreAccounted
  BY DEF IInv, InOrder, CallbacksAreAccounted
<1> QED
  BY <1>1, Initially, StepKeeps, PTL DEF Spec
=============================================================================
