--------------------------- MODULE GraphScheduler ---------------------------
(***************************************************************************)
(* One run of the scheduler on the entry graph (scheduler/engine.py): the  *)
(* queue of tokens, the demand-driven evaluation of pure nodes with their  *)
(* cache, the direct successors of a parallel node as concurrent tasks,    *)
(* and every way a run ends: success, a stop node, a failing node, the     *)
(* cancellation of the run, its deadline, and its limits.                  *)
(*                                                                         *)
(* Between two suspensions a task runs alone, so what it does there is one *)
(* step.  A called function is a scheduler of its own that runs inside the *)
(* call: of it there is what the caller sees, the steps it takes, the      *)
(* variables it sets, which both share, and how it ends.  Value and log    *)
(* limits work as the step limit does and are left out; a validated graph  *)
(* has one entry node, no breakpoint, no cycle of pure nodes, and no       *)
(* parallel node behind another.                                           *)
(***************************************************************************)
EXTENDS Integers, Sequences, FiniteSets, SequencesExt

CONSTANTS
  Graphs,     \* graphs that may run
  Limits      \* limits they may run under

ASSUME SchedulerAssumption ==
  Limits \subseteq [steps : Nat \ {0}, events : Nat \ {0, 1}, queue : Nat \ {0},
                    depth : Nat]

VARIABLES
  graph,      \* the nodes: kind, data inputs, successors
  limits,     \* how many activations, events and waiting tokens there may be,
              \* and how many pure nodes may depend on each other
  cancelled,  \* the cancellation scope is cancelled
  clock,      \* before the deadline, past it, or past its timer
  store,      \* counts, values, cache and variables of the run
  queue,      \* nodes that tokens wait for
  loop,       \* what the main task does
  task,       \* the execution of a node: the main task's (0) and the branches'
  first,      \* the error that ends the run
  status,     \* how the run ended
  stopped     \* history: a stop node has completed

vars == <<graph, limits, cancelled, clock, store, queue, loop, task, first, status, stopped>>

Main == 0
Branches == 1..3
None == "none"
NoNode == 0
Nodes == DOMAIN graph
Pure(n) == graph[n].kind \in {"get", "pure"}
Late == clock # "early"

NoTask == [pc |-> None, node |-> NoNode, budget |-> 0, sets |-> FALSE, next |-> <<>>]
Live(p) == task[p].pc \in {"created", "suspended", "cancelling"}

Init ==
  /\ graph \in Graphs /\ limits \in Limits
  /\ cancelled = FALSE /\ clock = "early"
  /\ store = [steps |-> 0, activations |-> 0, events |-> 1, open |-> 0,
              tokens |-> 1, begun |-> 0, revision |-> 0,
              values |-> [n \in Nodes |-> [generation |-> 0, content |-> <<>>]],
              cache |-> [n \in Nodes |-> <<>>]]
  /\ queue = << CHOOSE n \in Nodes : graph[n].kind = "entry" >>
  /\ loop = "next"
  /\ task = [p \in {Main} \cup Branches |-> NoTask]
  /\ first = None
  /\ status = None /\ stopped = FALSE

(***************************************************************************)
(* Parts of a step: each takes the store and gives it back, with an error  *)
(* or with None.                                                           *)
(***************************************************************************)
Goes(s) == [s |-> s, error |-> None]
Fails(s, error) == [s |-> s, error |-> error]

Reserved(s, count) == s.events + count <= limits.events - 1

PreDispatch == IF cancelled THEN "cancelled" ELSE IF Late THEN "time" ELSE None

NewActivation(s) ==
  IF PreDispatch # None THEN Fails(s, PreDispatch)
  ELSE IF s.steps >= limits.steps THEN Fails(s, "limit")
  ELSE LET counted == [s EXCEPT !.steps = @ + 1, !.activations = @ + 1] IN
    IF Reserved(s, 1) THEN Goes([counted EXCEPT !.events = @ + 1, !.open = @ + 1])
                      ELSE Fails(counted, "limit")

NodeFails(s, error) ==
  IF Reserved(s, 1) THEN Fails([s EXCEPT !.events = @ + 1, !.open = @ - 1], error)
                    ELSE Fails(s, "limit")

Commit(s, n, content) ==
  LET committed == [s EXCEPT !.values[n] = [generation |-> @.generation + 1,
                                            content |-> content]] IN
  IF Late THEN NodeFails(s, "time")
  ELSE IF Reserved(s, 1)
    THEN Goes([committed EXCEPT !.events = @ + 1, !.open = @ - 1])
    ELSE Fails(committed, "limit")

Signature(s, n) ==
  [i \in DOMAIN graph[n].inputs |-> s.values[graph[n].inputs[i]].generation]
Content(s, n) ==
  IF graph[n].kind = "get" THEN << s.revision >>
  ELSE [i \in DOMAIN graph[n].inputs |-> s.values[graph[n].inputs[i]].content]

HitAnyRevision(s, n) ==  \* mutant: a changed variable is not noticed
  /\ s.cache[n] # <<>>
  /\ s.cache[n].signature = Signature(s, n)
Hit(s, n) ==
  /\ s.cache[n] # <<>>
  /\ s.cache[n].signature = Signature(s, n)
  /\ s.cache[n].revision = s.revision

\* Pure nodes are evaluated on demand, depth first; the executors of those in
\* `failing` raise an error.
RECURSIVE ResolveFrom(_, _, _, _, _), Evaluate(_, _, _, _)
ResolveFrom(s, n, i, depth, failing) ==
  IF i > Len(graph[n].inputs) THEN Goes(s)
  ELSE LET m == graph[n].inputs[i]
           e == IF Pure(m) THEN Evaluate(s, m, depth + 1, failing) ELSE Goes(s)
       IN  IF e.error # None THEN e
           ELSE IF e.s.values[m].generation = 0 THEN Fails(e.s, "limit")
           ELSE ResolveFrom(e.s, n, i + 1, depth, failing)
Resolve(s, n, depth, failing) == ResolveFrom(s, n, 1, depth, failing)
Evaluate(s, n, depth, failing) ==
  LET resolved == IF depth > limits.depth THEN Fails(s, "limit")
                                          ELSE Resolve(s, n, depth, failing) IN
  IF resolved.error # None \/ Hit(resolved.s, n) THEN resolved
  ELSE LET begun == NewActivation(resolved.s) IN
    IF begun.error # None THEN begun
    ELSE IF n \in failing THEN NodeFails(begun.s, "node")
    ELSE LET done == Commit(begun.s, n, Content(begun.s, n)) IN
      IF done.error # None THEN done
      ELSE Goes([done.s EXCEPT !.cache[n] = [signature |-> Signature(done.s, n),
                                             revision |-> done.s.revision]])

(***************************************************************************)
(* The execution of a node, up to its suspension or its end.               *)
(***************************************************************************)
Raise(p, result) ==
  /\ store' = result.s
  /\ task' = [task EXCEPT ![p].pc = "failed"]
  /\ first' = IF first = None THEN result.error ELSE first
  /\ UNCHANGED stopped
Return(p, s, next) ==
  /\ store' = s
  /\ task' = [task EXCEPT ![p].pc = "returned", ![p].next = next]
  /\ stopped' = (stopped \/ graph[task[p].node].kind = "stop")
  /\ UNCHANGED first
End(p, result, next) ==
  IF result.error = None THEN Return(p, result.s, next) ELSE Raise(p, result)

Budget(s) == limits.steps - s.steps

Begin(p) ==
  /\ task[p].pc = "created"
  /\ \E failing \in {{}} \cup {{m} : m \in {m \in Nodes : graph[m].kind = "pure"}} :
     LET n == task[p].node
         kind == graph[n].kind
         resolved == Resolve([store EXCEPT !.begun = @ + 1], n, 0, failing)
         begun == IF resolved.error = None THEN NewActivation(resolved.s) ELSE resolved
     IN  IF begun.error # None THEN Raise(p, begun)
         ELSE IF kind = "call" /\ Budget(begun.s) < 1
           THEN Raise(p, NodeFails(begun.s, "limit"))
         ELSE IF kind \in {"step", "call"}
           THEN /\ store' = begun.s
                /\ task' = [task EXCEPT ![p].pc = "suspended",
                                        ![p].budget = Budget(begun.s)]
                /\ UNCHANGED <<first, stopped>>
         ELSE \E next \in graph[n].next :
           End(p, Commit(IF kind = "set" THEN [begun.s EXCEPT !.revision = @ + 1]
                                         ELSE begun.s, n, <<>>), next)

(* A suspended executor answers: it succeeds, fails, or has noticed the    *)
(* cancellation of the run.  A failed action may have an edge to follow.   *)
StepAnswers(p) ==
  LET n == task[p].node
      failed == NodeFails(store, "node") IN
  /\ graph[n].kind = "step"
  /\ \/ \E next \in graph[n].next :
          End(p, Commit(store, n, << store.values[n].generation + 1 >>), next)
     \/ Raise(p, failed)
     \/ graph[n].failed # <<>> /\ failed.error = "node"
          /\ Return(p, failed.s, graph[n].failed)
     \/ cancelled /\ Raise(p, NodeFails(store, "cancelled"))
(* While it runs, a called function may set a variable of the run, if the   *)
(* document has any: once is the bound here.  It takes a step for its       *)
(* input, one for each node and one for its return.                         *)
HasVariables == \E n \in Nodes : graph[n].kind \in {"get", "set"}
CallSets(p) ==
  /\ graph[task[p].node].kind = "call" /\ HasVariables
  /\ ~task[p].sets /\ task[p].budget >= 2 /\ PreDispatch = None
  /\ store' = [store EXCEPT !.revision = @ + 1]
  /\ task' = [task EXCEPT ![p].sets = TRUE]
  /\ UNCHANGED <<first, stopped>>
CallAnswers(p) ==
  LET n == task[p].node
      taken == IF task[p].sets THEN 2 ELSE 0 IN
  /\ graph[n].kind = "call"
  /\ \E used \in taken..task[p].budget :
       LET merged == [store EXCEPT !.steps = @ + used] IN
       \/ used >= (IF task[p].sets THEN 3 ELSE 2) /\ \E next \in graph[n].next :
            End(p, Commit(merged, n, << merged.values[n].generation + 1 >>), next)
       \/ Raise(p, NodeFails(merged, "limit"))
       \/ cancelled /\ Raise(p, NodeFails(merged, "cancelled"))

Execute(p) ==
  /\ \/ Begin(p)
     \/ /\ task[p].pc = "suspended"
        /\ StepAnswers(p) \/ CallSets(p) \/ CallAnswers(p)
  /\ UNCHANGED <<graph, limits, cancelled, clock, queue, loop, status>>

(* A cancelled task never comes to its end. *)
Drop(p) ==
  /\ task[p].pc = "cancelling"
  /\ task' = [task EXCEPT ![p].pc = "dropped"]
  /\ UNCHANGED <<graph, limits, cancelled, clock, store, queue, loop, first,
                 status, stopped>>

(***************************************************************************)
(* The main task.                                                          *)
(***************************************************************************)
StatusOf(error) == CASE error = None -> "succeeded"
                     [] error = "cancelled" -> "cancelled"
                     [] OTHER -> "failed"
Finish(s, error) ==
  /\ status' = StatusOf(error)
  /\ store' = [s EXCEPT !.events = @ + 1]
  /\ first' = error
  /\ loop' = "ended"
  /\ UNCHANGED <<graph, limits, cancelled, clock, queue, task, stopped>>

Dequeue ==
  /\ loop = "next" /\ queue # <<>>
  /\ IF PreDispatch # None THEN Finish(store, PreDispatch)
     ELSE /\ queue' = Tail(queue)
          /\ task' = [task EXCEPT ![Main] = [NoTask EXCEPT !.pc = "created",
                                                           !.node = Head(queue)]]
          /\ loop' = "node"
          /\ UNCHANGED <<graph, limits, cancelled, clock, store, first, status, stopped>>

Succeed == loop = "next" /\ queue = <<>> /\ Finish(store, None)
Fail == loop = "node" /\ task[Main].pc = "failed" /\ Finish(store, first)

(* Tokens for the successors of a node, as far as queue and events allow.  *)
Successors(s, q, next) ==
  IF Len(q) + Len(next) > limits.queue \/ ~Reserved(s, Len(next)) THEN Fails(s, "limit")
  ELSE Goes([s EXCEPT !.tokens = @ + Len(next), !.events = @ + Len(next)])

Continue ==
  /\ loop = "node" /\ task[Main].pc = "returned"
  /\ LET next == task[Main].next
         kind == graph[task[Main].node].kind
         made == Successors(store, queue, next)
     IN  IF made.error # None THEN Finish(made.s, made.error)
         ELSE /\ store' = made.s
              /\ IF kind = "fork" /\ next # <<>>
                   THEN /\ task' = [p \in DOMAIN task |->
                                      IF p \in DOMAIN next
                                        THEN [NoTask EXCEPT !.pc = "created",
                                                            !.node = next[p]]
                                        ELSE NoTask]
                        /\ loop' = "gather"
                        /\ UNCHANGED queue
                   ELSE /\ queue' = IF kind = "stop" THEN <<>> ELSE queue \o next
                        /\ loop' = "next"
                        /\ UNCHANGED task
              /\ UNCHANGED <<graph, limits, cancelled, clock, first, status, stopped>>

(* All branches have returned: their successors wait in the queue, in the  *)
(* order of the branches, unless one of them was a stop.                   *)
Terminal(p) == task[p].pc = "returned" /\ graph[task[p].node].kind = "stop"
Used == {p \in Branches : task[p].pc # None}
Collected(s) ==
  LET enqueued == FoldLeft(LAMBDA r, p :
                    LET made == Successors(r.s, r.queue, task[p].next) IN
                    IF r.error # None \/ Terminal(p) THEN r
                    ELSE [s |-> made.s, error |-> made.error,
                          queue |-> IF made.error = None THEN r.queue \o task[p].next
                                                         ELSE r.queue],
                    [s |-> s, error |-> None, queue |-> queue],
                    [i \in 1..Cardinality(Used) |-> i])
  IN  IF \E p \in Used : Terminal(p) THEN [enqueued EXCEPT !.queue = <<>>] ELSE enqueued

Gathered == \A p \in Used : task[p].pc = "returned"
GatheredOne == \E p \in Used : task[p].pc = "returned"  \* mutant's: any of them
CollectEarly ==  \* mutant: as soon as one branch has returned
  /\ loop = "gather" /\ GatheredOne
  /\ LET collected == Collected(store) IN
     IF collected.error # None THEN Finish(collected.s, collected.error)
     ELSE /\ store' = collected.s
          /\ queue' = collected.queue
          /\ loop' = "next"
          /\ UNCHANGED <<graph, limits, cancelled, clock, task, first, status, stopped>>
Collect ==
  /\ loop = "gather" /\ Gathered
  /\ LET collected == Collected(store) IN
     IF collected.error # None THEN Finish(collected.s, collected.error)
     ELSE /\ store' = collected.s
          /\ queue' = collected.queue
          /\ loop' = "next"
          /\ UNCHANGED <<graph, limits, cancelled, clock, task, first, status, stopped>>

(* One branch has failed: the others are cancelled, those that have not    *)
(* begun never will, and the run waits for all of them before it ends.     *)
CancelBranches ==
  task' = [p \in DOMAIN task |->
             IF p = Main THEN task[p]
             ELSE [task[p] EXCEPT !.pc = CASE @ = "created" -> "dropped"
                                           [] @ = "suspended" -> "cancelling"
                                           [] OTHER -> @]]
Abandon ==
  /\ loop = "gather" /\ \E p \in Used : task[p].pc = "failed"
  /\ CancelBranches
  /\ loop' = "settle"
  /\ UNCHANGED <<graph, limits, cancelled, clock, store, queue, first, status, stopped>>
SettledAtOnce ==  \* mutant: the branches are cancelled and not awaited
  loop = "settle" /\ Finish(store, first)
Settled ==
  /\ loop = "settle" /\ \A p \in DOMAIN task : ~Live(p)
  /\ Finish(store, first)

(***************************************************************************)
(* The world: the run is cancelled from another thread; the deadline       *)
(* passes; and its timer interrupts the main task where it is suspended.   *)
(***************************************************************************)
CancelRun ==
  /\ status = None /\ ~cancelled
  /\ cancelled' = TRUE
  /\ UNCHANGED <<graph, limits, clock, store, queue, loop, task, first, status, stopped>>
Expire ==
  /\ status = None /\ clock = "early"
  /\ clock' = "late"
  /\ UNCHANGED <<graph, limits, cancelled, store, queue, loop, task, first,
                 status, stopped>>

InterruptNode ==
  /\ loop = "node" /\ task[Main].pc = "suspended"
  /\ task' = [task EXCEPT ![Main].pc = "cancelling"]
  /\ loop' = "settle"
InterruptGather ==
  /\ loop = "gather"
  /\ CancelBranches
  /\ loop' = "settle"
InterruptSettling == loop = "settle" /\ UNCHANGED <<task, loop>>
TimerAlone ==  \* mutant: only a node of the main task is interrupted
  /\ clock = "late" /\ clock' = "over"
  /\ InterruptNode
  /\ first' = "time"
  /\ UNCHANGED <<graph, limits, cancelled, store, queue, status, stopped>>
Timer ==
  /\ clock = "late" /\ clock' = "over"
  /\ InterruptNode \/ InterruptGather \/ InterruptSettling
  /\ first' = "time"
  /\ UNCHANGED <<graph, limits, cancelled, store, queue, status, stopped>>

MainTask == Dequeue \/ Succeed \/ Fail \/ Continue \/ Collect \/ Abandon \/ Settled
Next ==
  \/ MainTask
  \/ \E p \in DOMAIN task : Execute(p) \/ Drop(p)
  \/ CancelRun \/ Expire \/ Timer

Spec == Init /\ [][Next]_vars

(* The event loop runs what is ready and time passes.  Nothing is assumed  *)
(* of the executors: a node that waits may wait for ever.                  *)
Starts(p) == task[p].pc = "created" /\ Execute(p)
Fairness ==
  /\ WF_vars(MainTask) /\ WF_vars(Expire) /\ WF_vars(Timer)
  /\ \A p \in {Main} \cup Branches : WF_vars(Starts(p)) /\ WF_vars(Drop(p))
FairSpec == Spec /\ Fairness

-----------------------------------------------------------------------------
(* The store, the tasks and the queue have their types; no more tokens wait *)
(* than max_queue_size allows (_create_successor_tokens), whatever order    *)
(* branches and sequences add them in.                                      *)
TypeOK ==
  /\ graph \in Graphs /\ limits \in Limits
  /\ cancelled \in BOOLEAN /\ clock \in {"early", "late", "over"}
  /\ \A field \in {"steps", "activations", "events", "open", "tokens", "begun", "revision"} :
       store[field] \in Nat
  /\ queue \in Seq(Nodes) /\ Len(queue) <= limits.queue
  /\ loop \in {"next", "node", "gather", "settle", "ended"}
  /\ \A p \in DOMAIN task :
       task[p].pc \in {None, "created", "suspended", "cancelling",
                      "returned", "failed", "dropped"}
  /\ first \in {None, "node", "limit", "time", "cancelled"}
  /\ status \in {None, "succeeded", "failed", "cancelled"}
  /\ stopped \in BOOLEAN

(* Whatever used up the events, tasks that emit concurrently included, the  *)
(* terminal event has its place: "Scheduler terminal event capacity was not *)
(* reserved." (_finish) is never raised.                                    *)
RoomForTheEnd ==
  store.events <= IF status = None THEN limits.events - 1 ELSE limits.events

(* When the run has its terminal event no node of it is executing, however  *)
(* it ended: the executor of a failed, cancelled or timed out run does not  *)
(* touch the device after the run gave its lease back                       *)
(* (_execute_concurrent_successors awaits the tasks it cancels).            *)
NothingRunsAfterTheEnd == status # None => \A p \in DOMAIN task : ~Live(p)

(* What a pure node would be skipped for is what it would compute: the      *)
(* cached result of the node and of the pure nodes it reads is the current  *)
(* one, though branches set variables and execute nodes in between          *)
(* (_evaluate_pure, _PureCacheEntry).                                       *)
CacheIsFresh ==
  LET kept[n \in Nodes] ==
        \/ ~Pure(n)
        \/ Hit(store, n) /\ \A i \in DOMAIN graph[n].inputs : kept[graph[n].inputs[i]]
  IN  \A n \in Nodes :
        Pure(n) /\ kept[n] => store.values[n].content = Content(store, n)

(* A run reported as succeeded has ended every node it started, and has     *)
(* executed every token it created unless a stop node discarded the rest    *)
(* (run, _execute_concurrent_successors).                                   *)
SuccessIsComplete ==
  status = "succeeded" => store.open = 0 /\ (stopped \/ store.begun = store.tokens)

(* After a stop node, on the main path or in a branch, whatever the other   *)
(* branches leave behind, no token waits for the main task.                 *)
StopIsObeyed == stopped /\ loop = "next" => queue = <<>>

(* A run cannot use more steps than it has, those of its functions          *)
(* included, unless a function is called beside other branches: the call    *)
(* has all the steps that are left when it starts and adds them when it     *)
(* ends (_function_child_limits, _merge_child_snapshot).                    *)
CalledBesideOthers ==
  \E n \in Nodes : /\ graph[n].kind = "fork"
                   /\ \E next \in graph[n].next :
                        /\ Len(next) > 1
                        /\ \E i \in DOMAIN next : graph[next[i]].kind = "call"
StepsWithinLimit == CalledBesideOthers \/ store.steps <= limits.steps

(* What a run counts is right: no limit is passed, none leaves it without   *)
(* its end, and tokens are neither lost nor executed after a stop.          *)
AccountsAreRight ==
  TypeOK /\ RoomForTheEnd /\ StepsWithinLimit /\ SuccessIsComplete /\ StopIsObeyed

(* Once the run is cancelled no node starts, in no branch: a task that was  *)
(* already created for a branch finds the cancellation before its executor  *)
(* is called (_check_pre_dispatch in _execute_registered).                  *)
CancelledStartsNothing == cancelled => store'.activations = store.activations

(* Every run ends, with executors that never answer and with functions that *)
(* loop: by its limits or by the timer that interrupts what it awaits; and  *)
(* a cancelled one without starting anything more.                          *)
RunEnds == [][CancelledStartsNothing]_vars /\ <>(status # None)

=============================================================================
