---------------------------- MODULE CallbackHub ----------------------------
(***************************************************************************)
(* MaaCallbackHub (backends/maa/callbacks.py): native threads report the   *)
(* operations of controllers and taskers, threads that post jobs say what  *)
(* they posted, and a dispatcher thread brings both together and hands     *)
(* events and diagnostics to the sink of the service.                      *)
(*                                                                         *)
(* Everything but the calls of the sink happens under one lock, so each    *)
(* of the hub's operations is one step, and draining the queue is one.     *)
(* The dispatcher wakes up by itself, so its wake-up signal is left out,   *)
(* and so are the refusals of a 33rd generation and of numbers beyond      *)
(* 2^53, the numbering of callbacks, and drain and statistics, which only  *)
(* tests call.                                                             *)
(***************************************************************************)
EXTENDS Integers, Sequences, FiniteSets, SequencesExt, Lists

CONSTANTS
  MaxGeneration,   \* bound: registrations of a controller
  Operations,      \* native identifiers, used again by each controller
  MaxCallbacks,    \* _maximum_callbacks
  MaxCorrelations, \* _maximum_correlations
  MaxBuckets,      \* MAXIMUM_DIAGNOSTIC_BUCKETS
  MaxJunk          \* bound: callbacks that are malformed or not supported

ASSUME HubAssumption ==
  /\ MaxGeneration \in Nat /\ MaxJunk \in Nat
  /\ MaxCallbacks \in Nat \ {0} /\ MaxCorrelations \in Nat \ {0}
  /\ MaxBuckets \in Nat

VARIABLES
  registered,   \* generations registered so far
  active,       \* _active_generations
  callbacks,    \* _callbacks: job, state, and whether its grace period is over
  correlations, \* _correlations, the oldest binding first
  diagnostics,  \* _diagnostics: how often, per code and generation
  sink,         \* whether _event_sink is set
  closing,      \* how far the service has come in closing the hub
  dispatcher,   \* where the dispatcher is, and its batch
  jobs,         \* what native threads and posting threads do, per job
  malformed,    \* per generation: threads that are about to report a callback
  junk,         \* malformed and unsupported callbacks so far
  unanswered,   \* history: callbacks received by the open hub and not yet
                \* handed to the sink, as an event or in a count
  view          \* history: what the sink has heard of a job, and whether
                \* the start it misses was given up

hubVars == <<registered, active, callbacks, correlations, diagnostics, sink,
             closing>>
outside == <<jobs, malformed, junk, unanswered, view>>
vars == <<hubVars, dispatcher, outside>>

Generations == 1..MaxGeneration
Jobs == Generations \X Operations
GenerationOf(j) == j[1]
Closed == closing \in {"joining", "joined", "left"}  \* _closed
Idle == [ended |-> FALSE, events |-> <<>>, taken |-> <<>>]
Waiting == dispatcher = Idle

Init ==
  /\ registered = 0 /\ active = {}
  /\ callbacks = <<>> /\ correlations = <<>> /\ diagnostics = <<>>
  /\ sink = TRUE /\ closing = "open"  \* the service sets its sink first of all
  /\ dispatcher = Idle
  /\ jobs = [j \in Jobs |-> [native |-> "idle", bound |-> FALSE]]
  /\ malformed = [g \in Generations |-> 0]
  /\ junk = 0 /\ unanswered = 0
  /\ view = [j \in Jobs |-> "nothing"]

(* One more of a diagnostic; codes of further generations share a bucket.  *)
(* The five codes of a callback that becomes no event - stale, unmatched,  *)
(* overflow, unsupported, malformed - are one here.                        *)
Record(d, code, g) ==
  LET full == <<code, g>> \notin DOMAIN d /\ Cardinality(DOMAIN d) >= MaxBuckets
      key == IF full THEN <<code, 0>> ELSE <<code, g>>
  IN  [k \in DOMAIN d \cup {key} |->
         (IF k \in DOMAIN d THEN d[k] ELSE 0) + (IF k = key THEN 1 ELSE 0)]

(***************************************************************************)
(* Generations.                                                            *)
(***************************************************************************)
RegisterGeneration ==
  /\ closing = "open" /\ registered < MaxGeneration
  /\ registered' = registered + 1
  /\ active' = active \cup {registered + 1}
  /\ UNCHANGED <<callbacks, correlations, diagnostics, sink, closing, dispatcher,
                 outside>>

RetireGeneration(g) ==
  /\ ~Closed /\ g \in active
  /\ active' = active \ {g}
  /\ correlations' = Filter(correlations, LAMBDA c : GenerationOf(c.job) # g)
  /\ UNCHANGED <<registered, callbacks, diagnostics, sink, closing, dispatcher,
                 outside>>

(***************************************************************************)
(* A thread posts a job and binds what it posted; the native threads may   *)
(* have reported all of it in between.                                     *)
(***************************************************************************)
Post(j) ==
  /\ GenerationOf(j) \in active /\ jobs[j].native = "idle"
  /\ jobs' = [jobs EXCEPT ![j].native = "posted"]
  /\ UNCHANGED <<hubVars, dispatcher, malformed, junk, unanswered,
                 view>>

KeyOfOperation(j) == j[2]  \* mutant: generations are not told apart
Key(j) == j

(* bind_operation. It raises when the generation is gone, and the job is   *)
(* given up by the thread that posted it.                                  *)
BindOperation(j) ==
  /\ jobs[j].native # "idle" /\ ~jobs[j].bound
  /\ jobs' = [jobs EXCEPT ![j].bound = TRUE]
  /\ IF Closed \/ GenerationOf(j) \notin active
       THEN UNCHANGED <<correlations, diagnostics>>
       ELSE LET others == Filter(correlations, LAMBDA c : c.key # Key(j))
                evicts == /\ Len(others) = Len(correlations)
                          /\ Len(correlations) >= MaxCorrelations
                kept == IF evicts THEN Tail(others) ELSE others
            IN  /\ correlations' = Append(kept, [key |-> Key(j), job |-> j])
                /\ diagnostics' =
                     IF evicts THEN Record(diagnostics, "evicted",
                                           GenerationOf(Head(correlations).job))
                               ELSE diagnostics
  /\ UNCHANGED <<registered, active, callbacks, sink, closing, dispatcher, malformed,
                 junk, unanswered, view>>

(***************************************************************************)
(* receive, on a native thread.                                            *)
(***************************************************************************)
Missed(v, c) == IF c.state = "starting" THEN [v EXCEPT ![c.job] = "missed"] ELSE v

Enqueue(j, state) ==
  /\ IF Len(callbacks) >= MaxCallbacks
       THEN /\ diagnostics' = Record(diagnostics, "lost",
                                     GenerationOf(Head(callbacks).job))
            /\ callbacks' = Append(Tail(callbacks),
                                   [job |-> j, state |-> state, old |-> FALSE])
            /\ view' = Missed(view, Head(callbacks))
       ELSE /\ callbacks' = Append(callbacks, [job |-> j, state |-> state, old |-> FALSE])
            /\ UNCHANGED <<diagnostics, view>>

Receive(j, from, state) ==
  /\ jobs[j].native = from
  /\ jobs' = [jobs EXCEPT ![j].native = state]
  /\ CASE Closed -> UNCHANGED <<callbacks, diagnostics, unanswered, view>>
       [] ~Closed /\ GenerationOf(j) \notin active ->
            /\ diagnostics' = Record(diagnostics, "lost", GenerationOf(j))
            /\ unanswered' = unanswered + 1
            /\ UNCHANGED callbacks
            /\ view' = Missed(view, [job |-> j, state |-> state])
       [] OTHER -> Enqueue(j, state) /\ unanswered' = unanswered + 1
  /\ UNCHANGED <<registered, active, correlations, sink, closing, dispatcher, malformed,
                 junk>>
ReceiveStart(j) == Receive(j, "posted", "starting")
ReceiveEnd(j) == Receive(j, "starting", "ended")

(* An unsupported callback is counted at once; one that cannot be parsed   *)
(* raises, and is counted when its thread has the lock again.              *)
ReceiveJunk(g) ==
  /\ g <= registered /\ junk < MaxJunk
  /\ junk' = junk + 1
  /\ CASE Closed -> UNCHANGED <<diagnostics, malformed, unanswered>>
       [] ~Closed /\ g \notin active ->
            /\ diagnostics' = Record(diagnostics, "lost", g)
            /\ unanswered' = unanswered + 1 /\ UNCHANGED malformed
       [] OTHER ->
            /\ unanswered' = unanswered + 1
            /\ \/ /\ diagnostics' = Record(diagnostics, "lost", g)
                  /\ UNCHANGED malformed
               \/ /\ malformed' = [malformed EXCEPT ![g] = @ + 1]
                  /\ UNCHANGED diagnostics
  /\ UNCHANGED <<registered, active, callbacks, correlations, sink, closing, dispatcher,
                 jobs, view>>
RecordMalformed(g) ==
  /\ malformed[g] > 0
  /\ malformed' = [malformed EXCEPT ![g] = @ - 1]
  /\ diagnostics' = IF Closed THEN diagnostics ELSE Record(diagnostics, "lost", g)
  /\ UNCHANGED <<registered, active, callbacks, correlations, sink, closing, dispatcher,
                 jobs, junk, unanswered, view>>

(* The grace period of the oldest callback that still has one is over.     *)
Age ==
  /\ \E i \in DOMAIN callbacks :
       /\ ~callbacks[i].old /\ \A k \in 1..(i - 1) : callbacks[k].old
       /\ callbacks' = [callbacks EXCEPT ![i].old = TRUE]
  /\ UNCHANGED <<registered, active, correlations, diagnostics, sink, closing, dispatcher,
                 outside>>

(***************************************************************************)
(* The dispatcher.                                                         *)
(***************************************************************************)
BindingsOf(bound, c) == Filter(bound, LAMBDA b : b.key = Key(c.job))
ExpiredNever(c) == FALSE  \* mutant: an unmatched callback waits for ever
Expired(c) == c.old
KeptFirst(waiting, c) == <<c>> \o waiting  \* mutant: what waits is turned around
Kept(waiting, c) == Append(waiting, c)
Released(bound, c) ==
  IF c.state = "starting" THEN bound
  ELSE Filter(bound, LAMBDA b : b.key # Key(c.job))

(* _drain_locked: a callback of a retired generation and one that waited   *)
(* too long are given up, one that is not bound yet waits, the others are  *)
(* events.                                                                 *)
GivenUp(batch, c) ==
  [batch EXCEPT !.diagnostics = Record(@, "lost", GenerationOf(c.job)),
                !.view = Missed(@, c)]
DrainOne(batch, c) ==
  LET found == BindingsOf(batch.bound, c) IN
  CASE GenerationOf(c.job) \notin active \/ (found = <<>> /\ Expired(c)) ->
         GivenUp(batch, c)
    [] GenerationOf(c.job) \in active /\ found = <<>> /\ ~Expired(c) ->
         [batch EXCEPT !.waiting = Kept(@, c)]
    [] GenerationOf(c.job) \in active /\ found # <<>> ->
         [batch EXCEPT !.events = Append(@, [job |-> c.job, state |-> c.state,
                                             posted |-> Head(found).job]),
                       !.bound = Released(@, c)]
Drained ==
  FoldLeft(DrainOne, [events |-> <<>>, waiting |-> <<>>, bound |-> correlations,
                      diagnostics |-> diagnostics, view |-> view], callbacks)

Drain ==
  /\ Waiting /\ ~Closed /\ sink
  /\ LET batch == Drained IN
     /\ callbacks' = batch.waiting
     /\ correlations' = batch.bound
     /\ diagnostics' = <<>>
     /\ dispatcher' = [Idle EXCEPT !.events = batch.events, !.taken = batch.diagnostics]
     /\ view' = batch.view
  /\ UNCHANGED <<registered, active, sink, closing, jobs, malformed, junk, unanswered>>
DispatcherEnds ==
  /\ Waiting /\ Closed
  /\ dispatcher' = [dispatcher EXCEPT !.ended = TRUE]
  /\ UNCHANGED <<hubVars, outside>>

(* How many callbacks a diagnostic stands for. *)
Worth(k, n) == IF k[1] = "lost" THEN n ELSE 0

Heard(v, e) ==
  [v EXCEPT ![e.job] = IF e.state = "starting" THEN "starting"
                       ELSE IF @ = "nothing" THEN "ended unstarted" ELSE "ended"]

(* The sink has returned, or it has raised: the hub forgets it, but the    *)
(* rest of the batch is still handed to it.                                *)
SinkFailed(g) ==
  IF Closed THEN UNCHANGED <<sink, diagnostics>>
  ELSE sink' = FALSE /\ diagnostics' = Record(diagnostics, "sink", g)
TellEvent ==
  /\ dispatcher.events # <<>>
  /\ dispatcher' = [dispatcher EXCEPT !.events = Tail(@)]
  /\ LET e == Head(dispatcher.events) IN
     \/ /\ view' = Heard(view, e)
        /\ UNCHANGED <<sink, diagnostics>>
     \/ /\ SinkFailed(GenerationOf(e.job))
        /\ view' = Missed(view, e)
  /\ unanswered' = unanswered - 1
  /\ UNCHANGED <<registered, active, callbacks, correlations, closing, jobs, malformed,
                 junk>>
TellDiagnostic ==
  /\ dispatcher.events = <<>>
  /\ \E k \in DOMAIN dispatcher.taken :
       /\ dispatcher' = [dispatcher EXCEPT !.taken =
                           [other \in DOMAIN @ \ {k} |-> @[other]]]
       /\ unanswered' = unanswered - Worth(k, dispatcher.taken[k])
       /\ UNCHANGED <<sink, diagnostics>> \/ SinkFailed(k[2])
  /\ UNCHANGED <<registered, active, callbacks, correlations, closing, jobs, malformed,
                 junk, view>>

(***************************************************************************)
(* The service closes: it takes its sink away, disconnects the devices,    *)
(* which retires their generations, and closes the hub, whichever of them  *)
(* are still active, which waits two seconds for the dispatcher.           *)
(***************************************************************************)
ClearEventSink ==
  /\ closing = "open"
  /\ closing' = "stopping" /\ sink' = FALSE
  /\ UNCHANGED <<registered, active, callbacks, correlations, diagnostics,
                 dispatcher, outside>>
Close ==
  /\ closing = "stopping"
  /\ closing' = "joining"
  /\ active' = {} /\ callbacks' = <<>> /\ correlations' = <<>>
  /\ diagnostics' = <<>> /\ sink' = FALSE
  /\ UNCHANGED <<registered, dispatcher, outside>>
Joined ==
  /\ closing = "joining" /\ dispatcher.ended
  /\ closing' = "joined"
  /\ UNCHANGED <<registered, active, callbacks, correlations, diagnostics, sink,
                 dispatcher, outside>>
JoinTimesOut ==
  /\ closing = "joining" /\ ~dispatcher.ended
  /\ closing' = "left"
  /\ UNCHANGED <<registered, active, callbacks, correlations, diagnostics, sink,
                 dispatcher, outside>>

Dispatcher == Drain \/ DispatcherEnds \/ TellEvent \/ TellDiagnostic
Next ==
  \/ RegisterGeneration \/ \E g \in Generations : RetireGeneration(g)
  \/ \E j \in Jobs : Post(j) \/ BindOperation(j) \/ ReceiveStart(j) \/ ReceiveEnd(j)
  \/ \E g \in Generations : ReceiveJunk(g) \/ RecordMalformed(g)
  \/ Age \/ Dispatcher
  \/ ClearEventSink \/ Close \/ Joined \/ JoinTimesOut

Spec == Init /\ [][Next]_vars

(* Time passes and the dispatcher runs; the sink answers or raises.  The   *)
(* native threads owe nothing.                                             *)
FairSpec == Spec /\ WF_vars(Dispatcher) /\ WF_vars(Age)

-----------------------------------------------------------------------------
Codes == {"lost", "evicted", "sink"}
Callback == [job : Jobs, state : {"starting", "ended"}, old : BOOLEAN]

(* The parts of the hub have their types and keep their limits, the queue   *)
(* also while callbacks go back to it to wait for their binding.            *)
TypeOK ==
  /\ registered \in 0..MaxGeneration /\ active \subseteq 1..registered
  /\ callbacks \in Seq(Callback)
  /\ Len(callbacks) <= MaxCallbacks
  /\ \A i \in DOMAIN correlations : correlations[i].job \in Jobs
  /\ Len(correlations) <= MaxCorrelations
  /\ DOMAIN diagnostics \subseteq Codes \X (0..MaxGeneration)
  /\ Cardinality(DOMAIN diagnostics) <= MaxBuckets + Cardinality(Codes)
  /\ sink \in BOOLEAN /\ closing \in {"open", "stopping", "joining", "joined", "left"}
  /\ dispatcher.ended \in BOOLEAN
  /\ jobs \in [Jobs -> [native : {"idle", "posted", "starting", "ended"}, bound : BOOLEAN]]
  /\ malformed \in [Generations -> Nat]
  /\ view \in [Jobs -> {"nothing", "missed", "starting", "ended", "ended unstarted"}]

\* A ticket for each callback a diagnostic stands for, and for each thread
\* that is about to report one.
Tickets(d) == UNION {{k} \X (1..d[k]) : k \in {key \in DOMAIN d : key[1] = "lost"}}
Total(d) == Cardinality(Tickets(d))
Pending == Cardinality(UNION {{g} \X (1..malformed[g]) : g \in Generations})

(* Every callback received by the open hub is an event, one in the count of *)
(* a diagnostic, or still waiting; a full queue, a lost binding, a retired  *)
(* generation and a shared bucket hide none of them                         *)
(* (MAA_CALLBACK_NORMALIZATION.md, section 3).                              *)
NothingIsLostSilently ==
  ~Closed => unanswered = Len(callbacks) + Len(dispatcher.events) + Total(diagnostics)
                            + Total(dispatcher.taken) + Pending

(* An event carries the request, run and node of the job it reports, though *)
(* the next controller counts its operations from one again                 *)
(* (_drain_locked, the key of _correlations).                               *)
AttributedToItsJob ==
  \A i \in DOMAIN dispatcher.events :
    dispatcher.events[i].posted = dispatcher.events[i].job

(* The binding of a job is dropped with its end and with its generation: a  *)
(* finished job takes no place from a running one, and a late callback of a *)
(* disconnected controller finds nothing (retire_generation).               *)
BindingsAreLive ==
  \A i \in DOMAIN correlations :
    LET j == correlations[i].job IN
    /\ GenerationOf(j) \in active
    /\ view[j] \notin {"ended", "ended unstarted"}
    /\ \A k \in DOMAIN dispatcher.events :
         dispatcher.events[k].job = j => dispatcher.events[k].state = "starting"

(* Whoever hears the end of a job without its start, finds the start in a   *)
(* diagnostic: the order of a job's callbacks survives waiting for the      *)
(* binding (MAA_CALLBACK_NORMALIZATION.md, section 8).                      *)
AbsentStartIsAccounted ==
  \A j \in Jobs : view[j] # "ended unstarted"

(* Together: a callback becomes an event in order, or is counted.           *)
CallbacksAreAccounted == NothingIsLostSilently /\ AbsentStartIsAccounted

(* After a close that did not give up on the dispatcher the sink is not     *)
(* called any more: the service may take its queue down.                    *)
ClosedIsQuiet ==
  closing = "joined" => dispatcher.events = <<>> /\ DOMAIN dispatcher.taken = {}

(* Bindings, events and the sink belong to the jobs and the session that    *)
(* are there, across disconnecting, reconnecting and closing.               *)
HubIsConsistent == TypeOK /\ AttributedToItsJob /\ BindingsAreLive /\ ClosedIsQuiet

(* With a sink, what waits is brought to an end, matched or not.            *)
CallbacksLeave == (callbacks # <<>> /\ sink) ~> (callbacks = <<>> \/ ~sink)
=============================================================================
