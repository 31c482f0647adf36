----------------------------- MODULE RunEvents -----------------------------
(***************************************************************************)
(* The path of a graph run's requests, responses and events, in one        *)
(* generation of the sidecar: the interface (useGraphExecution,            *)
(* RuntimeProvider, RuntimeClient, the execution store), the supervisor    *)
(* and the dispatcher of the desktop host, and the threads of the sidecar  *)
(* that number, queue and write the messages.                              *)
(*                                                                         *)
(* The runtime application is its contract RunSlot, which the module       *)
(* RuntimeApplication implements. Answers to requests and events reach the *)
(* interface on two channels with no order between them.                   *)
(***************************************************************************)
EXTENDS Integers, Sequences, SequencesExt

CONSTANTS Runs,         \* attempts to run the graph, and the runs they start
          NoRun,
          Scenarios     \* bounds of the behaviours that are explored

ASSUME EventsAssumption ==
  /\ NoRun \notin Runs
  /\ Scenarios \subseteq
       [runs        : SUBSET Runs, \* attempts that are made
        cancellable : SUBSET Runs, \* the runs the user may cancel
        nodeEvents  : Nat,         \* node, edge and log events of one run
        callbacks   : Nat,         \* events of the Maa callback thread
        timeouts    : Nat]         \* requests the supervisor gives up on

VARIABLES
  \* the interface
  view,        \* the execution store: run, whether its runId is known, state,
               \* lastEventSequence
  locked,      \* executionLocked of the document store
  frame,       \* the pending events of RuntimeEventFrameBuffer
  applied,     \* highestAppliedSequence of RuntimeClient
  registered,  \* the run of PersistentVariableRunContext.active, or NoRun
  call,        \* per request: where the interface's call is
  outcome,     \* per request: how its latest call ended
  \* the desktop host
  timeouts,    \* requests given up so far
  highest,     \* highest_event_sequence of the dispatcher
  channel,     \* events forwarded and not yet handled by the interface
  stdin,       \* requests written and not yet handled by the sidecar
  \* the sidecar
  slot, asked, verdict, latest,  \* the runtime application, as RunSlot
  input,       \* what the input thread is doing
  worker,      \* per run: its worker thread
  nodeEvents,  \* per run: node events emitted so far
  callbacks,   \* events of the callback thread so far
  sequence,    \* _event_sequence
  inHand,      \* per emitting thread: its event, numbered and not yet queued
  stdout,      \* the writer's queue and the pipe
  bounds       \* bound: the scenario of this behaviour

slotVars   == <<slot, asked, verdict, latest>>
screenVars == <<view, locked, frame, applied, registered>>
callVars   == <<call, outcome, timeouts>>
hostVars   == <<highest, channel>>
emitVars   == <<sequence, inHand>>
threadVars == <<input, worker, nodeEvents, callbacks, bounds>>
vars == <<screenVars, callVars, hostVars, stdin, slotVars, threadVars, emitVars, stdout>>

Slot == INSTANCE RunSlot

Requests == Runs \X {"start", "cancel"}
Emitters == Runs \cup {"input", "device"}  \* worker threads and the two others
Terminal(state) == state \in {"succeeded", "failed", "cancelled"}

(* Mutant: a run that is being cancelled does not count.                   *)
ActiveUnlessCancelled(state) == state \in {"starting", "running"}

Active(state) == state \in {"starting", "running", "cancelling"}

EmptyView == [run |-> NoRun, bound |-> FALSE, state |-> "none", last |-> 0]
Resting   == [step |-> "reading", request |-> <<NoRun, "none">>, ok |-> FALSE, event |-> "none"]

Event(kind, r, state, n) == [kind |-> kind, run |-> r, state |-> state, seq |-> n]
Response(q, ok)          == [kind |-> "response", request |-> q, ok |-> ok]

Init ==
  /\ view = EmptyView
  /\ locked = FALSE
  /\ frame = <<>>
  /\ applied = 0
  /\ registered = NoRun
  /\ call = [q \in Requests |-> "idle"]
  /\ outcome = [q \in Requests |-> "none"]
  /\ timeouts = 0
  /\ highest = 0
  /\ channel = <<>>
  /\ stdin = <<>>
  /\ Slot!Init
  /\ input = Resting
  /\ worker = [r \in Runs |-> "none"]
  /\ nodeEvents = [r \in Runs |-> 0]
  /\ callbacks = 0
  /\ sequence = 0
  /\ inHand = [e \in Emitters |-> <<>>]
  /\ stdout = <<>>
  /\ bounds \in Scenarios

-----------------------------------------------------------------------------
(* The interface asks.                                                     *)

(* runGraph up to its first await: the document is locked before it is     *)
(* validated.                                                              *)
RunGraph(r) ==
  /\ r \in bounds.runs
  /\ ~Active(view.state)
  /\ call[<<r, "start">>] = "idle"
  /\ outcome[<<r, "start">>] = "none"
  /\ view' = [EmptyView EXCEPT !.run = r, !.state = "starting"]
  /\ locked' = TRUE
  /\ call' = [call EXCEPT ![<<r, "start">>] = "validating"]
  /\ UNCHANGED <<frame, applied, registered, outcome, timeouts, hostVars, stdin,
                 slotVars, threadVars, emitVars, stdout>>

(* failToStart, and the release of the document.                           *)
FailToStart == IF view.state = "starting"
               THEN view' = EmptyView /\ locked' = FALSE
               ELSE UNCHANGED <<view, locked>>

(* graph.validate returns: run.start follows, or the attempt ends.         *)
Validated(r) ==
  LET q == <<r, "start">> IN
  /\ call[q] = "validating"
  /\ \/ /\ call' = [call EXCEPT ![q] = "asked"]
        /\ UNCHANGED <<view, locked, outcome>>
     \/ /\ call' = [call EXCEPT ![q] = "idle"]
        /\ outcome' = [outcome EXCEPT ![q] = "refused"]
        /\ FailToStart
  /\ UNCHANGED <<frame, applied, registered, timeouts, hostVars, stdin,
                 slotVars, threadVars, emitVars, stdout>>

(* cancelRun. A call that timed out is not repeated (bound).               *)
CancelRun(r) ==
  LET q == <<r, "cancel">> IN
  /\ r \in bounds.cancellable
  /\ view.run = r /\ view.bound /\ Active(view.state)
  /\ call[q] = "idle" /\ outcome[q] # "timeout"
  /\ call' = [call EXCEPT ![q] = "asked"]
  /\ UNCHANGED <<screenVars, outcome, timeouts, hostVars, stdin, slotVars,
                 threadVars, emitVars, stdout>>

(* acceptRun and registerPersistentVariableRun, or failToStart.            *)
StartReturns(r) ==
  LET q == <<r, "start">> IN
  /\ call[q] = "answered"
  /\ call' = [call EXCEPT ![q] = "idle"]
  /\ IF outcome[q] = "accepted" /\ view.state = "starting"
     THEN /\ view' = [view EXCEPT !.bound = TRUE, !.state = "running"]
          /\ registered' = IF registered = NoRun THEN r ELSE registered
          /\ UNCHANGED locked
     ELSE FailToStart /\ UNCHANGED registered
  /\ UNCHANGED <<frame, applied, outcome, timeouts, hostVars, stdin, slotVars,
                 threadVars, emitVars, stdout>>

CancelReturns(r) ==
  /\ call[<<r, "cancel">>] = "answered"
  /\ call' = [call EXCEPT ![<<r, "cancel">>] = "idle"]
  /\ UNCHANGED <<screenVars, outcome, timeouts, hostVars, stdin, slotVars,
                 threadVars, emitVars, stdout>>

-----------------------------------------------------------------------------
(* The supervisor: one request at a time.                                  *)

Send(q) ==
  /\ call[q] = "asked"
  /\ \A p \in Requests : call[p] # "sent"
  /\ call' = [call EXCEPT ![q] = "sent"]
  /\ stdin' = Append(stdin, q)
  /\ UNCHANGED <<screenVars, outcome, timeouts, hostVars, slotVars, threadVars,
                 emitVars, stdout>>

(* wait_for gives up; the request stays with the sidecar.                  *)
TimeOut(q) ==
  /\ call[q] = "sent"
  /\ timeouts < bounds.timeouts
  /\ call' = [call EXCEPT ![q] = "answered"]
  /\ outcome' = [outcome EXCEPT ![q] = "timeout"]
  /\ timeouts' = timeouts + 1
  /\ UNCHANGED <<screenVars, hostVars, stdin, slotVars, threadVars, emitVars, stdout>>

-----------------------------------------------------------------------------
(* The sidecar.                                                            *)

(* _event: the number is taken under _event_lock; the event is queued      *)
(* later, by the same thread.                                              *)
Number(e, kind, r, state) ==
  /\ inHand[e] = <<>>
  /\ sequence' = sequence + 1
  /\ inHand' = [inHand EXCEPT ![e] = <<Event(kind, r, state, sequence + 1)>>]

Accepts(r) == slot = NoRun /\ Slot!Fresh(r)

(* prepare_run. Refused while a run is active.                             *)
HandleStart(r) ==
  LET q == <<r, "start">> IN
  IF Accepts(r)
  THEN /\ Slot!Reserve(r)
       /\ input' = [step |-> "numbering", request |-> q, ok |-> TRUE, event |-> "running"]
  ELSE /\ input' = [step |-> "queueing", request |-> q, ok |-> FALSE, event |-> "none"]
       /\ UNCHANGED slotVars

(* prepare_cancellation: the first request for the active run has an event *)
(* and a signal; the run that ended last is answered too.                  *)
HandleCancel(r) ==
  LET q == <<r, "cancel">> IN
  IF slot = r
  THEN /\ Slot!Ask(r)
       /\ input' = IF r \in asked
                   THEN [step |-> "queueing", request |-> q, ok |-> TRUE, event |-> "none"]
                   ELSE [step |-> "numbering", request |-> q, ok |-> TRUE, event |-> "cancelling"]
  ELSE /\ input' = [step |-> "queueing", request |-> q, ok |-> latest = r, event |-> "none"]
       /\ UNCHANGED slotVars

HandleRequest ==
  /\ input.step = "reading"
  /\ stdin # <<>>
  /\ LET q == Head(stdin) IN IF q[2] = "start" THEN HandleStart(q[1]) ELSE HandleCancel(q[1])
  /\ stdin' = Tail(stdin)
  /\ UNCHANGED <<screenVars, callVars, hostVars, worker, nodeEvents, callbacks,
                 emitVars, stdout, bounds>>

(* The running or cancelling event is built, outside the lock.             *)
NumberState ==
  /\ input.step = "numbering"
  /\ Number("input", "state", input.request[1], input.event)
  /\ input' = [input EXCEPT !.step = "queueing"]
  /\ UNCHANGED <<screenVars, callVars, hostVars, stdin, slotVars, worker,
                 nodeEvents, callbacks, stdout, bounds>>

(* _serve_input queues the response, then the event.                       *)
QueueAnswer ==
  /\ input.step = "queueing"
  /\ stdout' = Append(stdout, Response(input.request, input.ok)) \o inHand["input"]
  /\ inHand' = [inHand EXCEPT !["input"] = <<>>]
  /\ input' = [input EXCEPT !.step = "notifying"]
  /\ UNCHANGED <<screenVars, callVars, hostVars, stdin, slotVars, worker,
                 nodeEvents, callbacks, sequence, bounds>>

(* notify_messages_queued: the worker is launched, or signalled.           *)
Notify ==
  /\ input.step = "notifying"
  /\ worker' = IF input.event = "running"
               THEN [worker EXCEPT ![input.request[1]] = "running"] ELSE worker
  /\ input' = Resting
  /\ UNCHANGED <<screenVars, callVars, hostVars, stdin, slotVars, nodeEvents,
                 callbacks, emitVars, stdout, bounds>>

NodeEvent(r) ==
  /\ worker[r] = "running"
  /\ nodeEvents[r] < bounds.nodeEvents
  /\ nodeEvents' = [nodeEvents EXCEPT ![r] = @ + 1]
  /\ Number(r, "node", r, "none")
  /\ UNCHANGED <<screenVars, callVars, hostVars, stdin, slotVars, input, worker,
                 callbacks, stdout, bounds>>

(* _record_completion: the slot is released before the event is built.     *)
Complete(r, v) ==
  /\ worker[r] = "running"
  /\ inHand[r] = <<>>
  /\ Slot!Finish(r, v)
  /\ worker' = [worker EXCEPT ![r] = "recorded"]
  /\ UNCHANGED <<screenVars, callVars, hostVars, stdin, input, nodeEvents,
                 callbacks, emitVars, stdout, bounds>>

NumberTerminal(r) ==
  /\ worker[r] = "recorded"
  /\ Number(r, "state", r, verdict[r])
  /\ worker' = [worker EXCEPT ![r] = "done"]
  /\ UNCHANGED <<screenVars, callVars, hostVars, stdin, slotVars, input,
                 nodeEvents, callbacks, stdout, bounds>>

(* An automation event: it has a sequence number and no view.              *)
Callback ==
  /\ callbacks < bounds.callbacks
  /\ callbacks' = callbacks + 1
  /\ Number("device", "callback", NoRun, "none")
  /\ UNCHANGED <<screenVars, callVars, hostVars, stdin, slotVars, input, worker,
                 nodeEvents, stdout, bounds>>

(* The sink of the service: the event joins the writer's queue.            *)
QueueEvent(e) ==
  /\ e # "input"
  /\ inHand[e] # <<>>
  /\ stdout' = stdout \o inHand[e]
  /\ inHand' = [inHand EXCEPT ![e] = <<>>]
  /\ UNCHANGED <<screenVars, callVars, hostVars, stdin, slotVars, threadVars, sequence>>

-----------------------------------------------------------------------------
(* The dispatcher. A response nobody waits for stays in the mailbox.       *)
DispatchResponse ==
  /\ stdout # <<>> /\ Head(stdout).kind = "response"
  /\ LET q == Head(stdout).request IN
     IF call[q] = "sent"
     THEN /\ call' = [call EXCEPT ![q] = "answered"]
          /\ outcome' = [outcome EXCEPT ![q] = IF Head(stdout).ok THEN "accepted" ELSE "refused"]
     ELSE UNCHANGED <<call, outcome>>
  /\ stdout' = Tail(stdout)
  /\ UNCHANGED <<screenVars, timeouts, hostVars, stdin, slotVars, threadVars, emitVars>>

(* forward_event drops what does not advance the sequence.                 *)
DispatchEvent ==
  /\ stdout # <<>> /\ Head(stdout).kind # "response"
  /\ LET e == Head(stdout) IN
     IF e.seq > highest
     THEN highest' = e.seq /\ channel' = Append(channel, e)
     ELSE UNCHANGED hostVars
  /\ stdout' = Tail(stdout)
  /\ UNCHANGED <<screenVars, callVars, stdin, slotVars, threadVars, emitVars>>

-----------------------------------------------------------------------------
(* The interface hears.                                                    *)

(* Mutant: the run of the event is not compared.                           *)
BelongsToAny(v, e) == v.bound /\ e.seq > v.last

BelongsToRun(v, e) == v.bound /\ e.run = v.run /\ e.seq > v.last

(* applyEventToProjection.                                                 *)
Applied(v, e) ==
  IF ~BelongsToRun(v, e) THEN v
  ELSE [v EXCEPT !.last = e.seq, !.state = IF e.kind = "state" THEN e.state ELSE @]

Projected(events) == FoldLeft(Applied, view, events)

(* Mutant: only a success is taken for an end.                              *)
IsSuccess(e) == e.kind = "state" /\ e.state = "succeeded"

IsTerminal(e) == e.kind = "state" /\ Terminal(e.state)

(* The registration after the terminal event e.                            *)
Consumed(e) == IF registered = e.run THEN NoRun ELSE registered

(* Mutant: the terminal event overtakes the pending ones.                  *)
FlushAhead(e) == view' = Projected(<<e>>) /\ UNCHANGED frame

Flush(e) == view' = Projected(Append(frame, e)) /\ frame' = <<>>

(* onEvent: terminal events flush the frame, release the document and      *)
(* consume the registration, whichever run they are of.                    *)
HearEvent ==
  /\ channel # <<>>
  /\ channel' = Tail(channel)
  /\ LET e == Head(channel) IN
     CASE e.seq <= applied \* refused by RuntimeClient
            -> UNCHANGED screenVars
       [] e.seq > applied /\ IsTerminal(e)
            -> /\ applied' = e.seq
               /\ Flush(e)
               /\ locked' = FALSE
               /\ registered' = Consumed(e)
       [] OTHER
            -> /\ applied' = e.seq
               /\ frame' = IF e.kind = "callback" THEN frame ELSE Append(frame, e)
               /\ UNCHANGED <<view, locked, registered>>
  /\ UNCHANGED <<callVars, highest, stdin, slotVars, threadVars, emitVars, stdout>>

(* An animation frame commits what is pending.                             *)
CommitFrame ==
  /\ frame # <<>>
  /\ view' = Projected(frame)
  /\ frame' = <<>>
  /\ UNCHANGED <<locked, applied, registered, callVars, hostVars, stdin, slotVars,
                 threadVars, emitVars, stdout>>

-----------------------------------------------------------------------------
User == \E r \in Runs : RunGraph(r) \/ CancelRun(r)

Interface == \/ \E r \in Runs : Validated(r) \/ StartReturns(r) \/ CancelReturns(r)
             \/ HearEvent
             \/ CommitFrame

InputThread == HandleRequest \/ NumberState \/ QueueAnswer \/ Notify

WorkerThread(r) == \/ NodeEvent(r)
                   \/ \E v \in Slot!Verdicts : Complete(r, v)
                   \/ NumberTerminal(r)

Dispatcher == DispatchResponse \/ DispatchEvent

Next == \/ User
        \/ Interface
        \/ \E q \in Requests : Send(q) \/ TimeOut(q)
        \/ InputThread
        \/ \E r \in Runs : WorkerThread(r)
        \/ Callback
        \/ \E e \in Emitters : QueueEvent(e)
        \/ Dispatcher

Spec == Init /\ [][Next]_vars

(* Threads that can go on do; a graph ends by its time limit; the event    *)
(* loop of the interface takes its tasks in turn.                          *)
Fairness ==
  /\ \A r \in Runs : /\ WF_vars(Validated(r)) /\ WF_vars(StartReturns(r))
                     /\ WF_vars(CancelReturns(r)) /\ WF_vars(WorkerThread(r))
  /\ WF_vars(HearEvent) /\ WF_vars(CommitFrame)
  /\ \A q \in Requests : WF_vars(Send(q))
  /\ WF_vars(InputThread) /\ WF_vars(Dispatcher)
  /\ \A e \in Emitters : WF_vars(QueueEvent(e))

FairSpec == Spec /\ Fairness

-----------------------------------------------------------------------------
Events == [kind : {"state", "node", "callback"}, run : Runs \cup {NoRun},
           state : {"none", "running", "cancelling"} \cup Slot!Verdicts,
           seq : 1 .. sequence]
Responses == [kind : {"response"}, request : Requests, ok : BOOLEAN]

TypeOK ==
  /\ view.run \in Runs \cup {NoRun} /\ view.bound \in BOOLEAN
  /\ Active(view.state) \/ Terminal(view.state) \/ view = EmptyView
  /\ view.last \in 0 .. applied
  /\ locked \in BOOLEAN
  /\ registered \in Runs \cup {NoRun}
  /\ call \in [Requests -> {"idle", "validating", "asked", "sent", "answered"}]
  /\ outcome \in [Requests -> {"none", "accepted", "refused", "timeout"}]
  /\ 0 <= applied /\ applied <= highest /\ highest <= sequence
  /\ frame \in Seq(Events) /\ channel \in Seq(Events)
  /\ stdout \in Seq(Events \cup Responses)
  /\ stdin \in Seq(Requests)
  /\ worker \in [Runs -> {"none", "running", "recorded", "done"}]
  /\ inHand \in [Emitters -> {<<>>} \cup {<<e>> : e \in Events}]
  /\ timeouts \in 0 .. bounds.timeouts /\ callbacks \in 0 .. bounds.callbacks
  /\ bounds \in Scenarios

StartTimedOut == \E r \in Runs : outcome[<<r, "start">>] = "timeout"

(* While the runtime has a run, the document it was started from cannot be *)
(* edited, unless the interface gave up on a run.start: no event of an     *)
(* earlier run, refusal or failure unlocks it.                             *)
LockedWhileRunning == slot # NoRun /\ ~StartTimedOut => locked

(* The interface never offers to run a graph that the runtime would refuse *)
(* as a second one (RUN_ALREADY_ACTIVE), unless it gave up on a run.start. *)
RefusedOnlyAfterTimeout ==
  input.request[2] = "start" /\ input.step = "queueing" /\ ~input.ok => StartTimedOut

(* A run that is shown as ended has handed in its persistent variables,    *)
(* and the registration of the next one is never refused.                  *)
EndedRunIsConsumed == Terminal(view.state) \/ view.state = "starting" => registered = NoRun

(* What the interface shows, locks, offers and registers agrees with the    *)
(* run the runtime has, across requests, answers and events of two runs.    *)
ViewAgrees == TypeOK /\ LockedWhileRunning /\ RefusedOnlyAfterTimeout /\ EndedRunIsConsumed

(* The end that is shown is the verdict of the run that is shown, also     *)
(* when events of a run that was given up are still under way.             *)
ShownEndIsTrue == Terminal(view.state) => view.state = verdict[view.run]

(* A run is shown as ended after everything its graph did: no node event   *)
(* of it is pending in the frame or still on its way.                      *)
EndComesLast ==
  Terminal(view.state) =>
    \A e \in ToSet(frame \o channel) : e.run = view.run => e.kind # "node"

(* The document is released after every run the user does not cancel, if    *)
(* no event of the callback thread is numbered meanwhile: numbers and the   *)
(* order of queueing belong to two locks, and the dispatcher drops an event *)
(* that a later number has overtaken, the terminal one included.            *)
UncancelledRunUnlocks ==
  (locked /\ view.run \notin bounds.cancellable) ~> (~locked \/ callbacks > 0)
=============================================================================
