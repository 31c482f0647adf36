------------------------- MODULE RuntimeApplication -------------------------
(***************************************************************************)
(* The graph-run lifecycle of the Python runtime: RuntimeApplication in    *)
(* services/runtime/src/rino_runtime/application/controller.py, called by  *)
(* the one input thread of the sidecar (ipc/transport.py, service.py) and  *)
(* by one worker thread per launched run.                                  *)
(*                                                                         *)
(* An action is a critical section of RuntimeApplication._lock, or one     *)
(* step between two of them that another thread can tell apart.            *)
(***************************************************************************)
CONSTANTS Runs,   \* the run identifiers that uuid4 can hand out
          NoRun   \* Python's None where a run is expected

ASSUME NoRunAssumption == NoRun \notin Runs

VARIABLES
  active,           \* _active: the run the application owns, or NoRun
  lastCompleted,    \* _last_completed: a run and its status
  closing,          \* _closing
  cancelRequested,  \* _ActiveRun.cancel_requested
  loop,             \* _ActiveRun.loop: unset, or the state of the event loop
  scope,            \* _ActiveRun.cancellation: has the scope been cancelled
  posted,           \* a cancel callback waits in the loop's ready queue
  worker,           \* where the run's own thread is
  sawCancel,        \* the worker's local cancel_requested
  outcome,          \* the status the worker is about to record
  terminal,         \* the state of the terminal event the sink accepted
  stage,            \* how far StdioTransport.serve has come
  at,               \* where the input thread is inside the stage
  target,           \* the run the input thread's callback was built for
  closeResult       \* what the latest RuntimeApplication.close returned

appVars  == <<active, lastCompleted, closing>>
runVars  == <<cancelRequested, loop, scope, posted, worker, sawCancel,
              outcome, terminal>>
mainVars == <<stage, at, target, closeResult>>
vars     == <<active, lastCompleted, closing, cancelRequested, loop, scope,
              posted, worker, sawCancel, outcome, terminal, stage, at, target,
              closeResult>>

Statuses == {"succeeded", "failed", "cancelled"}

(* unset: not published; idle: not running yet, or between its two         *)
(* run_until_complete calls; running; closed.                              *)
LoopStates == {"unset", "idle", "running", "closed"}

(* unused: the identifier has not been handed out; reserved: prepared, no  *)
(* thread; started .. draining: the thread is alive, refused if its first  *)
(* cancellation check fails and executing if it passes; ended: it is dead; *)
(* released: closed before it was launched.                                *)
Alive        == {"started", "entered", "refused", "executing", "returned",
                 "recorded", "emitted", "draining"}
WorkerStates == Alive \cup {"unused", "reserved", "ended", "released"}

(* From publishing its loop to recording its completion a worker may be    *)
(* executing nodes of the graph.                                           *)
Executing(r) == worker[r] \in {"entered", "refused", "executing", "returned"}

Stages      == {"serving", "shutdown", "final", "exited"}
MainStates  == {"idle", "interact", "launch", "signal", "check", "post",
                "close", "join", "return", "leave"}

Init ==
  /\ active = NoRun
  /\ lastCompleted = [run |-> NoRun, status |-> "none"]
  /\ closing = FALSE
  /\ cancelRequested = [r \in Runs |-> FALSE]
  /\ loop = [r \in Runs |-> "unset"]
  /\ scope = [r \in Runs |-> FALSE]
  /\ posted = [r \in Runs |-> FALSE]
  /\ worker = [r \in Runs |-> "unused"]
  /\ sawCancel = [r \in Runs |-> FALSE]
  /\ outcome = [r \in Runs |-> "none"]
  /\ terminal = [r \in Runs |-> "none"]
  /\ stage = "serving"
  /\ at = "idle"
  /\ target = NoRun
  /\ closeResult = "unknown"

-----------------------------------------------------------------------------
(* The input thread: one request at a time, its callbacks after it.        *)

Serving(pc) == stage = "serving" /\ at = pc

(* Identifiers of runs are fresh and nothing else; their order is of no    *)
(* consequence, and taking them in a fixed one spares TLC the others.      *)
FreshRun == CHOOSE r \in Runs : worker[r] = "unused"

ReserveSlot(r) ==
  /\ Serving("idle")
  /\ worker[r] = "unused" /\ r = FreshRun
  /\ active' = r
  /\ worker' = [worker EXCEPT ![r] = "reserved"]
  /\ at' = "launch"
  /\ target' = r
  /\ UNCHANGED <<lastCompleted, closing, cancelRequested, loop, scope, posted,
                 sawCancel, outcome, terminal, stage, closeResult>>

(* run.start: prepare_run under the lock reserves the only slot. A refused *)
(* request (closing, or a run already active) changes nothing.             *)
PrepareRun(r) == ~closing /\ active = NoRun /\ ReserveSlot(r)

(* Mutant: the callback that launches the run is dropped.                  *)
LaunchDropped ==
  /\ Serving("launch")
  /\ at' = "idle"
  /\ target' = NoRun
  /\ UNCHANGED <<appVars, runVars, stage, closeResult>>

(* The launch callback, after the response and the running event.          *)
Launch ==
  /\ Serving("launch")
  /\ at' = "idle"
  /\ target' = NoRun
  /\ worker' = IF active = target /\ worker[target] = "reserved"
               THEN [worker EXCEPT ![target] = "started"]
               ELSE worker
  /\ UNCHANGED <<appVars, cancelRequested, loop, scope, posted, sawCancel,
                 outcome, terminal, stage, closeResult>>

RequestCancel(r) ==
  /\ Serving("idle")
  /\ cancelRequested' = [cancelRequested EXCEPT ![r] = TRUE]
  /\ IF cancelRequested[r] THEN UNCHANGED <<at, target>>
     ELSE at' = "signal" /\ target' = r
  /\ UNCHANGED <<appVars, loop, scope, posted, worker, sawCancel, outcome,
                 terminal, stage, closeResult>>

(* Mutant: prepare_cancellation does not compare the run identifier.       *)
CancelUnchecked(r) == active # NoRun /\ RequestCancel(r)

(* run.cancel of the active run. Only the first request carries a signal;  *)
(* a cancel of any other run changes nothing in the application.           *)
PrepareCancellation(r) == active = r /\ RequestCancel(r)

(* _signal is called as the callback of run.cancel and inside close.       *)
SignalDone == IF stage = "serving"
              THEN at' = "idle" /\ target' = NoRun
              ELSE at' = "join" /\ UNCHANGED target

SignalRead ==
  /\ at = "signal"
  /\ IF active = target /\ loop[target] # "unset"
     THEN at' = "check" /\ UNCHANGED target
     ELSE SignalDone
  /\ UNCHANGED <<appVars, runVars, stage, closeResult>>

(* loop.is_running(), read without the lock.                               *)
SignalCheck ==
  /\ at = "check"
  /\ IF loop[target] = "running"
     THEN at' = "post" /\ UNCHANGED target
     ELSE SignalDone
  /\ UNCHANGED <<appVars, runVars, stage, closeResult>>

(* An exception in the input thread: serve's finally closes the service;   *)
(* a second one, inside that finally, ends the process.                    *)
Raise == /\ stage' = IF stage = "final" THEN "exited" ELSE "final"
         /\ at' = IF stage = "final" THEN "leave" ELSE "close"
         /\ target' = NoRun

(* loop.call_soon_threadsafe raises once the worker has closed the loop.   *)
SignalPost ==
  /\ at = "post"
  /\ IF loop[target] = "closed"
     THEN Raise /\ UNCHANGED posted
     ELSE /\ posted' = [posted EXCEPT ![target] = TRUE]
          /\ SignalDone
          /\ UNCHANGED stage
  /\ UNCHANGED <<appVars, cancelRequested, loop, scope, worker, sawCancel,
                 outcome, terminal, closeResult>>

(* Mutant: device.interact without the is_run_active check.                *)
InteractUnchecked ==
  /\ Serving("idle")
  /\ at' = "interact"
  /\ UNCHANGED <<appVars, runVars, stage, target, closeResult>>

(* device.interact: refused while a run is active, then a device operation *)
(* that keeps the input thread busy.                                       *)
InteractBegin ==
  /\ Serving("idle")
  /\ active = NoRun
  /\ at' = "interact"
  /\ UNCHANGED <<appVars, runVars, stage, target, closeResult>>

InteractEnd ==
  /\ Serving("interact")
  /\ at' = "idle"
  /\ UNCHANGED <<appVars, runVars, stage, target, closeResult>>

(* system.shutdown closes the service as its callback, then stops serving. *)
Shutdown ==
  /\ Serving("idle")
  /\ stage' = "shutdown"
  /\ at' = "close"
  /\ UNCHANGED <<appVars, runVars, target, closeResult>>

(* End of input, or a framing failure: serve leaves its loop.              *)
InputEnds ==
  /\ Serving("idle")
  /\ stage' = "final"
  /\ at' = "close"
  /\ UNCHANGED <<appVars, runVars, target, closeResult>>

(* A termination signal raises SystemExit wherever the input thread is; a  *)
(* failed writer makes its next enqueue raise OSError.                     *)
Terminate ==
  /\ stage # "exited"
  /\ Raise
  /\ UNCHANGED <<appVars, runVars, closeResult>>

(* RuntimeApplication.close, up to the end of its first critical section.  *)
CloseBegin ==
  /\ at = "close"
  /\ closing' = TRUE
  /\ IF active = NoRun
     THEN /\ at' = "return"
          /\ UNCHANGED <<active, cancelRequested, worker, target>>
     ELSE /\ cancelRequested' = [cancelRequested EXCEPT ![active] = TRUE]
          /\ target' = active
          /\ IF worker[active] = "reserved"
             THEN /\ active' = NoRun
                  /\ worker' = [worker EXCEPT ![active] = "released"]
                  /\ at' = "return"
             ELSE at' = "signal" /\ UNCHANGED <<active, worker>>
  /\ UNCHANGED <<lastCompleted, loop, scope, posted, sawCancel, outcome,
                 terminal, stage, closeResult>>

(* thread.join returns when the worker has ended, or after five seconds.   *)
JoinWorker ==
  /\ at = "join"
  /\ worker[target] \notin Alive
  /\ at' = "return"
  /\ UNCHANGED <<appVars, runVars, stage, target, closeResult>>

(* Mutant: thread.join without its timeout.                                *)
JoinForever == at = "joined" /\ UNCHANGED vars

JoinTimeout ==
  /\ at = "join"
  /\ worker[target] \in Alive
  /\ at' = "return"
  /\ UNCHANGED <<appVars, runVars, stage, target, closeResult>>

(* Mutant: close trusts its join instead of asking the thread.             *)
TrustingAnswer == "closed"

(* What the second critical section of close answers.                      *)
CloseAnswer ==
  IF active = NoRun \/ worker[active] \notin Alive THEN "closed" ELSE "stuck"

(* The close of a shutdown request is followed by that of serve's finally. *)
CloseReturn ==
  /\ at = "return"
  /\ closeResult' = CloseAnswer
  /\ IF stage = "shutdown"
     THEN stage' = "final" /\ at' = "close"
     ELSE at' = "leave" /\ UNCHANGED stage
  /\ target' = NoRun
  /\ UNCHANGED <<appVars, runVars>>

(* The interpreter exits; daemon threads die with it.                      *)
Leave ==
  /\ at = "leave"
  /\ stage = "final"
  /\ stage' = "exited"
  /\ UNCHANGED <<appVars, runVars, at, target, closeResult>>

-----------------------------------------------------------------------------
(* The worker thread of one run: _run_worker.                              *)

WorkerAt(r, pc) == stage # "exited" /\ worker[r] = pc

(* Mutant: a cancellation requested before the worker got here is read and *)
(* forgotten.                                                              *)
ForgottenScope(r) == FALSE

(* cancel_requested is honoured before the loop runs.                      *)
InitialScope(r) == cancelRequested[r]

(* The first critical section: publish the loop and the scope, and read    *)
(* cancel_requested.                                                       *)
WorkerEnter(r) ==
  /\ WorkerAt(r, "started")
  /\ IF active = r
     THEN /\ worker' = [worker EXCEPT ![r] = "entered"]
          /\ loop' = [loop EXCEPT ![r] = "idle"]
          /\ sawCancel' = [sawCancel EXCEPT ![r] = cancelRequested[r]]
          /\ scope' = [scope EXCEPT ![r] = InitialScope(r)]
     ELSE /\ worker' = [worker EXCEPT ![r] = "ended"]
          /\ UNCHANGED <<loop, sawCancel, scope>>
  /\ UNCHANGED <<appVars, mainVars, cancelRequested, posted, outcome, terminal>>

(* loop.run_until_complete starts the loop; GraphScheduler.run checks the  *)
(* scope before it dispatches the first node.                              *)
RunGraph(r) ==
  /\ WorkerAt(r, "entered")
  /\ worker' = [worker EXCEPT ![r] = IF scope[r] THEN "refused" ELSE "executing"]
  /\ loop' = [loop EXCEPT ![r] = "running"]
  /\ UNCHANGED <<appVars, mainVars, cancelRequested, scope, posted, sawCancel,
                 outcome, terminal>>

(* The loop runs the callback that call_soon_threadsafe queued.            *)
CancelCallback(r) ==
  /\ stage # "exited"
  /\ posted[r]
  /\ loop[r] = "running"
  /\ posted' = [posted EXCEPT ![r] = FALSE]
  /\ scope' = [scope EXCEPT ![r] = TRUE]
  /\ UNCHANGED <<appVars, mainVars, cancelRequested, loop, worker, sawCancel,
                 outcome, terminal>>

(* The statuses GraphScheduler.run can return: cancelled only from a check *)
(* of a cancelled scope, and a cancellation after the last check is too    *)
(* late. An exception counts as failed.                                    *)
StatusesOf(r) == CASE worker[r] = "refused" -> {"cancelled", "failed"}
                   [] worker[r] = "executing" /\ scope[r] -> Statuses
                   [] OTHER -> {"succeeded", "failed"}

GraphReturns(r) ==
  /\ WorkerAt(r, "refused") \/ WorkerAt(r, "executing")
  /\ \E status \in StatusesOf(r) : outcome' = [outcome EXCEPT ![r] = status]
  /\ worker' = [worker EXCEPT ![r] = "returned"]
  /\ loop' = [loop EXCEPT ![r] = "idle"]
  /\ UNCHANGED <<appVars, mainVars, cancelRequested, scope, posted, sawCancel,
                 terminal>>

(* Mutant: the completion is recorded before the values are encoded.       *)
RecordBeforeEncoding(r) ==
  /\ WorkerAt(r, "returned")
  /\ \E status \in {outcome[r], "failed"} :
       outcome' = [outcome EXCEPT ![r] = status]
  /\ lastCompleted' = [run |-> r, status |-> outcome[r]]
  /\ active' = NoRun
  /\ worker' = [worker EXCEPT ![r] = "recorded"]
  /\ UNCHANGED <<closing, mainVars, cancelRequested, loop, scope, posted,
                 sawCancel, terminal>>

(* _complete and _complete_with_internal_failure up to _record_completion; *)
(* persistent values that cannot be encoded turn any status into failed.   *)
RecordCompletion(r) ==
  /\ WorkerAt(r, "returned")
  /\ \E status \in {outcome[r], "failed"} :
       /\ outcome' = [outcome EXCEPT ![r] = status]
       /\ IF active = r
          THEN /\ lastCompleted' = [run |-> r, status |-> status]
               /\ active' = NoRun
          ELSE UNCHANGED <<lastCompleted, active>>
  /\ worker' = [worker EXCEPT ![r] = "recorded"]
  /\ UNCHANGED <<closing, mainVars, cancelRequested, loop, scope, posted,
                 sawCancel, terminal>>

(* The terminal event is handed to the sink, which may raise: the writer   *)
(* queue is full or its thread has failed.                                 *)
EmitTerminal(r) ==
  /\ WorkerAt(r, "recorded")
  /\ worker' = [worker EXCEPT ![r] = "emitted"]
  /\ \/ terminal' = [terminal EXCEPT ![r] = outcome[r]]
     \/ UNCHANGED terminal
  /\ UNCHANGED <<appVars, mainVars, cancelRequested, loop, scope, posted,
                 sawCancel, outcome>>

(* The finally clause: the loop runs once more, for shutdown_asyncgens.    *)
DrainLoop(r) ==
  /\ WorkerAt(r, "emitted")
  /\ worker' = [worker EXCEPT ![r] = "draining"]
  /\ loop' = [loop EXCEPT ![r] = "running"]
  /\ UNCHANGED <<appVars, mainVars, cancelRequested, scope, posted, sawCancel,
                 outcome, terminal>>

CloseLoop(r) ==
  /\ WorkerAt(r, "draining")
  /\ worker' = [worker EXCEPT ![r] = "ended"]
  /\ loop' = [loop EXCEPT ![r] = "closed"]
  /\ UNCHANGED <<appVars, mainVars, cancelRequested, scope, posted, sawCancel,
                 outcome, terminal>>

-----------------------------------------------------------------------------
Exited == stage = "exited" /\ UNCHANGED vars

Signalling == SignalRead \/ SignalCheck \/ SignalPost
Closing    == CloseBegin \/ JoinWorker \/ JoinTimeout \/ CloseReturn \/ Leave

Main ==
  \/ \E r \in Runs : PrepareRun(r) \/ PrepareCancellation(r)
  \/ Launch \/ Signalling \/ InteractBegin \/ InteractEnd
  \/ Shutdown \/ InputEnds \/ Terminate \/ Closing

Worker(r) ==
  \/ WorkerEnter(r) \/ RunGraph(r) \/ CancelCallback(r) \/ GraphReturns(r)
  \/ RecordCompletion(r) \/ EmitTerminal(r) \/ DrainLoop(r) \/ CloseLoop(r)

Next == Main \/ (\E r \in Runs : Worker(r)) \/ Exited

Spec == Init /\ [][Next]_vars

(* Threads that are runnable are scheduled. Nothing makes the desktop send *)
(* a request, a signal arrive, or a graph end by itself before its time    *)
(* limit: a graph that observes its cancelled scope returns.               *)
MainFairness == /\ WF_vars(Launch)
                /\ WF_vars(Signalling)
                /\ WF_vars(InteractEnd)
                /\ WF_vars(Closing)

WorkerFairness(r) ==
  /\ WF_vars(WorkerEnter(r) \/ RunGraph(r) \/ RecordCompletion(r)
             \/ EmitTerminal(r) \/ DrainLoop(r) \/ CloseLoop(r))
  /\ WF_vars(CancelCallback(r))
  /\ WF_vars(scope[r] /\ GraphReturns(r))

FairSpec == Spec /\ MainFairness /\ \A r \in Runs : WorkerFairness(r)

(* asyncio.timeout ends every graph by the time limit of its run.          *)
GraphsEnd == \A r \in Runs : WF_vars(GraphReturns(r))

-----------------------------------------------------------------------------
TypeOK ==
  /\ active \in Runs \cup {NoRun}
  /\ lastCompleted \in [run : Runs \cup {NoRun}, status : Statuses \cup {"none"}]
  /\ closing \in BOOLEAN
  /\ cancelRequested \in [Runs -> BOOLEAN]
  /\ loop \in [Runs -> LoopStates]
  /\ scope \in [Runs -> BOOLEAN]
  /\ posted \in [Runs -> BOOLEAN]
  /\ worker \in [Runs -> WorkerStates]
  /\ sawCancel \in [Runs -> BOOLEAN]
  /\ outcome \in [Runs -> Statuses \cup {"none"}]
  /\ terminal \in [Runs -> Statuses \cup {"none"}]
  /\ stage \in Stages
  /\ at \in MainStates
  /\ target \in Runs \cup {NoRun}
  /\ closeResult \in {"unknown", "closed", "stuck"}

(* The device of a run is never driven by hand: is_run_active, read once   *)
(* before a device.interact, still describes every worker while the        *)
(* interaction is in progress, although a worker outlives its run in the   *)
(* application (it emits and drains after it has cleared _active).         *)
DirectControlExcludesRuns == at = "interact" => \A r \in Runs : ~Executing(r)

(* A worker that may be executing its graph owns the active slot, so that  *)
(* two graphs never execute at once even while an earlier worker thread is *)
(* still on its way out.                                                   *)
OneGraphAtATime == \A r \in Runs : Executing(r) => active = r

(* Whoever drives a device, a graph or a hand, is alone with it.           *)
DriversAreExclusive == DirectControlExcludesRuns /\ OneGraphAtATime

(* close answers TRUE, the condition of a clean exit code, only when no    *)
(* graph executes any more nor ever will, whichever of its two calls,      *)
(* timeouts and signals came first.                                        *)
CleanCloseIsQuiet ==
  closeResult = "closed" => active = NoRun /\ \A r \in Runs : ~Executing(r)

(* A run ends as cancelled only when a cancellation of that run, or the    *)
(* closing of the application, asked for it; and a cancellation that its   *)
(* worker read before starting the loop is never lost to a success.        *)
CancellationIsHonest ==
  \A r \in Runs : /\ terminal[r] = "cancelled" => cancelRequested[r]
                  /\ sawCancel[r] => terminal[r] # "succeeded"

(* What a late run.cancel is told about the latest completed run is what   *)
(* its terminal event says.                                                *)
LateCancelAgreesWithEvent ==
  lastCompleted.run # NoRun =>
    terminal[lastCompleted.run] \in {"none", lastCompleted.status}

(* The slot never stays taken: if graphs end, the application can accept   *)
(* another run whatever happened to the last one, or the process exits.    *)
SlotIsFreed ==
  GraphsEnd => ((active # NoRun) ~> (active = NoRun \/ stage = "exited"))

(* A cancellation that reached the running loop, or that the worker read   *)
(* before starting it, ends the run without waiting for its time limit.    *)
DeliveredCancelEndsRun ==
  \A r \in Runs :
    (posted[r] \/ sawCancel[r]) ~> (worker[r] = "ended" \/ stage = "exited")

(* Every close returns: a shutdown, the end of the input or a signal leads *)
(* to the end of the process, with a live worker or without.               *)
StoppingEnds == (stage # "serving") ~> (stage = "exited")

(* docs/development/RUNTIME_IPC_METHODS.md, 33 to 38: the signal of the     *)
(* first run.cancel is delivered once its response and its event have been *)
(* queued. When the input thread is back at its next request, a graph that *)
(* executes has read the cancellation, has been cancelled or will be.      *)
CancelIsDelivered ==
  Serving("idle") =>
    \A r \in Runs : cancelRequested[r] /\ worker[r] \in {"entered", "executing"}
                      => sawCancel[r] \/ posted[r] \/ scope[r]

(* The single-slot contract, carried out by the lock and the threads.      *)
Verdict(r) == IF worker[r] = "released" THEN "gone"
              ELSE IF worker[r] \in {"recorded", "emitted", "draining", "ended"}
              THEN outcome[r] ELSE "none"

Slot == INSTANCE RunSlot WITH
          slot    <- active,
          asked   <- {r \in Runs : cancelRequested[r]},
          verdict <- [r \in Runs |-> Verdict(r)],
          latest  <- lastCompleted.run

ImplementsRunSlot == Slot!Spec
=============================================================================
