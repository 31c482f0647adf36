---------------------- MODULE RuntimeApplication_proofs ----------------------
(***************************************************************************)
(* What TLAPS proves about RuntimeApplication, for every set of runs.      *)
(*                                                                         *)
(* The safety properties follow from one inductive invariant. Its heart is *)
(* SlotOwner: a run is the active one exactly while its worker is in a     *)
(* state before _record_completion. The other conjuncts say where a        *)
(* cancellation can have come from, what has been recorded of a run, and   *)
(* what close has already established on its way to an answer.             *)
(***************************************************************************)
EXTENDS RuntimeApplication, TLAPS

HoldsSlot  == {"reserved", "started", "entered", "refused", "executing", "returned"}
BeforeStatus == {"unused", "released", "reserved", "started", "entered", "refused",
                 "executing"}
Recorded   == {"recorded", "emitted", "draining", "ended"}

SlotOwner ==
  \A r \in Runs : worker[r] \in HoldsSlot <=> active = r

InteractionAlone == at = "interact" => active = NoRun /\ stage = "serving"

Provenance ==
  /\ \A r \in Runs : /\ sawCancel[r] => cancelRequested[r]
                     /\ scope[r] => cancelRequested[r]
                     /\ posted[r] => cancelRequested[r]
                     /\ outcome[r] = "cancelled" => cancelRequested[r]
                     /\ worker[r] = "refused" => scope[r]
                     /\ cancelRequested[r] => worker[r] # "unused"
  /\ at \in {"signal", "check", "post", "join"} =>
       target \in Runs /\ cancelRequested[target]

EarlyCancelHonoured ==
  \A r \in Runs : sawCancel[r] =>
    /\ worker[r] \notin {"unused", "released", "reserved", "started", "executing"}
    /\ outcome[r] # "succeeded"
    /\ worker[r] = "entered" => scope[r]

RecordedOnce ==
  \A r \in Runs : /\ worker[r] \in BeforeStatus <=> outcome[r] = "none"
                  /\ terminal[r] \in {"none", outcome[r]}
                  /\ terminal[r] # "none" => worker[r] \in Recorded

LatestIsRecorded ==
  lastCompleted.run # NoRun =>
    /\ worker[lastCompleted.run] \in Recorded
    /\ lastCompleted.status = outcome[lastCompleted.run]

ClosingProgress ==
  /\ stage = "serving" => at \notin {"close", "join", "return", "leave"}
  /\ stage # "serving" => at \notin {"idle", "interact", "launch"}
  /\ stage # "serving" /\ at \in {"signal", "check", "post", "join", "return"} =>
       (active # NoRun => worker[active] # "reserved")
  /\ closeResult = "closed" => active = NoRun /\ stage # "serving"

IInv == /\ TypeOK
        /\ SlotOwner
        /\ InteractionAlone
        /\ Provenance
        /\ EarlyCancelHonoured
        /\ RecordedOnce
        /\ LatestIsRecorded
        /\ ClosingProgress

-----------------------------------------------------------------------------

(* Setting a flag of one run keeps the flags a function of the runs.       *)
LEMMA BooleanUpdate ==
  ASSUME NEW S, NEW f \in [S -> BOOLEAN], NEW x
  PROVE  [f EXCEPT ![x] = TRUE] \in [S -> BOOLEAN]
  OBVIOUS

(* No step of the input thread breaks the invariant.                       *)
LEMMA InputThreadStep == IInv /\ Main => IInv'
<1> SUFFICES ASSUME IInv, Main PROVE IInv'
  OBVIOUS
<1> USE NoRunAssumption
    DEF IInv, TypeOK, SlotOwner, InteractionAlone, Provenance, EarlyCancelHonoured,
        RecordedOnce, LatestIsRecorded, ClosingProgress, appVars, runVars, mainVars,
        Statuses, LoopStates, Alive, WorkerStates, Stages, MainStates, HoldsSlot,
        BeforeStatus, Recorded
<1>1. ASSUME NEW r \in Runs, PrepareRun(r) PROVE IInv'
  BY <1>1 DEF PrepareRun, ReserveSlot, Serving
<1>2. ASSUME NEW r \in Runs, PrepareCancellation(r) PROVE IInv'
  BY <1>2 DEF PrepareCancellation, RequestCancel, Serving
<1>3. CASE Launch
  <2>1. TypeOK'
    BY <1>3 DEF Launch, Serving
  <2>2. SlotOwner'
    BY <1>3 DEF Launch, Serving
  <2>3. InteractionAlone'
    BY <1>3 DEF Launch, Serving
  <2>4. Provenance'
    BY <1>3 DEF Launch, Serving
  <2>5. EarlyCancelHonoured'
    BY <1>3 DEF Launch, Serving
  <2>6. RecordedOnce'
    BY <1>3 DEF Launch, Serving
  <2>7. LatestIsRecorded'
    BY <1>3 DEF Launch, Serving
  <2>8. ClosingProgress'
    BY <1>3 DEF Launch, Serving
  <2> QED BY <2>1, <2>2, <2>3, <2>4, <2>5, <2>6, <2>7, <2>8
<1>4. CASE SignalRead
  BY <1>4 DEF SignalRead, SignalDone
<1>5. CASE SignalCheck
  BY <1>5 DEF SignalCheck, SignalDone
<1>6. CASE SignalPost
  <2>1. TypeOK'
    <3>1. CASE loop[target] = "closed"
      BY <1>6, <3>1 DEF SignalPost, Raise
    <3>2. CASE loop[target] # "closed"
      <4>1. posted' = [posted EXCEPT ![target] = TRUE]
        BY <1>6, <3>2 DEF SignalPost
      <4>2. posted' \in [Runs -> BOOLEAN]
        BY <4>1, BooleanUpdate
      <4> QED
        BY <1>6, <3>2, <4>2 DEF SignalPost, SignalDone
    <3> QED
      BY <3>1, <3>2
  <2>2. SlotOwner'
    BY <1>6 DEF SignalPost, SignalDone, Raise
  <2>3. InteractionAlone'
    BY <1>6 DEF SignalPost, SignalDone, Raise
  <2>4. Provenance'
    BY <1>6 DEF SignalPost, SignalDone, Raise
  <2>5. EarlyCancelHonoured'
    BY <1>6 DEF SignalPost, SignalDone, Raise
  <2>6. RecordedOnce'
    BY <1>6 DEF SignalPost, SignalDone, Raise
  <2>7. LatestIsRecorded'
    BY <1>6 DEF SignalPost, SignalDone, Raise
  <2>8. ClosingProgress'
    BY <1>6 DEF SignalPost, SignalDone, Raise
  <2> QED BY <2>1, <2>2, <2>3, <2>4, <2>5, <2>6, <2>7, <2>8
<1>7. CASE InteractBegin
  BY <1>7 DEF InteractBegin, Serving
<1>8. CASE InteractEnd
  BY <1>8 DEF InteractEnd, Serving
<1>9. CASE Shutdown
  BY <1>9 DEF Shutdown, Serving
<1>10. CASE InputEnds
  BY <1>10 DEF InputEnds, Serving
<1>11. CASE Terminate
  BY <1>11 DEF Terminate, Raise
<1>12. CASE CloseBegin
  <2>1. TypeOK'
    <3>1. CASE active = NoRun
      BY <1>12, <3>1 DEF CloseBegin
    <3>2. CASE active # NoRun
      <4>1. cancelRequested' = [cancelRequested EXCEPT ![active] = TRUE]
        BY <1>12, <3>2 DEF CloseBegin
      <4>2. cancelRequested' \in [Runs -> BOOLEAN]
        BY <4>1, BooleanUpdate
      <4>3. worker' \in [Runs -> WorkerStates]
        BY <1>12, <3>2 DEF CloseBegin
      <4> QED
        BY <1>12, <3>2, <4>2, <4>3 DEF CloseBegin
    <3> QED
      BY <3>1, <3>2
  <2>2. SlotOwner'
    BY <1>12 DEF CloseBegin
  <2>3. InteractionAlone'
    BY <1>12 DEF CloseBegin
  <2>4. Provenance'
    BY <1>12 DEF CloseBegin
  <2>5. EarlyCancelHonoured'
    BY <1>12 DEF CloseBegin
  <2>6. RecordedOnce'
    BY <1>12 DEF CloseBegin
  <2>7. LatestIsRecorded'
    BY <1>12 DEF CloseBegin
  <2>8. ClosingProgress'
    BY <1>12 DEF CloseBegin
  <2> QED BY <2>1, <2>2, <2>3, <2>4, <2>5, <2>6, <2>7, <2>8
<1>13. CASE JoinWorker
  BY <1>13 DEF JoinWorker
<1>14. CASE JoinTimeout
  BY <1>14 DEF JoinTimeout
<1>15. CASE CloseReturn
  BY <1>15 DEF CloseReturn, CloseAnswer
<1>16. CASE Leave
  BY <1>16 DEF Leave
<1> QED
  BY <1>1, <1>2, <1>3, <1>4, <1>5, <1>6, <1>7, <1>8, <1>9, <1>10, <1>11, <1>12, <1>13, <1>14, <1>15, <1>16
  DEF Main, Signalling, Closing

(* No step of a worker thread breaks the invariant.                        *)
LEMMA WorkerStep ==
  ASSUME NEW r \in Runs, IInv, Worker(r) PROVE IInv'
<1> USE NoRunAssumption
    DEF IInv, TypeOK, SlotOwner, InteractionAlone, Provenance, EarlyCancelHonoured,
        RecordedOnce, LatestIsRecorded, ClosingProgress, appVars, runVars, mainVars,
        Statuses, LoopStates, Alive, WorkerStates, Stages, MainStates, HoldsSlot,
        BeforeStatus, Recorded
<1>1. CASE WorkerEnter(r)
  BY <1>1 DEF WorkerEnter, WorkerAt, InitialScope
<1>2. CASE RunGraph(r)
  BY <1>2 DEF RunGraph, WorkerAt
<1>3. CASE CancelCallback(r)
  BY <1>3 DEF CancelCallback
<1>4. CASE GraphReturns(r)
  BY <1>4 DEF GraphReturns, WorkerAt, StatusesOf
<1>5. CASE RecordCompletion(r)
  BY <1>5 DEF RecordCompletion, WorkerAt
<1>6. CASE EmitTerminal(r)
  BY <1>6 DEF EmitTerminal, WorkerAt
<1>7. CASE DrainLoop(r)
  BY <1>7 DEF DrainLoop, WorkerAt
<1>8. CASE CloseLoop(r)
  BY <1>8 DEF CloseLoop, WorkerAt
<1> QED
  BY <1>1, <1>2, <1>3, <1>4, <1>5, <1>6, <1>7, <1>8 DEF Worker

(* The invariant holds before the first request.                           *)
LEMMA InitIInv == Init => IInv
<1> SUFFICES ASSUME Init PROVE IInv
  OBVIOUS
<1> USE NoRunAssumption DEF Init
<1>1. TypeOK
  BY DEF TypeOK, Statuses, LoopStates, Alive, WorkerStates, Stages, MainStates
<1>2. SlotOwner /\ InteractionAlone
  BY DEF SlotOwner, InteractionAlone, HoldsSlot
<1>3. Provenance /\ EarlyCancelHonoured
  BY DEF Provenance, EarlyCancelHonoured
<1>4. RecordedOnce /\ LatestIsRecorded
  BY DEF RecordedOnce, LatestIsRecorded, BeforeStatus, Recorded
<1>5. ClosingProgress
  BY DEF ClosingProgress
<1> QED
  BY <1>1, <1>2, <1>3, <1>4, <1>5 DEF IInv

(* The invariant is inductive.                                             *)
LEMMA NextIInv == IInv /\ [Next]_vars => IInv'
<1> SUFFICES ASSUME IInv, [Next]_vars PROVE IInv'
  OBVIOUS
<1>1. CASE Main
  BY <1>1, InputThreadStep
<1>2. ASSUME NEW r \in Runs, Worker(r) PROVE IInv'
  BY <1>2, WorkerStep
<1>3. CASE UNCHANGED vars
  BY <1>3 DEF vars, IInv, TypeOK, SlotOwner, InteractionAlone, Provenance,
         EarlyCancelHonoured, RecordedOnce, LatestIsRecorded, ClosingProgress,
         Statuses, LoopStates, Alive, WorkerStates, Stages, MainStates, HoldsSlot,
         BeforeStatus, Recorded
<1> QED
  BY <1>1, <1>2, <1>3 DEF Next, Exited

(* The invariant holds throughout every execution, fair or not.           *)
THEOREM Invariance == Spec => []IInv
  BY InitIInv, NextIInv, PTL DEF Spec

(* Every variable keeps its type, for any set of run identifiers.          *)
THEOREM TypeCorrect == Spec => []TypeOK
<1>1. IInv => TypeOK
  BY DEF IInv
<1> QED
  BY <1>1, Invariance, PTL

(* A worker that may execute its graph owns the slot of the application:   *)
(* no two graphs execute at once, however many worker threads are still    *)
(* emitting their last event or draining their loop.                       *)
THEOREM SingleGraph == Spec => []OneGraphAtATime
<1>1. IInv => OneGraphAtATime
  BY DEF IInv, SlotOwner, OneGraphAtATime, Executing, HoldsSlot
<1> QED
  BY <1>1, Invariance, PTL

(* The is_run_active check of device.interact keeps holding until the      *)
(* interaction is over.                                                    *)
THEOREM DirectControlIsAlone == Spec => []DirectControlExcludesRuns
<1>1. IInv => DirectControlExcludesRuns
  BY NoRunAssumption
  DEF IInv, SlotOwner, InteractionAlone, DirectControlExcludesRuns, Executing,
      HoldsSlot
<1> QED
  BY <1>1, Invariance, PTL

(* A graph that executes is the only one, and no hand drives a device      *)
(* meanwhile.                                                              *)
THEOREM ExclusiveDrivers == Spec => []DriversAreExclusive
<1>1. DirectControlExcludesRuns /\ OneGraphAtATime => DriversAreExclusive
  BY DEF DriversAreExclusive
<1> QED
  BY <1>1, SingleGraph, DirectControlIsAlone, PTL

(* When close has answered TRUE no graph executes, in any order of the     *)
(* signals, join timeouts and completions before it.                       *)
THEOREM CloseIsQuiet == Spec => []CleanCloseIsQuiet
<1>1. IInv => CleanCloseIsQuiet
  BY NoRunAssumption
  DEF IInv, SlotOwner, ClosingProgress, CleanCloseIsQuiet, Executing, HoldsSlot
<1> QED
  BY <1>1, Invariance, PTL

(* A run is reported cancelled only if it was asked to cancel, and never   *)
(* reported succeeded when its worker had already read the request.        *)
THEOREM HonestCancellation == Spec => []CancellationIsHonest
<1>1. IInv => CancellationIsHonest
  BY DEF IInv, TypeOK, Provenance, EarlyCancelHonoured, RecordedOnce,
         CancellationIsHonest
<1> QED
  BY <1>1, Invariance, PTL

(* The status a late run.cancel is answered with is that of the event.     *)
THEOREM LateCancelIsConsistent == Spec => []LateCancelAgreesWithEvent
<1>1. IInv => LateCancelAgreesWithEvent
  BY DEF IInv, TypeOK, RecordedOnce, LatestIsRecorded, LateCancelAgreesWithEvent
<1> QED
  BY <1>1, Invariance, PTL

-----------------------------------------------------------------------------
(* The refinement: each step of the threads is a step of RunSlot or leaves *)
(* what RunSlot sees unchanged.                                            *)
(* A step that leaves the slot, the requests and the verdicts alone is a   *)
(* stuttering step of RunSlot.                                             *)
LEMMA SeenUnchanged ==
  ASSUME IInv, UNCHANGED <<active, cancelRequested, lastCompleted>>,
         \A r \in Runs : Verdict(r)' = Verdict(r)
  PROVE  UNCHANGED Slot!vars
  BY DEF Slot!vars

(* Of the input thread's steps only reserving, cancelling and closing are  *)
(* seen by RunSlot.                                                        *)
LEMMA InputThreadIsQuiet ==
  ASSUME IInv, Main, \A r \in Runs : ~PrepareRun(r) /\ ~PrepareCancellation(r),
         ~CloseBegin
  PROVE  UNCHANGED Slot!vars
<1> USE DEF Verdict, appVars, runVars, mainVars
<1>1. CASE Launch
  BY <1>1, SeenUnchanged DEF Launch, Serving, IInv, TypeOK
<1>2. CASE SignalRead
  BY <1>2, SeenUnchanged DEF SignalRead, SignalDone
<1>3. CASE SignalCheck
  BY <1>3, SeenUnchanged DEF SignalCheck, SignalDone
<1>4. CASE SignalPost
  BY <1>4, SeenUnchanged DEF SignalPost, SignalDone, Raise
<1>5. CASE InteractBegin
  BY <1>5, SeenUnchanged DEF InteractBegin, Serving
<1>6. CASE InteractEnd
  BY <1>6, SeenUnchanged DEF InteractEnd, Serving
<1>7. CASE Shutdown
  BY <1>7, SeenUnchanged DEF Shutdown, Serving
<1>8. CASE InputEnds
  BY <1>8, SeenUnchanged DEF InputEnds, Serving
<1>9. CASE Terminate
  BY <1>9, SeenUnchanged DEF Terminate, Raise
<1>10. CASE JoinWorker
  BY <1>10, SeenUnchanged DEF JoinWorker
<1>11. CASE JoinTimeout
  BY <1>11, SeenUnchanged DEF JoinTimeout
<1>12. CASE CloseReturn
  BY <1>12, SeenUnchanged DEF CloseReturn, CloseAnswer
<1>13. CASE Leave
  BY <1>13, SeenUnchanged DEF Leave
<1> QED
  BY <1>1, <1>2, <1>3, <1>4, <1>5, <1>6, <1>7, <1>8, <1>9, <1>10, <1>11, <1>12, <1>13
  DEF Main, Signalling, Closing

(* Of a worker's steps only the recording of its completion is seen.       *)
LEMMA WorkerIsQuiet ==
  ASSUME NEW r \in Runs, IInv, Worker(r), ~RecordCompletion(r)
  PROVE  UNCHANGED Slot!vars
<1> USE DEF Verdict, appVars, runVars, mainVars, IInv, TypeOK
<1>1. CASE WorkerEnter(r)
  BY <1>1, SeenUnchanged DEF WorkerEnter, WorkerAt, InitialScope, SlotOwner, HoldsSlot
<1>2. CASE RunGraph(r)
  BY <1>2, SeenUnchanged DEF RunGraph, WorkerAt
<1>3. CASE CancelCallback(r)
  BY <1>3, SeenUnchanged DEF CancelCallback
<1>4. CASE GraphReturns(r)
  BY <1>4, SeenUnchanged DEF GraphReturns, WorkerAt, StatusesOf
<1>5. CASE EmitTerminal(r)
  BY <1>5, SeenUnchanged DEF EmitTerminal, WorkerAt
<1>6. CASE DrainLoop(r)
  BY <1>6, SeenUnchanged DEF DrainLoop, WorkerAt
<1>7. CASE CloseLoop(r)
  BY <1>7, SeenUnchanged DEF CloseLoop, WorkerAt
<1> QED
  BY <1>1, <1>2, <1>3, <1>4, <1>5, <1>6, <1>7 DEF Worker

(* A step of the threads is a step of RunSlot or a stuttering one.         *)
LEMMA RunSlotStep == IInv /\ [Next]_vars => [Slot!Next]_(Slot!vars)
<1> SUFFICES ASSUME IInv, [Next]_vars PROVE [Slot!Next]_(Slot!vars)
  OBVIOUS
<1> USE NoRunAssumption DEF IInv, TypeOK, Verdict, appVars, runVars, mainVars
<1>1. ASSUME NEW r \in Runs, PrepareRun(r) PROVE Slot!Reserve(r)
  <2>1. Slot!Fresh(r)
    BY <1>1 DEF Slot!Fresh, PrepareRun, ReserveSlot
  <2>2. \A q \in Runs : Verdict(q)' = Verdict(q)
    BY <1>1 DEF PrepareRun, ReserveSlot
  <2> QED
    BY <1>1, <2>1, <2>2 DEF Slot!Reserve, PrepareRun, ReserveSlot
<1>2. ASSUME NEW r \in Runs, PrepareCancellation(r) PROVE Slot!Ask(r)
  BY <1>2 DEF Slot!Ask, PrepareCancellation, RequestCancel
<1>3. ASSUME NEW r \in Runs, CloseBegin, active = r, worker[r] = "reserved"
      PROVE  Slot!Release(r)
  <2>1. active' = NoRun
    BY <1>3 DEF CloseBegin
  <2>2. \A q \in Runs : Verdict(q)' = IF q = r THEN "gone" ELSE Verdict(q)
    BY <1>3 DEF CloseBegin
  <2>3. {q \in Runs : cancelRequested'[q]} = {q \in Runs : cancelRequested[q]} \cup {r}
    BY <1>3 DEF CloseBegin
  <2> QED
    BY <1>3, <2>1, <2>2, <2>3 DEF Slot!Release, CloseBegin
<1>4. ASSUME NEW r \in Runs, CloseBegin, active = r, worker[r] # "reserved"
      PROVE  Slot!Ask(r)
  BY <1>4 DEF Slot!Ask, CloseBegin
<1>5. ASSUME CloseBegin, active = NoRun PROVE UNCHANGED Slot!vars
  BY <1>5, SeenUnchanged DEF CloseBegin
<1>6. ASSUME NEW r \in Runs, RecordCompletion(r)
      PROVE  \E v \in Slot!Verdicts : Slot!Finish(r, v)
  <2>1. active = r /\ active' = NoRun
    BY <1>6 DEF RecordCompletion, WorkerAt, SlotOwner, HoldsSlot
  <2>2. PICK v \in {outcome[r], "failed"} :
               /\ outcome' = [outcome EXCEPT ![r] = v]
               /\ lastCompleted' = [run |-> r, status |-> v]
    BY <1>6, <2>1 DEF RecordCompletion
  <2>3. v \in Slot!Verdicts
    BY <1>6, <2>2 DEF RecordCompletion, WorkerAt, RecordedOnce, BeforeStatus,
           Statuses, Slot!Verdicts
  <2>4. v = "cancelled" => cancelRequested[r]
    BY <2>2 DEF Provenance
  <2>5. \A q \in Runs : Verdict(q)' = IF q = r THEN v ELSE Verdict(q)
    BY <1>6, <2>2 DEF RecordCompletion
  <2>6. [q \in Runs |-> Verdict(q)]' = [[q \in Runs |-> Verdict(q)] EXCEPT ![r] = v]
    BY <2>5 DEF Verdict
  <2>7. cancelRequested' = cancelRequested
    BY <1>6 DEF RecordCompletion
  <2>8. Slot!Finish(r, v)
    BY <2>1, <2>2, <2>4, <2>6, <2>7 DEF Slot!Finish
  <2> QED
    BY <2>3, <2>8
<1>7. CASE Main
  <2>1. CASE CloseBegin
    <3>1. ASSUME NEW r \in Runs, active = r PROVE Slot!Next
      BY <1>3, <1>4, <2>1, <3>1 DEF Slot!Next
    <3> QED
      BY <1>5, <2>1, <3>1
  <2>2. CASE \E r \in Runs : PrepareRun(r) \/ PrepareCancellation(r)
    BY <1>1, <1>2, <2>2 DEF Slot!Next
  <2>3. CASE ~CloseBegin /\ ~\E r \in Runs : PrepareRun(r) \/ PrepareCancellation(r)
    BY <1>7, <2>3, InputThreadIsQuiet
  <2> QED
    BY <2>1, <2>2, <2>3
<1>8. ASSUME NEW r \in Runs, Worker(r) PROVE [Slot!Next]_(Slot!vars)
  BY <1>6, <1>8, WorkerIsQuiet DEF Slot!Next
<1>9. CASE UNCHANGED vars
  BY <1>9, SeenUnchanged DEF vars
<1> QED
  BY <1>7, <1>8, <1>9 DEF Next, Exited

(* The lock, the threads and their callbacks implement the single-slot     *)
(* contract: one run at a time, one verdict per run, cancelled only on     *)
(* request, the latest verdict remembered.                                 *)
THEOREM RunSlotImplemented == Spec => ImplementsRunSlot
<1>1. Init => Slot!Init
  BY DEF Init, Slot!Init, Verdict
<1> QED
  BY <1>1, Invariance, RunSlotStep, PTL DEF Spec, ImplementsRunSlot, Slot!Spec
=============================================================================
