--------------------------- MODULE RunEvents_proofs ---------------------------
(***************************************************************************)
(* Proofs about RunEvents: what the interface shows, locks and registers   *)
(* agrees with the run the runtime has, for any number of runs, events and *)
(* requests that are given up.                                             *)
(***************************************************************************)
EXTENDS RunEvents, ListFacts

Fold == INSTANCE ListFacts WITH Step <- Applied

\* The messages between the threads of the sidecar and the dispatcher, all
\* events that are under way or wait in the frame, and those the interface is
\* still going to be given: the dispatcher drops what is not above highest.
Queued    == ToSet(stdout) \cup UNION {ToSet(inHand[x]) : x \in Emitters}
AllEvents == {m \in Queued : m.kind # "response"} \cup ToSet(channel) \cup ToSet(frame)
Live      == {m \in Queued : m.kind # "response" /\ m.seq > highest} \cup ToSet(channel)

Start(r) == <<r, "start">>

\* The runtime has the run, or the interface is still to be told of its end.
Pending(r) ==
  \/ slot = r
  \/ worker[r] \in {"running", "recorded"}
  \/ \E e \in Live : IsTerminal(e) /\ e.run = r

\* The request that starts r has not been written to the sidecar.
Unsent(r) ==
  outcome[Start(r)] = "none" /\ call[Start(r)] \in {"idle", "validating", "asked"}

Handled(r) ==
  \/ input.request = Start(r)
  \/ \E m \in ToSet(stdout) : m.kind = "response" /\ m.request = Start(r)

Views == [run : Runs \cup {NoRun}, bound : BOOLEAN,
          state : {"none", "starting", "running", "cancelling"} \cup Slot!Verdicts,
          last : Nat]
Inputs == [step : {"reading", "numbering", "queueing", "notifying"},
           request : (Runs \cup {NoRun}) \X {"none", "start", "cancel"},
           ok : BOOLEAN, event : {"none", "running", "cancelling"}]

\* What TypeOK leaves open: the records are of these fields, the counters are
\* numbers, and only a thread at rest has no request.
Typed ==
  /\ TypeOK
  /\ view \in Views
  /\ applied \in Nat /\ highest \in Nat /\ sequence \in Nat
  /\ slot \in Runs \cup {NoRun} /\ asked \in SUBSET Runs
  /\ verdict \in [Runs -> Slot!Verdicts \cup {"none"}]
  /\ latest \in Runs \cup {NoRun}
  /\ nodeEvents \in [Runs -> Nat]
  /\ input \in Inputs
  /\ input.step # "reading" => input.request \in Requests
  /\ input.step = "reading" => input = Resting
  /\ input.step = "numbering" => input.event # "none"

\* A worker thread exists while its run has the slot and until it has told of
\* the end; the input thread launches it.
WorkerHasSlot ==
  /\ \A r \in Runs :
       /\ slot = r => verdict[r] = "none" /\ worker[r] \in {"none", "running"}
       /\ worker[r] = "running" => slot = r
       /\ worker[r] \in {"recorded", "done"} => verdict[r] \in Slot!Verdicts
  /\ input.event = "running" =>
       input.ok /\ input.request = Start(slot) /\ slot \in Runs /\ worker[slot] = "none"

\* A state event is of a run, a terminal one bears its verdict, and is the
\* only one and the last of the events of its worker.
EventsAreTrue ==
  \A e \in AllEvents :
    /\ e.kind # "callback" => e.run \in Runs
    /\ e.kind = "state" => e.state \in {"running", "cancelling"} \cup Slot!Verdicts
    /\ IsTerminal(e) => worker[e.run] = "done" /\ e.state = verdict[e.run]
    /\ IsTerminal(e) => \A f \in AllEvents :
         f.run = e.run => /\ IsTerminal(f) => f.seq = e.seq
                          /\ f.kind = "node" => f.seq < e.seq

\* The interface is given the events by their numbers, which it has not seen.
InOrder ==
  /\ \A i, j \in DOMAIN channel : i < j => channel[i].seq < channel[j].seq
  /\ \A e \in ToSet(channel) : applied < e.seq /\ e.seq <= highest
  /\ \A e \in ToSet(frame) : e.seq <= applied /\ ~IsTerminal(e)

\* While the request that starts a run is under way, that run is shown as
\* starting, and is not bound to events.
StartsAreShown ==
  /\ view.state = "starting" => ~view.bound
  /\ \A r \in Runs :
       /\ call[Start(r)] # "idle" => view.run = r /\ view.state = "starting"
       /\ call[Start(r)] \in {"validating", "asked", "sent"} => outcome[Start(r)] = "none"
       /\ call[Start(r)] = "answered" => outcome[Start(r)] # "none"

\* The request is written and handled at most once, and a run nobody has asked
\* the sidecar for is unknown to it.
StartsAreFresh ==
  \A r \in Runs :
    /\ Once(stdin, {Start(r)})
    /\ Unsent(r) => Absent(stdin, {Start(r)})
    /\ Unsent(r) \/ ~Absent(stdin, {Start(r)}) => Slot!Fresh(r) /\ ~Handled(r)

\* If no run.start was given up, the document is locked from the attempt to
\* run until the end is heard, no start is refused, and the run that the
\* runtime has, or whose end is still to be told, is the one that is shown.
DocumentIsLocked ==
  /\ \A r \in Runs : /\ ~Absent(stdin, {Start(r)}) => call[Start(r)] = "sent" /\ locked
                     /\ call[Start(r)] \in {"validating", "asked"} => locked
  /\ slot # NoRun => locked

StartsAreAccepted ==
  /\ \A r \in Runs : call[Start(r)] = "answered" => outcome[Start(r)] = "accepted"
  /\ input.request[2] = "start" => input.ok
  /\ \A m \in ToSet(stdout) : m.kind = "response" /\ m.request[2] = "start" => m.ok

RunIsShown == \A r \in Runs : Pending(r) => view.run = r /\ Active(view.state)

PendingIsShown == ~StartTimedOut => DocumentIsLocked /\ StartsAreAccepted /\ RunIsShown

\* The worker of r is done, and none of its node events can reach the screen
\* any more.
HeardOut(r) ==
  /\ r \in Runs /\ worker[r] = "done"
  /\ \A e \in AllEvents : e.kind = "node" /\ e.run = r => e.seq <= applied
  /\ \A e \in ToSet(frame) : e.run = r => e.kind # "node"

\* A shown end is the verdict of a run that was heard out.
EndsAreShown ==
  Terminal(view.state) => HeardOut(view.run) /\ view.state = verdict[view.run]

\* What is registered is the run that is shown, from its start to its end.
RunIsRegistered ==
  /\ registered \in {NoRun, view.run}
  /\ ~Active(view.state) \/ view.state = "starting" => registered = NoRun

IInv == /\ Typed /\ WorkerHasSlot /\ EventsAreTrue /\ InOrder
        /\ StartsAreShown /\ StartsAreFresh /\ PendingIsShown
        /\ EndsAreShown /\ RunIsRegistered

-----------------------------------------------------------------------------
(* The elements of a channel, after a message is sent and after one is     *)
(* received.                                                               *)
LEMMA ElementFacts ==
  ASSUME NEW T, NEW s \in Seq(T)
  PROVE  /\ \A e \in T : ToSet(Append(s, e)) = ToSet(s) \cup {e}
         /\ s # <<>> => ToSet(s) = ToSet(Tail(s)) \cup {Head(s)}
         /\ ToSet(s) \subseteq T
<1>1. ASSUME NEW e \in T PROVE ToSet(Append(s, e)) = ToSet(s) \cup {e}
  BY AppendIndex DEF ToSet
<1>2. ASSUME s # <<>> PROVE ToSet(s) = ToSet(Tail(s)) \cup {Head(s)}
  <2>1. /\ Head(s) = s[1] /\ 1 \in DOMAIN s
        /\ \A i \in DOMAIN Tail(s) : i + 1 \in DOMAIN s /\ Tail(s)[i] = s[i + 1]
        /\ \A i \in DOMAIN s : i = 1 \/ (i - 1 \in DOMAIN Tail(s) /\ Tail(s)[i - 1] = s[i])
    BY <1>2, TailIndex
  <2>2. Head(s) \in ToSet(s)
    BY <2>1 DEF ToSet
  <2>3. ASSUME NEW x \in ToSet(Tail(s)) PROVE x \in ToSet(s)
    <3>1. PICK i \in DOMAIN Tail(s) : x = Tail(s)[i]
      BY DEF ToSet
    <3> QED
      BY <3>1, <2>1 DEF ToSet
  <2>4. ASSUME NEW x \in ToSet(s) PROVE x = Head(s) \/ x \in ToSet(Tail(s))
    <3>1. PICK i \in DOMAIN s : x = s[i]
      BY DEF ToSet
    <3>2. i = 1 \/ (i - 1 \in DOMAIN Tail(s) /\ x = Tail(s)[i - 1])
      BY <2>1, <3>1
    <3> QED
      BY <3>1, <3>2, <2>1 DEF ToSet
  <2> QED
    BY <2>2, <2>3, <2>4
<1>3. ToSet(s) \subseteq T
  BY DEF ToSet
<1> QED
  BY <1>1, <1>2, <1>3

(* No element, and one.                                                    *)
LEMMA SmallSets ==
  ASSUME NEW e
  PROVE  ToSet(<<>>) = {} /\ ToSet(<<e>>) = {e}
  BY DEF ToSet

\* The state events of s say what a state event can, and what a view that is
\* given the events of s becomes: it keeps its run; if the run is unknown it
\* stays as it is; its state is the one of an event of its run.
StatesAreKnown(s) ==
  \A i \in DOMAIN s :
    s[i].kind = "state" => s[i].state \in {"running", "cancelling"} \cup Slot!Verdicts

BecomesOf(v, s) ==
  /\ v \in Views /\ v.run = view.run /\ v.bound = view.bound
  /\ ~view.bound => v = view
  /\ v.last = view.last \/ \E i \in DOMAIN s : v.last = s[i].seq
  /\ \/ v.state = view.state
     \/ \E i \in DOMAIN s : /\ s[i].kind = "state" /\ s[i].run = view.run
                            /\ v.state = s[i].state

(* Projecting events makes of the view what BecomesOf says.                *)
LEMMA ProjectionFacts ==
  ASSUME view \in Views, NEW s \in Seq(Events), sequence \in Nat, StatesAreKnown(s)
  PROVE  BecomesOf(Projected(s), s)
<1> DEFINE V == {v \in Views :
    /\ v.run = view.run /\ v.bound = view.bound
    /\ ~view.bound => v = view
    /\ v.last = view.last \/ \E i \in DOMAIN s : v.last = s[i].seq
    /\ \/ v.state = view.state
       \/ \E i \in DOMAIN s : /\ s[i].kind = "state" /\ s[i].run = view.run
                              /\ v.state = s[i].state}
<1>1. view \in V
  OBVIOUS
<1>2. ASSUME NEW w \in V, NEW i \in DOMAIN s PROVE Applied(w, s[i]) \in V
  <2>1. CASE ~BelongsToRun(w, s[i])
    BY <2>1 DEF Applied
  <2>2. CASE BelongsToRun(w, s[i])
    <3>1. s[i] \in Events /\ w \in Views /\ w.run = view.run /\ w.bound = view.bound
      OBVIOUS
    <3> HIDE DEF V
    <3>2. s[i].seq \in Nat
      BY <3>1 DEF Events
    <3>3. w.bound /\ s[i].run = w.run /\ w.run = view.run /\ w.bound = view.bound
      BY <2>2, <3>1 DEF BelongsToRun
    <3>4. Applied(w, s[i]) = [w EXCEPT !.last = s[i].seq,
          !.state = IF s[i].kind = "state" THEN s[i].state ELSE @]
      BY <2>2 DEF Applied
    <3>5. /\ Applied(w, s[i]) \in Views
          /\ Applied(w, s[i]).run = w.run /\ Applied(w, s[i]).bound = w.bound
          /\ Applied(w, s[i]).last = s[i].seq
          /\ Applied(w, s[i]).state = IF s[i].kind = "state" THEN s[i].state ELSE w.state
      BY <3>1, <3>2, <3>3, <3>4 DEF Views, StatesAreKnown
    <3> QED
      BY <2>2, <3>1, <3>3, <3>5 DEF V
  <2> QED
    BY <2>1, <2>2
<1>3. FoldLeft(Applied, view, s) = Fold!FoldLeft(Applied, view, s)
  BY DEF FoldLeft, Fold!FoldLeft, MapThenFoldSet, Fold!MapThenFoldSet, Max, Fold!Max
<1> HIDE DEF V
<1>4. Fold!FoldLeft(Applied, view, s) \in V
  BY <1>1, <1>2, Fold!FoldLeftKeeps
<1>5. Projected(s) \in V
  BY <1>3, <1>4 DEF Projected
<1> QED
  BY <1>5 DEF V, BecomesOf

\* The parts of Typed.
ScreenTyped ==
  /\ view \in Views
  /\ Active(view.state) \/ Terminal(view.state) \/ view = EmptyView
  /\ view.last <= applied
  /\ locked \in BOOLEAN
  /\ registered \in Runs \cup {NoRun}
  /\ applied \in Nat /\ highest \in Nat /\ sequence \in Nat
  /\ applied <= highest /\ highest <= sequence

CallTyped ==
  /\ call \in [Requests -> {"idle", "validating", "asked", "sent", "answered"}]
  /\ outcome \in [Requests -> {"none", "accepted", "refused", "timeout"}]
  /\ bounds \in Scenarios
  /\ timeouts \in 0 .. bounds.timeouts /\ callbacks \in 0 .. bounds.callbacks

MessagesTyped ==
  /\ frame \in Seq(Events) /\ channel \in Seq(Events)
  /\ stdout \in Seq(Events \cup Responses)
  /\ stdin \in Seq(Requests)
  /\ inHand \in [Emitters -> {<<>>} \cup {<<e>> : e \in Events}]

ThreadTyped ==
  /\ slot \in Runs \cup {NoRun} /\ asked \in SUBSET Runs
  /\ verdict \in [Runs -> Slot!Verdicts \cup {"none"}]
  /\ latest \in Runs \cup {NoRun}
  /\ worker \in [Runs -> {"none", "running", "recorded", "done"}]
  /\ nodeEvents \in [Runs -> Nat]
  /\ input \in Inputs
  /\ input.step # "reading" => input.request \in Requests
  /\ input.step = "reading" => input = Resting
  /\ input.step = "numbering" => input.event # "none"

(* Typed is its parts.                                                     *)
LEMMA TypedParts == Typed <=> ScreenTyped /\ CallTyped /\ MessagesTyped /\ ThreadTyped
<1>1. ASSUME Typed PROVE ScreenTyped /\ CallTyped /\ MessagesTyped /\ ThreadTyped
  <2>1. TypeOK
    BY <1>1 DEF Typed
  <2>2. ScreenTyped
    BY <1>1, <2>1 DEF Typed, TypeOK, ScreenTyped
  <2>3. CallTyped
    BY <2>1 DEF TypeOK, CallTyped
  <2>4. MessagesTyped
    BY <2>1 DEF TypeOK, MessagesTyped
  <2>5. ThreadTyped
    BY <1>1, <2>1 DEF Typed, TypeOK, ThreadTyped
  <2> QED
    BY <2>2, <2>3, <2>4, <2>5
<1>2. ASSUME ScreenTyped, CallTyped, MessagesTyped, ThreadTyped PROVE Typed
  <2>1. view.run \in Runs \cup {NoRun} /\ view.bound \in BOOLEAN /\ view.last \in 0 .. applied
    BY <1>2 DEF ScreenTyped, Views
  <2>2. /\ Active(view.state) \/ Terminal(view.state) \/ view = EmptyView
        /\ locked \in BOOLEAN /\ registered \in Runs \cup {NoRun}
        /\ 0 <= applied /\ applied <= highest /\ highest <= sequence
        /\ view \in Views /\ applied \in Nat /\ highest \in Nat /\ sequence \in Nat
    BY <1>2 DEF ScreenTyped
  <2>3. /\ call \in [Requests -> {"idle", "validating", "asked", "sent", "answered"}]
        /\ outcome \in [Requests -> {"none", "accepted", "refused", "timeout"}]
        /\ timeouts \in 0 .. bounds.timeouts /\ callbacks \in 0 .. bounds.callbacks
        /\ bounds \in Scenarios
    BY <1>2 DEF CallTyped
  <2>4. TypeOK
    BY <1>2, <2>1, <2>2, <2>3 DEF TypeOK, MessagesTyped, ThreadTyped
  <2> QED
    BY <1>2, <2>2, <2>4 DEF Typed, ThreadTyped
<1> QED
  BY <1>1, <1>2

(* The steps of the next-state relation, one by one, and what they leave   *)
(* alone.                                                                  *)
LEMMA StepFacts ==
  ASSUME [Next]_vars
  PROVE  \/ \E r \in Runs : /\ RunGraph(r)
                            /\ UNCHANGED <<frame, applied, registered, outcome,
                                           timeouts, highest, channel, stdin, slot, asked,
                                           verdict, latest, input, worker, nodeEvents,
                                           callbacks, bounds, sequence, inHand, stdout>>
         \/ \E r \in Runs : /\ Validated(r)
                            /\ UNCHANGED <<frame, applied, registered, timeouts,
                                           highest, channel, stdin, slot, asked, verdict,
                                           latest, input, worker, nodeEvents, callbacks,
                                           bounds, sequence, inHand, stdout>>
         \/ \E r \in Runs : /\ CancelRun(r)
                            /\ UNCHANGED <<view, locked, frame, applied,
                                           registered, outcome, timeouts, highest, channel,
                                           stdin, slot, asked, verdict, latest, input,
                                           worker, nodeEvents, callbacks, bounds, sequence,
                                           inHand, stdout>>
         \/ \E r \in Runs : /\ StartReturns(r)
                            /\ UNCHANGED <<frame, applied, outcome, timeouts,
                                           highest, channel, stdin, slot, asked, verdict,
                                           latest, input, worker, nodeEvents, callbacks,
                                           bounds, sequence, inHand, stdout>>
         \/ \E r \in Runs : /\ CancelReturns(r)
                            /\ UNCHANGED <<view, locked, frame, applied,
                                           registered, outcome, timeouts, highest, channel,
                                           stdin, slot, asked, verdict, latest, input,
                                           worker, nodeEvents, callbacks, bounds, sequence,
                                           inHand, stdout>>
         \/ /\ HearEvent
            /\ UNCHANGED <<call, outcome, timeouts, highest, stdin, slot, asked,
                           verdict, latest, input, worker, nodeEvents, callbacks, bounds,
                           sequence, inHand, stdout>>
         \/ /\ CommitFrame
            /\ UNCHANGED <<locked, applied, registered, call, outcome, timeouts,
                           highest, channel, stdin, slot, asked, verdict, latest, input,
                           worker, nodeEvents, callbacks, bounds, sequence, inHand, stdout>>
         \/ \E q \in Requests : /\ Send(q)
                                /\ UNCHANGED <<view, locked, frame, applied,
                                               registered, outcome, timeouts, highest,
                                               channel, slot, asked, verdict, latest, input,
                                               worker, nodeEvents, callbacks, bounds,
                                               sequence, inHand, stdout>>
         \/ \E q \in Requests : /\ TimeOut(q)
                                /\ UNCHANGED <<view, locked, frame, applied,
                                               registered, highest, channel, stdin, slot,
                                               asked, verdict, latest, input, worker,
                                               nodeEvents, callbacks, bounds, sequence,
                                               inHand, stdout>>
         \/ /\ HandleRequest
            /\ UNCHANGED <<view, locked, frame, applied, registered, call,
                           outcome, timeouts, highest, channel, worker, nodeEvents,
                           callbacks, sequence, inHand, stdout, bounds>>
         \/ /\ NumberState
            /\ UNCHANGED <<view, locked, frame, applied, registered, call,
                           outcome, timeouts, highest, channel, stdin, slot, asked, verdict,
                           latest, worker, nodeEvents, callbacks, stdout, bounds>>
         \/ /\ QueueAnswer
            /\ UNCHANGED <<view, locked, frame, applied, registered, call,
                           outcome, timeouts, highest, channel, stdin, slot, asked, verdict,
                           latest, worker, nodeEvents, callbacks, sequence, bounds>>
         \/ /\ Notify
            /\ UNCHANGED <<view, locked, frame, applied, registered, call,
                           outcome, timeouts, highest, channel, stdin, slot, asked, verdict,
                           latest, nodeEvents, callbacks, sequence, inHand, stdout, bounds>>
         \/ \E r \in Runs : /\ NodeEvent(r)
                            /\ UNCHANGED <<view, locked, frame, applied,
                                           registered, call, outcome, timeouts, highest,
                                           channel, stdin, slot, asked, verdict, latest,
                                           input, worker, callbacks, stdout, bounds>>
         \/ \E r \in Runs, v \in Slot!Verdicts : /\ Complete(r, v)
                                                 /\ UNCHANGED <<view, locked,
                                                                frame, applied, registered,
                                                                call, outcome, timeouts,
                                                                highest, channel, stdin,
                                                                input, nodeEvents,
                                                                callbacks, sequence, inHand,
                                                                stdout, bounds>>
         \/ \E r \in Runs : /\ NumberTerminal(r)
                            /\ UNCHANGED <<view, locked, frame, applied,
                                           registered, call, outcome, timeouts, highest,
                                           channel, stdin, slot, asked, verdict, latest,
                                           input, nodeEvents, callbacks, stdout, bounds>>
         \/ /\ Callback
            /\ UNCHANGED <<view, locked, frame, applied, registered, call,
                           outcome, timeouts, highest, channel, stdin, slot, asked, verdict,
                           latest, input, worker, nodeEvents, stdout, bounds>>
         \/ \E x \in Emitters : /\ QueueEvent(x)
                                /\ UNCHANGED <<view, locked, frame, applied,
                                               registered, call, outcome, timeouts, highest,
                                               channel, stdin, slot, asked, verdict, latest,
                                               input, worker, nodeEvents, callbacks, bounds,
                                               sequence>>
         \/ /\ DispatchResponse
            /\ UNCHANGED <<view, locked, frame, applied, registered, timeouts,
                           highest, channel, stdin, slot, asked, verdict, latest, input,
                           worker, nodeEvents, callbacks, bounds, sequence, inHand>>
         \/ /\ DispatchEvent
            /\ UNCHANGED <<view, locked, frame, applied, registered, call,
                           outcome, timeouts, stdin, slot, asked, verdict, latest, input,
                           worker, nodeEvents, callbacks, bounds, sequence, inHand>>
         \/ UNCHANGED <<view, locked, frame, applied, registered, call, outcome, timeouts,
                        highest, channel, stdin, slot,
                        asked, verdict, latest, input, worker, nodeEvents, callbacks, bounds, sequence, inHand, stdout>>
<1>1. ASSUME NEW r \in Runs, RunGraph(r)
      PROVE UNCHANGED <<frame, applied, registered, outcome, timeouts, highest, channel,
                        stdin, slot, asked, verdict, latest, input, worker, nodeEvents,
                        callbacks, bounds, sequence, inHand, stdout>>
  BY <1>1 DEF RunGraph, screenVars, callVars, hostVars, slotVars, threadVars, emitVars
<1>2. ASSUME NEW r \in Runs, Validated(r)
      PROVE UNCHANGED <<frame, applied, registered, timeouts, highest, channel, stdin, slot,
                        asked, verdict, latest, input, worker, nodeEvents, callbacks, bounds,
                        sequence, inHand, stdout>>
  BY <1>2 DEF Validated, screenVars, callVars, hostVars, slotVars, threadVars, emitVars
<1>3. ASSUME NEW r \in Runs, CancelRun(r)
      PROVE UNCHANGED <<view, locked, frame, applied, registered, outcome, timeouts, highest,
                        channel, stdin, slot, asked, verdict, latest, input, worker,
                        nodeEvents, callbacks, bounds, sequence, inHand, stdout>>
  BY <1>3 DEF CancelRun, screenVars, callVars, hostVars, slotVars, threadVars, emitVars
<1>4. ASSUME NEW r \in Runs, StartReturns(r)
      PROVE UNCHANGED <<frame, applied, outcome, timeouts, highest, channel, stdin, slot,
                        asked, verdict, latest, input, worker, nodeEvents, callbacks, bounds,
                        sequence, inHand, stdout>>
  BY <1>4 DEF StartReturns, screenVars, callVars, hostVars, slotVars, threadVars, emitVars
<1>5. ASSUME NEW r \in Runs, CancelReturns(r)
      PROVE UNCHANGED <<view, locked, frame, applied, registered, outcome, timeouts, highest,
                        channel, stdin, slot, asked, verdict, latest, input, worker,
                        nodeEvents, callbacks, bounds, sequence, inHand, stdout>>
  BY <1>5 DEF CancelReturns, screenVars, callVars, hostVars, slotVars, threadVars, emitVars
<1>6. ASSUME HearEvent
      PROVE UNCHANGED <<call, outcome, timeouts, highest, stdin, slot, asked, verdict, latest,
                        input, worker, nodeEvents, callbacks, bounds, sequence, inHand,
                        stdout>>
  BY <1>6 DEF HearEvent, screenVars, callVars, hostVars, slotVars, threadVars, emitVars
<1>7. ASSUME CommitFrame
      PROVE UNCHANGED <<locked, applied, registered, call, outcome, timeouts, highest,
                        channel, stdin, slot, asked, verdict, latest, input, worker,
                        nodeEvents, callbacks, bounds, sequence, inHand, stdout>>
  BY <1>7 DEF CommitFrame, screenVars, callVars, hostVars, slotVars, threadVars, emitVars
<1>8. ASSUME NEW q \in Requests, Send(q)
      PROVE UNCHANGED <<view, locked, frame, applied, registered, outcome, timeouts, highest,
                        channel, slot, asked, verdict, latest, input, worker, nodeEvents,
                        callbacks, bounds, sequence, inHand, stdout>>
  BY <1>8 DEF Send, screenVars, callVars, hostVars, slotVars, threadVars, emitVars
<1>9. ASSUME NEW q \in Requests, TimeOut(q)
      PROVE UNCHANGED <<view, locked, frame, applied, registered, highest, channel, stdin,
                        slot, asked, verdict, latest, input, worker, nodeEvents, callbacks,
                        bounds, sequence, inHand, stdout>>
  BY <1>9 DEF TimeOut, screenVars, callVars, hostVars, slotVars, threadVars, emitVars
<1>10. ASSUME HandleRequest
       PROVE UNCHANGED <<view, locked, frame, applied, registered, call, outcome, timeouts,
                         highest, channel, worker, nodeEvents, callbacks, sequence, inHand,
                         stdout, bounds>>
  BY <1>10 DEF HandleRequest, screenVars, callVars, hostVars, slotVars, threadVars, emitVars
<1>11. ASSUME NumberState
       PROVE UNCHANGED <<view, locked, frame, applied, registered, call, outcome, timeouts,
                         highest, channel, stdin, slot, asked, verdict, latest, worker,
                         nodeEvents, callbacks, stdout, bounds>>
  BY <1>11 DEF NumberState, screenVars, callVars, hostVars, slotVars, threadVars, emitVars
<1>12. ASSUME QueueAnswer
       PROVE UNCHANGED <<view, locked, frame, applied, registered, call, outcome, timeouts,
                         highest, channel, stdin, slot, asked, verdict, latest, worker,
                         nodeEvents, callbacks, sequence, bounds>>
  BY <1>12 DEF QueueAnswer, screenVars, callVars, hostVars, slotVars, threadVars, emitVars
<1>13. ASSUME Notify
       PROVE UNCHANGED <<view, locked, frame, applied, registered, call, outcome, timeouts,
                         highest, channel, stdin, slot, asked, verdict, latest, nodeEvents,
                         callbacks, sequence, inHand, stdout, bounds>>
  BY <1>13 DEF Notify, screenVars, callVars, hostVars, slotVars, threadVars, emitVars
<1>14. ASSUME NEW r \in Runs, NodeEvent(r)
       PROVE UNCHANGED <<view, locked, frame, applied, registered, call, outcome, timeouts,
                         highest, channel, stdin, slot, asked, verdict, latest, input, worker,
                         callbacks, stdout, bounds>>
  BY <1>14 DEF NodeEvent, screenVars, callVars, hostVars, slotVars, threadVars, emitVars
<1>15. ASSUME NEW r \in Runs, NEW v \in Slot!Verdicts, Complete(r, v)
       PROVE UNCHANGED <<view, locked, frame, applied, registered, call, outcome, timeouts,
                         highest, channel, stdin, input, nodeEvents, callbacks, sequence,
                         inHand, stdout, bounds>>
  BY <1>15 DEF Complete, screenVars, callVars, hostVars, slotVars, threadVars, emitVars
<1>16. ASSUME NEW r \in Runs, NumberTerminal(r)
       PROVE UNCHANGED <<view, locked, frame, applied, registered, call, outcome, timeouts,
                         highest, channel, stdin, slot, asked, verdict, latest, input,
                         nodeEvents, callbacks, stdout, bounds>>
  BY <1>16
     DEF NumberTerminal, screenVars, callVars, hostVars, slotVars, threadVars, emitVars
<1>17. ASSUME Callback
       PROVE UNCHANGED <<view, locked, frame, applied, registered, call, outcome, timeouts,
                         highest, channel, stdin, slot, asked, verdict, latest, input, worker,
                         nodeEvents, stdout, bounds>>
  BY <1>17 DEF Callback, screenVars, callVars, hostVars, slotVars, threadVars, emitVars
<1>18. ASSUME NEW x \in Emitters, QueueEvent(x)
       PROVE UNCHANGED <<view, locked, frame, applied, registered, call, outcome, timeouts,
                         highest, channel, stdin, slot, asked, verdict, latest, input, worker,
                         nodeEvents, callbacks, bounds, sequence>>
  BY <1>18 DEF QueueEvent, screenVars, callVars, hostVars, slotVars, threadVars, emitVars
<1>19. ASSUME DispatchResponse
       PROVE UNCHANGED <<view, locked, frame, applied, registered, timeouts, highest, channel,
                         stdin, slot, asked, verdict, latest, input, worker, nodeEvents,
                         callbacks, bounds, sequence, inHand>>
  BY <1>19
     DEF DispatchResponse, screenVars, callVars, hostVars, slotVars, threadVars, emitVars
<1>20. ASSUME DispatchEvent
       PROVE UNCHANGED <<view, locked, frame, applied, registered, call, outcome, timeouts,
                         stdin, slot, asked, verdict, latest, input, worker, nodeEvents,
                         callbacks, bounds, sequence, inHand>>
  BY <1>20 DEF DispatchEvent, screenVars, callVars, hostVars, slotVars, threadVars, emitVars
<1>21. ASSUME UNCHANGED vars
       PROVE UNCHANGED <<view, locked, frame, applied, registered, call, outcome, timeouts,
                         highest, channel, stdin, slot, asked, verdict, latest, input, worker,
                         nodeEvents, callbacks, bounds, sequence, inHand, stdout>>
  BY <1>21 DEF vars, screenVars, callVars, hostVars, slotVars, threadVars, emitVars
<1> QED
  BY <1>1, <1>2, <1>3, <1>4, <1>5, <1>6, <1>7, <1>8, <1>9, <1>10, <1>11, <1>12, <1>13,
     <1>14, <1>15, <1>16, <1>17, <1>18, <1>19, <1>20, <1>21
     DEF Next, User, Interface, InputThread, WorkerThread, Dispatcher

(* The types of what the interface shows, and of the numbers of the        *)
(* events.                                                                 *)
LEMMA ScreenTypedStep ==
  ASSUME Typed, InOrder, EventsAreTrue, [Next]_vars
  PROVE  ScreenTyped'
<1> ScreenTyped /\ MessagesTyped
  BY TypedParts
<1>1. ASSUME NEW r \in Runs, RunGraph(r) PROVE ScreenTyped'
  <2>1. /\ view' = [run |-> r, bound |-> FALSE, state |-> "starting", last |-> 0]
        /\ locked' = TRUE /\ UNCHANGED <<applied, registered, highest, sequence>>
    BY <1>1 DEF RunGraph, EmptyView, hostVars, emitVars
  <2>2. view' \in Views
    BY <2>1 DEF Views
  <2> QED
    BY <2>1, <2>2 DEF ScreenTyped, Active
<1>2. ASSUME NEW r \in Runs, Validated(r) PROVE ScreenTyped'
  <2>1. EmptyView \in Views /\ EmptyView.last = 0
    BY DEF EmptyView, Views
  <2>2. (view' = view \/ view' = EmptyView) /\ locked' \in BOOLEAN
    BY <1>2 DEF Validated, FailToStart, ScreenTyped
  <2> QED
    BY <1>2, <2>1, <2>2 DEF Validated, ScreenTyped, hostVars, emitVars
<1>3. ASSUME NEW r \in Runs, StartReturns(r) PROVE ScreenTyped'
  <2>1. EmptyView \in Views /\ EmptyView.last = 0
    BY DEF EmptyView, Views
  <2> DEFINE w == [view EXCEPT !.bound = TRUE, !.state = "running"]
  <2>2. w \in Views /\ w.state = "running" /\ w.last = view.last
    BY DEF ScreenTyped, Views
  <2>3. /\ view' \in {view, EmptyView, w}
        /\ locked' \in BOOLEAN /\ registered' \in {registered, r}
        /\ UNCHANGED <<applied, highest, sequence>>
    BY <1>3 DEF StartReturns, FailToStart, ScreenTyped, hostVars, emitVars
  <2> HIDE DEF w
  <2>4. view' \in Views /\ (Active(view'.state) \/ Terminal(view'.state) \/ view' = EmptyView)
    BY <2>1, <2>2, <2>3 DEF ScreenTyped, Active
  <2>5. view'.last <= applied'
    BY <2>1, <2>2, <2>3 DEF ScreenTyped
  <2>6. registered' \in Runs \cup {NoRun}
    BY <2>3 DEF ScreenTyped
  <2> QED
    BY <2>3, <2>4, <2>5, <2>6 DEF ScreenTyped, Views, EmptyView
<1>4. ASSUME HearEvent PROVE ScreenTyped'
  <2> DEFINE e == Head(channel)
      s == Append(frame, e)
      v == Projected(s)
  <2>1. frame \in Seq(Events) /\ channel \in Seq(Events) /\ channel # <<>> /\ sequence \in Nat
          /\ view \in Views
    BY <1>4 DEF MessagesTyped, ScreenTyped, HearEvent
  <2>2. e \in Events /\ e \in ToSet(channel) /\ s \in Seq(Events)
          /\ ToSet(s) = ToSet(frame) \cup {e}
    BY <2>1, TailIndex, AppendIndex, ElementFacts
  <2>3. applied < e.seq /\ e.seq <= highest /\ e.seq \in Nat
    BY <2>2 DEF InOrder, Events
  <2>4. ASSUME NEW m \in ToSet(s) PROVE m \in AllEvents /\ m.seq <= e.seq
    <3>1. CASE m = e
      BY <3>1, <2>2, <2>3 DEF AllEvents
    <3>2. CASE m \in ToSet(frame)
      <4>1. m \in Events
        BY <2>1, <3>2, ElementFacts
      <4>2. m.seq \in Nat /\ m.seq <= applied
        BY <3>2, <4>1 DEF Events, InOrder
      <4> QED
        BY <2>3, <3>2, <4>2 DEF AllEvents, ScreenTyped
    <3> QED
      BY <2>2, <3>1, <3>2
  <2>5. \A i \in DOMAIN s : s[i].seq <= e.seq
    BY <2>4 DEF ToSet
  <2>6. StatesAreKnown(s)
    BY <2>4 DEF StatesAreKnown, EventsAreTrue, ToSet
  <2> HIDE DEF s
  <2>7. BecomesOf(v, s)
    BY <2>1, <2>2, <2>6, ProjectionFacts
  <2> HIDE DEF v
  <2>8. view.last <= e.seq
    BY <2>3 DEF ScreenTyped, Views
  <2>9. v.last <= e.seq /\ v \in Views
    BY <2>5, <2>7, <2>8 DEF BecomesOf
  <2>10. Active(v.state) \/ Terminal(v.state) \/ v = EmptyView
    BY <2>6, <2>7
       DEF BecomesOf, StatesAreKnown, ScreenTyped, EmptyView, Active, Terminal,
           Slot!Verdicts
  <2>11. /\ (view' = view /\ locked' = locked /\ registered' = registered)
               \/ (view' = v /\ locked' = FALSE /\ registered' = Consumed(e))
         /\ applied' = e.seq
         /\ UNCHANGED <<highest, sequence>>
    <3>1. ~(e.seq <= applied) /\ e.seq > applied
      BY <2>3 DEF ScreenTyped
    <3>2. CASE IsTerminal(e)
      BY <1>4, <3>1, <3>2 DEF HearEvent, Flush, emitVars, s, v
    <3>3. CASE ~IsTerminal(e)
      BY <1>4, <3>1, <3>3 DEF HearEvent, emitVars
    <3> QED
      BY <3>2, <3>3
  <2>12. registered' \in Runs \cup {NoRun} /\ locked' \in BOOLEAN
    BY <2>11 DEF Consumed, ScreenTyped
  <2> HIDE DEF e
  <2> QED
    BY <2>3, <2>8, <2>9, <2>10, <2>11, <2>12 DEF ScreenTyped, Views, EmptyView
<1>5. ASSUME CommitFrame PROVE ScreenTyped'
  <2>1. frame \in Seq(Events) /\ sequence \in Nat /\ view \in Views
    BY DEF MessagesTyped, ScreenTyped
  <2>2. \A i \in DOMAIN frame : frame[i].seq <= applied
    BY DEF InOrder, ToSet
  <2>3. StatesAreKnown(frame)
    BY DEF StatesAreKnown, EventsAreTrue, AllEvents, ToSet
  <2> DEFINE v == Projected(frame)
  <2>4. BecomesOf(v, frame)
    BY <2>1, <2>3, ProjectionFacts
  <2> HIDE DEF v
  <2>5. v.last <= applied /\ v \in Views
    BY <2>2, <2>4 DEF ScreenTyped, BecomesOf
  <2>6. Active(v.state) \/ Terminal(v.state) \/ v = EmptyView
    BY <2>3, <2>4
       DEF ScreenTyped, BecomesOf, StatesAreKnown, EmptyView, Active, Terminal,
           Slot!Verdicts
  <2>7. view' = v /\ UNCHANGED <<locked, registered, applied, highest, sequence>>
    BY <1>5 DEF CommitFrame, hostVars, emitVars, v
  <2> QED
    BY <2>5, <2>6, <2>7 DEF ScreenTyped, Views, EmptyView
<1>6. ASSUME NumberState PROVE ScreenTyped'
  BY <1>6
     DEF NumberState, ScreenTyped, vars, screenVars, callVars, hostVars, slotVars,
         threadVars, emitVars, Number
<1>7. ASSUME NEW r \in Runs, NodeEvent(r) PROVE ScreenTyped'
  BY <1>7
     DEF NodeEvent, ScreenTyped, vars, screenVars, callVars, hostVars, slotVars, threadVars,
         emitVars, Number
<1>8. ASSUME NEW r \in Runs, NumberTerminal(r) PROVE ScreenTyped'
  BY <1>8
     DEF NumberTerminal, ScreenTyped, vars, screenVars, callVars, hostVars, slotVars,
         threadVars, emitVars, Number
<1>9. ASSUME Callback PROVE ScreenTyped'
  BY <1>9
     DEF Callback, ScreenTyped, vars, screenVars, callVars, hostVars, slotVars, threadVars,
         emitVars, Number
<1>10. ASSUME DispatchEvent PROVE ScreenTyped'
  <2>1. Head(stdout) \in Events \cup Responses /\ Head(stdout).kind # "response"
    BY <1>10, TailIndex DEF DispatchEvent, MessagesTyped
  <2>2. Head(stdout).seq \in Nat /\ Head(stdout).seq <= sequence
    BY <2>1 DEF Events, Responses, ScreenTyped
  <2> QED
    BY <1>10, <2>2 DEF DispatchEvent, ScreenTyped, screenVars, hostVars, emitVars
<1>11. ASSUME UNCHANGED <<view, locked, registered, applied, highest, sequence>>
       PROVE ScreenTyped'
  BY <1>11
     DEF ScreenTyped, vars, screenVars, callVars, hostVars, slotVars, threadVars, emitVars
<1> QED
  BY <1>1, <1>2, <1>3, <1>4, <1>5, <1>6, <1>7, <1>8, <1>9, <1>10, <1>11, StepFacts

(* Numbering an event leaves the earlier events what they are.             *)
LEMMA EventsGrow ==
  ASSUME sequence \in Nat, sequence' \in {sequence, sequence + 1}
  PROVE  /\ Events \subseteq Events' /\ Events \cup Responses \subseteq (Events \cup Responses)'
         /\ Seq(Events) \subseteq Seq(Events')
         /\ Seq(Events \cup Responses) \subseteq Seq((Events \cup Responses)')
<1>1. Events \subseteq Events'
  BY DEF Events, Slot!Verdicts
<1>2. Responses = Responses'
  BY DEF Responses, Requests
<1>3. \A S, T : S \subseteq T => Seq(S) \subseteq Seq(T)
  <2> SUFFICES ASSUME NEW S, NEW T, S \subseteq T, NEW s \in Seq(S) PROVE s \in Seq(T)
    OBVIOUS
  <2>1. s \in [1..Len(s) -> T] /\ Len(s) \in Nat
    OBVIOUS
  <2> QED
    BY <2>1, SeqDef
<1> QED
  BY <1>1, <1>2, <1>3

(* The event a thread numbers.                                             *)
LEMMA NumberTyped ==
  ASSUME NEW x \in Emitters, NEW kind \in {"state", "node", "callback"},
         NEW r \in Runs \cup {NoRun},
         NEW state \in {"none", "running", "cancelling"} \cup Slot!Verdicts,
         Number(x, kind, r, state), ScreenTyped, MessagesTyped
  PROVE  /\ sequence' = sequence + 1 /\ sequence' \in Nat
         /\ Event(kind, r, state, sequence + 1) \in Events'
         /\ inHand[x] = <<>>
              /\ inHand' = [inHand EXCEPT ![x] = <<Event(kind, r, state, sequence + 1)>>]
         /\ inHand' \in [Emitters -> {<<>>} \cup {<<e>> : e \in Events'}]
<1>1. sequence \in Nat /\ sequence' = sequence + 1 /\ sequence' \in Nat
  BY DEF Number, ScreenTyped
<1>2. Event(kind, r, state, sequence + 1) \in Events'
  BY <1>1 DEF Event, Events, Slot!Verdicts
<1>3. inHand \in [Emitters -> {<<>>} \cup {<<e>> : e \in Events'}]
  BY <1>1, EventsGrow DEF MessagesTyped
<1>4. inHand[x] = <<>>
        /\ inHand' = [inHand EXCEPT ![x] = <<Event(kind, r, state, sequence + 1)>>]
  BY DEF Number
<1>5. inHand' \in [Emitters -> {<<>>} \cup {<<e>> : e \in Events'}]
  BY <1>2, <1>3, <1>4
<1> QED
  BY <1>1, <1>2, <1>4, <1>5

(* One or no element is added to a channel.                                *)
LEMMA ConcatTyped ==
  ASSUME NEW T, NEW s \in Seq(T), NEW h, h = <<>> \/ \E e \in T : h = <<e>>
  PROVE  s \o h \in Seq(T) /\ ToSet(s \o h) = ToSet(s) \cup ToSet(h)
<1>1. CASE h = <<>>
  <2>1. s \o h = s
    BY <1>1, ConcatFacts
  <2> QED
    BY <1>1, <2>1, SmallSets
<1>2. ASSUME NEW e \in T, h = <<e>>
      PROVE s \o h \in Seq(T) /\ ToSet(s \o h) = ToSet(s) \cup ToSet(h)
  <2>1. s \o h = Append(s, e) /\ e \in T
    BY <1>2, ConcatFacts
  <2>2. Append(s, e) \in Seq(T) /\ ToSet(Append(s, e)) = ToSet(s) \cup {e}
    BY <2>1, AppendIndex, ElementFacts
  <2>3. ToSet(h) = {e}
    BY <1>2, SmallSets
  <2> QED
    BY <2>1, <2>2, <2>3
<1> QED
  BY <1>1, <1>2

(* The types of the messages.                                              *)
LEMMA MessagesTypedStep ==
  ASSUME Typed, WorkerHasSlot, [Next]_vars
  PROVE  MessagesTyped'
<1> ScreenTyped /\ MessagesTyped /\ ThreadTyped
  BY TypedParts
<1>1. ASSUME HearEvent PROVE MessagesTyped'
  <2>1. Events' = Events /\ Responses' = Responses
    BY <1>1 DEF HearEvent, Events, Responses, Requests, emitVars, Slot!Verdicts
  <2>2. channel # <<>> /\ channel' = Tail(channel)
    BY <1>1 DEF HearEvent
  <2>3. channel' \in Seq(Events) /\ Head(channel) \in Events
    BY <2>2, TailIndex DEF MessagesTyped
  <2>4. frame' \in {frame, <<>>, Append(frame, Head(channel))}
    BY <1>1 DEF HearEvent, Flush, screenVars
  <2>5. frame \in Seq(Events) /\ Append(frame, Head(channel)) \in Seq(Events)
          /\ <<>> \in Seq(Events)
    BY <2>3, AppendIndex DEF MessagesTyped
  <2>6. frame' \in Seq(Events)
    BY <2>4, <2>5
  <2> QED
    BY <1>1, <2>1, <2>3, <2>6 DEF HearEvent, MessagesTyped, Requests, Emitters, emitVars
<1>2. ASSUME CommitFrame PROVE MessagesTyped'
  <2>1. Events' = Events /\ Responses' = Responses
    BY <1>2 DEF CommitFrame, Events, Responses, Requests, emitVars, Slot!Verdicts
  <2>2. frame' = <<>> /\ frame' \in Seq(Events)
    BY <1>2 DEF CommitFrame
  <2> QED
    BY <1>2, <2>1, <2>2
       DEF CommitFrame, MessagesTyped, Requests, Emitters, hostVars, emitVars
<1>3. ASSUME NEW q \in Requests, Send(q) PROVE MessagesTyped'
  <2>1. Events' = Events /\ Responses' = Responses
    BY <1>3 DEF Send, Events, Responses, Requests, emitVars, Slot!Verdicts
  <2>2. stdin' \in Seq(Requests)
    BY <1>3, AppendIndex DEF Send, MessagesTyped
  <2> QED
    BY <1>3, <2>1, <2>2
       DEF Send, MessagesTyped, Requests, Emitters, screenVars, hostVars, emitVars
<1>4. ASSUME HandleRequest PROVE MessagesTyped'
  <2>1. Events' = Events /\ Responses' = Responses
    BY <1>4 DEF HandleRequest, Events, Responses, Requests, emitVars, Slot!Verdicts
  <2>2. stdin' \in Seq(Requests)
    BY <1>4, TailIndex DEF HandleRequest, MessagesTyped
  <2> QED
    BY <1>4, <2>1, <2>2
       DEF HandleRequest, MessagesTyped, Requests, Emitters, screenVars, hostVars, emitVars
<1>5. ASSUME NumberState PROVE MessagesTyped'
  <2>1. "input" \in Emitters /\ input.request[1] \in Runs \cup {NoRun}
    BY <1>5, TypedParts DEF Emitters, ThreadTyped, Inputs
  <2>2. input.event \in {"none", "running", "cancelling"} \cup Slot!Verdicts
    BY <1>5, TypedParts DEF NumberState, ThreadTyped, WorkerHasSlot, Inputs
  <2>3. Number("input", "state", input.request[1], input.event)
    BY <1>5 DEF NumberState
  <2>4. /\ sequence' = sequence + 1
             /\ inHand' \in [Emitters -> {<<>>} \cup {<<e>> : e \in Events'}]
    BY <2>1, <2>2, <2>3, NumberTyped
  <2>5. UNCHANGED <<frame, channel, stdin, stdout>>
    BY <1>5 DEF NumberState, screenVars, hostVars
  <2>6. /\ frame \in Seq(Events') /\ channel \in Seq(Events')
        /\ stdout \in Seq((Events \cup Responses)') /\ stdin \in Seq(Requests)
    BY <2>4, EventsGrow DEF MessagesTyped, ScreenTyped
  <2> QED
    BY <2>4, <2>5, <2>6 DEF MessagesTyped, Requests, Emitters
<1>6. ASSUME QueueAnswer PROVE MessagesTyped'
  <2>1. Events' = Events /\ Responses' = Responses
    BY <1>6 DEF QueueAnswer, Events, Responses, Requests, emitVars, Slot!Verdicts
  <2>2. input.request \in Requests /\ input.ok \in BOOLEAN
    BY <1>6, TypedParts DEF QueueAnswer, ThreadTyped, Inputs
  <2>3. Response(input.request, input.ok) \in Events \cup Responses
    BY <2>2 DEF Response, Responses
  <2>4. Append(stdout, Response(input.request, input.ok)) \in Seq(Events \cup Responses)
    BY <2>3, AppendIndex DEF MessagesTyped
  <2>5. inHand["input"] = <<>> \/ \E e \in Events \cup Responses : inHand["input"] = <<e>>
    BY DEF MessagesTyped, Emitters
  <2>6. stdout' \in Seq(Events \cup Responses)
    BY <1>6, <2>4, <2>5, ConcatTyped DEF QueueAnswer
  <2>7. inHand' \in [Emitters -> {<<>>} \cup {<<e>> : e \in Events}]
    BY <1>6 DEF QueueAnswer, MessagesTyped
  <2> QED
    BY <1>6, <2>1, <2>6, <2>7
       DEF QueueAnswer, MessagesTyped, Requests, Emitters, screenVars, hostVars
<1>7. ASSUME NEW r \in Runs, NodeEvent(r) PROVE MessagesTyped'
  <2>1. r \in Emitters /\ r \in Runs \cup {NoRun}
    BY <1>7, TypedParts DEF Emitters, ThreadTyped, Inputs
  <2>2. "none" \in {"none", "running", "cancelling"} \cup Slot!Verdicts
    BY <1>7, TypedParts DEF ThreadTyped, WorkerHasSlot, Inputs
  <2>3. Number(r, "node", r, "none")
    BY <1>7 DEF NodeEvent
  <2>4. /\ sequence' = sequence + 1
             /\ inHand' \in [Emitters -> {<<>>} \cup {<<e>> : e \in Events'}]
    BY <2>1, <2>2, <2>3, NumberTyped
  <2>5. UNCHANGED <<frame, channel, stdin, stdout>>
    BY <1>7 DEF NodeEvent, screenVars, hostVars
  <2>6. /\ frame \in Seq(Events') /\ channel \in Seq(Events')
        /\ stdout \in Seq((Events \cup Responses)') /\ stdin \in Seq(Requests)
    BY <2>4, EventsGrow DEF MessagesTyped, ScreenTyped
  <2> QED
    BY <2>4, <2>5, <2>6 DEF MessagesTyped, Requests, Emitters
<1>8. ASSUME NEW r \in Runs, NumberTerminal(r) PROVE MessagesTyped'
  <2>1. r \in Emitters /\ r \in Runs \cup {NoRun}
    BY <1>8, TypedParts DEF Emitters, ThreadTyped, Inputs
  <2>2. verdict[r] \in {"none", "running", "cancelling"} \cup Slot!Verdicts
    BY <1>8, TypedParts DEF NumberTerminal, ThreadTyped, WorkerHasSlot, Inputs
  <2>3. Number(r, "state", r, verdict[r])
    BY <1>8 DEF NumberTerminal
  <2>4. /\ sequence' = sequence + 1
             /\ inHand' \in [Emitters -> {<<>>} \cup {<<e>> : e \in Events'}]
    BY <2>1, <2>2, <2>3, NumberTyped
  <2>5. UNCHANGED <<frame, channel, stdin, stdout>>
    BY <1>8 DEF NumberTerminal, screenVars, hostVars
  <2>6. /\ frame \in Seq(Events') /\ channel \in Seq(Events')
        /\ stdout \in Seq((Events \cup Responses)') /\ stdin \in Seq(Requests)
    BY <2>4, EventsGrow DEF MessagesTyped, ScreenTyped
  <2> QED
    BY <2>4, <2>5, <2>6 DEF MessagesTyped, Requests, Emitters
<1>9. ASSUME Callback PROVE MessagesTyped'
  <2>1. "device" \in Emitters /\ NoRun \in Runs \cup {NoRun}
    BY <1>9, TypedParts DEF Emitters, ThreadTyped, Inputs
  <2>2. "none" \in {"none", "running", "cancelling"} \cup Slot!Verdicts
    BY <1>9, TypedParts DEF ThreadTyped, WorkerHasSlot, Inputs
  <2>3. Number("device", "callback", NoRun, "none")
    BY <1>9 DEF Callback
  <2>4. /\ sequence' = sequence + 1
             /\ inHand' \in [Emitters -> {<<>>} \cup {<<e>> : e \in Events'}]
    BY <2>1, <2>2, <2>3, NumberTyped
  <2>5. UNCHANGED <<frame, channel, stdin, stdout>>
    BY <1>9 DEF Callback, screenVars, hostVars
  <2>6. /\ frame \in Seq(Events') /\ channel \in Seq(Events')
        /\ stdout \in Seq((Events \cup Responses)') /\ stdin \in Seq(Requests)
    BY <2>4, EventsGrow DEF MessagesTyped, ScreenTyped
  <2> QED
    BY <2>4, <2>5, <2>6 DEF MessagesTyped, Requests, Emitters
<1>10. ASSUME NEW x \in Emitters, QueueEvent(x) PROVE MessagesTyped'
  <2>1. Events' = Events /\ Responses' = Responses
    BY <1>10 DEF QueueEvent, Events, Responses, Requests, emitVars, Slot!Verdicts
  <2>2. inHand[x] = <<>> \/ \E e \in Events \cup Responses : inHand[x] = <<e>>
    BY DEF MessagesTyped
  <2>3. stdout' \in Seq(Events \cup Responses)
    BY <1>10, <2>2, ConcatTyped DEF QueueEvent, MessagesTyped
  <2>4. inHand' \in [Emitters -> {<<>>} \cup {<<e>> : e \in Events}]
    BY <1>10 DEF QueueEvent, MessagesTyped
  <2> QED
    BY <1>10, <2>1, <2>3, <2>4
       DEF QueueEvent, MessagesTyped, Requests, Emitters, screenVars, hostVars
<1>11. ASSUME DispatchResponse PROVE MessagesTyped'
  <2>1. Events' = Events /\ Responses' = Responses
    BY <1>11 DEF DispatchResponse, Events, Responses, Requests, emitVars, Slot!Verdicts
  <2>2. stdout' \in Seq(Events \cup Responses)
    BY <1>11, TailIndex DEF DispatchResponse, MessagesTyped
  <2> QED
    BY <1>11, <2>1, <2>2
       DEF DispatchResponse, MessagesTyped, Requests, Emitters, screenVars, hostVars,
           emitVars
<1>12. ASSUME DispatchEvent PROVE MessagesTyped'
  <2>1. Events' = Events /\ Responses' = Responses
    BY <1>12 DEF DispatchEvent, Events, Responses, Requests, emitVars, Slot!Verdicts
  <2>2. stdout' \in Seq(Events \cup Responses) /\ Head(stdout) \in Events \cup Responses
          /\ Head(stdout).kind # "response"
    BY <1>12, TailIndex DEF DispatchEvent, MessagesTyped
  <2>3. Head(stdout) \in Events
    BY <2>2 DEF Responses
  <2>4. channel' = channel \/ channel' = Append(channel, Head(stdout))
    BY <1>12 DEF DispatchEvent, hostVars
  <2>5. channel \in Seq(Events) /\ Append(channel, Head(stdout)) \in Seq(Events)
    BY <2>3, AppendIndex DEF MessagesTyped
  <2>6. channel' \in Seq(Events)
    BY <2>4, <2>5
  <2> QED
    BY <1>12, <2>1, <2>2, <2>6
       DEF DispatchEvent, MessagesTyped, Requests, Emitters, screenVars, emitVars
<1>13. ASSUME UNCHANGED <<sequence, frame, channel, stdin, stdout, inHand>> PROVE MessagesTyped'
  BY <1>13
     DEF MessagesTyped, Events, Responses, Requests, Emitters, vars, screenVars, callVars,
         hostVars, slotVars, threadVars, emitVars
<1> QED
  BY <1>1, <1>2, <1>3, <1>4, <1>5, <1>6, <1>7, <1>8, <1>9, <1>10, <1>11, <1>12, <1>13,
     StepFacts

(* The types of the calls and the bounds.                                  *)
LEMMA CallTypedStep ==
  ASSUME Typed, [Next]_vars
  PROVE  CallTyped'
<1> CallTyped
  BY TypedParts
<1>1. ASSUME NEW r \in Runs, RunGraph(r) PROVE CallTyped'
  <2>1. <<r, "start">> \in Requests /\ <<r, "cancel">> \in Requests
    BY DEF Requests
  <2>2. UNCHANGED <<bounds, timeouts, callbacks>>
    BY <1>1 DEF RunGraph, callVars, threadVars
  <2>3. /\ call' \in [Requests -> {"idle", "validating", "asked", "sent", "answered"}]
        /\ outcome' \in [Requests -> {"none", "accepted", "refused", "timeout"}]
    BY <1>1, <2>1 DEF RunGraph, CallTyped, callVars, FailToStart
  <2> QED
    BY <2>2, <2>3 DEF CallTyped, Requests
<1>2. ASSUME NEW r \in Runs, Validated(r) PROVE CallTyped'
  <2>1. <<r, "start">> \in Requests /\ <<r, "cancel">> \in Requests
    BY DEF Requests
  <2>2. UNCHANGED <<bounds, timeouts, callbacks>>
    BY <1>2 DEF Validated, callVars, threadVars
  <2>3. /\ call' \in [Requests -> {"idle", "validating", "asked", "sent", "answered"}]
        /\ outcome' \in [Requests -> {"none", "accepted", "refused", "timeout"}]
    BY <1>2, <2>1 DEF Validated, CallTyped, callVars, FailToStart
  <2> QED
    BY <2>2, <2>3 DEF CallTyped, Requests
<1>3. ASSUME NEW r \in Runs, CancelRun(r) PROVE CallTyped'
  <2>1. <<r, "start">> \in Requests /\ <<r, "cancel">> \in Requests
    BY DEF Requests
  <2>2. UNCHANGED <<bounds, timeouts, callbacks>>
    BY <1>3 DEF CancelRun, callVars, threadVars
  <2>3. /\ call' \in [Requests -> {"idle", "validating", "asked", "sent", "answered"}]
        /\ outcome' \in [Requests -> {"none", "accepted", "refused", "timeout"}]
    BY <1>3, <2>1 DEF CancelRun, CallTyped, callVars, FailToStart
  <2> QED
    BY <2>2, <2>3 DEF CallTyped, Requests
<1>4. ASSUME NEW r \in Runs, StartReturns(r) PROVE CallTyped'
  <2>1. <<r, "start">> \in Requests /\ <<r, "cancel">> \in Requests
    BY DEF Requests
  <2>2. UNCHANGED <<bounds, timeouts, callbacks>>
    BY <1>4 DEF StartReturns, callVars, threadVars
  <2>3. /\ call' \in [Requests -> {"idle", "validating", "asked", "sent", "answered"}]
        /\ outcome' \in [Requests -> {"none", "accepted", "refused", "timeout"}]
    BY <1>4, <2>1 DEF StartReturns, CallTyped, callVars, FailToStart
  <2> QED
    BY <2>2, <2>3 DEF CallTyped, Requests
<1>5. ASSUME NEW r \in Runs, CancelReturns(r) PROVE CallTyped'
  <2>1. <<r, "start">> \in Requests /\ <<r, "cancel">> \in Requests
    BY DEF Requests
  <2>2. UNCHANGED <<bounds, timeouts, callbacks>>
    BY <1>5 DEF CancelReturns, callVars, threadVars
  <2>3. /\ call' \in [Requests -> {"idle", "validating", "asked", "sent", "answered"}]
        /\ outcome' \in [Requests -> {"none", "accepted", "refused", "timeout"}]
    BY <1>5, <2>1 DEF CancelReturns, CallTyped, callVars, FailToStart
  <2> QED
    BY <2>2, <2>3 DEF CallTyped, Requests
<1>6. ASSUME NEW q \in Requests, Send(q) PROVE CallTyped'
  <2>1. /\ call' = [call EXCEPT ![q] = "sent"]
             /\ UNCHANGED <<outcome, timeouts, callbacks, bounds>>
    BY <1>6 DEF Send, threadVars
  <2> QED
    BY <2>1 DEF CallTyped, Requests
<1>7. ASSUME NEW q \in Requests, TimeOut(q) PROVE CallTyped'
  <2>1. bounds.timeouts \in Nat /\ timeouts \in Nat
    BY EventsAssumption DEF CallTyped
  <2>2. /\ timeouts < bounds.timeouts /\ timeouts' = timeouts + 1
             /\ UNCHANGED <<callbacks, bounds>>
        /\ call' = [call EXCEPT ![q] = "answered"]
             /\ outcome' = [outcome EXCEPT ![q] = "timeout"]
    BY <1>7 DEF TimeOut, threadVars
  <2>3. /\ call' \in [Requests -> {"idle", "validating", "asked", "sent", "answered"}]
        /\ outcome' \in [Requests -> {"none", "accepted", "refused", "timeout"}]
    BY <2>2 DEF CallTyped
  <2> QED
    BY <2>1, <2>2, <2>3 DEF CallTyped, Requests
<1>8. ASSUME Callback PROVE CallTyped'
  <2>1. bounds.callbacks \in Nat /\ callbacks \in Nat
    BY EventsAssumption DEF CallTyped
  <2>2. callbacks < bounds.callbacks /\ callbacks' = callbacks + 1
          /\ UNCHANGED <<call, outcome, timeouts, bounds>>
    BY <1>8 DEF Callback, callVars
  <2> QED
    BY <2>1, <2>2 DEF CallTyped, Requests
<1>9. ASSUME DispatchResponse PROVE CallTyped'
  <2>1. UNCHANGED <<bounds, timeouts, callbacks>>
    BY <1>9 DEF DispatchResponse, threadVars
  <2>2. /\ call' \in [Requests -> {"idle", "validating", "asked", "sent", "answered"}]
        /\ outcome' \in [Requests -> {"none", "accepted", "refused", "timeout"}]
    BY <1>9 DEF DispatchResponse, CallTyped
  <2> QED
    BY <2>1, <2>2 DEF CallTyped, Requests
<1>10. ASSUME UNCHANGED <<call, outcome, bounds, timeouts, callbacks>> PROVE CallTyped'
  BY <1>10
     DEF CallTyped, vars, screenVars, callVars, hostVars, slotVars, threadVars, emitVars
<1> QED
  BY <1>1, <1>2, <1>3, <1>4, <1>5, <1>6, <1>7, <1>8, <1>9, <1>10, StepFacts

(* The types of the threads of the sidecar.                                *)
LEMMA ThreadTypedStep ==
  ASSUME Typed, [Next]_vars
  PROVE  ThreadTyped'
<1> ThreadTyped
  BY TypedParts
<1>1. ASSUME HandleRequest PROVE ThreadTyped'
  <2>1. stdin # <<>> /\ Head(stdin) \in Requests
    BY <1>1, TailIndex, TypedParts DEF HandleRequest, MessagesTyped
  <2>2. PICK r \in Runs, k \in {"start", "cancel"} : Head(stdin) = <<r, k>>
    BY <2>1 DEF Requests
  <2>3. <<r, "start">> \in Requests /\ <<r, "cancel">> \in Requests
    BY DEF Requests
  <2>4. UNCHANGED <<worker, nodeEvents>>
    BY <1>1 DEF HandleRequest
  <2>5. /\ input' \in Inputs /\ input'.step \in {"numbering", "queueing"}
             /\ input'.request \in Requests
        /\ input'.step = "numbering" => input'.event # "none"
    <3>1. <<r, k>>[1] = r /\ <<r, k>>[2] = k
            /\ <<r, k>> \in (Runs \cup {NoRun}) \X {"none", "start", "cancel"}
      BY <2>2
    <3>2. (k = "start" /\ HandleStart(r)) \/ (k = "cancel" /\ HandleCancel(r))
      BY <1>1, <2>2, <3>1 DEF HandleRequest
    <3>3. PICK s \in {"numbering", "queueing"}, ok \in BOOLEAN, ev \in {"none", "running", "cancelling"} :
          /\ input' = [step |-> s, request |-> <<r, k>>, ok |-> ok, event |-> ev]
          /\ s = "numbering" => ev # "none"
      <4>1. CASE k = "start" /\ HandleStart(r) /\ Accepts(r)
        BY <4>1 DEF HandleStart
      <4>2. CASE k = "start" /\ HandleStart(r) /\ ~Accepts(r)
        BY <4>2 DEF HandleStart
      <4>3. CASE k = "cancel" /\ HandleCancel(r) /\ slot = r
        BY <4>3 DEF HandleCancel
      <4>4. CASE k = "cancel" /\ HandleCancel(r) /\ slot # r
        <5>1. input' = [step |-> "queueing", request |-> <<r, k>>, ok |-> latest = r, event |-> "none"] /\ (latest = r) \in BOOLEAN
          BY <4>4 DEF HandleCancel
        <5> QED
          BY <5>1
      <4> QED
        BY <3>2, <4>1, <4>2, <4>3, <4>4
    <3>4. <<r, k>> \in Requests
      BY <2>2 DEF Requests
    <3> QED
      BY <3>1, <3>3, <3>4 DEF Inputs
  <2>6. /\ slot' \in Runs \cup {NoRun} /\ asked' \in SUBSET Runs
             /\ UNCHANGED <<verdict, latest>>
    BY <1>1, <2>2
       DEF HandleRequest, HandleStart, HandleCancel, Slot!Reserve, Slot!Ask, slotVars,
           ThreadTyped
  <2> QED
    BY <2>4, <2>5, <2>6 DEF ThreadTyped, Inputs, Requests, Slot!Verdicts, Resting
<1>2. ASSUME NumberState PROVE ThreadTyped'
  <2>1. input' = [input EXCEPT !.step = "queueing"] /\ input.step = "numbering"
          /\ UNCHANGED <<slot, asked, verdict, latest, worker, nodeEvents>>
    BY <1>2 DEF NumberState, slotVars
  <2>2. input' \in Inputs /\ input'.request = input.request /\ input'.step = "queueing"
    BY <2>1 DEF ThreadTyped, Inputs
  <2> QED
    BY <2>1, <2>2 DEF ThreadTyped, Inputs, Requests, Slot!Verdicts, Resting
<1>3. ASSUME QueueAnswer PROVE ThreadTyped'
  <2>1. input' = [input EXCEPT !.step = "notifying"] /\ input.step = "queueing"
          /\ UNCHANGED <<slot, asked, verdict, latest, worker, nodeEvents>>
    BY <1>3 DEF QueueAnswer, slotVars
  <2>2. input' \in Inputs /\ input'.request = input.request /\ input'.step = "notifying"
    BY <2>1 DEF ThreadTyped, Inputs
  <2> QED
    BY <2>1, <2>2 DEF ThreadTyped, Inputs, Requests, Slot!Verdicts, Resting
<1>4. ASSUME Notify PROVE ThreadTyped'
  <2>1. /\ worker' \in [Runs -> {"none", "running", "recorded", "done"}] /\ input' = Resting
        /\ UNCHANGED <<slot, asked, verdict, latest, nodeEvents>>
    BY <1>4 DEF Notify, slotVars, ThreadTyped
  <2>2. Resting \in Inputs /\ Resting.step = "reading"
    BY DEF Resting, Inputs
  <2> QED
    BY <2>1, <2>2 DEF ThreadTyped, Inputs, Requests, Slot!Verdicts, Resting
<1>5. ASSUME NEW r \in Runs, NodeEvent(r) PROVE ThreadTyped'
  <2>1. nodeEvents' = [nodeEvents EXCEPT ![r] = @ + 1]
          /\ UNCHANGED <<slot, asked, verdict, latest, worker, input>>
    BY <1>5 DEF NodeEvent, slotVars
  <2>2. nodeEvents' \in [Runs -> Nat]
    BY <2>1 DEF ThreadTyped
  <2> QED
    BY <2>1, <2>2 DEF ThreadTyped, Inputs, Requests, Slot!Verdicts, Resting
<1>6. ASSUME NEW r \in Runs, NEW v \in Slot!Verdicts, Complete(r, v) PROVE ThreadTyped'
  <2>1. /\ slot' = NoRun /\ verdict' = [verdict EXCEPT ![r] = v] /\ latest' = r
             /\ worker' = [worker EXCEPT ![r] = "recorded"]
        /\ UNCHANGED <<asked, input, nodeEvents>>
    BY <1>6 DEF Complete, Slot!Finish
  <2>2. verdict' \in [Runs -> Slot!Verdicts \cup {"none"}]
          /\ worker' \in [Runs -> {"none", "running", "recorded", "done"}]
    BY <2>1 DEF ThreadTyped
  <2> QED
    BY <2>1, <2>2 DEF ThreadTyped, Inputs, Requests, Slot!Verdicts, Resting
<1>7. ASSUME NEW r \in Runs, NumberTerminal(r) PROVE ThreadTyped'
  <2>1. worker' = [worker EXCEPT ![r] = "done"]
          /\ UNCHANGED <<slot, asked, verdict, latest, input, nodeEvents>>
    BY <1>7 DEF NumberTerminal, slotVars
  <2>2. worker' \in [Runs -> {"none", "running", "recorded", "done"}]
    BY <2>1 DEF ThreadTyped
  <2> QED
    BY <2>1, <2>2 DEF ThreadTyped, Inputs, Requests, Slot!Verdicts, Resting
<1>8. ASSUME UNCHANGED <<slot, asked, verdict, latest, worker, nodeEvents, input>>
      PROVE ThreadTyped'
  BY <1>8
     DEF ThreadTyped, vars, screenVars, callVars, hostVars, slotVars, threadVars, emitVars,
         Inputs, Requests, Slot!Verdicts, Resting
<1> QED
  BY <1>1, <1>2, <1>3, <1>4, <1>5, <1>6, <1>7, <1>8, StepFacts

(* Typed is its parts, after a step.                                       *)
LEMMA TypedPartsNext == Typed' <=> (ScreenTyped' /\ CallTyped' /\ MessagesTyped' /\ ThreadTyped')
  BY TypedParts, PTL

(* The types are kept.                                                     *)
LEMMA TypedStep ==
  ASSUME Typed, WorkerHasSlot, InOrder, EventsAreTrue, [Next]_vars
  PROVE  Typed'
<1>1. ScreenTyped' /\ CallTyped' /\ MessagesTyped' /\ ThreadTyped'
  BY ScreenTypedStep, CallTypedStep, MessagesTypedStep, ThreadTypedStep
<1> QED
  BY <1>1, TypedPartsNext

\* What a step does to the events: all are known and none comes to life, or
\* the event e is new.
Flows   == AllEvents' \subseteq AllEvents /\ Live' \subseteq Live
Adds(e) == AllEvents' \subseteq AllEvents \cup {e} /\ Live' \subseteq Live \cup {e}

NumberingStep ==
  NumberState \/ Callback \/ \E r \in Runs : NodeEvent(r) \/ NumberTerminal(r)

(* The types of the events, wherever they are.                             *)
LEMMA EventsTyped ==
  ASSUME MessagesTyped
  PROVE  /\ Queued \subseteq Events \cup Responses
         /\ AllEvents \subseteq Events /\ Live \subseteq Events /\ Live \subseteq AllEvents
         /\ ToSet(channel) \subseteq Events /\ ToSet(frame) \subseteq Events
<1>1. ToSet(stdout) \subseteq Events \cup Responses /\ ToSet(channel) \subseteq Events
        /\ ToSet(frame) \subseteq Events
  BY ElementFacts DEF MessagesTyped
<1>2. \A x \in Emitters : ToSet(inHand[x]) \subseteq Events
  <2> SUFFICES ASSUME NEW x \in Emitters PROVE ToSet(inHand[x]) \subseteq Events
    OBVIOUS
  <2>1. inHand[x] = <<>> \/ \E e \in Events : inHand[x] = <<e>>
    BY DEF MessagesTyped
  <2> QED
    BY <2>1, SmallSets
<1>3. Queued \subseteq Events \cup Responses
  BY <1>1, <1>2 DEF Queued
<1>4. \A m \in Responses : m.kind = "response"
  BY DEF Responses
<1> QED
  BY <1>1, <1>3, <1>4 DEF AllEvents, Live

(* A thread that numbers an event has a new one.                           *)
LEMMA NumberAdds ==
  ASSUME NEW x \in Emitters, NEW kind \in {"state", "node", "callback"},
         NEW r \in Runs \cup {NoRun},
         NEW state \in {"none", "running", "cancelling"} \cup Slot!Verdicts,
         Number(x, kind, r, state), Typed, UNCHANGED <<stdout, channel, frame, highest>>
  PROVE  Adds(Event(kind, r, state, sequence + 1))
<1> DEFINE e == Event(kind, r, state, sequence + 1)
<1>1. inHand \in [Emitters -> {<<>>} \cup {<<f>> : f \in Events}]
  BY TypedParts DEF MessagesTyped
<1>2. inHand' = [inHand EXCEPT ![x] = <<e>>]
  BY DEF Number
<1> HIDE DEF e
<1>3. ASSUME NEW y \in Emitters PROVE ToSet(inHand'[y]) \subseteq ToSet(inHand[y]) \cup {e}
  BY <1>1, <1>2, SmallSets
<1>4. UNION {ToSet(inHand'[y]) : y \in Emitters} \subseteq (UNION {ToSet(inHand[y]) : y \in Emitters}) \cup {e}
  BY <1>3
<1>5. Queued' \subseteq Queued \cup {e}
  BY <1>4 DEF Queued, Emitters
<1> QED
  BY <1>5 DEF Adds, AllEvents, Live, e

(* What a thread hands to the writer is not in its hand any more.          *)
LEMMA QueueingKeeps ==
  ASSUME NEW x \in Emitters, NEW m, MessagesTyped,
         ToSet(stdout') \subseteq ToSet(stdout) \cup {m} \cup ToSet(inHand[x]),
         inHand' = [inHand EXCEPT ![x] = <<>>]
  PROVE  Queued' \subseteq Queued \cup {m}
<1>1. ASSUME NEW y \in Emitters PROVE ToSet(inHand'[y]) \subseteq ToSet(inHand[y])
  BY SmallSets DEF MessagesTyped
<1>2. UNION {ToSet(inHand'[y]) : y \in Emitters} \subseteq UNION {ToSet(inHand[y]) : y \in Emitters}
  BY <1>1
<1>3. ToSet(inHand[x]) \subseteq UNION {ToSet(inHand[y]) : y \in Emitters}
  OBVIOUS
<1> QED
  BY <1>2, <1>3 DEF Queued, Emitters

(* No other step has a new event.                                          *)
LEMMA FlowStep ==
  ASSUME Typed, [Next]_vars
  PROVE  Flows \/ NumberingStep
<1> MessagesTyped /\ ScreenTyped
  BY TypedParts
<1>1. ASSUME HearEvent PROVE Flows \/ NumberingStep
  <2>1. channel # <<>> /\ channel' = Tail(channel) /\ UNCHANGED <<stdout, inHand, highest>>
    BY <1>1 DEF HearEvent, emitVars
  <2>2. channel \in Seq(Events) /\ frame \in Seq(Events) /\ Head(channel) \in Events
    BY <2>1, TailIndex DEF MessagesTyped
  <2>3. ToSet(channel) = ToSet(channel') \cup {Head(channel)}
    BY <2>1, <2>2, ElementFacts
  <2>4. frame' \in {frame, <<>>, Append(frame, Head(channel))}
    BY <1>1 DEF HearEvent, Flush, screenVars
  <2>5. ToSet(frame') \subseteq ToSet(frame) \cup {Head(channel)}
    <3>1. ToSet(Append(frame, Head(channel))) = ToSet(frame) \cup {Head(channel)}
      BY <2>2, ElementFacts
    <3>2. ToSet(<<>>) = {}
      BY SmallSets
    <3> QED
      BY <2>4, <3>1, <3>2
  <2>6. Queued' = Queued
    BY <2>1 DEF Queued, Emitters
  <2> QED
    BY <2>1, <2>3, <2>5, <2>6 DEF Flows, AllEvents, Live
<1>2. ASSUME CommitFrame PROVE Flows \/ NumberingStep
  <2>1. frame' = <<>> /\ UNCHANGED <<channel, stdout, inHand, highest>>
    BY <1>2 DEF CommitFrame, emitVars, hostVars
  <2>2. ToSet(frame') = {}
    BY <2>1, SmallSets
  <2>3. Queued' = Queued
    BY <2>1 DEF Queued, Emitters
  <2> QED
    BY <2>1, <2>2, <2>3 DEF Flows, AllEvents, Live
<1>3. ASSUME NumberState PROVE Flows \/ NumberingStep
  BY <1>3 DEF NumberingStep
<1>4. ASSUME QueueAnswer PROVE Flows \/ NumberingStep
  <2> DEFINE m == Response(input.request, input.ok)
  <2>1. input.request \in Requests /\ input.ok \in BOOLEAN
    BY <1>4, TypedParts DEF QueueAnswer, ThreadTyped, Inputs
  <2>2. m \in Responses /\ m.kind = "response"
    BY <2>1 DEF Response, Responses
  <2>3. inHand["input"] \in {<<>>} \cup {<<e>> : e \in Events}
          /\ stdout \in Seq(Events \cup Responses)
    BY DEF MessagesTyped, Emitters
  <2>4. /\ stdout' = Append(stdout, m) \o inHand["input"]
             /\ inHand' = [inHand EXCEPT !["input"] = <<>>]
        /\ UNCHANGED <<channel, frame, highest>>
    BY <1>4 DEF QueueAnswer, screenVars, hostVars
  <2> HIDE DEF m
  <2>5. Append(stdout, m) \in Seq(Events \cup Responses)
          /\ ToSet(Append(stdout, m)) = ToSet(stdout) \cup {m}
    BY <2>2, <2>3, AppendIndex, ElementFacts
  <2>6. ToSet(stdout') = ToSet(Append(stdout, m)) \cup ToSet(inHand["input"])
    <3> DEFINE a == Append(stdout, m)
        h == inHand["input"]
    <3>1. a \in Seq(Events \cup Responses)
            /\ (h = <<>> \/ \E e \in Events \cup Responses : h = <<e>>) /\ stdout' = a \o h
      BY <2>3, <2>4, <2>5
    <3> HIDE DEF a, h
    <3>2. ToSet(a \o h) = ToSet(a) \cup ToSet(h)
      BY <3>1, ConcatTyped
    <3> QED
      BY <3>1, <3>2 DEF a, h
  <2>7. Queued' \subseteq Queued \cup {m}
    BY <2>4, <2>5, <2>6, QueueingKeeps DEF Emitters
  <2> QED
    BY <2>2, <2>4, <2>7 DEF Flows, AllEvents, Live
<1>5. ASSUME NEW r \in Runs, NodeEvent(r) PROVE Flows \/ NumberingStep
  BY <1>5 DEF NumberingStep
<1>6. ASSUME NEW r \in Runs, NumberTerminal(r) PROVE Flows \/ NumberingStep
  BY <1>6 DEF NumberingStep
<1>7. ASSUME Callback PROVE Flows \/ NumberingStep
  BY <1>7 DEF NumberingStep
<1>8. ASSUME NEW x \in Emitters, QueueEvent(x) PROVE Flows \/ NumberingStep
  <2>1. (\E e \in Events : inHand[x] = <<e>>) /\ stdout \in Seq(Events \cup Responses)
    BY <1>8 DEF MessagesTyped, QueueEvent
  <2>2. /\ stdout' = stdout \o inHand[x] /\ inHand' = [inHand EXCEPT ![x] = <<>>]
        /\ UNCHANGED <<channel, frame, highest>>
    BY <1>8 DEF QueueEvent, screenVars, hostVars
  <2>3. PICK e \in Events \cup Responses : inHand[x] = <<e>>
    BY <2>1
  <2>4. ToSet(stdout') \subseteq ToSet(stdout) \cup {e} \cup ToSet(inHand[x])
    BY <2>1, <2>2, <2>3, ConcatTyped
  <2>5. Queued' \subseteq Queued \cup {e}
    BY <2>2, <2>4, QueueingKeeps
  <2>6. e \in ToSet(inHand[x])
    BY <2>3, SmallSets
  <2>7. e \in Queued
    BY <2>6 DEF Queued
  <2> QED
    BY <2>2, <2>5, <2>7 DEF Flows, AllEvents, Live
<1>9. ASSUME DispatchResponse PROVE Flows \/ NumberingStep
  <2>1. /\ stdout \in Seq(Events \cup Responses) /\ stdout # <<>> /\ stdout' = Tail(stdout)
        /\ UNCHANGED <<inHand, channel, frame, highest>>
    BY <1>9 DEF DispatchResponse, MessagesTyped, screenVars, hostVars, emitVars
  <2>2. ToSet(stdout') \subseteq ToSet(stdout)
    BY <2>1, ElementFacts
  <2>3. Queued' \subseteq Queued
    BY <2>1, <2>2 DEF Queued, Emitters
  <2> QED
    BY <2>1, <2>3 DEF Flows, AllEvents, Live
<1>10. ASSUME DispatchEvent PROVE Flows \/ NumberingStep
  <2> DEFINE e == Head(stdout)
  <2>1. /\ stdout \in Seq(Events \cup Responses) /\ stdout # <<>> /\ stdout' = Tail(stdout)
             /\ e.kind # "response"
        /\ UNCHANGED <<inHand, frame>>
    BY <1>10 DEF DispatchEvent, MessagesTyped, screenVars, emitVars
  <2>2. ToSet(stdout) = ToSet(stdout') \cup {e}
    BY <2>1, ElementFacts
  <2>3. Queued' \subseteq Queued /\ e \in Queued
    BY <2>1, <2>2 DEF Queued, Emitters
  <2>4. e \in Events
    BY <2>1, <2>3, EventsTyped DEF AllEvents
  <2>5. e.seq \in Nat /\ highest \in Nat
    BY <2>4 DEF Events, ScreenTyped
  <2>6. CASE e.seq > highest
    <3>1. highest' = e.seq /\ channel' = Append(channel, e)
      BY <1>10, <2>6 DEF DispatchEvent
    <3> HIDE DEF e
    <3>2. ToSet(channel') = ToSet(channel) \cup {e}
      BY <2>4, <3>1, ElementFacts DEF MessagesTyped
    <3>3. \A m \in Queued : m.kind # "response" => m.seq \in Nat
      BY EventsTyped DEF AllEvents, Events
    <3>4. \A m \in Queued' : m.kind # "response" /\ m.seq > highest' => m.seq > highest
      BY <2>3, <2>5, <2>6, <3>1, <3>3
    <3> QED
      BY <2>1, <2>3, <2>6, <3>2, <3>4 DEF Flows, AllEvents, Live
  <2>7. CASE ~(e.seq > highest)
    <3>1. highest' = highest /\ channel' = channel
      BY <1>10, <2>7 DEF DispatchEvent, hostVars
    <3> QED
      BY <2>1, <2>3, <3>1 DEF Flows, AllEvents, Live
  <2> QED
    BY <2>6, <2>7
<1>11. ASSUME UNCHANGED <<highest, channel, frame, inHand, stdout>> PROVE Flows \/ NumberingStep
  BY <1>11
     DEF Flows, AllEvents, Live, Queued, Emitters, vars, screenVars, callVars, hostVars,
         slotVars, threadVars, emitVars
<1> QED
  BY <1>1, <1>2, <1>3, <1>4, <1>5, <1>6, <1>7, <1>8, <1>9, <1>10, <1>11, StepFacts

(* Workers and the slot: the run of the slot is accepted once, launched    *)
(* once and released by its worker.                                        *)
LEMMA WorkerStep ==
  ASSUME Typed, WorkerHasSlot, [Next]_vars
  PROVE  WorkerHasSlot'
<1> ThreadTyped
  BY TypedParts
<1>1. ASSUME HandleRequest PROVE WorkerHasSlot'
  <2>1. stdin # <<>> /\ Head(stdin) \in Requests
    BY <1>1, TailIndex, TypedParts DEF HandleRequest, MessagesTyped
  <2>2. PICK r \in Runs, k \in {"start", "cancel"} : Head(stdin) = <<r, k>>
    BY <2>1 DEF Requests
  <2>3. <<r, k>>[1] = r /\ <<r, k>>[2] = k
    OBVIOUS
  <2>4. (k = "start" /\ HandleStart(r)) \/ (k = "cancel" /\ HandleCancel(r))
    BY <1>1, <2>2, <2>3 DEF HandleRequest
  <2>5. UNCHANGED worker
    BY <1>1 DEF HandleRequest
  <2>6. input.event = "none"
    BY <1>1 DEF HandleRequest, ThreadTyped, Resting
  <2>7. CASE HandleStart(r) /\ Accepts(r)
    <3>1. slot = NoRun /\ slot' = r /\ verdict[r] = "none" /\ UNCHANGED verdict
      BY <2>7 DEF HandleStart, Accepts, Slot!Reserve, Slot!Fresh
    <3>2. input'.ok = TRUE /\ input'.request = Start(r) /\ input'.event = "running"
      BY <2>7 DEF HandleStart, Start
    <3>3. worker[r] = "none" /\ \A s \in Runs : worker[s] # "running"
      BY <3>1, EventsAssumption DEF WorkerHasSlot, ThreadTyped, Slot!Verdicts
    <3> QED
      BY <2>5, <3>1, <3>2, <3>3 DEF WorkerHasSlot, Slot!Verdicts, Start
  <2>8. CASE (HandleStart(r) /\ ~Accepts(r)) \/ HandleCancel(r)
    <3>1. UNCHANGED <<slot, verdict>> /\ input'.event # "running"
      BY <2>8 DEF HandleStart, HandleCancel, Slot!Ask, slotVars
    <3> QED
      BY <2>5, <3>1 DEF WorkerHasSlot, Slot!Verdicts, Start
  <2> QED
    BY <2>4, <2>7, <2>8
<1>2. ASSUME NumberState PROVE WorkerHasSlot'
  <2>1. input' = [input EXCEPT !.step = "queueing"] /\ UNCHANGED <<slot, verdict, worker>>
    BY <1>2 DEF NumberState, slotVars
  <2>2. input'.ok = input.ok /\ input'.request = input.request /\ input'.event = input.event
    BY <2>1 DEF ThreadTyped, Inputs
  <2> QED
    BY <2>1, <2>2 DEF WorkerHasSlot, Slot!Verdicts, Start
<1>3. ASSUME QueueAnswer PROVE WorkerHasSlot'
  <2>1. input' = [input EXCEPT !.step = "notifying"] /\ UNCHANGED <<slot, verdict, worker>>
    BY <1>3 DEF QueueAnswer, slotVars
  <2>2. input'.ok = input.ok /\ input'.request = input.request /\ input'.event = input.event
    BY <2>1 DEF ThreadTyped, Inputs
  <2> QED
    BY <2>1, <2>2 DEF WorkerHasSlot, Slot!Verdicts, Start
<1>4. ASSUME Notify PROVE WorkerHasSlot'
  <2>1. /\ worker' = IF input.event = "running" THEN [worker EXCEPT ![input.request[1]] = "running"] ELSE worker
        /\ input' = Resting /\ UNCHANGED <<slot, verdict>>
    BY <1>4 DEF Notify, slotVars
  <2>2. Resting.event = "none"
    BY DEF Resting
  <2>3. CASE input.event = "running"
    <3>1. slot \in Runs /\ input.request[1] = slot /\ worker[slot] = "none"
      BY <2>3 DEF WorkerHasSlot, Start
    <3>2. worker' = [worker EXCEPT ![slot] = "running"]
            /\ worker \in [Runs -> {"none", "running", "recorded", "done"}]
      BY <2>1, <2>3, <3>1 DEF ThreadTyped
    <3> QED
      BY <2>1, <2>2, <3>1, <3>2 DEF WorkerHasSlot, Slot!Verdicts, Start
  <2>4. CASE input.event # "running"
    BY <2>1, <2>2, <2>4 DEF WorkerHasSlot, Slot!Verdicts, Start
  <2> QED
    BY <2>3, <2>4
<1>5. ASSUME NEW r \in Runs, NEW v \in Slot!Verdicts, Complete(r, v) PROVE WorkerHasSlot'
  <2>1. /\ slot = r /\ worker[r] = "running" /\ slot' = NoRun
             /\ verdict' = [verdict EXCEPT ![r] = v]
        /\ worker' = [worker EXCEPT ![r] = "recorded"] /\ UNCHANGED input
    BY <1>5 DEF Complete, Slot!Finish
  <2>2. worker \in [Runs -> {"none", "running", "recorded", "done"}]
          /\ verdict \in [Runs -> Slot!Verdicts \cup {"none"}]
    BY DEF ThreadTyped
  <2>3. input.event # "running"
    BY <2>1 DEF WorkerHasSlot
  <2>4. \A s \in Runs : s # r => worker'[s] = worker[s] /\ verdict'[s] = verdict[s]
          /\ worker[s] # "running"
    BY <2>1, <2>2 DEF WorkerHasSlot
  <2>5. worker'[r] = "recorded" /\ verdict'[r] = v
    BY <2>1, <2>2
  <2> QED
    BY <2>1, <2>3, <2>4, <2>5, EventsAssumption DEF WorkerHasSlot, Start, Slot!Verdicts
<1>6. ASSUME NEW r \in Runs, NumberTerminal(r) PROVE WorkerHasSlot'
  <2>1. worker[r] = "recorded" /\ worker' = [worker EXCEPT ![r] = "done"]
          /\ UNCHANGED <<slot, verdict, input>>
    BY <1>6 DEF NumberTerminal, slotVars
  <2>2. worker \in [Runs -> {"none", "running", "recorded", "done"}]
    BY DEF ThreadTyped
  <2> QED
    BY <2>1, <2>2 DEF WorkerHasSlot, Slot!Verdicts, Start
<1>7. ASSUME UNCHANGED <<slot, verdict, worker, input>> PROVE WorkerHasSlot'
  BY <1>7 DEF WorkerHasSlot, Slot!Verdicts, Start
<1> QED
  BY <1>1, <1>2, <1>3, <1>4, <1>5, <1>6, <1>7, StepFacts

\* A worker that is done stays done, and its verdict what it was.
DoneStays == \A r \in Runs : worker[r] = "done" => worker'[r] = "done"
  /\ verdict'[r] = verdict[r]

(* No step takes back the end of a worker.                                 *)
LEMMA DoneStep ==
  ASSUME Typed, WorkerHasSlot, [Next]_vars
  PROVE  DoneStays
<1> ThreadTyped
  BY TypedParts
<1>1. ASSUME HandleRequest PROVE DoneStays
  <2>1. UNCHANGED <<worker, verdict>>
    BY <1>1
       DEF HandleRequest, vars, screenVars, callVars, hostVars, slotVars, threadVars,
           emitVars, HandleStart, HandleCancel, Slot!Reserve, Slot!Ask
  <2> QED
    BY <2>1 DEF DoneStays
<1>2. ASSUME Notify PROVE DoneStays
  <2>1. worker' = (IF input.event = "running" THEN [worker EXCEPT ![input.request[1]] = "running"] ELSE worker)
        /\ UNCHANGED verdict
    BY <1>2 DEF Notify, slotVars
  <2>2. input.event = "running" => slot \in Runs /\ input.request[1] = slot
          /\ worker[slot] = "none"
    BY DEF WorkerHasSlot, Start
  <2> QED
    BY <2>1, <2>2 DEF DoneStays, ThreadTyped
<1>3. ASSUME NEW r \in Runs, NEW v \in Slot!Verdicts, Complete(r, v) PROVE DoneStays
  <2>1. worker[r] = "running" /\ verdict' = [verdict EXCEPT ![r] = v]
          /\ worker' = [worker EXCEPT ![r] = "recorded"]
    BY <1>3 DEF Complete, Slot!Finish
  <2> QED
    BY <2>1 DEF DoneStays, ThreadTyped
<1>4. ASSUME NEW r \in Runs, NumberTerminal(r) PROVE DoneStays
  <2>1. worker' = [worker EXCEPT ![r] = "done"] /\ UNCHANGED verdict
    BY <1>4 DEF NumberTerminal, slotVars
  <2> QED
    BY <2>1 DEF DoneStays, ThreadTyped
<1>5. ASSUME UNCHANGED <<worker, verdict>> PROVE DoneStays
  BY <1>5 DEF DoneStays
<1> QED
  BY <1>1, <1>2, <1>3, <1>4, <1>5, StepFacts

(* Events stay true while no new one is numbered.                          *)
LEMMA OldEvents ==
  ASSUME Typed, EventsAreTrue, Flows, DoneStays
  PROVE  EventsAreTrue'
<1>1. \A e \in AllEvents' : e \in AllEvents
  BY DEF Flows
<1>2. ASSUME NEW e \in AllEvents'
      PROVE IsTerminal(e) => worker'[e.run] = "done" /\ e.state = verdict'[e.run]
  <2>1. e \in AllEvents
          /\ (IsTerminal(e) => e.run \in Runs /\ worker[e.run] = "done" /\ e.state = verdict[e.run])
    BY <1>1 DEF EventsAreTrue, IsTerminal
  <2> QED
    BY <2>1 DEF DoneStays
<1> QED
  BY <1>1, <1>2 DEF EventsAreTrue, Slot!Verdicts, IsTerminal, Terminal

(* A new event is true if it is what its kind says, and follows no end     *)
(* of its run.                                                             *)
LEMMA NewEvent ==
  ASSUME Typed, EventsAreTrue, DoneStays, NEW e, Adds(e), e.seq = sequence + 1,
         e.kind # "callback" => e.run \in Runs,
         e.kind = "state" => e.state \in {"running", "cancelling"} \cup Slot!Verdicts,
         IsTerminal(e) => worker'[e.run] = "done" /\ e.state = verdict'[e.run],
         IsTerminal(e) \/ e.kind = "node" => \A f \in AllEvents : f.run = e.run
           => ~IsTerminal(f)
  PROVE  EventsAreTrue'
<1>1. AllEvents' \subseteq AllEvents \cup {e}
  BY DEF Adds
<1>2. \A f \in AllEvents : f.seq \in Nat /\ f.seq < e.seq
  BY TypedParts, EventsTyped DEF Events, ScreenTyped
<1>3. ASSUME NEW f \in AllEvents
      PROVE IsTerminal(f) => worker'[f.run] = "done" /\ f.state = verdict'[f.run]
  <2>1. IsTerminal(f) => f.run \in Runs /\ worker[f.run] = "done" /\ f.state = verdict[f.run]
    BY DEF EventsAreTrue, IsTerminal
  <2> QED
    BY <2>1 DEF DoneStays
<1>4. ASSUME NEW f \in AllEvents', NEW g \in AllEvents', IsTerminal(f), g.run = f.run
      PROVE (IsTerminal(g) => g.seq = f.seq) /\ (g.kind = "node" => g.seq < f.seq)
  <2>1. CASE f \in AllEvents /\ g \in AllEvents
    BY <1>4, <2>1 DEF EventsAreTrue
  <2>2. CASE f \in AllEvents /\ g = e
    BY <1>4, <2>2
  <2>3. CASE f = e /\ g \in AllEvents
    BY <1>2, <1>4, <2>3
  <2>4. CASE f = e /\ g = e
    BY <1>4, <2>4 DEF IsTerminal
  <2> QED
    BY <1>1, <1>4, <2>1, <2>2, <2>3, <2>4
<1>5. ASSUME NEW f \in AllEvents'
      PROVE  /\ f.kind # "callback" => f.run \in Runs
             /\ f.kind = "state" => f.state \in {"running", "cancelling"} \cup Slot!Verdicts
             /\ IsTerminal(f) => worker'[f.run] = "done" /\ f.state = verdict'[f.run]
  BY <1>1, <1>3 DEF EventsAreTrue
<1> QED
  BY <1>4, <1>5 DEF EventsAreTrue, IsTerminal, Terminal, Slot!Verdicts

(* Events are numbered true and stay so.                                   *)
LEMMA EventsStep ==
  ASSUME Typed, WorkerHasSlot, EventsAreTrue, [Next]_vars
  PROVE  EventsAreTrue'
<1>1. CASE Flows
  BY <1>1, DoneStep, OldEvents
<1>2. ASSUME NumberState PROVE EventsAreTrue'
  <2> DEFINE e == Event("state", input.request[1], input.event, sequence + 1)
  <2>1. "input" \in Emitters /\ input.request[1] \in Runs \cup {NoRun}
          /\ input.event \in {"none", "running", "cancelling"} \cup Slot!Verdicts
    BY <1>2, TypedParts DEF Emitters, ThreadTyped, Inputs, WorkerHasSlot, NumberState
  <2>2. Number("input", "state", input.request[1], input.event)
          /\ UNCHANGED <<stdout, channel, frame, highest>>
    BY <1>2 DEF NumberState, screenVars, hostVars
  <2>3. Adds(e)
    BY <2>1, <2>2, NumberAdds
  <2>4. e.kind = "state" /\ e.run = input.request[1] /\ e.state = input.event
          /\ e.seq = sequence + 1
    BY DEF Event
  <2>5. input.event \in {"running", "cancelling"} /\ input.request[1] \in Runs
    BY <1>2, TypedParts DEF NumberState, ThreadTyped, Inputs, Requests
  <2>6. ~IsTerminal(e) /\ e.kind # "node"
    BY <2>4, <2>5 DEF IsTerminal, Terminal
  <2> HIDE DEF e
  <2> QED
    BY <2>3, <2>4, <2>5, <2>6, DoneStep, NewEvent
<1>3. ASSUME Callback PROVE EventsAreTrue'
  <2> DEFINE e == Event("callback", NoRun, "none", sequence + 1)
  <2>1. "device" \in Emitters /\ NoRun \in Runs \cup {NoRun}
          /\ "none" \in {"none", "running", "cancelling"} \cup Slot!Verdicts
    BY <1>3, TypedParts DEF Emitters, ThreadTyped, Inputs, WorkerHasSlot
  <2>2. Number("device", "callback", NoRun, "none")
          /\ UNCHANGED <<stdout, channel, frame, highest>>
    BY <1>3 DEF Callback, screenVars, hostVars
  <2>3. Adds(e)
    BY <2>1, <2>2, NumberAdds
  <2>4. e.kind = "callback" /\ e.run = NoRun /\ e.state = "none" /\ e.seq = sequence + 1
    BY DEF Event
  <2>5. ~IsTerminal(e) /\ e.kind # "node"
    BY <2>4 DEF IsTerminal, Terminal
  <2> HIDE DEF e
  <2> QED
    BY <2>3, <2>4, <2>5, DoneStep, NewEvent
<1>4. ASSUME NEW r \in Runs, NodeEvent(r) PROVE EventsAreTrue'
  <2> DEFINE e == Event("node", r, "none", sequence + 1)
  <2>1. r \in Emitters /\ r \in Runs \cup {NoRun}
          /\ "none" \in {"none", "running", "cancelling"} \cup Slot!Verdicts
    BY <1>4, TypedParts DEF Emitters, ThreadTyped, Inputs, WorkerHasSlot
  <2>2. Number(r, "node", r, "none") /\ UNCHANGED <<stdout, channel, frame, highest>>
    BY <1>4 DEF NodeEvent, screenVars, hostVars
  <2>3. Adds(e)
    BY <2>1, <2>2, NumberAdds
  <2>4. e.kind = "node" /\ e.run = r /\ e.state = "none" /\ e.seq = sequence + 1
    BY DEF Event
  <2>5. worker[r] = "running"
    BY <1>4 DEF NodeEvent
  <2>6. ~IsTerminal(e) /\ \A f \in AllEvents : f.run = e.run => ~IsTerminal(f)
    BY <2>4, <2>5 DEF EventsAreTrue, IsTerminal
  <2> HIDE DEF e
  <2> QED
    BY <2>3, <2>4, <2>6, DoneStep, NewEvent
<1>5. ASSUME NEW r \in Runs, NumberTerminal(r) PROVE EventsAreTrue'
  <2> DEFINE e == Event("state", r, verdict[r], sequence + 1)
  <2>1. r \in Emitters /\ r \in Runs \cup {NoRun}
          /\ verdict[r] \in {"none", "running", "cancelling"} \cup Slot!Verdicts
    BY <1>5, TypedParts DEF Emitters, ThreadTyped, Inputs, WorkerHasSlot, NumberTerminal
  <2>2. Number(r, "state", r, verdict[r]) /\ UNCHANGED <<stdout, channel, frame, highest>>
    BY <1>5 DEF NumberTerminal, screenVars, hostVars
  <2>3. Adds(e)
    BY <2>1, <2>2, NumberAdds
  <2>4. e.kind = "state" /\ e.run = r /\ e.state = verdict[r] /\ e.seq = sequence + 1
    BY DEF Event
  <2>5. worker[r] = "recorded" /\ worker' = [worker EXCEPT ![r] = "done"] /\ UNCHANGED verdict
    BY <1>5 DEF NumberTerminal, slotVars
  <2>6. verdict[r] \in Slot!Verdicts /\ worker'[r] = "done"
    BY <2>5, TypedParts DEF WorkerHasSlot, ThreadTyped
  <2>7. \A f \in AllEvents : f.run = r => ~IsTerminal(f)
    BY <2>5 DEF EventsAreTrue
  <2> HIDE DEF e
  <2> QED
    BY <2>3, <2>4, <2>5, <2>6, <2>7, DoneStep, NewEvent
<1> QED
  BY <1>1, <1>2, <1>3, <1>4, <1>5, FlowStep DEF NumberingStep

(* The interface is given the events in the order of their numbers.        *)
LEMMA OrderStep ==
  ASSUME Typed, InOrder, [Next]_vars
  PROVE  InOrder'
<1> MessagesTyped /\ ScreenTyped
  BY TypedParts
<1>1. ASSUME HearEvent PROVE InOrder'
  <2> DEFINE e == Head(channel)
  <2>1. channel # <<>> /\ channel' = Tail(channel) /\ UNCHANGED highest
    BY <1>1 DEF HearEvent
  <2>2. channel \in Seq(Events) /\ frame \in Seq(Events)
    BY DEF MessagesTyped
  <2>3. /\ e \in Events /\ e = channel[1] /\ 1 \in DOMAIN channel
        /\ \A i \in DOMAIN channel' : i + 1 \in DOMAIN channel /\ channel'[i] = channel[i + 1]
             /\ i \in Nat /\ 1 < i + 1
        /\ \A i, j \in DOMAIN channel' : i < j => i + 1 < j + 1
    BY <2>1, <2>2, TailIndex
  <2>4. ToSet(channel) = ToSet(channel') \cup {e}
    BY <2>1, <2>2, ElementFacts
  <2>5. applied < e.seq /\ e.seq <= highest /\ e.seq \in Nat
    BY <2>3, <2>4 DEF InOrder, Events
  <2>6. applied' = e.seq
    BY <1>1, <2>5 DEF HearEvent, ScreenTyped
  <2>7. \A i \in DOMAIN channel' : e.seq < channel'[i].seq
    BY <2>3 DEF InOrder
  <2>8. \A m \in ToSet(channel') : applied' < m.seq /\ m.seq <= highest'
    BY <2>1, <2>4, <2>6, <2>7 DEF InOrder, ToSet
  <2>9. \A i, j \in DOMAIN channel' : i < j => channel'[i].seq < channel'[j].seq
    BY <2>3 DEF InOrder
  <2>10. frame' = frame \/ frame' = <<>> \/ (~IsTerminal(e) /\ frame' = Append(frame, e))
    BY <1>1, <2>5 DEF HearEvent, Flush, ScreenTyped, screenVars
  <2> HIDE DEF e
  <2>11. ASSUME NEW m \in ToSet(frame') PROVE m.seq <= applied' /\ ~IsTerminal(m)
    <3>1. m \in ToSet(frame) \/ (m = e /\ ~IsTerminal(e))
      <4>1. ToSet(Append(frame, e)) = ToSet(frame) \cup {e}
        BY <2>2, <2>3, ElementFacts
      <4>2. ToSet(<<>>) = {}
        BY SmallSets
      <4> QED
        BY <2>10, <2>11, <4>1, <4>2
    <3>2. m \in ToSet(frame) => m.seq \in Nat /\ m.seq <= applied /\ ~IsTerminal(m)
      BY EventsTyped DEF InOrder, Events
    <3> QED
      BY <2>5, <2>6, <3>1, <3>2 DEF ScreenTyped
  <2> QED
    BY <2>8, <2>9, <2>11 DEF InOrder
<1>2. ASSUME CommitFrame PROVE InOrder'
  <2>1. frame' = <<>> /\ UNCHANGED <<channel, applied, highest>>
    BY <1>2 DEF CommitFrame, hostVars
  <2>2. ToSet(frame') = {}
    BY <2>1, SmallSets
  <2> QED
    BY <2>1, <2>2 DEF InOrder
<1>3. ASSUME DispatchEvent PROVE InOrder'
  <2> DEFINE e == Head(stdout)
  <2>1. stdout \in Seq(Events \cup Responses) /\ stdout # <<>> /\ e.kind # "response"
          /\ UNCHANGED <<applied, frame>>
    BY <1>3 DEF DispatchEvent, MessagesTyped, screenVars
  <2>2. e \in Events \cup Responses
    BY <2>1, TailIndex
  <2>3. e \in Events /\ e.seq \in Nat
    BY <2>1, <2>2 DEF Responses, Events
  <2>4. CASE ~(e.seq > highest)
    <3>1. UNCHANGED <<channel, highest>>
      BY <1>3, <2>4 DEF DispatchEvent, hostVars
    <3> QED
      BY <2>1, <3>1 DEF InOrder
  <2>5. CASE e.seq > highest
    <3>1. highest' = e.seq /\ channel' = Append(channel, e)
      BY <1>3, <2>5 DEF DispatchEvent
    <3> HIDE DEF e
    <3>2. /\ Len(channel) \in Nat /\ DOMAIN channel = 1..Len(channel)
          /\ DOMAIN channel' = DOMAIN channel \cup {Len(channel) + 1}
          /\ \A i \in DOMAIN channel : channel'[i] = channel[i] /\ i < Len(channel) + 1
          /\ channel'[Len(channel) + 1] = e
      BY <2>3, <3>1, AppendIndex DEF MessagesTyped
    <3>3. ToSet(channel') = ToSet(channel) \cup {e}
      BY <2>3, <3>1, ElementFacts DEF MessagesTyped
    <3>4. \A m \in ToSet(channel) : m.seq \in Nat /\ applied < m.seq /\ m.seq <= highest
            /\ m.seq < e.seq
      BY <2>3, <2>5, EventsTyped DEF InOrder, Events, ScreenTyped
    <3>5. \A i \in DOMAIN channel : channel[i].seq < e.seq
      BY <3>4 DEF ToSet
    <3>6. ASSUME NEW i \in DOMAIN channel', NEW j \in DOMAIN channel', i < j
          PROVE channel'[i].seq < channel'[j].seq
      <4>1. CASE j \in DOMAIN channel
        <5>1. i \in DOMAIN channel
          BY <3>2, <3>6, <4>1
        <5> QED
          BY <3>2, <3>6, <4>1, <5>1 DEF InOrder
      <4>2. CASE j = Len(channel) + 1
        <5>1. i \in DOMAIN channel
          BY <3>2, <3>6, <4>2
        <5> QED
          BY <3>2, <3>5, <4>2, <5>1
      <4> QED
        BY <3>2, <4>1, <4>2
    <3>7. \A m \in ToSet(channel') : applied < m.seq /\ m.seq <= highest'
      BY <2>3, <2>5, <3>1, <3>3, <3>4 DEF ScreenTyped
    <3> QED
      BY <2>1, <3>6, <3>7 DEF InOrder
  <2> QED
    BY <2>4, <2>5
<1>4. ASSUME UNCHANGED <<channel, applied, highest, frame>> PROVE InOrder'
  BY <1>4 DEF InOrder
<1> QED
  BY <1>1, <1>2, <1>3, <1>4, StepFacts

\* What the screen shows of its run after the frame is committed, and e with
\* it: the same, or what a pending event said, or what e says.
Shows(e) ==
  /\ view'.run = view.run /\ view'.bound = view.bound
  /\ ~view.bound => view' = view
  /\ \/ view'.state = view.state
     \/ view'.state \in {"running", "cancelling"}
     \/ view'.state = e.state /\ e.run = view.run

\* The first event of the channel is heard: it waits for the next frame, or
\* is an end, which is shown at once.
Hears(e) ==
  /\ e \in ToSet(channel) /\ e \in Live /\ e \in AllEvents
  /\ applied < e.seq /\ applied' = e.seq /\ e.seq <= highest
  /\ \A m \in Live' : m.seq > e.seq
  /\ \/ /\ ~IsTerminal(e)
        /\ UNCHANGED <<view, locked, registered>>
        /\ ToSet(frame') \subseteq ToSet(frame) \cup {e}
     \/ /\ IsTerminal(e)
        /\ frame' = <<>> /\ locked' = FALSE /\ registered' = Consumed(e)
        /\ Shows(e)

(* What hearing an event does.                                             *)
LEMMA HearCases ==
  ASSUME Typed, InOrder, EventsAreTrue, HearEvent
  PROVE  Hears(Head(channel))
<1> DEFINE e == Head(channel)
    s == Append(frame, e)
<1> ScreenTyped /\ MessagesTyped
  BY TypedParts
<1>1. channel # <<>> /\ channel' = Tail(channel) /\ channel \in Seq(Events)
        /\ frame \in Seq(Events) /\ UNCHANGED <<stdout, inHand, highest>>
  BY DEF HearEvent, MessagesTyped, emitVars
<1>2. /\ e \in Events /\ e = channel[1] /\ 1 \in DOMAIN channel
      /\ \A i \in DOMAIN channel' : i + 1 \in DOMAIN channel /\ channel'[i] = channel[i + 1]
           /\ i \in Nat /\ 1 < i + 1
  BY <1>1, TailIndex
<1>3. ToSet(channel) = ToSet(channel') \cup {e}
  BY <1>1, ElementFacts
<1>4. applied < e.seq /\ e.seq <= highest /\ e.seq \in Nat /\ e \in ToSet(channel)
  BY <1>2, <1>3 DEF InOrder, Events
<1>5. e \in Live /\ e \in AllEvents
  BY <1>4 DEF Live, AllEvents
<1>6. applied' = e.seq /\ ~(e.seq <= applied) /\ e.seq > applied
  BY <1>4 DEF HearEvent, ScreenTyped
<1>7. \A i \in DOMAIN channel' : e.seq < channel'[i].seq
  BY <1>2 DEF InOrder
<1>8. ASSUME NEW m \in Live' PROVE m.seq > e.seq
  <2>1. CASE m \in ToSet(channel')
    BY <1>7, <2>1 DEF ToSet
  <2>2. CASE m \in Queued' /\ m.kind # "response" /\ m.seq > highest'
    <3>1. Queued' = Queued /\ highest' = highest
      BY <1>1 DEF Queued, Emitters
    <3>2. m \in AllEvents
      BY <2>2, <3>1 DEF AllEvents
    <3>3. m.seq \in Nat
      BY <3>2, EventsTyped DEF Events
    <3> QED
      BY <1>4, <2>2, <3>1, <3>3 DEF ScreenTyped
  <2> QED
    BY <1>8, <2>1, <2>2 DEF Live
<1>9. ToSet(s) = ToSet(frame) \cup {e} /\ s \in Seq(Events)
  BY <1>1, <1>2, ElementFacts, AppendIndex
<1>10. CASE ~IsTerminal(e)
  <2>1. UNCHANGED <<view, locked, registered>> /\ (frame' = frame \/ frame' = s)
    BY <1>6, <1>10 DEF HearEvent
  <2> HIDE DEF e, s
  <2>2. ToSet(frame') \subseteq ToSet(frame) \cup {e}
    BY <1>9, <2>1
  <2> QED
    BY <1>4, <1>5, <1>6, <1>8, <1>10, <2>1, <2>2 DEF Hears, e
<1>11. CASE IsTerminal(e)
  <2>1. frame' = <<>> /\ locked' = FALSE /\ registered' = Consumed(e) /\ view' = Projected(s)
    BY <1>6, <1>11 DEF HearEvent, Flush
  <2> HIDE DEF e, s
  <2>2. \A m \in ToSet(s) : m \in AllEvents
    BY <1>5, <1>9 DEF AllEvents
  <2>3. StatesAreKnown(s)
    BY <2>2 DEF StatesAreKnown, EventsAreTrue, ToSet
  <2>4. BecomesOf(view', s)
    BY <1>9, <2>1, <2>3, ProjectionFacts DEF ScreenTyped
  <2>5. ASSUME NEW i \in DOMAIN s, s[i].kind = "state", s[i].run = view.run,
               view'.state = s[i].state
        PROVE view'.state \in {"running", "cancelling"}
          \/ (view'.state = e.state /\ e.run = view.run)
    <3>1. s[i] \in ToSet(s)
      BY DEF ToSet
    <3>2. CASE s[i] = e
      BY <2>5, <3>2
    <3>3. CASE s[i] \in ToSet(frame)
      <4>1. ~IsTerminal(s[i])
        BY <3>3 DEF InOrder
      <4> QED
        BY <2>3, <2>5, <4>1 DEF StatesAreKnown, IsTerminal, Terminal, Slot!Verdicts
    <3> QED
      BY <1>9, <3>1, <3>2, <3>3
  <2>6. Shows(e)
    BY <2>4, <2>5 DEF BecomesOf, Shows
  <2> QED
    BY <1>4, <1>5, <1>6, <1>8, <1>11, <2>1, <2>6 DEF Hears, e
<1> QED
  BY <1>10, <1>11

(* What committing a frame does.                                           *)
LEMMA CommitCases ==
  ASSUME Typed, InOrder, EventsAreTrue, CommitFrame
  PROVE  /\ frame' = <<>>
         /\ view'.run = view.run /\ view'.bound = view.bound
         /\ ~view.bound => view' = view
         /\ view'.state = view.state \/ view'.state \in {"running", "cancelling"}
<1> ScreenTyped /\ MessagesTyped
  BY TypedParts
<1>1. frame' = <<>> /\ view' = Projected(frame) /\ frame \in Seq(Events)
  BY DEF CommitFrame, MessagesTyped
<1>2. StatesAreKnown(frame)
  BY DEF StatesAreKnown, EventsAreTrue, AllEvents, ToSet
<1>3. BecomesOf(view', frame)
  BY <1>1, <1>2, ProjectionFacts DEF ScreenTyped
<1>4. ASSUME NEW i \in DOMAIN frame, frame[i].kind = "state"
      PROVE frame[i].state \in {"running", "cancelling"}
  <2>1. ~IsTerminal(frame[i])
    BY DEF InOrder, ToSet
  <2> QED
    BY <1>2, <1>4, <2>1 DEF StatesAreKnown, IsTerminal, Terminal, Slot!Verdicts
<1> QED
  BY <1>1, <1>3, <1>4 DEF BecomesOf

\* The sidecar answers the request it has handled, and nothing else.
Answers ==
  \A m \in ToSet(stdout') :
    m.kind = "response" =>
      m \in ToSet(stdout) \/ (QueueAnswer /\ m = Response(input.request, input.ok))

(* Who answers.                                                            *)
LEMMA AnswerStep ==
  ASSUME Typed, [Next]_vars
  PROVE  Answers
<1> MessagesTyped
  BY TypedParts
<1>1. ASSUME QueueAnswer PROVE Answers
  <2> DEFINE m == Response(input.request, input.ok)
      a == Append(stdout, m)
      h == inHand["input"]
  <2>1. input.request \in Requests /\ input.ok \in BOOLEAN
    BY <1>1, TypedParts DEF QueueAnswer, ThreadTyped, Inputs
  <2>2. m \in Events \cup Responses
    BY <2>1 DEF Response, Responses
  <2>3. stdout' = a \o h
    BY <1>1 DEF QueueAnswer
  <2>4. h = <<>> \/ \E e \in Events \cup Responses : h = <<e>>
    BY DEF MessagesTyped, Emitters
  <2>5. \A e \in ToSet(h) : e.kind # "response"
    <3>1. h = <<>> \/ \E e \in Events : h = <<e>>
      BY DEF MessagesTyped, Emitters
    <3> HIDE DEF h
    <3>2. \A e \in Events : e.kind # "response"
      BY DEF Events
    <3>3. CASE h = <<>>
      BY <3>3, SmallSets
    <3>4. ASSUME NEW e \in Events, h = <<e>> PROVE \A f \in ToSet(h) : f.kind # "response"
      BY <3>2, <3>4, SmallSets
    <3> QED
      BY <3>1, <3>3, <3>4
  <2> HIDE DEF m, h
  <2>6. a \in Seq(Events \cup Responses) /\ ToSet(a) = ToSet(stdout) \cup {m}
    <3>1. stdout \in Seq(Events \cup Responses)
      BY DEF MessagesTyped
    <3> QED
      BY <2>2, <3>1, AppendIndex, ElementFacts
  <2> HIDE DEF a
  <2>7. ToSet(a \o h) = ToSet(a) \cup ToSet(h)
    BY <2>4, <2>6, ConcatTyped
  <2> QED
    BY <1>1, <2>3, <2>5, <2>6, <2>7 DEF Answers, m
<1>2. ASSUME NEW x \in Emitters, QueueEvent(x) PROVE Answers
  <2> DEFINE h == inHand[x]
  <2>1. h = <<>> \/ \E e \in Events : h = <<e>>
    BY DEF MessagesTyped
  <2>2. stdout' = stdout \o h /\ stdout \in Seq(Events \cup Responses)
    BY <1>2 DEF QueueEvent, MessagesTyped
  <2> HIDE DEF h
  <2>3. \A e \in Events : e.kind # "response"
    BY DEF Events
  <2>4. \A e \in ToSet(h) : e.kind # "response"
    <3>1. CASE h = <<>>
      BY <3>1, SmallSets
    <3>2. ASSUME NEW e \in Events, h = <<e>> PROVE \A f \in ToSet(h) : f.kind # "response"
      BY <2>3, <3>2, SmallSets
    <3> QED
      BY <2>1, <3>1, <3>2
  <2>5. h = <<>> \/ \E e \in Events \cup Responses : h = <<e>>
    BY <2>1
  <2>6. ToSet(stdout \o h) = ToSet(stdout) \cup ToSet(h)
    BY <2>2, <2>5, ConcatTyped
  <2> QED
    BY <2>2, <2>4, <2>6 DEF Answers
<1>3. ASSUME DispatchResponse PROVE Answers
  <2>1. stdout # <<>> /\ stdout' = Tail(stdout) /\ stdout \in Seq(Events \cup Responses)
    BY <1>3 DEF DispatchResponse, MessagesTyped
  <2>2. ToSet(stdout') \subseteq ToSet(stdout)
    BY <2>1, ElementFacts
  <2> QED
    BY <2>2 DEF Answers
<1>4. ASSUME DispatchEvent PROVE Answers
  <2>1. stdout # <<>> /\ stdout' = Tail(stdout) /\ stdout \in Seq(Events \cup Responses)
    BY <1>4 DEF DispatchEvent, MessagesTyped
  <2>2. ToSet(stdout') \subseteq ToSet(stdout)
    BY <2>1, ElementFacts
  <2> QED
    BY <2>2 DEF Answers
<1>5. ASSUME UNCHANGED stdout PROVE Answers
  BY <1>5 DEF Answers
<1> QED
  BY <1>1, <1>2, <1>3, <1>4, <1>5, StepFacts

(* The requests that start runs.                                           *)
LEMMA StartRequests ==
  /\ \A r \in Runs : Start(r) \in Requests /\ Start(r) # <<NoRun, "none">>
  /\ \A r \in Runs : \A s \in Runs : (Start(r) = Start(s) <=> r = s)
       /\ Start(r) # <<s, "cancel">>
  /\ \A q \in Requests : \E r \in Runs : q = Start(r) \/ q = <<r, "cancel">>
  BY DEF Start, Requests

(* A start that is under way is shown.                                     *)
LEMMA ShownStep ==
  ASSUME Typed, InOrder, EventsAreTrue, StartsAreShown, [Next]_vars
  PROVE  StartsAreShown'
<1> ScreenTyped /\ call \in [Requests -> {"idle", "validating", "asked", "sent", "answered"}]
      /\ outcome \in [Requests -> {"none", "accepted", "refused", "timeout"}]
  BY TypedParts DEF CallTyped
<1>1. ASSUME NEW r \in Runs, RunGraph(r) PROVE StartsAreShown'
  <2>1. /\ call' = [call EXCEPT ![Start(r)] = "validating"] /\ outcome' = outcome
             /\ ~Active(view.state) /\ outcome[Start(r)] = "none"
        /\ view' = [run |-> r, bound |-> FALSE, state |-> "starting", last |-> 0]
    BY <1>1 DEF RunGraph, EmptyView, Start
  <2>2. \A s \in Runs : call[Start(s)] = "idle"
    BY <2>1 DEF StartsAreShown, Active
  <2>3. \A s \in Runs : s # r => call'[Start(s)] = "idle"
    BY <2>1, <2>2, StartRequests
  <2>4. call'[Start(r)] = "validating" /\ outcome'[Start(r)] = "none"
    BY <2>1, StartRequests
  <2> QED
    BY <2>1, <2>3, <2>4 DEF StartsAreShown
<1>2. ASSUME NEW r \in Runs, Validated(r) PROVE StartsAreShown'
  <2>1. /\ call[Start(r)] = "validating"
        /\ \/ call' = [call EXCEPT ![Start(r)] = "asked"] /\ UNCHANGED <<view, outcome>>
           \/ /\ call' = [call EXCEPT ![Start(r)] = "idle"]
                   /\ outcome' = [outcome EXCEPT ![Start(r)] = "refused"]
              /\ view' = EmptyView
    BY <1>2, StartRequests DEF Validated, FailToStart, Start, StartsAreShown
  <2>2. view.run = r /\ view.state = "starting" /\ ~view.bound /\ outcome[Start(r)] = "none"
    BY <2>1 DEF StartsAreShown
  <2>3. \A s \in Runs : s # r => call[Start(s)] = "idle" /\ call'[Start(s)] = call[Start(s)]
    BY <2>1, <2>2, StartRequests DEF StartsAreShown
  <2>4. CASE call' = [call EXCEPT ![Start(r)] = "asked"] /\ UNCHANGED <<view, outcome>>
    <3>1. call'[Start(r)] = "asked"
      BY <2>4, StartRequests
    <3> QED
      BY <2>2, <2>3, <2>4, <3>1 DEF StartsAreShown
  <2>5. CASE call' = [call EXCEPT ![Start(r)] = "idle"] /\ view' = EmptyView
    <3>1. call'[Start(r)] = "idle"
      BY <2>5, StartRequests
    <3> QED
      BY <2>3, <2>5, <3>1 DEF StartsAreShown, EmptyView
  <2> QED
    BY <2>1, <2>4, <2>5
<1>3. ASSUME NEW r \in Runs, CancelRun(r) PROVE StartsAreShown'
  <2>1. call' = [call EXCEPT ![<<r, "cancel">>] = "asked"] /\ UNCHANGED <<view, outcome>>
    BY <1>3 DEF CancelRun, screenVars
  <2>2. \A s \in Runs : call'[Start(s)] = call[Start(s)]
    BY <2>1, StartRequests
  <2> QED
    BY <2>1, <2>2 DEF StartsAreShown
<1>4. ASSUME NEW r \in Runs, StartReturns(r) PROVE StartsAreShown'
  <2>1. /\ call[Start(r)] = "answered" /\ call' = [call EXCEPT ![Start(r)] = "idle"]
        /\ view' = EmptyView \/ view' = [view EXCEPT !.bound = TRUE, !.state = "running"]
    BY <1>4 DEF StartReturns, FailToStart, Start, StartsAreShown
  <2>2. view.run = r
    BY <2>1 DEF StartsAreShown
  <2>3. \A s \in Runs : call'[Start(s)] = "idle"
    BY <2>1, <2>2, StartRequests DEF StartsAreShown
  <2>4. view'.state # "starting"
    <3>1. EmptyView.state # "starting"
      BY DEF EmptyView
    <3>2. [view EXCEPT !.bound = TRUE, !.state = "running"].state = "running"
      BY DEF ScreenTyped, Views
    <3> QED
      BY <2>1, <3>1, <3>2
  <2> QED
    BY <2>3, <2>4 DEF StartsAreShown
<1>5. ASSUME NEW r \in Runs, CancelReturns(r) PROVE StartsAreShown'
  <2>1. call' = [call EXCEPT ![<<r, "cancel">>] = "idle"] /\ UNCHANGED <<view, outcome>>
    BY <1>5 DEF CancelReturns, screenVars
  <2>2. \A s \in Runs : call'[Start(s)] = call[Start(s)]
    BY <2>1, StartRequests
  <2> QED
    BY <2>1, <2>2 DEF StartsAreShown
<1>6. ASSUME HearEvent PROVE StartsAreShown'
  <2>1. UNCHANGED <<call, outcome>>
    BY <1>6 DEF HearEvent, callVars
  <2>2. Hears(Head(channel))
    BY <1>6, HearCases
  <2> DEFINE e == Head(channel)
  <2> HIDE DEF e
  <2>3. view'.run = view.run /\ view'.bound = view.bound /\ (~view.bound => view' = view)
    BY <2>2 DEF Hears, Shows
  <2>4. view'.state = view.state \/ view'.state # "starting"
    BY <2>2 DEF Hears, Shows, IsTerminal, Terminal
  <2> QED
    BY <2>1, <2>3, <2>4 DEF StartsAreShown
<1>7. ASSUME CommitFrame PROVE StartsAreShown'
  <2>1. UNCHANGED <<call, outcome>>
    BY <1>7 DEF CommitFrame, callVars
  <2>2. view'.run = view.run /\ view'.bound = view.bound /\ (~view.bound => view' = view)
          /\ (view'.state = view.state \/ view'.state # "starting")
    BY <1>7, CommitCases
  <2> QED
    BY <2>1, <2>2 DEF StartsAreShown
<1>8. ASSUME NEW q \in Requests, Send(q) PROVE StartsAreShown'
  <2>1. call[q] = "asked" /\ call' = [call EXCEPT ![q] = "sent"] /\ UNCHANGED <<view, outcome>>
    BY <1>8 DEF Send, screenVars
  <2>2. \A s \in Runs : IF q = Start(s) THEN call[Start(s)] = "asked"
          /\ call'[Start(s)] = "sent" ELSE call'[Start(s)] = call[Start(s)]
    BY <2>1, StartRequests
  <2> QED
    BY <2>1, <2>2 DEF StartsAreShown
<1>9. ASSUME NEW q \in Requests, TimeOut(q) PROVE StartsAreShown'
  <2>1. call[q] = "sent" /\ call' = [call EXCEPT ![q] = "answered"]
          /\ outcome' = [outcome EXCEPT ![q] = "timeout"] /\ UNCHANGED view
    BY <1>9 DEF TimeOut, screenVars
  <2>2. \A s \in Runs : IF q = Start(s) THEN call[Start(s)] = "sent"
          /\ call'[Start(s)] = "answered" /\ outcome'[Start(s)] = "timeout"
        ELSE call'[Start(s)] = call[Start(s)] /\ outcome'[Start(s)] = outcome[Start(s)]
    BY <2>1, StartRequests
  <2> QED
    BY <2>1, <2>2 DEF StartsAreShown
<1>10. ASSUME DispatchResponse PROVE StartsAreShown'
  <2> DEFINE q == Head(stdout).request
  <2>1. Head(stdout) \in Responses
    <3>1. Head(stdout) \in Events \cup Responses /\ Head(stdout).kind = "response"
      BY <1>10, TypedParts, TailIndex DEF DispatchResponse, MessagesTyped
    <3> QED
      BY <3>1 DEF Events
  <2>2. q \in Requests
    BY <2>1 DEF Responses
  <2>3. /\ UNCHANGED view
        /\ UNCHANGED <<call, outcome>>
             \/ (/\ call[q] = "sent" /\ call' = [call EXCEPT ![q] = "answered"]
                                           /\ \E o \in {"accepted", "refused"} :
                                                outcome' = [outcome EXCEPT ![q] = o])
    BY <1>10 DEF DispatchResponse, screenVars
  <2> HIDE DEF q
  <2>4. CASE UNCHANGED <<call, outcome>>
    BY <2>3, <2>4 DEF StartsAreShown
  <2>5. ASSUME NEW o \in {"accepted", "refused"}, call[q] = "sent",
               call' = [call EXCEPT ![q] = "answered"], outcome' = [outcome EXCEPT ![q] = o]
        PROVE StartsAreShown'
    <3>1. \A s \in Runs : IF q = Start(s) THEN call[Start(s)] = "sent"
            /\ call'[Start(s)] = "answered" /\ outcome'[Start(s)] = o
          ELSE call'[Start(s)] = call[Start(s)] /\ outcome'[Start(s)] = outcome[Start(s)]
      BY <2>2, <2>5, StartRequests
    <3> QED
      BY <2>3, <2>5, <3>1 DEF StartsAreShown
  <2> QED
    BY <2>3, <2>4, <2>5
<1>11. ASSUME UNCHANGED <<view, call, outcome>> PROVE StartsAreShown'
  BY <1>11 DEF StartsAreShown
<1> QED
  BY <1>1, <1>2, <1>3, <1>4, <1>5, <1>6, <1>7, <1>8, <1>9, <1>10, <1>11, StepFacts

(* A request that was written is never unwritten.                          *)
LEMMA UnsentStep ==
  ASSUME Typed, StartsAreShown, [Next]_vars
  PROVE  \A s \in Runs : Unsent(s)' => Unsent(s)
<1> call \in [Requests -> {"idle", "validating", "asked", "sent", "answered"}]
      /\ outcome \in [Requests -> {"none", "accepted", "refused", "timeout"}]
  BY TypedParts DEF CallTyped
<1>1. ASSUME NEW r \in Runs, RunGraph(r) PROVE \A s \in Runs : Unsent(s)' => Unsent(s)
  <2>1. \A s \in Runs : s # r => call'[Start(s)] = call[Start(s)]
          /\ outcome'[Start(s)] = outcome[Start(s)]
    BY <1>1, StartRequests DEF RunGraph, Start
  <2>2. Unsent(r)
    BY <1>1 DEF RunGraph, Unsent, Start
  <2> QED
    BY <2>1, <2>2 DEF Unsent
<1>2. ASSUME NEW r \in Runs, Validated(r) PROVE \A s \in Runs : Unsent(s)' => Unsent(s)
  <2>1. \A s \in Runs : s # r => call'[Start(s)] = call[Start(s)]
          /\ outcome'[Start(s)] = outcome[Start(s)]
    BY <1>2, StartRequests DEF Validated, Start
  <2>2. call[Start(r)] = "validating" /\ outcome[Start(r)] = "none"
    BY <1>2 DEF Validated, Start, StartsAreShown
  <2>3. Unsent(r)
    BY <2>2 DEF Unsent
  <2> QED
    BY <2>1, <2>3 DEF Unsent
<1>3. ASSUME NEW r \in Runs, CancelRun(r) PROVE \A s \in Runs : Unsent(s)' => Unsent(s)
  <2>1. call' = [call EXCEPT ![<<r, "cancel">>] = "asked"] /\ UNCHANGED outcome
    BY <1>3 DEF CancelRun
  <2>2. \A s \in Runs : call'[Start(s)] = call[Start(s)]
    BY <2>1, StartRequests
  <2> QED
    BY <2>1, <2>2 DEF Unsent
<1>4. ASSUME NEW r \in Runs, StartReturns(r) PROVE \A s \in Runs : Unsent(s)' => Unsent(s)
  <2>1. \A s \in Runs : s # r => call'[Start(s)] = call[Start(s)]
          /\ outcome'[Start(s)] = outcome[Start(s)]
    BY <1>4, StartRequests DEF StartReturns, Start
  <2>2. outcome'[Start(r)] = outcome[Start(r)] /\ outcome[Start(r)] # "none"
    BY <1>4 DEF StartReturns, Start, StartsAreShown
  <2> QED
    BY <2>1, <2>2 DEF Unsent
<1>5. ASSUME NEW r \in Runs, CancelReturns(r) PROVE \A s \in Runs : Unsent(s)' => Unsent(s)
  <2>1. call' = [call EXCEPT ![<<r, "cancel">>] = "idle"] /\ UNCHANGED outcome
    BY <1>5 DEF CancelReturns
  <2>2. \A s \in Runs : call'[Start(s)] = call[Start(s)]
    BY <2>1, StartRequests
  <2> QED
    BY <2>1, <2>2 DEF Unsent
<1>6. ASSUME NEW q \in Requests, Send(q) PROVE \A s \in Runs : Unsent(s)' => Unsent(s)
  <2>1. call' = [call EXCEPT ![q] = "sent"] /\ UNCHANGED outcome
    BY <1>6 DEF Send
  <2>2. \A s \in Runs :
          IF q = Start(s) THEN call'[Start(s)] = "sent" ELSE call'[Start(s)] = call[Start(s)]
    BY <2>1, StartRequests
  <2> QED
    BY <2>1, <2>2 DEF Unsent
<1>7. ASSUME NEW q \in Requests, TimeOut(q) PROVE \A s \in Runs : Unsent(s)' => Unsent(s)
  <2>1. call' = [call EXCEPT ![q] = "answered"] /\ outcome' = [outcome EXCEPT ![q] = "timeout"]
    BY <1>7 DEF TimeOut
  <2>2. \A s \in Runs : IF q = Start(s) THEN call'[Start(s)] = "answered"
        ELSE call'[Start(s)] = call[Start(s)] /\ outcome'[Start(s)] = outcome[Start(s)]
    BY <2>1, StartRequests
  <2> QED
    BY <2>2 DEF Unsent
<1>8. ASSUME DispatchResponse PROVE \A s \in Runs : Unsent(s)' => Unsent(s)
  <2> DEFINE q == Head(stdout).request
  <2>1. UNCHANGED <<call, outcome>> \/ (/\ call' = [call EXCEPT ![q] = "answered"]
        /\ \E o \in {"accepted", "refused"} : outcome' = [outcome EXCEPT ![q] = o])
    BY <1>8 DEF DispatchResponse
  <2> HIDE DEF q
  <2>2. \A s \in Runs : call'[Start(s)] = "answered"
          \/ (call'[Start(s)] = call[Start(s)] /\ outcome'[Start(s)] = outcome[Start(s)])
    BY <2>1, StartRequests
  <2> QED
    BY <2>2 DEF Unsent
<1>9. ASSUME UNCHANGED <<call, outcome>> PROVE \A s \in Runs : Unsent(s)' => Unsent(s)
  BY <1>9 DEF Unsent
<1> QED
  BY <1>1, <1>2, <1>3, <1>4, <1>5, <1>6, <1>7, <1>8, <1>9, StepFacts

\* Nothing but handling its request makes a run known.
StaysNew(r) ==
  Slot!Fresh(r) /\ ~Handled(r) /\ ~(HandleRequest /\ Head(stdin) = Start(r)) =>
    (Slot!Fresh(r))' /\ (~Handled(r))'

(* A run whose request is not handled stays unknown to the sidecar.        *)
LEMMA NewStep ==
  ASSUME Typed, [Next]_vars
  PROVE  \A s \in Runs : StaysNew(s)
<1> SUFFICES ASSUME NEW s \in Runs PROVE StaysNew(s)
  OBVIOUS
<1>1. ASSUME HandleRequest PROVE StaysNew(s)
  <2>1. stdin # <<>> /\ Head(stdin) \in Requests /\ input'.request = Head(stdin)
          /\ verdict' = verdict /\ slot' \in {slot, Head(stdin)[1]}
               /\ (Head(stdin)[2] = "cancel" => slot' = slot)
    <3>1. stdin # <<>> /\ Head(stdin) \in Requests
      BY <1>1, TailIndex, TypedParts DEF HandleRequest, MessagesTyped
    <3>2. Head(stdin) = <<Head(stdin)[1], Head(stdin)[2]>>
            /\ Head(stdin)[2] \in {"start", "cancel"}
      BY <3>1 DEF Requests
    <3>3. CASE Head(stdin)[2] = "start"
      BY <1>1, <3>1, <3>2, <3>3 DEF HandleRequest, HandleStart, Slot!Reserve, slotVars
    <3>4. CASE Head(stdin)[2] = "cancel"
      BY <1>1, <3>1, <3>2, <3>4 DEF HandleRequest, HandleCancel, Slot!Ask, slotVars
    <3> QED
      BY <3>1, <3>2, <3>3, <3>4
  <2>2. ASSUME Head(stdin) # Start(s) PROVE slot' = slot \/ slot' # s
    <3>1. \E r \in Runs : Head(stdin) = Start(r) \/ Head(stdin) = <<r, "cancel">>
      BY <2>1, StartRequests
    <3> QED
      BY <2>1, <2>2, <3>1 DEF Start
  <2>3. UNCHANGED stdout
    BY <1>1 DEF HandleRequest
  <2> QED
    BY <1>1, <2>1, <2>2, <2>3 DEF StaysNew, Handled, Answers, Slot!Fresh
<1>2. ASSUME NumberState PROVE StaysNew(s)
  <2>1. input'.request = input.request /\ UNCHANGED <<slotVars, stdout>>
    BY <1>2, TypedParts DEF NumberState, ThreadTyped, Inputs
  <2> QED
    BY <2>1 DEF StaysNew, Handled, Answers, Slot!Fresh, slotVars
<1>3. ASSUME QueueAnswer PROVE StaysNew(s)
  <2>1. input'.request = input.request /\ UNCHANGED slotVars
    BY <1>3, TypedParts DEF QueueAnswer, ThreadTyped, Inputs
  <2>2. Response(input.request, input.ok).request = input.request
    BY DEF Response
  <2> QED
    BY <2>1, <2>2, AnswerStep DEF StaysNew, Handled, Answers, Slot!Fresh, slotVars
<1>4. ASSUME Notify PROVE StaysNew(s)
  <2>1. input'.request = <<NoRun, "none">> /\ UNCHANGED <<slotVars, stdout>>
    BY <1>4 DEF Notify, Resting
  <2> QED
    BY <2>1, StartRequests DEF StaysNew, Handled, Answers, Slot!Fresh, slotVars
<1>5. ASSUME NEW r \in Runs, NEW v \in Slot!Verdicts, Complete(r, v) PROVE StaysNew(s)
  <2>1. slot = r /\ slot' = NoRun /\ verdict' = [verdict EXCEPT ![r] = v]
          /\ UNCHANGED <<input, stdout>>
    BY <1>5 DEF Complete, Slot!Finish
  <2>2. verdict \in [Runs -> Slot!Verdicts \cup {"none"}]
    BY TypedParts DEF ThreadTyped
  <2> QED
    BY <2>1, <2>2, EventsAssumption DEF StaysNew, Handled, Answers, Slot!Fresh
<1>6. ASSUME NEW x \in Emitters, QueueEvent(x) PROVE StaysNew(s)
  <2>1. input' = input /\ UNCHANGED slotVars
    BY <1>6 DEF QueueEvent, threadVars
  <2>2. Response(input.request, input.ok).request = input.request
    BY DEF Response
  <2> QED
    BY <2>1, <2>2, AnswerStep DEF StaysNew, Handled, Answers, Slot!Fresh, slotVars
<1>7. ASSUME DispatchResponse PROVE StaysNew(s)
  <2>1. input' = input /\ UNCHANGED slotVars
    BY <1>7 DEF DispatchResponse, threadVars
  <2>2. Response(input.request, input.ok).request = input.request
    BY DEF Response
  <2> QED
    BY <2>1, <2>2, AnswerStep DEF StaysNew, Handled, Answers, Slot!Fresh, slotVars
<1>8. ASSUME DispatchEvent PROVE StaysNew(s)
  <2>1. input' = input /\ UNCHANGED slotVars
    BY <1>8 DEF DispatchEvent, threadVars
  <2>2. Response(input.request, input.ok).request = input.request
    BY DEF Response
  <2> QED
    BY <2>1, <2>2, AnswerStep DEF StaysNew, Handled, Answers, Slot!Fresh, slotVars
<1>9. ASSUME UNCHANGED <<slot, verdict, input, stdout>> PROVE StaysNew(s)
  BY <1>9 DEF StaysNew, Handled, Answers, Slot!Fresh
<1> QED
  BY <1>1, <1>2, <1>3, <1>4, <1>5, <1>6, <1>7, <1>8, <1>9, StepFacts

\* What StartsAreFresh says of one run.
Freshly(r) ==
  /\ Once(stdin, {Start(r)})
  /\ Unsent(r) => Absent(stdin, {Start(r)})
  /\ Unsent(r) \/ ~Absent(stdin, {Start(r)}) => Slot!Fresh(r) /\ ~Handled(r)

(* How requests reach the sidecar.                                         *)
LEMMA InputStep ==
  ASSUME [Next]_vars
  PROVE  HandleRequest \/ (\E p \in Requests : Send(p)) \/ UNCHANGED stdin
  BY StepFacts

(* A request that starts a run is written once, and handled once.          *)
LEMMA FreshStep ==
  ASSUME Typed, StartsAreShown, StartsAreFresh, [Next]_vars
  PROVE  StartsAreFresh'
<1> SUFFICES ASSUME NEW r \in Runs PROVE Freshly(r)'
  BY DEF StartsAreFresh, Freshly
<1>1. Freshly(r) /\ stdin \in Seq(Requests)
  BY TypedParts DEF StartsAreFresh, Freshly, MessagesTyped
<1>2. Unsent(r)' => Unsent(r)
  BY UnsentStep
<1>3. CASE HandleRequest
  <2>1. stdin # <<>> /\ stdin' = Tail(stdin) /\ UNCHANGED <<call, outcome>>
    BY <1>3 DEF HandleRequest, callVars
  <2>2. /\ Absent(stdin, {Start(r)}) <=> Absent(stdin', {Start(r)}) /\ Head(stdin) # Start(r)
        /\ Once(stdin, {Start(r)}) => Once(stdin', {Start(r)})
             /\ (Head(stdin) = Start(r) => Absent(stdin', {Start(r)}))
    BY <1>1, <2>1, TailFacts
  <2> QED
    BY <1>1, <1>2, <2>2, NewStep DEF Freshly, StaysNew
<1>4. ASSUME NEW q \in Requests, Send(q), ~HandleRequest PROVE Freshly(r)'
  <2>1. /\ stdin' = Append(stdin, q)
        /\ call[q] = "asked" /\ call' = [call EXCEPT ![q] = "sent"] /\ UNCHANGED outcome
    BY <1>4 DEF Send
  <2>2. /\ Absent(stdin', {Start(r)}) <=> Absent(stdin, {Start(r)}) /\ q # Start(r)
        /\ Once(stdin, {Start(r)}) /\ (q = Start(r) => Absent(stdin, {Start(r)}))
             => Once(stdin', {Start(r)})
    BY <1>1, <2>1, AppendFacts
  <2>3. q = Start(r) => Unsent(r) /\ ~Unsent(r)'
    BY <2>1, StartRequests, TypedParts DEF Unsent, StartsAreShown, CallTyped
  <2> QED
    BY <1>1, <1>2, <1>4, <2>2, <2>3, NewStep DEF Freshly, StaysNew
<1>5. CASE UNCHANGED stdin /\ ~HandleRequest
  BY <1>1, <1>2, <1>5, NewStep DEF Freshly, StaysNew
<1> QED
  BY <1>3, <1>4, <1>5, InputStep

(* A run that is new to the sidecar is not pending.                        *)
LEMMA NewIsNotPending ==
  ASSUME Typed, WorkerHasSlot, EventsAreTrue, NEW r \in Runs, Slot!Fresh(r)
  PROVE  ~Pending(r)
<1>1. worker[r] \in {"none", "running", "recorded", "done"} /\ slot # r /\ verdict[r] = "none"
  BY TypedParts DEF ThreadTyped, Slot!Fresh
<1>2. worker[r] = "none"
  BY <1>1 DEF WorkerHasSlot, Slot!Verdicts
<1>3. \A e \in Live : IsTerminal(e) => e.run # r
  BY <1>2, TypedParts, EventsTyped DEF EventsAreTrue
<1> QED
  BY <1>1, <1>2, <1>3 DEF Pending

(* What was given up stays given up.                                       *)
LEMMA GivenUpStays ==
  ASSUME Typed, StartsAreShown, [Next]_vars
  PROVE  StartTimedOut => StartTimedOut'
<1> call \in [Requests -> {"idle", "validating", "asked", "sent", "answered"}]
      /\ outcome \in [Requests -> {"none", "accepted", "refused", "timeout"}]
  BY TypedParts DEF CallTyped
<1>1. ASSUME NEW r \in Runs, Validated(r) PROVE StartTimedOut => StartTimedOut'
  <2> SUFFICES ASSUME NEW s \in Runs, outcome[Start(s)] = "timeout"
      PROVE outcome'[Start(s)] = "timeout"
    BY DEF StartTimedOut, Start
  <2>1. call[Start(r)] = "validating"
          /\ (outcome' = outcome \/ outcome' = [outcome EXCEPT ![Start(r)] = "refused"])
    BY <1>1 DEF Validated, Start
  <2>2. s # r
    BY <2>1 DEF StartsAreShown
  <2> QED
    BY <2>1, <2>2, StartRequests
<1>2. ASSUME NEW q \in Requests, TimeOut(q) PROVE StartTimedOut => StartTimedOut'
  <2> SUFFICES ASSUME NEW s \in Runs, outcome[Start(s)] = "timeout"
      PROVE outcome'[Start(s)] = "timeout"
    BY DEF StartTimedOut, Start
  <2>1. outcome' = [outcome EXCEPT ![q] = "timeout"]
    BY <1>2 DEF TimeOut
  <2> QED
    BY <2>1, StartRequests
<1>3. ASSUME DispatchResponse PROVE StartTimedOut => StartTimedOut'
  <2> SUFFICES ASSUME NEW s \in Runs, outcome[Start(s)] = "timeout"
      PROVE outcome'[Start(s)] = "timeout"
    BY DEF StartTimedOut, Start
  <2> DEFINE q == Head(stdout).request
  <2>1. UNCHANGED outcome
          \/ (call[q] = "sent" /\ \E o \in {"accepted", "refused"} : outcome' = [outcome EXCEPT ![q] = o])
    BY <1>3 DEF DispatchResponse
  <2>2. call[Start(s)] # "sent"
    BY DEF StartsAreShown
  <2> QED
    BY <2>1, <2>2, StartRequests
<1>4. ASSUME UNCHANGED outcome PROVE StartTimedOut => StartTimedOut'
  BY <1>4 DEF StartTimedOut
<1> QED
  BY <1>1, <1>2, <1>3, <1>4, StepFacts

(* An end is numbered by the worker of its run.                            *)
LEMMA EndsFlow ==
  ASSUME Typed, WorkerHasSlot, [Next]_vars
  PROVE  \A f \in Live' : IsTerminal(f) => f \in Live \/ \E s \in Runs : NumberTerminal(s)
           /\ f.run = s
<1>1. CASE Flows
  BY <1>1 DEF Flows
<1>2. ASSUME NumberState
      PROVE \A f \in Live' : IsTerminal(f) => f \in Live \/ \E s \in Runs : NumberTerminal(s)
        /\ f.run = s
  <2> DEFINE e == Event("state", input.request[1], input.event, sequence + 1)
  <2>1. "input" \in Emitters /\ input.request[1] \in Runs \cup {NoRun}
          /\ input.event \in {"none", "running", "cancelling"} \cup Slot!Verdicts
    BY <1>2, TypedParts DEF Emitters, ThreadTyped, Inputs, WorkerHasSlot, NumberState
  <2>2. Number("input", "state", input.request[1], input.event)
          /\ UNCHANGED <<stdout, channel, frame, highest>>
    BY <1>2 DEF NumberState, screenVars, hostVars
  <2>3. Adds(e)
    BY <2>1, <2>2, NumberAdds
  <2>4. e.kind = "state" /\ e.run = input.request[1] /\ e.state = input.event
          /\ e.seq = sequence + 1
    BY DEF Event
  <2>5. ~IsTerminal(e)
    BY <1>2, <2>4, TypedParts DEF NumberState, ThreadTyped, Inputs, IsTerminal, Terminal
  <2> HIDE DEF e
  <2> QED
    BY <2>3, <2>5 DEF Adds
<1>3. ASSUME Callback
      PROVE \A f \in Live' : IsTerminal(f) => f \in Live \/ \E s \in Runs : NumberTerminal(s)
        /\ f.run = s
  <2> DEFINE e == Event("callback", NoRun, "none", sequence + 1)
  <2>1. "device" \in Emitters /\ NoRun \in Runs \cup {NoRun}
          /\ "none" \in {"none", "running", "cancelling"} \cup Slot!Verdicts
    BY <1>3, TypedParts DEF Emitters, ThreadTyped, Inputs, WorkerHasSlot
  <2>2. Number("device", "callback", NoRun, "none")
          /\ UNCHANGED <<stdout, channel, frame, highest>>
    BY <1>3 DEF Callback, screenVars, hostVars
  <2>3. Adds(e)
    BY <2>1, <2>2, NumberAdds
  <2>4. e.kind = "callback" /\ e.run = NoRun /\ e.state = "none" /\ e.seq = sequence + 1
    BY DEF Event
  <2>5. ~IsTerminal(e)
    BY <2>4 DEF IsTerminal
  <2> HIDE DEF e
  <2> QED
    BY <2>3, <2>5 DEF Adds
<1>4. ASSUME NEW r \in Runs, NodeEvent(r)
      PROVE \A f \in Live' : IsTerminal(f) => f \in Live \/ \E s \in Runs : NumberTerminal(s)
        /\ f.run = s
  <2> DEFINE e == Event("node", r, "none", sequence + 1)
  <2>1. r \in Emitters /\ r \in Runs \cup {NoRun}
          /\ "none" \in {"none", "running", "cancelling"} \cup Slot!Verdicts
    BY <1>4, TypedParts DEF Emitters, ThreadTyped, Inputs, WorkerHasSlot
  <2>2. Number(r, "node", r, "none") /\ UNCHANGED <<stdout, channel, frame, highest>>
    BY <1>4 DEF NodeEvent, screenVars, hostVars
  <2>3. Adds(e)
    BY <2>1, <2>2, NumberAdds
  <2>4. e.kind = "node" /\ e.run = r /\ e.state = "none" /\ e.seq = sequence + 1
    BY DEF Event
  <2>5. ~IsTerminal(e)
    BY <2>4 DEF IsTerminal
  <2> HIDE DEF e
  <2> QED
    BY <2>3, <2>5 DEF Adds
<1>5. ASSUME NEW r \in Runs, NumberTerminal(r)
      PROVE \A f \in Live' : IsTerminal(f) => f \in Live \/ \E s \in Runs : NumberTerminal(s)
        /\ f.run = s
  <2> DEFINE e == Event("state", r, verdict[r], sequence + 1)
  <2>1. r \in Emitters /\ r \in Runs \cup {NoRun}
          /\ verdict[r] \in {"none", "running", "cancelling"} \cup Slot!Verdicts
    BY <1>5, TypedParts DEF Emitters, ThreadTyped, Inputs, WorkerHasSlot, NumberTerminal
  <2>2. Number(r, "state", r, verdict[r]) /\ UNCHANGED <<stdout, channel, frame, highest>>
    BY <1>5 DEF NumberTerminal, screenVars, hostVars
  <2>3. Adds(e)
    BY <2>1, <2>2, NumberAdds
  <2>4. e.kind = "state" /\ e.run = r /\ e.state = verdict[r] /\ e.seq = sequence + 1
    BY DEF Event
  <2> HIDE DEF e
  <2> QED
    BY <1>5, <2>3, <2>4 DEF Adds
<1> QED
  BY <1>1, <1>2, <1>3, <1>4, <1>5, FlowStep DEF NumberingStep

(* A run becomes pending when its request is handled.                      *)
LEMMA PendingBack ==
  ASSUME Typed, WorkerHasSlot, [Next]_vars
  PROVE  \A s \in Runs : Pending(s)' => Pending(s) \/ (HandleRequest /\ Head(stdin) = Start(s))
<1> SUFFICES ASSUME NEW s \in Runs, Pending(s)', ~Pending(s)
    PROVE HandleRequest /\ Head(stdin) = Start(s)
  OBVIOUS
<1>1. ASSUME HandleRequest PROVE HandleRequest /\ Head(stdin) = Start(s)
  <2>1. UNCHANGED <<worker, stdout, inHand, highest, channel>>
    BY <1>1 DEF HandleRequest, hostVars, emitVars
  <2>2. Live' = Live
    BY <2>1 DEF Live, Queued, Emitters
  <2>3. slot' = s /\ slot # s
    BY <2>1, <2>2 DEF Pending
  <2>4. Head(stdin) = Start(s)
    <3>1. Head(stdin) \in Requests
      BY <1>1, TailIndex, TypedParts DEF HandleRequest, MessagesTyped
    <3>2. Head(stdin) = <<Head(stdin)[1], Head(stdin)[2]>>
            /\ Head(stdin)[2] \in {"start", "cancel"}
      BY <3>1 DEF Requests
    <3>3. CASE Head(stdin)[2] = "start"
      BY <1>1, <2>3, <3>1, <3>2, <3>3
         DEF HandleRequest, HandleStart, Slot!Reserve, slotVars, Start
    <3>4. CASE Head(stdin)[2] = "cancel"
      BY <1>1, <2>3, <3>1, <3>2, <3>4 DEF HandleRequest, HandleCancel, Slot!Ask, slotVars
    <3> QED
      BY <3>2, <3>3, <3>4
  <2> QED
    BY <1>1, <2>4
<1>2. ASSUME Notify PROVE HandleRequest /\ Head(stdin) = Start(s)
  <2>1. UNCHANGED slot /\ Live' \subseteq Live
    BY <1>2 DEF Notify, slotVars, hostVars, emitVars, Live, Queued, Emitters
  <2>2. worker'[s] \in {"running", "recorded"} /\ worker[s] \notin {"running", "recorded"}
    BY <2>1 DEF Pending
  <2>3. input.event = "running" /\ input.request[1] = s
    BY <1>2, <2>2, TypedParts DEF Notify, ThreadTyped
  <2>4. slot = s
    BY <2>3 DEF WorkerHasSlot, Start
  <2> QED
    BY <2>4 DEF Pending
<1>3. ASSUME NEW r \in Runs, NEW v \in Slot!Verdicts, Complete(r, v)
      PROVE HandleRequest /\ Head(stdin) = Start(s)
  <2>1. slot = r /\ slot' = NoRun /\ worker' = [worker EXCEPT ![r] = "recorded"]
          /\ Live' \subseteq Live
    BY <1>3 DEF Complete, Slot!Finish, hostVars, emitVars, Live, Queued, Emitters
  <2>2. s # r
    BY <2>1 DEF Pending
  <2> QED
    BY <2>1, <2>2, EventsAssumption, TypedParts DEF Pending, ThreadTyped
<1>4. ASSUME NEW r \in Runs, NumberTerminal(r) PROVE HandleRequest /\ Head(stdin) = Start(s)
  <2>1. worker[r] = "recorded" /\ worker' = [worker EXCEPT ![r] = "done"] /\ UNCHANGED slot
    BY <1>4 DEF NumberTerminal, slotVars
  <2>2. s # r
    BY <2>1 DEF Pending
  <2>3. worker'[s] = worker[s]
    BY <2>1, <2>2, TypedParts DEF ThreadTyped
  <2>4. PICK f \in Live' : IsTerminal(f) /\ f.run = s
    BY <2>1, <2>3 DEF Pending
  <2>5. f \notin Live
    BY <2>4 DEF Pending
  <2>6. PICK z \in Runs : NumberTerminal(z) /\ f.run = z
    BY <2>4, <2>5, EndsFlow
  <2>7. worker[s] = "recorded"
    BY <2>4, <2>6 DEF NumberTerminal
  <2> QED
    BY <2>7 DEF Pending
<1>5. ASSUME UNCHANGED <<slot, worker>> PROVE HandleRequest /\ Head(stdin) = Start(s)
  <2>1. PICK f \in Live' : IsTerminal(f) /\ f.run = s /\ f \notin Live
    BY <1>5 DEF Pending
  <2>2. PICK z \in Runs : NumberTerminal(z) /\ f.run = z
    BY <2>1, EndsFlow
  <2>3. worker[s] = "recorded"
    BY <2>1, <2>2 DEF NumberTerminal
  <2> QED
    BY <2>3 DEF Pending
<1> QED
  BY <1>1, <1>2, <1>3, <1>4, <1>5, StepFacts

\* The request that starts r is under way to the sidecar.
Asked(r) == call[Start(r)] \in {"validating", "asked"} \/ ~Absent(stdin, {Start(r)})

(* While a run is asked for and shown as starting, none is pending.        *)
LEMMA AskedAlone ==
  ASSUME Typed, WorkerHasSlot, EventsAreTrue, StartsAreShown, StartsAreFresh, RunIsShown,
         NEW r \in Runs, Asked(r), call[Start(r)] # "idle"
  PROVE  /\ view.run = r /\ view.state = "starting" /\ Slot!Fresh(r) /\ slot = NoRun
         /\ \A s \in Runs : ~Pending(s)
         /\ \A e \in Live : ~IsTerminal(e)
<1>1. view.run = r /\ view.state = "starting"
  BY DEF StartsAreShown
<1>2. Slot!Fresh(r)
  BY DEF StartsAreFresh, Asked, StartsAreShown, Unsent
<1>3. ~Pending(r)
  BY <1>2, NewIsNotPending
<1>4. \A s \in Runs : ~Pending(s)
  BY <1>1, <1>3 DEF RunIsShown
<1>5. slot = NoRun
  BY <1>4, TypedParts DEF Pending, ThreadTyped
<1>6. \A e \in Live : IsTerminal(e) => e.run \in Runs
  BY EventsTyped, TypedParts DEF EventsAreTrue, IsTerminal
<1> QED
  BY <1>1, <1>2, <1>4, <1>5, <1>6 DEF Pending

(* When the interface is told of an end, the run that ended is shown,      *)
(* and none is asked for.                                                  *)
LEMMA EndIsOfTheRun ==
  ASSUME Typed, WorkerHasSlot, EventsAreTrue, StartsAreShown, StartsAreFresh, RunIsShown,
         DocumentIsLocked, NEW e \in Live, IsTerminal(e)
  PROVE  /\ view.run = e.run /\ e.run \in Runs /\ slot = NoRun /\ worker[e.run] = "done"
         /\ \A s \in Runs : ~Asked(s)
<1>1. e.run \in Runs /\ worker[e.run] = "done"
  BY EventsTyped, TypedParts DEF EventsAreTrue, IsTerminal
<1>2. view.run = e.run
  BY <1>1 DEF RunIsShown, Pending
<1>3. slot = NoRun
  <2> SUFFICES ASSUME slot # NoRun PROVE FALSE
    OBVIOUS
  <2>1. slot \in Runs
    BY TypedParts DEF ThreadTyped
  <2>2. view.run = slot
    BY <2>1 DEF RunIsShown, Pending
  <2>3. worker[slot] \in {"none", "running"}
    BY <2>1 DEF WorkerHasSlot
  <2> QED
    BY <1>1, <1>2, <2>2, <2>3
<1>4. ASSUME NEW s \in Runs, Asked(s) PROVE FALSE
  <2>1. call[Start(s)] # "idle"
    BY <1>4 DEF Asked, DocumentIsLocked
  <2> QED
    BY <1>4, <2>1, AskedAlone
<1> QED
  BY <1>1, <1>2, <1>3, <1>4

(* After the end of a run is heard, the run is not pending.                *)
LEMMA EndIsLast ==
  ASSUME Typed, WorkerHasSlot, EventsAreTrue, StartsAreShown, StartsAreFresh, RunIsShown,
         InOrder, HearEvent, IsTerminal(Head(channel)), [Next]_vars, NEW r \in Runs,
         r = Head(channel).run
  PROVE  ~Pending(r)'
<1> DEFINE e == Head(channel)
<1> HIDE DEF e
<1>1. Hears(e) /\ IsTerminal(e) /\ r = e.run
  BY HearCases DEF e
<1>2. UNCHANGED <<slot, worker>> /\ Live' \subseteq Live
  <2>1. UNCHANGED <<slot, worker>>
    BY DEF HearEvent, slotVars, threadVars
  <2>2. UNCHANGED <<stdout, inHand, highest>> /\ ToSet(channel') \subseteq ToSet(channel)
    <3>1. channel # <<>> /\ channel' = Tail(channel) /\ channel \in Seq(Events)
            /\ UNCHANGED <<stdout, inHand, highest>>
      BY TypedParts DEF HearEvent, MessagesTyped, emitVars
    <3> QED
      BY <3>1, ElementFacts
  <2> QED
    BY <2>1, <2>2 DEF Live, Queued, Emitters
<1>3. worker[r] = "done" /\ slot # r
  BY <1>1, EventsAssumption DEF EventsAreTrue, WorkerHasSlot, Hears
<1>4. ASSUME NEW f \in Live', IsTerminal(f), f.run = r PROVE FALSE
  <2>1. f \in AllEvents /\ f.seq \in Nat /\ e.seq \in Nat
    BY <1>1, <1>2, TypedParts, EventsTyped DEF Hears, Events
  <2>2. f.seq > e.seq
    BY <1>1 DEF Hears
  <2>3. f.seq = e.seq
    BY <1>1, <1>4, <2>1 DEF EventsAreTrue, Hears
  <2> QED
    BY <2>1, <2>2, <2>3
<1> QED
  BY <1>2, <1>3, <1>4 DEF Pending

(* A step that handles a request changes nothing that is shown.            *)
LEMMA HandleRequestKeeps ==
  ASSUME HandleRequest
  PROVE  UNCHANGED view
  BY DEF HandleRequest, screenVars

(* The run that is pending stays the one that is shown.                    *)
LEMMA RunIsShownStep ==
  ASSUME Typed, WorkerHasSlot, EventsAreTrue, InOrder, StartsAreShown, StartsAreFresh,
         ~StartTimedOut, ~StartTimedOut', DocumentIsLocked, StartsAreAccepted, RunIsShown,
         [Next]_vars
  PROVE  RunIsShown'
<1> SUFFICES ASSUME NEW s \in Runs, Pending(s)' PROVE view'.run = s /\ Active(view'.state)
  BY DEF RunIsShown
<1>1. view.run = s /\ Active(view.state)
  <2>1. CASE Pending(s)
    BY <2>1 DEF RunIsShown
  <2>2. CASE HandleRequest /\ Head(stdin) = Start(s)
    <3>1. ~Absent(stdin, {Start(s)})
      BY <2>2, TypedParts, TailFacts DEF HandleRequest, MessagesTyped
    <3> QED
      BY <3>1 DEF DocumentIsLocked, StartsAreShown, Active
  <2> QED
    BY <2>1, <2>2, PendingBack
<1>2. ASSUME NEW r \in Runs, RunGraph(r) PROVE view'.run = s /\ Active(view'.state)
  <2>1. ~Active(view.state) /\ UNCHANGED stdin
    BY <1>2 DEF RunGraph
  <2> QED
    BY <1>1, <2>1
<1>3. ASSUME NEW r \in Runs, Validated(r) PROVE view'.run = s /\ Active(view'.state)
  <2>1. CASE UNCHANGED view
    BY <1>1, <2>1
  <2>2. CASE ~UNCHANGED view
    <3>1. call[Start(r)] = "validating" /\ ~HandleRequest
      BY <1>3, <2>2, HandleRequestKeeps DEF Validated, Start
    <3> QED
      BY <3>1, AskedAlone, PendingBack DEF Asked
  <2> QED
    BY <2>1, <2>2
<1>4. ASSUME NEW r \in Runs, StartReturns(r) PROVE view'.run = s /\ Active(view'.state)
  <2>1. call[Start(r)] = "answered" /\ outcome[Start(r)] = "accepted" /\ view.state = "starting"
    BY <1>4 DEF StartReturns, Start, StartsAreShown, StartsAreAccepted
  <2>2. view' = [view EXCEPT !.bound = TRUE, !.state = "running"]
    BY <1>4, <2>1 DEF StartReturns, Start
  <2> QED
    BY <1>1, <2>2, TypedParts DEF ScreenTyped, Views, Active
<1>5. ASSUME HearEvent PROVE view'.run = s /\ Active(view'.state)
  <2> DEFINE e == Head(channel)
  <2> HIDE DEF e
  <2>1. Hears(e)
    BY <1>5, HearCases DEF e
  <2>2. CASE ~IsTerminal(e)
    BY <1>1, <2>1, <2>2 DEF Hears
  <2>3. CASE IsTerminal(e)
    <3>1. view.run = e.run
      BY <2>1, <2>3, EndIsOfTheRun DEF Hears
    <3> QED
      BY <1>5, <1>1, <2>3, <3>1, EndIsLast DEF e
  <2> QED
    BY <2>2, <2>3
<1>6. ASSUME CommitFrame PROVE view'.run = s /\ Active(view'.state)
  BY <1>6, <1>1, CommitCases DEF Active
<1>7. ASSUME UNCHANGED view PROVE view'.run = s /\ Active(view'.state)
  BY <1>1, <1>7
<1> QED
  BY <1>2, <1>3, <1>4, <1>5, <1>6, <1>7, StepFacts

(* The document stays locked while it has to be.                           *)
LEMMA LockedStep ==
  ASSUME Typed, WorkerHasSlot, EventsAreTrue, InOrder, StartsAreShown, StartsAreFresh,
         ~StartTimedOut, ~StartTimedOut', DocumentIsLocked, StartsAreAccepted, RunIsShown,
         [Next]_vars
  PROVE  DocumentIsLocked'
<1> call \in [Requests -> {"idle", "validating", "asked", "sent", "answered"}]
      /\ outcome \in [Requests -> {"none", "accepted", "refused", "timeout"}]
  BY TypedParts DEF CallTyped
<1>1. ASSUME NEW r \in Runs, RunGraph(r) PROVE DocumentIsLocked'
  <2>1. locked' = TRUE /\ UNCHANGED <<stdin, slot>> /\ call[Start(r)] = "idle"
          /\ call' = [call EXCEPT ![Start(r)] = "validating"]
    BY <1>1 DEF RunGraph, slotVars, Start
  <2>2. \A s \in Runs : call[Start(s)] = "sent" => call'[Start(s)] = "sent"
    BY <2>1, StartRequests
  <2> QED
    BY <2>1, <2>2 DEF DocumentIsLocked
<1>2. ASSUME NEW r \in Runs, Validated(r) PROVE DocumentIsLocked'
  <2>1. /\ call[Start(r)] = "validating" /\ UNCHANGED <<stdin, slot>>
        /\ \/ call' = [call EXCEPT ![Start(r)] = "asked"] /\ UNCHANGED locked
           \/ call' = [call EXCEPT ![Start(r)] = "idle"]
    BY <1>2 DEF Validated, Start, slotVars
  <2>2. view.run = r /\ slot = NoRun
    BY <2>1, AskedAlone DEF Asked
  <2>3. \A s \in Runs : s # r => call[Start(s)] = "idle"
    BY <2>2 DEF StartsAreShown
  <2>4. \A s \in Runs : s # r => call'[Start(s)] = "idle"
    BY <2>1, <2>3, StartRequests
  <2>5. call'[Start(r)] = "idle" \/ (call'[Start(r)] = "asked" /\ locked' = locked)
    BY <2>1, StartRequests
  <2>6. \A s \in Runs : Absent(stdin, {Start(s)})
    BY <2>1, <2>3 DEF DocumentIsLocked
  <2> QED
    BY <2>1, <2>2, <2>4, <2>5, <2>6 DEF DocumentIsLocked
<1>3. ASSUME NEW r \in Runs, CancelRun(r) PROVE DocumentIsLocked'
  <2>1. call' = [call EXCEPT ![<<r, "cancel">>] = "asked"] /\ UNCHANGED <<stdin, locked, slot>>
    BY <1>3 DEF CancelRun, slotVars, screenVars
  <2>2. \A s \in Runs : call'[Start(s)] = call[Start(s)]
    BY <2>1, StartRequests
  <2> QED
    BY <2>1, <2>2 DEF DocumentIsLocked
<1>4. ASSUME NEW r \in Runs, StartReturns(r) PROVE DocumentIsLocked'
  <2>1. /\ call[Start(r)] = "answered" /\ UNCHANGED <<stdin, slot>>
             /\ call' = [call EXCEPT ![Start(r)] = "idle"]
        /\ outcome[Start(r)] = "accepted" /\ view.state = "starting"
    BY <1>4 DEF StartReturns, Start, slotVars, StartsAreShown, StartsAreAccepted
  <2>2. UNCHANGED locked
    BY <1>4, <2>1 DEF StartReturns, Start
  <2>3. \A s \in Runs : s # r => call'[Start(s)] = call[Start(s)]
    BY <2>1, StartRequests
  <2>4. call'[Start(r)] = "idle"
    BY <2>1, StartRequests
  <2> QED
    BY <2>1, <2>2, <2>3, <2>4 DEF DocumentIsLocked
<1>5. ASSUME NEW r \in Runs, CancelReturns(r) PROVE DocumentIsLocked'
  <2>1. call' = [call EXCEPT ![<<r, "cancel">>] = "idle"] /\ UNCHANGED <<stdin, locked, slot>>
    BY <1>5 DEF CancelReturns, slotVars, screenVars
  <2>2. \A s \in Runs : call'[Start(s)] = call[Start(s)]
    BY <2>1, StartRequests
  <2> QED
    BY <2>1, <2>2 DEF DocumentIsLocked
<1>6. ASSUME HearEvent PROVE DocumentIsLocked'
  <2> DEFINE e == Head(channel)
  <2> HIDE DEF e
  <2>1. Hears(e)
    BY <1>6, HearCases DEF e
  <2>2. UNCHANGED <<call, slot, stdin>>
    BY <1>6 DEF HearEvent, callVars, slotVars
  <2>3. CASE ~IsTerminal(e)
    BY <2>1, <2>2, <2>3 DEF Hears, DocumentIsLocked
  <2>4. CASE IsTerminal(e)
    <3>1. slot = NoRun /\ \A s \in Runs : ~Asked(s)
      BY <2>1, <2>4, EndIsOfTheRun DEF Hears
    <3> QED
      BY <2>2, <3>1 DEF Asked, DocumentIsLocked
  <2> QED
    BY <2>3, <2>4
<1>7. ASSUME NEW q \in Requests, Send(q) PROVE DocumentIsLocked'
  <2>1. /\ stdin \in Seq(Requests) /\ stdin' = Append(stdin, q) /\ UNCHANGED <<locked, slot>>
        /\ call[q] = "asked" /\ call' = [call EXCEPT ![q] = "sent"]
    BY <1>7, TypedParts DEF Send, MessagesTyped, screenVars, slotVars
  <2>2. \A s \in Runs : Absent(stdin', {Start(s)})
          <=> (Absent(stdin, {Start(s)}) /\ q # Start(s))
    BY <2>1, AppendFacts
  <2>3. \A s \in Runs : IF q = Start(s) THEN call[Start(s)] = "asked"
          /\ call'[Start(s)] = "sent" ELSE call'[Start(s)] = call[Start(s)]
    BY <2>1, StartRequests
  <2> QED
    BY <2>1, <2>2, <2>3 DEF DocumentIsLocked
<1>8. ASSUME NEW q \in Requests, TimeOut(q) PROVE DocumentIsLocked'
  <2>1. call' = [call EXCEPT ![q] = "answered"] /\ outcome' = [outcome EXCEPT ![q] = "timeout"]
    BY <1>8 DEF TimeOut
  <2>2. \A s \in Runs : q # Start(s)
    BY <2>1, StartRequests DEF StartTimedOut, Start
  <2>3. \A s \in Runs : call'[Start(s)] = call[Start(s)]
          /\ outcome'[Start(s)] = outcome[Start(s)]
    BY <2>1, <2>2, StartRequests
  <2>4. UNCHANGED <<locked, slot, stdin>>
    BY <1>8 DEF TimeOut, screenVars, slotVars
  <2> QED
    BY <2>3, <2>4 DEF DocumentIsLocked
<1>9. ASSUME HandleRequest PROVE DocumentIsLocked'
  <2>1. stdin # <<>> /\ stdin \in Seq(Requests) /\ stdin' = Tail(stdin)
          /\ UNCHANGED <<call, locked>>
    BY <1>9, TypedParts DEF HandleRequest, MessagesTyped, callVars, screenVars
  <2>2. \A s \in Runs : Absent(stdin, {Start(s)})
          <=> (Absent(stdin', {Start(s)}) /\ Head(stdin) # Start(s))
    BY <2>1, TailFacts
  <2>3. slot' # NoRun => slot # NoRun \/ \E s \in Runs : Head(stdin) = Start(s)
    <3>1. Head(stdin) \in Requests
      BY <2>1, TailIndex
    <3>2. Head(stdin) = <<Head(stdin)[1], Head(stdin)[2]>>
            /\ Head(stdin)[2] \in {"start", "cancel"} /\ Head(stdin)[1] \in Runs
      BY <3>1 DEF Requests
    <3>3. CASE Head(stdin)[2] = "start"
      BY <3>2, <3>3 DEF Start
    <3>4. CASE Head(stdin)[2] = "cancel"
      BY <1>9, <3>1, <3>2, <3>4 DEF HandleRequest, HandleCancel, Slot!Ask, slotVars
    <3> QED
      BY <3>2, <3>3, <3>4
  <2> QED
    BY <2>1, <2>2, <2>3 DEF DocumentIsLocked
<1>10. ASSUME NEW r \in Runs, NEW v \in Slot!Verdicts, Complete(r, v) PROVE DocumentIsLocked'
  <2>1. slot' = NoRun /\ UNCHANGED <<call, locked, stdin>>
    BY <1>10 DEF Complete, Slot!Finish, callVars, screenVars
  <2> QED
    BY <2>1 DEF DocumentIsLocked
<1>11. ASSUME DispatchResponse PROVE DocumentIsLocked'
  <2> DEFINE m == Head(stdout)
      q == m.request
  <2>1. m \in ToSet(stdout) /\ m \in Responses
    <3>1. stdout # <<>> /\ m.kind = "response" /\ stdout \in Seq(Events \cup Responses)
      BY <1>11, TypedParts DEF DispatchResponse, MessagesTyped
    <3>2. m \in Events \cup Responses /\ m \in ToSet(stdout)
      BY <3>1, TailIndex, ElementFacts
    <3> QED
      BY <3>1, <3>2 DEF Events
  <2>2. q \in Requests /\ m.kind = "response"
    BY <2>1 DEF Responses
  <2>3. \/ UNCHANGED <<call, outcome>>
        \/ (/\ call[q] = "sent" /\ call' = [call EXCEPT ![q] = "answered"]
            /\ outcome' = [outcome EXCEPT ![q] = IF m.ok THEN "accepted" ELSE "refused"])
    BY <1>11 DEF DispatchResponse
  <2> HIDE DEF m
  <2>4. \A s \in Runs : q = Start(s) => Handled(s)
    BY <2>1, <2>2 DEF Handled
  <2>5. \A s \in Runs : q = Start(s) => Absent(stdin, {Start(s)})
    BY <2>4 DEF StartsAreFresh
  <2>6. \A s \in Runs : call'[Start(s)] = call[Start(s)]
          \/ (q = Start(s) /\ call'[Start(s)] = "answered")
    BY <2>2, <2>3, StartRequests
  <2>7. UNCHANGED <<locked, slot, stdin>>
    BY <1>11 DEF DispatchResponse, screenVars, slotVars
  <2> QED
    BY <2>5, <2>6, <2>7 DEF DocumentIsLocked
<1>12. ASSUME UNCHANGED <<call, locked, slot, stdin>> PROVE DocumentIsLocked'
  BY <1>12 DEF DocumentIsLocked
<1> QED
  BY <1>1, <1>2, <1>3, <1>4, <1>5, <1>6, <1>7, <1>8, <1>9, <1>10, <1>11, <1>12, StepFacts

(* The answers the interface is given to its attempts to run are           *)
(* acceptances.                                                            *)
LEMMA AnswersAccept ==
  ASSUME Typed, WorkerHasSlot, EventsAreTrue, InOrder, StartsAreShown, StartsAreFresh,
         ~StartTimedOut, ~StartTimedOut', DocumentIsLocked, StartsAreAccepted, RunIsShown,
         [Next]_vars
  PROVE  \A s \in Runs : call'[Start(s)] = "answered" => outcome'[Start(s)] = "accepted"
<1> call \in [Requests -> {"idle", "validating", "asked", "sent", "answered"}]
      /\ outcome \in [Requests -> {"none", "accepted", "refused", "timeout"}]
  BY TypedParts DEF CallTyped
<1>1. ASSUME NEW r \in Runs, RunGraph(r)
      PROVE \A s \in Runs : call'[Start(s)] = "answered" => outcome'[Start(s)] = "accepted"
  <2>1. call' = [call EXCEPT ![Start(r)] = "validating"] /\ UNCHANGED outcome
    BY <1>1 DEF RunGraph, Start
  <2> QED
    BY <2>1, StartRequests DEF StartsAreAccepted
<1>2. ASSUME NEW r \in Runs, Validated(r)
      PROVE \A s \in Runs : call'[Start(s)] = "answered" => outcome'[Start(s)] = "accepted"
  <2>1. \/ call' = [call EXCEPT ![Start(r)] = "asked"] /\ UNCHANGED outcome
        \/ call' = [call EXCEPT ![Start(r)] = "idle"]
             /\ outcome' = [outcome EXCEPT ![Start(r)] = "refused"]
    BY <1>2 DEF Validated, Start
  <2>2. \A s \in Runs : s # r => call'[Start(s)] = call[Start(s)]
          /\ outcome'[Start(s)] = outcome[Start(s)]
    BY <2>1, StartRequests
  <2>3. call'[Start(r)] # "answered"
    BY <2>1, StartRequests
  <2> QED
    BY <2>2, <2>3 DEF StartsAreAccepted
<1>3. ASSUME NEW r \in Runs, CancelRun(r)
      PROVE \A s \in Runs : call'[Start(s)] = "answered" => outcome'[Start(s)] = "accepted"
  <2>1. call' = [call EXCEPT ![<<r, "cancel">>] = "asked"] /\ UNCHANGED outcome
    BY <1>3 DEF CancelRun
  <2>2. \A s \in Runs : call'[Start(s)] = call[Start(s)]
    BY <2>1, StartRequests
  <2> QED
    BY <2>1, <2>2 DEF StartsAreAccepted
<1>4. ASSUME NEW r \in Runs, StartReturns(r)
      PROVE \A s \in Runs : call'[Start(s)] = "answered" => outcome'[Start(s)] = "accepted"
  <2>1. call' = [call EXCEPT ![Start(r)] = "idle"] /\ UNCHANGED outcome
    BY <1>4 DEF StartReturns, Start
  <2> QED
    BY <2>1, StartRequests DEF StartsAreAccepted
<1>5. ASSUME NEW r \in Runs, CancelReturns(r)
      PROVE \A s \in Runs : call'[Start(s)] = "answered" => outcome'[Start(s)] = "accepted"
  <2>1. call' = [call EXCEPT ![<<r, "cancel">>] = "idle"] /\ UNCHANGED outcome
    BY <1>5 DEF CancelReturns
  <2>2. \A s \in Runs : call'[Start(s)] = call[Start(s)]
    BY <2>1, StartRequests
  <2> QED
    BY <2>1, <2>2 DEF StartsAreAccepted
<1>6. ASSUME NEW q \in Requests, Send(q)
      PROVE \A s \in Runs : call'[Start(s)] = "answered" => outcome'[Start(s)] = "accepted"
  <2>1. call' = [call EXCEPT ![q] = "sent"] /\ UNCHANGED outcome
    BY <1>6 DEF Send
  <2> QED
    BY <2>1, StartRequests DEF StartsAreAccepted
<1>7. ASSUME NEW q \in Requests, TimeOut(q)
      PROVE \A s \in Runs : call'[Start(s)] = "answered" => outcome'[Start(s)] = "accepted"
  <2>1. call' = [call EXCEPT ![q] = "answered"] /\ outcome' = [outcome EXCEPT ![q] = "timeout"]
    BY <1>7 DEF TimeOut
  <2>2. \A s \in Runs : q # Start(s)
    BY <2>1, StartRequests DEF StartTimedOut, Start
  <2>3. \A s \in Runs : call'[Start(s)] = call[Start(s)]
          /\ outcome'[Start(s)] = outcome[Start(s)]
    BY <2>1, <2>2, StartRequests
  <2> QED
    BY <2>3 DEF StartsAreAccepted
<1>8. ASSUME DispatchResponse
      PROVE \A s \in Runs : call'[Start(s)] = "answered" => outcome'[Start(s)] = "accepted"
  <2> DEFINE m == Head(stdout)
      q == m.request
  <2>1. m \in ToSet(stdout) /\ m \in Responses
    <3>1. stdout # <<>> /\ m.kind = "response" /\ stdout \in Seq(Events \cup Responses)
      BY <1>8, TypedParts DEF DispatchResponse, MessagesTyped
    <3>2. m \in Events \cup Responses /\ m \in ToSet(stdout)
      BY <3>1, TailIndex, ElementFacts
    <3> QED
      BY <3>1, <3>2 DEF Events
  <2>2. q \in Requests /\ m.kind = "response"
    BY <2>1 DEF Responses
  <2>3. \/ UNCHANGED <<call, outcome>>
        \/ (/\ call[q] = "sent" /\ call' = [call EXCEPT ![q] = "answered"]
            /\ outcome' = [outcome EXCEPT ![q] = IF m.ok THEN "accepted" ELSE "refused"])
    BY <1>8 DEF DispatchResponse
  <2> HIDE DEF m
  <2>4. \A s \in Runs : q = Start(s) => m.ok
    BY <2>1, <2>2, StartRequests DEF StartsAreAccepted, Start
  <2>5. \A s \in Runs :
          (call'[Start(s)] = call[Start(s)] /\ outcome'[Start(s)] = outcome[Start(s)])
            \/ (q = Start(s) /\ (m.ok => outcome'[Start(s)] = "accepted"))
    BY <2>2, <2>3, StartRequests
  <2> QED
    BY <2>4, <2>5 DEF StartsAreAccepted
<1>9. ASSUME UNCHANGED <<call, outcome>>
      PROVE \A s \in Runs : call'[Start(s)] = "answered" => outcome'[Start(s)] = "accepted"
  BY <1>9 DEF StartsAreAccepted
<1> QED
  BY <1>1, <1>2, <1>3, <1>4, <1>5, <1>6, <1>7, <1>8, <1>9, StepFacts

(* A start the sidecar handles is accepted.                                *)
LEMMA HandledIsAccepted ==
  ASSUME Typed, WorkerHasSlot, EventsAreTrue, InOrder, StartsAreShown, StartsAreFresh,
         ~StartTimedOut, ~StartTimedOut', DocumentIsLocked, StartsAreAccepted, RunIsShown,
         [Next]_vars
  PROVE  input'.request[2] = "start" => input'.ok
<1>1. ASSUME HandleRequest PROVE input'.request[2] = "start" => input'.ok
  <2>1. stdin # <<>> /\ stdin \in Seq(Requests) /\ Head(stdin) \in Requests
    BY <1>1, TailIndex, TypedParts DEF HandleRequest, MessagesTyped
  <2>2. Head(stdin) = <<Head(stdin)[1], Head(stdin)[2]>>
          /\ Head(stdin)[2] \in {"start", "cancel"} /\ Head(stdin)[1] \in Runs
    BY <2>1 DEF Requests
  <2>3. CASE Head(stdin)[2] = "start"
    <3> DEFINE r == Head(stdin)[1]
    <3>1. Head(stdin) = Start(r) /\ r \in Runs
      BY <2>2, <2>3 DEF Start
    <3>2. ~Absent(stdin, {Start(r)})
      BY <2>1, <3>1, TailFacts
    <3>3. call[Start(r)] # "idle"
      BY <3>1, <3>2 DEF DocumentIsLocked
    <3>4. Accepts(r)
      BY <3>1, <3>2, <3>3, AskedAlone DEF Asked, Accepts
    <3> QED
      BY <1>1, <2>3, <3>4 DEF HandleRequest, HandleStart
  <2>4. CASE Head(stdin)[2] = "cancel"
    <3>1. input'.request = Head(stdin)
      BY <1>1, <2>2, <2>4 DEF HandleRequest, HandleCancel
    <3> QED
      BY <2>4, <3>1
  <2> QED
    BY <2>2, <2>3, <2>4
<1>2. ASSUME NumberState PROVE input'.request[2] = "start" => input'.ok
  <2>1. input'.request = input.request /\ input'.ok = input.ok
    BY <1>2, TypedParts DEF NumberState, ThreadTyped, Inputs
  <2> QED
    BY <2>1 DEF StartsAreAccepted
<1>3. ASSUME QueueAnswer PROVE input'.request[2] = "start" => input'.ok
  <2>1. input'.request = input.request /\ input'.ok = input.ok
    BY <1>3, TypedParts DEF QueueAnswer, ThreadTyped, Inputs
  <2> QED
    BY <2>1 DEF StartsAreAccepted
<1>4. ASSUME Notify PROVE input'.request[2] = "start" => input'.ok
  BY <1>4 DEF Notify, Resting
<1>5. ASSUME UNCHANGED input PROVE input'.request[2] = "start" => input'.ok
  BY <1>5 DEF StartsAreAccepted
<1> QED
  BY <1>1, <1>2, <1>3, <1>4, <1>5, StepFacts

(* If no run.start was given up, what is pending is shown.                 *)
LEMMA PendingStep ==
  ASSUME Typed, WorkerHasSlot, EventsAreTrue, InOrder, StartsAreShown, StartsAreFresh,
         PendingIsShown,
         [Next]_vars
  PROVE  PendingIsShown'
<1> SUFFICES ASSUME ~StartTimedOut' PROVE DocumentIsLocked' /\ StartsAreAccepted' /\ RunIsShown'
  BY DEF PendingIsShown
<1>1. ~StartTimedOut
  BY GivenUpStays
<1> DocumentIsLocked /\ StartsAreAccepted /\ RunIsShown
  BY <1>1 DEF PendingIsShown
<1>2. DocumentIsLocked' /\ RunIsShown'
  BY <1>1, LockedStep, RunIsShownStep
<1>3. \A m \in ToSet(stdout') : m.kind = "response" /\ m.request[2] = "start" => m.ok
  BY AnswerStep DEF Answers, Response, StartsAreAccepted
<1>4. StartsAreAccepted'
  BY <1>1, <1>3, AnswersAccept, HandledIsAccepted DEF StartsAreAccepted
<1> QED
  BY <1>2, <1>4

(* A node event is numbered by the worker of its run.                      *)
LEMMA NodesFlow ==
  ASSUME Typed, WorkerHasSlot, [Next]_vars
  PROVE  \A f \in AllEvents' : f.kind = "node" => f \in AllEvents \/ \E s \in Runs
           : NodeEvent(s) /\ f.run = s
<1>1. CASE Flows
  BY <1>1 DEF Flows
<1>2. ASSUME NumberState
      PROVE \A f \in AllEvents' : f.kind = "node" => f \in AllEvents
        \/ \E s \in Runs : NodeEvent(s) /\ f.run = s
  <2> DEFINE e == Event("state", input.request[1], input.event, sequence + 1)
  <2>1. "input" \in Emitters /\ input.request[1] \in Runs \cup {NoRun}
          /\ input.event \in {"none", "running", "cancelling"} \cup Slot!Verdicts
    BY <1>2, TypedParts DEF Emitters, ThreadTyped, Inputs, WorkerHasSlot, NumberState
  <2>2. Number("input", "state", input.request[1], input.event)
          /\ UNCHANGED <<stdout, channel, frame, highest>>
    BY <1>2 DEF NumberState, screenVars, hostVars
  <2>3. Adds(e)
    BY <2>1, <2>2, NumberAdds
  <2>4. e.kind = "state" /\ e.run = input.request[1] /\ e.state = input.event
          /\ e.seq = sequence + 1
    BY DEF Event
  <2> HIDE DEF e
  <2> QED
    BY <2>3, <2>4 DEF Adds
<1>3. ASSUME Callback
      PROVE \A f \in AllEvents' : f.kind = "node" => f \in AllEvents
        \/ \E s \in Runs : NodeEvent(s) /\ f.run = s
  <2> DEFINE e == Event("callback", NoRun, "none", sequence + 1)
  <2>1. "device" \in Emitters /\ NoRun \in Runs \cup {NoRun}
          /\ "none" \in {"none", "running", "cancelling"} \cup Slot!Verdicts
    BY <1>3, TypedParts DEF Emitters, ThreadTyped, Inputs, WorkerHasSlot
  <2>2. Number("device", "callback", NoRun, "none")
          /\ UNCHANGED <<stdout, channel, frame, highest>>
    BY <1>3 DEF Callback, screenVars, hostVars
  <2>3. Adds(e)
    BY <2>1, <2>2, NumberAdds
  <2>4. e.kind = "callback" /\ e.run = NoRun /\ e.state = "none" /\ e.seq = sequence + 1
    BY DEF Event
  <2> HIDE DEF e
  <2> QED
    BY <2>3, <2>4 DEF Adds
<1>4. ASSUME NEW r \in Runs, NodeEvent(r)
      PROVE \A f \in AllEvents' : f.kind = "node" => f \in AllEvents
        \/ \E s \in Runs : NodeEvent(s) /\ f.run = s
  <2> DEFINE e == Event("node", r, "none", sequence + 1)
  <2>1. r \in Emitters /\ r \in Runs \cup {NoRun}
          /\ "none" \in {"none", "running", "cancelling"} \cup Slot!Verdicts
    BY <1>4, TypedParts DEF Emitters, ThreadTyped, Inputs, WorkerHasSlot
  <2>2. Number(r, "node", r, "none") /\ UNCHANGED <<stdout, channel, frame, highest>>
    BY <1>4 DEF NodeEvent, screenVars, hostVars
  <2>3. Adds(e)
    BY <2>1, <2>2, NumberAdds
  <2>4. e.kind = "node" /\ e.run = r /\ e.state = "none" /\ e.seq = sequence + 1
    BY DEF Event
  <2> HIDE DEF e
  <2> QED
    BY <1>4, <2>3, <2>4 DEF Adds
<1>5. ASSUME NEW r \in Runs, NumberTerminal(r)
      PROVE \A f \in AllEvents' : f.kind = "node" => f \in AllEvents
        \/ \E s \in Runs : NodeEvent(s) /\ f.run = s
  <2> DEFINE e == Event("state", r, verdict[r], sequence + 1)
  <2>1. r \in Emitters /\ r \in Runs \cup {NoRun}
          /\ verdict[r] \in {"none", "running", "cancelling"} \cup Slot!Verdicts
    BY <1>5, TypedParts DEF Emitters, ThreadTyped, Inputs, WorkerHasSlot, NumberTerminal
  <2>2. Number(r, "state", r, verdict[r]) /\ UNCHANGED <<stdout, channel, frame, highest>>
    BY <1>5 DEF NumberTerminal, screenVars, hostVars
  <2>3. Adds(e)
    BY <2>1, <2>2, NumberAdds
  <2>4. e.kind = "state" /\ e.run = r /\ e.state = verdict[r] /\ e.seq = sequence + 1
    BY DEF Event
  <2> HIDE DEF e
  <2> QED
    BY <2>3, <2>4 DEF Adds
<1> QED
  BY <1>1, <1>2, <1>3, <1>4, <1>5, FlowStep DEF NumberingStep

(* A run that was heard out stays so.                                      *)
LEMMA HeardOutStays ==
  ASSUME Typed, WorkerHasSlot, InOrder, EventsAreTrue, [Next]_vars
  PROVE  \A s \in Runs : HeardOut(s) => HeardOut(s)'
<1> SUFFICES ASSUME NEW s \in Runs, HeardOut(s) PROVE HeardOut(s)'
  OBVIOUS
<1>1. worker'[s] = "done"
  BY DoneStep DEF DoneStays, HeardOut
<1>2. \A e \in AllEvents' : e.kind = "node" /\ e.run = s => e \in AllEvents /\ e.seq <= applied
        /\ e.seq \in Nat
  BY NodesFlow, EventsTyped, TypedParts DEF NodeEvent, HeardOut, Events
<1>3. ASSUME HearEvent PROVE HeardOut(s)'
  <2> DEFINE e == Head(channel)
  <2> HIDE DEF e
  <2>1. Hears(e)
    BY <1>3, HearCases DEF e
  <2>2. e.seq \in Nat /\ applied \in Nat
    BY <2>1, TypedParts, EventsTyped DEF Hears, Events, ScreenTyped
  <2>3. \A f \in AllEvents' : f.kind = "node" /\ f.run = s => f.seq <= applied'
    BY <1>2, <2>1, <2>2 DEF Hears
  <2>4. e.run = s => e.kind # "node"
    BY <2>1, <2>2 DEF Hears, HeardOut
  <2>5. ToSet(frame') \subseteq ToSet(frame) \cup {e}
    BY <2>1, SmallSets DEF Hears
  <2> QED
    BY <1>1, <2>3, <2>4, <2>5 DEF HeardOut
<1>4. ASSUME CommitFrame PROVE HeardOut(s)'
  <2>1. frame' = <<>> /\ applied' = applied /\ ToSet(frame') = {}
    BY <1>4, SmallSets DEF CommitFrame
  <2> QED
    BY <1>1, <1>2, <2>1 DEF HeardOut
<1>5. ASSUME UNCHANGED <<frame, applied>> PROVE HeardOut(s)'
  BY <1>1, <1>2, <1>5 DEF HeardOut
<1> QED
  BY <1>3, <1>4, <1>5, StepFacts

(* What is registered is the run that is shown.                            *)
LEMMA RegisteredStep ==
  ASSUME Typed, WorkerHasSlot, InOrder, EventsAreTrue, StartsAreShown, EndsAreShown,
         RunIsRegistered, [Next]_vars
  PROVE  RunIsRegistered'
<1>1. ASSUME NEW r \in Runs, RunGraph(r) PROVE RunIsRegistered'
  <2>1. ~Active(view.state) /\ UNCHANGED registered
    BY <1>1 DEF RunGraph
  <2> QED
    BY <2>1 DEF RunIsRegistered
<1>2. ASSUME NEW r \in Runs, Validated(r) PROVE RunIsRegistered'
  <2>1. UNCHANGED registered /\ view.state = "starting"
    BY <1>2 DEF Validated, StartsAreShown, Start
  <2> QED
    BY <2>1 DEF RunIsRegistered
<1>3. ASSUME NEW r \in Runs, StartReturns(r) PROVE RunIsRegistered'
  <2>1. view.run = r /\ view.state = "starting" /\ registered = NoRun
    BY <1>3 DEF StartReturns, StartsAreShown, Start, RunIsRegistered
  <2>2. \/ view' = [view EXCEPT !.bound = TRUE, !.state = "running"] /\ registered' = r
        \/ view' = EmptyView /\ UNCHANGED registered
    BY <1>3, <2>1 DEF StartReturns, FailToStart
  <2>3. CASE registered' = NoRun
    BY <2>3 DEF RunIsRegistered
  <2>4. CASE view' = [view EXCEPT !.bound = TRUE, !.state = "running"] /\ registered' = r
    BY <2>1, <2>4, TypedParts DEF RunIsRegistered, ScreenTyped, Views, Active
  <2> QED
    BY <2>1, <2>2, <2>3, <2>4
<1>4. ASSUME HearEvent PROVE RunIsRegistered'
  <2> DEFINE e == Head(channel)
  <2> HIDE DEF e
  <2>1. Hears(e)
    BY <1>4, HearCases DEF e
  <2>2. CASE ~IsTerminal(e)
    BY <2>1, <2>2 DEF Hears, RunIsRegistered
  <2>3. CASE IsTerminal(e)
    <3>1. registered' \in {NoRun, registered} /\ (registered = e.run => registered' = NoRun)
      BY <2>1, <2>3 DEF Hears, Consumed
    <3>2. view'.run = view.run
            /\ (view'.state = view.state \/ view'.state \in {"running", "cancelling"} \/ e.run = view.run)
      BY <2>1, <2>3 DEF Hears, Shows
    <3> QED
      BY <3>1, <3>2 DEF RunIsRegistered, Active
  <2> QED
    BY <2>2, <2>3
<1>5. ASSUME CommitFrame PROVE RunIsRegistered'
  <2>1. UNCHANGED registered
    BY <1>5 DEF CommitFrame
  <2> QED
    BY <1>5, <2>1, CommitCases DEF RunIsRegistered, Active
<1>6. ASSUME UNCHANGED <<view, registered>> PROVE RunIsRegistered'
  BY <1>6 DEF RunIsRegistered
<1> QED
  BY <1>1, <1>2, <1>3, <1>4, <1>5, <1>6, StepFacts

\* What EndsAreShown says of an end.
EndIsTrue == HeardOut(view.run) /\ view.state = verdict[view.run]

(* An end that is shown stays true.                                        *)
LEMMA EndStays ==
  ASSUME Typed, WorkerHasSlot, InOrder, EventsAreTrue, StartsAreShown, EndsAreShown,
         RunIsRegistered, [Next]_vars,
         Terminal(view'.state), view'.state = view.state, view'.run = view.run
  PROVE  EndIsTrue'
<1>1. HeardOut(view.run) /\ view.state = verdict[view.run]
  BY DEF EndsAreShown
<1>2. PICK r \in Runs : r = view.run
  BY <1>1 DEF HeardOut
<1>3. HeardOut(r) /\ worker[r] = "done"
  BY <1>1, <1>2 DEF HeardOut
<1>4. HeardOut(r)' /\ verdict'[r] = verdict[r]
  BY <1>3, DoneStep, HeardOutStays DEF DoneStays
<1>5. view'.run = r /\ view'.state = verdict'[r]
  BY <1>1, <1>2, <1>4
<1> QED
  BY <1>4, <1>5 DEF EndIsTrue, HeardOut

(* A shown end is true, and of a run that was heard out.                   *)
LEMMA ShownEndStep ==
  ASSUME Typed, WorkerHasSlot, InOrder, EventsAreTrue, StartsAreShown, EndsAreShown,
         RunIsRegistered, [Next]_vars
  PROVE  EndsAreShown'
<1> SUFFICES ASSUME Terminal(view'.state) PROVE EndIsTrue'
  BY DEF EndsAreShown, EndIsTrue
<1>1. ASSUME NEW r \in Runs, RunGraph(r) PROVE EndIsTrue'
  <2>1. view'.state = "starting"
    BY <1>1 DEF RunGraph, EmptyView
  <2> QED
    BY <2>1 DEF Terminal
<1>2. ASSUME NEW r \in Runs, Validated(r) PROVE EndIsTrue'
  <2>1. view'.state = view.state /\ view'.run = view.run => EndIsTrue'
    BY EndStays
  <2>2. UNCHANGED view \/ view' = EmptyView
    BY <1>2 DEF Validated, FailToStart
  <2> QED
    BY <2>1, <2>2 DEF Terminal, EmptyView
<1>3. ASSUME NEW r \in Runs, StartReturns(r) PROVE EndIsTrue'
  <2>1. EmptyView.state = "none"
    BY DEF EmptyView
  <2>2. [view EXCEPT !.bound = TRUE, !.state = "running"].state = "running"
    BY TypedParts DEF ScreenTyped, Views
  <2>3. view' = [view EXCEPT !.bound = TRUE, !.state = "running"] \/ view' = EmptyView
    BY <1>3 DEF StartReturns, FailToStart, StartsAreShown, Start
  <2> QED
    BY <2>1, <2>2, <2>3 DEF Terminal
<1>4. ASSUME HearEvent PROVE EndIsTrue'
  <2>1. view'.state = view.state /\ view'.run = view.run => EndIsTrue'
    BY EndStays
  <2> DEFINE e == Head(channel)
  <2> HIDE DEF e
  <2>2. Hears(e)
    BY <1>4, HearCases DEF e
  <2>3. CASE UNCHANGED view
    BY <2>1, <2>3
  <2>4. ASSUME IsTerminal(e), view'.run = view.run, view'.state = e.state, e.run = view.run,
               frame' = <<>>
        PROVE  EndIsTrue'
    <3>1. e \in AllEvents /\ e.run \in Runs /\ worker[e.run] = "done"
            /\ e.state = verdict[e.run]
      BY <2>2, <2>4 DEF EventsAreTrue, Hears, IsTerminal
    <3>2. worker'[e.run] = "done" /\ verdict'[e.run] = verdict[e.run]
      BY <3>1, DoneStep DEF DoneStays
    <3>3. ASSUME NEW f \in AllEvents', f.kind = "node", f.run = e.run PROVE f.seq <= applied'
      <4>1. f \in AllEvents
        BY <3>1, <3>3, NodesFlow DEF NodeEvent
      <4>2. f.seq < e.seq /\ applied' = e.seq
        BY <2>2, <2>4, <3>1, <3>3, <4>1 DEF EventsAreTrue, Hears
      <4>3. f.seq \in Nat /\ e.seq \in Nat
        BY <3>1, <4>1, TypedParts, EventsTyped DEF Events
      <4> QED
        BY <4>2, <4>3
    <3>4. ToSet(frame') = {}
      BY <2>4, SmallSets
    <3>5. view'.run = e.run
      BY <2>4
    <3> QED
      BY <2>4, <3>1, <3>2, <3>3, <3>4, <3>5 DEF EndIsTrue, HeardOut
  <2>5. \/ UNCHANGED view
        \/ IsTerminal(e) /\ frame' = <<>> /\ Shows(e)
    BY <2>2 DEF Hears
  <2> QED
    BY <2>1, <2>3, <2>4, <2>5 DEF Shows, Terminal
<1>5. ASSUME CommitFrame PROVE EndIsTrue'
  <2>1. view'.state = view.state /\ view'.run = view.run => EndIsTrue'
    BY EndStays
  <2> QED
    BY <1>5, <2>1, CommitCases DEF Terminal
<1>6. ASSUME UNCHANGED view PROVE EndIsTrue'
  <2>1. view'.state = view.state /\ view'.run = view.run => EndIsTrue'
    BY EndStays
  <2> QED
    BY <2>1, <1>6
<1> QED
  BY <1>1, <1>2, <1>3, <1>4, <1>5, <1>6, StepFacts

(* The initial states satisfy the invariant.                               *)
LEMMA InitHolds ==
  ASSUME Init
  PROVE  IInv
<1>1. /\ stdout = <<>> /\ channel = <<>> /\ frame = <<>> /\ stdin = <<>>
           /\ \A x \in Emitters : inHand[x] = <<>>
      /\ ToSet(<<>>) = {}
  BY SmallSets DEF Init
<1>2. Queued = {}
  <2>1. UNION {ToSet(inHand[x]) : x \in Emitters} = {}
    BY <1>1
  <2> QED
    BY <1>1, <2>1 DEF Queued
<1>3. AllEvents = {} /\ Live = {}
  BY <1>1, <1>2 DEF AllEvents, Live
<1>4. bounds \in Scenarios /\ bounds.timeouts \in Nat /\ bounds.callbacks \in Nat
  BY EventsAssumption DEF Init
<1>5. /\ slot = NoRun /\ verdict = [r \in Runs |-> "none"] /\ asked = {} /\ latest = NoRun
      /\ worker = [r \in Runs |-> "none"] /\ input = Resting /\ view = EmptyView
  BY DEF Init, Slot!Init
<1>6. ScreenTyped
  <2>1. EmptyView \in Views /\ EmptyView.last = 0
    BY DEF EmptyView, Views
  <2>2. /\ view = EmptyView /\ locked = FALSE /\ registered = NoRun
        /\ applied = 0 /\ highest = 0 /\ sequence = 0
    BY DEF Init
  <2>3. view \in Views /\ view.last <= applied /\ view = EmptyView
    BY <2>1, <2>2
  <2>4. locked \in BOOLEAN /\ registered \in Runs \cup {NoRun}
    BY <2>2
  <2>5. applied \in Nat /\ highest \in Nat /\ sequence \in Nat /\ applied <= highest
          /\ highest <= sequence
    BY <2>2
  <2> QED
    BY <2>3, <2>4, <2>5 DEF ScreenTyped
<1>7. CallTyped
  BY <1>4 DEF Init, CallTyped, Requests
<1>8. MessagesTyped
  BY <1>1 DEF Init, MessagesTyped
<1>9. ThreadTyped
  BY <1>5 DEF Init, ThreadTyped, Inputs, Resting, Requests
<1>10. Typed
  BY <1>6, <1>7, <1>8, <1>9, TypedParts
<1>11. WorkerHasSlot
  BY <1>5, EventsAssumption DEF WorkerHasSlot, Resting, Slot!Verdicts
<1>12. EventsAreTrue
  BY <1>3 DEF EventsAreTrue
<1>13. InOrder
  BY <1>1 DEF InOrder
<1>14. \A r \in Runs : call[Start(r)] = "idle" /\ outcome[Start(r)] = "none"
  BY StartRequests DEF Init
<1>15. StartsAreShown
  BY <1>5, <1>14 DEF StartsAreShown, EmptyView
<1>16. \A S : Absent(stdin, S) /\ Once(stdin, S)
  BY <1>1 DEF Absent, Once
<1>17. \A r \in Runs : Slot!Fresh(r) /\ ~Handled(r)
  BY <1>1, <1>5, StartRequests, EventsAssumption DEF Handled, Slot!Fresh, Resting
<1>18. StartsAreFresh
  BY <1>16, <1>17 DEF StartsAreFresh
<1>19. \A r \in Runs : ~Pending(r)
  BY <1>3, <1>5, EventsAssumption DEF Pending
<1>20. DocumentIsLocked /\ RunIsShown
  BY <1>5, <1>14, <1>16, <1>19 DEF DocumentIsLocked, RunIsShown
<1>21. StartsAreAccepted
  BY <1>1, <1>5, <1>14 DEF StartsAreAccepted, Resting
<1>22. EndsAreShown /\ RunIsRegistered
  BY <1>5 DEF Init, EndsAreShown, RunIsRegistered, EmptyView, Terminal
<1> QED
  BY <1>10, <1>11, <1>12, <1>13, <1>15, <1>18, <1>20, <1>21, <1>22 DEF IInv, PendingIsShown

(* The invariant is inductive.                                             *)
LEMMA Inductive ==
  ASSUME IInv, [Next]_vars
  PROVE  IInv'
<1> Typed /\ WorkerHasSlot /\ EventsAreTrue /\ InOrder
  BY DEF IInv
<1> StartsAreShown /\ StartsAreFresh /\ PendingIsShown /\ EndsAreShown /\ RunIsRegistered
  BY DEF IInv
<1>1. Typed' /\ WorkerHasSlot'
  BY TypedStep, WorkerStep
<1>2. EventsAreTrue' /\ InOrder'
  BY EventsStep, OrderStep
<1>3. StartsAreShown' /\ StartsAreFresh'
  BY ShownStep, FreshStep
<1>4. PendingIsShown'
  BY PendingStep
<1>5. EndsAreShown' /\ RunIsRegistered'
  BY ShownEndStep, RegisteredStep
<1> QED
  BY <1>1, <1>2, <1>3, <1>4, <1>5 DEF IInv

(* Every reachable state satisfies the invariant.                          *)
THEOREM Invariance == Spec => []IInv
<1> QED
  BY InitHolds, Inductive, PTL DEF Spec

(* Whatever requests, answers and events of any number of runs are under   *)
(* way, what the interface shows, locks, offers and registers agrees       *)
(* with the run the runtime has.                                           *)
THEOREM ViewsAgree == Spec => []ViewAgrees
<1>1. IInv => ViewAgrees
  <2> SUFFICES ASSUME IInv PROVE ViewAgrees
    OBVIOUS
  <2>1. TypeOK
    BY DEF IInv, Typed
  <2>2. LockedWhileRunning
    BY DEF IInv, PendingIsShown, DocumentIsLocked, LockedWhileRunning
  <2>3. RefusedOnlyAfterTimeout
    BY DEF IInv, PendingIsShown, StartsAreAccepted, RefusedOnlyAfterTimeout
  <2>4. EndedRunIsConsumed
    BY DEF IInv, RunIsRegistered, EndedRunIsConsumed, Terminal, Active
  <2> QED
    BY <2>1, <2>2, <2>3, <2>4 DEF ViewAgrees
<1> QED
  BY <1>1, Invariance, PTL

(* The end the interface shows is the verdict of the run it shows.         *)
THEOREM ShownEndsAreTrue == Spec => []ShownEndIsTrue
<1>1. IInv => ShownEndIsTrue
  <2> SUFFICES ASSUME IInv PROVE ShownEndIsTrue
    OBVIOUS
  <2> QED
    BY DEF IInv, EndsAreShown, ShownEndIsTrue
<1> QED
  BY <1>1, Invariance, PTL

(* A run is shown as ended after everything its graph did.                 *)
THEOREM EndsComeLast == Spec => []EndComesLast
<1>1. IInv => EndComesLast
  <2> SUFFICES ASSUME IInv PROVE EndComesLast
    OBVIOUS
  <2> SUFFICES ASSUME Terminal(view.state), NEW e \in ToSet(frame \o channel),
                      e.run = view.run, e.kind = "node"
               PROVE  FALSE
    BY DEF EndComesLast
  <2>1. MessagesTyped /\ ScreenTyped /\ InOrder /\ HeardOut(view.run)
    BY TypedParts DEF IInv, EndsAreShown
  <2>2. e \in ToSet(frame) \/ e \in ToSet(channel)
    <3>1. frame \in Seq(Events) /\ channel \in Seq(Events)
      BY <2>1 DEF MessagesTyped
    <3>2. PICK i \in DOMAIN (frame \o channel) : e = (frame \o channel)[i]
      BY DEF ToSet
    <3>3. /\ Len(frame) \in Nat /\ Len(channel) \in Nat /\ i \in 1 .. Len(frame) + Len(channel)
          /\ DOMAIN frame = 1..Len(frame) /\ DOMAIN channel = 1..Len(channel)
          /\ e = IF i <= Len(frame) THEN frame[i] ELSE channel[i - Len(frame)]
      BY <3>1, <3>2, ConcatProperties
    <3>4. i \in DOMAIN frame \/ (i > Len(frame) /\ i - Len(frame) \in DOMAIN channel)
      BY <3>3
    <3> QED
      BY <3>3, <3>4 DEF ToSet
  <2>3. e \in ToSet(channel) /\ e \in AllEvents
    BY <2>1, <2>2 DEF HeardOut, AllEvents
  <2>4. e.seq \in Nat /\ e.seq <= applied /\ applied < e.seq
    BY <2>1, <2>3, EventsTyped DEF HeardOut, InOrder, Events
  <2> QED
    BY <2>1, <2>4 DEF ScreenTyped
<1> QED
  BY <1>1, Invariance, PTL

(* Every step is one of the runtime's contract, or changes nothing of      *)
(* it.                                                                     *)
LEMMA SlotStep ==
  ASSUME IInv, [Next]_vars
  PROVE  [Slot!Next]_Slot!vars
<1>1. ASSUME HandleRequest PROVE [Slot!Next]_Slot!vars
  <2>1. stdin # <<>> /\ Head(stdin) \in Requests
    BY <1>1, TailIndex, TypedParts DEF HandleRequest, MessagesTyped, IInv
  <2>2. Head(stdin)[1] \in Runs
    BY <2>1 DEF Requests
  <2>3. \/ Slot!Reserve(Head(stdin)[1]) \/ Slot!Ask(Head(stdin)[1])
        \/ UNCHANGED slotVars
    BY <1>1 DEF HandleRequest, HandleStart, HandleCancel
  <2> QED
    BY <2>2, <2>3 DEF Slot!Next, Slot!vars, slotVars
<1>2. ASSUME NEW r \in Runs, NEW v \in Slot!Verdicts, Complete(r, v) PROVE [Slot!Next]_Slot!vars
  <2>1. Slot!Finish(r, v)
    BY <1>2 DEF Complete
  <2> QED
    BY <2>1 DEF Slot!Next, Slot!vars
<1>3. ASSUME UNCHANGED <<slot, asked, verdict, latest>> PROVE [Slot!Next]_Slot!vars
  BY <1>3 DEF Slot!vars, slotVars
<1> QED
  BY <1>1, <1>2, <1>3, StepFacts

(* The runs the sidecar is given keep the contract RunSlot, whatever the   *)
(* threads, the pipes and the interface do.                                *)
THEOREM RunSlotIsKept == Spec => Slot!Spec
<1>1. Init => Slot!Init
  BY DEF Init
<1> QED
  BY <1>1, SlotStep, Invariance, PTL DEF Spec, Slot!Spec

=============================================================================
