-------------------------- MODULE SidecarSupervisor --------------------------
(* The sidecar across its generations: the supervisor of the desktop host with
   its mailboxes, the processes it starts one after the other, the dispatcher
   thread of each, the two channels to the interface, and the state of the
   interface that a change of generation resets.

   The host serves one command at a time (the mutex of RuntimeSupervisorState);
   the interface may have issued more.  What a runtime does inside one generation
   is in RunEvents: here it takes requests, runs at most one graph, crashes, or
   damages its output stream.  Events carry the generation whose dispatcher
   forwarded them. *)
EXTENDS Integers, Sequences, FiniteSets, SequencesExt

CONSTANTS Requests,        \* the attempts to run a graph, one run.start each
          NoRequest,
          MaxGeneration,   \* generations the host starts
          MaxFaults        \* crashes and damaged streams

ASSUME SupervisorAssumption ==
  /\ NoRequest \notin Requests
  /\ MaxGeneration \in Nat \ {0}
  /\ MaxFaults \in Nat

VARIABLES state, generation, process, mailbox, call,    \* the supervisor
          peer, stdin, stdout, run, faults,             \* the processes
          commands, answers, events,                    \* between host and interface
          client, status, view, locked, registered,     \* the interface
          attempt                                       \* the calls of runGraph

host      == <<state, generation, process, mailbox, call>>
sidecars  == <<peer, stdin, stdout, run, faults>>
interface == <<client, status, view, locked, registered, attempt>>
vars      == <<host, sidecars, commands, answers, events, interface>>

Generations == 1..MaxGeneration
States == {"stopped", "starting", "handshaking", "ready", "degraded", "failed"}

Idle       == [op |-> "idle", request |-> NoRequest]
Command    == [op : {"start", "restart"}, request : {NoRequest}]
                \cup [op : {"request"}, request : Requests]
Mailbox    == [responses : SUBSET [request : Requests, ok : BOOLEAN],
               terminal : {"none", "exited", "failure"}]
NewMailbox == [responses |-> {}, terminal |-> "none"]
NoView     == [state |-> "none", request |-> NoRequest, generation |-> 0]

Message(kind, q, ok) == [kind |-> kind, request |-> q, ok |-> ok]
EndOfStream == Message("exited", NoRequest, FALSE)
BadFrame    == Message("failure", NoRequest, FALSE)

Init ==
  /\ state = "stopped" /\ generation = 0 /\ process = FALSE /\ call = Idle
  /\ mailbox = [g \in Generations |-> NewMailbox]
  /\ peer = [g \in Generations |-> "none"]
  /\ stdin = [g \in Generations |-> <<>>] /\ stdout = [g \in Generations |-> <<>>]
  /\ run = [g \in Generations |-> NoRequest] /\ faults = 0
  /\ commands = <<>> /\ answers = <<>> /\ events = <<>>
  /\ client = 0
  /\ status = [generation |-> 0, state |-> "stopped"]
  /\ view = NoView /\ locked = FALSE /\ registered = NoView
  /\ attempt = [q \in Requests |-> [state |-> "fresh", generation |-> 0]]

(****************************** the processes ******************************)

\* The reader thread of g still reads: nothing it has sent ends the stream.
Reading(g) ==
  /\ mailbox[g].terminal = "none"
  /\ \A i \in DOMAIN stdout[g] : stdout[g][i] \notin {EndOfStream, BadFrame}

Written(g, messages) == IF Reading(g) THEN [stdout EXCEPT ![g] = @ \o messages] ELSE stdout

\* One request is taken from stdin: a graph is started when none runs.
Handle(g) ==
  /\ peer[g] = "running" /\ stdin[g] # <<>>
  /\ LET q == Head(stdin[g]) free == run[g] = NoRequest
     IN  /\ run' = IF free THEN [run EXCEPT ![g] = q] ELSE run
         /\ stdout' = Written(g, <<Message("response", q, free)>>)
  /\ stdin' = [stdin EXCEPT ![g] = Tail(@)]
  /\ UNCHANGED <<host, peer, faults, commands, answers, events, interface>>

EndRun(g) ==
  /\ peer[g] = "running" /\ run[g] # NoRequest
  /\ stdout' = Written(g, <<Message("ended", run[g], TRUE)>>)
  /\ run' = [run EXCEPT ![g] = NoRequest]
  /\ UNCHANGED <<host, peer, stdin, faults, commands, answers, events, interface>>

Crash(g) ==
  /\ peer[g] = "running" /\ faults < MaxFaults
  /\ faults' = faults + 1
  /\ peer' = [peer EXCEPT ![g] = "gone"] /\ run' = [run EXCEPT ![g] = NoRequest]
  /\ stdout' = Written(g, <<EndOfStream>>)
  /\ UNCHANGED <<host, stdin, commands, answers, events, interface>>

\* A frame the decoder rejects ends the reader, not the process.
DamageStream(g) ==
  /\ peer[g] = "running" /\ faults < MaxFaults /\ Reading(g)
  /\ faults' = faults + 1
  /\ stdout' = Written(g, <<BadFrame>>)
  /\ UNCHANGED <<host, peer, stdin, run, commands, answers, events, interface>>

Dispatched(g, m) ==
  CASE m.kind = "response" ->
         [mailbox EXCEPT ![g].responses = @ \cup {[request |-> m.request, ok |-> m.ok]}]
    [] m.kind \in {"exited", "failure"} -> [mailbox EXCEPT ![g].terminal = m.kind]
    [] OTHER -> mailbox

\* The dispatcher parks a response, forwards an event, or records the end.
Dispatch(g) ==
  /\ stdout[g] # <<>>
  /\ LET m == Head(stdout[g])
     IN  /\ mailbox' = Dispatched(g, m)
         /\ events' = IF m.kind \in {"ready", "ended"}
                      THEN Append(events, [kind |-> m.kind, request |-> m.request, generation |-> g])
                      ELSE events
  /\ stdout' = [stdout EXCEPT ![g] = Tail(@)]
  /\ UNCHANGED <<state, generation, process, call, peer, stdin, run, faults, commands,
                 answers, interface>>

(****************************** the supervisor ******************************)

\* stop_process: the input is closed, the process leaves by itself (and then ends its
\* run first) or is killed, and its reader has read everything when this returns.
StopProcess ==
  IF ~process THEN UNCHANGED <<process, peer, run, stdout>>
  ELSE LET g == generation
           last == IF peer[g] = "running" THEN <<EndOfStream>> ELSE <<>>
       IN  /\ process' = FALSE
           /\ peer' = [peer EXCEPT ![g] = "gone"] /\ run' = [run EXCEPT ![g] = NoRequest]
           /\ \/ stdout' = Written(g, last)
              \/ /\ peer[g] = "running" /\ run[g] # NoRequest
                 /\ stdout' = Written(g, <<Message("ended", run[g], TRUE)>> \o last)

\* Commands run on the main thread, in the order of their invocation, and are answered in it.
Take(c) == call = Idle /\ commands' = Tail(commands)

Reply(c, ok, s) ==
  answers' = Append(answers, [op |-> c.op, request |-> c.request, ok |-> ok, state |-> s,
                              generation |-> generation])

\* start in Ready returns the status it has.
StartReady(c) ==
  /\ c.op = "start" /\ state = "ready" /\ Take(c)
  /\ Reply(c, TRUE, state)
  /\ UNCHANGED <<host, sidecars, events, interface>>

\* start otherwise, and restart, which stops the process first: a new generation with a
\* new mailbox.  Spawning may fail.
Start(c) ==
  /\ c.op = "restart" \/ (c.op = "start" /\ state # "ready")
  /\ generation < MaxGeneration /\ Take(c)
  /\ IF c.op = "restart" THEN StopProcess ELSE UNCHANGED <<process, peer, run, stdout>>
  /\ generation' = generation + 1 /\ state' = "starting" /\ call' = c
  /\ UNCHANGED <<mailbox, stdin, faults, answers, events, interface>>

Spawn ==
  /\ state = "starting"
  /\ state' = "handshaking" /\ process' = TRUE
  /\ peer' = [peer EXCEPT ![generation] = "running"]
  /\ UNCHANGED <<generation, mailbox, call, stdin, stdout, run, faults, commands, answers,
                 events, interface>>

SpawnFails ==
  /\ state = "starting"
  /\ state' = "failed" /\ call' = Idle /\ Reply(call, FALSE, "failed")
  /\ UNCHANGED <<generation, process, mailbox, sidecars, commands, events, interface>>

HandshakeSucceeds ==
  /\ state = "handshaking" /\ Reading(generation)
  /\ state' = "ready" /\ call' = Idle /\ Reply(call, TRUE, "ready")
  /\ stdout' = Written(generation, <<Message("ready", NoRequest, TRUE)>>)
  /\ UNCHANGED <<generation, process, mailbox, peer, stdin, run, faults, commands, events,
                 interface>>

\* Mutant: the process of a failed handshake is left to itself.
HandshakeFailsKeeping ==
  /\ state = "handshaking"
  /\ state' = "failed" /\ call' = Idle /\ Reply(call, FALSE, "failed")
  /\ UNCHANGED <<generation, process, mailbox, sidecars, commands, events, interface>>

HandshakeFails ==
  /\ state = "handshaking"
  /\ StopProcess
  /\ state' = "failed" /\ call' = Idle /\ Reply(call, FALSE, "failed")
  /\ UNCHANGED <<generation, mailbox, stdin, faults, commands, events, interface>>

\* request without a runtime, or with one that has closed its end of the pipe: the state
\* stays what it is.
RequestRefused(c) ==
  /\ c.op = "request" /\ Take(c)
  /\ state \notin {"ready", "degraded"} \/ ~process \/ peer[generation] = "gone"
  /\ Reply(c, FALSE, state)
  /\ UNCHANGED <<host, sidecars, events, interface>>

RequestWritten(c) ==
  /\ c.op = "request" /\ Take(c)
  /\ state \in {"ready", "degraded"} /\ process /\ peer[generation] = "running"
  /\ stdin' = [stdin EXCEPT ![generation] = Append(@, c.request)]
  /\ call' = c
  /\ UNCHANGED <<state, generation, process, mailbox, peer, stdout, run, faults, answers,
                 events, interface>>

Own == {r \in mailbox[generation].responses : r.request = call.request}

RequestAnswered ==
  /\ call.op = "request"
  /\ \E r \in Own :
        /\ mailbox' = [mailbox EXCEPT ![generation].responses = @ \ {r}]
        /\ Reply(call, r.ok, state)
  /\ call' = Idle
  /\ UNCHANGED <<state, generation, process, sidecars, commands, events, interface>>

\* The stream ended: mark_process_lost.
RequestLost ==
  /\ call.op = "request" /\ Own = {} /\ mailbox[generation].terminal = "exited"
  /\ StopProcess
  /\ state' = "degraded" /\ call' = Idle /\ Reply(call, FALSE, "degraded")
  /\ mailbox' = [mailbox EXCEPT ![generation] = NewMailbox]
  /\ UNCHANGED <<generation, stdin, faults, commands, events, interface>>

\* The stream failed, or the deadline has passed: nothing else changes.
RequestFails ==
  /\ call.op = "request" /\ Own = {} /\ mailbox[generation].terminal \in {"none", "failure"}
  /\ call' = Idle /\ Reply(call, FALSE, state)
  /\ UNCHANGED <<state, generation, process, mailbox, sidecars, commands, events, interface>>

\* shutdown, when the application exits.  Whether its request is answered is ignored.
Shutdown ==
  /\ call = Idle /\ state # "stopped"
  /\ StopProcess
  /\ state' = "stopped"
  /\ mailbox' = [mailbox EXCEPT ![generation] = NewMailbox]
  /\ UNCHANGED <<generation, call, stdin, faults, commands, answers, events, interface>>

(****************************** the interface ******************************)

Active(v) == v.state \in {"starting", "running"}

\* The interface starts the runtime when it is mounted and restarts it from a button that is
\* disabled meanwhile: one lifecycle command at a time.
Ask(op) ==
  /\ \A c \in Range(commands \o answers) \cup {call} : c.op \in {"idle", "request"}
  /\ generation < MaxGeneration
  /\ commands' = Append(commands, [op |-> op, request |-> NoRequest])
  /\ UNCHANGED <<host, sidecars, answers, events, interface>>

\* runGraph up to its first await.
RunGraph(q) ==
  /\ attempt[q].state = "fresh" /\ status.state \in {"ready", "degraded"} /\ ~Active(view)
  /\ attempt' = [attempt EXCEPT ![q] = [state |-> "validating", generation |-> status.generation]]
  /\ view' = [state |-> "starting", request |-> q, generation |-> status.generation]
  /\ locked' = TRUE
  /\ UNCHANGED <<host, sidecars, commands, answers, events, client, status, registered>>

Settle(q, outcome) == attempt' = [attempt EXCEPT ![q].state = outcome]

\* What runGraph compares after each of its awaits.
Current(q) == attempt[q].generation = status.generation /\ attempt[q].generation = view.generation

\* Mutant: any view that is starting is dropped.
FailToStartAny(g) ==
  IF view.state = "starting"
  THEN view' = NoView /\ locked' = FALSE /\ UNCHANGED registered
  ELSE UNCHANGED <<view, locked, registered>>

\* failToStart drops only a view of this generation that is still starting.
FailToStart(g) ==
  IF view.generation = g /\ view.state = "starting"
  THEN view' = NoView /\ locked' = FALSE /\ UNCHANGED registered
  ELSE UNCHANGED <<view, locked, registered>>

\* runGraph between its awaits: the validation may fail or find errors.
ValidationReturns(q) ==
  /\ attempt[q].state = "validating"
  /\ \/ /\ Current(q) /\ Settle(q, "waiting")
        /\ commands' = Append(commands, [op |-> "request", request |-> q])
        /\ UNCHANGED <<view, locked, registered>>
     \/ ~Current(q) /\ Settle(q, "settled") /\ UNCHANGED <<commands, view, locked, registered>>
     \/ FailToStart(attempt[q].generation) /\ Settle(q, "failed") /\ UNCHANGED commands
  /\ UNCHANGED <<host, sidecars, answers, events, client, status>>

AcceptRun ==
  /\ view' = [view EXCEPT !.state = "running"]
  /\ registered' = IF registered = NoView THEN view' ELSE registered
  /\ UNCHANGED locked

\* runGraph after its last await.
StartReturns(a) ==
  /\ a.op = "request" /\ answers' = Tail(answers)
  /\ IF a.ok /\ Current(a.request) /\ view.state = "starting" THEN AcceptRun
     ELSE FailToStart(attempt[a.request].generation)
  /\ Settle(a.request, IF a.ok THEN "settled" ELSE "failed")
  /\ UNCHANGED <<host, sidecars, commands, events, client, status>>

\* Mutant: the registration outlives its generation.
AcceptStatusKeeping(g, s) ==
  /\ client' = IF g > client THEN g ELSE client
  /\ status' = [generation |-> g, state |-> s] /\ UNCHANGED registered
  /\ IF g # status.generation THEN view' = NoView /\ locked' = FALSE
     ELSE UNCHANGED <<view, locked>>

\* A status of another generation resets what belongs to the one before.
AcceptStatus(g, s) ==
  /\ client' = IF g > client THEN g ELSE client
  /\ status' = [generation |-> g, state |-> s]
  /\ IF g # status.generation
     THEN view' = NoView /\ locked' = FALSE /\ registered' = NoView
     ELSE UNCHANGED <<view, locked, registered>>

\* Mutant: a status of a generation an event has announced counts as known.
LifecycleReturnsOnce(a) ==
  /\ a.op # "request" /\ answers' = Tail(answers)
  /\ IF a.ok /\ a.generation > client THEN AcceptStatus(a.generation, a.state)
     ELSE UNCHANGED <<client, status, view, locked, registered>>
  /\ UNCHANGED <<host, sidecars, commands, events, attempt>>

LifecycleReturns(a) ==
  /\ a.op # "request" /\ answers' = Tail(answers)
  /\ IF a.ok THEN AcceptStatus(a.generation, a.state)
     ELSE UNCHANGED <<client, status, view, locked, registered>>
  /\ UNCHANGED <<host, sidecars, commands, events, attempt>>

\* RuntimeClient.applyEvent: an event of an earlier generation is rejected.
Stale(e) == e.generation < client

HearStale ==
  /\ events # <<>> /\ Stale(Head(events)) /\ events' = Tail(events)
  /\ UNCHANGED <<host, sidecars, commands, answers, interface>>

\* onEvent: the end of a run releases the document, whichever run the view shows.
HearEvent ==
  /\ events # <<>> /\ ~Stale(Head(events)) /\ events' = Tail(events)
  /\ LET e == Head(events)
         kept == IF e.generation = status.generation THEN registered ELSE NoView
     IN  /\ client' = e.generation
         /\ IF e.kind # "ended" THEN registered' = kept /\ UNCHANGED <<view, locked>>
            ELSE /\ registered' = IF kept.request = e.request THEN NoView ELSE kept
                 /\ view' = IF view.state = "running" /\ view.request = e.request
                               /\ view.generation = e.generation
                            THEN [view EXCEPT !.state = "ended"] ELSE view
                 /\ locked' = FALSE
  /\ UNCHANGED <<host, sidecars, commands, answers, status, attempt>>

(****************************** the specification ******************************)

HostStep ==
  \/ commands # <<>> /\ LET c == Head(commands)
                        IN  StartReady(c) \/ Start(c) \/ RequestRefused(c) \/ RequestWritten(c)
  \/ Spawn \/ SpawnFails \/ HandshakeSucceeds \/ HandshakeFails
  \/ RequestAnswered \/ RequestLost \/ RequestFails
SidecarStep(g) == Handle(g) \/ EndRun(g) \/ Dispatch(g)
Fault(g) == Crash(g) \/ DamageStream(g)
InterfaceStep ==
  \/ answers # <<>> /\ LET a == Head(answers) IN StartReturns(a) \/ LifecycleReturns(a)
  \/ HearStale \/ HearEvent \/ \E q \in Requests : ValidationReturns(q)
User == Shutdown \/ (\E q \in Requests : RunGraph(q)) \/ (\E op \in {"start", "restart"} : Ask(op))

Next == HostStep \/ (\E g \in Generations : SidecarStep(g) \/ Fault(g)) \/ InterfaceStep \/ User

Spec == Init /\ [][Next]_vars

(****************************** the properties ******************************)

\* Every variable holds what its component can hold.
TypeOK ==
  /\ state \in States /\ generation \in 0..MaxGeneration /\ process \in BOOLEAN
  /\ mailbox \in [Generations -> Mailbox]
  /\ call \in Command \cup {Idle} /\ Range(commands) \subseteq Command
  /\ peer \in [Generations -> {"none", "running", "gone"}]
  /\ run \in [Generations -> Requests \cup {NoRequest}]
  /\ view.state \in {"none", "starting", "running", "ended"} /\ locked \in BOOLEAN

\* At most one runtime process is alive, the supervisor holds it, and it is of the current
\* generation: whatever fails in a start, a stop or a restart, no process is left driving a
\* device unsupervised.
NoOrphan ==
  \A g \in Generations : peer[g] = "running" => process /\ g = generation

\* A run that executes in the generation the interface knows, and whose request the interface
\* has not seen fail, is the run it shows, and it shows it as active: no late return of a
\* run attempt of another generation, and no late event, takes it away.
ExecutedRunIsShown ==
  \A g \in Generations : \A q \in Requests :
    (run[g] = q /\ attempt[q].generation = g /\ attempt[q].state # "failed"
       /\ status.generation = g)
    => view.request = q /\ view.generation = g /\ Active(view)

\* The document is locked only for a run that is shown as active in the known generation,
\* and values are registered for the shown run only: a reset leaves nothing behind.
NothingIsLeftBehind ==
  /\ locked => Active(view)
  /\ Active(view) => view.generation = status.generation
  /\ registered # NoView => registered.request = view.request
                              /\ registered.generation = status.generation

\* A response that is parked and nobody waits for belongs to a request given up.
ParkedWasGivenUp ==
  \A g \in Generations : \A r \in mailbox[g].responses :
    \/ call.request = r.request
    \/ attempt[r.request].state = "failed"
    \/ \E a \in Range(answers) : a.request = r.request /\ ~a.ok

\* Generations are kept apart: of an old one no view, lock, registration or response stays.
GenerationsAgree == TypeOK /\ NothingIsLeftBehind /\ ParkedWasGivenUp

\* When a generation after that of the shown run is ready, the answer that will release the
\* document the run has locked is on its way: it is not lost behind events, refused commands
\* and failed restarts.
RestartReleasesTheDocument ==
  (state = "ready" /\ locked /\ view.generation < generation)
  => \E a \in Range(answers) : a.ok /\ a.op # "request" /\ a.generation > view.generation

=============================================================================
