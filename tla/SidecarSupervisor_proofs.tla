----------------------- MODULE SidecarSupervisor_proofs -----------------------
(***************************************************************************)
(* What TLAPS proves about SidecarSupervisor, for every set of requests    *)
(* and any number of generations and faults.                               *)
(*                                                                         *)
(* The four safety properties follow from one inductive invariant.  Its    *)
(* parts say, in turn: what the channels carry; that the state of the      *)
(* supervisor tells whether it holds a process and which command it is in; *)
(* that a request is written to at most one runtime, at most once, and     *)
(* leaves at most one response behind; that the interface waits for the    *)
(* run it shows as starting; and that statuses arrive in the order of      *)
(* their generations.                                                      *)
(***************************************************************************)
EXTENDS SidecarSupervisor, ListFacts

Request0   == Requests \cup {NoRequest}
Generation0 == 0..MaxGeneration
Messages == [kind : {"response"}, request : Requests, ok : BOOLEAN]
              \cup [kind : {"ended", "ready", "exited", "failure"}, request : Request0,
                    ok : BOOLEAN]
Events   == [kind : {"ready", "ended"}, request : Request0, generation : Generations]
Answers  == [op : {"start", "restart"}, request : {NoRequest}, ok : BOOLEAN,
             state : States, generation : Generation0]
              \cup [op : {"request"}, request : Requests, ok : BOOLEAN,
                    state : States, generation : Generation0]
Views    == [state : {"none", "starting", "running", "ended"}, request : Request0,
             generation : Generation0]

\* What the variables TypeOK leaves out hold, and what the channels carry.
ChannelTypes ==
  /\ commands \in Seq(Command) /\ answers \in Seq(Answers) /\ events \in Seq(Events)
  /\ stdin \in [Generations -> Seq(Requests)] /\ stdout \in [Generations -> Seq(Messages)]
  /\ faults \in Nat /\ client \in Generation0
  /\ status \in [generation : Generation0, state : States]
  /\ view \in Views /\ registered \in Views
  /\ attempt \in [Requests -> [state : {"fresh", "validating", "waiting", "settled", "failed"},
                               generation : Generation0]]

\* The supervisor holds a process exactly in these states, and is in a lifecycle command
\* exactly while it starts a generation.
Supervised ==
  /\ process <=> state \in {"handshaking", "ready"}
  /\ state \in {"starting", "handshaking"} <=> call.op \in {"start", "restart"}
  /\ call.op = "request" => state = "ready"
  /\ generation = 0 => state = "stopped"

CommandsOf(q)  == {c \in Command : c.request = q}
AnswersTo(q)   == {a \in Answers : a.request = q}
ResponsesTo(q) == {m \in Messages : m.kind = "response" /\ m.request = q}
EndsOf(q)      == {m \in Messages : m.kind = "ended" /\ m.request = q}
EndEvents(g, q) == {e \in Events : e.kind = "ended" /\ e.request = q /\ e.generation = g}
Parked(g, q)   == {r \in mailbox[g].responses : r.request = q}

\* Nothing in generation g stems from q: it was not written to its runtime.
Untouched(g, q) ==
  /\ Absent(stdin[g], {q}) /\ Absent(stdout[g], ResponsesTo(q)) /\ Parked(g, q) = {}
  /\ run[g] # q /\ Absent(stdout[g], EndsOf(q)) /\ Absent(events, EndEvents(g, q))

\* A request is a command, the call being served, or an answer only while runGraph waits,
\* and only one of the three; until it is served no runtime has seen it.
SentOnceOf(q) ==
  /\ Once(commands, CommandsOf(q)) /\ Once(answers, AnswersTo(q))
  /\ attempt[q].state # "waiting"
       => Absent(commands, CommandsOf(q)) /\ call.request # q /\ Absent(answers, AnswersTo(q))
  /\ call.request = q => Absent(commands, CommandsOf(q))
  /\ Absent(answers, AnswersTo(q)) \/ (Absent(commands, CommandsOf(q)) /\ call.request # q)
  /\ (attempt[q].state \in {"fresh", "validating"} \/ ~Absent(commands, CommandsOf(q)))
       => \A g \in Generations : Untouched(g, q)
  /\ call.request = q => \A g \in Generations : g # generation => Untouched(g, q)

SentOnce == \A q \in Requests : SentOnceOf(q)

\* In one generation a request has one trace at a time: in the pipe, or its response, and no
\* end of its run before it has left the pipe and the scheduler.
OneTraceOf(g, q) ==
  /\ Once(stdin[g], {q}) /\ Once(stdout[g], ResponsesTo(q))
  /\ \A r, s \in Parked(g, q) : r = s
  /\ ~Absent(stdin[g], {q}) =>
       /\ Absent(stdout[g], ResponsesTo(q)) /\ Parked(g, q) = {} /\ run[g] # q
       /\ Absent(stdout[g], EndsOf(q)) /\ Absent(events, EndEvents(g, q))
  /\ Absent(stdout[g], ResponsesTo(q)) \/ Parked(g, q) = {}
  /\ run[g] = q => Absent(stdout[g], EndsOf(q)) /\ Absent(events, EndEvents(g, q))

OneTrace == \A g \in Generations : \A q \in Requests : OneTraceOf(g, q)

\* The response of g to q is still due: nobody has taken it from the mailbox.
Due(g, q) ==
  ~(Absent(stdin[g], {q}) /\ Absent(stdout[g], ResponsesTo(q)) /\ Parked(g, q) = {})

\* q was given up by the interface, or will be when it reads the answer.
GivenUp(q) ==
  \/ attempt[q].state = "failed"
  \/ \E i \in DOMAIN answers : answers[i].request = q /\ ~answers[i].ok

\* A request whose response is still due is the one being served, or was given up.
DueOrGivenUp ==
  \A g \in Generations : \A q \in Requests : Due(g, q) => call.request = q \/ GivenUp(q)

\* Values are registered for the run shown as running, in the known generation.
RegisteredRuns == registered # NoView =>
  /\ view.state = "running" /\ registered.request = view.request
  /\ registered.generation = status.generation

\* Answers are in the order of their generations, none of them from before the known one.
StatusesInOrder ==
  /\ status.generation <= generation
  /\ \A i \in DOMAIN answers :
       /\ answers[i].generation <= generation
       /\ answers[i].generation >= status.generation
       /\ \A j \in DOMAIN answers : i < j => answers[i].generation <= answers[j].generation
  /\ \A q \in Requests : attempt[q].generation <= status.generation

\* The answer that announces the ready generation has not been lost.
ReadyIsAnnounced ==
  state = "ready" /\ status.generation < generation =>
    \E i \in DOMAIN answers : /\ answers[i].ok /\ answers[i].op # "request"
                              /\ answers[i].generation = generation

\* What runGraph waits for in the known generation is the run shown as starting.
PendingIsShown ==
  \A q \in Requests :
    attempt[q].state \in {"validating", "waiting"} /\ attempt[q].generation = status.generation
      => view = [state |-> "starting", request |-> q, generation |-> status.generation]

\* A request in the pipe or executing, in the known generation, is the run shown.
WrittenIsShown ==
  \A g \in Generations : \A q \in Requests :
    (~Absent(stdin[g], {q}) \/ run[g] = q)
      /\ attempt[q].generation = g /\ attempt[q].state # "failed" /\ status.generation = g
    => view.request = q /\ view.generation = g /\ Active(view)

Released ==
  /\ locked => Active(view)
  /\ Active(view) => view.generation = status.generation

HostInv == TypeOK /\ ChannelTypes /\ Supervised /\ NoOrphan

TraceInv == SentOnce /\ OneTrace /\ DueOrGivenUp

ViewInv == Released /\ RegisteredRuns /\ StatusesInOrder /\ ReadyIsAnnounced

ShownInv == PendingIsShown /\ WrittenIsShown

IInv == HostInv /\ TraceInv /\ ViewInv /\ ShownInv

-----------------------------------------------------------------------------

(* What a runtime writes is appended to its stream, or nothing is.         *)
LEMMA WrittenType ==
  ASSUME ChannelTypes, NEW g, NEW messages \in Seq(Messages)
  PROVE  Written(g, messages) \in [Generations -> Seq(Messages)]
<1>1. CASE g \in Generations
  <2>1. stdout[g] \o messages \in Seq(Messages)
    BY <1>1, ConcatProperties DEF ChannelTypes
  <2> QED
    BY <1>1, <2>1 DEF Written, ChannelTypes
<1>2. CASE g \notin Generations
  <2>1. [stdout EXCEPT ![g] = @ \o messages] = stdout
    BY <1>2 DEF ChannelTypes
  <2> QED
    BY <2>1 DEF Written, ChannelTypes
<1> QED
  BY <1>1, <1>2

(* The messages a runtime writes.                                          *)
LEMMA MessageTypes ==
  /\ EndOfStream \in Messages /\ BadFrame \in Messages
  /\ \A q \in Requests : \A b \in BOOLEAN : Message("response", q, b) \in Messages
  /\ \A q \in Request0 : Message("ended", q, TRUE) \in Messages
  /\ Message("ready", NoRequest, TRUE) \in Messages
  BY DEF Messages, Message, EndOfStream, BadFrame, Request0

(* Whatever the way a process leaves, the supervisor no longer holds it    *)
(* and it runs no longer.                                                  *)
LEMMA StopProcessFacts ==
  ASSUME HostInv, StopProcess
  PROVE  /\ process' = FALSE
         /\ peer' \in [Generations -> {"none", "running", "gone"}]
         /\ \A g \in Generations : peer'[g] # "running"
         /\ run' \in [Generations -> Requests \cup {NoRequest}]
         /\ stdout' \in [Generations -> Seq(Messages)]
<1> USE DEF HostInv, TypeOK
<1>1. CASE ~process
  BY <1>1 DEF StopProcess, NoOrphan, ChannelTypes
<1>2. CASE process
  <2> DEFINE last == IF peer[generation] = "running" THEN <<EndOfStream>> ELSE <<>>
             ended == <<Message("ended", run[generation], TRUE)>>
  <2>0. generation \in Generations
    BY <1>2 DEF Supervised, Generations
  <2>1. last \in Seq(Messages) /\ ended \in Seq(Messages)
    <3>1. run[generation] \in Request0 /\ NoRequest \in Request0
      BY <2>0 DEF Request0
    <3>2. EndOfStream \in Messages /\ Message("ended", run[generation], TRUE) \in Messages
      BY <3>1, MessageTypes
    <3>3. \A m \in Messages : <<m>> \in Seq(Messages)
      OBVIOUS
    <3>4. <<>> \in Seq(Messages)
      OBVIOUS
    <3> HIDE DEF HostInv, TypeOK
    <3> QED
      BY <3>2, <3>3, <3>4, Zenon
  <2>2. ended \o last \in Seq(Messages)
    BY <2>1, ConcatProperties
  <2>3. \/ stdout' = Written(generation, last)
        \/ stdout' = Written(generation, ended \o last)
    BY <1>2 DEF StopProcess
  <2>4. stdout' \in [Generations -> Seq(Messages)]
    <3>1. ChannelTypes
      OBVIOUS
    <3> HIDE DEF last, ended, HostInv, TypeOK
    <3> QED
      BY <2>1, <2>2, <2>3, <3>1, WrittenType, ZenonT(60)
  <2>5. process' = FALSE /\ peer' = [peer EXCEPT ![generation] = "gone"]
        /\ run' = [run EXCEPT ![generation] = NoRequest]
    BY <1>2 DEF StopProcess
  <2> QED
    BY <2>0, <2>4, <2>5 DEF NoOrphan
<1> QED
  BY <1>1, <1>2 DEF TypeOK, HostInv

(* Written with one message.                                               *)
LEMMA WriteOneType ==
  ASSUME HostInv, NEW g, NEW m \in Messages
  PROVE  Written(g, <<m>>) \in [Generations -> Seq(Messages)]
<1>1. <<m>> \in Seq(Messages) /\ ChannelTypes
  BY DEF HostInv
<1> QED
  BY <1>1, WrittenType

(* A command is taken between two calls: then no generation is starting.   *)
LEMMA TakeFacts ==
  ASSUME HostInv, NEW c, Take(c)
  PROVE  /\ commands' = Tail(commands) /\ call = Idle
         /\ state \notin {"starting", "handshaking"}
         /\ state # "ready" => ~process /\ \A g \in Generations : peer[g] # "running"
  BY DEF Take, HostInv, Supervised, NoOrphan, Idle

(* What a reply adds is an answer.                                         *)
LEMMA ReplyType ==
  ASSUME HostInv, NEW c \in Command, NEW ok \in BOOLEAN, NEW s \in States, Reply(c, ok, s)
  PROVE  answers' \in Seq(Answers)
<1>1. [op |-> c.op, request |-> c.request, ok |-> ok, state |-> s, generation |-> generation]
      \in Answers
  BY DEF HostInv, TypeOK, Command, Answers, Generation0
<1> QED
  BY <1>1, AppendFacts DEF Reply, HostInv, ChannelTypes

(* A command that is being served is one the interface can have sent.      *)
LEMMA CallIsCommand ==
  ASSUME HostInv, state \in {"starting", "handshaking"} \/ call.op = "request"
  PROVE  call \in Command /\ generation \in Generations
  BY DEF HostInv, TypeOK, Supervised, Idle, Generations

(* The commands that are queued are commands.                              *)
LEMMA CommandRange == \A s \in Seq(Command) : Range(s) \subseteq Command
  BY RangeOfSeq

(* No step of the host breaks the types, takes the supervisor out of its   *)
(* states or leaves a process behind.                                      *)
LEMMA HostStepKeepsHost == HostInv /\ HostStep => HostInv'
<1> SUFFICES ASSUME HostInv, HostStep PROVE HostInv'
  OBVIOUS
<1> USE SupervisorAssumption
<1>1. ASSUME commands # <<>>, NEW c, c = Head(commands),
             StartReady(c) \/ Start(c) \/ RequestRefused(c) \/ RequestWritten(c)
      PROVE  HostInv'
  <2>1. c \in Command /\ Tail(commands) \in Seq(Command)
    BY <1>1, TailFacts DEF ChannelTypes, HostInv
  <2>2. CASE StartReady(c)
    <3>1. answers' \in Seq(Answers)
      BY <2>1, <2>2, ReplyType DEF StartReady, HostInv, TypeOK
    <3>2. commands' \in Seq(Command) /\ Range(commands') \subseteq Command
      BY <2>1, <2>2, CommandRange DEF StartReady, Take
    <3>3. TypeOK'
      BY <2>1, <3>1, <3>2, <2>2
         DEF StartReady, Take, host, sidecars, interface, TypeOK, States, HostInv
    <3>4. ChannelTypes'
      BY <2>1, <3>1, <3>2, <2>2
         DEF StartReady, Take, host, sidecars, interface, ChannelTypes, HostInv
    <3>5. Supervised'
      BY <2>1, <3>1, <3>2, <2>2
         DEF StartReady, Take, host, sidecars, interface, Supervised, TypeOK, Command, Idle,
             Generations, HostInv
    <3>6. NoOrphan'
      BY <2>1, <3>1, <3>2, <2>2
         DEF StartReady, Take, host, sidecars, interface, NoOrphan, Supervised, TypeOK,
             HostInv
    <3> QED
      BY <3>1, <3>2, <3>3, <3>4, <3>5, <3>6 DEF HostInv
  <2>3. CASE Start(c)
    <3>1. /\ process' = FALSE /\ peer' \in [Generations -> {"none", "running", "gone"}]
          /\ \A g \in Generations : peer'[g] # "running"
          /\ run' \in [Generations -> Requests \cup {NoRequest}]
          /\ stdout' \in [Generations -> Seq(Messages)]
      <4>1. CASE c.op = "restart"
        BY <2>3, <4>1, StopProcessFacts DEF Start
      <4>2. CASE c.op # "restart"
        <5>1. Take(c) /\ state # "ready" /\ UNCHANGED <<process, peer, run, stdout>>
          BY <2>3, <4>2 DEF Start
        <5> QED
          BY <5>1, TakeFacts DEF HostInv, TypeOK, ChannelTypes
      <4> QED
        BY <4>1, <4>2
    <3>2. commands' \in Seq(Command) /\ Range(commands') \subseteq Command
      BY <2>1, <2>3, CommandRange DEF Start, Take
    <3>3. /\ state' = "starting" /\ generation' \in Generations
               /\ generation' \in 0..MaxGeneration /\ call' = c
          /\ c.op \in {"start", "restart"} /\ mailbox' = mailbox
      BY <2>1, <2>3 DEF Start, HostInv, TypeOK, Generations
    <3>4. TypeOK'
      BY <2>1, <3>1, <3>2, <3>3, <2>3 DEF Start, interface, TypeOK, States, HostInv
    <3>5. ChannelTypes'
      BY <2>1, <3>1, <3>2, <3>3, <2>3
         DEF Start, host, sidecars, interface, ChannelTypes, HostInv
    <3>6. Supervised'
      BY <3>1, <3>3 DEF Supervised, Generations
    <3>7. NoOrphan'
      BY <2>1, <3>1, <3>2, <3>3, <2>3
         DEF Start, host, sidecars, interface, NoOrphan, Supervised, TypeOK, HostInv
    <3> QED
      BY <3>1, <3>2, <3>3, <3>4, <3>5, <3>6, <3>7 DEF HostInv
  <2>4. CASE RequestRefused(c)
    <3>1. answers' \in Seq(Answers)
      BY <2>1, <2>4, ReplyType DEF RequestRefused, HostInv, TypeOK
    <3>2. commands' \in Seq(Command) /\ Range(commands') \subseteq Command
      BY <2>1, <2>4, CommandRange DEF RequestRefused, Take
    <3>3. TypeOK'
      BY <2>1, <3>1, <3>2, <2>4
         DEF RequestRefused, Take, host, sidecars, interface, TypeOK, States, HostInv
    <3>4. ChannelTypes'
      BY <2>1, <3>1, <3>2, <2>4
         DEF RequestRefused, Take, host, sidecars, interface, ChannelTypes, HostInv
    <3>5. Supervised'
      BY <2>1, <3>1, <3>2, <2>4
         DEF RequestRefused, Take, host, sidecars, interface, Supervised, TypeOK, Command,
             Idle, Generations, HostInv
    <3>6. NoOrphan'
      BY <2>1, <3>1, <3>2, <2>4
         DEF RequestRefused, Take, host, sidecars, interface, NoOrphan, Supervised, TypeOK,
             HostInv
    <3> QED
      BY <3>1, <3>2, <3>3, <3>4, <3>5, <3>6 DEF HostInv
  <2>5. CASE RequestWritten(c)
    <3>1. stdin' \in [Generations -> Seq(Requests)]
      <4>1. c.request \in Requests /\ generation \in Generations
        BY <2>1, <2>5 DEF RequestWritten, HostInv, TypeOK, Supervised, Command, Generations
      <4>2. Append(stdin[generation], c.request) \in Seq(Requests)
        BY <4>1, AppendFacts DEF HostInv, ChannelTypes
      <4> QED
        BY <2>5, <4>2 DEF RequestWritten, HostInv, ChannelTypes
    <3>2. commands' \in Seq(Command) /\ Range(commands') \subseteq Command
      BY <2>1, <2>5, CommandRange DEF RequestWritten, Take
    <3>3. TypeOK'
      BY <2>1, <3>1, <3>2, <2>5
         DEF RequestWritten, Take, host, sidecars, interface, TypeOK, States, HostInv
    <3>4. ChannelTypes'
      BY <2>1, <3>1, <3>2, <2>5
         DEF RequestWritten, Take, host, sidecars, interface, ChannelTypes, HostInv
    <3>5. Supervised'
      BY <2>1, <3>1, <3>2, <2>5
         DEF RequestWritten, Take, host, sidecars, interface, Supervised, TypeOK, Command,
             Idle, Generations, HostInv
    <3>6. NoOrphan'
      BY <2>1, <3>1, <3>2, <2>5
         DEF RequestWritten, Take, host, sidecars, interface, NoOrphan, Supervised, TypeOK,
             HostInv
    <3> QED
      BY <3>1, <3>2, <3>3, <3>4, <3>5, <3>6 DEF HostInv
  <2> QED
    BY <1>1, <2>2, <2>3, <2>4, <2>5
<1>2. CASE Spawn
  <2>1. TypeOK'
    BY <1>2 DEF Spawn, sidecars, interface, TypeOK, States, Generations, Supervised, HostInv
  <2>2. ChannelTypes'
    BY <1>2, SupervisorAssumption
       DEF Spawn, host, sidecars, interface, ChannelTypes, HostInv
  <2>3. Supervised'
    BY <1>2, SupervisorAssumption
       DEF Spawn, host, sidecars, interface, Supervised, TypeOK, Command, Idle, Generations,
           HostInv
  <2>4. NoOrphan'
    BY <1>2, SupervisorAssumption
       DEF Spawn, host, sidecars, interface, NoOrphan, Supervised, TypeOK, HostInv
  <2> QED
    BY <2>1, <2>2, <2>3, <2>4 DEF HostInv
<1>3. CASE SpawnFails
  <2>1. call \in Command /\ answers' \in Seq(Answers)
    BY <1>3, CallIsCommand, ReplyType DEF SpawnFails, States, HostInv, TypeOK
  <2>2. TypeOK'
    BY <2>1, <1>3 DEF SpawnFails, host, sidecars, interface, TypeOK, States, HostInv
  <2>3. ChannelTypes'
    BY <2>1, <1>3 DEF SpawnFails, host, sidecars, interface, ChannelTypes, HostInv
  <2>4. Supervised'
    BY <2>1, <1>3
       DEF SpawnFails, host, sidecars, interface, Supervised, TypeOK, Command, Idle,
           Generations, HostInv
  <2>5. NoOrphan'
    BY <2>1, <1>3
       DEF SpawnFails, host, sidecars, interface, NoOrphan, Supervised, TypeOK, HostInv
  <2> QED
    BY <2>1, <2>2, <2>3, <2>4, <2>5 DEF HostInv
<1>4. CASE HandshakeSucceeds
  <2>1. call \in Command /\ answers' \in Seq(Answers)
    BY <1>4, CallIsCommand, ReplyType DEF HandshakeSucceeds, States, HostInv, TypeOK
  <2>2. stdout' \in [Generations -> Seq(Messages)]
    <3>1. Message("ready", NoRequest, TRUE) \in Messages
      BY MessageTypes DEF Request0
    <3> QED
      BY <3>1, <1>4, WriteOneType DEF HandshakeSucceeds
  <2>3. TypeOK'
    BY <2>1, <2>2, <1>4
       DEF HandshakeSucceeds, host, sidecars, interface, TypeOK, States, HostInv
  <2>4. ChannelTypes'
    BY <2>1, <2>2, <1>4
       DEF HandshakeSucceeds, host, sidecars, interface, ChannelTypes, HostInv
  <2>5. Supervised'
    BY <2>1, <2>2, <1>4
       DEF HandshakeSucceeds, host, sidecars, interface, Supervised, TypeOK, Command, Idle,
           Generations, HostInv
  <2>6. NoOrphan'
    BY <2>1, <2>2, <1>4
       DEF HandshakeSucceeds, host, sidecars, interface, NoOrphan, Supervised, TypeOK,
           HostInv
  <2> QED
    BY <2>1, <2>2, <2>3, <2>4, <2>5, <2>6 DEF HostInv
<1>5. CASE HandshakeFails
  <2>1. call \in Command /\ answers' \in Seq(Answers)
    BY <1>5, CallIsCommand, ReplyType DEF HandshakeFails, States, HostInv, TypeOK
  <2>2. /\ process' = FALSE /\ peer' \in [Generations -> {"none", "running", "gone"}]
        /\ \A g \in Generations : peer'[g] # "running"
        /\ run' \in [Generations -> Requests \cup {NoRequest}]
        /\ stdout' \in [Generations -> Seq(Messages)]
    BY <1>5, StopProcessFacts DEF HandshakeFails
  <2>3. TypeOK'
    BY <2>1, <2>2, <1>5
       DEF HandshakeFails, host, sidecars, interface, TypeOK, States, HostInv
  <2>4. ChannelTypes'
    BY <2>1, <2>2, <1>5 DEF HandshakeFails, host, sidecars, interface, ChannelTypes, HostInv
  <2>5. Supervised'
    BY <2>1, <2>2, <1>5
       DEF HandshakeFails, host, sidecars, interface, Supervised, TypeOK, Command, Idle,
           Generations, HostInv
  <2>6. NoOrphan'
    BY <2>1, <2>2, <1>5
       DEF HandshakeFails, host, sidecars, interface, NoOrphan, Supervised, TypeOK, HostInv
  <2> QED
    BY <2>1, <2>2, <2>3, <2>4, <2>5, <2>6 DEF HostInv
<1>6. CASE RequestAnswered
  <2>1. PICK r \in Own :
        /\ mailbox' = [mailbox EXCEPT ![generation].responses = @ \ {r}]
        /\ Reply(call, r.ok, state)
    BY <1>6 DEF RequestAnswered
  <2>2. call \in Command /\ generation \in Generations
    BY <1>6, CallIsCommand DEF RequestAnswered
  <2>3. r.ok \in BOOLEAN /\ mailbox' \in [Generations -> Mailbox]
    BY <2>1, <2>2 DEF Own, HostInv, TypeOK, Mailbox
  <2>4. answers' \in Seq(Answers)
    BY <2>1, <2>2, <2>3, ReplyType DEF HostInv, TypeOK
  <2>5. TypeOK'
    BY <2>2, <2>3, <2>4, <1>6
       DEF RequestAnswered, host, sidecars, interface, TypeOK, States, HostInv
  <2>6. ChannelTypes'
    BY <2>2, <2>3, <2>4, <1>6
       DEF RequestAnswered, host, sidecars, interface, ChannelTypes, HostInv
  <2>7. Supervised'
    BY <2>2, <2>3, <2>4, <1>6
       DEF RequestAnswered, host, sidecars, interface, Supervised, TypeOK, Command, Idle,
           Generations, HostInv
  <2>8. NoOrphan'
    BY <2>2, <2>3, <2>4, <1>6
       DEF RequestAnswered, host, sidecars, interface, NoOrphan, Supervised, TypeOK, HostInv
  <2> QED
    BY <2>1, <2>2, <2>3, <2>4, <2>5, <2>6, <2>7, <2>8 DEF HostInv
<1>7. CASE RequestLost
  <2>1. call \in Command /\ answers' \in Seq(Answers)
    BY <1>7, CallIsCommand, ReplyType DEF RequestLost, States, HostInv, TypeOK
  <2>2. /\ process' = FALSE /\ peer' \in [Generations -> {"none", "running", "gone"}]
        /\ \A g \in Generations : peer'[g] # "running"
        /\ run' \in [Generations -> Requests \cup {NoRequest}]
        /\ stdout' \in [Generations -> Seq(Messages)]
    BY <1>7, StopProcessFacts DEF RequestLost
  <2>3. mailbox' \in [Generations -> Mailbox]
    BY <1>7 DEF RequestLost, HostInv, TypeOK, Mailbox, NewMailbox
  <2>4. TypeOK'
    BY <2>1, <2>2, <2>3, <1>7
       DEF RequestLost, host, sidecars, interface, TypeOK, States, HostInv
  <2>5. ChannelTypes'
    BY <2>1, <2>2, <2>3, <1>7
       DEF RequestLost, host, sidecars, interface, ChannelTypes, HostInv
  <2>6. Supervised'
    BY <2>1, <2>2, <2>3, <1>7
       DEF RequestLost, host, sidecars, interface, Supervised, TypeOK, Command, Idle,
           Generations, HostInv
  <2>7. NoOrphan'
    BY <2>1, <2>2, <2>3, <1>7
       DEF RequestLost, host, sidecars, interface, NoOrphan, Supervised, TypeOK, HostInv
  <2> QED
    BY <2>1, <2>2, <2>3, <2>4, <2>5, <2>6, <2>7 DEF HostInv
<1>8. CASE RequestFails
  <2>1. call \in Command /\ answers' \in Seq(Answers)
    BY <1>8, CallIsCommand, ReplyType DEF RequestFails, States, HostInv, TypeOK
  <2>2. TypeOK'
    BY <2>1, <1>8 DEF RequestFails, host, sidecars, interface, TypeOK, States, HostInv
  <2>3. ChannelTypes'
    BY <2>1, <1>8 DEF RequestFails, host, sidecars, interface, ChannelTypes, HostInv
  <2>4. Supervised'
    BY <2>1, <1>8
       DEF RequestFails, host, sidecars, interface, Supervised, TypeOK, Command, Idle,
           Generations, HostInv
  <2>5. NoOrphan'
    BY <2>1, <1>8
       DEF RequestFails, host, sidecars, interface, NoOrphan, Supervised, TypeOK, HostInv
  <2> QED
    BY <2>1, <2>2, <2>3, <2>4, <2>5 DEF HostInv
<1> QED
  BY <1>1, <1>2, <1>3, <1>4, <1>5, <1>6, <1>7, <1>8 DEF HostStep

(* Nor does a step of a runtime or of its dispatcher, a crash, or a        *)
(* damaged stream.                                                         *)
LEMMA SidecarStepKeepsHost ==
  ASSUME HostInv, NEW g \in Generations, SidecarStep(g) \/ Fault(g)
  PROVE  HostInv'
<1>1. stdout[g] \in Seq(Messages) /\ run[g] \in Request0
  BY DEF HostInv, ChannelTypes, TypeOK, Request0
<1>2. CASE Handle(g)
  <2>1. Head(stdin[g]) \in Requests /\ Tail(stdin[g]) \in Seq(Requests)
    BY <1>2, TailFacts DEF Handle, HostInv, ChannelTypes
  <2>2. stdin' \in [Generations -> Seq(Requests)]
    BY <1>2, <2>1 DEF Handle, HostInv, ChannelTypes
  <2>3. stdout' \in [Generations -> Seq(Messages)]
    <3>1. \A b \in BOOLEAN : Message("response", Head(stdin[g]), b) \in Messages
      BY <2>1, MessageTypes DEF Request0
    <3>2. (run[g] = NoRequest) \in BOOLEAN
      OBVIOUS
    <3> QED
      BY <1>2, <3>1, <3>2, WriteOneType DEF Handle
  <2>4. run' \in [Generations -> Requests \cup {NoRequest}]
    BY <1>2, <2>1 DEF Handle, HostInv, TypeOK
  <2>5. TypeOK'
    BY <2>2, <2>3, <2>4, <1>2 DEF Handle, host, sidecars, interface, TypeOK, States, HostInv
  <2>6. ChannelTypes'
    BY <2>2, <2>3, <2>4, <1>2 DEF Handle, host, sidecars, interface, ChannelTypes, HostInv
  <2>7. Supervised'
    BY <2>2, <2>3, <2>4, <1>2
       DEF Handle, host, sidecars, interface, Supervised, TypeOK, Command, Idle,
           Generations, HostInv
  <2>8. NoOrphan'
    BY <2>2, <2>3, <2>4, <1>2
       DEF Handle, host, sidecars, interface, NoOrphan, Supervised, TypeOK, HostInv
  <2> QED
    BY <2>1, <2>2, <2>3, <2>4, <2>5, <2>6, <2>7, <2>8 DEF HostInv
<1>3. CASE EndRun(g)
  <2>1. stdout' \in [Generations -> Seq(Messages)]
    BY <1>3, <1>1, MessageTypes, WriteOneType DEF EndRun
  <2>2. TypeOK'
    BY <2>1, <1>3 DEF EndRun, host, sidecars, interface, TypeOK, States, HostInv
  <2>3. ChannelTypes'
    BY <2>1, <1>3 DEF EndRun, host, sidecars, interface, ChannelTypes, HostInv
  <2>4. Supervised'
    BY <2>1, <1>3
       DEF EndRun, host, sidecars, interface, Supervised, TypeOK, Command, Idle,
           Generations, HostInv
  <2>5. NoOrphan'
    BY <2>1, <1>3
       DEF EndRun, host, sidecars, interface, NoOrphan, Supervised, TypeOK, HostInv
  <2> QED
    BY <2>1, <2>2, <2>3, <2>4, <2>5 DEF HostInv
<1>4. CASE Dispatch(g)
  <2>1. Head(stdout[g]) \in Messages /\ Tail(stdout[g]) \in Seq(Messages)
    BY <1>1, <1>4, TailFacts DEF Dispatch
  <2>2. stdout' \in [Generations -> Seq(Messages)]
    BY <2>1, <1>4 DEF Dispatch, HostInv, ChannelTypes
  <2>3. events' \in Seq(Events)
    <3>1. events \in Seq(Events)
      BY DEF HostInv, ChannelTypes
    <3>2. Head(stdout[g]).kind \in {"ready", "ended"} =>
          [kind |-> Head(stdout[g]).kind, request |-> Head(stdout[g]).request, generation |-> g] \in Events
      BY <2>1 DEF Messages, Events
    <3> QED
      BY <3>1, <3>2, <1>4, AppendFacts DEF Dispatch
  <2>4. mailbox' \in [Generations -> Mailbox]
    <3> DEFINE m == Head(stdout[g])
    <3>1. mailbox \in [Generations -> Mailbox] /\ mailbox' = Dispatched(g, m)
      BY <1>4 DEF Dispatch, HostInv, TypeOK
    <3> QED
      BY <3>1, <2>1 DEF Dispatched, Mailbox, Messages
  <2>5. TypeOK'
    BY <2>2, <2>3, <2>4, <1>4
       DEF Dispatch, host, sidecars, interface, TypeOK, States, HostInv
  <2>6. ChannelTypes'
    BY <2>2, <2>3, <2>4, <1>4 DEF Dispatch, host, sidecars, interface, ChannelTypes, HostInv
  <2>7. Supervised'
    BY <2>2, <2>3, <2>4, <1>4
       DEF Dispatch, host, sidecars, interface, Supervised, TypeOK, Command, Idle,
           Generations, HostInv
  <2>8. NoOrphan'
    BY <2>2, <2>3, <2>4, <1>4
       DEF Dispatch, host, sidecars, interface, NoOrphan, Supervised, TypeOK, HostInv
  <2> QED
    BY <2>1, <2>2, <2>3, <2>4, <2>5, <2>6, <2>7, <2>8 DEF HostInv
<1>5. CASE Crash(g)
  <2>1. stdout' \in [Generations -> Seq(Messages)]
    BY <1>5, <1>1, MessageTypes, WriteOneType DEF Crash
  <2>2. faults' \in Nat
    BY <1>5 DEF Crash, HostInv, ChannelTypes
  <2>3. TypeOK'
    BY <2>1, <2>2, <1>5 DEF Crash, host, sidecars, interface, TypeOK, States, HostInv
  <2>4. ChannelTypes'
    BY <2>1, <2>2, <1>5 DEF Crash, host, sidecars, interface, ChannelTypes, HostInv
  <2>5. Supervised'
    BY <2>1, <2>2, <1>5
       DEF Crash, host, sidecars, interface, Supervised, TypeOK, Command, Idle, Generations,
           HostInv
  <2>6. NoOrphan'
    BY <2>1, <2>2, <1>5
       DEF Crash, host, sidecars, interface, NoOrphan, Supervised, TypeOK, HostInv
  <2> QED
    BY <2>1, <2>2, <2>3, <2>4, <2>5, <2>6 DEF HostInv
<1>6. CASE DamageStream(g)
  <2>1. stdout' \in [Generations -> Seq(Messages)]
    BY <1>6, <1>1, MessageTypes, WriteOneType DEF DamageStream
  <2>2. faults' \in Nat
    BY <1>6 DEF DamageStream, HostInv, ChannelTypes
  <2>3. TypeOK'
    BY <2>1, <2>2, <1>6 DEF DamageStream, host, sidecars, interface, TypeOK, States, HostInv
  <2>4. ChannelTypes'
    BY <2>1, <2>2, <1>6 DEF DamageStream, host, sidecars, interface, ChannelTypes, HostInv
  <2>5. Supervised'
    BY <2>1, <2>2, <1>6
       DEF DamageStream, host, sidecars, interface, Supervised, TypeOK, Command, Idle,
           Generations, HostInv
  <2>6. NoOrphan'
    BY <2>1, <2>2, <1>6
       DEF DamageStream, host, sidecars, interface, NoOrphan, Supervised, TypeOK, HostInv
  <2> QED
    BY <2>1, <2>2, <2>3, <2>4, <2>5, <2>6 DEF HostInv
<1> QED
  BY <1>2, <1>3, <1>4, <1>5, <1>6 DEF SidecarStep, Fault

(* What the interface shows stays well-formed in the helpers of its        *)
(* handlers.                                                               *)
LEMMA ViewTypes ==
  ASSUME HostInv
  PROVE  /\ NoView \in Views /\ view \in Views /\ registered \in Views /\ locked \in BOOLEAN
         /\ \A g : FailToStart(g) => view' \in Views /\ registered' \in Views /\ locked' \in BOOLEAN
         /\ AcceptRun => view' \in Views /\ registered' \in Views /\ locked' \in BOOLEAN
<1>1. NoView \in Views /\ view \in Views /\ registered \in Views /\ locked \in BOOLEAN
  BY SupervisorAssumption
     DEF HostInv, ChannelTypes, TypeOK, Views, NoView, Request0, Generation0
<1>2. \A g : FailToStart(g) => view' \in Views /\ registered' \in Views /\ locked' \in BOOLEAN
  BY <1>1 DEF FailToStart
<1>3. AcceptRun => view' \in Views /\ registered' \in Views /\ locked' \in BOOLEAN
  BY <1>1 DEF AcceptRun, Views
<1> QED
  BY <1>1, <1>2, <1>3

(* A request to run moves to a state that requests have.                   *)
LEMMA SettleType ==
  ASSUME NEW q \in Requests, NEW outcome \in {"waiting", "settled", "failed"},
         attempt \in [Requests -> [state : {"fresh", "validating", "waiting", "settled",
                                          "failed"}, generation : Generation0]],
         Settle(q, outcome)
  PROVE  attempt' \in [Requests -> [state : {"fresh", "validating", "waiting", "settled",
                                           "failed"}, generation : Generation0]]
<1> DEFINE Attempt == [state : {"fresh", "validating", "waiting", "settled", "failed"},
                       generation : Generation0]
<1>1. attempt' = [attempt EXCEPT ![q].state = outcome]
  BY DEF Settle
<1>2. [attempt[q] EXCEPT !.state = outcome] \in Attempt
  OBVIOUS
<1> HIDE DEF Attempt
<1>3. attempt' \in [Requests -> Attempt]
  BY <1>1, <1>2 DEF Attempt
<1> QED
  BY <1>3 DEF Attempt

(* Nor does a handler of the interface.                                    *)
LEMMA InterfaceStepKeepsHost == HostInv /\ InterfaceStep => HostInv'
<1> SUFFICES ASSUME HostInv, InterfaceStep PROVE HostInv'
  OBVIOUS
<1>1. ASSUME answers # <<>>, NEW a, a = Head(answers), StartReturns(a)
      PROVE  HostInv'
  <2>1. a \in Answers /\ Tail(answers) \in Seq(Answers)
    BY <1>1, TailFacts DEF HostInv, ChannelTypes
  <2>2. a.request \in Requests
    BY <1>1, <2>1 DEF StartReturns, Answers
  <2>3. view' \in Views /\ registered' \in Views /\ locked' \in BOOLEAN
    BY <1>1, ViewTypes DEF StartReturns
  <2>4. attempt' \in [Requests -> [state : {"fresh", "validating", "waiting", "settled", "failed"},
        generation : Generation0]]
    <3>1. PICK outcome \in {"waiting", "settled", "failed"} : Settle(a.request, outcome)
      BY <1>1 DEF StartReturns
    <3>2. attempt \in [Requests -> [state : {"fresh", "validating", "waiting", "settled",
                                          "failed"}, generation : Generation0]]
      BY DEF HostInv, ChannelTypes
    <3> QED
      BY <2>2, <3>1, <3>2, SettleType
  <2>5. TypeOK'
    BY <2>1, <2>3, <2>4, <1>1
       DEF StartReturns, host, sidecars, interface, TypeOK, HostInv, Views
  <2>6. ChannelTypes'
    BY <2>1, <2>3, <2>4, <1>1
       DEF StartReturns, host, sidecars, interface, ChannelTypes, HostInv, Views
  <2>7. Supervised' /\ NoOrphan'
    BY <1>1 DEF StartReturns, host, sidecars, interface, Supervised, NoOrphan, HostInv
  <2> QED
    BY <2>1, <2>2, <2>3, <2>4, <2>5, <2>6, <2>7 DEF HostInv
<1>2. ASSUME answers # <<>>, NEW a, a = Head(answers), LifecycleReturns(a)
      PROVE  HostInv'
  <2>1. a \in Answers /\ Tail(answers) \in Seq(Answers)
    BY <1>2, TailFacts DEF HostInv, ChannelTypes
  <2>2. a.generation \in Generation0 /\ a.state \in States
    BY <2>1 DEF Answers
  <2>3. /\ status' \in [generation : Generation0, state : States] /\ client' \in Generation0
        /\ view' \in Views /\ registered' \in Views /\ locked' \in BOOLEAN
    <3>1. client \in Generation0 /\ status \in [generation : Generation0, state : States]
      BY DEF HostInv, ChannelTypes
    <3>2. CASE a.ok
      <4>1. AcceptStatus(a.generation, a.state)
        BY <1>2, <3>2 DEF LifecycleReturns
      <4>2. status' \in [generation : Generation0, state : States] /\ client' \in Generation0
        BY <4>1, <2>2, <3>1 DEF AcceptStatus
      <4>3. view' \in Views /\ registered' \in Views /\ locked' \in BOOLEAN
        BY <4>1, ViewTypes DEF AcceptStatus
      <4> QED
        BY <4>1, <4>2, <4>3
    <3>3. CASE ~a.ok
      BY <1>2, <3>1, <3>3, ViewTypes DEF LifecycleReturns
    <3> QED
      BY <3>1, <3>2, <3>3
  <2>4. TypeOK'
    BY <2>1, <2>3, <1>2
       DEF LifecycleReturns, host, sidecars, interface, TypeOK, HostInv, Views
  <2>5. ChannelTypes'
    BY <2>1, <2>3, <1>2
       DEF LifecycleReturns, host, sidecars, interface, ChannelTypes, HostInv, Views
  <2>6. Supervised' /\ NoOrphan'
    BY <1>2 DEF LifecycleReturns, host, sidecars, interface, Supervised, NoOrphan, HostInv
  <2> QED
    BY <2>1, <2>2, <2>3, <2>4, <2>5, <2>6 DEF HostInv
<1>3. CASE HearStale
  <2>1. Tail(events) \in Seq(Events)
    BY <1>3, TailFacts DEF HearStale, HostInv, ChannelTypes
  <2>2. TypeOK'
    BY <2>1, <1>3 DEF HearStale, host, sidecars, interface, TypeOK, HostInv
  <2>3. ChannelTypes'
    BY <2>1, <1>3 DEF HearStale, host, sidecars, interface, ChannelTypes, HostInv
  <2>4. Supervised' /\ NoOrphan'
    BY <1>3 DEF HearStale, host, sidecars, interface, Supervised, NoOrphan, HostInv
  <2> QED
    BY <2>1, <2>2, <2>3, <2>4 DEF HostInv
<1>4. CASE HearEvent
  <2>1. Head(events) \in Events /\ Tail(events) \in Seq(Events)
    BY <1>4, TailFacts DEF HearEvent, HostInv, ChannelTypes
  <2>2. client' \in Generation0
    BY <1>4, <2>1 DEF HearEvent, Events, Generations, Generation0
  <2>3. view' \in Views /\ registered' \in Views /\ locked' \in BOOLEAN
    BY <1>4, ViewTypes DEF HearEvent, Views
  <2>4. TypeOK'
    BY <2>1, <2>2, <2>3, <1>4
       DEF HearEvent, host, sidecars, interface, TypeOK, HostInv, Views
  <2>5. ChannelTypes'
    BY <2>1, <2>2, <2>3, <1>4
       DEF HearEvent, host, sidecars, interface, ChannelTypes, HostInv, Views
  <2>6. Supervised' /\ NoOrphan'
    BY <1>4 DEF HearEvent, host, sidecars, interface, Supervised, NoOrphan, HostInv
  <2> QED
    BY <2>1, <2>2, <2>3, <2>4, <2>5, <2>6 DEF HostInv
<1>5. ASSUME NEW q \in Requests, ValidationReturns(q) PROVE HostInv'
  <2>1. view' \in Views /\ registered' \in Views /\ locked' \in BOOLEAN
    BY <1>5, ViewTypes DEF ValidationReturns
  <2>2. commands' \in Seq(Command) /\ Range(commands') \subseteq Command
    <3>1. [op |-> "request", request |-> q] \in Command
      BY DEF Command
    <3>2. commands' = commands
            \/ commands' = Append(commands, [op |-> "request", request |-> q])
      BY <1>5 DEF ValidationReturns
    <3>3. commands \in Seq(Command)
      BY DEF HostInv, ChannelTypes
    <3>4. commands' \in Seq(Command)
      BY <3>1, <3>2, <3>3, AppendFacts
    <3> QED
      BY <3>1, <3>2, <3>3, <3>4, CommandRange
  <2>3. attempt' \in [Requests -> [state : {"fresh", "validating", "waiting", "settled", "failed"},
        generation : Generation0]]
    <3>1. PICK outcome \in {"waiting", "settled", "failed"} : Settle(q, outcome)
      BY <1>5 DEF ValidationReturns
    <3>2. attempt \in [Requests -> [state : {"fresh", "validating", "waiting", "settled",
                                          "failed"}, generation : Generation0]]
      BY DEF HostInv, ChannelTypes
    <3> QED
      BY <3>1, <3>2, SettleType
  <2>4. TypeOK'
    BY <2>2, <2>1, <2>3, <1>5
       DEF ValidationReturns, host, sidecars, interface, TypeOK, HostInv, Views
  <2>5. ChannelTypes'
    BY <2>2, <2>1, <2>3, <1>5
       DEF ValidationReturns, host, sidecars, interface, ChannelTypes, HostInv, Views
  <2>6. Supervised' /\ NoOrphan'
    BY <1>5 DEF ValidationReturns, host, sidecars, interface, Supervised, NoOrphan, HostInv
  <2> QED
    BY <2>1, <2>2, <2>3, <2>4, <2>5, <2>6 DEF HostInv
<1> QED
  BY <1>1, <1>2, <1>3, <1>4, <1>5 DEF InterfaceStep

(* Nor does what the user does, or a step of something else.               *)
LEMMA UserStepKeepsHost == HostInv /\ (User \/ UNCHANGED vars) => HostInv'
<1> SUFFICES ASSUME HostInv, User \/ UNCHANGED vars PROVE HostInv'
  OBVIOUS
<1>1. CASE Shutdown
  <2>1. /\ process' = FALSE /\ peer' \in [Generations -> {"none", "running", "gone"}]
        /\ \A g \in Generations : peer'[g] # "running"
        /\ run' \in [Generations -> Requests \cup {NoRequest}]
        /\ stdout' \in [Generations -> Seq(Messages)]
    BY <1>1, StopProcessFacts DEF Shutdown
  <2>2. mailbox' \in [Generations -> Mailbox]
    BY <1>1 DEF Shutdown, HostInv, TypeOK, Mailbox, NewMailbox
  <2>3. TypeOK'
    BY <2>1, <2>2, <1>1 DEF Shutdown, host, sidecars, interface, TypeOK, States, HostInv
  <2>4. ChannelTypes'
    BY <2>1, <2>2, <1>1 DEF Shutdown, host, sidecars, interface, ChannelTypes, HostInv
  <2>5. Supervised'
    BY <2>1, <2>2, <1>1
       DEF Shutdown, host, sidecars, interface, Supervised, TypeOK, Command, Idle,
           Generations, HostInv
  <2>6. NoOrphan'
    BY <2>1, <2>2, <1>1
       DEF Shutdown, host, sidecars, interface, NoOrphan, Supervised, TypeOK, HostInv
  <2> QED
    BY <2>1, <2>2, <2>3, <2>4, <2>5, <2>6 DEF HostInv
<1>2. ASSUME NEW q \in Requests, RunGraph(q) PROVE HostInv'
  <2>1. view' \in Views /\ locked' \in BOOLEAN
    BY <1>2 DEF RunGraph, HostInv, ChannelTypes, Views, Request0
  <2>2. attempt' \in [Requests -> [state : {"fresh", "validating", "waiting", "settled", "failed"},
        generation : Generation0]]
    BY <1>2 DEF RunGraph, HostInv, ChannelTypes
  <2>3. TypeOK'
    BY <2>1, <2>2, <1>2 DEF RunGraph, host, sidecars, interface, TypeOK, HostInv, Views
  <2>4. ChannelTypes'
    BY <2>1, <2>2, <1>2
       DEF RunGraph, host, sidecars, interface, ChannelTypes, HostInv, Views
  <2>5. Supervised' /\ NoOrphan'
    BY <1>2 DEF RunGraph, host, sidecars, interface, Supervised, NoOrphan, HostInv
  <2> QED
    BY <2>1, <2>2, <2>3, <2>4, <2>5 DEF HostInv
<1>3. ASSUME NEW op \in {"start", "restart"}, Ask(op) PROVE HostInv'
  <2>1. commands' \in Seq(Command) /\ Range(commands') \subseteq Command
    <3>1. [op |-> op, request |-> NoRequest] \in Command
      BY DEF Command
    <3>2. commands' \in Seq(Command)
      BY <1>3, <3>1, AppendFacts DEF Ask, HostInv, ChannelTypes
    <3> QED
      BY <3>1, <3>2, CommandRange
  <2>2. TypeOK'
    BY <2>1, <1>3 DEF Ask, host, sidecars, interface, TypeOK, HostInv
  <2>3. ChannelTypes'
    BY <2>1, <1>3 DEF Ask, host, sidecars, interface, ChannelTypes, HostInv
  <2>4. Supervised' /\ NoOrphan'
    BY <1>3 DEF Ask, host, sidecars, interface, Supervised, NoOrphan, HostInv
  <2> QED
    BY <2>1, <2>2, <2>3, <2>4 DEF HostInv
<1>4. CASE UNCHANGED vars
  <2>1. TypeOK'
    BY <1>4 DEF vars, host, sidecars, interface, TypeOK, HostInv
  <2>2. ChannelTypes'
    BY <1>4 DEF vars, host, sidecars, interface, ChannelTypes, HostInv
  <2>3. Supervised' /\ NoOrphan'
    BY <1>4 DEF vars, host, sidecars, interface, Supervised, NoOrphan, HostInv
  <2> QED
    BY <2>1, <2>2, <2>3 DEF HostInv
<1> QED
  BY <1>1, <1>2, <1>3, <1>4 DEF User

(* HostInv is inductive. Of a generation that has ended nothing runs,      *)
(* whatever failed in between.                                             *)
LEMMA HostInvariant == Spec => []HostInv
<1>1. Init => HostInv
  <2> SUFFICES ASSUME Init PROVE HostInv
    OBVIOUS
  <2> USE SupervisorAssumption
  <2>1. TypeOK
    <3>1. Range(commands) = {}
      BY DEF Init, Range
    <3>2. NewMailbox \in Mailbox
      BY DEF NewMailbox, Mailbox
    <3>3. mailbox \in [Generations -> Mailbox] /\ Range(commands) \subseteq Command
      BY <3>1, <3>2 DEF Init
    <3>4. state \in States /\ generation \in 0..MaxGeneration /\ call = Idle
      BY SupervisorAssumption DEF Init, States
    <3>5. process \in BOOLEAN
      BY DEF Init
    <3>6. view.state \in {"none", "starting", "running", "ended"} /\ locked \in BOOLEAN
      BY DEF Init, NoView
    <3> QED
      BY <3>3, <3>4, <3>5, <3>6 DEF Init, TypeOK
  <2>2. ChannelTypes
    BY DEF Init, ChannelTypes, States, NoView, Views, Request0, Generation0
  <2>3. Supervised /\ NoOrphan
    BY DEF Init, Supervised, NoOrphan, Idle
  <2> QED
    BY <2>1, <2>2, <2>3 DEF HostInv
<1>2. HostInv /\ [Next]_vars => HostInv'
  BY HostStepKeepsHost, SidecarStepKeepsHost, InterfaceStepKeepsHost, UserStepKeepsHost
     DEF Next
<1> QED
  BY <1>1, <1>2, PTL DEF Spec

(* At most one runtime process is alive, the supervisor holds it, and it   *)
(* is of the current generation (sidecar/supervisor: start,                *)
(* stop_process, mark_process_lost).                                       *)
THEOREM NoOrphans == Spec => []NoOrphan
<1>1. HostInv => NoOrphan
  BY DEF HostInv
<1> QED
  BY <1>1, HostInvariant, PTL

(* The host, the runtimes and their dispatchers change nothing the         *)
(* interface keeps, except through the channels.                           *)
LEMMA InterfaceKept ==
  ASSUME HostStep \/ (\E g \in Generations : SidecarStep(g) \/ Fault(g))
           \/ Shutdown \/ (\E op \in {"start", "restart"} : Ask(op)) \/ HearStale \/ UNCHANGED vars
  PROVE  UNCHANGED interface
<1>1. HostStep => UNCHANGED interface
  BY DEF HostStep, StartReady, Start, RequestRefused, RequestWritten, Spawn, SpawnFails,
         HandshakeSucceeds, HandshakeFails, RequestAnswered, RequestLost, RequestFails
<1>2. ASSUME NEW g, SidecarStep(g) \/ Fault(g) PROVE UNCHANGED interface
  BY <1>2 DEF SidecarStep, Fault, Handle, EndRun, Dispatch, Crash, DamageStream
<1>3. Shutdown \/ HearStale \/ UNCHANGED vars => UNCHANGED interface
  BY DEF Shutdown, HearStale, vars
<1>4. ASSUME NEW op, Ask(op) PROVE UNCHANGED interface
  BY <1>4 DEF Ask
<1> QED
  BY <1>1, <1>2, <1>3, <1>4

(* The cases in which the interface does change.                           *)
LEMMA InterfaceCases ==
  ASSUME [Next]_vars
  PROVE  \/ UNCHANGED interface
         \/ \E a : answers # <<>> /\ a = Head(answers) /\ (StartReturns(a) \/ LifecycleReturns(a))
         \/ HearEvent
         \/ \E q \in Requests : ValidationReturns(q) \/ RunGraph(q)
  BY InterfaceKept DEF Next, InterfaceStep, User

(* A helper of runGraph drops a view that is starting, with its lock, or   *)
(* makes it the running one.                                               *)
LEMMA DropOrAccept ==
  ASSUME HostInv, Released, RegisteredRuns, UNCHANGED status, NEW g,
         FailToStart(g) \/ (AcceptRun /\ view.state = "starting")
  PROVE  Released' /\ RegisteredRuns'
<1>1. view \in Views /\ registered \in Views
  BY DEF HostInv, ChannelTypes
<1>2. CASE FailToStart(g)
  BY <1>1, <1>2 DEF FailToStart, Released, RegisteredRuns, Active, NoView
<1>3. CASE AcceptRun /\ view.state = "starting"
  <2>1. registered = NoView
    BY <1>3 DEF RegisteredRuns
  <2>2. view' = [view EXCEPT !.state = "running"] /\ registered' = view' /\ locked' = locked
    BY <1>3, <2>1 DEF AcceptRun
  <2> QED
    BY <1>1, <1>3, <2>2 DEF Released, RegisteredRuns, Active, Views
<1> QED
  BY <1>1, <1>2, <1>3

(* The document is locked only for a run that is shown as active, and      *)
(* values are registered for a run that is shown as running, in the        *)
(* known generation.                                                       *)
LEMMA ReleasedStep == HostInv /\ Released /\ RegisteredRuns /\ [Next]_vars => Released' /\ RegisteredRuns'
<1> SUFFICES ASSUME HostInv, Released, RegisteredRuns, [Next]_vars
    PROVE Released' /\ RegisteredRuns'
  OBVIOUS
<1>1. view \in Views /\ registered \in Views
  BY DEF HostInv, ChannelTypes
<1>2. CASE UNCHANGED interface
  BY <1>2 DEF interface, Released, RegisteredRuns, Active
<1>3. ASSUME NEW a, StartReturns(a) PROVE Released' /\ RegisteredRuns'
  <2>1. UNCHANGED status
    BY <1>3 DEF StartReturns
  <2>2. (AcceptRun /\ view.state = "starting") \/ FailToStart(attempt[a.request].generation)
    BY <1>3 DEF StartReturns
  <2> QED
    BY <2>1, <2>2, DropOrAccept
<1>4. ASSUME NEW a, LifecycleReturns(a) PROVE Released' /\ RegisteredRuns'
  <2>1. UNCHANGED <<status, view, locked, registered>> \/ AcceptStatus(a.generation, a.state)
    BY <1>4 DEF LifecycleReturns
  <2>2. CASE AcceptStatus(a.generation, a.state)
    BY <2>2, <1>1 DEF AcceptStatus, Released, RegisteredRuns, Active, NoView
  <2> QED
    BY <2>1, <2>2 DEF Released, RegisteredRuns, Active
<1>5. CASE HearEvent
  <2>1. UNCHANGED status /\ locked' \in {locked, FALSE}
    BY <1>5 DEF HearEvent, HostInv, TypeOK
  <2> DEFINE e == Head(events)
  <2>2. CASE e.kind # "ended"
    BY <1>5, <2>2, <1>1 DEF HearEvent, Released, RegisteredRuns, Active, NoView
  <2>3. CASE e.kind = "ended"
    <3>1. locked' = FALSE
      BY <1>5, <2>3 DEF HearEvent
    <3>2. \/ view' = view
          \/ /\ view.state = "running" /\ view.request = e.request
                  /\ view.generation = e.generation
             /\ view' = [view EXCEPT !.state = "ended"]
      BY <1>5, <2>3 DEF HearEvent
    <3>3. \/ registered' = NoView
          \/ e.generation = status.generation /\ registered' = registered
               /\ registered.request # e.request
      BY <1>5, <2>3 DEF HearEvent
    <3>4. Released'
      BY <2>1, <3>1, <3>2, <1>1 DEF Released, Active, Views
    <3>5. RegisteredRuns'
      BY <2>1, <3>2, <3>3, <1>1 DEF RegisteredRuns, Views
    <3> QED
      BY <3>1, <3>2, <3>3, <3>4, <3>5
  <2> QED
    BY <2>1, <2>2, <2>3
<1>6. ASSUME NEW q \in Requests, ValidationReturns(q) PROVE Released' /\ RegisteredRuns'
  <2>1. UNCHANGED status
    BY <1>6 DEF ValidationReturns
  <2>2. UNCHANGED <<view, locked, registered>> \/ FailToStart(attempt[q].generation)
    BY <1>6 DEF ValidationReturns
  <2> QED
    BY <2>1, <2>2, DropOrAccept DEF Released, RegisteredRuns, Active
<1>7. ASSUME NEW q \in Requests, RunGraph(q) PROVE Released' /\ RegisteredRuns'
  BY <1>7, <1>1 DEF RunGraph, Released, RegisteredRuns, Active
<1> QED
  BY <1>2, <1>3, <1>4, <1>5, <1>6, <1>7, InterfaceCases

\* How a step can change what the order of the statuses depends on.
NoAnswer ==
  /\ generation' = generation /\ answers' = answers /\ status' = status
  /\ state' = state \/ state' # "ready"
  /\ \A q \in Requests : attempt'[q].generation \in {attempt[q].generation, status.generation}

NextGeneration ==
  generation' = generation + 1 /\ state' = "starting" /\ UNCHANGED <<answers, status, attempt>>

Replied(r) ==
  /\ r.generation = generation /\ answers' = Append(answers, r)
  /\ state' # "ready" \/ state' = state \/ (r.ok /\ r.op # "request")
  /\ UNCHANGED <<generation, status, attempt>>

AnswerRead(a) ==
  /\ answers # <<>> /\ a = Head(answers) /\ answers' = Tail(answers)
  /\ UNCHANGED <<generation, state>>
  /\ \A q \in Requests : attempt'[q].generation = attempt[q].generation
  /\ IF a.ok /\ a.op # "request" THEN status'.generation = a.generation ELSE status' = status

(* An answer carries the generation of its moment.                         *)
LEMMA ReplyCase ==
  ASSUME HostInv, NEW c \in Command, NEW ok \in BOOLEAN, NEW s \in States, Reply(c, ok, s),
         UNCHANGED <<generation, interface>>,
         state' # "ready" \/ state' = state \/ (ok /\ c.op # "request")
  PROVE  \E r \in Answers : Replied(r)
<1> DEFINE r == [op |-> c.op, request |-> c.request, ok |-> ok, state |-> s,
    generation |-> generation]
<1>1. r \in Answers
  BY DEF HostInv, TypeOK, Command, Answers, Generation0
<1>2. Replied(r)
  BY DEF Replied, Reply, interface
<1> QED
  BY <1>1, <1>2

(* A step of the host is one of these.                                     *)
LEMMA HostAnswerCases ==
  ASSUME HostInv, HostStep
  PROVE  NoAnswer \/ NextGeneration \/ \E r \in Answers : Replied(r)
<1>1. ASSUME commands # <<>>, NEW c, c = Head(commands),
             StartReady(c) \/ Start(c) \/ RequestRefused(c) \/ RequestWritten(c)
      PROVE  NoAnswer \/ NextGeneration \/ \E r \in Answers : Replied(r)
  <2>1. c \in Command
    BY <1>1, TailFacts DEF HostInv, ChannelTypes
  <2>2. CASE StartReady(c)
    BY <2>1, <2>2, ReplyCase DEF StartReady, host, HostInv, TypeOK
  <2>3. CASE RequestRefused(c)
    BY <2>1, <2>3, ReplyCase DEF RequestRefused, host, HostInv, TypeOK
  <2>4. CASE Start(c)
    BY <2>4 DEF Start, NextGeneration, interface
  <2>5. CASE RequestWritten(c)
    BY <2>5 DEF RequestWritten, NoAnswer, interface
  <2> QED
    BY <1>1, <2>2, <2>3, <2>4, <2>5
<1>2. CASE SpawnFails
  <2>1. call \in Command
    BY <1>2, CallIsCommand DEF SpawnFails
  <2>2. \/ state' # "ready" \/ state' = state \/ call.op # "request"
    BY <1>2 DEF SpawnFails, HostInv, Supervised
  <2> QED
    BY <1>2, <2>1, <2>2, ReplyCase DEF SpawnFails, States, HostInv, TypeOK
<1>3. CASE HandshakeFails
  <2>1. call \in Command
    BY <1>3, CallIsCommand DEF HandshakeFails
  <2>2. \/ state' # "ready" \/ state' = state \/ call.op # "request"
    BY <1>3 DEF HandshakeFails, HostInv, Supervised
  <2> QED
    BY <1>3, <2>1, <2>2, ReplyCase DEF HandshakeFails, States, HostInv, TypeOK
<1>4. CASE RequestLost
  <2>1. call \in Command
    BY <1>4, CallIsCommand DEF RequestLost
  <2>2. \/ state' # "ready" \/ state' = state \/ call.op # "request"
    BY <1>4 DEF RequestLost, HostInv, Supervised
  <2> QED
    BY <1>4, <2>1, <2>2, ReplyCase DEF RequestLost, States, HostInv, TypeOK
<1>5. CASE RequestFails
  <2>1. call \in Command
    BY <1>5, CallIsCommand DEF RequestFails
  <2>2. \/ state' # "ready" \/ state' = state \/ call.op # "request"
    BY <1>5 DEF RequestFails, HostInv, Supervised
  <2> QED
    BY <1>5, <2>1, <2>2, ReplyCase DEF RequestFails, States, HostInv, TypeOK
<1>6. CASE HandshakeSucceeds
  <2>1. call \in Command
    BY <1>6, CallIsCommand DEF HandshakeSucceeds
  <2>2. \/ state' # "ready" \/ state' = state \/ call.op # "request"
    BY <1>6 DEF HandshakeSucceeds, HostInv, Supervised
  <2> QED
    BY <1>6, <2>1, <2>2, ReplyCase DEF HandshakeSucceeds, States, HostInv, TypeOK
<1>7. CASE RequestAnswered
  <2>1. PICK r \in Own : Reply(call, r.ok, state)
    BY <1>7 DEF RequestAnswered
  <2>2. call \in Command /\ generation \in Generations
    BY <1>7, CallIsCommand DEF RequestAnswered
  <2>3. r.ok \in BOOLEAN
    BY <2>2 DEF Own, HostInv, TypeOK, Mailbox
  <2> QED
    BY <1>7, <2>1, <2>2, <2>3, ReplyCase DEF RequestAnswered, HostInv, TypeOK
<1>8. CASE Spawn
  BY <1>8 DEF Spawn, NoAnswer, interface
<1> QED
  BY <1>1, <1>2, <1>3, <1>4, <1>5, <1>6, <1>7, <1>8 DEF HostStep

(* So is every other step.                                                 *)
LEMMA AnswerCases ==
  ASSUME HostInv, [Next]_vars
  PROVE  NoAnswer \/ NextGeneration \/ (\E r \in Answers : Replied(r)) \/ (\E a : AnswerRead(a))
<1>1. attempt \in [Requests -> [state : {"fresh", "validating", "waiting", "settled", "failed"},
      generation : Generation0]]
  BY DEF HostInv, ChannelTypes
<1>2. ASSUME NEW g, SidecarStep(g) \/ Fault(g) PROVE NoAnswer
  BY <1>2
     DEF SidecarStep, Fault, Handle, EndRun, Dispatch, Crash, DamageStream, NoAnswer, host,
         interface
<1>3. Shutdown => NoAnswer
  BY DEF Shutdown, NoAnswer, interface
<1>4. ASSUME NEW op, Ask(op) PROVE NoAnswer
  BY <1>4 DEF Ask, NoAnswer, host, interface
<1>5. ASSUME NEW q \in Requests, RunGraph(q) PROVE NoAnswer
  BY <1>1, <1>5 DEF RunGraph, NoAnswer, host
<1>6. ASSUME NEW q \in Requests, ValidationReturns(q) PROVE NoAnswer
  BY <1>1, <1>6 DEF ValidationReturns, Settle, NoAnswer, host
<1>7. HearStale \/ HearEvent => NoAnswer
  BY DEF HearStale, HearEvent, NoAnswer, host, interface
<1>8. UNCHANGED vars => NoAnswer
  BY DEF vars, NoAnswer, host, interface
<1>9. ASSUME answers # <<>>, NEW a, a = Head(answers), StartReturns(a) PROVE AnswerRead(a)
  BY <1>1, <1>9 DEF StartReturns, Settle, AnswerRead, host
<1>10. ASSUME answers # <<>>, NEW a, a = Head(answers), LifecycleReturns(a) PROVE AnswerRead(a)
  BY <1>1, <1>10 DEF LifecycleReturns, AcceptStatus, AnswerRead, host
<1> QED
  BY <1>1, <1>2, <1>3, <1>4, <1>5, <1>6, <1>7, <1>8, <1>9, <1>10, HostAnswerCases
     DEF Next, InterfaceStep, User

(* Statuses arrive in the order of the generations, and that of a ready    *)
(* generation is not lost.                                                 *)
LEMMA OrderStep ==
  HostInv /\ StatusesInOrder /\ ReadyIsAnnounced /\ [Next]_vars
    => StatusesInOrder' /\ ReadyIsAnnounced'
<1> SUFFICES ASSUME HostInv, StatusesInOrder, ReadyIsAnnounced, [Next]_vars
    PROVE  StatusesInOrder' /\ ReadyIsAnnounced'
  OBVIOUS
<1>1. /\ generation \in Nat /\ status.generation \in Nat /\ answers \in Seq(Answers)
      /\ \A q \in Requests : attempt[q].generation \in Nat
      /\ \A a \in Answers : a.generation \in Nat
  BY SupervisorAssumption DEF HostInv, TypeOK, ChannelTypes, Generation0, Answers
<1>2. CASE NoAnswer
  BY <1>1, <1>2 DEF NoAnswer, StatusesInOrder, ReadyIsAnnounced
<1>3. CASE NextGeneration
  <2>1. \A i \in DOMAIN answers : answers[i].generation \in Nat
    BY <1>1, ElementOfSeq, LenProperties
  <2> QED
    BY <1>1, <1>3, <2>1 DEF NextGeneration, StatusesInOrder, ReadyIsAnnounced
<1>4. ASSUME NEW r \in Answers, Replied(r) PROVE StatusesInOrder' /\ ReadyIsAnnounced'
  <2> DEFINE n == Len(answers) + 1
  <2>1. /\ DOMAIN answers' = DOMAIN answers \cup {n} /\ answers'[n] = r
        /\ \A i \in DOMAIN answers : answers'[i] = answers[i] /\ i < n /\ i \in Nat /\ n \in Nat
    BY <1>1, <1>4, AppendIndex DEF Replied
  <2> HIDE DEF n
  <2>2. StatusesInOrder'
    BY <1>1, <1>4, <2>1 DEF Replied, StatusesInOrder
  <2>3. ReadyIsAnnounced'
    BY <1>1, <1>4, <2>1 DEF Replied, ReadyIsAnnounced
  <2> QED
    BY <2>1, <2>2, <2>3
<1>5. ASSUME NEW a, AnswerRead(a) PROVE StatusesInOrder' /\ ReadyIsAnnounced'
  <2>1. /\ a = answers[1] /\ 1 \in DOMAIN answers /\ a.generation \in Nat
        /\ \A i \in DOMAIN answers' : i + 1 \in DOMAIN answers /\ answers'[i] = answers[i + 1]
             /\ i \in Nat
        /\ \A i \in DOMAIN answers : i = 1
             \/ (i - 1 \in DOMAIN answers' /\ answers'[i - 1] = answers[i])
        /\ \A i, j \in DOMAIN answers' : i < j <=> i + 1 < j + 1
        /\ \A i \in DOMAIN answers' : 1 < i + 1
    BY <1>1, <1>5, TailIndex DEF AnswerRead
  <2>2. StatusesInOrder'
    <3>1. status'.generation \in {status.generation, a.generation}
      BY <1>5 DEF AnswerRead
    <3>2. \A i \in DOMAIN answers' : answers'[i].generation <= generation
            /\ a.generation <= answers'[i].generation
          /\ status.generation <= answers'[i].generation
      BY <2>1 DEF StatusesInOrder
    <3>3. status.generation <= a.generation /\ a.generation <= generation
      BY <2>1 DEF StatusesInOrder
    <3>4. \A i, j \in DOMAIN answers' : i < j
            => answers'[i].generation <= answers'[j].generation
      BY <2>1 DEF StatusesInOrder
    <3>5. \A q \in Requests : attempt'[q].generation <= status'.generation
      BY <1>1, <2>1, <3>1, <3>3, <1>5 DEF AnswerRead, StatusesInOrder
    <3> QED
      BY <3>1, <3>2, <3>3, <3>4, <3>5, <1>5 DEF AnswerRead, StatusesInOrder
  <2>3. ReadyIsAnnounced'
    <3> SUFFICES ASSUME state = "ready", status'.generation < generation
        PROVE  \E i \in DOMAIN answers' : /\ answers'[i].ok /\ answers'[i].op # "request"
                                           /\ answers'[i].generation = generation
      BY <1>5 DEF AnswerRead, ReadyIsAnnounced
    <3>1. status.generation < generation
      BY <1>1, <2>1, <1>5 DEF AnswerRead, StatusesInOrder
    <3>2. PICK i \in DOMAIN answers : /\ answers[i].ok /\ answers[i].op # "request"
          /\ answers[i].generation = generation
      BY <3>1 DEF ReadyIsAnnounced
    <3>3. i # 1
      BY <2>1, <3>2, <1>5 DEF AnswerRead
    <3> QED
      BY <2>1, <3>2, <3>3
  <2> QED
    BY <2>1, <2>2, <2>3
<1> QED
  BY <1>2, <1>3, <1>4, <1>5, AnswerCases

-----------------------------------------------------------------------------

\* A step by which no request gets a new trace.
TracesKept ==
  \A g \in Generations : \A q \in Requests :
    (Untouched(g, q) => Untouched(g, q)') /\ (Due(g, q)' => Due(g, q))

(* What a message is to a request.                                         *)
LEMMA MessageFacts ==
  /\ \A p, q \in Requests : \A b \in BOOLEAN :
       /\ Message("response", p, b) \in ResponsesTo(q) <=> p = q
       /\ Message("response", p, b) \notin EndsOf(q)
  /\ \A p, q \in Requests : /\ Message("ended", p, TRUE) \in EndsOf(q) <=> p = q
                            /\ Message("ended", p, TRUE) \notin ResponsesTo(q)
  /\ \A q \in Requests : \A m \in {EndOfStream, BadFrame, Message("ready", NoRequest, TRUE)} :
       m \notin ResponsesTo(q) /\ m \notin EndsOf(q)
  BY SupervisorAssumption, MessageTypes
     DEF ResponsesTo, EndsOf, Message, EndOfStream, BadFrame, Request0, Messages

(* What one message written adds to a stream.                              *)
LEMMA WrittenFacts ==
  ASSUME HostInv, NEW g \in Generations, NEW m \in Messages
  PROVE  /\ \A h \in Generations : h # g => Written(g, <<m>>)[h] = stdout[h]
         /\ \A S : Absent(stdout[g], S) /\ m \notin S => Absent(Written(g, <<m>>)[g], S)
         /\ \A S : Once(stdout[g], S) /\ (m \in S => Absent(stdout[g], S))
                     => Once(Written(g, <<m>>)[g], S)
<1>1. stdout \in [Generations -> Seq(Messages)] /\ stdout[g] \in Seq(Messages)
  BY DEF HostInv, ChannelTypes
<1>2. stdout[g] \o <<m>> = Append(stdout[g], m)
  BY <1>1, ConcatFacts
<1>3. /\ \A S : Absent(stdout[g], S) /\ m \notin S => Absent(stdout[g] \o <<m>>, S)
      /\ \A S : Once(stdout[g], S) /\ (m \in S => Absent(stdout[g], S))
                 => Once(stdout[g] \o <<m>>, S)
  <2>1. /\ \A S : Absent(Append(stdout[g], m), S) <=> Absent(stdout[g], S) /\ m \notin S
        /\ \A S : Once(stdout[g], S) /\ (m \in S => Absent(stdout[g], S))
                   => Once(Append(stdout[g], m), S)
    BY <1>1, AppendFacts
  <2> QED
    BY <2>1, <1>2
<1>4. CASE Reading(g)
  BY <1>1, <1>3, <1>4 DEF Written
<1>5. CASE ~Reading(g)
  BY <1>1, <1>5 DEF Written
<1> QED
  BY <1>4, <1>5

(* A request is taken from the pipe: its response is written and its run   *)
(* may start.                                                              *)
LEMMA HandleTraces ==
  ASSUME HostInv, OneTrace, NEW g \in Generations, Handle(g)
  PROVE  OneTrace' /\ TracesKept
<1> SUFFICES ASSUME NEW h \in Generations, NEW q \in Requests
    PROVE  OneTraceOf(h, q)' /\ (Untouched(h, q) => Untouched(h, q)')
             /\ (Due(h, q)' => Due(h, q))
  BY DEF OneTrace, TracesKept
<1> DEFINE p == Head(stdin[g])
    m == Message("response", p, run[g] = NoRequest)
<1>1. OneTraceOf(h, q)
  BY DEF OneTrace
<1>2. stdin \in [Generations -> Seq(Requests)] /\ stdout \in [Generations -> Seq(Messages)]
      /\ run \in [Generations -> Request0]
  BY DEF HostInv, ChannelTypes, TypeOK, Request0
<1>3. /\ stdin[g] # <<>> /\ stdout' = Written(g, <<m>>)
      /\ stdin' = [stdin EXCEPT ![g] = Tail(@)]
      /\ run' = run \/ run' = [run EXCEPT ![g] = p]
      /\ UNCHANGED <<mailbox, events>>
  BY DEF Handle, host
<1>4. /\ p \in Requests /\ (run[g] = NoRequest) \in BOOLEAN
      /\ \A S : Absent(stdin[g], S) <=> Absent(stdin'[g], S) /\ p \notin S
      /\ \A S : Once(stdin[g], S) => Once(stdin'[g], S) /\ (p \in S => Absent(stdin'[g], S))
  BY <1>2, <1>3, TailFacts
<1>5. m \in Messages /\ m \notin EndsOf(q) /\ (m \in ResponsesTo(q) <=> p = q)
  BY <1>4, MessageTypes, MessageFacts
<1> HIDE DEF p, m
<1>6. /\ \A k \in Generations : k # g => stdout'[k] = stdout[k]
      /\ \A S : Absent(stdout[g], S) /\ m \notin S => Absent(stdout'[g], S)
      /\ \A S : Once(stdout[g], S) /\ (m \in S => Absent(stdout[g], S)) => Once(stdout'[g], S)
  BY <1>3, <1>5, WrittenFacts
<1>7. CASE h # g
  BY <1>1, <1>2, <1>3, <1>6, <1>7 DEF OneTraceOf, Untouched, Due, Parked
<1>8. CASE h = g /\ q # p
  BY <1>1, <1>2, <1>3, <1>4, <1>5, <1>6, <1>8 DEF OneTraceOf, Untouched, Due, Parked
<1>9. CASE h = g /\ q = p
  BY <1>1, <1>2, <1>3, <1>4, <1>5, <1>6, <1>9 DEF OneTraceOf, Untouched, Due, Parked
<1> QED
  BY <1>1, <1>2, <1>3, <1>4, <1>5, <1>6, <1>7, <1>8, <1>9

(* A runtime writes the end of the run it ends, or a message that is no    *)
(* response.                                                               *)
LEMMA WriteTraces ==
  ASSUME HostInv, OneTrace, NEW g \in Generations, NEW m \in Messages,
         stdout' = Written(g, <<m>>), UNCHANGED <<stdin, mailbox, events>>,
         \A h \in Generations : run'[h] \in {run[h], NoRequest},
         \/ m \in {EndOfStream, BadFrame, Message("ready", NoRequest, TRUE)}
         \/ run[g] \in Requests /\ m = Message("ended", run[g], TRUE) /\ run'[g] = NoRequest
  PROVE  OneTrace' /\ TracesKept
<1> SUFFICES ASSUME NEW h \in Generations, NEW q \in Requests
    PROVE  OneTraceOf(h, q)' /\ (Untouched(h, q) => Untouched(h, q)')
             /\ (Due(h, q)' => Due(h, q))
  BY DEF OneTrace, TracesKept
<1>1. OneTraceOf(h, q)
  BY DEF OneTrace
<1>2. stdin \in [Generations -> Seq(Requests)] /\ stdout \in [Generations -> Seq(Messages)]
      /\ run \in [Generations -> Request0] /\ mailbox \in [Generations -> Mailbox]
      /\ events \in Seq(Events)
  BY DEF HostInv, ChannelTypes, TypeOK, Request0
<1>3. /\ m \notin ResponsesTo(q) /\ q # NoRequest
      /\ m \in EndsOf(q) => run[g] = q /\ run'[g] = NoRequest
  <2>1. CASE m \in {EndOfStream, BadFrame, Message("ready", NoRequest, TRUE)}
    <3>1. \A x \in {EndOfStream, BadFrame, Message("ready", NoRequest, TRUE)} :
          x \notin ResponsesTo(q) /\ x \notin EndsOf(q)
      BY MessageFacts
    <3>2. q # NoRequest
      BY SupervisorAssumption
    <3> QED
      BY <2>1, <3>1, <3>2, Zenon
  <2>2. CASE run[g] \in Requests /\ m = Message("ended", run[g], TRUE) /\ run'[g] = NoRequest
    BY <2>2, SupervisorAssumption, MessageFacts
  <2> QED
    BY <2>1, <2>2
<1>4. /\ \A k \in Generations : k # g => stdout'[k] = stdout[k]
      /\ \A S : Absent(stdout[g], S) /\ m \notin S => Absent(stdout'[g], S)
      /\ \A S : Once(stdout[g], S) /\ (m \in S => Absent(stdout[g], S)) => Once(stdout'[g], S)
  BY WrittenFacts
<1>5. CASE h # g
  BY <1>1, <1>2, <1>3, <1>4, <1>5 DEF OneTraceOf, Untouched, Due, Parked
<1>6. CASE h = g
  BY <1>1, <1>2, <1>3, <1>4, <1>6 DEF OneTraceOf, Untouched, Due, Parked
<1> QED
  BY <1>1, <1>2, <1>3, <1>4, <1>5, <1>6

(* What is dispatched moves on: a response to the mailbox, an end to the   *)
(* interface.                                                              *)
LEMMA DispatchTraces ==
  ASSUME HostInv, OneTrace, NEW g \in Generations, Dispatch(g)
  PROVE  OneTrace' /\ TracesKept
<1> SUFFICES ASSUME NEW h \in Generations, NEW q \in Requests
    PROVE  OneTraceOf(h, q)' /\ (Untouched(h, q) => Untouched(h, q)')
             /\ (Due(h, q)' => Due(h, q))
  BY DEF OneTrace, TracesKept
<1> DEFINE m == Head(stdout[g])
    e == [kind |-> m.kind, request |-> m.request, generation |-> g]
<1>1. OneTraceOf(h, q)
  BY DEF OneTrace
<1>2. stdin \in [Generations -> Seq(Requests)] /\ stdout \in [Generations -> Seq(Messages)]
      /\ run \in [Generations -> Request0] /\ mailbox \in [Generations -> Mailbox]
      /\ events \in Seq(Events)
  BY DEF HostInv, ChannelTypes, TypeOK, Request0
<1>3. /\ stdout[g] # <<>> /\ stdout' = [stdout EXCEPT ![g] = Tail(@)]
      /\ mailbox' = Dispatched(g, m) /\ UNCHANGED <<stdin, run>>
      /\ events' = IF m.kind \in {"ready", "ended"} THEN Append(events, e) ELSE events
  BY DEF Dispatch
<1>4. /\ m \in Messages
      /\ \A S : Absent(stdout[g], S) <=> Absent(stdout'[g], S) /\ m \notin S
      /\ \A S : Once(stdout[g], S) => Once(stdout'[g], S) /\ (m \in S => Absent(stdout'[g], S))
      /\ \A k \in Generations : k # g => stdout'[k] = stdout[k]
  BY <1>2, <1>3, TailFacts
<1> HIDE DEF m
<1>5. m.kind \in {"ready", "ended"} => e \in Events
  BY <1>4 DEF Messages, Events
<1>6. /\ m \in ResponsesTo(q) <=> m.kind = "response" /\ m.request = q
      /\ m \in EndsOf(q) <=> m.kind = "ended" /\ m.request = q
  BY <1>4 DEF ResponsesTo, EndsOf
<1>7. \A S : Absent(events, S) /\ (m.kind \in {"ready", "ended"} => e \notin S)
        => Absent(events', S)
  BY <1>2, <1>3, <1>5, AppendFacts
<1>8. m.kind \in {"ready", "ended"} => (e \in EndEvents(h, q) <=> h = g /\ m \in EndsOf(q))
  BY <1>5, <1>6 DEF EndEvents
<1>9. /\ m.kind # "response" \/ h # g => Parked(h, q)' = Parked(h, q)
      /\ m.kind = "response" /\ h = g =>
           Parked(h, q)' = IF m.request = q THEN Parked(h, q) \cup {[request |-> q, ok |-> m.ok]}
                           ELSE Parked(h, q)
  BY <1>2, <1>3, <1>4 DEF Dispatched, Parked, Mailbox, Messages
<1>10. CASE h # g
  BY <1>1, <1>2, <1>3, <1>6, <1>4, <1>7, <1>8, <1>5, <1>9, <1>10
     DEF OneTraceOf, Untouched, Due
<1>11. CASE h = g /\ m \in ResponsesTo(q)
  BY <1>1, <1>2, <1>3, <1>6, <1>4, <1>7, <1>8, <1>5, <1>9, <1>11
     DEF OneTraceOf, Untouched, Due
<1>12. CASE h = g /\ m \in EndsOf(q)
  BY <1>1, <1>2, <1>3, <1>6, <1>4, <1>7, <1>8, <1>5, <1>9, <1>12
     DEF OneTraceOf, Untouched, Due
<1>13. CASE h = g /\ m \notin ResponsesTo(q) /\ m \notin EndsOf(q)
  BY <1>1, <1>2, <1>3, <1>6, <1>4, <1>7, <1>8, <1>5, <1>9, <1>13
     DEF OneTraceOf, Untouched, Due
<1> QED
  BY <1>1, <1>2, <1>3, <1>4, <1>5, <1>6, <1>7, <1>8, <1>9, <1>10, <1>11, <1>12, <1>13

(* A process that leaves may end its run, and its stream; then it runs     *)
(* nothing.                                                                *)
LEMMA StopTraces ==
  ASSUME HostInv, OneTrace, StopProcess, UNCHANGED <<stdin, events>>,
         mailbox' \in {mailbox, [mailbox EXCEPT ![generation] = NewMailbox]}
  PROVE  OneTrace' /\ TracesKept
<1> SUFFICES ASSUME NEW h \in Generations, NEW q \in Requests
    PROVE  OneTraceOf(h, q)' /\ (Untouched(h, q) => Untouched(h, q)')
             /\ (Due(h, q)' => Due(h, q))
  BY DEF OneTrace, TracesKept
<1>1. OneTraceOf(h, q)
  BY DEF OneTrace
<1>2. stdin \in [Generations -> Seq(Requests)] /\ stdout \in [Generations -> Seq(Messages)]
      /\ run \in [Generations -> Request0] /\ mailbox \in [Generations -> Mailbox]
      /\ events \in Seq(Events)
  BY DEF HostInv, ChannelTypes, TypeOK, Request0
<1>3. Parked(h, q)' \subseteq Parked(h, q)
  <2>1. mailbox'[h].responses \subseteq mailbox[h].responses
    <3>1. CASE mailbox' = mailbox
      BY <3>1
    <3>2. CASE mailbox' = [mailbox EXCEPT ![generation] = NewMailbox]
      BY <3>2, <1>2 DEF NewMailbox
    <3> QED
      BY <3>1, <3>2
  <2> QED
    BY <2>1 DEF Parked
<1>4. CASE ~process
  <2>1. UNCHANGED <<run, stdout>>
    BY <1>4 DEF StopProcess
  <2> QED
    BY <1>1, <1>3, <2>1 DEF OneTraceOf, Untouched, Due
<1>5. CASE process
  <2>1. generation \in Generations /\ run' = [run EXCEPT ![generation] = NoRequest]
    BY <1>5 DEF HostInv, Supervised, TypeOK, Generations, StopProcess
  <2> DEFINE m == Message("ended", run[generation], TRUE)
      s == stdout[generation]
  <2>2. /\ \A k \in Generations : k # generation => stdout'[k] = stdout[k]
        /\ \/ stdout'[generation] \in {s, Append(s, EndOfStream)}
           \/ run[generation] \in Requests
                /\ stdout'[generation] = Append(Append(s, m), EndOfStream)
    <3>1. s \in Seq(Messages) /\ EndOfStream \in Messages /\ run[generation] \in Request0
            /\ m \in Messages
      BY <2>1, <1>2, MessageTypes
    <3>2. \/ stdout' = Written(generation, <<>>)
          \/ stdout' = Written(generation, <<EndOfStream>>)
          \/ run[generation] # NoRequest
               /\ stdout' = Written(generation, <<m>> \o <<EndOfStream>>)
      BY <1>5 DEF StopProcess
    <3> HIDE DEF m, s
    <3>3. s \o <<>> = s /\ s \o <<EndOfStream>> = Append(s, EndOfStream)
          /\ s \o (<<m>> \o <<EndOfStream>>) = Append(Append(s, m), EndOfStream)
      BY <3>1, ConcatFacts
    <3> QED
      BY <1>2, <2>1, <3>1, <3>3, <3>2 DEF Written, Request0, s
  <2>3. /\ Absent(s, ResponsesTo(q)) => Absent(stdout'[generation], ResponsesTo(q))
        /\ Once(s, ResponsesTo(q)) => Once(stdout'[generation], ResponsesTo(q))
        /\ Absent(s, EndsOf(q)) /\ run[generation] # q => Absent(stdout'[generation], EndsOf(q))
    <3>1. s \in Seq(Messages) /\ EndOfStream \in Messages /\ EndOfStream \notin ResponsesTo(q)
            /\ EndOfStream \notin EndsOf(q)
      BY <2>1, <1>2, MessageTypes, MessageFacts
    <3>2. /\ Absent(s, ResponsesTo(q)) => Absent(Append(s, EndOfStream), ResponsesTo(q))
          /\ Once(s, ResponsesTo(q)) => Once(Append(s, EndOfStream), ResponsesTo(q))
          /\ Absent(s, EndsOf(q)) => Absent(Append(s, EndOfStream), EndsOf(q))
      BY <3>1, AppendFacts
    <3>3. CASE run[generation] \in Requests
            /\ stdout'[generation] = Append(Append(s, m), EndOfStream)
      <4>1. m \in Messages /\ m \notin ResponsesTo(q)
              /\ (m \in EndsOf(q) <=> run[generation] = q)
        BY <3>3, <1>2, <2>1, MessageTypes, MessageFacts
      <4> HIDE DEF m
      <4>2. /\ Append(s, m) \in Seq(Messages)
            /\ Absent(s, ResponsesTo(q)) => Absent(Append(s, m), ResponsesTo(q))
            /\ Once(s, ResponsesTo(q)) => Once(Append(s, m), ResponsesTo(q))
            /\ Absent(s, EndsOf(q)) /\ run[generation] # q => Absent(Append(s, m), EndsOf(q))
        BY <3>1, <4>1, AppendFacts
      <4>3. \A S : EndOfStream \notin S =>
            /\ Absent(Append(s, m), S) => Absent(Append(Append(s, m), EndOfStream), S)
            /\ Once(Append(s, m), S) => Once(Append(Append(s, m), EndOfStream), S)
        BY <3>1, <4>2, AppendFacts
      <4> QED
        BY <3>1, <3>3, <4>2, <4>3
    <3> QED
      BY <3>1, <3>2, <3>3, <2>2
  <2> HIDE DEF s, m
  <2>4. s = stdout[generation]
    BY DEF s
  <2>5. CASE h = generation
    BY <1>1, <1>3, <1>2, <2>1, <2>3, <2>4, <2>5, SupervisorAssumption
       DEF OneTraceOf, Untouched, Due
  <2>6. CASE h # generation
    BY <1>1, <1>3, <1>2, <2>1, <2>2, <2>6 DEF OneTraceOf, Untouched, Due
  <2> QED
    BY <2>1, <2>2, <2>3, <2>4, <2>5, <2>6
<1> QED
  BY <1>4, <1>5

(* Nothing is written or taken, except an event or a response nobody       *)
(* waits for any more.                                                     *)
LEMMA QuietTraces ==
  ASSUME HostInv, OneTrace, UNCHANGED <<stdin, stdout, run>>,
         events' = events \/ (events # <<>> /\ events' = Tail(events)),
         \A h \in Generations : mailbox'[h].responses \subseteq mailbox[h].responses
  PROVE  OneTrace' /\ TracesKept
<1> SUFFICES ASSUME NEW h \in Generations, NEW q \in Requests
    PROVE  OneTraceOf(h, q)' /\ (Untouched(h, q) => Untouched(h, q)')
             /\ (Due(h, q)' => Due(h, q))
  BY DEF OneTrace, TracesKept
<1>1. OneTraceOf(h, q)
  BY DEF OneTrace
<1>2. events \in Seq(Events)
  BY DEF HostInv, ChannelTypes
<1>3. \A S : Absent(events, S) => Absent(events', S)
  <2>1. CASE events' = events
    BY <2>1
  <2>2. CASE events # <<>> /\ events' = Tail(events)
    BY <1>2, <2>2, TailFacts
  <2> QED
    BY <2>1, <2>2
<1>4. Parked(h, q)' \subseteq Parked(h, q)
  BY DEF Parked
<1> QED
  BY <1>1, <1>3, <1>4 DEF OneTraceOf, Untouched, Due

RequestWrittenStep == commands # <<>> /\ RequestWritten(Head(commands))

(* A step of the host but the writing of a request gives no request a      *)
(* new trace.                                                              *)
LEMMA HostStepTraces ==
  ASSUME HostInv, OneTrace, HostStep
  PROVE  (OneTrace' /\ TracesKept) \/ RequestWrittenStep
<1>1. CASE Spawn
  BY <1>1, QuietTraces DEF Spawn, sidecars
<1>2. CASE SpawnFails
  BY <1>2, QuietTraces DEF SpawnFails, sidecars
<1>3. CASE RequestFails
  BY <1>3, QuietTraces DEF RequestFails, sidecars
<1>4. CASE HandshakeFails
  <2>1. StopProcess /\ UNCHANGED <<stdin, events>>
        /\ mailbox' \in {mailbox, [mailbox EXCEPT ![generation] = NewMailbox]}
    BY <1>4 DEF HandshakeFails
  <2> QED
    BY <2>1, StopTraces
<1>5. CASE RequestLost
  <2>1. StopProcess /\ UNCHANGED <<stdin, events>>
        /\ mailbox' \in {mailbox, [mailbox EXCEPT ![generation] = NewMailbox]}
    BY <1>5 DEF RequestLost
  <2> QED
    BY <2>1, StopTraces
<1>6. CASE HandshakeSucceeds
  <2>1. generation \in Generations /\ Message("ready", NoRequest, TRUE) \in Messages
    BY <1>6, CallIsCommand, MessageTypes DEF HandshakeSucceeds
  <2>2. /\ stdout' = Written(generation, <<Message("ready", NoRequest, TRUE)>>)
        /\ UNCHANGED <<stdin, mailbox, events, run>>
    BY <1>6 DEF HandshakeSucceeds
  <2> QED
    BY <2>1, <2>2, WriteTraces
<1>7. CASE RequestAnswered
  <2>1. generation \in Generations /\ mailbox \in [Generations -> Mailbox]
    BY <1>7, CallIsCommand DEF RequestAnswered, HostInv, TypeOK
  <2>2. PICK r : mailbox' = [mailbox EXCEPT ![generation].responses = @ \ {r}]
    BY <1>7 DEF RequestAnswered
  <2>3. UNCHANGED <<stdin, stdout, run, events>>
    BY <1>7 DEF RequestAnswered, sidecars
  <2>4. \A h \in Generations : mailbox'[h].responses \subseteq mailbox[h].responses
    BY <2>1, <2>2 DEF Mailbox
  <2> QED
    BY <2>3, <2>4, QuietTraces
<1>8. ASSUME commands # <<>>, NEW c, c = Head(commands),
             StartReady(c) \/ Start(c) \/ RequestRefused(c) \/ RequestWritten(c)
      PROVE  (OneTrace' /\ TracesKept) \/ RequestWrittenStep
  <2>1. CASE StartReady(c)
    BY <2>1, QuietTraces DEF StartReady, sidecars, host
  <2>2. CASE RequestRefused(c)
    BY <2>2, QuietTraces DEF RequestRefused, sidecars, host
  <2>3. CASE Start(c)
    <3>1. CASE c.op = "restart"
      <4>1. StopProcess /\ UNCHANGED <<stdin, events, mailbox>>
        BY <2>3, <3>1 DEF Start
      <4> QED
        BY <4>1, StopTraces
    <3>2. CASE c.op # "restart"
      BY <2>3, <3>2, QuietTraces DEF Start
    <3> QED
      BY <3>1, <3>2
  <2>4. CASE RequestWritten(c)
    BY <2>4, <1>8 DEF RequestWrittenStep
  <2> QED
    BY <1>8, <2>1, <2>2, <2>3, <2>4
<1> QED
  BY <1>1, <1>2, <1>3, <1>4, <1>5, <1>6, <1>7, <1>8 DEF HostStep

(* Neither does any other step.                                            *)
LEMMA TraceStep ==
  ASSUME HostInv, OneTrace, [Next]_vars
  PROVE  (OneTrace' /\ TracesKept) \/ RequestWrittenStep
<1>1. CASE HostStep
  BY <1>1, HostStepTraces
<1>2. ASSUME NEW g \in Generations, SidecarStep(g) \/ Fault(g) PROVE OneTrace' /\ TracesKept
  <2>1. CASE Handle(g)
    BY <2>1, HandleTraces
  <2>2. CASE Dispatch(g)
    BY <2>2, DispatchTraces
  <2>3. run \in [Generations -> Request0] /\ EndOfStream \in Messages /\ BadFrame \in Messages
    BY MessageTypes DEF HostInv, TypeOK, Request0
  <2>4. CASE EndRun(g)
    <3>1. run[g] \in Requests /\ Message("ended", run[g], TRUE) \in Messages
      BY <2>4, <2>3, MessageTypes DEF EndRun, Request0
    <3>2. stdout' = Written(g, <<Message("ended", run[g], TRUE)>>)
            /\ UNCHANGED <<stdin, mailbox, events>>
          /\ run' = [run EXCEPT ![g] = NoRequest]
      BY <2>4 DEF EndRun, host
    <3>3. run'[g] = NoRequest /\ \A h \in Generations : run'[h] \in {run[h], NoRequest}
      BY <3>2, <2>3
    <3> QED
      BY <3>1, <3>2, <3>3, WriteTraces
  <2>5. CASE Crash(g)
    <3>1. stdout' = Written(g, <<EndOfStream>>) /\ UNCHANGED <<stdin, mailbox, events>>
          /\ run' = [run EXCEPT ![g] = NoRequest]
      BY <2>5 DEF Crash, host
    <3>2. \A h \in Generations : run'[h] \in {run[h], NoRequest}
      BY <3>1, <2>3
    <3> QED
      BY <2>3, <3>1, <3>2, WriteTraces
  <2>6. CASE DamageStream(g)
    <3>1. stdout' = Written(g, <<BadFrame>>) /\ UNCHANGED <<stdin, mailbox, events, run>>
      BY <2>6 DEF DamageStream, host
    <3> QED
      BY <2>3, <3>1, WriteTraces
  <2> QED
    BY <1>2, <2>1, <2>2, <2>4, <2>5, <2>6 DEF SidecarStep, Fault
<1>3. CASE InterfaceStep \/ UNCHANGED vars
  <2>1. UNCHANGED <<stdin, stdout, run, mailbox>>
          /\ (events' = events \/ (events # <<>> /\ events' = Tail(events)))
    BY <1>3
       DEF InterfaceStep, StartReturns, LifecycleReturns, HearStale, HearEvent,
           ValidationReturns, host, sidecars, vars
  <2> QED
    BY <2>1, QuietTraces
<1>4. CASE Shutdown
  <2>1. StopProcess /\ UNCHANGED <<stdin, events>>
        /\ mailbox' \in {mailbox, [mailbox EXCEPT ![generation] = NewMailbox]}
    BY <1>4 DEF Shutdown
  <2> QED
    BY <2>1, StopTraces
<1>5. ASSUME (\E q \in Requests : RunGraph(q)) \/ (\E op \in {"start", "restart"} : Ask(op))
      PROVE  OneTrace' /\ TracesKept
  BY <1>5, QuietTraces DEF RunGraph, Ask, host, sidecars
<1> QED
  BY <1>1, <1>2, <1>3, <1>4, <1>5 DEF Next, User

-----------------------------------------------------------------------------

\* How a step can change what the calls of the interface have become.
Served(r) ==
  /\ answers' = Append(answers, r) /\ r.request = call.request /\ call' = Idle
  /\ r.ok /\ r.request \in Requests => RequestAnswered
  /\ UNCHANGED <<generation, commands, attempt>>

Refused(r) ==
  /\ commands # <<>> /\ commands' = Tail(commands) /\ r.request = Head(commands).request
  /\ answers' = Append(answers, r) /\ call = Idle
  /\ UNCHANGED <<generation, call, attempt>>

Taken ==
  /\ commands # <<>> /\ commands' = Tail(commands)
  /\ call = Idle /\ call' = Head(commands)
  /\ call'.request \in Requests => RequestWrittenStep
  /\ UNCHANGED <<answers, attempt>>

Others(q) == \A p \in Requests : p # q => attempt'[p] = attempt[p]

Opened(q) ==
  /\ attempt[q].state = "fresh" /\ attempt'[q].state = "validating" /\ Others(q)
  /\ UNCHANGED <<generation, commands, answers, call>>

Validated(q) ==
  /\ attempt[q].state = "validating" /\ Others(q)
  /\ \/ commands' = commands /\ attempt'[q].state \in {"settled", "failed"}
     \/ /\ commands' = Append(commands, [op |-> "request", request |-> q])
        /\ attempt'[q].state = "waiting"
  /\ UNCHANGED <<generation, answers, call>>

Read(a) ==
  /\ answers # <<>> /\ a = Head(answers) /\ answers' = Tail(answers)
  /\ a.request \in Requests => attempt'[a.request].state = IF a.ok THEN "settled" ELSE "failed"
  /\ Others(a.request)
  /\ UNCHANGED <<generation, commands, call>>

Asked ==
  /\ \E op \in {"start", "restart"} :
       commands' = Append(commands, [op |-> op, request |-> NoRequest])
  /\ UNCHANGED <<generation, answers, call, attempt>>

CallsKept == UNCHANGED <<generation, commands, answers, call, attempt>>

(* What is answered, and to whom.                                          *)
LEMMA AnswerType ==
  ASSUME HostInv, NEW c \in Command, NEW ok \in BOOLEAN, NEW s \in States, Reply(c, ok, s)
  PROVE  \E r \in Answers : /\ answers' = Append(answers, r) /\ r.request = c.request
                            /\ r.ok = ok /\ r.op = c.op
<1> DEFINE r == [op |-> c.op, request |-> c.request, ok |-> ok, state |-> s,
    generation |-> generation]
<1>1. r \in Answers
  BY DEF HostInv, TypeOK, Command, Answers, Generation0
<1> QED
  BY <1>1 DEF Reply

(* A step of the host answers the command it serves, answers or takes      *)
(* the next one, or none of these.                                         *)
LEMMA HostCallCases ==
  ASSUME HostInv, HostStep
  PROVE  CallsKept \/ Taken \/ \E r \in Answers : Served(r) \/ Refused(r)
<1>1. ASSUME commands # <<>>, NEW c, c = Head(commands),
             StartReady(c) \/ Start(c) \/ RequestRefused(c) \/ RequestWritten(c)
      PROVE  CallsKept \/ Taken \/ \E r \in Answers : Served(r) \/ Refused(r)
  <2>1. c \in Command
    BY <1>1, TailFacts DEF HostInv, ChannelTypes
  <2>2. CASE StartReady(c)
    <3>1. PICK r \in Answers : answers' = Append(answers, r) /\ r.request = c.request
      BY <2>1, <2>2, AnswerType DEF StartReady, HostInv, TypeOK
    <3>2. Refused(r)
      BY <1>1, <2>2, <3>1 DEF StartReady, Refused, Take, host, interface
    <3> QED
      BY <3>1, <3>2
  <2>3. CASE RequestRefused(c)
    <3>1. PICK r \in Answers : answers' = Append(answers, r) /\ r.request = c.request
      BY <2>1, <2>3, AnswerType DEF RequestRefused, HostInv, TypeOK
    <3>2. Refused(r)
      BY <1>1, <2>3, <3>1 DEF RequestRefused, Refused, Take, host, interface
    <3> QED
      BY <3>1, <3>2
  <2>4. CASE Start(c)
    <3>1. c.request = NoRequest
      BY <2>4, <2>1 DEF Start, Command
    <3> QED
      BY <3>1, <2>4, <1>1, SupervisorAssumption DEF Start, Take, Taken, interface
  <2>5. CASE RequestWritten(c)
    BY <1>1, <2>5 DEF RequestWritten, RequestWrittenStep, Take, Taken, interface
  <2> QED
    BY <1>1, <2>2, <2>3, <2>4, <2>5
<1>2. CASE SpawnFails
  <2>1. call \in Command
    BY <1>2, CallIsCommand DEF SpawnFails
  <2>2. PICK r \in Answers : answers' = Append(answers, r) /\ r.request = call.request
          /\ r.ok = FALSE
    <3>1. Reply(call, FALSE, "failed") /\ "failed" \in States /\ FALSE \in BOOLEAN
      BY <1>2 DEF SpawnFails, States
    <3> QED
      BY <2>1, <3>1, AnswerType
  <2>3. Served(r)
    BY <1>2, <2>2 DEF SpawnFails, Served, interface
  <2> QED
    BY <2>2, <2>3
<1>3. CASE HandshakeFails
  <2>1. call \in Command
    BY <1>3, CallIsCommand DEF HandshakeFails
  <2>2. PICK r \in Answers : answers' = Append(answers, r) /\ r.request = call.request
          /\ r.ok = FALSE
    <3>1. Reply(call, FALSE, "failed") /\ "failed" \in States /\ FALSE \in BOOLEAN
      BY <1>3 DEF HandshakeFails, States
    <3> QED
      BY <2>1, <3>1, AnswerType
  <2>3. Served(r)
    BY <1>3, <2>2 DEF HandshakeFails, Served, interface
  <2> QED
    BY <2>2, <2>3
<1>4. CASE HandshakeSucceeds
  <2>1. call \in Command
    BY <1>4, CallIsCommand DEF HandshakeSucceeds
  <2>2. PICK r \in Answers : answers' = Append(answers, r) /\ r.request = call.request
          /\ r.ok = TRUE
    BY <2>1, <1>4, AnswerType DEF HandshakeSucceeds, States, HostInv, TypeOK
  <2>3. call.request \notin Requests
    BY <2>1, <1>4, SupervisorAssumption DEF HandshakeSucceeds, HostInv, Supervised, Command
  <2>4. Served(r)
    BY <1>4, <2>2, <2>3 DEF HandshakeSucceeds, Served, interface
  <2> QED
    BY <2>2, <2>4
<1>5. CASE RequestLost
  <2>1. call \in Command
    BY <1>5, CallIsCommand DEF RequestLost
  <2>2. PICK r \in Answers : answers' = Append(answers, r) /\ r.request = call.request
          /\ r.ok = FALSE
    BY <2>1, <1>5, AnswerType DEF RequestLost, States, HostInv, TypeOK
  <2>3. Served(r)
    BY <1>5, <2>2 DEF RequestLost, Served, interface
  <2> QED
    BY <2>2, <2>3
<1>6. CASE RequestFails
  <2>1. call \in Command
    BY <1>6, CallIsCommand DEF RequestFails
  <2>2. PICK r \in Answers : answers' = Append(answers, r) /\ r.request = call.request
          /\ r.ok = FALSE
    BY <2>1, <1>6, AnswerType DEF RequestFails, States, HostInv, TypeOK
  <2>3. Served(r)
    BY <1>6, <2>2 DEF RequestFails, Served, interface
  <2> QED
    BY <2>2, <2>3
<1>7. CASE RequestAnswered
  <2>1. call \in Command
    BY <1>7, CallIsCommand DEF RequestAnswered
  <2>2. generation \in Generations
    BY <1>7, CallIsCommand DEF RequestAnswered
  <2>3. PICK s \in Own : Reply(call, s.ok, state)
    BY <1>7 DEF RequestAnswered
  <2>4. s.ok \in BOOLEAN
    BY <2>2 DEF Own, HostInv, TypeOK, Mailbox
  <2>5. PICK r \in Answers : answers' = Append(answers, r) /\ r.request = call.request
    BY <2>1, <2>3, <2>4, AnswerType DEF HostInv, TypeOK
  <2>6. Served(r)
    BY <1>7, <2>5 DEF RequestAnswered, Served, interface
  <2> QED
    BY <2>5, <2>6
<1>8. CASE Spawn
  BY <1>8 DEF Spawn, CallsKept, interface
<1> QED
  BY <1>1, <1>2, <1>3, <1>4, <1>5, <1>6, <1>7, <1>8 DEF HostStep

(* The other steps leave the calls alone, or are steps of the interface.   *)
LEMMA CallCases ==
  ASSUME HostInv, [Next]_vars
  PROVE  \/ CallsKept \/ Taken \/ Asked
         \/ \E r \in Answers : Served(r) \/ Refused(r)
         \/ \E q \in Requests : Opened(q) \/ Validated(q)
         \/ \E a \in Answers : Read(a)
<1>1. attempt \in [Requests -> [state : {"fresh", "validating", "waiting", "settled", "failed"},
      generation : Generation0]]
  BY DEF HostInv, ChannelTypes
<1>2. ASSUME NEW g, SidecarStep(g) \/ Fault(g) PROVE CallsKept
  BY <1>2
     DEF SidecarStep, Fault, Handle, EndRun, Dispatch, Crash, DamageStream, CallsKept, host,
         interface
<1>3. Shutdown => CallsKept
  BY DEF Shutdown, CallsKept, interface
<1>4. ASSUME NEW op \in {"start", "restart"}, Ask(op) PROVE Asked
  BY <1>4 DEF Ask, Asked, host, interface
<1>5. ASSUME NEW q \in Requests, RunGraph(q) PROVE Opened(q)
  BY <1>1, <1>5 DEF RunGraph, Opened, Others, host
<1>6. ASSUME NEW q \in Requests, ValidationReturns(q) PROVE Validated(q)
  BY <1>1, <1>6 DEF ValidationReturns, Settle, Validated, Others, host
<1>7. HearStale \/ HearEvent => CallsKept
  BY DEF HearStale, HearEvent, CallsKept, host, interface
<1>8. UNCHANGED vars => CallsKept
  BY DEF vars, CallsKept, host, interface
<1>9. ASSUME answers # <<>>, NEW a, a = Head(answers), StartReturns(a) \/ LifecycleReturns(a)
      PROVE \E b \in Answers : Read(b)
  <2>1. a \in Answers
    BY <1>9, TailFacts DEF HostInv, ChannelTypes
  <2>2. CASE StartReturns(a)
    <3>1. a.request \in Requests
      BY <2>1, <2>2 DEF StartReturns, Answers
    <3> QED
      BY <1>1, <1>9, <2>1, <2>2, <3>1 DEF StartReturns, Settle, Read, Others, host
  <2>3. CASE LifecycleReturns(a)
    <3>1. a.request \notin Requests
      BY <2>1, <2>3, SupervisorAssumption DEF LifecycleReturns, Answers
    <3> QED
      BY <1>9, <2>1, <2>3, <3>1 DEF LifecycleReturns, Read, Others, host
  <2> QED
    BY <1>9, <2>2, <2>3
<1> QED
  BY <1>1, <1>2, <1>3, <1>4, <1>5, <1>6, <1>7, <1>8, <1>9, HostCallCases
     DEF Next, InterfaceStep, User

(* A request that is written is in the pipe of the current generation,     *)
(* and nowhere else.                                                       *)
LEMMA RequestWrittenTraces ==
  ASSUME HostInv, OneTrace, NEW c \in Command, RequestWritten(c),
         Untouched(generation, c.request)
  PROVE  /\ OneTrace' /\ c.request \in Requests
         /\ \A g \in Generations : \A q \in Requests :
              \/ g = generation /\ q = c.request
              \/ (Untouched(g, q) => Untouched(g, q)') /\ (Due(g, q)' => Due(g, q))
<1>1. c.request \in Requests /\ generation \in Generations
  BY DEF RequestWritten, Command, HostInv, Supervised, TypeOK, Generations, NoOrphan
<1> SUFFICES ASSUME NEW h \in Generations, NEW q \in Requests
    PROVE  /\ OneTraceOf(h, q)'
           /\ \/ h = generation /\ q = c.request
              \/ (Untouched(h, q) => Untouched(h, q)') /\ (Due(h, q)' => Due(h, q))
  BY <1>1 DEF OneTrace
<1>2. OneTraceOf(h, q)
  BY DEF OneTrace
<1>3. stdin \in [Generations -> Seq(Requests)]
  BY DEF HostInv, ChannelTypes
<1>4. /\ stdin' = [stdin EXCEPT ![generation] = Append(@, c.request)]
      /\ UNCHANGED <<stdout, run, mailbox, events>>
  BY DEF RequestWritten
<1>5. /\ \A S : Absent(Append(stdin[generation], c.request), S)
           <=> Absent(stdin[generation], S) /\ c.request \notin S
      /\ \A S : Once(stdin[generation], S) /\ (c.request \in S => Absent(stdin[generation], S))
           => Once(Append(stdin[generation], c.request), S)
  BY <1>3, <1>1, AppendFacts
<1>6. CASE h # generation
  BY <1>2, <1>3, <1>4, <1>6 DEF OneTraceOf, Untouched, Due, Parked
<1>7. CASE h = generation /\ q # c.request
  BY <1>2, <1>3, <1>4, <1>5, <1>1, <1>7 DEF OneTraceOf, Untouched, Due, Parked
<1>8. CASE h = generation /\ q = c.request
  BY <1>2, <1>3, <1>4, <1>5, <1>1, <1>8 DEF OneTraceOf, Untouched, Due, Parked
<1> QED
  BY <1>1, <1>2, <1>3, <1>4, <1>5, <1>6, <1>7, <1>8

(* Once a request is answered from the mailbox, its response is due        *)
(* nowhere.                                                                *)
LEMMA AnsweredIsNotDue ==
  ASSUME HostInv, SentOnce, OneTrace, RequestAnswered, NEW g \in Generations, NEW q \in Requests,
         call.request = q
  PROVE  ~Due(g, q)'
<1>1. generation \in Generations /\ mailbox \in [Generations -> Mailbox]
  BY CallIsCommand DEF RequestAnswered, HostInv, TypeOK
<1>2. PICK r \in Own : mailbox' = [mailbox EXCEPT ![generation].responses = @ \ {r}]
  BY DEF RequestAnswered
<1>3. UNCHANGED <<stdin, stdout>>
  BY DEF RequestAnswered, sidecars
<1>4. CASE g # generation
  <2>1. Untouched(g, q)
    BY <1>4 DEF SentOnce, SentOnceOf
  <2>2. Parked(g, q)' = Parked(g, q)
    BY <1>1, <1>2, <1>4 DEF Parked, Mailbox
  <2> QED
    BY <1>3, <2>1, <2>2 DEF Due, Untouched
<1>5. CASE g = generation
  <2>1. OneTraceOf(g, q)
    BY DEF OneTrace
  <2>2. r \in Parked(g, q)
    BY <1>2, <1>5 DEF Own, Parked
  <2>3. Parked(g, q)' = Parked(g, q) \ {r}
    BY <1>1, <1>2, <1>5 DEF Parked, Mailbox
  <2> QED
    BY <1>3, <2>1, <2>2, <2>3 DEF OneTraceOf, Due
<1> QED
  BY <1>4, <1>5

(* What the calls have become, and where their traces are, agree after     *)
(* every step.                                                             *)
LEMMA CallStep ==
  ASSUME HostInv, TraceInv, [Next]_vars
  PROVE  SentOnce' /\ DueOrGivenUp'
<1> SUFFICES ASSUME NEW q \in Requests
    PROVE  SentOnceOf(q)' /\ \A g \in Generations : Due(g, q)' => (call.request = q)'
             \/ GivenUp(q)'
  BY DEF SentOnce, DueOrGivenUp
<1>1. SentOnceOf(q) /\ OneTrace /\ q # NoRequest
  BY SupervisorAssumption DEF TraceInv, SentOnce
<1>2. \A g \in Generations : Due(g, q) => call.request = q \/ GivenUp(q)
  BY DEF TraceInv, DueOrGivenUp
<1>3. /\ commands \in Seq(Command) /\ answers \in Seq(Answers) /\ Idle.request = NoRequest
      /\ attempt \in [Requests -> [state : {"fresh", "validating", "waiting", "settled", "failed"},
                                  generation : Generation0]]
  BY DEF HostInv, ChannelTypes, Idle
<1>4. \A c \in Command : c \in CommandsOf(q) <=> c.request = q
  BY DEF CommandsOf
<1>5. \A r \in Answers : r \in AnswersTo(q) <=> r.request = q
  BY DEF AnswersTo
<1>6. ASSUME ~RequestWrittenStep
      PROVE \A g \in Generations : (Untouched(g, q) => Untouched(g, q)')
        /\ (Due(g, q)' => Due(g, q))
  BY <1>1, <1>6, TraceStep DEF TracesKept
<1>7. \A g \in Generations : Untouched(g, q) => ~Due(g, q)
  BY DEF Untouched, Due
<1>8. RequestWrittenStep => call = Idle /\ call'.request \in Requests /\ call' = Head(commands)
      /\ commands # <<>> /\ generation' = generation
  <2>1. commands # <<>> => Head(commands) \in Command
    BY <1>3, TailFacts
  <2> QED
    BY <2>1 DEF RequestWrittenStep, RequestWritten, Take, Command
<1>9. ASSUME NEW r \in Answers, answers' = Append(answers, r)
      PROVE  /\ Absent(answers', AnswersTo(q)) <=> Absent(answers, AnswersTo(q))
                  /\ r.request # q
             /\ Once(answers, AnswersTo(q)) /\ (r.request = q => Absent(answers, AnswersTo(q)))
                  => Once(answers', AnswersTo(q))
             /\ attempt' = attempt /\ GivenUp(q) => GivenUp(q)'
             /\ ~r.ok /\ r.request = q => GivenUp(q)'
  <2>1. /\ Absent(answers', AnswersTo(q)) <=> Absent(answers, AnswersTo(q)) /\ r.request # q
        /\ Once(answers, AnswersTo(q)) /\ (r.request = q => Absent(answers, AnswersTo(q)))
             => Once(answers', AnswersTo(q))
    BY <1>3, <1>5, <1>9, AppendFacts
  <2>2. /\ \A i \in DOMAIN answers : i \in DOMAIN answers' /\ answers'[i] = answers[i]
        /\ Len(answers) + 1 \in DOMAIN answers' /\ answers'[Len(answers) + 1] = r
    BY <1>3, <1>9, AppendIndex
  <2> QED
    BY <2>1, <2>2 DEF GivenUp
<1>10. ASSUME NEW c \in Command, commands' = Append(commands, c)
       PROVE  /\ Absent(commands', CommandsOf(q)) <=> Absent(commands, CommandsOf(q))
                   /\ c.request # q
              /\ Once(commands, CommandsOf(q))
                   /\ (c.request = q => Absent(commands, CommandsOf(q)))
                   => Once(commands', CommandsOf(q))
  BY <1>3, <1>4, <1>10, AppendFacts
<1>11. ASSUME commands # <<>>, commands' = Tail(commands)
       PROVE  /\ Head(commands) \in Command
              /\ Absent(commands, CommandsOf(q)) <=> Absent(commands', CommandsOf(q))
                   /\ Head(commands).request # q
              /\ Once(commands, CommandsOf(q)) =>
                   Once(commands', CommandsOf(q))
                     /\ (Head(commands).request = q => Absent(commands', CommandsOf(q)))
  BY <1>3, <1>4, <1>11, TailFacts
<1>12. CASE CallsKept
  <2>1. ~RequestWrittenStep
    BY <1>8, <1>12, <1>3, SupervisorAssumption DEF CallsKept
  <2> QED
    BY <1>1, <1>2, <1>6, <1>12, <2>1 DEF CallsKept, SentOnceOf, GivenUp
<1>13. ASSUME NEW r \in Answers, Served(r)
       PROVE SentOnceOf(q)' /\ \A g \in Generations : Due(g, q)' => (call.request = q)'
         \/ GivenUp(q)'
  <2>1. call'.request = NoRequest /\ ~RequestWrittenStep
    BY <1>13, <1>8, <1>3, SupervisorAssumption DEF Served
  <2>2. SentOnceOf(q)'
    BY <1>1, <1>6, <2>1, <1>13, <1>9 DEF Served, SentOnceOf
  <2>3. ASSUME NEW g \in Generations, Due(g, q)' PROVE GivenUp(q)'
    <3>1. CASE call.request # q
      BY <1>2, <1>6, <2>1, <1>13, <2>3, <3>1, <1>9 DEF Served
    <3>2. CASE call.request = q /\ ~r.ok
      BY <1>13, <3>2, <1>9 DEF Served
    <3>3. CASE call.request = q /\ r.ok
      <4>1. RequestAnswered /\ SentOnce
        BY <1>13, <3>3 DEF Served, TraceInv
      <4> QED
        BY <4>1, <1>1, <3>3, <2>3, AnsweredIsNotDue
    <3> QED
      BY <3>1, <3>2, <3>3, <1>13 DEF Answers, Served
  <2> QED
    BY <2>2, <2>3
<1>14. ASSUME NEW r \in Answers, Refused(r)
       PROVE SentOnceOf(q)' /\ \A g \in Generations : Due(g, q)' => (call.request = q)'
         \/ GivenUp(q)'
  <2>1. ~RequestWrittenStep /\ call.request = NoRequest
    BY <1>14, <1>8, <1>3, SupervisorAssumption DEF Refused
  <2>2. SentOnceOf(q)'
    BY <1>1, <1>6, <2>1, <1>14, <1>9, <1>11 DEF Refused, SentOnceOf
  <2> QED
    BY <2>2, <1>1, <1>2, <1>6, <2>1, <1>14, <1>9 DEF Refused
<1>15. CASE Taken /\ ~RequestWrittenStep
  <2>1. call'.request # q /\ call.request # q
    BY <1>15, <1>1, <1>3 DEF Taken
  <2>2. UNCHANGED <<answers, attempt>> /\ (GivenUp(q) => GivenUp(q)')
    BY <1>15 DEF Taken, GivenUp
  <2>3. SentOnceOf(q)'
    BY <1>1, <1>6, <2>1, <1>15, <2>2, <1>11 DEF Taken, SentOnceOf
  <2> QED
    BY <2>3, <2>1, <2>2, <1>2, <1>6, <1>15
<1>16. CASE Taken /\ RequestWrittenStep
  <2> DEFINE c == Head(commands)
  <2>1. c \in Command /\ RequestWritten(c) /\ call' = c /\ c.request \in Requests
          /\ generation' = generation
    BY <1>16, <1>8, <1>11 DEF Taken, RequestWrittenStep
  <2>2. call.request # q /\ UNCHANGED <<answers, attempt>> /\ (GivenUp(q) => GivenUp(q)')
    BY <1>16, <1>1, <1>3 DEF Taken, GivenUp
  <2>3. c.request = q => ~Absent(commands, CommandsOf(q))
    BY <1>16, <1>11 DEF Taken
  <2>4. Untouched(generation, c.request)
    <3>1. ~Absent(commands, CommandsOf(c.request))
      BY <2>1, <1>16, <1>3, TailFacts DEF Taken, CommandsOf
    <3>2. SentOnceOf(c.request) /\ generation \in Generations
      BY <2>1
         DEF TraceInv, SentOnce, RequestWritten, HostInv, Supervised, TypeOK, Generations
    <3> QED
      BY <3>1, <3>2 DEF SentOnceOf
  <2>5. \A g \in Generations :
        \/ g = generation /\ q = c.request
        \/ (Untouched(g, q) => Untouched(g, q)') /\ (Due(g, q)' => Due(g, q))
    BY <1>1, <2>1, <2>4, RequestWrittenTraces
  <2> HIDE DEF c
  <2>6. SentOnceOf(q)'
    <3>1. CASE c.request = q
      BY <1>1, <2>1, <2>2, <2>3, <2>5, <1>11, <1>16, <3>1 DEF Taken, SentOnceOf, c
    <3>2. CASE c.request # q
      BY <1>1, <2>1, <2>2, <2>5, <1>11, <1>16, <3>2 DEF Taken, SentOnceOf, c
    <3> QED
      BY <3>1, <3>2
  <2> QED
    BY <2>6, <2>2, <1>2, <2>5, <2>1
<1>17. CASE Asked
  <2>1. ~RequestWrittenStep
    BY <1>17, <1>8, <1>3, SupervisorAssumption DEF Asked
  <2>2. PICK c \in Command : commands' = Append(commands, c) /\ c.request = NoRequest
    BY <1>17 DEF Asked, Command
  <2> QED
    BY <1>1, <1>2, <1>6, <2>1, <2>2, <1>17, <1>10 DEF Asked, SentOnceOf, GivenUp
<1>18. ASSUME NEW p \in Requests, Opened(p)
       PROVE SentOnceOf(q)' /\ \A g \in Generations : Due(g, q)' => (call.request = q)'
         \/ GivenUp(q)'
  <2>1. ~RequestWrittenStep
    BY <1>18, <1>8, <1>3, SupervisorAssumption DEF Opened
  <2>2. CASE p # q
    BY <1>1, <1>2, <1>6, <2>1, <1>18, <2>2 DEF Opened, Others, SentOnceOf, GivenUp
  <2>3. CASE p = q
    BY <1>1, <1>7, <1>6, <2>1, <1>18, <2>3 DEF Opened, Others, SentOnceOf
  <2> QED
    BY <2>2, <2>3
<1>19. ASSUME NEW p \in Requests, Validated(p)
       PROVE SentOnceOf(q)' /\ \A g \in Generations : Due(g, q)' => (call.request = q)'
         \/ GivenUp(q)'
  <2>1. ~RequestWrittenStep
    BY <1>19, <1>8, <1>3, SupervisorAssumption DEF Validated
  <2>2. commands' = commands \/ \E c \in Command : commands' = Append(commands, c)
          /\ c.request = p
    BY <1>19 DEF Validated, Command
  <2>3. CASE p # q
    <3>1. attempt'[q] = attempt[q] /\ (GivenUp(q) => GivenUp(q)')
            /\ UNCHANGED <<generation, answers, call>>
      BY <1>19, <2>3 DEF Validated, Others, GivenUp
    <3> QED
      BY <1>1, <1>2, <1>6, <2>1, <2>2, <1>10, <2>3, <3>1 DEF SentOnceOf
  <2>4. CASE p = q
    BY <1>1, <1>7, <1>6, <2>1, <2>2, <1>10, <1>19, <2>4 DEF Validated, SentOnceOf
  <2> QED
    BY <2>3, <2>4
<1>20. ASSUME NEW a \in Answers, Read(a)
       PROVE SentOnceOf(q)' /\ \A g \in Generations : Due(g, q)' => (call.request = q)'
         \/ GivenUp(q)'
  <2>1. ~RequestWrittenStep
    BY <1>20, <1>8, <1>3, SupervisorAssumption DEF Read
  <2>2. /\ Absent(answers, AnswersTo(q)) <=> Absent(answers', AnswersTo(q)) /\ a.request # q
        /\ Once(answers, AnswersTo(q)) =>
             Once(answers', AnswersTo(q)) /\ (a.request = q => Absent(answers', AnswersTo(q)))
    BY <1>3, <1>5, <1>20, TailFacts DEF Read
  <2>3. /\ \A i \in DOMAIN answers' : i + 1 \in DOMAIN answers /\ answers'[i] = answers[i + 1]
        /\ \A i \in DOMAIN answers : i = 1
             \/ (i - 1 \in DOMAIN answers' /\ answers'[i - 1] = answers[i])
        /\ a = answers[1] /\ 1 \in DOMAIN answers
    BY <1>3, <1>20, TailIndex DEF Read
  <2>4. CASE a.request # q
    <3>1. attempt'[q] = attempt[q]
      BY <1>20, <2>4, <1>3 DEF Read, Others
    <3>2. GivenUp(q) => GivenUp(q)'
      BY <3>1, <2>3, <2>4 DEF GivenUp
    <3> QED
      BY <1>1, <1>2, <1>6, <2>1, <1>20, <2>2, <2>4, <3>1, <3>2 DEF Read, SentOnceOf
  <2>5. CASE a.request = q
    <3>1. attempt[q].state = "waiting" /\ call.request # q
      BY <1>1, <2>2, <2>5 DEF SentOnceOf
    <3>2. attempt'[q].state = IF a.ok THEN "settled" ELSE "failed"
      BY <1>20, <2>5 DEF Read
    <3>3. a.ok => ~GivenUp(q)
      <4>1. \A i \in DOMAIN answers : answers[i] \in Answers
        BY <1>3, ElementOfSeq, LenProperties
      <4> QED
        BY <1>1, <3>1, <2>3, <2>5, <4>1, <1>5 DEF GivenUp, SentOnceOf, Once
    <3>4. SentOnceOf(q)'
      BY <1>1, <1>6, <2>1, <1>20, <2>2, <2>5, <3>1, <3>2 DEF Read, SentOnceOf
    <3>5. ~a.ok => GivenUp(q)'
      BY <3>2 DEF GivenUp
    <3> QED
      BY <3>4, <3>5, <3>3, <3>1, <1>2, <1>6, <2>1
  <2> QED
    BY <2>4, <2>5
<1> QED
  BY <1>12, <1>13, <1>14, <1>15, <1>16, <1>17, <1>18, <1>19, <1>20, CallCases

-----------------------------------------------------------------------------

\* A request is in the pipe of g, or executing there.
Lives(g, q) == ~Absent(stdin[g], {q}) \/ run[g] = q

RunsOnlyEnd == stdin' = stdin /\ \A g \in Generations : run'[g] \in {run[g], NoRequest}

(* Runs only end, except where a request is taken from a pipe or written   *)
(* to one.                                                                 *)
LEMMA RunCases ==
  ASSUME HostInv, [Next]_vars
  PROVE  RunsOnlyEnd \/ RequestWrittenStep \/ \E h \in Generations : Handle(h)
<1>1. run \in [Generations -> Request0]
  BY DEF HostInv, TypeOK, Request0
<1>2. StopProcess => \A g \in Generations : run'[g] \in {run[g], NoRequest}
  BY <1>1 DEF StopProcess
<1>3. ASSUME commands # <<>>, NEW c, c = Head(commands),
             StartReady(c) \/ Start(c) \/ RequestRefused(c) \/ RequestWritten(c)
      PROVE  RunsOnlyEnd \/ RequestWrittenStep
  <2>1. CASE StartReady(c) \/ RequestRefused(c)
    BY <2>1 DEF StartReady, RequestRefused, sidecars, RunsOnlyEnd
  <2>2. CASE Start(c)
    BY <1>2, <2>2 DEF Start, RunsOnlyEnd
  <2>3. CASE RequestWritten(c)
    BY <1>3, <2>3 DEF RequestWrittenStep
  <2> QED
    BY <1>3, <2>1, <2>2, <2>3
<1>4. Spawn \/ SpawnFails \/ HandshakeSucceeds \/ RequestAnswered \/ RequestFails => RunsOnlyEnd
  BY DEF Spawn, SpawnFails, HandshakeSucceeds, RequestAnswered, RequestFails, sidecars,
         RunsOnlyEnd
<1>5. HandshakeFails \/ RequestLost \/ Shutdown => RunsOnlyEnd
  BY <1>2 DEF HandshakeFails, RequestLost, Shutdown, RunsOnlyEnd
<1>6. ASSUME NEW h \in Generations, SidecarStep(h) \/ Fault(h) PROVE RunsOnlyEnd \/ Handle(h)
  <2>1. CASE EndRun(h) \/ Crash(h)
    BY <1>1, <2>1 DEF EndRun, Crash, RunsOnlyEnd
  <2>2. CASE Dispatch(h) \/ DamageStream(h)
    BY <2>2 DEF Dispatch, DamageStream, RunsOnlyEnd
  <2> QED
    BY <1>6, <2>1, <2>2 DEF SidecarStep, Fault
<1>7. InterfaceStep \/ UNCHANGED vars => RunsOnlyEnd
  BY DEF InterfaceStep, StartReturns, LifecycleReturns, HearStale, HearEvent,
         ValidationReturns, sidecars, vars, RunsOnlyEnd
<1>8. (\E q \in Requests : RunGraph(q)) \/ (\E op \in {"start", "restart"} : Ask(op))
        => RunsOnlyEnd
  BY DEF RunGraph, Ask, sidecars, RunsOnlyEnd
<1> QED
  BY <1>1, <1>2, <1>3, <1>4, <1>5, <1>6, <1>7, <1>8 DEF Next, HostStep, User

(* A request gets into a runtime only by being written to it.              *)
LEMMA LivesStep ==
  ASSUME HostInv, [Next]_vars, NEW g \in Generations, NEW q \in Requests, Lives(g, q)'
  PROVE  Lives(g, q) \/ (RequestWrittenStep /\ Head(commands).request = q)
<1>1. q # NoRequest /\ stdin \in [Generations -> Seq(Requests)]
        /\ run \in [Generations -> Request0]
  BY SupervisorAssumption DEF HostInv, ChannelTypes, TypeOK, Request0
<1>2. CASE RunsOnlyEnd
  BY <1>1, <1>2 DEF RunsOnlyEnd, Lives
<1>3. ASSUME NEW h \in Generations, Handle(h) PROVE Lives(g, q)
  <2> DEFINE p == Head(stdin[h])
  <2>1. stdin[h] # <<>> /\ stdin' = [stdin EXCEPT ![h] = Tail(@)]
          /\ (run' = run \/ run' = [run EXCEPT ![h] = p])
    BY <1>3 DEF Handle
  <2>2. \A S : Absent(stdin[h], S) <=> Absent(stdin'[h], S) /\ p \notin S
    BY <1>1, <2>1, TailFacts
  <2> HIDE DEF p
  <2> QED
    BY <1>1, <2>1, <2>2 DEF Lives
<1>4. CASE RequestWrittenStep
  <2> DEFINE c == Head(commands)
  <2>1. stdin' = [stdin EXCEPT ![generation] = Append(@, c.request)] /\ run' = run
          /\ c.op = "request"
        /\ commands # <<>>
    BY <1>4 DEF RequestWrittenStep, RequestWritten
  <2>2. c \in Command
    BY <2>1, TailFacts DEF HostInv, ChannelTypes
  <2> HIDE DEF c
  <2>3. c.request \in Requests
    BY <2>1, <2>2, SupervisorAssumption DEF Command
  <2>4. generation \in Generations => \A S : Absent(Append(stdin[generation], c.request), S)
          <=> Absent(stdin[generation], S) /\ c.request \notin S
    BY <1>1, <2>3, AppendFacts
  <2> QED
    BY <1>1, <2>1, <2>4, <1>4 DEF Lives, c
<1> QED
  BY <1>2, <1>3, <1>4, RunCases

(* What an attempt to run drops is its own view: no other is starting in   *)
(* its generation.                                                         *)
LEMMA OwnViewDropped ==
  ASSUME HostInv, Released, PendingIsShown, NEW p \in Requests,
         attempt[p].state \in {"validating", "waiting"}, FailToStart(attempt[p].generation)
  PROVE  UNCHANGED view \/ (view.request = p /\ view.state = "starting")
<1>1. CASE view.generation = attempt[p].generation /\ view.state = "starting"
  <2>1. view.generation = status.generation
    BY <1>1 DEF Released, Active
  <2>2. view = [state |-> "starting", request |-> p, generation |-> status.generation]
    BY <1>1, <2>1 DEF PendingIsShown
  <2> QED
    BY <2>2
<1>2. CASE ~(view.generation = attempt[p].generation /\ view.state = "starting")
  BY <1>2 DEF FailToStart
<1> QED
  BY <1>1, <1>2

(* The request of an answer is one runGraph waits for.                     *)
LEMMA AnswerIsWaitedFor ==
  ASSUME HostInv, SentOnce, answers # <<>>, NEW a, a = Head(answers), StartReturns(a)
  PROVE  a.request \in Requests /\ attempt[a.request].state = "waiting"
<1>1. a \in Answers /\ a = answers[1] /\ 1 \in DOMAIN answers
  BY TailIndex DEF HostInv, ChannelTypes
<1>2. a.request \in Requests
  BY <1>1 DEF StartReturns, Answers
<1>3. ~Absent(answers, AnswersTo(a.request))
  BY <1>1, <1>2 DEF Absent, AnswersTo
<1> QED
  BY <1>2, <1>3 DEF SentOnce, SentOnceOf

(* A status of another generation is of a later one, in which nothing      *)
(* was attempted yet.                                                      *)
LEMMA LaterStatus ==
  ASSUME HostInv, StatusesInOrder, answers # <<>>, NEW a, a = Head(answers), LifecycleReturns(a)
  PROVE  \/ UNCHANGED <<status, view, attempt>>
         \/ UNCHANGED <<view, attempt>> /\ status'.generation = status.generation
         \/ attempt' = attempt /\ \A q \in Requests : attempt[q].generation # status'.generation
<1>1. /\ status.generation \in Nat /\ \A q \in Requests : attempt[q].generation \in Nat
      /\ \A b \in Answers : b.generation \in Nat
  BY SupervisorAssumption DEF HostInv, ChannelTypes, Generation0, Answers
<1>2. a \in Answers /\ a = answers[1] /\ 1 \in DOMAIN answers
  BY TailIndex DEF HostInv, ChannelTypes
<1>3. attempt' = attempt /\ (UNCHANGED <<status, view>> \/ AcceptStatus(a.generation, a.state))
  BY DEF LifecycleReturns
<1>4. status.generation <= a.generation
        /\ \A q \in Requests : attempt[q].generation <= status.generation
  BY <1>2 DEF StatusesInOrder
<1>5. AcceptStatus(a.generation, a.state) =>
      /\ status'.generation = a.generation
      /\ a.generation = status.generation => view' = view
  BY DEF AcceptStatus
<1>6. CASE a.generation = status.generation
  BY <1>3, <1>5, <1>6
<1>7. CASE a.generation # status.generation
  BY <1>1, <1>2, <1>3, <1>4, <1>5, <1>7
<1> QED
  BY <1>6, <1>7

(* The run shown as starting is the one runGraph waits for.                *)
LEMMA PendingStep ==
  ASSUME HostInv, SentOnce, Released, StatusesInOrder, PendingIsShown, [Next]_vars
  PROVE  PendingIsShown'
<1> SUFFICES ASSUME NEW q \in Requests, attempt'[q].state \in {"validating", "waiting"},
                    attempt'[q].generation = status'.generation
    PROVE  view' = [state |-> "starting", request |-> q, generation |-> status'.generation]
  BY DEF PendingIsShown
<1>1. /\ attempt \in [Requests -> [state : {"fresh", "validating", "waiting", "settled", "failed"},
                                  generation : Generation0]]
      /\ view \in Views
  BY DEF HostInv, ChannelTypes
<1>2. attempt[q].state \in {"validating", "waiting"}
        /\ attempt[q].generation = status.generation
      => view = [state |-> "starting", request |-> q, generation |-> status.generation]
  BY DEF PendingIsShown
<1>3. CASE UNCHANGED interface
  BY <1>2, <1>3 DEF interface
<1>4. ASSUME answers # <<>>, NEW a, a = Head(answers), StartReturns(a)
      PROVE  view' = [state |-> "starting", request |-> q, generation |-> status'.generation]
  <2>1. a.request \in Requests /\ attempt[a.request].state = "waiting"
    BY <1>4, AnswerIsWaitedFor
  <2>2. a.request # q /\ attempt'[q] = attempt[q] /\ status' = status
    BY <1>4, <2>1, <1>1 DEF StartReturns, Settle
  <2>3. view = [state |-> "starting", request |-> q, generation |-> status.generation]
    BY <1>2, <2>2
  <2>4. view.request # a.request
    BY <2>2, <2>3
  <2>5. ~Current(a.request)
    BY <2>1, <2>4 DEF Current, PendingIsShown
  <2>6. FailToStart(attempt[a.request].generation)
    BY <1>4, <2>5 DEF StartReturns
  <2>7. view' = view
    BY <2>1, <2>6, <2>4, OwnViewDropped
  <2> QED
    BY <2>2, <2>3, <2>7
<1>5. ASSUME answers # <<>>, NEW a, a = Head(answers), LifecycleReturns(a)
      PROVE  view' = [state |-> "starting", request |-> q, generation |-> status'.generation]
  BY <1>2, <1>5, LaterStatus
<1>6. CASE HearEvent
  <2>1. UNCHANGED <<status, attempt>> /\ (view.state = "starting" => view' = view)
    BY <1>6 DEF HearEvent
  <2> QED
    BY <1>2, <2>1
<1>7. ASSUME NEW p \in Requests, ValidationReturns(p)
      PROVE  view' = [state |-> "starting", request |-> q, generation |-> status'.generation]
  <2>1. attempt[p].state = "validating" /\ status' = status
    BY <1>7 DEF ValidationReturns
  <2>2. CASE p # q
    <3>1. attempt'[q] = attempt[q]
            /\ view = [state |-> "starting", request |-> q, generation |-> status.generation]
      BY <1>7, <2>1, <1>1, <1>2, <2>2 DEF ValidationReturns, Settle
    <3>2. view.request # p /\ (view' = view \/ FailToStart(attempt[p].generation))
      BY <1>7, <3>1, <2>2 DEF ValidationReturns
    <3>3. view' = view
      BY <2>1, <3>2, OwnViewDropped
    <3> QED
      BY <2>1, <3>1, <3>3
  <2>3. CASE p = q
    BY <1>7, <2>1, <1>1, <1>2, <2>3 DEF ValidationReturns, Settle
  <2> QED
    BY <2>2, <2>3
<1>8. ASSUME NEW p \in Requests, RunGraph(p)
      PROVE  view' = [state |-> "starting", request |-> q, generation |-> status'.generation]
  <2>1. p = q
    BY <1>8, <1>1, <1>2 DEF RunGraph, Active
  <2> QED
    BY <1>8, <2>1 DEF RunGraph
<1> QED
  BY <1>3, <1>4, <1>5, <1>6, <1>7, <1>8, InterfaceCases

(* A request that is in a runtime of the known generation, and not given   *)
(* up, is the run shown.                                                   *)
LEMMA WrittenStep ==
  ASSUME HostInv, SentOnce, OneTrace, Released, StatusesInOrder, PendingIsShown, WrittenIsShown,
         [Next]_vars
  PROVE  WrittenIsShown'
<1> SUFFICES ASSUME NEW g \in Generations, NEW q \in Requests, Lives(g, q)', attempt'[q].generation = g,
                    attempt'[q].state # "failed", status'.generation = g
    PROVE  view'.request = q /\ view'.generation = g /\ Active(view')
  BY DEF WrittenIsShown, Lives, Active
<1>1. /\ attempt \in [Requests -> [state : {"fresh", "validating", "waiting", "settled", "failed"},
                                  generation : Generation0]]
      /\ view \in Views
  BY DEF HostInv, ChannelTypes
<1>2. Lives(g, q) /\ attempt[q].generation = g /\ attempt[q].state # "failed"
        /\ status.generation = g
      => view.request = q /\ view.generation = g /\ Active(view)
  BY DEF WrittenIsShown, Lives
<1>3. CASE RequestWrittenStep /\ Head(commands).request = q
  <2>1. UNCHANGED interface
    BY <1>3 DEF RequestWrittenStep, RequestWritten
  <2>2. commands # <<>> /\ Head(commands) = commands[1] /\ 1 \in DOMAIN commands
          /\ commands[1] \in Command
    BY <1>3, TailIndex DEF RequestWrittenStep, HostInv, ChannelTypes
  <2>3. ~Absent(commands, CommandsOf(q))
    BY <1>3, <2>2 DEF Absent, CommandsOf
  <2>4. attempt[q].state = "waiting"
    BY <2>3 DEF SentOnce, SentOnceOf
  <2> QED
    BY <2>1, <2>4 DEF interface, PendingIsShown, Active
<1> SUFFICES ASSUME Lives(g, q) PROVE view'.request = q /\ view'.generation = g /\ Active(view')
  BY <1>3, LivesStep
<1>4. ~Untouched(g, q)
  BY DEF Untouched, Lives
<1>5. attempt[q].state \notin {"fresh", "validating"}
  BY <1>4 DEF SentOnce, SentOnceOf
<1>6. CASE UNCHANGED interface
  BY <1>2, <1>6 DEF interface, Active
<1>7. ASSUME answers # <<>>, NEW a, a = Head(answers), StartReturns(a)
      PROVE  view'.request = q /\ view'.generation = g /\ Active(view')
  <2>1. a.request \in Requests /\ attempt[a.request].state = "waiting" /\ status' = status
    BY <1>7, AnswerIsWaitedFor DEF StartReturns
  <2>2. attempt[q].generation = g /\ attempt[q].state # "failed"
    BY <1>7, <2>1, <1>1 DEF StartReturns, Settle
  <2>3. view.request = q /\ view.generation = g /\ Active(view)
    BY <1>2, <2>2, <2>1
  <2>4. CASE a.ok /\ Current(a.request) /\ view.state = "starting"
    BY <1>7, <2>3, <1>1, <2>4 DEF StartReturns, AcceptRun, Active, Views
  <2>5. CASE ~(a.ok /\ Current(a.request) /\ view.state = "starting")
    <3>1. FailToStart(attempt[a.request].generation)
      BY <1>7, <2>5 DEF StartReturns
    <3>2. CASE a.request # q
      BY <2>1, <3>1, <2>3, <3>2, OwnViewDropped DEF Active
    <3>3. CASE a.request = q
      <4>1. a.ok
        BY <1>7, <3>3, <1>1 DEF StartReturns, Settle
      <4>2. view = [state |-> "starting", request |-> q, generation |-> status.generation]
        BY <2>1, <2>2, <3>3 DEF PendingIsShown
      <4> QED
        BY <4>1, <4>2, <2>2, <2>1, <3>3, <2>5 DEF Current
    <3> QED
      BY <3>2, <3>3
  <2> QED
    BY <2>4, <2>5
<1>8. ASSUME answers # <<>>, NEW a, a = Head(answers), LifecycleReturns(a)
      PROVE  view'.request = q /\ view'.generation = g /\ Active(view')
  BY <1>2, <1>8, LaterStatus DEF Active
<1>9. CASE HearEvent
  <2> DEFINE e == Head(events)
  <2>1. e \in Events /\ e = events[1] /\ 1 \in DOMAIN events
    BY <1>9, TailIndex DEF HearEvent, HostInv, ChannelTypes
  <2>2. Absent(events, EndEvents(g, q))
    BY DEF OneTrace, OneTraceOf, Lives
  <2>3. ~(e.kind = "ended" /\ e.request = q /\ e.generation = g)
    BY <2>1, <2>2 DEF Absent, EndEvents
  <2>4. view.request = q /\ view.generation = g /\ Active(view)
    BY <1>9, <1>2 DEF HearEvent
  <2>5. view' = view
          \/ (e.kind = "ended" /\ view.request = e.request /\ view.generation = e.generation)
    BY <1>9 DEF HearEvent
  <2> HIDE DEF e
  <2> QED
    BY <2>3, <2>4, <2>5
<1>10. ASSUME NEW p \in Requests, ValidationReturns(p)
       PROVE  view'.request = q /\ view'.generation = g /\ Active(view')
  <2>1. attempt[p].state = "validating" /\ status' = status /\ p # q
    BY <1>10, <1>5 DEF ValidationReturns
  <2>2. attempt'[q] = attempt[q]
    BY <1>10, <2>1, <1>1 DEF ValidationReturns, Settle
  <2>3. view.request = q /\ view.generation = g /\ Active(view)
    BY <1>2, <2>1, <2>2
  <2>4. view' = view \/ FailToStart(attempt[p].generation)
    BY <1>10 DEF ValidationReturns
  <2> QED
    BY <2>1, <2>3, <2>4, OwnViewDropped
<1>11. ASSUME NEW p \in Requests, RunGraph(p)
       PROVE  view'.request = q /\ view'.generation = g /\ Active(view')
  <2>1. p # q /\ attempt'[q] = attempt[q] /\ status' = status /\ ~Active(view)
    BY <1>11, <1>5, <1>1 DEF RunGraph
  <2> QED
    BY <2>1, <1>2
<1> QED
  BY <1>6, <1>7, <1>8, <1>9, <1>10, <1>11, InterfaceCases

-----------------------------------------------------------------------------

(* Initially every channel is empty and nothing has been asked.            *)
LEMMA InitTraces == Init => TraceInv /\ ViewInv /\ ShownInv
<1> SUFFICES ASSUME Init PROVE TraceInv /\ ViewInv /\ ShownInv
  OBVIOUS
<1>1. \A S : Absent(<<>>, S) /\ Once(<<>>, S)
  BY DEF Absent, Once
<1>2. /\ commands = <<>> /\ answers = <<>> /\ events = <<>> /\ call.request = NoRequest
      /\ \A g \in Generations : /\ stdin[g] = <<>> /\ stdout[g] = <<>> /\ run[g] = NoRequest
                              /\ mailbox[g].responses = {}
      /\ generation = 0 /\ state = "stopped" /\ status.generation = 0 /\ ~locked
           /\ registered = NoView
      /\ view = NoView /\ \A q \in Requests : attempt[q].state = "fresh"
           /\ attempt[q].generation = 0
  BY DEF Init, Idle, NewMailbox
<1>3. \A q \in Requests : q # NoRequest
  BY SupervisorAssumption
<1>4. \A g \in Generations : \A q \in Requests : Untouched(g, q) /\ OneTraceOf(g, q)
        /\ ~Due(g, q)
  BY <1>1, <1>2, <1>3 DEF Untouched, OneTraceOf, Due, Parked
<1>5. SentOnce
  BY <1>1, <1>2, <1>3, <1>4 DEF SentOnce, SentOnceOf
<1>6. TraceInv
  BY <1>5, <1>4 DEF TraceInv, OneTrace, DueOrGivenUp
<1>7. ViewInv
  BY <1>2
     DEF ViewInv, Released, RegisteredRuns, StatusesInOrder, ReadyIsAnnounced, Active,
         NoView
<1>8. ShownInv
  BY <1>1, <1>2, <1>3 DEF ShownInv, PendingIsShown, WrittenIsShown
<1> QED
  BY <1>6, <1>7, <1>8

(* The inductive invariant holds in every reachable state.                 *)
LEMMA Invariance == Spec => []IInv
<1>1. Init => TraceInv /\ ViewInv /\ ShownInv
  BY InitTraces
<1>2. HostInv /\ TraceInv /\ [Next]_vars => TraceInv'
  <2> SUFFICES ASSUME HostInv, TraceInv, [Next]_vars PROVE TraceInv'
    OBVIOUS
  <2>1. OneTrace'
    <3>1. CASE RequestWrittenStep
      <4> DEFINE c == Head(commands)
      <4>1. commands # <<>> /\ RequestWritten(c)
        BY <3>1 DEF RequestWrittenStep
      <4>2. c \in Command /\ c = commands[1] /\ 1 \in DOMAIN commands
        BY <4>1, TailIndex DEF HostInv, ChannelTypes
      <4> HIDE DEF c
      <4>3. c.request \in Requests /\ generation \in Generations
        BY <4>1, <4>2 DEF RequestWritten, Command, HostInv, Supervised, TypeOK, Generations
      <4>4. ~Absent(commands, CommandsOf(c.request))
        BY <4>2 DEF Absent, CommandsOf
      <4>5. Untouched(generation, c.request)
        BY <4>3, <4>4 DEF TraceInv, SentOnce, SentOnceOf
      <4> QED
        BY <4>1, <4>2, <4>5, RequestWrittenTraces DEF TraceInv
    <3> QED
      BY <3>1, TraceStep DEF TraceInv
  <2> QED
    BY <2>1, CallStep DEF TraceInv
<1>3. HostInv /\ ViewInv /\ [Next]_vars => ViewInv'
  BY ReleasedStep, OrderStep DEF ViewInv
<1>4. HostInv /\ TraceInv /\ ViewInv /\ ShownInv /\ [Next]_vars => ShownInv'
  BY PendingStep, WrittenStep DEF TraceInv, ViewInv, ShownInv
<1> QED
  BY <1>1, <1>2, <1>3, <1>4, HostInvariant, PTL DEF Spec, IInv

(* Whatever order late answers, late events, failed restarts and refused   *)
(* commands come in, generations are kept apart: the document is locked    *)
(* only for a run shown as active in the known generation, values are      *)
(* registered for that run only, and a parked response nobody waits for    *)
(* belongs to a request that was given up.                                 *)
THEOREM GenerationsStayApart == Spec => []GenerationsAgree
<1>1. IInv => GenerationsAgree
  <2> SUFFICES ASSUME IInv PROVE GenerationsAgree
    OBVIOUS
  <2>1. NothingIsLeftBehind
    BY DEF IInv, ViewInv, Released, RegisteredRuns, NothingIsLeftBehind
  <2>2. ParkedWasGivenUp
    <3> SUFFICES ASSUME NEW g \in Generations, NEW r \in mailbox[g].responses
        PROVE  \/ call.request = r.request
               \/ attempt[r.request].state = "failed"
               \/ \E a \in Range(answers) : a.request = r.request /\ ~a.ok
      BY DEF ParkedWasGivenUp
    <3>1. r.request \in Requests
      BY DEF IInv, HostInv, TypeOK, Mailbox
    <3>2. Due(g, r.request)
      BY DEF Due, Parked
    <3>3. call.request = r.request \/ GivenUp(r.request)
      BY <3>1, <3>2 DEF IInv, TraceInv, DueOrGivenUp
    <3> QED
      BY <3>3 DEF GivenUp, Range
  <2> QED
    BY <2>1, <2>2 DEF GenerationsAgree, IInv, HostInv
<1> QED
  BY <1>1, Invariance, PTL

(* A restart releases the document: when a generation after that of the    *)
(* shown run is ready, the answer that announces it is still on its way    *)
(* to the interface.                                                       *)
THEOREM RestartReleases == Spec => []RestartReleasesTheDocument
<1>1. IInv => RestartReleasesTheDocument
  <2> SUFFICES ASSUME IInv, state = "ready", locked, view.generation < generation
      PROVE  \E a \in Range(answers) : a.ok /\ a.op # "request"
               /\ a.generation > view.generation
    BY DEF RestartReleasesTheDocument
  <2>1. view.generation = status.generation
    BY DEF IInv, ViewInv, Released
  <2>2. generation \in Nat /\ view.generation \in Nat
    BY SupervisorAssumption DEF IInv, HostInv, TypeOK, ChannelTypes, Views, Generation0
  <2>3. PICK i \in DOMAIN answers : /\ answers[i].ok /\ answers[i].op # "request"
        /\ answers[i].generation = generation
    BY <2>1 DEF IInv, ViewInv, ReadyIsAnnounced
  <2> QED
    BY <2>2, <2>3 DEF Range
<1> QED
  BY <1>1, Invariance, PTL

(* A run that executes in the known generation, and was not given up, is   *)
(* the run the interface shows as active: no late return or event of       *)
(* another generation takes it away.                                       *)
THEOREM ExecutedRunsAreShown == Spec => []ExecutedRunIsShown
<1>1. IInv => ExecutedRunIsShown
  BY DEF IInv, ShownInv, WrittenIsShown, ExecutedRunIsShown
<1> QED
  BY <1>1, Invariance, PTL

\* No two generations hold a trace of the same request.
OneGeneration ==
  \A q \in Requests : \A g, h \in Generations : g = h \/ Untouched(g, q) \/ Untouched(h, q)

(* A request is executed by one runtime at most: however often the         *)
(* supervisor restarts, what it wrote to one generation never reaches      *)
(* another.                                                                *)
THEOREM RunsInOneGeneration == Spec => []OneGeneration
<1>1. Init => OneGeneration
  <2> SUFFICES ASSUME Init PROVE OneGeneration
    OBVIOUS
  <2>1. \A q \in Requests : attempt[q].state = "fresh"
    BY DEF Init
  <2>2. TraceInv
    BY InitTraces
  <2> QED
    BY <2>1, <2>2 DEF TraceInv, SentOnce, SentOnceOf, OneGeneration
<1>2. HostInv /\ TraceInv /\ OneGeneration /\ [Next]_vars => OneGeneration'
  <2> SUFFICES ASSUME HostInv, TraceInv, OneGeneration, [Next]_vars PROVE OneGeneration'
    OBVIOUS
  <2>1. CASE RequestWrittenStep
    <3> DEFINE c == Head(commands)
    <3>1. commands # <<>> /\ RequestWritten(c)
      BY <2>1 DEF RequestWrittenStep
    <3>2. c \in Command /\ c = commands[1] /\ 1 \in DOMAIN commands
      BY <3>1, TailIndex DEF HostInv, ChannelTypes
    <3> HIDE DEF c
    <3>3. c.request \in Requests /\ generation \in Generations
      BY <3>1, <3>2 DEF RequestWritten, Command, HostInv, Supervised, TypeOK, Generations
    <3>4. ~Absent(commands, CommandsOf(c.request))
      BY <3>2 DEF Absent, CommandsOf
    <3>5. \A g \in Generations : Untouched(g, c.request)
      BY <3>3, <3>4 DEF TraceInv, SentOnce, SentOnceOf
    <3>6. \A g \in Generations : \A q \in Requests :
          (g = generation /\ q = c.request) \/ (Untouched(g, q) => Untouched(g, q)')
      BY <3>1, <3>2, <3>3, <3>5, RequestWrittenTraces DEF TraceInv
    <3> QED
      BY <3>3, <3>5, <3>6 DEF OneGeneration
  <2>2. CASE ~RequestWrittenStep
    BY <2>2, TraceStep DEF TraceInv, TracesKept, OneGeneration
  <2> QED
    BY <2>1, <2>2
<1> QED
  BY <1>1, <1>2, Invariance, PTL DEF Spec, IInv

=============================================================================
