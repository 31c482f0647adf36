# Formal model of Rino

Rino is a desktop editor and runner for visual automation graphs. A React/TypeScript
interface (`apps/desktop/src`) talks to a Tauri host written in Rust
(`apps/desktop/src-tauri/src`), which owns one Python process, the *sidecar*
(`services/runtime/src/rino_runtime`, abbreviated `RR/` below), and speaks framed JSON with
it over stdin and stdout. The sidecar validates graphs, runs at most one of them at a time
and drives devices through MaaFramework.

This directory holds TLA+ modules for the parts of that system whose correctness depends on
the order in which threads, tasks, callbacks and messages act; TLC configurations that check
them on small instances; and TLAPS proofs of what matters most for every size. `PROJECT.json`
lists the runs, the mutations every property is tested with, the source lines of every
definition, the hazards and the theorems.

    tlc -workers 2 -config RuntimeApplication_lifecycle.cfg RuntimeApplication
    tlapm RuntimeApplication_proofs.tla


## 1. The system

| Component | State it keeps | Operations | What makes it correct |
|---|---|---|---|
| Run lifecycle, `RR/application/controller.py` | the active run with its thread, loop and scope; the latest completed run; a closing flag; one lock | prepare a run, launch, cancel, signal, run the worker thread, record the completion, close | one graph at a time; a cancellation is delivered once and reported honestly; the slot is always freed; a clean close leaves nothing running |
| Runtime service, `RR/service.py` | negotiated limits, event sequence, device activity | one handler per method, callbacks after the answer is queued, numbering of events | direct device control and runs exclude each other; events are numbered in the order they are sent |
| Transport and framing, `RR/ipc/` | the input loop, the writer's queue and thread | read, dispatch, queue, write, shut down | answers before events of the same request; a bounded queue; every message framed once |
| Graph scheduler, `RR/scheduler/engine.py` | tokens, activations, values, pure cache, limits | dispatch in FIFO order, concurrent successors, functions, cancellation, time limit | exactly one terminal event; limits hold; a cached value is not stale |
| Cancellation and device leases, `RR/execution_control/` | a one-way scope; a counted entry with an asyncio lock for each device in use | cancel, wait; acquire and release | mutual exclusion for each device, no leaked lock or entry, cancellation wins |
| Maa host and callbacks, `RR/backends/maa/` | sessions, generations, a bounded callback queue, correlations | connect, capture, interact, retire; receive, bind, drain | no callback of a retired generation, none reported for a wrong operation |
| Artifact stores, `RR/artifacts/` | bounded, expiring tables of files | store, resolve, pin, release, evict | table, byte count and files agree |
| Graph validation, `RR/graph/`, `apps/desktop/src/graph/{validate-graph,problems}` | two validators of one language; the editor's cache of problems by graph | validate, reuse, show; check a gesture before it is made | the two agree; the cache is what a full pass finds; a checked gesture breaks nothing |
| Node library, `RR/nodes/` | none shared | node executors | pure: results are inputs of the scheduler |
| Supervisor and dispatcher, `src-tauri/src/sidecar/` | process, generation, mailbox of responses, highest event sequence | start, request, time out, restart, forward events | an answer goes to its request; nothing of an old generation is taken for the new one |
| Workspace, publishing, shell, `src-tauri/src/{project,publishing}/` ... | open project, recovery slot, staged files | open, save, autosave, recover, import, install | a crash between two file operations loses no work |
| Runtime client and execution presentation, `apps/desktop/src/ipc/` | the view of the run, pending frame, applied sequence, registered variables, execution lock | run, cancel, hear an event, commit a frame, reset | what is shown is what happened; the document is locked while it runs and released afterwards |
| Editor document and history, `apps/desktop/src/graph/` | document, undo and redo stacks, saved revision | edit, undo, redo, lock | undo and redo are inverse; no edit under a running graph |
| Preview and capture, `apps/desktop/src/device-preview/`, `src-tauri/src/preview.rs` | polled frame, tokens, native cache | poll, capture, crop, release | a released token is not shown |

How they interact. The interface calls the host (`runtime_request`), which holds the
supervisor's mutex while it writes one request and waits up to 30 seconds for its answer. In
the sidecar one input thread handles one request at a time; it queues the answer, then the
event of the answer, then calls the callbacks, which launch or signal the worker. The worker
thread of a run has an asyncio loop of its own. Worker, input thread and the callback thread
of MaaFramework emit events; each takes a number under `_event_lock` and queues the event
afterwards. One writer thread writes the queue to stdout. In the host a dispatcher thread
parks the responses in the mailbox and forwards the events that advance the sequence, so
responses and events reach the interface on two channels with no order between them. In the
interface, terminal events release the document at once; the others wait for an animation
frame.

What is hard about it: flags read without the lock that guards them (`loop.is_running`,
`is_run_active`); a worker that outlives its run; cancellations that arrive in any state of a
run or of a task, including while the code that handles an earlier one awaits; numbering and
queueing of an event in two steps; two channels to the interface; requests that time out and
are carried out all the same; bounded queues, joins and waits; files renamed one after the
other; a document whose commands and inverses must meet exactly. `PROJECT.json` lists these
under "hazards", each at its line, with the properties that would notice it going wrong.


## 2. The modules

| Module | Models | Status |
|---|---|---|
| `RunSlot` | what the runtime promises about runs: one slot, one verdict, cancelled only if asked | abstract specification |
| `RuntimeApplication` | run lifecycle, input thread, worker threads, close and exit | checked, proved, refines `RunSlot` |
| `DeviceMutex` | what a lease promises: callers of one device exclude each other | abstract specification |
| `DeviceLease` | `lease`, its tasks, the asyncio lock, cancellation | checked, proved, refines `DeviceMutex` |
| `RunEvents` | requests, answers and events from the interface to the runtime and back | checked, proved; built on `RunSlot` and keeps it |
| `SidecarSupervisor` | the host's supervisor and dispatchers, the process, its generations, and the interface across restarts | checked, proved |
| `GraphScheduler` | one run of a graph: tokens, branches, functions, cache, limits, cancellation, time | checked |
| `CallbackHub` | callbacks of native jobs: queue, bindings, diagnostics, dispatcher, close | checked, proved |
| `ProjectSession` | file actions of the interface, the host's commands, commits file by file, autosave, recovery, crashes | checked |
| `LinearHistory` | what undo and redo promise: a line of documents | abstract specification |
| `Lists` | taking elements out of a list by a test or by position | used by the next two and by `CallbackHub` |
| `GraphDocument` | the commands of a graph document and their inverses | checked through `GraphEditing`, proved |
| `GraphEditing` | what the canvas, the task dialog and the function library make of them, and the history | checked, proved, refines `LinearHistory` |
| `GraphVocabulary` | documents and registries as the validators read them | |
| `EditorValidation`, `RuntimeValidation` | the editor's validator with its connection rules, and the runtime's | checked against each other and against definitions without a search |
| `IncrementalValidation` | editing and opening projects beside a panel that reuses what it found before | checked |
| `ListFacts` | lemmas about sequences, channels, filters and folds | proved |
| `MC...` | instances: symmetry, sample graphs and documents, limits | |
| `..._proofs` | inductive invariants, lemmas and theorems | proved |

How they meet. `RunEvents` does not repeat the locks of the controller: its runtime is
`RunSlot` (`Slot == INSTANCE RunSlot`), and `RuntimeApplication` implements `RunSlot`, which
is both checked and proved. `RuntimeApplication` takes from the scheduler the statuses it can
return (`StatusesOf`); `GraphScheduler` shows how they come about and that no node is at work
when the run returns. A run's device operations are the protected operations of
`DeviceLease`, whose callers may be cancelled by the scope that `RuntimeApplication` cancels.
`RunEvents` is one generation in detail, `SidecarSupervisor` has several with one request and
one run each. `CallbackHub` is the third source of events that `RunEvents` calls the callback
thread. `GraphEditing` composes `GraphDocument` and is shown to implement `LinearHistory`,
over which `ProjectSession` puts the files: its documents are the ones between commands.
`RuntimeValidation` is the guard of `run.start` that `RuntimeApplication` leaves open, and
`IncrementalValidation` uses it beside `EditorValidation`.

### RuntimeApplication

An action is one critical section of `RuntimeApplication._lock`, or one step between two of
them that another thread can tell apart. The variables are the fields of the application
(`active`, `lastCompleted`, `closing`), of `_ActiveRun` (`cancelRequested`, `loop`, `scope`),
the locals that survive a step (`sawCancel`, `outcome`), the position of every worker
(`worker`) and the position of the input thread (`stage`, `at`, `target`).

* `_signal` is three actions, `SignalRead` under the lock and then `SignalCheck`
  (`loop.is_running()`) and `SignalPost` (`call_soon_threadsafe`) without it. The loop of a
  worker is not running before `run_until_complete`, between its two uses and after `close`;
  `DrainLoop` is the second use, `shutdown_asyncgens`.
* `device.interact` is a check (`InteractBegin`) and an operation that goes on while worker
  threads come and go.
* A worker clears the slot (`RecordCompletion`) before it emits (`EmitTerminal`, whose sink
  may fail) and drains its loop.
* `close` runs twice after `system.shutdown`. `JoinTimeout` is its join of five seconds.
  `Terminate` is `SystemExit`, raised by a signal wherever the input thread is, or an
  `OSError` of the writer.
* The scheduler is reduced to the statuses it can return (`StatusesOf`): cancelled only
  when the scope has been cancelled, and any status when it was cancelled on the way.

### DeviceLease

An action is what one asyncio task does between two suspensions. For every caller there are
three tasks: the caller itself, the task that acquires the lock and the task that waits for
the cancellation of the scope. `asyncio.Lock` is modelled with its deque of futures: a
future may be pending, have a result, or be cancelled in either state, and a woken future
whose task is cancelled hands the wake-up on. `ahead[c]` holds the futures in front of that
of `c`, so that the order of the deque needs no sequences. `Task.cancel` is modelled with
what it reaches: the awaited task in `awaiting`, the caller itself in `racing`, and nothing
that survives in the settling states, because `_cancel_and_settle` suppresses every
`CancelledError`. The lock and the tasks are not in this repository and are marked external.

### RunEvents

One generation of the sidecar. The interface is the execution store (`view`), the lock of
the document, the frame buffer, the highest applied sequence and the registration of
persistent variables; the host is one request at a time (`Send`, `TimeOut`), the mailbox and
`forward_event`; the sidecar is `RunSlot`, the input thread in four steps (handle, number
the state event, queue answer and event, call back), a worker for each run in three
(execute, record, number the terminal event) and the callback thread. `Number` and
`QueueEvent` are separate actions, as in the code. Frames and messages are records with a
kind, a run, a state and a sequence number; payloads are left out.

### SidecarSupervisor

The host's mutex makes one command at a time the owner of the supervisor (`call`); commands
that wait for it are a queue, their answers another, and the events a third, with no order
between the last two. Every start makes a new mailbox, and the dispatcher of the process
before may go on writing into the mailbox it was given. A process is its pipes and a run; it
may die (`Crash`) or write something that is no frame (`DamageStream`). A request is written,
and then its answer is taken, or its time ends (`RequestFails`), or the stream has ended
(`RequestLost`). The interface compares generations after every await (`Current`), and resets
view, lock and registration with the first status of another generation (`AcceptStatus`).

### GraphScheduler

The scheduler is one asyncio task, and one task for each of the concurrent successors of a
node; `asyncio.timeout` may interrupt what the main task awaits. A task is created, runs to
its first suspension, and is answered later, or cancelled where it awaits. What happens between
two suspensions is one action and works on a record `store` that the branches share: steps,
events, activations, values with the revisions they were computed from. Executors are free to
answer at any time or never, to fail, and to set a variable. Pure nodes are evaluated when
their value is wanted, to a limited depth (`limits.depth`), and may fail. A call of a function
is summarised by the steps and events it uses up to the limit it was given, and by one
variable it may set while it is under way (`CallSets`), since its frame shares the variables.

### CallbackHub

Native threads put callbacks into a bounded queue (`Receive`), the thread that posts a job
binds it afterwards (`BindOperation`), and the dispatcher drains the queue in one critical
section (`Drain`) and tells the sink one event at a time outside of it. A callback that is not
bound yet goes back to wait (`Kept`) until a grace period has passed (`Age`). Closing happens
in steps, and the sink is taken away first. The five codes of a callback that becomes no event
are one code here.

### ProjectSession

A task of the interface is one file action with its dialogs: New, Open, Close, Save, Save As,
the answers to the question about unsaved work and to the recovery offer, and a stored
capture. The autosave is an actor of its own (`Saver`): its timer looks at no activity, so
`Autosave` may come at any point of any of them. The host serves commands one at a time, in the
order they were sent. A commit stages all files and then replaces them one by one (`RenameFile`); it may stop
after any of them, because a rename fails or the application dies. A directory is which
document each of its files belongs to; a document is its project, an edit and whether it has a
second graph. The manifest is replaced last. A project in the older format (`Legacy`) is its
manifest alone, and is written anew by the next save even if nothing changed. Writing a document
in the format of the files may fail (`ConversionFails`), which ends the action with nothing sent.
The recovery slot is a directory with an origin; what is found in it may be beyond parsing
(`Damaged`). `excused` records the documents the code itself calls saved without having written them,
`torn` the directories whose commit stopped half way, `misfiled` that an autosave of one
project was filed under another, and `strayed` the directories for which another project's work
was restored (the last two come from the disagreements of section 4).

### GraphDocument and GraphEditing

A document is a sequence of graphs with sequences of nodes, edges, hints and groups, as in the
file. `GraphDocument!Apply` is `applyGraphCommand` with the inverse it returns; `GraphEditing` is
what the interface does with it: it computes commands from the document and a
selection, applies them as one transaction and keeps the inverses. Ports come from the kind of
a node, and for calls from the signature of the function. A list from which elements are taken
is rebuilt as in the code: `Lists!Filter` keeps the elements that pass, in their order.

### Validation

`EditorValidation` and `RuntimeValidation` are translated one from TypeScript and one from
Python, check by check; both return a set of problems, a problem being a code and a place.
`IncrementalValidation` opens projects, edits them, takes edits back, and draws the problems
panel, which validates again only the graphs that are not the objects they were. The code
recognises a graph by identity; the model drops what the cache holds of a graph at the moment
a command replaces it. `MaxFunctionDepth` is the depth of calls (16 in the code), as a constant.
Inserting from the palette onto a port, in either direction, and moving a connection to another port, evaluate the
rules without a document, as in the code, so the parameter ports of a call are refused there.


## 3. The runs

| Run | Question | Instance | States |
|---|---|---|---|
| `lifecycle` | is the lifecycle safe, does it implement `RunSlot`, is the slot freed, does a delivered cancellation end its run, does every close end? | 2 runs | 347,313 |
| `lost_cancel` (violated) | is every first cancellation delivered? | 1 run | |
| `leases` | no leaks, cancellation wins and never waits for the holder, refinement of `DeviceMutex`, every waiter is served | 3 callers, 1 device, 2 entries | 192,646 |
| `events` | does what the interface shows, locks and registers agree with the runtime, and is the document released? | three scenarios: 2 runs with a time-out; 1 run with node and callback events; 1 cancellable run | 434,540 |
| `generations` | is no process orphaned, is the run that executes the one shown, does a restart release the document? | 2 generations, 2 runs, 2 faults, symmetry | 971,990 |
| `scheduler` | does nothing run after the end, do limits hold, is a success complete, is the cache fresh, does every run end? | 5 graphs under 9 sets of limits | 245,225 |
| `callbacks` | is every callback an event or counted, attributed to its job, and does it leave? | 2 generations, queue of 2, 1 binding, 1 bucket | 1,043,322 |
| `projects` | do projects stay loadable, do editor, slot and disk agree, is what is called saved on disk, is paused work recoverable, is no work lost? | 3 directories, 1 edit, 5 actions, the autosave, 1 fault | 3,936,873 |
| `project_unreadable` (violated) | is paused work always recoverable? | 3 directories, 2 edits, 4 actions, 1 fault | |
| `project_misfiled` (violated) | is the work offered back that of the project opened? | 2 projects, 1 edit, 4 actions, no fault | |
| `graph_commands` | does the document stay sound, do undo and redo meet, what can make it unrunnable? | 2 documents, 2 commands, history of 2 | 276,263 |
| `problems` | is the panel right, do the two validators agree, are their searches exact, does a checked gesture break nothing? | 11 projects, 2 registries, 1 edit and its undo | 10,409 |

Bounds, and why they are enough.

* Runs have one life each, and only the active run, the latest completed one and the
  workers on their way out are ever compared. Two runs give a worker that drains while the
  next run starts, a late cancel of the earlier one, and a stale signal target. `FreshRun`
  fixes the order in which identifiers are used, where symmetry would be unsound for liveness.
* Three callers of one device are a holder, a woken waiter and one behind it, which is what
  a lost wake-up needs; the second entry lets an entry be removed and another take its place.
  An entry that is nobody's is reused. Several devices, which meet in the table of entries
  only, are covered by the theorems.
* `RunEvents` bounds the events of a run, of the callback thread and the requests given up by
  scenarios (`AllScenarios`). One time-out is enough for a run nobody knows to meet the next
  one. One run with one node event and one callback event is enough for an overtaking in the
  frame; the pairs of threads that can overtake each other are all present.
* `SidecarSupervisor` has two generations (`MaxGeneration`), because only the current one and
  those before it are compared, and two faults (`MaxFaults`), so that a crash can meet a
  damaged stream or a second crash.
* `GraphScheduler` starts in one of five graphs: two branches that race on a variable, a stop
  beside a branch, calls beside a branch, a mix, and two calls; limits are wide, or meet the
  queue, the steps or the events at each of the places where they are checked.
* `CallbackHub` has every limit at its smallest (`MaxCallbacks`, `MaxCorrelations`,
  `MaxBuckets`, `MaxJunk`), and two controllers (`MaxGeneration`) that give their jobs the same
  identifier, as MaaFramework does.
* `ProjectSession` has a project in the older format, one that cannot be parsed and an empty
  directory, and two projects where one is taken for the other. There is one file action at a
  time (`Tasks`), with edits and the autosave beside every step of it: the buttons of the others
  are disabled meanwhile. The save shortcut is not (section 4). One edit with its undo and redo
  (`MaxEdits`) makes a document differ from the saved one before, during and after any save;
  five actions (`MaxActions`) and one fault (`MaxFaults`) are an opening, work, a crash, another
  opening, an answered offer, and an action on what it restored. The violated runs need less.
* `GraphEditing`: two commands in a row (`MaxCommands`) with any undoing, redoing and saving,
  on one document with all kinds of wiring and one with nested functions; a history of two
  entries is cut by the third.
* `IncrementalValidation` has a small project for each part of the validators, and every edit
  of it, taken back or not (`MaxPast`); the panel is drawn after every change
  (`MaxUnrendered`), as React does unless two changes fall into one frame. Graphs have four
  edges at most when one is drawn (`MaxEdges`), and calls may nest two deep
  (`MaxFunctionDepth`). Files with repeated identifiers are shown and not edited.

Deadlock is checked where the system never stops: in `RuntimeApplication` (the process that has
exited stutters explicitly), `DeviceLease`, `GraphEditing` and `IncrementalValidation`. The others end when every
attempt, action, fault or the run itself has been made, so `CHECK_DEADLOCK` is off there.
Symmetry is used in runs without liveness properties.

Fairness. In `RuntimeApplication` every thread that is runnable is eventually scheduled;
no request and no signal is ever forced to arrive. A graph is only assumed to return once
its scope has been cancelled (the scheduler checks it before every dispatch, and the
cancellable operations race it); `SlotIsFreed` alone assumes also that graphs end
(`GraphsEnd`), which `GraphScheduler!RunEnds` shows. In `DeviceLease` the event loop runs every
ready task, and protected operations end, each having a time limit of its own;
`CancelledWaiterIsNeverBlocked` does without this assumption. In `RunEvents` the threads and
the tasks of the interface go on, and the worker finishes by its time limit; the user, the
time-outs and the callback thread are not fair. In `GraphScheduler` the main task, the tasks
of branches that are ready and the timer are fair, and time passes; executors are not fair at
all. In `CallbackHub` the dispatcher is fair and time passes; native threads are not. The
runs of `SidecarSupervisor`, `ProjectSession`, `GraphEditing` and `IncrementalValidation` check
safety only.

Mutations. Each property of a passing run is paired with a change of one definition that a
plausible bug would make (the operators marked as mutants), under which TLC finds the property
violated.


## 4. Disagreements

Found by a run that is kept:

1. `lost_cancel`. `_signal` delivers a cancellation only when `loop.is_running()`. The worker
   publishes its loop and reads `cancel_requested` in one critical section and starts the
   loop later; a `run.cancel` in between is answered, marked, and dropped. A repeated request
   carries no signal.
2. `project_unreadable`. Opening a project that the interface cannot parse makes the host
   close the one it had, while the editor keeps its document: autosaves and saves are refused
   from then on. `AutosavedIsRecoverable` holds with the host's project as a premise.
3. `project_misfiled`. The autosave is filed under the project the host has open, which
   opening and creating change before the interface adopts the answer. An autosave sent in
   between puts the old document under the new project, and the next opening of that project
   offers it. `FilesAgree` holds with `misfiled` as an exception.

The properties of the passing runs except what follows, which was met while they were written:

* Between `is_running()` and `call_soon_threadsafe` the worker may close its loop; the call
  raises in the input thread, outside every handler, and the sidecar stops serving
  (`controller.py:363`; the module has it as the step to `Terminate`).
* A caller that is cancelled while it settles its watch task, with the lock granted, enters the
  protected operation: `_cancel_and_settle` takes the cancellation for that of the watch task
  (`device_lease.py:123`). `CancelledScopeStaysOut` speaks of scopes.
* An event may be queued before one with a smaller number; the dispatcher drops the second as
  a replay. When it is the terminal event, the document stays locked until a restart
  (`service.py:891`; the exception in `UncancelledRunUnlocks`).
* The cancelling event of a run is built after the lock is released; when the run ends in
  between, the interface shows it as ended and then as cancelling (`service.py:729`). A
  terminal event that reaches the interface before the answer to `run.start` is ignored, and the
  answer then shows the run as running for ever (`runtime-execution-store.ts:111`).
* A damaged output stream fails the request that waits and leaves the supervisor ready; a
  process that dies while nobody waits is noticed by the next write only, and that does not
  mark it as lost (`supervisor.rs:268`, `276`). The way out is a restart.
* A `run.start` issued while a restart is served is carried out by the next generation and is
  shown nowhere (`useGraphExecution.ts:123`; the premise of `ExecutedRunIsShown`).
* Saving marks as saved what is current when the disk has answered (`project-actions.ts:346`;
  the set `excused`). Images are removed on saving although undo can bring their record back
  (`workspace.rs:1128`). An autosave replaces files before the origin: after a crash in between,
  the project the slot was for before is offered them (`workspace.rs:1196`). `OfferedIsOwnOtherwise`,
  a part of `FilesAgree`, says that this and `project_misfiled` are the only ways to a wrong offer.
* The save shortcut heeds no activity, and a save names no directory. Sent between the host's
  opening of a project that cannot be parsed and its release, it writes the document shown over
  that project (`ApplicationFrame.tsx:218`; `projects` has one file action at a time).
* A history cut at its limit can call a changed document saved (`command-history.ts:60`; the
  premise `~truncated`).
* Functions called beside other branches together exceed the step limit of the run
  (`engine.py:836`; the exception `CalledBesideOthers`).
* The two validators compare names differently (lower case in the editor, case folding in the
  runtime), take a different one of two variables with the same identifier and different
  types, judge node versions differently (the editor reports a newer node, the runtime refuses
  any other version), and differ on empty or unknown segments of a log message. None of this
  comes out of the editor's own dialogs; `Comparable` names it as the premise of
  `ValidatorsAgree`.
* Reuse of problems looks at no variable. It is right because a variable that a node refers to
  can be neither deleted nor retyped (`hasVariableReference`), which `ProblemsAreCurrent` needs.
  Problems are compared by code and place. A message about a variable of the wrong kind also
  carries its name (`validate-graph.ts:690`), and after a rename the reused graph shows the old one.
  That a checked connection cannot make a valid graph invalid is what `connection-rules.ts:370`
  says, and what `CheckedEditsBreakNothing` checks.


## 5. What is proved

The theorems hold for every value of the constants that meets the named assumption of the
module. Safety theorems follow one pattern: an inductive invariant `IInv`, which TLC checked on
the instance of the run before it was proved; `Init` establishes it, every step preserves it
(one lemma per action or group of actions, one step per conjunct the action can disturb); and
`IInv` implies the property.

### Run lifecycle: `RuntimeApplication_proofs`

For every set of runs with `NoRun \notin Runs` (`NoRunAssumption`): `TypeCorrect`,
`SingleGraph`, `ExclusiveDrivers`, `CloseIsQuiet`, `HonestCancellation` and
`LateCancelIsConsistent`, the type invariant and the invariants of `lifecycle`; and
`RunSlotImplemented`, `Spec => ImplementsRunSlot`.

The safety properties are not inductive: they speak of executing graphs and of answers,
while a step changes a flag, a thread and the slot in different critical sections. `IInv`
adds `SlotOwner`, a worker is before its completion exactly when its run is the active one;
`InteractionAlone`, what the unlocked check still guarantees; `Provenance`, every trace of a
cancellation goes back to a request; `EarlyCancelHonoured` and `RecordedOnce`, which tie the
worker's locals to its position; `LatestIsRecorded`; and `ClosingProgress`, what each step of
`close` has established. The refinement is by cases too: most steps stutter, and each of the
others is one action of `RunSlot`, where `SlotOwner` and `RecordedOnce` supply the guards.

### Device leases: `DeviceLease_proofs`

For every finite set of callers, any keys and any entries (`LeaseAssumption`: callers are
finite, since users are counted; `NoEntry \notin Entries`): `LeaseTypes` (no entry counts less
than zero users), `LeaseExclusion`, `LeasesDoNotLeak`, `CancellationWins`, and
`LeasesImplementMutex`, `Spec => ImplementsDeviceMutex`.

`IInv` has `OneEntryPerKey` (a caller inside refers to the entry registered for its key),
`UsersAreCounted` (the counter is the cardinality of the callers that refer to the entry),
`OneOwner`, `OrderlyHandover` (only the head of the deque is ever woken, and the lock is free
until it takes it) and `StagesAgree`. `OrderlyHandover` is what excludes two woken tasks, and
needs the deque to be a total order. The steps are proved as lemmas on what they do to the lock
and the deque, which several actions share (`ExitStep`, `UnlockStep`, `DroppedStep`, ...);
counting rests on the library's theorems about finite sets.

### Events of a run: `RunEvents_proofs`

For any runs, scenarios and requests that are given up (`EventsAssumption`): `ViewsAgree`,
`ShownEndsAreTrue`, `EndsComeLast`, the invariants of `events`, and `RunSlotIsKept`,
`Spec => Slot!Spec`.

`IInv` follows an event from the thread that numbers it to the screen. `WorkerHasSlot` ties
threads to the slot. `EventsAreTrue` speaks of every event anywhere on the path: a terminal
event bears the verdict of its run, is its only one and has the highest number of its worker.
`InOrder` says that the dispatcher passes on growing numbers only. `StartsAreShown` and
`StartsAreFresh`: the request that starts a run is written and handled once, and a run nobody
asked for is unknown. `PendingIsShown` is the heart: as long as no `run.start` was given up, the
run the runtime has, or whose end is still to be told, is the one that is shown, and the
document is locked. Events not above the dispatcher's number count as gone (`Live`), which is
how the theorems hold although a terminal event may be dropped (section 4). A frame is applied
by a fold; what it does to the view is proved by induction over its events.
TLC checked the invariant on 1,089,116 states of a larger instance.

### Generations: `SidecarSupervisor_proofs`

For any requests, number of generations and faults (`SupervisorAssumption`): `NoOrphans`,
`GenerationsStayApart`, `RestartReleases`, `ExecutedRunsAreShown`, and `RunsInOneGeneration`,
which no run states: a request to run is executed by one generation at most.

`IInv` is the conjunction of `HostInv` (types of the channels; the supervisor's state tells
whether it holds a process and which command it serves; no orphan), `TraceInv` (a request is
written to one runtime, once, and leaves one response behind, which is due or was given up),
`ViewInv` (statuses arrive in the order of generations, a ready generation has been announced,
an ended one has released the document) and `ShownInv` (the interface waits for the run it
shows as starting; what was written is shown). Each part is proved from those before it, so
that a lemma on the host needs nothing of the interface. The instance is that of `generations`.

### Callbacks: `CallbackHub_proofs`

For any number of controllers, operations and threads and any limits of the hub:
`HubStaysConsistent` and `CallbacksStayAccounted`, the invariants of `callbacks`.

`IInv` has the types; `Attributed`; `BoundOnce` (a job is bound once, and its binding is gone
when its end is an event); `Quiet`; `InOrder` (in the queue and among the events, an end comes
after the start of its job, unless the start is known or was given up) and `BegunIsKnown` (the
start of a job that has begun is known or on its way, which is what makes `InOrder` inductive
when a callback goes back to wait); and `NothingIsLostSilently`, an equation between what was
received and what is queued, told, counted or about to be reported. Counters are added up as
the cardinality of a set of tickets, so that one more in a row, or a row merged into a shared
one, is one more ticket. `Drain` folds `DrainOne` over the queue; its lemma is an invariant of
the fold, `Drains(batch, i)`, on what has become of the first `i` callbacks.

### Editing: `GraphDocument_proofs` and `GraphEditing_proofs`

`CommandsAreReversible`, for every document that is sound inside and every list of commands
that fits: applying them and then the inverses kept for them brings back the very document,
file order included, and the document in between is sound inside. What a command checks is in
`GraphDocument`; `Fit` is what it leaves to its caller (an added edge joins nodes that exist, an
added group has members, an added graph is sound), and `Takes` says so of a list, command after
command. Every operation of the interface is shown to compute commands that fit.

For any documents opened and any limits (`EditingAssumption`: documents have the form of a
document and nothing in them dangles): `EditingTypes`; `DocumentsStayIntact`; `CleanMeansSaved`
(`CleanIsSaved`); and `HistoryIsLinear`, `Spec => ImplementsLinearHistory`. Here `IInv` says
that an entry of the history holds commands that lead from the document before it to the one
after it and commands that lead back, that neighbours agree on the document between them
(`Chained`), that positions grow along the line (`Ordered`) and that the mark of the saved state
names one place on it (`MarkIsTrue`). `DocumentsStaySound`, `Spec => []DocumentIsSound` (the
invariant of `graph_commands`), assumes that the documents opened keep the wiring rules, as
those of the run do: the editor opens a file that does not, and shows its problems. It needs
`InOrder` besides: every document of the history and the clipboard is within the rules.
Acyclicity is carried as the existence of a closed set that separates the two ends of an edge,
since a path would need induction at every step.

### Lemmas about lists: `ListFacts`

Channels (`Once`, `Absent` under `Append`, `Head`, `Tail`), filters, and folds. The theorems of
the library that take an operator as a parameter cannot be used, so induction is done here for
sets of numbers, with a pigeonhole argument (`NatSetInduction`), and the facts about folding are
stated for the constant `Step`: a proof module takes them from `INSTANCE ListFacts WITH Step <- ...`.

### Only model-checked

* All liveness properties, and `CancelledWaiterIsNeverBlocked`, which needs ENABLED: both are
  beyond the prover.
* `GraphScheduler` and the validators (`ProblemsAreCurrent`, `ValidatorsAgree`,
  `SearchesAreExact`, `CheckedEditsBreakNothing`): they are recursive, and the prover has no
  arithmetic backend in a module that reaches a recursive operator. That two programs compute
  the same diagnostics is besides a statement about every input of both.
* `OnlyKnownOperationsSpoil`, whose conclusions are about the depth and the recursion of calls.
* `ProjectSession`: its invariants are checked for one file action at a time, with the autosave
  beside it. With two at once they fail (the save shortcut of section 4), so a theorem needs that
  restriction too; none is proved.

A violated run is a single counterexample.


## 6. What is left out

Within the modelled parts: parsing, encoding and the contents of messages are guards or
nondeterministic results. The writer's queue is unbounded in `RunEvents` and its failure is an
exception of the caller in `RuntimeApplication`. Requests other than `run.start`,
`run.cancel`, `device.interact` and `system.shutdown` change no state that these modules speak
of. `cancellable_delay` has the shape of the lease's race and no shared state. Diagnostics of
the sidecar are shown nowhere. Positions, texts and comments of a graph are data without rules;
output parameters, variables and workflow groups are edited in `IncrementalValidation` or not at
all, and not in `GraphEditing`. Capabilities and node migrations are left out of the validators,
which are never given any.

Three narrower omissions. In `GraphScheduler` a branch that is cancelled never completes
(`Drop`), whereas a node that settles the watch task of a lease can swallow the cancellation
(section 4) and go on; the scheduler waits for it all the same (`Settled`) and ignores what it
returns. The four kinds of nodes of `GraphEditing` have no output that fans out and
no parallel node, so `Accepted` has nothing of `allowsFanOut` and of the rule about two parallel
nodes on a path (`connection-rules.ts:360`); both are in `EditorValidation!EvaluateConnection`,
which `problems` checks. Insertion from the palette in `IncrementalValidation` leaves out
templates, the bundle of nodes a click point brings along and the companion edge of a branch:
each is one more connection of the new nodes, judged by `evaluateConnection` before the
transaction, and refused ones are not made.

Not modelled, though they have states: the device host of MaaFramework with its sessions and its
capture cache, the capture workbench and the polling of the preview, the artifact stores of the
runtime, and framing. Each has one owner and its own lock, and meets the rest through operations
the modules above take as inputs. Nor the node library, whose executors keep nothing between
calls, nor publishing, whose only step with states is the replacement of a directory.

Not modelled because they are calls of platform services or data: rendering, localization,
generated contracts, packaging, signing, network access and window handling.


## 7. Plan

What would come next, in this order: the artifact stores with their pins and expiry; the
polling of the preview with the tokens of the host's cache; framing, as a stream of bytes cut
into chunks; the workflow-group commands and output parameters in `GraphDocument`, whose lemmas
are stated for the families of records they would belong to; and `ProjectSession` proved for
one file action at a time.
