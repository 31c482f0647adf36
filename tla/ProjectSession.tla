--------------------------- MODULE ProjectSession ---------------------------
(***************************************************************************)
(* The open project: the editor's document and undo history, the project   *)
(* store and its asynchronous actions (project-actions.ts,                 *)
(* useProjectCommands.ts, useProjectAutosave.ts), and the desktop host's   *)
(* ProjectWorkspace with the project directories and the recovery slot on  *)
(* disk (project/workspace.rs).                                            *)
(*                                                                         *)
(* A document is abstracted to the project it belongs to, the number of    *)
(* the edit that made it, whether it has a second graph and whether it     *)
(* refers to a captured image.  A directory holds a manifest, the entry    *)
(* graph's file, a second graph's file and the captured image's object.    *)
(* A file is the document it was serialized from.                          *)
(***************************************************************************)
EXTENDS Naturals, Sequences, FiniteSets

CONSTANTS
  Dirs,        \* the directories the user can choose
  Existing,    \* those that hold a project when the application starts
  Legacy,      \* those whose project is in the older, one-file format
  Unreadable,  \* those whose project this build cannot parse
  Tasks,       \* the file actions that can be under way at once
  Saver,       \* the autosave, which runs beside them
  MaxEdits,    \* bound: edits, over the whole behaviour
  MaxActions,  \* bound: file actions started, over the whole behaviour
  MaxFaults,   \* bound: failed conversions and file operations, and crashes
  Damaged,     \* a recovery slot that the host can read and nobody can parse
  None

ASSUME ProjectsAssumption ==
  /\ Existing \subseteq Dirs
  /\ Legacy \subseteq Existing /\ Unreadable \subseteq Existing
  /\ None \notin Dirs /\ Damaged # None /\ Saver \notin Tasks
  /\ MaxEdits \in Nat /\ MaxActions \in Nat /\ MaxFaults \in Nat

VARIABLES
  disk,      \* per directory, its files
  slot,      \* the recovery slot: the same files and the directory it is for
  root,      \* the host's open project, or None
  chosen,    \* the directory chosen for the next create or save-as, or None
  queue,     \* host commands invoked and not yet executed, in order
  commit,    \* the multi-file commit being executed, or None
  editor,    \* the interface's document, history and project store
  task,      \* per asynchronous action, where it is
  edits,     \* edits made so far
  actions,   \* file actions started so far
  faults,    \* faults so far
  torn,      \* directories, None for the slot, where a commit stopped half way
  excused,   \* documents given up, or made while a file action was under way
  misfiled,  \* an autosave was filed under a directory of another project
  strayed    \* directories for which another project's work was restored

vars == <<disk, slot, root, chosen, queue, commit, editor, task, edits,
          actions, faults, torn, excused, misfiled, strayed>>
hostVars == <<disk, slot, root, chosen, commit, torn, misfiled>>

Actors == Tasks \cup {Saver}

Documents == [project : Dirs, edit : 0..MaxEdits, extra : BOOLEAN,
              image : BOOLEAN]
FirstDocument(d) ==
  [project |-> d, edit |-> 0, extra |-> FALSE, image |-> FALSE]

NoFiles == [manifest |-> None, main |-> None, extra |-> None, image |-> FALSE,
            old |-> FALSE]
EmptySlot == [manifest |-> None, main |-> None, extra |-> None,
              image |-> FALSE, old |-> FALSE, origin |-> None]

(***************************************************************************)
(* What reading and parsing a directory yields: every file the manifest    *)
(* names must be there and belong to the manifest's project.  In the older  *)
(* format the manifest is the whole document.                               *)
(***************************************************************************)
Loadable(files) ==
  /\ files.manifest # None
  /\ ~files.old =>
       /\ files.main # None /\ files.main.project = files.manifest.project
       /\ files.manifest.extra =>
            files.extra # None /\ files.extra.project = files.manifest.project

Loaded(files) ==
  IF files.old THEN files.manifest
               ELSE [files.manifest EXCEPT !.edit = files.main.edit]

FilesOfFirst(doc) == IF doc.extra THEN <<"manifest", "main", "extra">>
                                  ELSE <<"manifest", "main">>
FilesOf(doc) == IF doc.extra THEN <<"main", "extra", "manifest">>
                             ELSE <<"main", "manifest">>

Closed ==
  [doc |-> None, past |-> <<>>, future |-> <<>>, saved |-> None,
   location |-> None, written |-> None, migration |-> FALSE,
   offered |-> None, intent |-> None, busy |-> FALSE, timer |-> FALSE]

Idle == [op |-> "idle", stage |-> "free", doc |-> None, intent |-> None,
         dir |-> None, ok |-> FALSE, old |-> FALSE, found |-> None]

Init ==
  /\ disk = [d \in Dirs |->
       IF d \in Existing
       THEN [NoFiles EXCEPT !.manifest = FirstDocument(d),
                            !.main = IF d \in Legacy THEN None
                                                     ELSE FirstDocument(d),
                            !.old = d \in Legacy]
       ELSE NoFiles]
  /\ slot = EmptySlot
  /\ root = None /\ chosen = None /\ commit = None
  /\ queue = <<>>
  /\ editor = Closed
  /\ task = [t \in Actors |-> Idle]
  /\ edits = 0 /\ actions = 0 /\ faults = 0
  /\ torn = {} /\ excused = {} /\ strayed = {}
  /\ misfiled = FALSE

(***************************************************************************)
(* The document store and its history.                                     *)
(***************************************************************************)
Dirty == editor.doc # None /\ editor.doc # editor.saved

\* The unsaved-work question and the recovery offer are modal.
NoModal == editor.intent = None /\ editor.offered = None

FileActionUnderWay ==
  \E t \in Tasks :
    /\ task[t].stage # "free"
    /\ task[t].intent # None
       \/ task[t].op \in {"choose", "open", "create", "saveAs", "save"}

Opened(doc) == [editor EXCEPT !.doc = doc, !.past = <<>>, !.future = <<>>,
                              !.saved = doc, !.timer = FALSE]

Edited(doc) ==
  [editor EXCEPT !.doc = doc, !.past = Append(@, editor.doc),
                 !.future = <<>>, !.timer = TRUE]

MadeMeanwhile(doc) ==
  excused' = IF FileActionUnderWay THEN excused \cup {doc} ELSE excused

\* An edit adds the second graph or removes it, so that the set of files changes.
Edit ==
  /\ editor.doc # None /\ NoModal /\ edits < MaxEdits
  /\ LET doc == [editor.doc EXCEPT !.edit = edits + 1, !.extra = ~@]
     IN editor' = Edited(doc) /\ MadeMeanwhile(doc)
  /\ edits' = edits + 1
  /\ UNCHANGED <<hostVars, queue, task, actions, faults, strayed>>

\* Becoming clean clears the timer, every other change arms it anew.
UndoneUntimed(doc) ==
  [editor EXCEPT !.doc = doc, !.past = SubSeq(@, 1, Len(@) - 1),
                 !.future = Append(@, editor.doc)]
Undone(doc) ==
  [editor EXCEPT !.doc = doc, !.past = SubSeq(@, 1, Len(@) - 1),
                 !.future = Append(@, editor.doc),
                 !.timer = doc # editor.saved]

Undo ==
  /\ editor.doc # None /\ NoModal /\ editor.past # <<>>
  /\ LET doc == editor.past[Len(editor.past)]
     IN editor' = Undone(doc) /\ MadeMeanwhile(doc)
  /\ UNCHANGED <<hostVars, queue, task, edits, actions, faults, strayed>>

Redo ==
  /\ editor.doc # None /\ NoModal /\ editor.future # <<>>
  /\ LET doc == editor.future[Len(editor.future)]
     IN /\ editor' = [editor EXCEPT
             !.doc = doc,
             !.past = Append(@, editor.doc),
             !.future = SubSeq(@, 1, Len(@) - 1),
             !.timer = doc # editor.saved]
        /\ MadeMeanwhile(doc)
  /\ UNCHANGED <<hostVars, queue, task, edits, actions, faults, strayed>>

Start(t) ==
  /\ task[t].stage = "free"
  /\ actions < MaxActions /\ actions' = actions + 1

(***************************************************************************)
(* The asynchronous actions.  Invoke queues a host command; a dialog is    *)
(* answered by the user at any later time.                                 *)
(***************************************************************************)
Invoke(t, op, doc, intent) ==
  /\ task' = [task EXCEPT ![t] = [Idle EXCEPT !.op = op, !.stage = "queued",
                                              !.doc = doc, !.intent = intent]]
  /\ queue' = Append(queue, t)

Ask(t, op, doc, intent) ==
  /\ task' = [task EXCEPT ![t] = [Idle EXCEPT !.op = op, !.stage = "dialog",
                                              !.doc = doc, !.intent = intent]]
  /\ UNCHANGED queue

Free(t) == task' = [task EXCEPT ![t] = Idle] /\ UNCHANGED queue

\* What an answered question or a request leads to.  Closing does not wait.
RunIntent(t, intent, after) ==
  IF intent = "close"
  THEN editor' = Closed /\ Invoke(t, "close", None, None)
  ELSE /\ editor' = [after EXCEPT !.busy = TRUE]
       /\ Ask(t, intent, None, intent)

\* A document that cannot be written in the format of the files.
ConversionFails == faults < MaxFaults /\ faults' = faults + 1

\* saveProject: an unchanged document is not written again, unless it was
\* opened in the older format.
Unchanged == editor.written = editor.doc /\ ~editor.migration

SaveProject(t, intent) ==
  LET answered == [editor EXCEPT !.intent = None]
      marked == [answered EXCEPT !.saved = editor.doc, !.timer = FALSE]
  IN \/ ConversionFails /\ editor' = answered /\ Free(t)
     \/ /\ Unchanged /\ UNCHANGED faults
        /\ IF intent = None THEN editor' = marked /\ Free(t)
                            ELSE RunIntent(t, intent, marked)
     \/ /\ ~Unchanged /\ UNCHANGED faults
        /\ editor' = [answered EXCEPT !.busy = TRUE]
        /\ Invoke(t, "save", editor.doc, intent)

Save(t) ==
  /\ Start(t)
  /\ editor.location # None /\ editor.doc # None
  /\ SaveProject(t, None)
  /\ UNCHANGED <<hostVars, edits, excused, strayed>>

\* saveProjectAs reads the document before it asks for the directory.
SaveAs(t) ==
  /\ Start(t) /\ editor.doc # None
  /\ editor' = [editor EXCEPT !.busy = TRUE]
  /\ Ask(t, "choose", editor.doc, None)
  /\ UNCHANGED <<hostVars, edits, faults, excused, strayed>>

\* New, Open and Close: with unsaved work the question comes first.
Asks == Dirty

Request(t) ==
  /\ Start(t) /\ ~editor.busy /\ NoModal
  /\ \E intent \in {"choose", "open", "close"} :
       /\ intent = "close" => editor.doc # None
       /\ IF Asks
          THEN /\ editor' = [editor EXCEPT !.intent = intent]
               /\ UNCHANGED <<queue, task>>
          ELSE RunIntent(t, intent, editor)
  /\ UNCHANGED <<hostVars, edits, faults, excused, strayed>>

AnswerUnsavedQuestion(t) ==
  /\ Start(t) /\ editor.intent # None
  /\ \/ /\ editor.location # None
        /\ SaveProject(t, editor.intent)
        /\ UNCHANGED excused
     \/ /\ RunIntent(t, editor.intent, [editor EXCEPT !.intent = None])
        /\ excused' = excused \cup {editor.doc}
        /\ UNCHANGED faults
     \/ /\ editor' = [editor EXCEPT !.intent = None]
        /\ UNCHANGED <<queue, task, excused, faults>>
  /\ UNCHANGED <<hostVars, edits, strayed>>

(***************************************************************************)
(* The timer is armed by each change of the document and fires once.  No    *)
(* activity, question or offer holds it back: it may fire beside any file   *)
(* action, wherever that is.                                                *)
(***************************************************************************)
Autosave ==
  /\ task[Saver].stage = "free"
  /\ editor.location # None /\ Dirty /\ editor.timer
  /\ editor' = [editor EXCEPT !.timer = FALSE]
  /\ \/ /\ Invoke(Saver, "autosave", editor.doc, None)
        /\ UNCHANGED <<torn, faults>>
     \/ /\ ConversionFails /\ torn' = torn \cup {None}
        /\ UNCHANGED <<queue, task>>
  /\ UNCHANGED <<disk, slot, root, chosen, commit, edits, actions, excused,
                 misfiled, strayed>>

RestoredSaved(doc) == [Opened(doc) EXCEPT !.offered = None]
Restored(doc) ==
  [Opened(doc) EXCEPT !.saved = None, !.offered = None, !.timer = TRUE]

\* The offer is taken, cannot be parsed, or is declined.
AnswerRecoveryOffer(t) ==
  /\ Start(t) /\ editor.offered # None
  /\ \/ /\ editor.offered # Damaged
        /\ editor' = Restored(editor.offered)
        /\ strayed' = IF editor.offered.project = editor.doc.project
                      THEN strayed ELSE strayed \cup {editor.location}
        /\ UNCHANGED <<queue, task>>
     \/ /\ editor.offered = Damaged
        /\ editor' = [editor EXCEPT !.offered = None]
        /\ UNCHANGED <<queue, task, strayed>>
     \/ /\ editor' = [editor EXCEPT !.offered = None]
        /\ Invoke(t, "dismiss", None, None)
        /\ UNCHANGED strayed
  /\ UNCHANGED <<hostVars, edits, faults, excused>>

\* A confirmed capture is stored by the host, then filed, then saved.
StoreCapture(t) ==
  /\ Start(t)
  /\ editor.doc # None /\ NoModal /\ ~editor.doc.image
  /\ edits < MaxEdits
  /\ Invoke(t, "capture",
            [editor.doc EXCEPT !.edit = edits + 1, !.image = TRUE], None)
  /\ edits' = edits + 1
  /\ UNCHANGED <<hostVars, editor, faults, excused, strayed>>

(***************************************************************************)
(* The host.  Commands run one at a time under the workspace's mutex; a    *)
(* commit stages every file and then renames them one after the other,     *)
(* graphs first and the manifest last.                                     *)
(***************************************************************************)
\* Nothing depends on the answers to some commands.
Answer(t, ok, dir) ==
  task' = IF task[t].op \in {"autosave", "dismiss", "close"}
          THEN [task EXCEPT ![t] = Idle]
          ELSE [task EXCEPT ![t].stage = "done", ![t].ok = ok, ![t].dir = dir]

\* The recovery slot, when it is for the directory being opened.  The host
\* reads it; whether it can be parsed shows when the offer is taken.
Found(d) ==
  IF slot.origin # d \/ slot.manifest = None THEN None
  ELSE IF Loadable(slot) THEN Loaded(slot) ELSE Damaged

AnswerDialog(t) ==
  /\ task[t].stage = "dialog" /\ commit = None
  /\ \/ Answer(t, FALSE, None) /\ UNCHANGED <<root, chosen>>
     \/ \E d \in Dirs :
          /\ task[t].op = "choose" /\ disk[d] = NoFiles
          /\ chosen' = d /\ Answer(t, TRUE, d)
          /\ UNCHANGED root
     \/ \E d \in Dirs :
          /\ task[t].op = "open" /\ disk[d].manifest # None
          /\ root' = d
          /\ task' = [task EXCEPT ![t] =
               [@ EXCEPT !.stage = "done", !.ok = TRUE, !.dir = d,
                  !.doc = IF Loadable(disk[d]) /\ d \notin Unreadable
                          THEN Loaded(disk[d]) ELSE None,
                  !.old = disk[d].old, !.found = Found(d)]]
          /\ UNCHANGED chosen
  /\ UNCHANGED <<disk, slot, commit, torn, queue, editor, edits, actions, faults,
                 excused, misfiled, strayed>>

\* The directory a command is about; the commands that create one take it.
Target(op) == IF op \in {"create", "saveAs"} THEN chosen ELSE root

BeginCommit ==
  /\ queue # <<>> /\ commit = None
  /\ LET t == Head(queue)
         op == task[t].op
         target == Target(op)
     IN /\ op \in {"save", "create", "saveAs", "autosave"}
        /\ chosen' = IF op \in {"create", "saveAs"} THEN None ELSE chosen
        /\ IF target = None
           THEN /\ Answer(t, FALSE, None)
                /\ UNCHANGED <<disk, commit, torn, faults, misfiled>>
           ELSE \/ /\ disk' = IF op = "saveAs" /\ root # None
                              THEN [disk EXCEPT ![target].image =
                                                  disk[root].image]
                              ELSE disk
                   /\ commit' = [task |-> t, op |-> op, dir |-> target,
                                 doc |-> task[t].doc,
                                 left |-> IF op = "autosave"
                                          THEN Append(FilesOf(task[t].doc),
                                                      "origin")
                                          ELSE FilesOf(task[t].doc)]
                   /\ misfiled' = (misfiled \/ (op = "autosave" /\
                        disk[root].manifest.project # task[t].doc.project))
                   /\ UNCHANGED <<task, torn, faults>>
                \/ /\ faults < MaxFaults /\ faults' = faults + 1
                   /\ torn' = IF op = "autosave" THEN torn \cup {None} ELSE torn
                   /\ Answer(t, FALSE, None)
                   /\ UNCHANGED <<disk, commit, misfiled>>
  /\ queue' = Tail(queue)
  /\ UNCHANGED <<slot, root, editor, edits, actions, excused, strayed>>

\* Where a commit replaces files: None is the recovery slot.
Place(c) == IF c.op = "autosave" THEN None ELSE c.dir

Renamed(files, name) ==
  CASE name = "manifest" -> [files EXCEPT !.manifest = commit.doc, !.old = FALSE]
    [] name = "main" -> [files EXCEPT !.main = commit.doc]
    [] name = "extra" -> [files EXCEPT !.extra = commit.doc]
    [] name = "origin" ->
         [files EXCEPT !.origin = commit.dir,
                       !.extra = IF commit.doc.extra THEN @ ELSE None]

RenameFile ==
  /\ commit # None /\ commit.left # <<>>
  /\ \/ /\ IF commit.op = "autosave"
           THEN /\ slot' = Renamed(slot, Head(commit.left))
                /\ UNCHANGED disk
           ELSE /\ disk' = [disk EXCEPT ![commit.dir] =
                              Renamed(@, Head(commit.left))]
                /\ UNCHANGED slot
        /\ commit' = [commit EXCEPT !.left = Tail(@)]
        /\ UNCHANGED <<task, torn, faults>>
     \/ /\ faults < MaxFaults /\ faults' = faults + 1
        /\ commit' = None
        /\ torn' = torn \cup {Place(commit)}
        /\ Answer(commit.task, FALSE, None)
        /\ UNCHANGED <<disk, slot>>
  /\ UNCHANGED <<root, chosen, queue, editor, edits, actions, excused, misfiled,
                 strayed>>

EndCommit ==
  /\ commit # None /\ commit.left = <<>>
  /\ IF commit.op \in {"create", "saveAs"}
     THEN root' = commit.dir /\ slot' = EmptySlot
     ELSE UNCHANGED <<root, slot>>
  /\ torn' = torn \ {Place(commit)}
  /\ Answer(commit.task, TRUE, commit.dir)
  /\ commit' = None
  /\ UNCHANGED <<disk, chosen, queue, editor, edits, actions, faults, excused,
                 misfiled, strayed>>

\* The commands that write no project files.
CleanedUp(files) ==
  [files EXCEPT !.extra = IF files.manifest.extra THEN @ ELSE None,
                !.image = @ /\ files.manifest.image]

RunCommand ==
  /\ queue # <<>> /\ commit = None
  /\ LET t == Head(queue)
         op == task[t].op
     IN \/ /\ op \in {"discard", "dismiss"}
           /\ slot' = EmptySlot /\ Answer(t, TRUE, None)
           /\ UNCHANGED <<disk, root, chosen>>
        \/ /\ op = "close"
           /\ slot' = EmptySlot /\ root' = None /\ chosen' = None
           /\ Answer(t, TRUE, None)
           /\ UNCHANGED disk
        \/ /\ op = "cleanup"
           /\ disk' = IF root = None THEN disk
                      ELSE [disk EXCEPT ![root] = CleanedUp(@)]
           /\ Answer(t, root # None, None)
           /\ UNCHANGED <<slot, root, chosen>>
        \/ /\ op = "capture"
           /\ disk' = IF root = None THEN disk
                      ELSE [disk EXCEPT ![root].image = TRUE]
           /\ Answer(t, root # None, None)
           /\ UNCHANGED <<slot, root, chosen>>
  /\ queue' = Tail(queue)
  /\ UNCHANGED <<commit, torn, editor, edits, actions, faults, excused,
                 misfiled, strayed>>

(***************************************************************************)
(* What the interface does with each answer.                               *)
(***************************************************************************)
AfterChoice(t) ==
  /\ task[t].op = "choose"
  /\ \/ /\ ~task[t].ok /\ UNCHANGED faults
        /\ editor' = [editor EXCEPT !.busy = FALSE] /\ Free(t)
     \/ /\ task[t].ok /\ ConversionFails
        /\ editor' = [editor EXCEPT !.busy = FALSE] /\ Free(t)
     \/ /\ task[t].ok /\ UNCHANGED <<editor, faults>>
        /\ IF task[t].intent = "choose"
           THEN Invoke(t, "create", FirstDocument(task[t].dir), None)
           ELSE Invoke(t, "saveAs", task[t].doc, None)

\* The project just created or opened takes the place of the one shown.
Adopts(t) ==
  task[t].op \in {"create", "open"} /\ task[t].ok /\ task[t].doc # None

AfterCreate(t) ==
  /\ task[t].op = "create"
  /\ editor' = IF Adopts(t)
               THEN [Opened(task[t].doc) EXCEPT !.location = task[t].dir,
                       !.written = task[t].doc, !.migration = FALSE,
                       !.busy = FALSE]
               ELSE [editor EXCEPT !.busy = FALSE]
  /\ Free(t)

\* adoptOpenedProject, and the release of a project that cannot be parsed.
AfterOpen(t) ==
  /\ task[t].op = "open"
  /\ IF Adopts(t)
     THEN /\ editor' = [Opened(task[t].doc) EXCEPT
               !.location = task[t].dir, !.written = task[t].doc,
               !.migration = task[t].old, !.offered = task[t].found, !.busy = FALSE]
          /\ Free(t)
     ELSE /\ editor' = [editor EXCEPT !.busy = FALSE]
          /\ IF task[t].ok THEN Invoke(t, "close", None, None) ELSE Free(t)

Committed(t) ==
  [editor EXCEPT !.location = task[t].dir, !.written = task[t].doc,
                 !.migration = FALSE, !.saved = editor.doc, !.timer = FALSE,
                 !.busy = FALSE]

AfterSaveAnyway(t) ==
  /\ task[t].op = "save"
  /\ editor' = IF task[t].ok THEN Committed(t) ELSE [editor EXCEPT !.busy = FALSE]
  /\ Invoke(t, "discard", None, task[t].intent)

AfterSave(t) ==
  /\ task[t].op = "save"
  /\ IF task[t].ok
     THEN /\ editor' = Committed(t)
          /\ Invoke(t, "discard", None, task[t].intent)
     ELSE editor' = [editor EXCEPT !.busy = FALSE] /\ Free(t)

AfterSaveAs(t) ==
  /\ task[t].op = "saveAs"
  /\ IF task[t].ok
     THEN /\ editor' = [Committed(t) EXCEPT !.offered = None]
          /\ Invoke(t, "cleanup", None, None)
     ELSE editor' = [editor EXCEPT !.busy = FALSE] /\ Free(t)

AfterDiscard(t) ==
  /\ task[t].op = "discard"
  /\ editor' = [editor EXCEPT !.offered = None]
  /\ Invoke(t, "cleanup", None, task[t].intent)

AfterCleanup(t) ==
  /\ task[t].op = "cleanup"
  /\ IF task[t].intent = None
     THEN Free(t) /\ UNCHANGED editor
     ELSE RunIntent(t, task[t].intent, editor)

AfterCapture(t) ==
  /\ task[t].op = "capture"
  /\ IF /\ task[t].ok /\ editor.doc # None
        /\ editor.doc.project = task[t].doc.project
     THEN LET doc == [task[t].doc EXCEPT !.extra = editor.doc.extra]
          IN /\ editor' = [Edited(doc) EXCEPT !.busy = TRUE]
             /\ Invoke(t, "save", doc, None)
     ELSE UNCHANGED editor /\ Free(t)

Continue(t) ==
  /\ task[t].stage = "done"
  /\ \/ AfterChoice(t)
     \/ /\ \/ AfterCreate(t) \/ AfterOpen(t) \/ AfterSave(t) \/ AfterSaveAs(t)
           \/ AfterDiscard(t) \/ AfterCleanup(t) \/ AfterCapture(t)
        /\ UNCHANGED faults
  /\ excused' = IF Adopts(t) THEN {}
                ELSE IF editor'.written = editor.written THEN excused
                ELSE excused \ {editor'.written}
  /\ UNCHANGED <<hostVars, edits, actions, strayed>>

(***************************************************************************)
(* The application dies and is started again; the disk stays.              *)
(***************************************************************************)
Crash ==
  /\ faults < MaxFaults /\ faults' = faults + 1
  /\ torn' = IF commit # None /\ commit.left # <<>>
             THEN torn \cup {Place(commit)} ELSE torn
  /\ root' = None /\ chosen' = None /\ commit' = None
  /\ queue' = <<>> /\ editor' = Closed
  /\ task' = [t \in Actors |-> Idle]
  /\ excused' = {}
  /\ UNCHANGED <<disk, slot, edits, actions, misfiled, strayed>>

Next ==
  \/ Edit \/ Undo \/ Redo
  \/ \E t \in Tasks : \/ Save(t) \/ SaveAs(t) \/ Request(t)
                      \/ AnswerUnsavedQuestion(t)
                      \/ AnswerRecoveryOffer(t) \/ StoreCapture(t)
                      \/ AnswerDialog(t) \/ Continue(t)
  \/ Autosave
  \/ BeginCommit \/ RenameFile \/ EndCommit \/ RunCommand
  \/ Crash

Spec == Init /\ [][Next]_vars
-----------------------------------------------------------------------------
TypeOK ==
  /\ \A d \in Dirs :
       /\ disk[d].manifest \in Documents \cup {None}
       /\ disk[d].main \in Documents \cup {None}
       /\ disk[d].extra \in Documents \cup {None}
       /\ {disk[d].image, disk[d].old} \subseteq BOOLEAN
  /\ slot.origin \in Dirs \cup {None}
  /\ {root, chosen, editor.location} \subseteq Dirs \cup {None}
  /\ {editor.doc, editor.saved, editor.written} \subseteq Documents \cup {None}
  /\ editor.offered \in Documents \cup {None, Damaged}
  /\ queue \in Seq(Actors) /\ Len(queue) <= Cardinality(Actors)
  /\ torn \subseteq Dirs \cup {None} /\ strayed \subseteq Dirs

\* Whatever commit is cut short by a failed rename or by the death of the
\* application, every directory that has a manifest opens: the graph files it
\* names are there and are of its project.  Excepted is a directory for which
\* the user restored the work of another project (see OfferedIsOwn).
ProjectsStayLoadable ==
  \A d \in Dirs \ strayed : disk[d].manifest # None => Loadable(disk[d])

\* A commit of a file action is being executed or its answer is on its way.
CommitUnderWay ==
  \/ commit # None /\ commit.op # "autosave"
  \/ \E t \in Tasks : task[t].stage = "done" /\ task[t].ok
                      /\ task[t].op \in {"save", "saveAs", "create"}

\* The text the interface remembers as written, against which it decides to
\* skip a save, is what the project's directory holds, and a directory still
\* in the older format is known to be.
WrittenIsOnDisk ==
  (editor.location # None /\ editor.location \notin torn /\ ~CommitUnderWay)
    => /\ Loadable(disk[editor.location])
       /\ Loaded(disk[editor.location]) = editor.written
       /\ disk[editor.location].old => editor.migration

\* A document shown as saved is in its directory, unless it was made while a
\* file action was under way: that action marks what it finds as saved.
CleanIsOnDisk ==
  (/\ editor.doc # None /\ ~Dirty /\ editor.doc \notin excused
   /\ editor.location # None /\ editor.location \notin torn
   /\ ~CommitUnderWay)
    => /\ Loadable(disk[editor.location])
       /\ Loaded(disk[editor.location]) = editor.doc

\* Unsaved work that has rested for the quiet period is in the recovery slot,
\* under the directory it belongs to.
PausedEditsAreRecoverable ==
  (/\ Dirty /\ ~editor.timer /\ editor.location # None /\ None \notin torn
   /\ \A t \in Actors : task[t].stage = "free")
    => /\ slot.origin = editor.location
       /\ Loadable(slot) /\ Loaded(slot) = editor.doc

\* The same as long as the host has the editor's project open: opening a
\* project that cannot be parsed releases the one before.
AutosavedIsRecoverable == root = editor.location => PausedEditsAreRecoverable

\* New or Open replaces the document, or Close puts it away.
Replaces ==
  /\ editor.doc # None /\ editor'.doc # editor.doc
  /\ \/ editor'.doc = None /\ faults' = faults
     \/ \E t \in Tasks : Adopts(t) /\ editor'.doc = task[t].doc

\* When the document is replaced or put away, it is in its directory, or the
\* user gave it up, or it was made behind the dialog.
ReplacedIsSafe ==
  Replaces => \/ editor.doc \in excused \cup excused'
              \/ editor.location \in torn
              \/ Loaded(disk[editor.location]) = editor.doc

\* No commit replaces one project's manifest by another project's.
OwnDirectory ==
  \A d \in Dirs \ strayed : disk[d].manifest # None =>
    disk'[d].manifest.project = disk[d].manifest.project

\* No step takes work out of the editor or off the disk that the user has
\* neither saved, nor given up, nor asked to be replaced.
NoWorkIsLost == [][ReplacedIsSafe /\ OwnDirectory]_vars

\* The work offered back on opening a project is that project's, as the
\* comment on read_recovery_for and PROJECT_IO.md have it.
OfferedIsOwn ==
  editor.offered \notin {None, Damaged} =>
    editor.offered.project = editor.doc.project

\* There are two ways in which another project's work is offered all the same:
\* an autosave filed under the project being opened, and an autosave cut short
\* between its files and the record of their origin.  There is no third.
OfferedIsOwnOtherwise == ~misfiled /\ None \notin torn => OfferedIsOwn

\* The directory, the editor and the recovery slot agree on what is on disk,
\* whichever renames, answers, crashes and autosaves come beside one file action
\* at a time; the wrong offers OfferedIsOwnOtherwise names are excepted.
FilesAgree == /\ TypeOK /\ ProjectsStayLoadable /\ WrittenIsOnDisk
              /\ OfferedIsOwnOtherwise
=============================================================================
