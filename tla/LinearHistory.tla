---------------------------- MODULE LinearHistory ----------------------------
(***************************************************************************)
(* What an editing history promises its user: the document moves along one *)
(* line of documents.  An edit replaces whatever lay ahead, undoing and    *)
(* redoing move back and forth over the very documents that were there,    *)
(* and only the oldest MaxHistory steps back are kept                      *)
(* (apps/desktop/src/graph/commands/command-history.ts, which keeps        *)
(* commands and their inverses and no documents, is to implement this).    *)
(***************************************************************************)
EXTENDS Naturals, Sequences, SequencesExt

CONSTANT MaxHistory  \* a positive number

VARIABLES
  past,     \* documents that undoing returns to, the nearest last
  present,  \* the document
  future    \* documents that redoing returns to, the nearest last

vars == <<past, present, future>>

(***************************************************************************)
(* The last MaxHistory elements of a sequence.                             *)
(***************************************************************************)
Kept(s) == IF Len(s) > MaxHistory
             THEN SubSeq(s, Len(s) - MaxHistory + 1, Len(s))
             ELSE s

Init == past = <<>> /\ future = <<>>

Edit == past' = Kept(Append(past, present)) /\ future' = <<>>

Undo ==
  /\ past # <<>>
  /\ present' = Last(past)
  /\ past' = Front(past)
  /\ future' = Append(future, present)

Redo ==
  /\ future # <<>>
  /\ present' = Last(future)
  /\ future' = Front(future)
  /\ past' = Append(past, present)

Next == Edit \/ Undo \/ Redo

Spec == Init /\ [][Next]_vars
=============================================================================
