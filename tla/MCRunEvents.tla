----------------------------- MODULE MCRunEvents -----------------------------
(* Small instances of RunEvents for TLC.                                   *)
EXTENDS RunEvents

CONSTANTS r1, r2

\* Two attempts to run, one of them cancellable, and one request given up.
TwoRuns == [runs |-> {r1, r2}, cancellable |-> {r2},
            nodeEvents |-> 0, callbacks |-> 0, timeouts |-> 1]

\* One run with an event of its nodes and one of the callback thread.
Frames == [runs |-> {r1}, cancellable |-> {}, nodeEvents |-> 1, callbacks |-> 1,
           timeouts |-> 0]

\* The same run cancelled while an event of its nodes is under way.
CancelledFrames == [Frames EXCEPT !.cancellable = {r1}, !.callbacks = 0]

AllScenarios == {TwoRuns, Frames, CancelledFrames}
=============================================================================
