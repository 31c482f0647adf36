------------------------------ MODULE RunSlot ------------------------------
(***************************************************************************)
(* What the runtime promises about graph runs, whatever threads carry it   *)
(* out: one slot, taken by one run at a time; a run occupies it at most    *)
(* once; while it does it may be asked to cancel, once and for all; it     *)
(* leaves with one verdict, and `cancelled' is a verdict only of a run     *)
(* that was asked; the latest verdict is what the runtime remembers.       *)
(***************************************************************************)
CONSTANTS Runs, NoRun

VARIABLES slot,     \* the run that occupies the slot, or NoRun
          asked,    \* the runs that have been asked to cancel
          verdict,  \* the verdict each run left with, "gone", or "none"
          latest    \* the run that left with a verdict most recently, or NoRun

vars == <<slot, asked, verdict, latest>>

Verdicts == {"succeeded", "failed", "cancelled"}

(* A run that holds the slot, or has held it, is not fresh.                *)
Fresh(r) == r # slot /\ verdict[r] = "none"

Init == /\ slot = NoRun
        /\ asked = {}
        /\ verdict = [r \in Runs |-> "none"]
        /\ latest = NoRun

Reserve(r) == /\ slot = NoRun
              /\ Fresh(r)
              /\ slot' = r
              /\ UNCHANGED <<asked, verdict, latest>>

Ask(r) == /\ slot = r
          /\ asked' = asked \cup {r}
          /\ UNCHANGED <<slot, verdict, latest>>

Finish(r, v) == /\ slot = r
                /\ v = "cancelled" => r \in asked
                /\ slot' = NoRun
                /\ verdict' = [verdict EXCEPT ![r] = v]
                /\ latest' = r
                /\ UNCHANGED asked

(* A run that was reserved and is released without ever starting.          *)
Release(r) == /\ slot = r
              /\ slot' = NoRun
              /\ asked' = asked \cup {r}
              /\ verdict' = [verdict EXCEPT ![r] = "gone"]
              /\ UNCHANGED latest

Next == \E r \in Runs : \/ Reserve(r)
                        \/ Ask(r)
                        \/ \E v \in Verdicts : Finish(r, v)
                        \/ Release(r)

Spec == Init /\ [][Next]_vars
=============================================================================
