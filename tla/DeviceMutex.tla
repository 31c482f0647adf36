---------------------------- MODULE DeviceMutex ----------------------------
(***************************************************************************)
(* What the device leases promise: a caller asks for one device, is let in *)
(* when nobody holds that device, or gives up; callers of different        *)
(* devices never wait for each other.                                      *)
(***************************************************************************)
CONSTANTS Callers, Keys

VARIABLES state,   \* out, waiting or holding
          device   \* the device a caller asked for last

vars == <<state, device>>

Init == /\ state = [c \in Callers |-> "out"]
        /\ device \in [Callers -> Keys]

Ask(c, k) == /\ state[c] = "out"
             /\ state' = [state EXCEPT ![c] = "waiting"]
             /\ device' = [device EXCEPT ![c] = k]

LetIn(c) == /\ state[c] = "waiting"
            /\ \A d \in Callers : state[d] = "holding" => device[d] # device[c]
            /\ state' = [state EXCEPT ![c] = "holding"]
            /\ UNCHANGED device

GoOut(c) == /\ state[c] \in {"waiting", "holding"}
            /\ state' = [state EXCEPT ![c] = "out"]
            /\ UNCHANGED device

Next == \E c \in Callers : (\E k \in Keys : Ask(c, k)) \/ LetIn(c) \/ GoOut(c)

Spec == Init /\ [][Next]_vars
=============================================================================
