---------------------------- MODULE OrderedNode ----------------------------
(***************************************************************************)
(* What a node of the graph promises its neighbours, whatever the number   *)
(* of invocations it runs in parallel: it claims its inputs in order,      *)
(* announces their timestamps downstream in the same order and without     *)
(* gaps, and closes its output only when everything it claimed has been    *)
(* announced - or when the graph has been stopped.                         *)
(***************************************************************************)
EXTENDS Integers

CONSTANT Inputs   \* bound: packets received in a run

VARIABLES
    received,   \* packets delivered to the node
    ended,      \* its input is closed
    claimed,    \* invocations started
    announced,  \* timestamps below this one are settled for the consumer
    phase,      \* "open", "closing" or "closed"
    halted      \* the graph is cancelled or has failed

vars == <<received, ended, claimed, announced, phase, halted>>

Init ==
    /\ received = 0 /\ claimed = 0 /\ announced = 0
    /\ ended = FALSE /\ halted = FALSE
    /\ phase = "open"

Receive ==
    /\ ~ended /\ ~halted /\ received < Inputs
    /\ received' = received + 1
    /\ UNCHANGED <<ended, claimed, announced, phase, halted>>

End ==
    /\ ~ended
    /\ ended' = TRUE
    /\ UNCHANGED <<received, claimed, announced, phase, halted>>

\* A claim that has passed the check of the stop flags goes ahead.
Claim ==
    /\ phase = "open"
    /\ claimed < received
    /\ claimed' = claimed + 1
    /\ UNCHANGED <<received, ended, announced, phase, halted>>

Announce ==
    /\ phase = "open"
    /\ announced < claimed
    /\ announced' = announced + 1
    /\ UNCHANGED <<received, ended, claimed, phase, halted>>

Halt ==
    /\ ~halted
    /\ halted' = TRUE
    /\ UNCHANGED <<received, ended, claimed, announced, phase>>

StartClose ==
    /\ phase = "open"
    /\ halted \/ (ended /\ announced = claimed /\ claimed = received)
    /\ phase' = "closing"
    /\ UNCHANGED <<received, ended, claimed, announced, halted>>

EndClose ==
    /\ phase = "closing"
    /\ phase' = "closed"
    /\ UNCHANGED <<received, ended, claimed, announced, halted>>

Next == Receive \/ End \/ Claim \/ Announce \/ Halt \/ StartClose \/ EndClose

Spec == Init /\ [][Next]_vars

=============================================================================
