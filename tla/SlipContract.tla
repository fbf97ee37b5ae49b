---------------------------- MODULE SlipContract -----------------------------
(***************************************************************************)
(* What a routing slip promises to whoever executes it, without events,    *)
(* cursors or catch blocks: work goes forward one position at a time until *)
(* it is turned back once; going back, positions are undone newest first;  *)
(* and only a slip that was never turned back resolves, unless the slip is *)
(* executed in distributed mode.                                           *)
(* docs/ROUTING_SLIPS.md and docs/COMPENSATION.md promise one undo for     *)
(* each position, the code keeps the weaker MaxUndo = 2.                   *)
(***************************************************************************)
EXTENDS Integers

CONSTANTS
    Activities,     \* length of the itinerary
    Compensatable,  \* positions that can be undone
    MaxUndo,        \* how often one position may be undone
    BackwardResolves \* a slip that was turned back may resolve

VARIABLES
    phase,          \* "forward", "backward", "resolved" or "rejected"
    completed,      \* number of completed positions
    undone          \* how often each position was undone

cvars == <<phase, completed, undone>>

Init ==
    /\ phase = "forward"
    /\ completed = 0
    /\ undone = [i \in 1 .. Activities |-> 0]

Complete ==
    /\ phase = "forward"
    /\ completed < Activities
    /\ completed' = completed + 1
    /\ UNCHANGED <<phase, undone>>

TurnBack ==
    /\ phase = "forward"
    /\ phase' = "backward"
    /\ UNCHANGED <<completed, undone>>

\* Undo a position that every newer one is ahead of.
Undo(i) ==
    /\ phase = "backward"
    /\ i \in Compensatable
    /\ i <= completed
    /\ undone[i] < MaxUndo
    /\ \A j \in Compensatable : i < j /\ j <= completed => undone[i] < undone[j]
    /\ undone' = [undone EXCEPT ![i] = @ + 1]
    /\ UNCHANGED <<phase, completed>>

Resolve ==
    /\ phase = "forward" \/ (BackwardResolves /\ phase = "backward")
    /\ phase' = "resolved"
    /\ UNCHANGED <<completed, undone>>

Reject ==
    /\ phase \in {"forward", "backward"}
    /\ phase' = "rejected"
    /\ UNCHANGED <<completed, undone>>

Next ==
    \/ Complete \/ TurnBack \/ Resolve \/ Reject
    \/ \E i \in 1 .. Activities : Undo(i)

Spec == Init /\ [][Next]_cvars /\ WF_cvars(Resolve \/ Reject)
=============================================================================
