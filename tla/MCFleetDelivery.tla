--------------------------- MODULE MCFleetDelivery ---------------------------
(* FleetDelivery with few workers, calls and payload slots.  TurnLog shares no  *)
(* state with it and is checked beside it: a behaviour follows one of the two   *)
(* and leaves the other in its initial state.                                   *)
EXTENDS FleetDelivery, TurnLog

CONSTANT Followed
VARIABLE followed

FollowsFleet == followed = "fleet" /\ Next /\ UNCHANGED <<followed, logVars>>
FollowsTurns == followed = "turns" /\ LogNext /\ UNCHANGED <<followed, vars>>

MCInit == followed \in Followed /\ Init /\ LogInit /\ (followed = "turns" => surface = "tui")
MCNext == FollowsFleet \/ FollowsTurns
MCSpec == MCInit /\ [][MCNext]_<<followed, vars, logVars>>
=============================================================================
