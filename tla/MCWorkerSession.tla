--------------------------- MODULE MCWorkerSession ---------------------------
(* WorkerSession for TLC; the configurations bound the parent's inputs and say  *)
(* whether the admission window can be full.  RunRecords, and FleetDelivery     *)
(* with one worker on the interactive surface, share no state with it and are   *)
(* checked beside it: a behaviour follows one of the three and leaves the       *)
(* others in their initial states.                                              *)
EXTENDS WorkerSession, RunRecords

CONSTANT Followed
VARIABLE followed

VARIABLES surface, lanes, box, mail, dry, delivering, op, busy, run, paused, drove,
          read, calls

\* One worker and two calls: what FleetDelivery promises of each worker in the end.
Delivery == INSTANCE FleetDelivery WITH N <- 1, MaxCalls <- 2, MaxRecords <- 1

fleetVars == <<surface, lanes, box, mail, dry, delivering, op, busy, run, paused, drove,
               read, calls>>

Follows(part) == followed = part /\ UNCHANGED followed

FollowsWorker == Follows("worker") /\ Next /\ UNCHANGED <<recordVars, fleetVars>>
FollowsRecords == Follows("records") /\ RecordNext /\ UNCHANGED <<vars, fleetVars>>
FollowsFleet == Follows("fleet") /\ Delivery!Next /\ UNCHANGED <<vars, recordVars>>

MCInit ==
  /\ followed \in Followed
  /\ Init /\ RecordInit /\ Delivery!Init
  /\ surface = "tui"
MCNext == FollowsWorker \/ FollowsRecords \/ FollowsFleet
mcVars == <<followed, vars, recordVars, fleetVars>>
MCSpec == MCInit /\ [][MCNext]_mcVars

\* Each part's fairness asks for nothing in that part's initial states, where none of the
\* steps it names is enabled, and so for nothing while another part is followed.
MCFair == MCSpec /\ Fairness /\ Delivery!Fairness

\* A result is collected in the end or the operator has paused (FleetDelivery's
\* ResultIsDelivered; mailbox-mail-drive.ts and fleet-dry-drive.ts).
ResultIsDelivered == Delivery!ResultIsDelivered
=============================================================================
