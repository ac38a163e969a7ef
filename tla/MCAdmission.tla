----------------------------- MODULE MCAdmission -----------------------------
\* Instances of Admission for TLC: jobs j1..j3 on two providers, one nested.  Three
\* more services of the host share no state with it and are checked beside it: a
\* behaviour follows one of the four and leaves the others in their initial states.
EXTENDS Admission, OperatorDelivery, FleetRecovery, BackgroundShells, TLC

CONSTANTS Followed, j1, j2, j3, pa, pb, r1, r2, r3, s1, s2

VARIABLE followed

MCProviderOf == (j1 :> pa) @@ (j2 :> pa) @@ (j3 :> pb)

MCCapacityInputs == {-1, 0, 1, 2}

Follows(service) == followed = service /\ UNCHANGED followed

FollowsAdmission ==
  Follows("admission") /\ Next /\ UNCHANGED <<deliveryVars, recoveryVars, shellVars>>
FollowsDelivery ==
  Follows("delivery") /\ DeliveryNext /\ UNCHANGED <<vars, recoveryVars, shellVars>>
FollowsRecovery ==
  Follows("recovery") /\ RecoveryNext /\ UNCHANGED <<vars, deliveryVars, shellVars>>
FollowsShells ==
  Follows("shells") /\ ShellsNext /\ UNCHANGED <<vars, deliveryVars, recoveryVars>>

MCInit ==
  /\ followed \in Followed
  /\ Init /\ DeliveryInit /\ RecoveryInit /\ ShellsInit
  /\ followed # "admission" => capacity = 0
MCNext ==
  \/ FollowsAdmission \/ FollowsDelivery \/ FollowsRecovery \/ FollowsShells
mcVars == <<followed, vars, deliveryVars, recoveryVars, shellVars>>
MCSpec == MCInit /\ [][MCNext]_mcVars

\* Each service's own fairness, owed while it is the one followed.
MCFairness ==
  /\ WF_vars(Follows("admission") /\ DrainNext)
  /\ WF_vars(Follows("admission") /\ DrainStop)
  /\ SF_vars(Follows("admission") /\ DrainTimerFires)
  /\ WF_vars(Follows("admission") /\ Tick)
  /\ \A j \in Jobs : SF_vars(Follows("admission") /\ j \in inFlight /\ Release(j))
  /\ WF_deliveryVars(Follows("delivery") /\ TaskStep)
  /\ WF_deliveryVars(Follows("delivery") /\ Infers)
  /\ WF_deliveryVars(Follows("delivery") /\ TurnEnds)
  /\ \A s \in Shells : WF_shellVars(Follows("shells") /\ GraceEnds(s))
  /\ \A s \in Shells : WF_shellVars(Follows("shells") /\ s \in ending /\ Exits(s))

MCFair == MCSpec /\ MCFairness
=============================================================================
