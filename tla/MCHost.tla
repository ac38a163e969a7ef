------------------------------- MODULE MCHost -------------------------------
\* The host's services for TLC.  They share no state, so a behaviour follows one of
\* them and leaves the others in their initial states: the states TLC visits are
\* those of every service, not their product.
EXTENDS ApprovalResume, TokenRefresh, CompactionLifecycle, WorkerGrants

CONSTANTS
  Followed,     \* the services followed
  c1, c2, p1, p2, r1, r2, r3

VARIABLE followed

hostVars == <<followed, vars, refreshVars, compactVars, grantVars>>

Budget(calls, bumps, reloads, faults) ==
  [calls |-> calls, bumps |-> bumps, reloads |-> reloads, faults |-> faults]

\* One call with every fault, one call across a reload, two calls that share the host.
MCBudgets ==
  { Budget({c1}, 2, 0, TRUE), Budget({c1}, 1, 1, TRUE), Budget({c1, c2}, 1, 0, FALSE) }

HostInit ==
  /\ followed \in Followed
  /\ Init /\ RefreshInit /\ CompactInit /\ GrantInit
  /\ followed # "approvals" => left = Budget({c1}, 2, 0, TRUE)
  /\ followed # "refresh" => lock = Absent

Follows(service) == followed = service /\ UNCHANGED followed

\* The calls are interchangeable: the first to park is c1.
FollowsApprovals ==
  /\ Follows("approvals") /\ Next /\ UNCHANGED <<refreshVars, compactVars, grantVars>>
  /\ disk'[c2] # "none" => disk'[c1] # "none"
FollowsRefresh ==
  Follows("refresh") /\ RefreshNext /\ UNCHANGED <<vars, compactVars, grantVars>>
FollowsCompaction ==
  Follows("compaction") /\ CompactNext /\ UNCHANGED <<vars, refreshVars, grantVars>>
FollowsGrants ==
  Follows("grants") /\ GrantNext /\ UNCHANGED <<vars, refreshVars, compactVars>>

HostNext ==
  \/ FollowsApprovals \/ FollowsRefresh \/ FollowsCompaction \/ FollowsGrants

HostSpec == HostInit /\ [][HostNext]_hostVars

\* Each service's own fairness, owed while it is the one followed.
HostFairness ==
  /\ WF_vars(Follows("approvals") /\ OpStep)
  /\ \A c \in Calls : WF_vars(Follows("approvals") /\ Settlement(c))
  /\ WF_refreshVars(Follows("refresh") /\ LockAges)
  /\ \A p \in Procs : WF_refreshVars(Follows("refresh") /\ ProcSteps(p))

FairHostSpec == HostSpec /\ HostFairness
=============================================================================
