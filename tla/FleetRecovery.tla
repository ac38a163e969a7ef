--------------------------- MODULE FleetRecovery ----------------------------
\* spawn_agent with `recovers`: a worker that failed for a transient reason may be
\* replaced once.  The replacement claims the failure record before it launches, and
\* every exit that never launches it must give the claim back.
EXTENDS Naturals, FiniteSets

CONSTANTS
  Spawns,       \* spawn_agent calls that name the failed worker
  Eligible,     \* the claim of a record that nobody has claimed
  NoRecord      \* the claim when the worker has gone on and has no record

ASSUME SpawnsAssumption == Eligible \notin Spawns /\ NoRecord \notin Spawns /\ Eligible # NoRecord

VARIABLES
  claim,        \* recovery.replacement_id in the failure record
  resident,     \* the failed worker's session is in the store
  spawnAt,      \* where each call is
  halted,       \* replacements interrupted, closed or cancelled before they ran
  launched      \* replacements whose run() has been called

recoveryVars == <<claim, resident, spawnAt, halted, launched>>

RecoveryInit ==
  /\ claim = Eligible /\ resident = TRUE
  /\ spawnAt = [r \in Spawns |-> "idle"]
  /\ halted = {} /\ launched = {}

\* (mutant) A refund does not look at whose claim it gives back.
RefundedByAnyone(r) ==
  IF r \in launched \/ claim = NoRecord THEN claim ELSE Eligible

\* refundUnlaunchedRecovery: only the claimant refunds its claim, and never once
\* run() has been called.
Refunded(r) == IF r \notin launched /\ claim = r THEN Eligible ELSE claim

SpawnTo(r, pc) == spawnAt' = [spawnAt EXCEPT ![r] = pc]

\* recoveryRefusal and claimRecovery, with nothing awaited in between.
Claims(r) ==
  /\ spawnAt[r] = "idle"
  /\ IF claim = Eligible
     THEN claim' = r /\ SpawnTo(r, "admission")
     ELSE SpawnTo(r, "refused") /\ UNCHANGED claim
  /\ UNCHANGED <<resident, halted, launched>>

\* The admission queue starts it: into the worktree setup, or straight into run().
\* A replacement halted while it was queued has been taken off the queue.
Admitted(r, worktree) ==
  /\ spawnAt[r] = "admission"
  /\ IF worktree THEN SpawnTo(r, "worktree") /\ UNCHANGED launched
     ELSE SpawnTo(r, "run") /\ launched' = launched \union {r}
  /\ UNCHANGED <<claim, resident, halted>>

\* (mutant) An exit of the launch keeps the claim.
WorktreeFailsKeeping(r) ==
  /\ spawnAt[r] = "worktree"
  /\ SpawnTo(r, "ended")
  /\ UNCHANGED <<claim, resident, halted, launched>>

WorktreeFails(r) ==
  /\ spawnAt[r] = "worktree"
  /\ claim' = Refunded(r)
  /\ SpawnTo(r, "ended")
  /\ UNCHANGED <<resident, halted, launched>>

\* An interrupt may have landed while the worktree was set up.
WorktreeReady(r) ==
  /\ spawnAt[r] = "worktree"
  /\ IF r \in halted
     THEN claim' = Refunded(r) /\ SpawnTo(r, "ended") /\ UNCHANGED launched
     ELSE launched' = launched \union {r} /\ SpawnTo(r, "run") /\ UNCHANGED claim
  /\ UNCHANGED <<resident, halted>>

\* The cancel hook: interrupt_agent, close_agent and cancelAll call it.
Halts(r) ==
  /\ spawnAt[r] \in {"admission", "worktree", "run"} /\ r \notin halted
  /\ halted' = halted \union {r}
  /\ claim' = Refunded(r)
  /\ IF spawnAt[r] = "admission" THEN SpawnTo(r, "ended") ELSE UNCHANGED spawnAt
  /\ UNCHANGED <<resident, launched>>

RunSettles(r) ==
  /\ spawnAt[r] = "run"
  /\ SpawnTo(r, "ended")
  /\ UNCHANGED <<claim, resident, halted, launched>>

\* The failed worker is steered or resumed: its record goes, and a later failure of
\* the same worker is not retryable.
WorkerGoesOn ==
  /\ resident /\ claim # NoRecord
  /\ claim' = NoRecord
  /\ UNCHANGED <<resident, spawnAt, halted, launched>>

\* The failed worker is evicted: from here on its record lives on the overlay.
WorkerIsEvicted ==
  /\ resident /\ resident' = FALSE
  /\ UNCHANGED <<claim, spawnAt, halted, launched>>

-----------------------------------------------------------------------------
RecoveryNext ==
  \/ \E r \in Spawns :
       \/ Claims(r) \/ (\E worktree \in BOOLEAN : Admitted(r, worktree))
       \/ WorktreeFails(r) \/ WorktreeReady(r) \/ Halts(r) \/ RunSettles(r)
  \/ WorkerGoesOn \/ WorkerIsEvicted

RecoverySpec == RecoveryInit /\ [][RecoveryNext]_recoveryVars

-----------------------------------------------------------------------------
\* "One replacement per failed worker": of all the calls that name a failed worker,
\* at most one ever runs, however claims, refunds and late settlements interleave.
OneReplacementRuns == Cardinality(launched) <= 1

\* A claimed record is never frozen on a replacement that does not exist: whoever
\* claimed it has launched or can still launch.
ClaimIsHonest ==
  claim \in Spawns =>
    \/ claim \in launched
    \/ claim \notin halted /\ spawnAt[claim] # "ended"
=============================================================================
