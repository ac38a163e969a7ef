--------------------------- MODULE WorkerLifecycle ---------------------------
(***************************************************************************)
(* The stored worker lifecycle and its projections:                        *)
(* src/src/subagent/lifecycle.ts.  "absent" is a session the store does    *)
(* not hold (never started, pruned, cleared); "not_found" is never stored. *)
(***************************************************************************)
States == {"absent", "pending_init", "running", "completed", "failed",
           "interrupted", "cancelled", "shutdown"}

RunEligible == {"pending_init", "running"}       \* a run may still be attached
LiveStrip == RunEligible \cup {"interrupted"}    \* the strip still shows running
AlreadyClosed == {"failed", "shutdown"}

Resumable(retained, st) == retained /\ st \in {"completed", "interrupted"}

\* projectStripStatus; a shutdown reads as done only with a report and no error.
StripStatus(st, report, error) ==
    IF st \in LiveStrip THEN "running"
    ELSE IF st = "completed" \/ (st = "shutdown" /\ report /\ ~error) THEN "done"
    ELSE IF st = "failed" THEN "failed" ELSE "cancelled"

\* projectWaitStatus
WaitStatus(st, inFlight) ==
    IF \/ st \in RunEligible
       \/ inFlight /\ st \in {"cancelled", "completed", "interrupted"}
    THEN "running"
    ELSE IF st = "completed" THEN "done"
    ELSE IF st = "failed" THEN "failed" ELSE "interrupted"
=============================================================================
