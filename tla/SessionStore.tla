----------------------------- MODULE SessionStore -----------------------------
(***************************************************************************)
(* One session of createSubAgentSessionStore                               *)
(* (src/src/subagent/session-store.ts) as a record, and the store's        *)
(* transitions on it as functions from record to record, composed in the   *)
(* order the code calls them.  A record holds what the store's maps hold   *)
(* under one id; calls and launch collect the hooks the transition calls   *)
(* and the follow-ups it sends, in order, for the action that uses it.     *)
(* Hooks never settle anything before they return: an abort only rejects   *)
(* promises.                                                               *)
(***************************************************************************)
EXTENDS Sequences, WorkerLifecycle

\* "deadline" stands for every other forced stop reason, "error" for the
\* reasons outside FORCED_STOP_REASONS.
ForcedStops == {"cancelled", "deadline", "interrupted"}
Stops == ForcedStops \cup {"none", "error"}

Causes == {"unset", "error", "retryable"}
Handoffs == {"none", "unavailable", "submitted", "delivered"}
Classes == {"error", "retryable"} \cup ForcedStops

NoRecord == [class |-> "none", followup |-> FALSE, handoff |-> "none"]
FailureRecords == [class : Classes, followup : BOOLEAN, handoff : Handoffs]

Unstarted ==
    [st |-> "absent",       \* lifecycle.state
     retained |-> FALSE,
     report |-> FALSE,      \* session.report is set
     error |-> FALSE,       \* session.error is set
     stop |-> "none",       \* stopReason
     failure |-> NoRecord,
     inFlight |-> FALSE,    \* runInFlight
     followups |-> FALSE,   \* followupTurns
     ask |-> FALSE,         \* pendingAsks
     trace |-> "none",      \* handoffTraces
     caught |-> "unset",    \* terminalHandoffs
     cause |-> "unset",     \* pendingFailures
     turnHooks |-> FALSE,   \* interrupt, followup and deliver handles
     closeHook |-> FALSE,   \* closeHandles
     cancelHook |-> "none", \* cancelHandles: spawn's abort or a queued resume's dequeue
     stash |-> <<>>,        \* stashedFollowups
     calls |-> {},
     launch |-> <<>>]

\* SubAgentSessionStore.start for a fresh id, spawn_agent's retained: true.
StartSession == [Unstarted EXCEPT !.st = "pending_init", !.retained = TRUE]

-----------------------------------------------------------------------------
CurrentHandoff(s) == IF s.ask THEN "unavailable" ELSE s.trace

\* terminalFailureClass; "none" is undefined.
FailureClass(s) ==
    LET forced == IF s.stop \in ForcedStops THEN s.stop ELSE "none"
    IN  CASE s.st = "failed" -> IF s.cause = "unset" THEN "error" ELSE s.cause
          [] s.st = "cancelled" -> "cancelled"
          [] s.st = "interrupted" -> IF s.cause = "unset" THEN forced ELSE s.cause
          [] s.st \in {"completed", "shutdown"} -> forced
          [] OTHER -> "none"

\* (mutant) a later settlement rewrites the record.
ReconcileRewrites(s) ==
    IF s.st \in RunEligible \/ FailureClass(s) = "none"
    THEN [s EXCEPT !.failure = NoRecord]
    ELSE [s EXCEPT !.failure = [class |-> FailureClass(s), followup |-> s.followups,
                                handoff |-> CurrentHandoff(s)],
                   !.caught = "unset", !.cause = "unset"]

\* reconcileTerminalRecord
Reconcile(s) ==
    IF s.st \in RunEligible THEN [s EXCEPT !.failure = NoRecord]
    ELSE IF s.failure # NoRecord THEN s
    ELSE [s EXCEPT
            !.failure = IF FailureClass(s) = "none" THEN NoRecord
                        ELSE [class |-> FailureClass(s),
                              followup |-> s.followups,
                              handoff |-> IF s.caught = "unset"
                                          THEN CurrentHandoff(s) ELSE s.caught],
            !.caught = "unset",
            !.cause = "unset"]

\* enforceSettledRunInvariant
EnforceSettled(s) ==
    IF s.st \in RunEligible \/ s.turnHooks \/ s.closeHook THEN s
    ELSE [s EXCEPT !.inFlight = FALSE]

\* mutate: t is s after the callback.
Update(s, t) == IF s.st = "absent" THEN s ELSE EnforceSettled(Reconcile(t))

\* dropStashedFollowups rejects each queued steer and says so on the transcript.
DropStash(s) ==
    IF s.stash = <<>> THEN s
    ELSE LET t == [s EXCEPT !.stash = <<>>] IN Update(t, t)

\* (mutant) the handoff is read after the question is deleted.
SettleAsksFirst(s) == [s EXCEPT !.caught = s.trace, !.ask = FALSE]

\* settleCancelsAsks (descendants' asks are theirs)
SettleAsks(s) == [s EXCEPT !.caught = CurrentHandoff(s), !.ask = FALSE]

\* resetTurnTrace
ResetTrace(s) == [s EXCEPT !.trace = "none", !.caught = "unset", !.cause = "unset"]

CallCancelHook(s) ==
    [s EXCEPT !.calls = IF s.cancelHook = "none" THEN @ ELSE @ \cup {s.cancelHook}]

\* (mutant) the close handle is dropped without being invoked.
ReleaseHandlesUncalled(s) ==
    DropStash([s EXCEPT !.ask = FALSE, !.closeHook = FALSE, !.turnHooks = FALSE,
                        !.cancelHook = "none"])

\* releaseHandles: asks, close (invoked), cancel, turn hooks, stash.
ReleaseHandles(s) ==
    DropStash([s EXCEPT !.ask = FALSE, !.closeHook = FALSE, !.turnHooks = FALSE,
                        !.cancelHook = "none",
                        !.calls = IF s.closeHook THEN @ \cup {"close"} ELSE @])

-----------------------------------------------------------------------------
\* launchNextStashedFollowup
LaunchNext(s) ==
    IF s.st \notin RunEligible THEN [DropStash(s) EXCEPT !.inFlight = FALSE]
    ELSE IF s.stash = <<>> THEN s
    ELSE LET t == [ResetTrace(s) EXCEPT !.followups = TRUE]
         IN  IF ~s.turnHooks THEN [DropStash(t) EXCEPT !.inFlight = FALSE]
             ELSE [t EXCEPT !.stash = Tail(@), !.launch = Append(@, Head(s.stash))]

\* complete: keep is agentRetained.  A session that stays open delivers its
\* queued steers as follow-ups instead of dropping them.
Complete(s, keep, stop) ==
    LET a == SettleAsks(s)
        wins == a.st \in RunEligible
        c == [a EXCEPT !.st = "completed", !.retained = @ /\ keep, !.report = TRUE,
                       !.stop = IF stop = "none" THEN @ ELSE stop,
                       !.cancelHook = "none", !.closeHook = @ /\ keep]
        delivers == wins /\ c.stash # <<>> /\ c.retained /\ c.turnHooks
        d == IF ~wins THEN a
             ELSE IF delivers THEN [c EXCEPT !.st = "running", !.stop = "none",
                                             !.inFlight = TRUE]
             ELSE [c EXCEPT !.inFlight = FALSE]
        m == Update(a, d)
    IN  IF delivers THEN LaunchNext(m) ELSE DropStash(m)

\* (mutant) pendingFailures is not deleted.
FailKeepsCause(s, cause) ==
    LET a == SettleAsks([s EXCEPT !.cause = cause])
        f == [a EXCEPT !.st = "failed", !.retained = FALSE, !.error = TRUE,
                       !.inFlight = FALSE]
    IN  IF a.st \in LiveStrip THEN Update(a, ReleaseHandles(DropStash(f)))
        ELSE Update(a, a)

\* fail
Fail(s, cause) ==
    LET a == SettleAsks([s EXCEPT !.cause = cause])
        f == [a EXCEPT !.st = "failed", !.retained = FALSE, !.error = TRUE,
                       !.inFlight = FALSE]
        m == IF a.st \in LiveStrip THEN Update(a, ReleaseHandles(DropStash(f)))
             ELSE Update(a, a)
    IN  [m EXCEPT !.cause = "unset"]

\* attachReport: an interrupted run hands the lane to the head steer.
AttachReport(s, stop) ==
    LET hands == s.st \in RunEligible /\ s.stash # <<>>
        r == [s EXCEPT !.report = TRUE, !.stop = IF stop = "none" THEN @ ELSE stop]
        t == IF s.st \in {"completed", "failed"} THEN s
             ELSE IF hands THEN [r EXCEPT !.st = "running", !.stop = "none"]
             ELSE IF s.st \in RunEligible THEN [r EXCEPT !.st = "interrupted"]
             ELSE IF s.report THEN s ELSE r
        m == Update(s, [t EXCEPT !.inFlight = hands /\ @])
    IN  IF hands THEN LaunchNext(m) ELSE DropStash(m)

\* (mutant) the lane is stored without its record.
CancelUnreconciled(s) ==
    LET a == DropStash(SettleAsks(s))
    IN  IF a.st \notin LiveStrip THEN a
        ELSE [CallCancelHook(a) EXCEPT !.st = "cancelled", !.retained = FALSE,
                !.error = TRUE, !.stop = "cancelled", !.cancelHook = "none"]

\* cancelSession; markCancelled reconciles but keeps the in-flight marker.
Cancel(s) ==
    LET a == DropStash(SettleAsks(s))
    IN  IF a.st \notin LiveStrip THEN a
        ELSE Reconcile([CallCancelHook(a) EXCEPT
                          !.st = "cancelled", !.retained = FALSE, !.error = TRUE,
                          !.stop = "cancelled", !.cancelHook = "none"])

\* settleRun
SettleRun(s) == [DropStash([s EXCEPT !.ask = FALSE]) EXCEPT !.inFlight = FALSE]

\* interruptOne
InterruptOne(s) ==
    LET d == DropStash(s)
        stopped(t) == Update(t, [t EXCEPT !.st = "interrupted", !.stop = "interrupted"])
    IN  IF d.st \notin LiveStrip THEN s
        ELSE IF d.turnHooks
             THEN stopped([SettleAsks(d) EXCEPT !.calls = @ \cup {"interrupt"}])
        ELSE IF d.st = "pending_init"
             THEN stopped([CallCancelHook(d) EXCEPT !.inFlight = FALSE])
        ELSE d

\* (mutant) the latest steer is queued first.
SendInterruptFirst(s, msg) ==
    LET a == SettleAsks(s)
        t == [a EXCEPT !.stash = <<msg>> \o @,
                       !.calls = IF a.stash = <<>> THEN @ \cup {"interrupt"} ELSE @]
    IN  Update(t, [t EXCEPT !.stop = "interrupted"])

\* sendInputOne with interrupt: stash the steer, then interrupt if it opens.
SendInterrupt(s, msg) ==
    LET a == SettleAsks(s)
        t == [a EXCEPT !.stash = Append(@, msg),
                       !.calls = IF a.stash = <<>> THEN @ \cup {"interrupt"} ELSE @]
    IN  Update(t, [t EXCEPT !.stop = "interrupted"])

-----------------------------------------------------------------------------
\* (mutant) the turn is not noted as a follow-up.
BeginFollowupUnnoted(s) ==
    LET t == [ResetTrace(s) EXCEPT !.inFlight = TRUE]
    IN  Update(t, [t EXCEPT !.st = "running", !.stop = "none"])

\* beginFollowupTurn and endFollowupTurn
BeginFollowup(s) ==
    LET t == [ResetTrace(s) EXCEPT !.followups = TRUE, !.inFlight = TRUE]
    IN  Update(t, [t EXCEPT !.st = "running", !.stop = "none"])

EndFollowup(s, restore) ==
    Update(s, IF s.st \in RunEligible
              THEN [s EXCEPT !.st = restore,
                             !.stop = IF restore = "interrupted" THEN restore ELSE @]
              ELSE [s EXCEPT !.stop = IF restore = "interrupted" /\ @ = "none"
                                      THEN restore ELSE @])

\* failClosedSession
FailClosed(s) ==
    LET a == DropStash(SettleAsks(EndFollowup(s, "interrupted")))
        f == IF a.st \notin LiveStrip THEN a
             ELSE [a EXCEPT !.failure = NoRecord, !.st = "failed", !.error = TRUE,
                            !.stop = "error"]
    IN  ReleaseHandles(Update(a, f))

\* settleFollowupReply; resume_agent's onReply completes the session again.
OnReply(s, src) == IF src = "resume" THEN Complete(s, TRUE, "none") ELSE s

\* (mutant) a reply completes whatever lane it finds.
SettleReplyBlind(s, src) ==
    OnReply([Update(s, [s EXCEPT !.st = "completed", !.report = TRUE,
                                 !.stop = "none"]) EXCEPT !.inFlight = FALSE], src)

SettleReply(s, src) ==
    IF s.st \notin RunEligible \cup {"completed"}
    THEN DropStash([s EXCEPT !.inFlight = FALSE])
    ELSE IF s.stash # <<>>
    THEN LaunchNext(OnReply(Update(s, [s EXCEPT !.report = TRUE]), src))
    ELSE OnReply([Update(s, [s EXCEPT !.st = "completed", !.report = TRUE,
                                      !.stop = "none"]) EXCEPT !.inFlight = FALSE],
                 src)

\* settleFollowupFailure up to its await of onFail; resume_agent's onFail fails
\* the session.  What follows the await is RestoreLane or LaunchNext.
OnFail(s, src, cause) == IF src = "resume" THEN Fail(s, cause) ELSE s

RestoreLane(s, prior, cause) ==
    [EndFollowup(IF prior = "interrupted" THEN [s EXCEPT !.cause = cause] ELSE s, prior)
        EXCEPT !.cause = "unset"]

\* closeOne after the bounded close: the last store update of close_agent.
Shutdown(s) ==
    Update(s, [s EXCEPT !.st = "shutdown", !.retained = FALSE,
                        !.error = @ \/ s.st \in LiveStrip])

ForgetHooks(s) ==
    [DropStash([s EXCEPT !.cancelHook = "none", !.turnHooks = FALSE])
        EXCEPT !.inFlight = FALSE]
=============================================================================
