----------------------------- MODULE FleetMailbox -----------------------------
(***************************************************************************)
(* The wait mailbox of one spawner (class FleetMailbox,                    *)
(* src/src/subagent/agent-fleet.ts): one overlay per worker over the       *)
(* session store's lanes.  Operators take a lane l and its overlay o.      *)
(*                                                                         *)
(* A lane is what the mailbox reads of a session: its lifecycle state, its *)
(* in-flight marker, the number of its current turn and the turn whose     *)
(* report it holds (0 for none).  A worker's open question keeps its lane  *)
(* live in every projection, as running does, so questions are left out.   *)
(* A record whose session went away uncollected is not modelled either:    *)
(* PinnedResultSurvives (FleetDelivery) shows that none exists.            *)
(***************************************************************************)
EXTENDS Naturals, FiniteSets, WorkerLifecycle

EndedWait == {"done", "failed", "interrupted"}
WaitStatuses == EndedWait \cup {"running", "queued"}

NoOverlay ==
    [in |-> FALSE,         \* the worker is in records
     collected |-> FALSE,
     pinHeld |-> FALSE,
     forced |-> FALSE,     \* forceInterrupted
     queued |-> FALSE,     \* forceQueued
     frozen |-> "none",    \* frozenStatus
     handed |-> FALSE,     \* bodyHanded
     tomb |-> FALSE,       \* tombstoned
     reply |-> 0]          \* report: the turn of a follow-up's reply

-----------------------------------------------------------------------------
\* sessionWaitStatus
LaneStatus(l) == WaitStatus(l.st, l.inFlight)

\* projectedStatus
Projected(l, o) ==
    IF o.frozen # "none" THEN o.frozen
    ELSE IF o.forced THEN "interrupted"
    ELSE IF LaneStatus(l) \in EndedWait THEN LaneStatus(l)
    ELSE IF o.queued THEN "queued" ELSE "running"

\* snapshot: the turn whose report it carries, 0 for none.
SnapReport(l, o) ==
    IF o.tomb THEN 0
    ELSE IF l.rep # 0 /\ l.st # "absent" /\ LaneStatus(l) = Projected(l, o) THEN l.rep
    ELSE o.reply

\* snapshot: it carries the session's error.
SnapError(l, o) == ~o.tomb /\ l.st = "failed" /\ Projected(l, o) = "failed"

\* hasUncollectedTerminal
Uncollected(l, o) == o.in /\ ~o.collected /\ Projected(l, o) \in EndedWait

-----------------------------------------------------------------------------
Register == [NoOverlay EXCEPT !.in = TRUE, !.pinHeld = TRUE]

MarkQueued(o) == IF o.collected THEN o ELSE [o EXCEPT !.queued = TRUE]

ClearQueued(o) == [o EXCEPT !.queued = FALSE]

\* interrupt
Interrupt(o) ==
    IF ~o.in \/ o.collected THEN o
    ELSE [o EXCEPT !.forced = TRUE, !.queued = FALSE]

\* noteFollowup; no status ever reads followupLive.
NoteFollowup(o) == [o EXCEPT !.forced = FALSE]

\* completeAfterInterrupt
CompleteAfterInterrupt(o, turn) ==
    IF ~o.in \/ o.collected THEN o ELSE [o EXCEPT !.queued = FALSE, !.reply = turn]

\* (mutant) the pin is dropped whether or not the record is collected.
TakeUnpins(l, o) ==
    IF ~Uncollected(l, o) THEN [o EXCEPT !.pinHeld = FALSE]
    ELSE [o EXCEPT !.frozen = Projected(l, o), !.collected = TRUE,
                   !.handed = @ \/ SnapReport(l, o) # 0 \/ SnapError(l, o),
                   !.pinHeld = FALSE]

\* take: the body handed is a report or an error.
Take(l, o) ==
    IF ~Uncollected(l, o) THEN o
    ELSE [o EXCEPT !.frozen = Projected(l, o), !.collected = TRUE,
                   !.handed = @ \/ SnapReport(l, o) # 0 \/ SnapError(l, o),
                   !.pinHeld = FALSE]

-----------------------------------------------------------------------------
\* isPayload
IsPayload(l, o) == Uncollected(l, o) /\ ~o.tomb /\ o.pinHeld

Compacted(l, o) == [o EXCEPT !.frozen = Projected(l, o), !.tomb = TRUE,
                             !.reply = 0, !.pinHeld = FALSE]

\* (mutant) one payload too many.
EnforceCapLate(lanes, box, max) ==
    LET held == {i \in DOMAIN box : IsPayload(lanes[i], box[i])}
        over == {i \in held : Cardinality({j \in held : j >= i}) > max + 1}
    IN  [i \in DOMAIN box |-> IF i \in over THEN Compacted(lanes[i], box[i]) ELSE box[i]]

\* enforceCap: the oldest payloads past max are compacted; workers are numbered
\* in the order they were registered.
EnforceCap(lanes, box, max) ==
    LET held == {i \in DOMAIN box : IsPayload(lanes[i], box[i])}
        over == {i \in held : Cardinality({j \in held : j >= i}) > max}
    IN  [i \in DOMAIN box |-> IF i \in over THEN Compacted(lanes[i], box[i]) ELSE box[i]]
=============================================================================
