---------------------------- MODULE FleetDelivery ----------------------------
(***************************************************************************)
(* How a worker's result reaches the parent that spawned it: the wait      *)
(* mailbox over the lanes, the parent's verbs, and the ways a result is    *)
(* handed over.                                                            *)
(*                                                                         *)
(*   "exec"  wait_agents reads and collects (agent-fleet.ts)               *)
(*   "tui"   occupancy sends the parent mail: a mailbox drive for finished *)
(*           workers (mailbox-mail-drive.ts) and a continuation when the   *)
(*           fleet went dry with tasks open (fleet-dry-drive.ts).  Each    *)
(*           reads the mailbox, digests across awaits, sends, and collects *)
(*           when its send is accepted, at the end of the parent's turn.   *)
(*                                                                         *)
(* The lanes' transitions are WorkerSession's, one turn at a time and      *)
(* reduced to what the mailbox reads.                                      *)
(***************************************************************************)
EXTENDS FleetMailbox

CONSTANTS N,          \* workers spawned at most
          MaxCalls,   \* interrupt, close, resume and steer calls at most
          MaxRecords  \* MAX_FLEET_RECORDS

ASSUME FleetAssumption ==
    /\ N \in Nat \ {0}
    /\ MaxCalls \in Nat
    /\ MaxRecords \in Nat \ {0}

VARIABLES surface,    \* "tui" or "exec"
          lanes,      \* lanes[i]: worker i's session and its current turn
          box,        \* box[i]: its overlay
          mail,       \* the mailbox drive
          dry,        \* the fleet-dry drive
          delivering, \* occupancyDeliveringSet
          op,         \* a turn the operator asked for is under way
          busy,       \* bag.turn.isProcessing
          run,        \* shell.session.run
          paused,     \* shell.session.paused
          drove,      \* droveOpenTasksThisDry
          read,       \* the workers whose report or error the parent was handed
          calls       \* calls made so far

parent == <<op, busy, run, paused, drove>>
vars == <<surface, lanes, box, mail, dry, delivering, parent, read, calls>>

Ids == 1..N
Turns == 0..(MaxCalls + 1)

NoLane ==
    [st |-> "absent",
     inFlight |-> FALSE,  \* runInFlight
     turn |-> 0,          \* spawn's run is turn 1, each follow-up the next
     src |-> "run",       \* who asked for the turn: run, steer or resume
     pc |-> "none",       \* the turn: queued for admission, setup, turn, over
     ready |-> FALSE,     \* its agent can take another turn
     rep |-> 0,           \* the turn whose report the session holds
     next |-> FALSE,      \* a steer is queued behind the turn
     closer |-> "idle"]   \* close_agent: idle, waiting for a handle, closing

Lanes ==
    [st : States, inFlight : BOOLEAN, turn : Turns, src : {"run", "steer", "resume"},
     pc : {"none", "queued", "setup", "turn", "over"}, ready : BOOLEAN,
     rep : Turns, next : BOOLEAN, closer : {"idle", "waiting", "closing"}]

Overlays ==
    [in : BOOLEAN, collected : BOOLEAN, pinHeld : BOOLEAN, forced : BOOLEAN,
     queued : BOOLEAN, frozen : EndedWait \cup {"none"}, handed : BOOLEAN,
     tomb : BOOLEAN, reply : Turns]

\* A drive and what it read: per worker, the turn whose report or error it
\* quotes (0 for a bare status).
Snaps == [id : Ids, body : Turns]
IdleDrive == [pc |-> "idle", snap |-> {}]
Drives == [pc : {"idle", "read", "digest", "sent"}, snap : SUBSET Snaps]

TypeOK ==
    /\ surface \in {"tui", "exec"}
    /\ lanes \in [Ids -> Lanes]
    /\ box \in [Ids -> Overlays]
    /\ mail \in Drives /\ dry \in Drives
    /\ delivering \subseteq Ids
    /\ op \in BOOLEAN /\ busy \in BOOLEAN /\ paused \in BOOLEAN /\ drove \in BOOLEAN
    /\ run \in {"idle", "busy"}
    /\ read \subseteq Ids
    /\ calls \in 0..MaxCalls

Spawned == {i \in Ids : lanes[i].turn > 0}
LiveFleet(ls) == {i \in Ids : ls[i].st \in RunEligible}   \* liveFleetCount
IdsOf(d) == {s.id : s \in d.snap}
Uncollecteds == {i \in Ids : Uncollected(lanes[i], box[i])}

Init ==
    /\ surface \in {"tui", "exec"}
    /\ lanes = [i \in Ids |-> NoLane]
    /\ box = [i \in Ids |-> NoOverlay]
    /\ mail = IdleDrive /\ dry = IdleDrive /\ delivering = {}
    /\ op = FALSE /\ busy = FALSE /\ run = "idle" /\ paused = FALSE /\ drove = FALSE
    /\ read = {} /\ calls = 0

-----------------------------------------------------------------------------
\* The fleet event: a dry episode is over once a worker lives.
FleetEvent(ls) == drove' = (drove /\ LiveFleet(ls) = {})

\* The store changed and told its listeners: the mailbox enforces its cap, and
\* the parent's shell hears of the fleet.
Notify(i, l, o) ==
    LET ls == [lanes EXCEPT ![i] = l]
        bx == [box EXCEPT ![i] = o]
    IN  /\ lanes' = ls
        /\ box' = EnforceCap(ls, bx, MaxRecords)
        /\ FleetEvent(ls)
        /\ UNCHANGED <<surface, mail, dry, delivering, op, busy, run, paused, read>>

\* The parent's verbs are tool calls of its turn, which ends after they do; one an
\* interrupt abandoned is bounded, and over before the next turn ends.
Acting == surface = "exec" \/ op \/ "sent" \in {mail.pc, dry.pc}
CallsAreOver == \A i \in Ids : lanes[i].closer = "idle"

-----------------------------------------------------------------------------
\* spawn_agent: registered, then admitted at once or queued.
Spawn(i, admitted) ==
    LET l == [NoLane EXCEPT !.st = "pending_init", !.turn = 1]
    IN  /\ Acting /\ Spawned = 1..(i - 1)
        /\ IF admitted
           THEN Notify(i, [l EXCEPT !.pc = "setup", !.inFlight = TRUE], Register)
           ELSE Notify(i, [l EXCEPT !.pc = "queued"], MarkQueued(Register))

\* The admission queue starts a job: the first run, whose lane its cancel handle
\* keeps admissible, or a resumed turn, which looks at nothing.
Started(l) ==
    IF l.src = "run" THEN [l EXCEPT !.pc = "setup", !.inFlight = TRUE]
    ELSE [l EXCEPT !.pc = "turn", !.inFlight = TRUE, !.st = "running"]

Admit(i) ==
    /\ lanes[i].pc = "queued"
    /\ Notify(i, Started(lanes[i]),
              IF lanes[i].src = "run" THEN ClearQueued(box[i]) ELSE Register)

\* The steer queued behind a turn becomes the next one.
Handoff(l) ==
    [l EXCEPT !.turn = @ + 1, !.src = "steer", !.next = FALSE, !.st = "running"]

Over(l) == [l EXCEPT !.pc = "over", !.src = "run", !.next = FALSE, !.inFlight = FALSE]

\* A setup ends: the agent is ready, the worktree failed, or the worker was
\* stopped meanwhile.
Launch(i) ==
    LET l == lanes[i]
    IN  /\ l.pc = "setup"
        /\ \E m \in {[l EXCEPT !.pc = "turn", !.ready = TRUE, !.st = "running"],
                     [l EXCEPT !.pc = "over", !.st = "failed", !.inFlight = FALSE]} :
              Notify(i, IF l.st \in RunEligible THEN m
                        ELSE Over(l), box[i])

-----------------------------------------------------------------------------
\* A turn replied: complete or settleFollowupReply.  A first run that was
\* interrupted under the reply leaves its lane as it is, in flight; one whose
\* reactor was not kept takes no further turn.
Replied(l, keeps) ==
    IF l.st \notin RunEligible
    THEN [Over(l) EXCEPT !.inFlight = l.inFlight /\ l.src = "run"]
    ELSE IF l.next /\ keeps THEN [Handoff(l) EXCEPT !.rep = l.turn]
    ELSE [Over(l) EXCEPT !.st = "completed", !.rep = l.turn, !.ready = keeps]

TurnReplies(i) ==
    LET l == lanes[i]
    IN  /\ l.pc = "turn"
        /\ \E keeps \in {TRUE, l.src # "run"} :
              Notify(i, Replied(l, keeps /\ l.ready),
                     IF l.src = "steer" /\ l.st \in RunEligible
                     THEN CompleteAfterInterrupt(box[i], l.turn) ELSE box[i])

\* An interrupt stopped the first run: attachReport stores its salvage.
RunStops(i) ==
    LET l == lanes[i]
    IN  /\ l.pc = "turn" /\ l.src = "run" /\ l.ready
        /\ \/ l.st = "interrupted"
              /\ Notify(i, [Over(l) EXCEPT !.rep = IF @ = 0 THEN l.turn ELSE @], box[i])
           \/ l.st = "running" /\ l.next
              /\ Notify(i, [Handoff(l) EXCEPT !.rep = l.turn], box[i])

\* A turn threw: spawn_agent's catch and resume_agent's onFail fail the lane, a
\* steer hands over to the next or leaves it interrupted.
TurnFails(i) ==
    LET l == lanes[i]
        failed == [Over(l) EXCEPT !.st = "failed", !.ready = FALSE]
    IN  /\ l.pc = "turn"
        /\ IF l.src # "steer"
           THEN Notify(i, IF l.st \in LiveStrip THEN failed ELSE Over(l), box[i])
           ELSE Notify(i, IF l.next /\ l.st = "running" THEN Handoff(l)
                          ELSE [Over(l) EXCEPT !.st = IF @ \in RunEligible
                                                      THEN "interrupted" ELSE @],
                       CompleteAfterInterrupt(box[i], 0))

\* close_agent closed the agent under the turn: the first run was cancelled, and
\* its salvage may complete the lane; a follow-up fails closed.
TurnIsCut(i) ==
    LET l == lanes[i]
    IN  /\ l.pc = "turn" /\ ~l.ready
        /\ \E m \in IF l.src # "run" THEN {[Over(l) EXCEPT !.st = "failed"]}
                    ELSE {[Over(l) EXCEPT !.st = "cancelled"], Replied(l, FALSE)} :
              Notify(i, IF l.st \in LiveStrip THEN m ELSE Over(l), box[i])

\* pruneCompleted and pruneRetained, run by other workers' transitions.
Evict(i) ==
    LET l == lanes[i]
    IN  /\ l.st \notin LiveStrip \cup {"absent"} \/ (l.st = "interrupted" /\ l.ready)
        /\ l.pc = "over" /\ ~box[i].pinHeld /\ l.closer # "closing"
        /\ Notify(i, [NoLane EXCEPT !.turn = l.turn, !.pc = "over", !.closer = l.closer],
                  box[i])

\* closeOne: the handle arrives, the wait gives up, or the close ends.
CloseProceeds(i) ==
    LET l == lanes[i]
    IN  \/ /\ l.closer = "waiting"
           /\ Notify(i, IF l.ready THEN [l EXCEPT !.closer = "closing", !.ready = FALSE]
                        ELSE [l EXCEPT !.closer = "idle"], box[i])
        \/ /\ l.closer = "closing"
           /\ Notify(i, [l EXCEPT !.closer = "idle", !.st = "shutdown", !.next = FALSE,
                                  !.inFlight = FALSE], box[i])

WorkerSteps(i) ==
    /\ \/ Admit(i) \/ Launch(i) \/ TurnReplies(i) \/ RunStops(i) \/ TurnFails(i)
       \/ TurnIsCut(i) \/ Evict(i) \/ CloseProceeds(i)
    /\ UNCHANGED calls

-----------------------------------------------------------------------------
\* interrupt_agent: a ready agent's turn is told to stop; a worker that is not
\* ready yet is stopped before its first turn, and dequeued.
InterruptAgent(i) ==
    LET l == lanes[i]
        stopped == [l EXCEPT !.st = "interrupted", !.next = FALSE]
    IN  /\ Acting /\ l.st \in LiveStrip
        /\ l.ready \/ l.st = "pending_init"
        /\ Notify(i, IF l.ready THEN stopped
                     ELSE [stopped EXCEPT !.inFlight = FALSE,
                                          !.pc = IF @ = "queued" THEN "over" ELSE @],
                  Interrupt(box[i]))

\* close_agent overrides the mailbox first.  A ready agent is closed, a worker
\* still queued is shut down at once, and one in setup is waited for.
CloseAgent(i) ==
    LET l == lanes[i]
        m == IF l.ready THEN [l EXCEPT !.closer = "closing", !.ready = FALSE]
             ELSE IF l.st \in AlreadyClosed THEN l
             ELSE IF l.st = "pending_init" /\ ~l.inFlight
             THEN [Over(l) EXCEPT !.st = "shutdown"]
             ELSE [l EXCEPT !.closer = "waiting"]
    IN  /\ Acting /\ l.st # "absent" /\ l.closer = "idle"
        /\ Notify(i, [m EXCEPT !.next = FALSE], Interrupt(box[i]))

\* resume_agent, once no turn of the worker is under way: its result must have
\* been collected.  The turn starts at once or queues for admission.
Resumed(l) == [l EXCEPT !.turn = @ + 1, !.src = "resume"]

ResumeAgent(i, admitted) ==
    LET l == lanes[i]
    IN  /\ Acting /\ l.pc = "over"
        /\ l.ready /\ Resumable(TRUE, l.st) /\ ~Uncollected(l, box[i])
        /\ IF admitted THEN Notify(i, Started(Resumed(l)), Register)
           ELSE Notify(i, [Resumed(l) EXCEPT !.pc = "queued", !.st = "pending_init"],
                       MarkQueued(Register))

\* send_input with interrupt: the steer is queued behind the turn it stops.
SendInput(i) ==
    LET l == lanes[i]
    IN  /\ Acting /\ l.st = "running" /\ l.ready
        /\ l.pc = "turn" /\ ~l.next
        /\ Notify(i, [l EXCEPT !.next = TRUE], NoteFollowup(box[i]))

VerbSteps(i) ==
    \/ (\E admitted \in BOOLEAN : Spawn(i, admitted)) /\ UNCHANGED calls
    \/ /\ calls < MaxCalls /\ calls' = calls + 1
       /\ \/ \E admitted \in BOOLEAN : ResumeAgent(i, admitted)
          \/ InterruptAgent(i) \/ CloseAgent(i) \/ SendInput(i)

-----------------------------------------------------------------------------
\* projectMailboxRecord: a drive falls back on what the session itself holds, and
\* a failure is quoted by its error.
Quoted(i, fallback) ==
    LET l == lanes[i]
        o == box[i]
    IN  IF SnapError(l, o) \/ (fallback /\ l.st = "failed") THEN l.turn
        ELSE IF Projected(l, o) = "failed" THEN 0
        ELSE IF SnapReport(l, o) = 0 /\ fallback THEN l.rep ELSE SnapReport(l, o)

Handed(snap) == {s.id : s \in {t \in snap : t.body # 0}}

\* waitForTerminal: what ends the wait.  One that timed out or yielded returns
\* what has ended all the same.
IsWaitTerminal(i) == box[i].in /\ Projected(lanes[i], box[i]) \in EndedWait

\* wait_agents returns a worker that has ended: its body unless one was handed.
WaitAgents(i) ==
    /\ surface = "exec" /\ IsWaitTerminal(i) /\ ~box[i].handed
    /\ read' = read \cup Handed({[id |-> i, body |-> Quoted(i, FALSE)]})
    /\ box' = [box EXCEPT ![i] = Take(lanes[i], @)]
    /\ UNCHANGED <<surface, lanes, mail, dry, delivering, parent, calls>>

-----------------------------------------------------------------------------
\* collectUncollectedTerminals reads all of them at one instant.
Snapshot == {[id |-> i, body |-> Quoted(i, TRUE)] : i \in Uncollecteds}

\* After the await: what the other drive has claimed is left to it.
Fresh(d) == {s \in d.snap : s.id \notin delivering}

\* takeReports
Collect(d) ==
    /\ box' = [i \in Ids |-> IF i \in IdsOf(d) THEN Take(lanes[i], box[i]) ELSE box[i]]
    /\ read' = read \cup Handed(d.snap)
    /\ delivering' = delivering \ IdsOf(d)

\* Whether the agent still has a turn to run when one of its sends settles.
Others(pcs) == op \/ "sent" \in pcs

\* beginSystemContinuation (once past its pause test) and abortSystemContinuation.
BeginContinuation == busy' = TRUE /\ run' = "busy"
AbortContinuation == busy' = FALSE /\ run' = "idle"

\* flushMailboxMail
Flushes == surface = "tui" /\ ~paused /\ ~busy

\* driveMailboxMail, latched: one drive at a time.
MailReads ==
    /\ Flushes /\ mail.pc = "idle"
    /\ Uncollecteds \ delivering # {}
    /\ mail' = [pc |-> "read", snap |-> Snapshot]
    /\ UNCHANGED <<surface, lanes, box, dry, delivering, parent, read, calls>>

\* (mutant) the claims made during the await are not looked at.
MailClaimsAll ==
    /\ mail.pc = "read"
    /\ IF mail.snap = {} \/ busy
       THEN mail' = IdleDrive /\ UNCHANGED delivering
       ELSE /\ mail' = [pc |-> "digest", snap |-> mail.snap]
            /\ delivering' = delivering \cup IdsOf(mail')
    /\ UNCHANGED <<surface, lanes, box, dry, parent, read, calls>>

MailClaims ==
    /\ mail.pc = "read"
    /\ IF Fresh(mail) = {} \/ busy
       THEN mail' = IdleDrive /\ UNCHANGED delivering
       ELSE /\ mail' = [pc |-> "digest", snap |-> Fresh(mail)]
            /\ delivering' = delivering \cup IdsOf(mail')
    /\ UNCHANGED <<surface, lanes, box, dry, parent, read, calls>>

\* After the digest: beginSystemContinuation does nothing while paused, and the
\* drive lets go of its claim if it finds the parent idle.
MailSends ==
    /\ mail.pc = "digest"
    /\ IF paused
       THEN /\ mail' = IdleDrive /\ delivering' = delivering \ IdsOf(mail)
            /\ UNCHANGED <<busy, run>>
       ELSE /\ mail' = [mail EXCEPT !.pc = "sent"] /\ UNCHANGED delivering
            /\ BeginContinuation
    /\ UNCHANGED <<surface, lanes, box, dry, op, paused, drove, read, calls>>

MailAccepted ==
    /\ mail.pc = "sent" /\ CallsAreOver
    /\ Collect(mail)
    /\ mail' = IdleDrive
    /\ busy' = (busy /\ Others({dry.pc}))
    /\ UNCHANGED <<surface, lanes, dry, op, run, paused, drove, calls>>

\* (mutant) the claim is not released.
MailFailsKeeping ==
    /\ mail.pc \in {"digest", "sent"}
    /\ mail' = IdleDrive
    /\ AbortContinuation
    /\ UNCHANGED <<surface, lanes, box, dry, delivering, op, paused, drove, read, calls>>

\* A digest that throws or a send that fails: abortSystemContinuation.
MailFails ==
    /\ mail.pc \in {"digest", "sent"}
    /\ delivering' = delivering \ IdsOf(mail)
    /\ mail' = IdleDrive
    /\ AbortContinuation
    /\ UNCHANGED <<surface, lanes, box, dry, op, paused, drove, read, calls>>

-----------------------------------------------------------------------------
\* settleRunToIdle with no live worker and open tasks, once per dry episode.
DryReads ==
    /\ surface = "tui" /\ dry.pc = "idle" /\ run = "busy" /\ ~busy
    /\ LiveFleet(lanes) = {} /\ ~drove
    /\ drove' = TRUE
    /\ dry' = [pc |-> "read", snap |-> Snapshot]
    /\ UNCHANGED <<surface, lanes, box, mail, delivering, op, busy, run, paused, read, calls>>

DryClaims ==
    /\ dry.pc = "read"
    /\ dry' = [pc |-> "digest", snap |-> Fresh(dry)]
    /\ delivering' = delivering \cup IdsOf(dry')
    /\ UNCHANGED <<surface, lanes, box, mail, parent, read, calls>>

\* Nothing sent: abortPendingDrive opens the episode again and releases the run.
DryGivesUp ==
    /\ dry' = IdleDrive /\ delivering' = delivering \ IdsOf(dry)
    /\ drove' = FALSE /\ AbortContinuation
    /\ UNCHANGED <<surface, lanes, box, mail, op, paused, read, calls>>

DrySends ==
    /\ dry.pc = "digest"
    /\ \/ paused /\ DryGivesUp
       \/ /\ ~paused
          /\ dry' = [dry EXCEPT !.pc = "sent"]
          /\ BeginContinuation
          /\ UNCHANGED <<surface, lanes, box, mail, delivering, op, paused, drove, read, calls>>

DryAccepted ==
    /\ dry.pc = "sent" /\ CallsAreOver
    /\ Collect(dry)
    /\ dry' = IdleDrive
    /\ busy' = (busy /\ Others({mail.pc}))
    /\ UNCHANGED <<surface, lanes, mail, op, run, paused, drove, calls>>

DryFails == dry.pc \in {"digest", "sent"} /\ DryGivesUp

-----------------------------------------------------------------------------
\* A run that only the live fleet holds busy takes a send like an idle one.
OperatorSends ==
    /\ surface = "tui" /\ ~op /\ ~busy
    /\ run = "idle" \/ LiveFleet(lanes) # {}
    /\ op' = TRUE /\ busy' = TRUE /\ run' = "busy" /\ paused' = FALSE
    /\ UNCHANGED <<surface, lanes, box, mail, dry, delivering, drove, read, calls>>

OperatorTurnEnds ==
    /\ op /\ CallsAreOver
    /\ op' = FALSE
    /\ busy' = (busy /\ "sent" \in {mail.pc, dry.pc})
    /\ UNCHANGED <<surface, lanes, box, mail, dry, delivering, run, paused, drove, read, calls>>

\* The operator stops the parent's turn; occupancy waits for the next send.
OperatorInterrupts ==
    /\ surface = "tui" /\ busy
    /\ op' = FALSE /\ busy' = FALSE /\ run' = "idle" /\ paused' = TRUE
    /\ UNCHANGED <<surface, lanes, box, mail, dry, delivering, drove, read, calls>>

\* settleRunToIdle without a continuation: no open tasks, or one was driven.
ReleaseRun ==
    /\ run = "busy" /\ ~busy /\ LiveFleet(lanes) = {}
    /\ dry.pc \notin {"read", "digest"}
    /\ run' = "idle"
    /\ UNCHANGED <<surface, lanes, box, mail, dry, delivering, op, busy, paused,
                   drove, read, calls>>

ParentSteps ==
    \/ MailReads \/ MailClaims \/ MailSends \/ MailAccepted \/ MailFails
    \/ DryReads \/ DryClaims \/ DrySends \/ DryAccepted \/ DryFails
    \/ OperatorSends \/ OperatorTurnEnds \/ OperatorInterrupts \/ ReleaseRun

Next ==
    \/ ParentSteps
    \/ \E i \in Ids : WorkerSteps(i) \/ VerbSteps(i) \/ WaitAgents(i)

Spec == Init /\ [][Next]_vars

\* The stall poll and every settle of the parent flush the mail; the event loop
\* carries a drive through its awaits; a parent turn ends, as does a close_agent
\* (DEFAULT_CLOSE_DEADLINE_MS).  Strong fairness says what no scheduler does for
\* ever: let the operator in at the one microtask between a drive's read and its
\* claim, or fail every blob write and every send.
Fairness ==
    /\ SF_vars(MailReads) /\ SF_vars(MailClaims /\ mail'.pc = "digest")
    /\ SF_vars(MailSends) /\ SF_vars(MailAccepted)
    /\ WF_vars(DryClaims) /\ WF_vars(DrySends) /\ WF_vars(DryAccepted)
    /\ WF_vars(OperatorTurnEnds)
    /\ \A i \in Ids : WF_vars(CloseProceeds(i) /\ UNCHANGED calls)

-----------------------------------------------------------------------------
(***************************************************************************)
(* Properties                                                              *)
(***************************************************************************)

\* A result nobody has collected is still in the store to be read: pruning never
\* drops a session the mailbox has pinned (isPinned, register, take).
PinnedResultSurvives ==
    \A i \in Ids : box[i].in /\ ~box[i].collected /\ ~box[i].tomb
                      => lanes[i].st # "absent"

Claimed(d) == IF d.pc \in {"digest", "sent"} THEN IdsOf(d) ELSE {}

\* The two occupancy drives never carry the same worker at once, and a claim is
\* held by a drive that will release it (occupancyDeliveringSet).
OneClaimEach ==
    /\ Claimed(mail) \cap Claimed(dry) = {}
    /\ delivering = Claimed(mail) \cup Claimed(dry)

\* The mailbox pins at most MaxRecords uncollected payloads, whatever the order in
\* which workers end, are overridden, resumed and collected (enforceCap).
PayloadsCapped ==
    Cardinality({i \in Ids : IsPayload(lanes[i], box[i])}) <= MaxRecords

\* A worker that has ended reaches the parent by mail or by the continuation,
\* unless the operator paused the parent or the worker went on.
ResultIsDelivered ==
    \A i \in Ids : []<>(~Uncollected(lanes[i], box[i]) \/ paused)

-----------------------------------------------------------------------------
\* What the source says of delivery and the code does not keep.

\* "Skips empty reports so late interrupt salvage can still attach": a body is
\* marked as handed only if the parent was handed one.
HandedMeansRead ==
    \A i \in Ids : box[i].handed => i \in read
=============================================================================
