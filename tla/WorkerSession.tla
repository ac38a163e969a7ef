---------------------------- MODULE WorkerSession ----------------------------
(***************************************************************************)
(* One worker of the fleet from spawn to teardown: its session in the      *)
(* store, the promise chain spawn_agent hangs on run()                     *)
(* (src/src/subagent/agent-fleet.ts), the turns the worker's agent runs    *)
(* (src/src/subagent/run.ts), its admission slot, and the verbs the parent *)
(* and the operator use on it while those are under way                    *)
(* (src/src/subagent/lifecycle-tools.ts, cancelAll, teardown, pruning).    *)
(*                                                                         *)
(* An action is the code between two awaits.  Other workers appear only as *)
(* a full admission window and as the prunes their transitions cause.      *)
(***************************************************************************)
EXTENDS Naturals, SessionStore

CONSTANTS MaxInputs,   \* bound: send_input interrupts plus resume_agent calls
          WindowFull   \* answers of the admission window: subset of BOOLEAN

ASSUME ConstantsAssumption == MaxInputs \in Nat /\ WindowFull \subseteq BOOLEAN

VARIABLES
    lane,         \* the store's record of the session
    pc,           \* spawn_agent's promise chain
    turns,        \* agent.send calls in order; the first is run()'s own
    slot,         \* the session's id in the admission queue
    job,          \* the resume a queued id starts
    closed,       \* runController aborted or the agent closed
    cancelSignal, \* childCtl aborted
    closer,       \* close_agent: idle, waiting for a handle, or closing
    keepFailed,   \* closeOne: the lane had failed when the close began
    answered,     \* the worker's ask_director call holds an unread answer
    inputs        \* inputs accepted so far, numbered from 1

vars == <<lane, pc, turns, slot, job, closed, cancelSignal, closer, keepFailed,
          answered, inputs>>

Sources == {"run", "steer", "resume"}
Phases == {"sent", "replied", "threw", "shut", "handoff", "restore",
           "restore_shut", "finally", "done"}
Turn == [src : Sources, msg : 0..MaxInputs, prior : {"completed", "interrupted"},
         slot : BOOLEAN, hit : BOOLEAN, phase : Phases]

Outcomes == {"replied", "forced", "stopped", "salvaged", "deadline", "aborted",
             "threw"}

TypeOK ==
    /\ lane \in [st : States, retained : BOOLEAN, report : BOOLEAN,
                 error : BOOLEAN, stop : Stops,
                 failure : FailureRecords \cup {NoRecord}, inFlight : BOOLEAN,
                 followups : BOOLEAN, ask : BOOLEAN, trace : Handoffs,
                 caught : Handoffs \cup {"unset"}, cause : {"unset"},
                 turnHooks : BOOLEAN, closeHook : BOOLEAN,
                 cancelHook : {"none", "abort", "dequeue"},
                 stash : Seq(1..MaxInputs), calls : {{}}, launch : {<<>>}]
    /\ pc \in {"idle", "queued", "worktree", "setup", "turn", "finally", "done"}
              \cup Outcomes
    /\ turns \in Seq(Turn)
    /\ slot \in {"free", "queued", "held"}
    /\ job \in [msg : 0..MaxInputs, prior : {"completed", "interrupted"}]
    /\ closed \in BOOLEAN
    /\ cancelSignal \in BOOLEAN
    /\ closer \in {"idle", "waiting", "closing"}
    /\ keepFailed \in BOOLEAN
    /\ answered \in BOOLEAN
    /\ inputs \in 0..MaxInputs

-----------------------------------------------------------------------------
\* followup(): a new send on the live agent, with an interrupt signal of its own.
\* agent.send on a closed agent rejects with AgentClosedError.
NewTurn(src, msg, prior, slotted, dead) ==
    [src |-> src, msg |-> msg, prior |-> prior, slot |-> slotted, hit |-> FALSE,
     phase |-> IF dead THEN "shut" ELSE "sent"]

\* interrupt() aborts the interrupt controller of the latest turn.
Hit(ts) == IF ts = <<>> THEN ts ELSE [ts EXCEPT ![Len(ts)].hit = TRUE]

Launched(msgs, dead) ==
    [k \in DOMAIN msgs |-> NewTurn("steer", msgs[k], "interrupted", FALSE, dead)]

\* Store the lane and make the calls its transition asked for.  spawn's abort
\* handle cancels the admission and aborts childCtl, which aborts the run.  An
\* aborted turn's ask_director call withdraws its question.
Commit(stored, ts, sl) ==
    \E s \in {stored} :
        LET dead == closed \/ "abort" \in s.calls \/ "close" \in s.calls
            next == (IF "interrupt" \in s.calls THEN Hit(ts) ELSE ts)
                        \o Launched(s.launch, dead)
        IN  /\ lane' = [s EXCEPT !.calls = {}, !.launch = <<>>,
                                 !.ask = @ /\ ~dead /\ "interrupt" \notin s.calls]
            /\ turns' = next
            /\ closed' = dead
            /\ cancelSignal' = (cancelSignal \/ "abort" \in s.calls)
            /\ slot' = IF sl = "queued" /\ s.calls \cap {"abort", "dequeue"} # {}
                       THEN "free" ELSE sl
            /\ answered' = (answered /\ Len(next) = Len(turns))

Released == IF slot = "held" THEN "free" ELSE slot

-----------------------------------------------------------------------------
\* spawn_agent: the session, its cancel handle, and the admission of run().
\* start() finds the lane admissible unless it settled while it was queued.
StartRun(s) ==
    IF s.st \notin RunEligible
    THEN pc' = "done" /\ Commit(s, turns, "free")
    ELSE /\ pc' \in {"setup", "worktree"}
         /\ Commit([s EXCEPT !.inFlight = TRUE], turns, "held")

Spawn ==
    /\ pc = "idle"
    /\ LET s == [StartSession EXCEPT !.cancelHook = "abort"]
       IN  \E full \in WindowFull :
              IF full THEN pc' = "queued" /\ Commit(s, turns, "queued")
              ELSE StartRun(s)
    /\ UNCHANGED <<job, closer, keepFailed, inputs>>

AdmitRun ==
    /\ pc = "queued" /\ slot = "queued"
    /\ StartRun(lane)
    /\ UNCHANGED <<job, closer, keepFailed, inputs>>

\* createSubAgentWorktree settles; the lane may have settled meanwhile.
WorktreeDone ==
    /\ pc = "worktree"
    /\ \/ /\ pc' = "finally"
          /\ Commit(Fail(lane, "unset"), turns, slot)
       \/ /\ lane.st \notin RunEligible
          /\ pc' = "finally"
          /\ Commit(SettleRun(lane), turns, slot)
       \/ /\ lane.st \in RunEligible
          /\ pc' = "setup"
          /\ Commit(lane, turns, slot)
    /\ UNCHANGED <<job, closer, keepFailed, inputs>>

\* onAgentReady registers the handles whatever became of the lane.
AgentReady ==
    /\ pc = "setup"
    /\ pc' = "turn"
    /\ LET s == IF lane.st = "absent" THEN lane
                ELSE LET h == [lane EXCEPT !.closeHook = TRUE, !.turnHooks = TRUE]
                     IN  Update(h, [h EXCEPT !.st = IF @ = "pending_init"
                                                    THEN "running" ELSE @])
       IN  Commit(s, Append(turns, NewTurn("run", 0, "completed", FALSE, FALSE)), slot)
    /\ UNCHANGED <<job, closer, keepFailed, inputs>>

SetupThrows ==
    /\ pc = "setup"
    /\ pc' \in {"threw", IF closed THEN "aborted" ELSE "threw"}
    /\ closed' = TRUE
    /\ UNCHANGED <<lane, turns, slot, job, cancelSignal, closer, keepFailed,
                   answered, inputs>>

\* How run() ends: a reply (its reactor may have forced the stop), the salvage
\* of an interrupt that kept the agent alive, or a teardown: the salvage of an
\* abort or a deadline, or an error.  The agent settles a send after the calls
\* it made: nothing but an abort ends one with a question out.
RunEnds(outcome) ==
    /\ pc = "turn"
    /\ outcome \in {"replied", "forced"} => ~lane.ask /\ ~answered
    /\ outcome = "threw" => ~lane.ask
    /\ \/ outcome \in {"replied", "forced"} /\ UNCHANGED closed
       \/ outcome = "stopped" /\ turns[1].hit /\ ~closed /\ UNCHANGED closed
       \/ outcome \in {"salvaged", "aborted"} /\ closed /\ UNCHANGED closed
       \/ outcome = "deadline" /\ ~closed /\ closed' = TRUE
       \/ outcome = "threw" /\ closed' = TRUE
    /\ pc' = outcome
    /\ turns' = [turns EXCEPT ![1].phase = "done"]
    /\ lane' = [lane EXCEPT !.ask = @ /\ ~closed']
    /\ UNCHANGED <<slot, job, cancelSignal, closer, keepFailed, answered, inputs>>

\* The .then and .catch of run() in spawn_agent.
ReadsCancelled == /\ lane.st # "absent"
                  /\ StripStatus(lane.st, lane.report, lane.error) = "cancelled"

OutcomeStop == CASE pc = "stopped" -> "interrupted"
                 [] pc = "salvaged" -> "cancelled"
                 [] pc \in {"deadline", "forced"} -> "deadline"
                 [] OTHER -> "none"

ThenResult ==
    IF pc = "stopped" \/ ReadsCancelled THEN AttachReport(lane, OutcomeStop)
    ELSE Complete(lane, pc \in {"replied", "forced"}, OutcomeStop)

CatchError(cause, abortError) ==
    IF ReadsCancelled THEN SettleRun(lane)
    ELSE IF cancelSignal \/ abortError THEN SettleRun(Cancel(lane))
    ELSE Fail(lane, cause)

RunSettles ==
    /\ \/ /\ pc \in Outcomes \ {"aborted", "threw"}
          /\ Commit(ThenResult, turns, slot)
       \/ /\ pc \in {"aborted", "threw"}
          /\ \E cause \in {"error", "retryable"}, abortError \in {FALSE, pc = "aborted"} :
                Commit(CatchError(cause, abortError), turns, slot)
    /\ pc' = "finally"
    /\ UNCHANGED <<job, closer, keepFailed, inputs>>

\* (mutant) the slot of an interrupted run is kept with its worktree.
RunFinallyKeepsSlot ==
    /\ pc = "finally"
    /\ pc' = "done"
    /\ slot' = IF lane.st = "interrupted" THEN slot ELSE Released
    /\ UNCHANGED <<lane, turns, job, closed, cancelSignal, closer, keepFailed,
                   answered, inputs>>

RunFinally ==
    /\ pc = "finally"
    /\ pc' = "done"
    /\ slot' = Released
    /\ UNCHANGED <<lane, turns, job, closed, cancelSignal, closer, keepFailed,
                   answered, inputs>>

-----------------------------------------------------------------------------
\* A follow-up turn: its send settles, then the store settles the turn.
TurnEnds(i, phase) ==
    /\ turns[i].src # "run" /\ turns[i].phase = "sent"
    /\ ~lane.ask
    /\ \/ phase = "replied" /\ ~answered
       \/ phase = "threw"
       \/ phase = "shut" /\ closed
    /\ turns' = [turns EXCEPT ![i].phase = phase]
    /\ UNCHANGED <<lane, pc, slot, job, closed, cancelSignal, closer, keepFailed,
                   answered, inputs>>

InPhase(i, phase) == [turns EXCEPT ![i].phase = phase]

\* resume_agent's chain ends in a finally that releases the slot it took.
Chained(i) == InPhase(i, IF turns[i].src = "resume" THEN "finally" ELSE "done")

TurnSettles(i) ==
    LET src == turns[i].src
        down == [lane EXCEPT !.inFlight = FALSE]
    IN  /\ \/ /\ turns[i].phase = "replied"
              /\ Commit(SettleReply(lane, src), Chained(i), slot)
           \/ /\ turns[i].phase = "threw" /\ lane.stash # <<>>
              /\ Commit(OnFail(lane, src, "error"), InPhase(i, "handoff"), slot)
           \/ /\ turns[i].phase = "threw" /\ lane.stash = <<>>
              /\ Commit(OnFail(down, src, "error"), InPhase(i, "restore"), slot)
           \/ /\ turns[i].phase = "shut"
              /\ Commit(OnFail(down, src, "error"), InPhase(i, "restore_shut"), slot)
        /\ UNCHANGED <<pc, job, closer, keepFailed, inputs>>

\* After the await of onFail.
TurnAfterOnFail(i) ==
    /\ \/ /\ turns[i].phase = "handoff"
          /\ Commit(LaunchNext(lane), Chained(i), slot)
       \/ /\ turns[i].phase = "restore"
          /\ \E cause \in {"error", "retryable"} :
                Commit(RestoreLane(lane, turns[i].prior, cause), Chained(i), slot)
       \/ /\ turns[i].phase = "restore_shut"
          /\ Commit(FailClosed(lane), Chained(i), slot)
    /\ UNCHANGED <<pc, job, closer, keepFailed, inputs>>

TurnFinally(i) ==
    /\ turns[i].phase = "finally"
    /\ turns' = InPhase(i, "done")
    /\ slot' = IF turns[i].slot THEN Released ELSE slot
    /\ UNCHANGED <<lane, pc, job, closed, cancelSignal, closer, keepFailed,
                   answered, inputs>>

-----------------------------------------------------------------------------
\* resume_agent: queueFollowupTurn at once on a slot still held, through the
\* admission queue otherwise.  A completed lane must be collected first, which
\* takes longer than the microtasks between RunSettles and RunFinally.
StartResume(s, msg, prior, slotted, sl) ==
    LET t == BeginFollowup(s)
    IN  /\ Commit(t, Append(turns, NewTurn("resume", msg, prior, slotted, closed)), sl)
        /\ UNCHANGED <<pc, job, closer, keepFailed>>

QueueResume(msg, prior) ==
    LET t == [lane EXCEPT !.cancelHook = "dequeue"]
    IN  /\ job' = IF slot = "queued" THEN job ELSE [msg |-> msg, prior |-> prior]
        /\ Commit(Update(t, [t EXCEPT !.st = "pending_init"]), turns, "queued")
        /\ UNCHANGED <<pc, closer, keepFailed>>

\* (mutant) every resume releases a slot, the one the first run still holds too.
ResumeAgentAlwaysReleases ==
    /\ inputs < MaxInputs
    /\ inputs' = inputs + 1
    /\ Resumable(lane.retained, lane.st) /\ lane.turnHooks
    /\ lane.st = "completed" => pc # "finally"
    /\ StartResume(lane, inputs + 1, lane.st, TRUE, "held")

ResumeAgent ==
    /\ inputs < MaxInputs
    /\ inputs' = inputs + 1
    /\ Resumable(lane.retained, lane.st) /\ lane.turnHooks
    /\ lane.st = "completed" => pc # "finally"
    /\ LET msg == inputs + 1
       IN  \/ slot = "held" /\ StartResume(lane, msg, lane.st, FALSE, slot)
           \/ slot = "free" /\ FALSE \in WindowFull
              /\ StartResume(lane, msg, lane.st, TRUE, "held")
           \/ slot # "held" /\ (slot = "queued" \/ TRUE \in WindowFull)
              /\ QueueResume(msg, lane.st)

\* The window opens: start of the queued resume looks at nothing.
AdmitResume ==
    /\ slot = "queued" /\ pc # "queued"
    /\ StartResume(lane, job.msg, job.prior, TRUE, "held")
    /\ UNCHANGED inputs

\* send_input with interrupt.
SendInputInterrupt ==
    /\ inputs < MaxInputs
    /\ inputs' = inputs + 1
    /\ lane.st = "running" /\ lane.turnHooks
    /\ Commit(SendInterrupt(lane, inputs + 1), turns, slot)
    /\ UNCHANGED <<pc, job, closer, keepFailed>>

InterruptAgent ==
    /\ lane.st \in LiveStrip
    /\ Commit(InterruptOne(lane), turns, slot)
    /\ UNCHANGED <<pc, job, closer, keepFailed, inputs>>

-----------------------------------------------------------------------------
\* ask_director: the worker parks a question; the parent answers it with
\* send_input, by message or by a structured resolution, or it expires.
AskDirector ==
    /\ lane.st = "running" /\ ~lane.ask /\ ~answered
    /\ ~closed /\ \E i \in DOMAIN turns : turns[i].phase = "sent" /\ ~turns[i].hit
    /\ Commit(Update(lane, [lane EXCEPT !.ask = TRUE]), turns, slot)
    /\ UNCHANGED <<pc, job, closer, keepFailed, inputs>>

AnswerAsk(structured) ==
    /\ lane.ask
    /\ structured \/ lane.st = "running"
    /\ lane' = [lane EXCEPT !.ask = FALSE,
                            !.trace = IF structured THEN @ ELSE "submitted"]
    /\ answered' = TRUE
    /\ UNCHANGED <<pc, turns, slot, job, closed, cancelSignal, closer, keepFailed,
                   inputs>>

ExpireStaleAsk ==
    /\ lane.ask
    /\ lane' = [lane EXCEPT !.ask = FALSE]
    /\ UNCHANGED <<pc, turns, slot, job, closed, cancelSignal, closer, keepFailed,
                   answered, inputs>>

\* The answered call returns: appendEvent of inference.tool_result.
ConsumeAnswer ==
    /\ answered
    /\ answered' = FALSE
    /\ lane' = Update(lane, [lane EXCEPT
                  !.trace = IF @ = "submitted" /\ lane.st \in LiveStrip
                            THEN "delivered" ELSE @])
    /\ UNCHANGED <<pc, turns, slot, job, closed, cancelSignal, closer, keepFailed,
                   inputs>>

-----------------------------------------------------------------------------
\* close_agent: closeOne takes the close handle and calls it, bounded.
BeginClose(s) ==
    /\ closer' = "closing"
    /\ keepFailed' = (s.st \in AlreadyClosed)
    /\ Commit([s EXCEPT !.closeHook = FALSE, !.calls = @ \cup {"close"}], turns, slot)

CloseAgent ==
    LET s == DropStash(SettleAsks(lane))
    IN  /\ closer = "idle" /\ lane.st # "absent"
        /\ \/ s.closeHook /\ BeginClose(s)
           \/ /\ ~s.closeHook /\ s.st \in AlreadyClosed
              /\ Commit(s, turns, slot)
              /\ UNCHANGED <<closer, keepFailed>>
           \/ /\ ~s.closeHook /\ s.st = "pending_init" /\ ~s.inFlight
              /\ Commit(ForgetHooks(Shutdown(CallCancelHook(s))), turns, slot)
              /\ UNCHANGED <<closer, keepFailed>>
           \/ /\ ~s.closeHook /\ s.st \notin AlreadyClosed
              /\ s.st # "pending_init" \/ s.inFlight
              /\ closer' = "waiting"
              /\ Commit(s, turns, slot)
              /\ UNCHANGED keepFailed
        /\ UNCHANGED <<pc, job, inputs>>

\* waitForCloseHandle: a handle, a lane that closed or went away, the deadline.
CloseStopsWaiting ==
    /\ closer = "waiting"
    /\ \/ lane.closeHook /\ BeginClose(lane)
       \/ ~lane.closeHook /\ closer' = "idle" /\ Commit(lane, turns, slot)
          /\ UNCHANGED keepFailed
    /\ UNCHANGED <<pc, job, inputs>>

CloseEnds ==
    /\ closer = "closing"
    /\ closer' = "idle"
    /\ Commit(ForgetHooks(IF keepFailed THEN lane ELSE Shutdown(lane)), turns, slot)
    /\ UNCHANGED <<pc, job, keepFailed, inputs>>

-----------------------------------------------------------------------------
\* cancelAll (stop, session rotation, exit): cancel what is live, then shut down
\* every session that was retained when the call began.
CancelAll ==
    LET c == IF lane.st \in LiveStrip THEN Cancel(lane) ELSE lane
        h == DropStash([c EXCEPT !.ask = FALSE, !.closeHook = FALSE,
                                 !.turnHooks = FALSE, !.cancelHook = "none",
                                 !.calls = IF c.closeHook THEN @ \cup {"close"} ELSE @])
    IN  /\ lane.st # "absent"
        /\ Commit(IF lane.retained /\ lane.st # "shutdown" /\ c.st # "shutdown"
                  THEN Update(h, [h EXCEPT !.st = "shutdown", !.retained = FALSE])
                  ELSE c, turns, slot)
        /\ UNCHANGED <<pc, job, closer, keepFailed, inputs>>

\* teardown and clear forget the session and every trace of it.
Teardown ==
    /\ lane.st \notin LiveStrip \cup {"absent"}
    /\ Commit([Unstarted EXCEPT !.calls = IF lane.closeHook THEN {"close"} ELSE {}],
              turns, slot)
    /\ UNCHANGED <<pc, job, closer, keepFailed, inputs>>

\* pruneCompleted and pruneRetained, run by other workers' transitions: the
\* mailbox has been handed the result, so its pin is gone.
Prune ==
    /\ lane.st \notin RunEligible \cup {"absent"}
    /\ lane.st = "interrupted" => lane.retained
    /\ WaitStatus(lane.st, lane.inFlight) # "running" \/ lane.st = "interrupted"
    /\ Commit([ReleaseHandles(lane) EXCEPT !.st = "absent"], turns, slot)
    /\ UNCHANGED <<pc, job, closer, keepFailed, inputs>>

-----------------------------------------------------------------------------
Init ==
    /\ lane = Unstarted
    /\ pc = "idle"
    /\ turns = <<>>
    /\ slot = "free"
    /\ job = [msg |-> 0, prior |-> "completed"]
    /\ closed = FALSE
    /\ cancelSignal = FALSE
    /\ closer = "idle"
    /\ keepFailed = FALSE
    /\ answered = FALSE
    /\ inputs = 0

Next ==
    \/ Spawn \/ AdmitRun \/ WorktreeDone \/ AgentReady \/ SetupThrows
    \/ \E outcome \in Outcomes : RunEnds(outcome)
    \/ RunSettles \/ RunFinally
    \/ \E i \in DOMAIN turns :
          \/ \E phase \in {"replied", "threw", "shut"} : TurnEnds(i, phase)
          \/ TurnSettles(i) \/ TurnAfterOnFail(i) \/ TurnFinally(i)
    \/ ResumeAgent \/ AdmitResume \/ SendInputInterrupt \/ InterruptAgent
    \/ AskDirector \/ \E structured \in BOOLEAN : AnswerAsk(structured)
    \/ ExpireStaleAsk \/ ConsumeAnswer
    \/ CloseAgent \/ CloseStopsWaiting \/ CloseEnds
    \/ CancelAll \/ Teardown \/ Prune

Spec == Init /\ [][Next]_vars

EventLoopSteps ==
    \/ AdmitRun \/ WorktreeDone \/ AgentReady \/ SetupThrows \/ RunSettles \/ RunFinally
    \/ AdmitResume
    \/ \E i \in DOMAIN turns : TurnSettles(i) \/ TurnAfterOnFail(i) \/ TurnFinally(i)

SendEnds ==
    \/ \E outcome \in Outcomes : RunEnds(outcome)
    \/ \E i \in DOMAIN turns, phase \in {"replied", "threw", "shut"} : TurnEnds(i, phase)

\* The event loop runs what is due; the admission window opens again; a worker's
\* setup ends, and so do its questions (the ask expiry) and its sends (deadlines,
\* provider timeouts).  Sends are strongly fair because a turn asks at most
\* ASK_DIRECTOR_MAX_QUESTIONS times.  The parent and the operator owe nothing.
\* A behaviour has finitely many turns, each with finitely many of these steps, so
\* fairness of a disjunction here is fairness of each of its disjuncts.
Fairness ==
    /\ WF_vars(EventLoopSteps)
    /\ SF_vars(SendEnds)
    /\ WF_vars(ExpireStaleAsk \/ ConsumeAnswer)

FairSpec == Spec /\ Fairness

-----------------------------------------------------------------------------
(***************************************************************************)
(* Properties                                                              *)
(***************************************************************************)

HoldsSlot(i) == turns[i].slot /\ turns[i].phase # "done"

\* A held admission slot has exactly one owner that will release it, the run or
\* one resumed turn (admission.release in the two finally blocks).
SlotHasOneOwner ==
    LET run == pc \notin {"idle", "queued", "done"}
        owners == {i \in DOMAIN turns : HoldsSlot(i)}
    IN  /\ slot = "held" => run \/ owners # {}
        /\ run => owners = {}
        /\ \A i, j \in owners : i = j

\* No agent outlives its session: once the lane has failed, been cancelled, shut
\* down or gone from the store, an agent that was ever built is closed
\* (releaseHandles, detachClose, the cancel handle).
NoOrphanAgent ==
    lane.st \in {"failed", "cancelled", "shutdown", "absent"} /\ turns # <<>> => closed

\* A failure record is there exactly when the parent needs one: on a failed,
\* cancelled or interrupted lane, never on a lane a run may be attached to
\* (reconcileTerminalRecord in every path that stores a lane).
RecordMatchesLane ==
    /\ lane.st \in {"failed", "cancelled", "interrupted"} => lane.failure # NoRecord
    /\ lane.st \in RunEligible => lane.failure = NoRecord

\* spawn_agent's recovers replays the brief of a worker whose record is
\* retryable and not a follow-up's: such a worker never began a second turn
\* (followupTurns), so the brief still describes what it was doing.
RetryableMeansFresh ==
    lane.failure.class = "retryable" /\ ~lane.failure.followup => Len(turns) <= 1

\* Steers reach the worker in the order the parent sent them, each at most once,
\* and the ones still queued come after those sent (stashedFollowups is FIFO).
SteersInOrder ==
    LET steers == {i \in DOMAIN turns : turns[i].src = "steer"}
    IN  /\ \A i, j \in steers : i < j => turns[i].msg < turns[j].msg
        /\ \A i \in steers : \A k \in DOMAIN lane.stash : turns[i].msg < lane.stash[k]
        /\ \A j, k \in DOMAIN lane.stash : j < k => lane.stash[j] < lane.stash[k]

\* A record written while a question is out says the handoff was unavailable,
\* although the same transition cancels the question (settleCancelsAsks).  The
\* one exception: a follow-up that failed comes back from the await of onFail
\* after the steer queued behind it took the handoff of another question.
OpenAskIsRecorded ==
    [][lane.failure = NoRecord /\ lane'.failure # NoRecord /\ lane.ask
          => \/ lane'.failure.handoff = "unavailable"
             \/ /\ lane.stash # <<>>
                /\ \E i \in DOMAIN turns : /\ turns[i].phase = "restore"
                                           /\ turns'[i].phase # "restore"]_vars

\* A failed, cancelled or closed worker is over: only another closing or
\* forgetting transition changes its lane.
EndedStaysEnded ==
    [][lane.st \in {"failed", "cancelled", "shutdown"}
          => lane'.st \in {lane.st, "shutdown", "absent"}]_vars

Promise == INSTANCE WorkerPromise
               WITH Records <- FailureRecords,
                    outcome <- IF lane.st \in RunEligible THEN "live" ELSE lane.st,
                    record <- IF lane.st = "absent" THEN NoRecord ELSE lane.failure

\* The session keeps what WorkerPromise says of its outcome and its record.
KeepsPromise == Promise!Spec

\* Whatever the parent does to a worker, its admission slot comes back and with
\* it the window of every other worker of that provider.
SlotComesBack == []<>(slot = "free")

-----------------------------------------------------------------------------
\* What the source says of a worker and the code does not keep.

\* "A parent-initiated interrupt is a resumable pause ... often while the session
\* is still running": the run an interrupt stopped does not settle the turn that
\* resumed the worker.
ResumeOutlivesOldRun ==
    [][RunSettles /\ (\E i \in DOMAIN turns : turns[i].src = "resume"
                                              /\ turns[i].phase = "sent")
          => lane'.st = lane.st]_vars
=============================================================================
