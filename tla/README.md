# A verification project for corbits-code

corbits-code is a terminal coding agent. A *parent* agent works on the operator's
request and spawns *workers* (sub-agents) that run beside it in the same Node
process: each has an agent of its own, an admission slot, a session in a store
and a place in its spawner's mailbox. Around them the host keeps a serial queue of
session operations, parked approvals, typed messages that wait for a turn,
background shells, a compactor, a lock file for token refreshes and a run record
on disk. Everything in one process runs on one event loop, so a handler is atomic
up to its next `await`; what makes the code hard is what happens between two
awaits of one chain while the parent, the operator and the other chains act on the
same state, and, for the files, what other processes and crashes do.

This project models that core in TLA+, checks it with TLC on small instances, and
proves with TLAPS what can be proved for every instance. Paths are relative to the
repository; `subagent/` is `src/subagent/`, `tui/` is `src/tui/`, `session/` is
`src/session/`.

## 1. Inventory

| Component | State it keeps | Operations | Correct when | Hard because |
|---|---|---|---|---|
| Admission queue, `subagent/admission.ts` | window, occupied ids, FIFO queue, per-provider pause, one timer | enqueue, release, cancel, setCapacity, notePressure, drain | no id twice; FIFO among the admissible; no idle slot; a waiting job is woken | drain is re-entrant through `start()`; one timer for all pauses; time moves between two `now()` |
| Worker lifecycle, `subagent/lifecycle.ts` | the stored state | strip and wait projections | projections agree with the state | the run's in-flight marker and the state change at different times |
| Session store, `subagent/session-store.ts` | lane, failure record, asks, handles, stashed steers, follow-up notes | start, complete, fail, attachReport, settleRun, sendInput, interrupt, close, resume, cancelAll, prune, teardown | one failure record per outcome; an ended worker stays ended; no agent outlives its session; steers in order | an interrupted run settles after its worker was resumed; closes, steers and interrupts land while a turn settles |
| Run chain, `subagent/agent-fleet.ts` | the promise chain of `spawn_agent` | start, worktree, run, then/catch, finally | the slot is released exactly once | six exits, some before the run was launched |
| Worker turns, `subagent/run.ts` | agent, abort controllers, latest turn | run, followup, interrupt, close | the agent is closed when its session ends | a deadline, an interrupt and a close race with the reply |
| Lifecycle verbs, `subagent/lifecycle-tools.ts` | none | close_agent, resume_agent, interrupt_agent, send_input | each refuses what the lane does not allow | they read the lane, then await |
| Recovery claims, `subagent/agent-fleet.ts` | the claim in a failure record | claim, refund, launch | one replacement per failed worker; a claim never names a replacement that cannot run | every exit before the launch must give the claim back, and only its own |
| Fleet mailbox, `subagent/agent-fleet.ts` | one overlay per worker over the lanes: pin, collected, forced, queued, frozen, handed, tombstone | register, markQueued, interrupt, noteFollowup, completeAfterInterrupt, take, enforceCap, wait_agents | an uncollected result is never lost; the payload cap holds; a body is marked handed only if it was | the lane changes under the overlay; reading and collecting are separated by an inference turn |
| Mail drive, `subagent/mailbox-mail-drive.ts`, and fleet-dry drive, `subagent/fleet-dry-drive.ts` | a latch, the snapshot, claims | read, claim, digest, send, collect or abort | each result reaches the parent; not by both drives at once | both read before an await; digest and send can fail |
| Parent occupancy, `tui/runtime-bridge.ts` | processing, run, paused, dry episode | submit, interrupt, settle, begin and abort a continuation | a finished worker is delivered unless the operator paused | flushes happen only at edges where the parent is idle |
| Operator delivery queue, `tui/delivery-queue.ts`, `tui/runner/submit.ts`, `tui/shell/prompt.ts` | typed messages, the drained ones, what waits to come back to the prompt, the delivery generation | submit, drain, deliver, force, restore, clear | a message is in one place and goes to an agent of its own generation or back to the prompt | ingestion crosses an await; interrupts, `/clear` and rebuilds land in between |
| Session operation queue and rebuilds, `tui/delivery-queue.ts`, `tui/runner/session.ts`, `tui/runner/exit.ts` | a promise chain, the generation, the live agent | interrupt, reload, rotate, deliver a decision | the queue drains; nothing of a passed generation reaches a new agent | closes and builds fail; an operation may wait for one behind it |
| Approval resume, `session/approval-resume.ts` | parked approvals, the host's asks, the watchdog's candidate | park, ask, decide, settle on the rebuilt agent, drop | a parked call runs at most once, and only as decided in its generation; a dropped one is remembered | the operator, the reactor's timeout, interrupts and rotations all settle it |
| Worker grants, `permission/worker-grant.ts` | envelopes per call identity, one turn queue per identity | deny, ask, authorize, retry, expire, evict | one authorization is one execution | authorizations, retries, expiry and interrupts interleave |
| Token refresh, `auth/file-lock.ts`, `auth/codex/` | lock file, token store, the provider's token | acquire, judge stale, take over, refresh, persist, release | no spent refresh token is presented; a dead holder is replaced | other processes; every file operation is a step; crashes between any two |
| Compaction lifecycle, `session/compaction-lifecycle.ts` | abort controller, generation, in-flight flag | apply, abort, reset, settle | the flag belongs to the current generation | an old compact settles after a newer one started |
| Run records, `session/state.ts`, `session/active-run.ts`, `tui/runner/exit.ts` | run.json, a write chain per session, the active-run handle, the crash fence | snapshot, rename, rotate, finalize, crash write | a crash record is final; a run ends in the record | queued writes meet crashes, signals and the rotation |
| Session persistence, `session/optimized-context-store.ts`, `session/incremental-jsonl.ts`, `session/compactor.ts`, the reactor's commit cycle | segment files, the writer's memory of them, a staged rewrite, git's HEAD, the reactor's history and its revision | append, compact, stage, land, commit, restore, load | a restart finds the history that was written; a commit publishes the history in memory or a compaction of it | a rewrite is many file operations; each may fail or be the last before a crash; commits fail half way and are retried |
| Background shells, `shell/background-shell.ts` | the registry of running shells | start, timeout, stop, exit, close, dispose | each shell that started is reported once | five events race to settle it; a grandchild holds the pipes |
| Turn state, keyed mutexes, permission rules | | | | single calls over data, or the runtime's own promise order |
| Providers, tools, prompts, MCP, workflows, TUI painting, configuration, vendored runtime | | | | data processing or input and output, not modelled |

Interactions: `spawn_agent` claims a failure record if it replaces a worker, starts
a session, registers it in the mailbox and enqueues its run; admission calls back
`start`; the run chain reports to the store; each store change notifies the mailbox
(which enforces its cap) and the shell (which hears of the fleet); the verbs act on
store, mailbox, agent and admission; the two drives read the mailbox and send the
parent a turn; the parent's turn may call the verbs again. A 429 seen by a worker's
retry policy pauses its provider in the admission queue. Ctrl+C, `/clear`, reloads,
decisions on approvals and drained messages all enter the session operation queue,
which replaces the live agent and bumps the delivery generation; approvals and
messages compare the generation they were taken in with the one they arrive in. The
compactor's signal and the run record follow the same interrupts and rotations.

`PROJECT.json` lists every component with its status, and 39 hazards at the lines
where they bite, each with the properties that cover it or a note.

## 2. Modules

    AdmissionPromise   <-- refined by --  Admission
    Admission, FleetRecovery  <-- AdmissionProofs
    WorkerLifecycle <-- SessionStore <-- WorkerSession  <-- WorkerSessionProofs
                                         WorkerSession  -- refines --> WorkerPromise
    WorkerLifecycle <-- FleetMailbox <-- FleetDelivery  <-- FleetProofs

    OperatorDelivery <-- DeliveryProofs
    ApprovalResume   <-- ApprovalProofs
    RunRecords       <-- RecordProofs
    TokenRefresh, CompactionLifecycle, WorkerGrants  <-- HostProofs
    TurnLog          <-- TurnLogProofs
    BackgroundShells

`PROJECT.json`'s map gives the source lines of every definition. Operators marked
`(mutant)` are plausible mistakes in the definition that follows them; each property
is known to fail when its mutant replaces the definition.

**Admission** models `createAdmissionQueue`. A handler is one step; the loop of
`drain()` is one step per started job with `draining` set between, so that the
clock may move between two scans and a `start()` that releases its slot at once
continues the same loop. Each `findIndex` scan reads one instant. A lapsed pause
entry reads as no entry, and `Infinity` is any capacity not below the number of
jobs. A `start()` that throws (lines 76-79) is left out: `spawn_agent`'s never
does. `AdmissionPromise` is what callers may rely on, without queue, timer or
clock. Its `MayStart` freezes a bypass job of a paused provider, as `canAdmit` does
(lines 66-70) and line 9 of the file says the code never does: `KeepsPromise` holds of
what the code promises, and the disagreement is the finding `admission_bypass`.

**SessionStore** is one session of the store as a record, and the store's
transitions as functions from record to record, composed in the order the code
calls them. Hooks called in a transition (close, interrupt, abort, dequeue) are
collected in `calls` and carried out by `Commit` in the same step; they only
reject promises, whose continuations are later steps.

**WorkerSession** puts one session under its run chain, its turns, its admission
slot and the verbs. One action is the code between two awaits. Other workers
appear as a full admission window and as prunes. Reductions: the asks of
descendants are left out; at most one `close_agent` runs at a time; the interrupt,
followup and deliver handles are registered together, so they are one flag; every
lane is retained, as `spawn_agent` starts it; an answer and an ask are one
question at a time; a teardown happens once the lane is not live. `WorkerPromise`
is the outcome and the record as `wait_agents` and `list_agents` show them.

**FleetMailbox** is the overlay of one worker over its lane and the operations of
class `FleetMailbox`. **FleetDelivery** adds several workers whose lanes are
WorkerSession's, one turn at a time and reduced to what the mailbox reads, the
parent's verbs, and the two surfaces: `exec`, where `wait_agents` reads and
collects in one step, and `tui`, where the two drives read, await, claim, digest,
send and collect. A send resolves when the parent's turn is over, so results are
collected at the end of the turn that quotes them, and the parent may call verbs
in that turn. Recovery claims (FleetRecovery has them), a second dry drive that
overlaps a settling one, stop (cancelAll with mailbox.clear) and questions to the
director (live like running in every projection) are left out. A `close_agent` is
bounded and assumed over before the parent's turn ends.

**FleetRecovery** follows several `spawn_agent` calls that name one failed worker:
the claim (with nothing awaited between the refusal and the claim), admission, the
worktree, and `run()`; an interrupt, a close or a cancel may halt a replacement at
each of these points, the original may go on and lose its record, or be evicted.

**OperatorDelivery** has the shell's queue of typed messages, the run state of the
shell, the two hops by which a drained message reaches the agent (an operation of
the session queue, then the agent's `send`), the prompt a message comes back to,
and the operations that interrupt, reload and rotate. A message is its number, so
order and duplication are visible; its text is not. No fleet is live and no open
task is driven, so a settled turn always hands the shell back. Failures that the
shell reports as "uncertain" are left out.

**ApprovalResume** composes the reactor's parked calls as the store shows them, the
live agent and its builds, the host's ask, the serial queue and the stall watchdog.
One step of a handler is its code up to the next await. A close writes the results
of the rejections and timeouts that the reactor had accepted and its loop not taken
(`ShutdownWrites`), unless the write fails or the loop is still busy at the deadline.
`Budgets` bounds how many
interrupts or rotations and reloads one behaviour has and whether anything in it
fails.

**TokenRefresh** makes each file operation of the lock, the token store and the
provider's endpoint a step. Any process may die at any step, writes and requests
may fail, and at the start the lock may belong to a process that has died. The
refresh token is a number: the provider accepts one, and a grant replaces it.

**WorkerGrants** follows the calls of one worker with one identity (tool, arguments
and directory), which all match the same envelopes: from denial and the ask to the
parent's authorization and the retry, with the identity's turns
(`runExclusiveIdentity`), expiry, interrupts and eviction, while the parent's gate gains
and loses covering grants at any time. `revokeAuthorizedRetry` has no branch: it runs
when `resolveAsk` finds no pending ask, and `peekAsk` has found it in the same step.

**CompactionLifecycle** is the wrapper's abort, reset and settle; **RunRecords** the
writers of run.json, with the chain and the fence that `saveState` writes pass and
the crash write does not; **BackgroundShells** the registry with the child's events.

**TurnLog** is the history of one session on disk. A turn is its number, a
compaction's summary the negated number of the latest turn it stands for, and which
call a turn makes or answers is all of its content that matters to the load. (The code
compares records by reference; two summaries of turns up to the same one count as one
record.) A compaction (`session/compactor.ts`) gives back the history as it is, or a
summary in front of a tail: the turns after some cut, each with its call and its result
(`TailFrom`), so the tail may have gaps, and an earlier summary is always folded into
the new one. Which cut it is (budgets, boundaries) is a choice; an excerpted, stubbed or
coalesced turn counts as the turns it was made of, spacers are left out. The reactor
and its store do one operation at a time; what `createSegmentedJSONLWriter` plans is
a sequence of file operations, each a step that may be cut short, by an error or by
the end of the process. An error while a tool cycle or a compaction writes ends the
reactor as a crash does, and one in a commit is caught. Segments are filled by a
count of turns instead of bytes, the restart and the load stand for a crash, a resume
and an interrupt's rebuild, and one owner writes the session. The history variables
`durable` and `exposed` say what the store has promised: which turns' writes have
returned, and whether a failed append has left records that the writer does not
know of. A plan and a restore are lists with one operation for each index of the code's
loops, those it finds nothing to do for included (`SkipOp`), and whether a file is
there to unlink is looked at when its turn comes, as the code does.

**MCAdmission**, **MCWorkerSession** and **MCHost** compose a component with others
that share no state with it. Their behaviours *follow* one service, chosen in the
initial state, and the others stay in their initial states: the states TLC visits
are the sum of the services' states, not their product, and since no action reads
another service's variables, a property of one service fails in the composition
exactly if it fails in the service alone. `MCFleetDelivery` has TurnLog beside
FleetDelivery in this way, and `MCWorkerSession` has RunRecords and an instance of
FleetDelivery with one worker; the fairness of each asks for nothing in its initial
states, where none of the steps it names is enabled.

## 3. Runs

| Run | Instance | States | What it shows |
|---|---|---|---|
| `admission` | 3 jobs (one nested), 2 providers, windows 0-2 and an invalid one, clock to 3; 3 typed messages; 3 replacements; 2 shells, limit 1 | 107 thousand | admission: one record per job, FIFO among the admissible, no idle slot, wakeups, pause timers, every waiting job starts or leaves, refines AdmissionPromise. Delivery: a message is in one place, none reaches an agent of another generation, drained ones settle. Recovery: one replacement, honest claims. Shells: exits are reported |
| `admission_lapse` | the same jobs | violation | a paused provider can hold up another one's job |
| `admission_bypass` | the same jobs | violation | a job that bypasses the window waits for the pause of its provider |
| `session` | 1 input, window open or full; 1 worker of the fleet, 2 calls, the interactive surface | 118 thousand | slots have one owner and come back, no orphan agent, records match lanes, open asks are recorded; a finished worker is delivered unless the operator paused |
| `session_steers` | 2 inputs, window open; run records with 2 queued writes | 1.5 million | steers in order, retryable means fresh, ended stays ended, refines WorkerPromise; a crash record stands |
| `session_queued_resume` | 1 input, window full | violation | a queued resume revives a closed worker |
| `session_old_run` | 1 input | violation | an interrupted run settles the turn that resumed the worker |
| `fleet` | 2 workers, 1 call, 1 payload slot; 4 turns in segments of 2, 2 faults | 2.6 million | uncollected results survive, one claim each, payload cap; a restart finds the turns, a commit publishes what is in memory |
| `fleet_consumed` | 1 worker, 1 call | violation | a body is marked as handed that no mail carried |
| `host` | approvals: 1 call with 2 bumps, or 1 bump and 1 reload, with faults, or 2 calls with 1 bump; refresh: 2 processes and a dead one; compaction: generation 5; grants: 3 retries | 530 thousand | parked calls run at most once and as decided, dropped ones are remembered, the queue drains; no token is replayed, a dead holder is replaced; the compacting flag is current; a spent grant ends its call |
| `refresh_overlap` | 2 processes | violation | two takeovers of one dead lock end with two grants in flight |
| `run_record_drift` | run records | violation | a crash can leave run.json at running for a run that ended |

**Bounds.** Three jobs and two providers are the least with which one job can
overtake another while a third keeps the window full. Two inputs are the least
with an order between steers; a steer or a resume can follow every exit of the
run already with one. In the session runs a queued resume needs a full window,
which `session` has, and ordering needs two inputs, which `session_steers` has;
`EndedStaysEnded` is checked with the window open, because with a full window it
fails (`session_queued_resume`). Two workers and one payload slot let the cap
compact one record while the other is being delivered, and let the two drives
hold different workers; `ResultIsDelivered` speaks of each worker alone and is checked
with one, whom two calls interrupt, resume or close. With two calls the fleet passes as well (4.5 million
states); the theorems of section 5 remove the bound.

Three typed messages are the least with which one is at the agent, one is between
the queue and the agent and one waits, across the one interrupt, abort, `/clear` or
reload of `MaxStops` (two pass as well: 405 thousand states). Three replacements
let a third one find a record that was claimed and refunded. Two shells and a limit
of one let two starts pass the limit together. Two bumps let an interrupt overtake
another's rebuild; a reload after a bump rebuilds without dropping; faults make
closes and builds fail; two calls share the queue and the watchdog's candidate. The
calls are interchangeable, so `c1` is the first to park. Two live processes and the
dead one are the least in which a takeover removes a verified lock. Three retries
let two wait in the identity's turns behind the one that consumes. `MaxGeneration`
= 5 lets two old compacts settle after a newer one. Two queued writes in a chain
let a terminal write wait behind a snapshot and a rename. Four turns in segments of
two give a log of two segments that a compaction turns into one, with a call whose
result is in the other segment; two faults (failed operations, failed commits or
restarts) let a commit fail, its retry fail or the process die before the retry. With
three faults in a log of three turns, one to a segment, the run passes too.

`MaxClock`, `MaxInputs`, `MaxCalls`, `MaxTyped`, `MaxStops`, `Budgets`,
`MaxGeneration`, `MaxQueued`, `MaxTurns`, `MaxFaults` and `N` are bounds of the model; `MaxRecords` is
`MAX_FLEET_RECORDS`, `MaxRunning` is `MAX_RUNNING_BACKGROUND_SHELLS` and
`SegmentTurns` stands for the writer's `maxSegmentBytes`. Deadlock is
not checked where the system may rest: a fleet whose workers are all done, an empty
queue, a session torn down, a process that has exited.

## 4. Fairness

- *Admission*: the event loop runs a handler to its end and a due timer at some
  time (it may be re-armed, hence strong fairness), time passes, and a running
  worker's `finally` releases its slot. `Started` asks for a window that stays open.
- *WorkerSession*: weak fairness on what the event loop owes (admission,
  settlement, `finally`), on setup and on the expiry of asks; strong fairness on
  the end of a send, which has a deadline, and which a turn's questions
  interrupt at most `ASK_DIRECTOR_MAX_QUESTIONS` times. The parent and the
  operator owe nothing. Each of these steps happens finitely often in a
  behaviour, so fairness of their disjunction is fairness of each.
- *FleetDelivery*: the stall poll and every settle flush the mail, drives are
  carried through their awaits, and turns and closes end. Strong fairness excludes
  only that the operator gets in at the one microtask between a drive's read and
  its claim, or that every digest and every send fails, for ever.
- *OperatorDelivery*: the head of the session queue goes on, an agent begins a turn
  it was sent, and turns end (deadline or watchdog).
- *ApprovalResume*: operations of the queue go on, and a settlement that is ready
  is carried through. The operator may never answer, and the reactor's turn may
  take for ever: `QueueDrains` holds all the same.
- *TokenRefresh*: a process that lives goes on (its requests have a deadline), and a
  lock file's age passes the horizon.
- *BackgroundShells*: the grace timer fires and a killed child exits. A child that
  nobody kills, and the pipe a grandchild holds, owe nothing.

In the composed runs each of these is owed only while the service is followed.

## 5. Proofs

`AdmissionProofs` holds for every set of jobs and providers, every window and
clock. `TypeCorrect` and `OneRecord` come first; the lemmas on `RemoveAt` say what
`splice` leaves of a queue without duplicates. `WakesUp`, `PauseTimers` and
`NoSlotIdles` are inductive on top of these: the argument is that every handler
that could open a slot either drains or schedules, and that `scheduleDrain` arms
for the least open pause (`ScheduleDrainArms`). `NoSlotIdles` needs the occupied
set to be finite and `RoomShrinks`. `DrainsInOrder` follows from the scan:
what a drain step starts is the first admissible entry, so whatever stands before it
was not admissible in that scan; a direct admit starts a job that never waited. `Implements` maps
every step to a step of AdmissionPromise or a stutter.

`WorkerSessionProofs` holds for any number of inputs and waiting calls, whether the
admission window is full or not. The lemmas on SessionStore come first, one per
transition: which states it moves between, which stamp the failure record gets, what
it leaves of the stash and the hooks. They are cited wherever a handler composes
transitions. The inductive invariant `WorkerInv` is then a conjunction of what each
place of the run chain implies: who holds the slot (`Slots`), that the run's own turn
is the first and exists once the agent was ready (`Begun`, `Started`), that an agent
which was built and not closed has an open session, or before its first turn a cancel
handle, that can close it (`Kept`, `Closings`), that a worker whose brief may be
replayed is not taken up again (`Fresh`), and that what waits in the stash was
accepted (`Known`). `SlotHasOneOwner`, `RetryableMeansFresh` and `SteersInOrder` are
parts of it; `NoOrphanAgent` and `RecordMatchesLane` follow. `EndedIsOver` and
`Implements` assume that the window is never full: without the assumption they are
false, which is the finding `session_queued_resume`. `PromiseHeldUnlessRevived` has no
assumption and says that the start of a resume that waited for a slot while its worker
ended is the only step that leaves the promise.
`AskRecorded` has an invariant of its own, `AskInv`, beside `WorkerInv`: a handoff that
was taken for a transition that wrote no record (`Stale`) stays behind an open question
only while the worker runs, and a running worker with such a handoff, its hooks and no
steer to interrupt for (`Adrift`) is still in its first turn, which nothing has
interrupted. `Leaves` and `Voices` say of one transition that it preserves this and that
a record it writes says that a question was open; there is one lemma per transition and
one per action again. The exception in the property is section 6's.

`FleetProofs` holds for any number of workers, calls and payload slots. The
inductive invariant `Inv` adds two facts to the types. `Budget`: the number of a
worker's turn never exceeds the calls made by more than one, and a queued steer
has a call of its own; without it the turn numbers leave their type. `Pinned`: a
record that is in the mailbox, not collected and not compacted holds its pin *and*
its session is in the store; `PinnedResultSurvives` alone is not inductive, since
pruning looks at the pin. Every worker step and verb is one `Notify`, so the proof
is one lemma on `Notify` (`NotifyKeeps`) and one fact per action that the new lane
and overlay are in order (`WorkerKeeps`, `VerbKeeps`); the parent's steps change a
record only by collecting it (`TakesKeep`). That the cap holds after `enforceCap`
is `NewestFew`: of a set of numbers, those with at most `max` members at or above
them lie above the least of them, so they are at most `max`. `ClaimsAreExclusive`
is inductive over the types.

FleetRecovery, whose calls wait in the admission queue, is proved in `AdmissionProofs`
too, for any number of replacements. A claimed record names its
claimant, and the claimant is on its way or has run: `ClaimStaysHonest` follows, and
since a replacement that runs keeps the claim, so does `AtMostOneReplacement`. A
refund that does not look at whose claim it gives back breaks the step.

`ApprovalProofs` holds for any finite set of calls and any number of interrupts,
rotations, reloads and faults. The invariant says of one call what its announcement
(`Announced`), its settlement (`Asked`, `Registered`, `Over`), the watchdog's candidate
(`Presented`), its drop (`Remembered`) and its reactor (`Once`, `Rejected`, `Quiet`)
imply about each other, and of all of them that a queued decision belongs to a
settlement that waits for it (`Queued`) and that between an agent's close and the next
build nothing is held in memory (`Between`). `DroppedIsRemembered` alone is not
inductive: a rotation forgets what it dropped before its build has left the old
session, and the session a call parked in is never newer than the current one.
`DropsStartNoTurn` needs that the reject of a call nobody dropped is the operator's
own decision. The set of calls is finite because a rebuild walks the unsettled ones in
some order.

`DeliveryProofs` holds for any number of messages and stops. `Accounts` divides the
messages typed behind a turn into those that are queued, put aside, in the prompt or
carried by an operation, never two of these, and says that a message an agent has
taken is in none of them, except that it may be the one whose turn the head of the
session queue waits for. `Sound` says of any list of operations that none carries the
message of another and each is dated with the generation in which its message was
drained; the lemmas on `filter()`, `Append`, `Tail` and concatenation carry it through
the handlers. `NothingTypedIsLost` is read off the first, `NothingStaleIsTaken` off
the second: a hop looks at its own date, and the date is the message's.

`HostProofs` has the proofs of three services that share no state.

- TokenRefresh, for any number of processes. `NoReplay` alone is not inductive.
  `HoldersOwnTheLock` says that a live process past the verification owns the lock's
  path unless an unlink has removed a live process's file (`stolen`), and
  `StoreFollowsServer` that the store is behind the provider by at most the grant its
  holder is about to persist, unless a process died in between (`lost`); together
  they give what a process presents. The two exceptions are in the property because
  the code has them: the first is the finding `refresh_overlap`.
- CompactionLifecycle: `GenerationsDistinct`, that applies in flight have distinct
  numbers, none above the counter, so that of the late ones none can clear the flag of
  the current one.
- WorkerGrants, for any number of retries. At most one envelope is open, and none
  before a spent one; a call between its check and the gate's answer is at the head of
  the identity's turns, and nothing spends an envelope under it, so what the check saw
  stands until the gate answers. `SpentEndsTheCall` follows, because the check looks
  for a spent envelope first.

`RecordProofs` needs `Fenced` (once the process is marked crashed no write passes the
fence), `OneRotation` and `WritesAreQueued`; the write that was past the fence when it
went up is the exception the property names.

`TurnLogProofs` holds for any number of turns, any segment size and any number of
faults. Neither property is inductive: what a crash finds depends on the operations
that were under way, and what a commit publishes on commits that failed before it.

- *Files.* The invariant keeps, beside the types, what the operations still to come do
  to the files: `Planned` says of a write that each segment holds its part of the log,
  or has an operation that will make it so, and that what an operation keeps of a file
  is what its text begins with; `Restoring` and `Loading` say the same of a restore and of the unlinks
  of a load. Each has three lemmas: the operations the code plans establish it
  (`PlanOfLog`, `RestoreOpsFacts`, `LoadingBegins`), applying the first one keeps it
  (`PlannedApplied`, `RestoringApplied`, `LoadingApplied`), and with none left it gives
  the files (`ExactLoads`, `RestoringEnds`, `LoadingEnds`). `PlannedCut` is the crash or
  the error: at any point of an operation the files are still segments of turns.
- *Memory against files.* `WriterOK`: while the writer remembers a log, the files hold
  it (`Begun`), and hold nothing else (`Exact`) unless a failed operation has left them
  between two generations (`exposed`). `DiskOK`: when it remembers none, the files load
  as a compaction of a part of the history with every durable turn in it, or the
  snapshot does while a rewrite is under way. This is what makes a failed commit's
  writer have to be forgotten.
- *History.* `NewestOK`: the log that the next commit publishes (that of the write under
  way, the staged one, or the one the writer remembers) is the history, or, while a
  compaction is pending, a compaction of all of it. `CommitPublishes` is one step from
  it, at `AtGit`; a pending compact that outlives its failed commit breaks it. That a
  compaction of a well-formed history is one (`SummaryFormed`) is proved turn by turn
  along the summary's tail (`FoldHolds`), which closes its pairs (`PairsClosed`).

Loads are concatenations of segments, and the longest well-formed prefix is a maximum;
both need induction over the number of segments or turns. The induction theorems of the
library take an operator, so the proofs take the least counterexample of a well-founded
order instead (`Induction`, `MaxOf`). `callOf` grows with every turn, and
`Formed`, `KeptOf` and `LoadedOf` restate the load with it as a parameter (`LoadIs`), so
that the lemmas can speak of the files before and after a turn is added.

Every invariant and every action property of the passing runs is stated by a theorem.
Only model-checked are the liveness properties (`Started`, `SlotComesBack`,
`ResultIsDelivered`, `QueueDrains`, `DeadHolderIsReplaced`, `DrainedSettles`,
`ExitIsReported`), which are out of the prover's reach. The assumptions on constants
are the named `ASSUME`s of each module.

## 6. Findings

Seven runs end in a violation, each of a sentence in the repository
(`PROJECT.json`, findings):

1. `admission_lapse`: `scheduleDrain` clears the armed timer and re-arms it only
   for pauses that have not lapsed. An enqueue in the instant a pause has lapsed
   and its callback has not run moves the wakeup of an admissible job to the end
   of another provider's pause (`admission.ts:8`).
2. `session_queued_resume`: closing a worker whose resume waits for a slot does
   not dequeue it; the resume sets the closed worker running
   (`lifecycle-tools.ts:404`).
3. `session_old_run`: after an interrupt and an immediate resume, the stopped run
   settles the resumed turn, whose own reply is then dropped
   (`docs/ARCHITECTURE.md:156`).
4. `fleet_consumed`: a salvage that attaches while a mail that quotes only the
   status is out is marked as handed (`agent-fleet.ts:405`).
5. `refresh_overlap`: the re-read of a stale lock and its unlink are two
   operations; the unlink may remove a lock another waiter has created and verified
   in between, and two grants are in flight (`auth/codex/refresh-lock.ts:6`).
6. `admission_bypass`: `canAdmit` looks at the pause before it looks at `bypass`, so a
   bypass job of a paused provider waits with the others, and `admission.ts:9` says that
   it is never frozen.
7. `run_record_drift`: `finalizeRunState` clears the handle before its queued write
   has passed the fence; a crash in between drops the write and finds no run to
   close out (`session/state.ts:144`).

Seen while modelling, kept in the models, and without a run:

- An interrupt between a run's reply and `complete()` leaves the in-flight marker
  on an interrupted lane (`session-store.ts:1708`, `lifecycle.ts:121`).
- `interrupt_agent` or a steer on a *resumed* turn makes its send throw, and
  `onFail` fails the worker (`lifecycle-tools.ts:369`, against `:404`).
- Steers and follow-ups after the first run's `finally` send without a slot
  (`session-store.ts:1309`, `docs/ARCHITECTURE.md:252`).
- Two steers behind a resumed turn are sent at once; a steer stashed during
  `await onFail` stays stashed on an interrupted lane (`session-store.ts:1264`).
- An answered structured ask leaves the handoff at `none`
  (`session-store.ts:2130`); `failClosedSession` rewrites an interrupt's record
  (`:1158`); a deadline withdraws the ask before `settleCancelsAsks` can record it.
- A follow-up that failed while a later steer waits behind it comes back from
  `await onFail` to a handoff that the steer's interrupt took, and the record written
  then need not say that a question is out (`session-store.ts:788` says it can).
  `OpenAskIsRecorded` excepts it; the proof found it, since it takes four inputs and
  the runs have at most two.
- `keepFailed` in `closeOne` is read before the close's await; `cancelAll` after a
  fail-closed turn rewrites failed to shutdown.
- `close_agent` overrides the mailbox before it knows that it can close
  (`lifecycle-tools.ts:295`): if it gives up on a worker in setup and a steer
  clears the override during the mail's turn, a completed report is collected
  unread.
- A record collected without a body hands its late salvage to every later
  `wait_agents` (`agent-fleet.ts:416`).
- `abortSystemContinuation` sets the parent idle although the operator's own turn
  may be running (`runtime-bridge.ts:2311`).
- A decision that is skipped because its generation has passed
  (`tui/runner/session.ts:578`) is recorded as handed over
  (`approval-resume.ts:555`, against the comment at `:473`).
- A message drained after its turn ended, an idle steer or an ask's wake holds the
  session queue until the turn it starts is over (`submit.ts:556`,
  `delivery-queue.ts:803`), while an interrupt only enqueues its rebuild behind it
  (`exit.ts:729`): Ctrl+C and the stall watchdog do not stop such a turn
  (`docs/TUI.md:837`), and steers drained in it arrive after it (`docs/TUI.md:758`).
- A live steer takes two hops and a drained one a single hop, so a later message may
  overtake an earlier one (`delivery-queue.ts:383`).
- An interrupt empties the prompt (`tui/shell/prompt.ts:557`) and with it a message
  that had been restored to it (`docs/TUI.md:836`); the model counts it as
  discarded.
- `handleSendFailure` (`submit.ts:324`) sets the shell idle without draining: what
  was queued while an immediate send failed in its preparation waits for the next
  turn.
- Two background starts that await their sandbox wrap together pass the limit
  (`background-shell.ts:82`, `docs/IMPLEMENTATION.md:211`); a shell whose wrap
  straddles `disposeAll` outlives it.
- A heartbeat queued behind the rotation's last write sets the old session to
  running again (`exit.ts:819`), and a rename's write is not gated by `finalized`.
- An append that fails after it rolled into a new segment leaves a file the writer
  does not know. A compaction landed by the same writer does not unlink it, and the
  commit publishes the stale tail with it (against `incremental-jsonl.ts:119`);
  `exposed` excepts this.
- The first append of a fresh store writes every segment again from its start, so a
  crash in it can lose more than a torn line (`docs/IMPLEMENTATION.md:501`); a
  rewrite that a crash cuts loses turns that had been written. `durable` starts
  again after both.
- After a compaction's commit has failed, the tool cycles that follow are staged in
  memory until the next commit, not written (against the comment at
  `vendor/intx-inference/src/reactor.ts:1218`), and a later commit of an unchanged
  history publishes the old compaction while memory keeps the turns it summarises.
- `selectTail` never picks an earlier summary (`compactor.ts:857`), so each compaction
  folds it into its own, as the comment at `compactor.ts:908` has it; the compacted
  prefix is replaced, which `docs/ARCHITECTURE.md:204` calls append-only and
  byte-identical across passes.

## 7. Not modelled

Transcript entries, usage and tool accounting, revisions and the transcript
sidecar of the store; worktrees, profiles and prompts of a run; digest wording and
blob spill of the drives; painting and key handling; the exec host's run record;
what a compactor does within a turn (excerpts, stubs, merges, spacers, ageing images;
a result that differs from the history in nothing else counts as no change) and turns
with several calls; the hash that identifies a call; approval records in the turn log,
prompt segments, blobs, metadata, git's index and its skipped empty commits, and the
divert of a session's second owner.

The map covers a small share of the repository's 141 thousand lines. Most of the
rest has no state that two actors share: settings and their validation, command
surfaces, layout and painting, prompts and tool wrappers, the translation of
provider protocols, vendored packages. A module about them would restate their
data processing without anything that a step could break. The components list in
`PROJECT.json` gives the reason for each part.

## 8. What could come next

The passing runs' safety properties are proved; what they do not speak of is section
7's. The parts closest to the models are the divert of a session's second owner and the
approval records beside the turns, which would make TurnLog's `live` a merge of two
logs, and the exec host's run record.
