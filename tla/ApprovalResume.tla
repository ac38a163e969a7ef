--------------------------- MODULE ApprovalResume ---------------------------
\* The interactive host's approvals: a tool call parks on the reactor's gate, the
\* host asks the operator, and the decision travels through the serial queue of
\* session operations to the live agent, while Ctrl+C, /clear and tool-set
\* reloads replace that agent.  One step of a handler is its code up to the next
\* await.  Calls are correlation ids.
EXTENDS Integers, Sequences, FiniteSets, SequencesExt

CONSTANTS
  Calls,        \* tool calls that may park
  NoCall,
  Budgets       \* bounds: the calls that park, and how many bumps (interrupts and
                \* rotations) and reloads happen in one behaviour, and
                \* whether anything fails in it

BudgetType == [calls : SUBSET Calls, bumps : Nat, reloads : Nat, faults : BOOLEAN]
ASSUME ConstantsAssumption ==
  /\ NoCall \notin Calls /\ IsFiniteSet(Calls)
  /\ Budgets \subseteq BudgetType

VARIABLES
  gen,          \* delivery generation
  agent,        \* number of the live agent's build
  up,           \* the live agent: open, closing, closed
  session,      \* the session the live agent works in
  fatal,        \* fatalBuildError is set
  leaked,       \* the session's workdir lock was leaked by a failed close
  disk,         \* what the session's store shows of the call
  home,         \* the session the call parked in
  mem,          \* what the live reactor holds of the call
  loop,         \* the call whose event the reactor loop is on
  busy,         \* a message run is open, or a resumed call runs outside one
  blocked,      \* gate.blocked events the stream has not handed over yet
  ask,          \* settleSuspended, one at most per call
  slot,         \* parkedApprovalCancel: whose cancel is registered
  candidate,    \* what the stall watchdog would present again
  handedOver, unsettled, silent,   \* as in createApprovalResume
  delivered,    \* createApprovalDeliverer's set
  ops, step, todo,                 \* the serial queue, the running op's place
  waiter,       \* acceptance of the decision the running op delivered
  left,         \* what is left of the behaviour's budget
  granted,      \* history: the generation an approval was given in
  dropped,      \* history: the agent a decision was dropped on, 0 for none
  runs,         \* history: executions of the call
  noisy         \* history: dropped calls whose reject started a turn on a rebuilt agent

reactorVars == <<agent, up, session, disk, home, mem, loop, busy, blocked>>
resumeVars == <<ask, slot, candidate, handedOver, unsettled, silent>>
opVars == <<fatal, leaked, delivered, ops, step, todo, waiter, left>>
Spend(what) == left[what] > 0 /\ left' = [left EXCEPT ![what] = @ - 1]
history == <<granted, dropped, runs, noisy>>
vars == <<gen, reactorVars, resumeVars, opVars, history>>

Verdicts == {"approved", "rejected"}
IdleAsk == [pc |-> "idle", gen |-> 0, agent |-> 0, sent |-> FALSE, cancelled |-> FALSE,
            canReject |-> FALSE, known |-> FALSE, late |-> FALSE, verdict |-> "rejected"]
NoCandidate == [call |-> NoCall, gen |-> 0, attempted |-> FALSE]
Op(kind, c, v) == [kind |-> kind, call |-> c, verdict |-> v]

Init ==
  /\ gen = 0 /\ agent = 1 /\ up = "open" /\ session = 0 /\ fatal = FALSE /\ leaked = FALSE
  /\ disk = [c \in Calls |-> "none"] /\ home = [c \in Calls |-> 0]
  /\ mem = [c \in Calls |-> "none"] /\ loop = NoCall /\ busy = FALSE /\ blocked = {}
  /\ ask = [c \in Calls |-> IdleAsk] /\ slot = NoCall /\ candidate = NoCandidate
  /\ handedOver = {} /\ unsettled = [c \in Calls |-> "no"] /\ silent = {}
  /\ delivered = {} /\ ops = <<>> /\ step = "start" /\ todo = <<>> /\ waiter = "none"
  /\ left \in Budgets
  /\ granted = [c \in Calls |-> -1] /\ dropped = [c \in Calls |-> 0]
  /\ runs = [c \in Calls |-> 0] /\ noisy = {}

-----------------------------------------------------------------------------
\* The reactor, as far as a parked call sees it.

\* A closed agent's deliver() throws.
Refuses(a) == a # agent \/ up # "open"

\* deliver() of a typed decision: it correlates with a call that is still parked,
\* consuming the gate at once, and is discarded otherwise.
Correlates(c, v) ==
  /\ mem' = IF mem[c] = "parked" THEN [mem EXCEPT ![c] = v] ELSE mem
  /\ busy' = (busy \/ mem[c] = "parked")

\* What a store shows parked: its pending operations, without those whose call
\* has a result on disk.
ShowsParked(c) == disk[c] = "parked" /\ home[c] = session

\* A queued rotation ends the session, and nothing of it is settled any more.
Rotating == \E i \in DOMAIN ops : ops[i].kind = "rotate"

\* Only a reload asks whether the host is busy; while none can come, the model
\* does not tell busy states apart.
ReloadAhead == left.reloads > 0 \/ \E i \in DOMAIN ops : ops[i].kind = "reload"

\* The authorization hook asks: the pending operation is committed, then announced.
Park(c) ==
  /\ up = "open" /\ loop = NoCall /\ disk[c] = "none" /\ c \in left.calls
  /\ disk' = [disk EXCEPT ![c] = "parked"]
  /\ home' = [home EXCEPT ![c] = session]
  /\ mem' = [mem EXCEPT ![c] = "parked"]
  /\ blocked' = blocked \union {c}
  /\ busy' = TRUE
  /\ UNCHANGED <<gen, agent, up, session, loop, resumeVars, opVars, history>>

\* The gate's own deadline consumes the parked call.
GateTimesOut(c) ==
  /\ up = "open" /\ mem[c] = "parked" /\ left.faults
  /\ mem' = [mem EXCEPT ![c] = "timedout"]
  /\ UNCHANGED <<gen, agent, up, session, disk, home, loop, busy, blocked,
                 resumeVars, opVars, history>>

\* The loop dequeues the event a decision or the deadline queued.  An abort has
\* priority, so nothing more is taken once the agent is closing.
LoopTakes(c) ==
  /\ up = "open" /\ loop = NoCall
  /\ mem[c] \in {"approved", "rejected", "timedout"}
  /\ loop' = c
  /\ UNCHANGED <<gen, agent, up, session, disk, home, mem, busy, blocked,
                 resumeVars, opVars, history>>

\* resume.tool_result: the synthetic result is written before the director decides.
LoopWrites(c) ==
  /\ loop = c /\ mem[c] \in {"rejected", "timedout"}
  /\ disk' = [disk EXCEPT ![c] = IF mem[c] = "timedout" THEN "timedout" ELSE "answered"]
  /\ mem' = [mem EXCEPT ![c] = "written"]
  /\ UNCHANGED <<gen, agent, up, session, home, loop, busy, blocked,
                 resumeVars, opVars, history>>

\* The chat director claims a dropped approval's result and waits; any other
\* result starts a turn.
LoopDecides(c) ==
  /\ loop = c /\ mem[c] = "written"
  /\ silent' = silent \ {c}
  /\ noisy' = IF c \notin silent /\ disk[c] = "answered" /\ dropped[c] \in 1 .. agent - 1
                 /\ ~Rotating
              THEN noisy \union {c} ELSE noisy
  /\ mem' = [mem EXCEPT ![c] = "none"]
  /\ loop' = NoCall
  /\ UNCHANGED <<gen, agent, up, session, disk, home, busy, blocked, ask, slot,
                 candidate, handedOver, unsettled, opVars, granted, dropped, runs>>

\* resume.execute_tools: tool.start settles every approved decision held for it.
\* The stream is torn down first in a close, so a closing agent's is not heard.
LoopRuns(c) ==
  /\ loop = c /\ mem[c] = "approved"
  /\ mem' = [mem EXCEPT ![c] = "running"]
  /\ runs' = [runs EXCEPT ![c] = @ + 1]
  /\ waiter' = IF waiter = "held" /\ up = "open" THEN "settled" ELSE waiter
  /\ UNCHANGED <<gen, agent, up, session, disk, home, loop, busy, blocked, resumeVars,
                 fatal, leaked, delivered, ops, step, todo, left, granted, dropped, noisy>>

ToolDone(c) ==
  /\ loop = c /\ mem[c] = "running"
  /\ disk' = [disk EXCEPT ![c] = "answered"]
  /\ mem' = [mem EXCEPT ![c] = "none"]
  /\ loop' = NoCall
  /\ UNCHANGED <<gen, agent, up, session, home, busy, blocked, resumeVars, opVars, history>>

\* A run ends: the parked run's bracket is closed by a later message, whose own
\* run then ends, or the resumed call's turn is over.
RunEnds ==
  /\ up = "open" /\ loop = NoCall /\ busy /\ ReloadAhead
  /\ busy' = FALSE
  /\ UNCHANGED <<gen, agent, up, session, disk, home, mem, loop, blocked,
                 resumeVars, opVars, history>>

-----------------------------------------------------------------------------
\* createApprovalResume: settleSuspended.

StillCurrent(c) == ~ask[c].cancelled /\ ask[c].gen = gen
Status(c) == IF c \in handedOver THEN "handed-over"
             ELSE IF ask[c].pc # "idle" THEN "in-flight" ELSE "idle"

\* handle(): it registers its cancel in the one slot, whoever held it.
Handles(c, sent) ==
  /\ ask' = [ask EXCEPT ![c] = [IdleAsk EXCEPT !.pc = "resolving", !.gen = gen,
                                               !.agent = agent, !.sent = sent]]
  /\ slot' = c

\* The finally block clears the slot, whoever holds it.  A settlement that did
\* not throw leaves nothing for the watchdog.
Finishes(c, threw) ==
  /\ ask' = [ask EXCEPT ![c] = IdleAsk]
  /\ slot' = NoCall
  /\ candidate' = IF ~threw /\ candidate.call = c THEN NoCandidate ELSE candidate

Marked(c, known) ==
  [unsettled EXCEPT ![c] = IF known THEN "known" ELSE IF @ = "no" THEN "unknown" ELSE @]

\* dropParked: the notice, then cancelParked unless a bump ran it already.  Its
\* reject goes to the agent the call parked on, and throws when that one is closed.
Drops(c, a) ==
  LET sends == ~a.cancelled /\ a.canReject IN
  /\ unsettled' = Marked(c, a.known)
  /\ dropped' = [dropped EXCEPT ![c] = a.agent]
  /\ IF sends /\ ~Refuses(a.agent) THEN Correlates(c, "rejected") ELSE UNCHANGED <<mem, busy>>
  /\ Finishes(c, sends /\ Refuses(a.agent))

reactorButMem == <<agent, up, session, disk, home, loop, blocked>>
DropFrame == UNCHANGED <<gen, reactorButMem, handedOver, silent, opVars, granted, runs, noisy>>
AskFrame == UNCHANGED <<gen, reactorVars, handedOver, unsettled, silent, history>>

\* observeParked, or a send's suspended result: whichever is first presents the
\* call, the other joins.  A send keeps the host busy until it is settled.
ObserveParked(c, sent) ==
  /\ c \in blocked /\ (sent => ReloadAhead)
  /\ blocked' = blocked \ {c}
  /\ IF Status(c) = "idle"
     THEN /\ candidate' = [call |-> c, gen |-> gen, attempted |-> FALSE]
          /\ Handles(c, sent)
     ELSE UNCHANGED <<candidate, ask, slot>>
  /\ UNCHANGED <<gen, agent, up, session, disk, home, mem, loop, busy, handedOver,
                 unsettled, silent, opVars, history>>

\* tryResumeOnce, the stall watchdog's one attempt for a candidate.
TryResumeOnce ==
  LET c == candidate.call IN
  /\ c # NoCall
  /\ IF candidate.attempted \/ candidate.gen # gen
     THEN candidate' = NoCandidate /\ UNCHANGED <<ask, slot>>
     ELSE /\ candidate' = [candidate EXCEPT !.attempted = TRUE]
          /\ IF Status(c) = "idle" /\ ShowsParked(c)
             THEN Handles(c, FALSE)
             ELSE UNCHANGED <<ask, slot>>
  /\ AskFrame /\ UNCHANGED opVars

\* The store answers which call is parked under the correlation id.
Resolved(c) ==
  LET a == [ask[c] EXCEPT !.known = (disk[c] = "parked")] IN
  /\ ask[c].pc = "resolving"
  /\ IF ~StillCurrent(c) THEN Drops(c, a) /\ DropFrame
     ELSE /\ AskFrame /\ UNCHANGED opVars
          /\ IF ~a.known THEN Finishes(c, FALSE)
             ELSE /\ ask' = [ask EXCEPT ![c] = [a EXCEPT !.pc = "history"]]
                  /\ UNCHANGED <<slot, candidate>>

\* A store or history read throws.
ReadFails(c) ==
  /\ ask[c].pc \in {"resolving", "history"} /\ left.faults
  /\ Finishes(c, TRUE)
  /\ AskFrame /\ UNCHANGED opVars

\* deliverDecision: the operation joins the queue's tail.
Enqueues(c, v) ==
  /\ ops' = Append(ops, Op("decision", c, v))
  /\ UNCHANGED <<fatal, leaked, delivered, step, todo, waiter, left>>

\* The first history read.  A snapshot that cannot be rendered is rejected at once.
HistoryRead(c, renders) ==
  /\ ask[c].pc = "history" /\ (renders \/ left.faults)
  /\ IF ~StillCurrent(c) THEN Drops(c, ask[c]) /\ DropFrame
     ELSE /\ AskFrame
          /\ CASE disk[c] = "timedout" ->
                    Finishes(c, FALSE) /\ UNCHANGED opVars
               [] disk[c] # "timedout" /\ renders ->
                    /\ ask' = [ask EXCEPT ![c].pc = "asking", ![c].canReject = TRUE]
                    /\ UNCHANGED <<slot, candidate, opVars>>
               [] OTHER ->
                    /\ ask' = [ask EXCEPT ![c].pc = "delivering", ![c].canReject = TRUE,
                                          ![c].verdict = "rejected"]
                    /\ slot' = NoCall
                    /\ Enqueues(c, "rejected")
                    /\ UNCHANGED candidate

\* The overlay resolves: the operator's answer while the approval is current, and
\* a denial when a bump's abort or the timeout watch closed it.
OverlayResolves(c, v) ==
  LET late == disk[c] = "timedout" IN
  /\ ask[c].pc = "asking"
  /\ v = "approved" => StillCurrent(c)
  /\ \E sawIt \in {FALSE, late} :
       ask' = [ask EXCEPT ![c].pc = "watched", ![c].verdict = v, ![c].late = sawIt]
  /\ granted' = IF v = "approved" THEN [granted EXCEPT ![c] = gen] ELSE granted
  /\ UNCHANGED <<gen, reactorVars, slot, candidate, handedOver, unsettled, silent,
                 opVars, dropped, runs, noisy>>

\* The watch has stopped.  The cancel is given up before the last history read.
WatchStops(c) ==
  /\ ask[c].pc = "watched"
  /\ IF ~StillCurrent(c) THEN Drops(c, ask[c]) /\ DropFrame
     ELSE /\ AskFrame /\ UNCHANGED opVars
          /\ IF ask[c].late THEN Finishes(c, FALSE)
             ELSE /\ ask' = [ask EXCEPT ![c].pc = "rechecking"]
                  /\ slot' = NoCall
                  /\ UNCHANGED candidate

\* The last history read before the decision is delivered.
Rechecked(c) ==
  LET late == disk[c] = "timedout" IN
  /\ ask[c].pc = "rechecking"
  /\ IF ~StillCurrent(c)
     THEN Drops(c, [ask[c] EXCEPT !.canReject = @ /\ ~late]) /\ DropFrame
     ELSE /\ AskFrame
          /\ IF late THEN Finishes(c, FALSE) /\ UNCHANGED opVars
             ELSE /\ ask' = [ask EXCEPT ![c].pc = "delivering"]
                  /\ Enqueues(c, ask[c].verdict)
                  /\ UNCHANGED <<slot, candidate>>

\* The approval surface throws: the call is rejected unless it timed out.
SurfaceThrows(c) ==
  /\ ask[c].pc = "asking" /\ left.faults
  /\ IF ~StillCurrent(c) THEN Drops(c, ask[c]) /\ DropFrame
     ELSE /\ ask' = [ask EXCEPT ![c].pc = "failing", ![c].verdict = "rejected"]
          /\ slot' = NoCall
          /\ AskFrame /\ UNCHANGED <<candidate, opVars>>

RecheckedAfterThrow(c) ==
  LET late == disk[c] = "timedout" IN
  /\ ask[c].pc = "failing"
  /\ IF ~StillCurrent(c)
     THEN Drops(c, [ask[c] EXCEPT !.canReject = @ /\ ~late]) /\ DropFrame
     ELSE /\ AskFrame
          /\ IF late THEN Finishes(c, TRUE) /\ UNCHANGED opVars
             ELSE /\ ask' = [ask EXCEPT ![c].pc = "rejecting"]
                  /\ Enqueues(c, "rejected")
                  /\ UNCHANGED <<slot, candidate>>

-----------------------------------------------------------------------------
\* Session operations: createSessionOperationQueue runs them one at a time, and
\* a failed one does not stop the next.

Running(kinds, s) == ops # <<>> /\ Head(ops).kind \in kinds /\ step = s
OpEnds == ops' = Tail(ops) /\ step' = "start" /\ todo' = <<>> /\ waiter' = "none"

\* The settlement learns how its operation ended.  "rejecting" rethrows the
\* surface's error in either case.
DecisionEnds(c, failed) ==
  /\ OpEnds
  /\ handedOver' = IF failed THEN handedOver ELSE handedOver \union {c}
  /\ Finishes(c, failed \/ ask[c].pc = "rejecting")

\* The operation's body, given whether the decision is current and what was
\* delivered before.  A decision whose generation has passed is skipped, and counts
\* as handed over; one delivered before only awaits its acceptance.
DecisionBody(current, before) ==
  LET c == Head(ops).call
      v == Head(ops).verdict IN
  /\ Running({"decision"}, "start")
  /\ CASE ~current ->
            /\ DecisionEnds(c, FALSE)
            /\ UNCHANGED <<mem, busy, delivered>>
       [] current /\ (fatal \/ (c \notin before /\ up # "open")) ->
            /\ DecisionEnds(c, TRUE)
            /\ UNCHANGED <<mem, busy, delivered>>
       [] current /\ ~fatal /\ c \in before ->
            /\ step' = "accept" /\ waiter' = "waiting"
            /\ UNCHANGED <<mem, busy, delivered, ops, todo, handedOver, ask, slot, candidate>>
       [] OTHER ->
            /\ Correlates(c, v)
            /\ delivered' = delivered \union {c}
            /\ waiter' = IF mem[c] # "parked" THEN "waiting"
                         ELSE IF v = "approved" THEN "held" ELSE "settled"
            /\ step' = "accept"
            /\ UNCHANGED <<ops, todo, handedOver, ask, slot, candidate>>
  /\ UNCHANGED <<gen, reactorButMem, unsettled, silent, fatal, leaked, left, history>>

\* (mutant) The operation trusts the check made when it was queued.
UncheckedStart == DecisionBody(TRUE, delivered)

\* (mutant) A retry hands the decision over again.
RedeliveringStart == DecisionBody(StillCurrent(Head(ops).call), {})

DecisionStarts == DecisionBody(StillCurrent(Head(ops).call), delivered)

\* The reactor accepted: a rejection when it correlates, an approval at tool.start,
\* and either when a bump settles every waiter.
DecisionAccepted ==
  /\ Running({"decision"}, "accept") /\ waiter = "settled"
  /\ DecisionEnds(Head(ops).call, FALSE)
  /\ UNCHANGED <<gen, reactorVars, unsettled, silent, fatal, leaked, delivered, left, history>>

\* (mutant) The wait for acceptance has no deadline.
NoDeadline == FALSE /\ UNCHANGED vars

\* The bounded wait gives up, and the queue goes on.
AcceptanceTimesOut ==
  /\ Running({"decision"}, "accept") /\ waiter \in {"waiting", "held"}
  /\ DecisionEnds(Head(ops).call, TRUE)
  /\ UNCHANGED <<gen, reactorVars, unsettled, silent, fatal, leaked, delivered, left, history>>

Goto(s) == step' = s /\ UNCHANGED <<ops, waiter>>
Known(S) == SetToSeq({c \in Calls : unsettled[c] \in S})
HostBusy == busy \/ \E c \in Calls : ask[c].pc # "idle" /\ ask[c].sent

\* A rebuild that keeps the session begins: a reload only if nothing runs, and it
\* may find no drift.  prepareRebuild walks a copy of the dropped approvals.
RebuildStarts ==
  /\ Running({"rebuild", "reload"}, "start")
  /\ \/ /\ Head(ops).kind = "reload" => ~HostBusy
        /\ todo' = Known({"unknown", "known"})
        /\ Goto("prepare")
     \/ /\ Head(ops).kind = "reload"
        /\ OpEnds
  /\ UNCHANGED <<gen, reactorVars, resumeVars, fatal, leaked, delivered, left, history>>

\* One dropped approval: its call id, read from the store when a drop came before
\* it was known, will be settled without a turn.
Prepares ==
  LET c == Head(todo) IN
  /\ Running({"rebuild", "reload"}, "prepare") /\ todo # <<>>
  /\ IF unsettled[c] = "known" \/ ShowsParked(c)
     THEN unsettled' = Marked(c, TRUE) /\ silent' = silent \union {c}
     ELSE UNCHANGED <<unsettled, silent>>
  /\ todo' = Tail(todo)
  /\ UNCHANGED <<gen, reactorVars, ask, slot, candidate, handedOver, fatal, leaked,
                 delivered, ops, step, waiter, left, history>>

\* The store read throws: caught, and the rest of the copy is not prepared.
PrepareFails ==
  /\ Running({"rebuild", "reload"}, "prepare") /\ todo # <<>>
  /\ unsettled[Head(todo)] = "unknown"
  /\ todo' = <<>>
  /\ UNCHANGED <<gen, reactorVars, resumeVars, fatal, leaked, delivered, ops, step, waiter,
                 left, history>>

\* close(): from here the agent refuses deliveries, its stream is gone and its
\* loop takes no further event.
CloseBegins ==
  /\ \/ Running({"rebuild", "reload"}, "prepare") /\ todo = <<>>
     \/ Running({"rotate"}, "start")
  /\ up' = IF up = "open" THEN "closing" ELSE up
  /\ blocked' = {}
  /\ Goto("drain")
  /\ UNCHANGED <<gen, agent, session, disk, home, mem, loop, busy, resumeVars, fatal, leaked,
                 delivered, todo, left, history>>

\* The rejections and timeouts that the reactor accepted and its loop never took.
Untaken == {c \in Calls : mem[c] \in {"rejected", "timedout"} /\ c # loop}

\* initiateShutdown writes their results before it lets go of them; a failed write is
\* caught, and a loop still busy at the deadline has not come to it.
ShutdownWrites ==
  \E S \in {{}, Untaken} :
    /\ S = Untaken \/ left.faults \/ loop # NoCall
    /\ disk' = [c \in Calls |-> IF c \notin S THEN disk[c]
                               ELSE IF mem[c] = "timedout" THEN "timedout" ELSE "answered"]

\* The shutdown completed, or its deadline passed with the loop still busy: what
\* else the reactor held in memory is gone.  Only a rotation moves to a new session.
Drained ==
  /\ Running({"rebuild", "reload", "rotate"}, "drain")
  /\ up' = "closed" /\ loop' = NoCall
  /\ mem' = [c \in Calls |-> "none"]
  /\ ShutdownWrites
  /\ IF Head(ops).kind = "rotate"
     THEN session' = session + 1 /\ leaked' = FALSE
     ELSE UNCHANGED <<session, leaked>>
  /\ Goto("build")
  /\ UNCHANGED <<gen, agent, home, busy, blocked, resumeVars, fatal, delivered, todo,
                 left, history>>

\* close() throws: the workdir's lock is leaked and the rebuild is given up.
CloseFails ==
  /\ Running({"rebuild", "reload"}, "drain") /\ up = "closing"
  /\ up' = "closed" /\ loop' = NoCall
  /\ mem' = [c \in Calls |-> "none"]
  /\ ShutdownWrites
  /\ leaked' = TRUE /\ fatal' = TRUE
  /\ OpEnds
  /\ UNCHANGED <<gen, agent, session, home, busy, blocked, resumeVars, delivered,
                 left, history>>

BuildFails ==
  /\ Running({"rebuild", "reload", "rotate"}, "build") /\ (leaked \/ left.faults)
  /\ fatal' = TRUE /\ busy' = FALSE
  /\ OpEnds
  /\ UNCHANGED <<gen, agent, up, session, disk, home, mem, loop, blocked, resumeVars, leaked,
                 delivered, left, history>>

\* The new agent holds what it rehydrates, without announcing it.
BuildsWith(held) ==
  /\ Running({"rebuild", "reload", "rotate"}, "build") /\ ~leaked
  /\ agent' = agent + 1 /\ up' = "open" /\ busy' = FALSE /\ blocked' = {}
  /\ mem' = held
  /\ IF Head(ops).kind = "rotate"
     THEN fatal' = FALSE /\ OpEnds
     ELSE /\ todo' = Known({"unknown", "known"})
          /\ Goto("settle")
          /\ UNCHANGED fatal
  /\ UNCHANGED <<gen, session, disk, home, loop, resumeVars, leaked, delivered, left, history>>

\* (mutant) Operations are rehydrated whatever their call's result on disk.
BuildsWithAnswered == BuildsWith([c \in Calls |-> disk[c]])

\* It rehydrates the gates its store shows parked.
Builds == BuildsWith([c \in Calls |-> IF ShowsParked(c) THEN "parked" ELSE "none"])

\* settleOn: an approval its store no longer shows is forgotten; one still parked
\* is rejected, and kept until a later rebuild's store shows it closed.
SettlesOne(c, kept, quiet) ==
  /\ Running({"rebuild", "reload"}, "settle") /\ todo # <<>>
  /\ IF ShowsParked(c)
     THEN /\ unsettled' = [unsettled EXCEPT ![c] = kept]
          /\ silent' = silent \union quiet
          /\ Correlates(c, "rejected")
     ELSE /\ unsettled' = [unsettled EXCEPT ![c] = "no"]
          /\ UNCHANGED <<silent, mem, busy>>
  /\ todo' = Tail(todo)
  /\ UNCHANGED <<gen, reactorButMem, ask, slot, candidate, handedOver, fatal, leaked,
                 delivered, ops, step, waiter, left, history>>

\* (mutant) The reject is taken as the end of it.
ForgettingSettles == SettlesOne(Head(todo), "no", {Head(todo)})

\* (mutant) Only what prepareRebuild saw is settled without a turn.
LoudSettles == SettlesOne(Head(todo), "known", {})

Settles == SettlesOne(Head(todo), "known", {Head(todo)})

\* The walk is over, or its store read threw (caught).
RebuildEnds ==
  /\ Running({"rebuild", "reload"}, "settle")
  /\ fatal' = (fatal /\ Head(ops).kind = "reload")
  /\ OpEnds
  /\ UNCHANGED <<gen, reactorVars, resumeVars, leaked, delivered, left, history>>

-----------------------------------------------------------------------------
\* The operator and the tool set.

\* bump(): the watchdog's candidate is cleared, then the registered cancel runs,
\* then every acceptance waiter is settled.  The cancel's reject throws out of
\* bump() when its agent was closed by a reload; what follows is then not done.
BumpThrows ==
  slot # NoCall /\ ~ask[slot].cancelled /\ ask[slot].canReject /\ Refuses(ask[slot].agent)

Bump ==
  /\ Spend("bumps")
  /\ gen' = gen + 1
  /\ candidate' = NoCandidate
  /\ IF slot # NoCall /\ ~ask[slot].cancelled
     THEN /\ ask' = [ask EXCEPT ![slot].cancelled = TRUE]
          /\ dropped' = [dropped EXCEPT ![slot] = ask[slot].agent]
          /\ IF ask[slot].canReject /\ ~BumpThrows
             THEN Correlates(slot, "rejected") ELSE UNCHANGED <<mem, busy>>
     ELSE UNCHANGED <<ask, dropped, mem, busy>>
  /\ waiter' = IF waiter \in {"waiting", "held"} /\ ~BumpThrows THEN "settled" ELSE waiter

BumpMarks == IF slot # NoCall /\ ~ask[slot].cancelled THEN Marked(slot, ask[slot].known) ELSE unsettled

\* Ctrl+C: the bump, then the rebuild is queued.
Interrupt ==
  /\ Bump
  /\ unsettled' = BumpMarks
  /\ ops' = IF BumpThrows THEN ops ELSE Append(ops, Op("rebuild", NoCall, "none"))
  /\ UNCHANGED <<reactorButMem, slot, handedOver, silent, fatal, leaked, delivered, step, todo,
                 granted, runs, noisy>>

\* /clear and /new: the bump, dropped approvals are forgotten, the rotation is queued.
NewSession ==
  /\ Bump
  /\ IF BumpThrows
     THEN unsettled' = BumpMarks /\ UNCHANGED <<silent, ops>>
     ELSE /\ unsettled' = [c \in Calls |-> "no"]
          /\ silent' = {}
          /\ ops' = Append(ops, Op("rotate", NoCall, "none"))
  /\ UNCHANGED <<reactorButMem, slot, handedOver, fatal, leaked, delivered, step, todo,
                 granted, runs, noisy>>

\* requestToolSetRebuild while nothing runs, or the deferred one at a run's end.
ReloadIfIdle ==
  /\ ~HostBusy /\ Spend("reloads")
  /\ ops' = Append(ops, Op("reload", NoCall, "none"))
  /\ UNCHANGED <<gen, reactorVars, resumeVars, fatal, leaked, delivered, step, todo, waiter, history>>

-----------------------------------------------------------------------------
Loop(c) == LoopTakes(c) \/ LoopWrites(c) \/ LoopDecides(c) \/ LoopRuns(c) \/ ToolDone(c)

Settlement(c) ==
  \/ Resolved(c) \/ \E renders \in BOOLEAN : HistoryRead(c, renders)
  \/ WatchStops(c) \/ Rechecked(c) \/ RecheckedAfterThrow(c)

OpStep ==
  \/ DecisionStarts \/ DecisionAccepted \/ AcceptanceTimesOut
  \/ RebuildStarts \/ Prepares \/ CloseBegins \/ Drained \/ Builds \/ BuildFails
  \/ Settles \/ (todo = <<>> /\ RebuildEnds)

OpFault == left.faults /\ (PrepareFails \/ CloseFails \/ (todo # <<>> /\ RebuildEnds))

Next ==
  \/ \E c \in Calls :
       \/ Park(c) \/ GateTimesOut(c) \/ Loop(c)
       \/ \E sent \in BOOLEAN : ObserveParked(c, sent)
       \/ Settlement(c) \/ ReadFails(c) \/ SurfaceThrows(c)
       \/ \E v \in Verdicts : OverlayResolves(c, v)
  \/ RunEnds \/ TryResumeOnce
  \/ OpStep \/ OpFault
  \/ Interrupt \/ NewSession \/ ReloadIfIdle

Spec == Init /\ [][Next]_vars

\* The event loop runs what is ready: a store read answers, a queued operation
\* goes on, a deadline fires.  Nothing is assumed of the operator, of the reactor
\* (whose turns may take forever) or of faults.
ApprovalFairness == WF_vars(OpStep) /\ \A c \in Calls : WF_vars(Settlement(c))

FairSpec == Spec /\ ApprovalFairness

-----------------------------------------------------------------------------
Pcs == {"idle", "resolving", "history", "asking", "watched", "rechecking", "failing",
        "rejecting", "delivering"}
Steps == {"start", "accept", "prepare", "drain", "build", "settle"}

TypeOK ==
  /\ gen \in Nat /\ agent \in Nat \ {0} /\ up \in {"open", "closing", "closed"}
  /\ session \in Nat /\ fatal \in BOOLEAN /\ leaked \in BOOLEAN
  /\ disk \in [Calls -> {"none", "parked", "answered", "timedout"}]
  /\ home \in [Calls -> Nat]
  /\ mem \in [Calls -> {"none", "parked", "approved", "rejected", "timedout", "written", "running"}]
  /\ loop \in Calls \union {NoCall} /\ busy \in BOOLEAN /\ blocked \subseteq Calls
  /\ ask \in [Calls -> [pc : Pcs, gen : Nat, agent : Nat, sent : BOOLEAN, cancelled : BOOLEAN,
                         canReject : BOOLEAN, known : BOOLEAN, late : BOOLEAN, verdict : Verdicts]]
  /\ slot \in Calls \union {NoCall}
  /\ candidate \in [call : Calls \union {NoCall}, gen : Nat, attempted : BOOLEAN]
  /\ handedOver \subseteq Calls /\ unsettled \in [Calls -> {"no", "unknown", "known"}]
  /\ silent \subseteq Calls /\ delivered \subseteq Calls
  /\ ops \in Seq([kind : {"decision", "rebuild", "rotate", "reload"},
                   call : Calls \union {NoCall}, verdict : Verdicts \union {"none"}])
  /\ step \in Steps /\ todo \in Seq(Calls)
  /\ waiter \in {"none", "waiting", "held", "settled"} /\ left \in BudgetType
  /\ granted \in [Calls -> Nat \union {-1}] /\ dropped \in [Calls -> Nat]
  /\ runs \in [Calls -> Nat] /\ noisy \subseteq Calls

\* An approved call runs at most once, whatever is retried, timed out, lost with a
\* closed agent or reloaded from disk as still parked (approval-delivery.ts, the
\* `delivered` set; approval-resume.ts, `handedOver`).
RunsAtMostOnce == \A c \in Calls : runs[c] <= 1

\* The operator's approval reaches a reactor only in the generation it was given
\* in: an interrupt or a rotation between the answer and the queued delivery keeps
\* it from the agent that was built since.
ApprovedInItsGeneration ==
  [][\A c \in Calls : mem[c] = "parked" /\ mem'[c] = "approved" => granted[c] = gen]_vars

\* A dropped approval that its session still holds parked is remembered for the
\* next rebuild: no sequence of rejects lost with closing agents, late drops and
\* failed reads makes settleOn forget it (approval-resume.ts, `unsettled`).
DroppedIsRemembered ==
  \A c \in Calls :
    /\ dropped[c] # 0 /\ ShowsParked(c) /\ mem[c] = "parked" /\ ~Rotating
    => unsettled[c] # "no"

\* The reject that settles a dropped approval on a rebuilt agent never starts a
\* turn there (prepareRebuild and settleOn mark the call before the director can
\* see its result), unless the session is being rotated away.
NoTurnForDroppedCall == noisy = {}

\* The session queue never wedges: whatever decisions are discarded and whatever
\* agent is replaced meanwhile, every queued operation ends.
QueueDrains == (ops # <<>>) ~> (ops = <<>>)
=============================================================================
