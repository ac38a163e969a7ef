------------------------------- MODULE TurnLog -------------------------------
\* The history of a session on disk: turns in segment files that a tool cycle
\* appends to, compactions that rewrite them, and commits that publish them.  The
\* reactor and its store run one operation after the other; a file operation is a
\* step, may fail, and may be the last one before a crash.
EXTENDS Integers, Sequences, SequencesExt, FiniteSetsExt

CONSTANTS
  MaxTurns,     \* bound: turns a behaviour produces
  SegmentTurns, \* turns that fill a segment
  MaxFaults     \* bound: failed operations and restarts of a behaviour

ASSUME SegmentAssumption == MaxTurns \in Nat /\ SegmentTurns \in Nat \ {0} /\ MaxFaults \in Nat

\* A log is a sequence of turns, numbered as they are produced.  A compactor's summary
\* is -k, where k is the latest turn it stands for: it stands for every turn up to k
\* that does not follow it.  Two summaries of turns up to the same one count as one
\* record, and an excerpted, stubbed or coalesced turn as the turns it was made of.
VARIABLES
  callOf,       \* the tool call each turn makes (itself) or answers, 0 for text
  memory,       \* the reactor's history
  dirty,        \* its revision has not been written
  pending,      \* pendingCompactOutput, <<>> for none
  staged,       \* unpublishedRewrite, <<>> for none
  live,         \* liveTurnRefs, <<>> for null
  writer,       \* the records the segment writer remembers, <<>> when fresh
  segments,     \* the files, by number
  job,          \* the operation under way
  backup,       \* segmentSnapshot
  published,    \* the log of git's HEAD
  durable,      \* history: turns whose write or commit returned
  exposed,      \* history: a failed operation left the files between two generations
  faults        \* failed operations and restarts so far

reactorState == <<callOf, memory, dirty, pending>>
storeState == <<staged, live, writer>>
logVars == <<reactorState, storeState, segments, job, backup, published, durable, exposed, faults>>

Idle == [for |-> "idle", log |-> <<>>, ops |-> <<>>, over |-> FALSE]
Job(for, log, ops, over) == [for |-> for, log |-> log, ops |-> ops, over |-> over]

LogInit ==
  /\ callOf = <<>> /\ memory = <<>> /\ dirty = FALSE /\ pending = <<>>
  /\ staged = <<>> /\ live = <<>> /\ writer = <<>>
  /\ segments = <<>> /\ job = Idle /\ backup = <<>> /\ published = <<>>
  /\ durable = {} /\ exposed = FALSE /\ faults = 0

-----------------------------------------------------------------------------
\* What load() makes of the files.

\* accumulateToolSequenceState: no call and no result twice, no result before its call.
Tools(log) == {i \in DOMAIN log : log[i] > 0 /\ callOf[log[i]] # 0}
IsCall(turn) == callOf[turn] = turn
WellFormed(log) ==
  /\ \A i, j \in Tools(log) :
       callOf[log[i]] = callOf[log[j]] /\ IsCall(log[i]) = IsCall(log[j]) => i = j
  /\ \A i \in Tools(log) : \E j \in 1 .. i : log[j] = callOf[log[i]]

Highest(files) == Max({0} \union DOMAIN files)

\* listSegmentFiles stops at the first gap.
Contiguous(files) == Max({n \in 0 .. Highest(files) : 1 .. n \subseteq DOMAIN files})
Concatenated(files, n) == FlattenSeq([s \in 1 .. n |-> files[s]])

\* (mutant) load() trusts every contiguous segment.
EverySegmentKept(files) == Contiguous(files)

\* longestWellFormedExtraCount: the base is always kept.
KeptSegments(files) ==
  Max({0} \union {n \in 1 .. Contiguous(files) : n = 1 \/ WellFormed(Concatenated(files, n))})

Loaded(files) == Concatenated(files, KeptSegments(files))

-----------------------------------------------------------------------------
\* What the segment writer does with a log.

\* Turns in front of a segment.
Before(s) == (s - 1) * SegmentTurns
Chunks(log) == Max({1} \union {s \in 1 .. Len(log) : Before(s) < Len(log)})
Chunk(log, s) == SubSeq(log, Before(s) + 1, Min({Before(s + 1), Len(log)}))
CommonPrefix(a, b) == Max({n \in 0 .. Min({Len(a), Len(b)}) : SubSeq(a, 1, n) = SubSeq(b, 1, n)})

WriteOp(s, text, keep) == [kind |-> "write", seg |-> s, text |-> text, keep |-> keep]
UnlinkOp(s) == [kind |-> "unlink", seg |-> s, text |-> <<>>, keep |-> 0]
\* An index a loop has nothing to do for.
SkipOp(s) == [kind |-> "skip", seg |-> s, text |-> <<>>, keep |-> 0]
Unlinks(first, last) == [i \in 1 .. last - first + 1 |-> UnlinkOp(first + i - 1)]

\* From the first segment that changes, each one in turn; then the tails, which a fresh
\* writer looks for on disk.  A writer with a memory truncates its first segment and
\* goes on from there.
Plan(log) ==
  LET prefix == CommonPrefix(writer, log)
      first == Max({s \in 1 .. Chunks(writer) : Before(s) <= prefix})
      keep(s) == IF s = first THEN prefix - Before(s) ELSE 0
      untouched == writer # <<>> /\ {Len(Chunk(writer, first)), Len(Chunk(log, first))} = {keep(first)}
      start == IF untouched THEN first + 1 ELSE first
  IN  [i \in 1 .. Chunks(log) - start + 1 |->
         WriteOp(start + i - 1, Chunk(log, start + i - 1), keep(start + i - 1))]
      \o Unlinks(Chunks(log) + 1, IF writer = <<>> THEN Highest(segments) ELSE Chunks(writer))

\* It writes over records that are already on disk.
WritesOver(log) ==
  DOMAIN segments # {} /\ (writer = <<>> \/ CommonPrefix(writer, log) < Len(writer))

\* The file after an operation that got as far as turn n of its text.  A prefix that
\* is no longer on disk is written again.
OnDisk(files, s) == IF s \in DOMAIN files THEN files[s] ELSE <<>>
Kept(files, op) == IF op.keep <= Len(OnDisk(files, op.seg)) THEN op.keep ELSE 0
AfterOp(files, op, n) ==
  LET kept == Kept(files, op)
      new == SubSeq(OnDisk(files, op.seg), 1, kept) \o SubSeq(op.text, kept + 1, n)
  IN  [s \in DOMAIN files \union {op.seg} |-> IF s = op.seg THEN new ELSE files[s]]
Without(files, S) == [s \in DOMAIN files \ S |-> files[s]]
Applied(files, op) ==
  CASE op.kind = "write" -> AfterOp(files, op, Len(op.text))
    [] op.kind = "unlink" -> Without(files, {op.seg})
    [] op.kind = "skip" -> files
\* A cut operation leaves what it keeps and any part of what it adds.
CutShort(files, op) ==
  IF op.kind # "write" THEN {files}
  ELSE {AfterOp(files, op, n) : n \in Kept(files, op) .. Len(op.text)}

-----------------------------------------------------------------------------
\* The reactor.

At(for) == job.for = for
Faulty == faults < MaxFaults /\ faults' = faults + 1
Adds(turn, call) ==
  /\ Len(callOf) < MaxTurns
  /\ turn = Len(callOf) + 1
  /\ callOf' = Append(callOf, call)
  /\ memory' = Append(memory, turn)

\* A message arrives, or an inference ends with text or with a tool call.
TurnAppended ==
  /\ At("idle")
  /\ \E calls \in BOOLEAN :
       LET turn == Len(callOf) + 1 IN Adds(turn, IF calls THEN turn ELSE 0)
  /\ dirty' = TRUE
  /\ UNCHANGED <<pending, storeState, segments, job, backup, published, durable, exposed, faults>>

\* writeTurnsLiveOrStage: a log that extends the live one is appended to it; any other
\* one, and all that follow it, wait for the next commit.  The first write of a store
\* takes the log on disk for the live one (resolveFirstWrite).
WritesTurns(log, for) ==
  IF staged = <<>> /\ IsPrefix(IF live # <<>> THEN live ELSE Loaded(segments), log)
  THEN job' = Job(for, log, Plan(log), WritesOver(log)) /\ UNCHANGED storeState
  ELSE job' = Job(for, <<>>, <<>>, FALSE) /\ staged' = log /\ UNCHANGED <<live, writer>>

Unanswered(call) ==
  call \in Range(memory) /\ \A t \in Range(memory) : t > 0 /\ callOf[t] = call => t = call

\* A call's result, from its tool or from a gate that ended it, is written at once.
ToolAnswers ==
  /\ At("idle")
  /\ \E call \in DOMAIN callOf : Unanswered(call) /\ IsCall(call) /\ Adds(Len(callOf) + 1, call)
  /\ WritesTurns(memory', "tools")
  /\ dirty' = TRUE
  /\ UNCHANGED <<pending, segments, backup, published, durable, exposed, faults>>

TurnsOf(log) == {t \in Range(log) : t > 0}

\* (mutant) Closes no pair: a result stays without its call.
TailAlone(log, i) == TurnsOf(SubSeq(log, i, Len(log)))

\* selectTail: the turns from turn i to the newest, each with its call and its result.
TailFrom(log, i) ==
  {t \in TurnsOf(log) :
     \E u \in TurnsOf(SubSeq(log, i, Len(log))) : t = u \/ (callOf[t] # 0 /\ callOf[t] = callOf[u])}

\* The tail behind a summary of the rest, an earlier summary included.
Picked(log, T) == FlattenSeq([i \in DOMAIN log |-> IF log[i] \in T THEN <<log[i]>> ELSE <<>>])
Latest(S) == Max({0} \union {IF t < 0 THEN -t ELSE t : t \in S})
SummaryFrom(log, T) == <<-Latest(Range(log) \ T)>> \o Picked(log, T)

\* A compactor's output: the history as it is when there is nothing to fold or its
\* summary is no good, a summary in front of some tail otherwise.
Compactions ==
  {memory} \union {SummaryFrom(memory, TailFrom(memory, i)) :
                     i \in {j \in DOMAIN memory :
                             memory[j] > 0 /\ ~(Range(memory) \subseteq TailFrom(memory, j))}}

\* executeCompact, which commits right away.
Compacts ==
  /\ At("idle") /\ memory # <<>>
  /\ \E output \in Compactions : pending' = output /\ WritesTurns(output, "compact")
  /\ UNCHANGED <<callOf, memory, dirty, segments, backup, published, durable, exposed, faults>>

\* commitCycle: memory is written unless a compact has been.
CommitBegins ==
  /\ At("idle") /\ memory # <<>>
  /\ IF dirty THEN WritesTurns(memory, "checkpoint")
     ELSE job' = Job("metadata", <<>>, <<>>, FALSE) /\ UNCHANGED storeState
  /\ UNCHANGED <<reactorState, segments, backup, published, durable, exposed, faults>>

\* (mutant) A commit that failed leaves the compact to the next one.
KeepsPending == UNCHANGED pending

\* commitCycle's catch.
DropsPending == pending' = <<>>

-----------------------------------------------------------------------------
\* The operation under way.

InOps == job.ops # <<>>

OpApplied ==
  /\ InOps
  /\ segments' = Applied(segments, Head(job.ops))
  /\ job' = [job EXCEPT !.ops = Tail(@)]
  /\ UNCHANGED <<reactorState, storeState, backup, published, durable, exposed, faults>>

\* restoreTurnSegments: every file of the snapshot, then those it does not have.
RestoreOps ==
  [s \in 1 .. Highest(backup) |->
     IF s \in DOMAIN backup THEN WriteOp(s, backup[s], 0) ELSE SkipOp(s)]
  \o [s \in 1 .. Highest(segments) |-> IF s \in DOMAIN backup THEN SkipOp(s) ELSE UnlinkOp(s)]

\* (mutant) A retry goes on from what the failed commit's writer remembers.
KeepsWriter == UNCHANGED <<live, writer>>

\* The catch of commit(): the next write or commit starts from the files.
ForgetsWriter == live' = <<>> /\ writer' = <<>>

\* A failed operation of a tool cycle's or a compact's write ends the reactor, as a
\* crash does; a commit catches it.
Touches(files, op) == op.kind = "write" \/ (op.kind = "unlink" /\ op.seg \in DOMAIN files)
OpFails ==
  /\ InOps /\ job.for \in {"checkpoint", "landing", "restore"}
  /\ Touches(segments, Head(job.ops))
  /\ segments' \in CutShort(segments, Head(job.ops))
  /\ IF At("landing")
     THEN ForgetsWriter /\ job' = Job("failing", <<>>, <<>>, TRUE)
     ELSE job' = Idle /\ UNCHANGED <<live, writer>>
  /\ exposed' = (exposed \/ ~At("landing"))
  /\ durable' = IF job.over /\ ~At("landing") THEN {} ELSE durable
  /\ DropsPending /\ Faulty
  /\ UNCHANGED <<callOf, memory, dirty, staged, backup, published>>

RestoreBegins ==
  /\ At("failing")
  /\ job' = Job("restore", <<>>, RestoreOps, TRUE)
  /\ UNCHANGED <<reactorState, storeState, segments, backup, published, durable, exposed, faults>>

RestoreEnds ==
  /\ At("restore") /\ ~InOps
  /\ job' = Idle /\ backup' = <<>>
  /\ UNCHANGED <<reactorState, storeState, segments, published, durable, exposed, faults>>

\* writeTurns returns; a log that was only staged has left no trace on disk.
WriteReturns ==
  /\ job.for \in {"tools", "compact", "checkpoint"} /\ ~InOps
  /\ IF job.log = <<>> THEN UNCHANGED <<live, writer, durable, exposed>>
     ELSE /\ live' = job.log /\ writer' = job.log /\ exposed' = (exposed /\ writer # <<>>)
          /\ durable' = durable \union TurnsOf(job.log)
  /\ dirty' = (dirty /\ At("compact"))
  /\ job' = IF At("tools") THEN Idle ELSE Job("metadata", <<>>, <<>>, FALSE)
  /\ UNCHANGED <<callOf, memory, pending, staged, segments, backup, published, faults>>

\* writeManifest, writeMetadata or the snapshot throws before anything has moved.
CommitRefused ==
  /\ At("metadata")
  /\ job' = Idle /\ DropsPending /\ Faulty
  /\ UNCHANGED <<callOf, memory, dirty, storeState, segments, backup, published, durable, exposed>>

\* commit() lands the staged rewrite on the files first.
RewriteLands ==
  /\ At("metadata")
  /\ IF staged = <<>>
     THEN job' = Job("git", <<>>, <<>>, FALSE) /\ UNCHANGED backup
     ELSE backup' = segments /\ job' = Job("landing", staged, Plan(staged), WritesOver(staged))
  /\ UNCHANGED <<reactorState, storeState, segments, published, durable, exposed, faults>>

LandingEnds ==
  /\ At("landing") /\ ~InOps
  /\ writer' = staged
  /\ job' = Job("git", <<>>, <<>>, FALSE)
  /\ UNCHANGED <<reactorState, staged, live, segments, backup, published, durable, exposed, faults>>

\* reconcileSegmentStaging unlinks what lies behind a gap and stages the rest.
Reconciled == Without(segments, DOMAIN segments \ (1 .. Contiguous(segments)))
Publishes == published' = Concatenated(segments, Contiguous(segments))

GitCommits ==
  /\ At("git")
  /\ segments' = Reconciled /\ Publishes
  /\ staged' = <<>> /\ live' = (IF staged # <<>> THEN staged ELSE live)
  /\ pending' = <<>> /\ memory' = (IF pending # <<>> THEN pending ELSE memory)
  /\ dirty' = (dirty /\ pending = <<>>)
  /\ durable' = durable \union TurnsOf(published')
  /\ job' = Idle /\ backup' = <<>>
  /\ UNCHANGED <<callOf, writer, exposed, faults>>

\* A commit may throw before or after HEAD has moved.
GitFails ==
  /\ At("git")
  /\ segments' = Reconciled
  /\ \E landed \in BOOLEAN :
       /\ IF landed THEN Publishes ELSE UNCHANGED published
       /\ job' = IF landed \/ staged = <<>> THEN Idle ELSE Job("failing", <<>>, <<>>, TRUE)
  /\ IF staged = <<>> THEN UNCHANGED <<live, writer>> ELSE ForgetsWriter
  /\ DropsPending /\ Faulty
  /\ UNCHANGED <<callOf, memory, dirty, staged, backup, durable, exposed>>

-----------------------------------------------------------------------------
\* The process dies, or an interrupt replaces the agent: a new reactor and store
\* load the files.
Restarts ==
  /\ ~At("load")
  /\ segments' \in {segments} \union (IF InOps THEN CutShort(segments, Head(job.ops)) ELSE {})
  /\ durable' = IF job.over /\ (InOps \/ At("failing")) THEN {} ELSE durable
  /\ exposed' = FALSE /\ backup' = <<>>
  /\ memory' = <<>> /\ dirty' = FALSE /\ pending' = <<>>
  /\ staged' = <<>> /\ live' = <<>> /\ writer' = <<>>
  /\ job' = Job("load", <<>>,
                 IF KeptSegments(segments') = Contiguous(segments') THEN <<>>
                 ELSE Unlinks(KeptSegments(segments') + 1, Highest(segments')), FALSE)
  /\ Faulty
  /\ UNCHANGED <<callOf, published>>

\* mergedLiveLog has dropped the orphans; the reactor starts from what is left.
LoadEnds ==
  /\ At("load") /\ ~InOps
  /\ memory' = Loaded(segments) /\ job' = Idle
  /\ UNCHANGED <<callOf, dirty, pending, storeState, segments, backup, published, durable, exposed, faults>>

LogNext ==
  \/ TurnAppended \/ ToolAnswers \/ Compacts \/ CommitBegins
  \/ OpApplied \/ OpFails \/ WriteReturns
  \/ CommitRefused \/ RewriteLands \/ LandingEnds \/ GitCommits \/ GitFails
  \/ RestoreBegins \/ RestoreEnds \/ Restarts \/ LoadEnds

LogSpec == LogInit /\ [][LogNext]_logVars

-----------------------------------------------------------------------------
\* a is b, or b with all but some of its turns summarised, not with its newest.
CompactionOf(a, b) ==
  \/ a = b
  \/ /\ ~(Range(b) \subseteq TurnsOf(a)) /\ Last(b) \in TurnsOf(a)
     /\ a = SummaryFrom(b, TurnsOf(a))

Summarised(log) == IF log # <<>> /\ log[1] < 0 THEN 1 .. -log[1] ELSE {}

\* The segments are what a rebuild or a crash finds the history in
\* (vendor/intx-inference/src/reactor.ts:1218).  Whatever they hold, they load as a
\* history with no tool result without its call and no call or result twice, which
\* providers refuse.  A restart between two operations loads the reactor's own
\* history or the part of it that was written, possibly compacted, and no turn is
\* missing whose write or commit has returned.  Excepted are what the code loses: the
\* files after a failed operation of an append or of a restore (exposed), and the turns
\* in front of a rewrite that was in the files when the process died or the restore
\* itself failed (optimized-context-store.ts:2622), which leave durable.
RestartFindsTheTurns ==
  LET log == Loaded(segments)
  IN  /\ WellFormed(log)
      /\ At("idle") => durable \subseteq TurnsOf(log) \union Summarised(log)
      /\ At("idle") =>
           exposed \/ \E n \in 0 .. Len(memory) : CompactionOf(log, SubSeq(memory, 1, n))

\* "A staged compact must not leak into a later infer/tools cycle": what a commit
\* publishes is the reactor's history or a compaction of all of it, after any
\* sequence of failed commits.
CommitPublishesMemory ==
  [][published' # published /\ ~exposed => CompactionOf(published', memory')]_logVars
=============================================================================
