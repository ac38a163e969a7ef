--------------------------- MODULE ApprovalProofs ---------------------------
\* ApprovalResume for every set of calls and every budget: any number of parked
\* calls, interrupts, rotations, reloads and faults.
EXTENDS ApprovalResume, FiniteSetTheorems, TLAPS

\* A call is announced once, before anything else is known of it.
Announced(c) ==
  c \in blocked => /\ ask[c].pc = "idle" /\ dropped[c] = 0 /\ candidate.call # c
                   /\ c \notin handedOver

\* A settlement under way: its bump has dropped it, or nothing has.
Asked(c) ==
  /\ ask[c].pc # "idle" =>
       /\ ask[c].agent # 0
       /\ dropped[c] = IF ask[c].cancelled THEN ask[c].agent ELSE 0
  /\ ask[c].verdict = "approved" => granted[c] = ask[c].gen

\* The cancel in the slot is that of a settlement that has not sent its decision.
Registered(c) == slot = c => ask[c].pc \in {"resolving", "history", "asking", "watched"}

\* What the watchdog may present again was not dropped, and its settlement, if any,
\* is of this generation.
Presented(c) ==
  candidate.call = c => dropped[c] = 0 /\ (ask[c].pc # "idle" => StillCurrent(c))

Over(c) == c \in handedOver => ask[c].pc = "idle"

\* What anything is known of has parked.
Seen(c) ==
  \/ disk[c] # "none"
  \/ /\ c \notin blocked /\ ask[c].pc = "idle" /\ candidate.call # c /\ c \notin handedOver
     /\ dropped[c] = 0

\* A dropped approval that its session shows parked is in `unsettled`, and only
\* dropped approvals are.
Remembered(c) ==
  /\ home[c] <= session
  /\ unsettled[c] # "no" => dropped[c] # 0
  /\ dropped[c] # 0 /\ ShowsParked(c) /\ ~Rotating => unsettled[c] # "no"

\* Only a call that was never delivered is approved on a reactor.
Once(c) ==
  /\ runs[c] <= 1
  /\ mem[c] = "approved" => runs[c] = 0
  /\ runs[c] # 0 \/ mem[c] = "approved" => c \in delivered

\* The reactor is about to write, or has written, the result of a reject.
Answering(c) == mem[c] = "rejected" \/ (mem[c] = "written" /\ disk[c] = "answered")

Accepting(c) ==
  ops # <<>> /\ Head(ops).kind = "decision" /\ Head(ops).call = c /\ step = "accept"
  /\ waiter = "settled"

\* A reject of a call that nobody dropped is the operator's own decision.
Rejected(c) == dropped[c] = 0 /\ Answering(c) => c \in handedOver \/ Accepting(c)

\* A reject that reaches a dropped call on a rebuilt agent was announced to the director.
Quiet(c) == dropped[c] \in 1 .. agent - 1 /\ Answering(c) /\ ~Rotating => c \in silent

CallInv(c) ==
  /\ Announced(c) /\ Asked(c) /\ Registered(c) /\ Presented(c) /\ Over(c) /\ Seen(c)
  /\ Remembered(c) /\ Once(c) /\ Rejected(c) /\ Quiet(c)

IsDecision(o) == o.kind = "decision"

\* A queued decision is its settlement's, which waits for it.
Queued ==
  /\ \A i \in DOMAIN ops : IsDecision(ops[i]) =>
       /\ ops[i].call \in Calls /\ ops[i].verdict \in {ask[ops[i].call].verdict, "rejected"}
       /\ ask[ops[i].call].pc \in {"delivering", "rejecting"}
  /\ \A i, j \in DOMAIN ops :
       IsDecision(ops[i]) /\ IsDecision(ops[j]) /\ ops[i].call = ops[j].call => i = j

\* Between an agent's close and the next build nothing is held in memory, and a
\* rotation has left its session.
Between ==
  /\ ops = <<>> => step = "start"
  /\ \A i \in DOMAIN todo : dropped[todo[i]] # 0
  /\ step = "build" =>
       /\ up = "closed" /\ \A c \in Calls : mem[c] = "none"
       /\ Head(ops).kind = "rotate" => \A c \in Calls : ~ShowsParked(c)

Inv == (\A c \in Calls : CallInv(c)) /\ Queued /\ Between /\ noisy = {}

-----------------------------------------------------------------------------
Asks == [pc : Pcs, gen : Nat, agent : Nat, sent : BOOLEAN, cancelled : BOOLEAN,
         canReject : BOOLEAN, known : BOOLEAN, late : BOOLEAN, verdict : Verdicts]
Operations == [kind : {"decision", "rebuild", "rotate", "reload"},
               call : Calls \union {NoCall}, verdict : Verdicts \union {"none"}]
Memories == {"none", "parked", "approved", "rejected", "timedout", "written", "running"}

\* A walk of prepareRebuild or settleOn is over approvals that `unsettled` holds.
LEMMA KnownSeq ==
    ASSUME NEW S
    PROVE  /\ Known(S) \in Seq(Calls)
           /\ \A i \in DOMAIN Known(S) : unsettled[Known(S)[i]] \in S
<1> DEFINE T == {c \in Calls : unsettled[c] \in S}
<1>1. T \subseteq Calls /\ IsFiniteSet(Calls)
  BY ConstantsAssumption
<1>2. IsFiniteSet(T)
  BY <1>1, FS_Subset
<1>3. Cardinality(T) \in Nat /\ ExistsBijection(1 .. Cardinality(T), T)
  BY <1>2, FS_CardinalityType
<1>4. \E f \in [1 .. Cardinality(T) -> T] : IsInjective(f)
  BY <1>3 DEF ExistsBijection, Bijection, Injection, IsInjective
<1>5. SetToSeq(T) \in [1 .. Cardinality(T) -> T]
  BY <1>4 DEF SetToSeq
<1>6. Known(S) = SetToSeq(T)
  BY DEF Known
<1> HIDE DEF T
<1>7. Known(S) \in Seq(T) /\ DOMAIN Known(S) = 1 .. Cardinality(T)
  BY <1>3, <1>5, <1>6
<1>8. Known(S) \in Seq(Calls)
  BY <1>1, <1>7
<1>9. \A i \in DOMAIN Known(S) : Known(S)[i] \in T
  BY <1>5, <1>6, <1>7
<1>10. \A c \in T : unsettled[c] \in S
  BY DEF T
<1>11. QED
  BY <1>8, <1>9, <1>10

-----------------------------------------------------------------------------
\* Types, by the variables' owners.

ReactorType ==
  /\ gen \in Nat /\ agent \in Nat \ {0} /\ up \in {"open", "closing", "closed"}
  /\ session \in Nat
  /\ disk \in [Calls -> {"none", "parked", "answered", "timedout"}]
  /\ home \in [Calls -> Nat] /\ mem \in [Calls -> Memories]
  /\ loop \in Calls \union {NoCall} /\ busy \in BOOLEAN /\ blocked \subseteq Calls

ResumeType ==
  /\ ask \in [Calls -> Asks] /\ slot \in Calls \union {NoCall}
  /\ candidate \in [call : Calls \union {NoCall}, gen : Nat, attempted : BOOLEAN]
  /\ handedOver \subseteq Calls /\ unsettled \in [Calls -> {"no", "unknown", "known"}]
  /\ silent \subseteq Calls

OpType ==
  /\ fatal \in BOOLEAN /\ leaked \in BOOLEAN /\ delivered \subseteq Calls
  /\ ops \in Seq(Operations)
  /\ \A i \in DOMAIN ops : IsDecision(ops[i]) =>
       ops[i].call \in Calls /\ ops[i].verdict \in Verdicts
  /\ step \in Steps /\ todo \in Seq(Calls)
  /\ waiter \in {"none", "waiting", "held", "settled"} /\ left \in BudgetType

HistoryType ==
  /\ granted \in [Calls -> Nat \union {-1}] /\ dropped \in [Calls -> Nat]
  /\ runs \in [Calls -> Nat] /\ noisy \subseteq Calls

Typed == ReactorType /\ ResumeType /\ OpType /\ HistoryType

LEMMA TypedIsTypeOK == Typed => TypeOK
  BY DEF Typed, TypeOK, ReactorType, ResumeType, OpType, HistoryType, Asks, Operations, Memories

LEMMA ReactorFrame == ReactorType /\ UNCHANGED <<gen, reactorVars>> => ReactorType'
  BY DEF ReactorType, reactorVars

LEMMA ResumeFrame == ResumeType /\ UNCHANGED resumeVars => ResumeType'
  BY DEF ResumeType, resumeVars

LEMMA OpFrame == OpType /\ UNCHANGED opVars => OpType'
  BY DEF OpType, opVars

LEMMA HistoryFrame == HistoryType /\ UNCHANGED history => HistoryType'
  BY DEF HistoryType, history

LEMMA ReactorTypes ==
    ASSUME Typed, NEW c \in Calls,
           Park(c) \/ GateTimesOut(c) \/ Loop(c) \/ RunEnds
    PROVE  Typed'
<1> USE DEF Typed
<1>1. CASE Park(c)
  <2>1. ReactorType'
    BY <1>1 DEF Park, ReactorType, Memories
  <2>2. QED
    BY <1>1, <2>1, ResumeFrame, OpFrame, HistoryFrame DEF Park
<1>2. CASE GateTimesOut(c)
  <2>1. ReactorType'
    BY <1>2 DEF GateTimesOut, ReactorType, Memories
  <2>2. QED
    BY <1>2, <2>1, ResumeFrame, OpFrame, HistoryFrame DEF GateTimesOut
<1>3. CASE LoopTakes(c)
  <2>1. ReactorType'
    BY <1>3 DEF LoopTakes, ReactorType, Memories
  <2>2. QED
    BY <1>3, <2>1, ResumeFrame, OpFrame, HistoryFrame DEF LoopTakes
<1>4. CASE LoopWrites(c)
  <2>1. ReactorType'
    BY <1>4 DEF LoopWrites, ReactorType, Memories
  <2>2. QED
    BY <1>4, <2>1, ResumeFrame, OpFrame, HistoryFrame DEF LoopWrites
<1>5. CASE LoopDecides(c)
  <2>1. ReactorType'
    BY <1>5 DEF LoopDecides, ReactorType, Memories
  <2>2. ResumeType' /\ HistoryType'
    BY <1>5 DEF LoopDecides, ResumeType, HistoryType
  <2>3. QED
    BY <1>5, <2>1, <2>2, OpFrame DEF LoopDecides
<1>6. CASE LoopRuns(c)
  <2>1. ReactorType'
    BY <1>6 DEF LoopRuns, ReactorType, Memories
  <2>2. runs' \in [Calls -> Nat]
    BY <1>6 DEF LoopRuns, HistoryType
  <2>3. HistoryType'
    BY <1>6, <2>2 DEF LoopRuns, HistoryType
  <2>4. OpType'
    BY <1>6 DEF LoopRuns, OpType
  <2>5. QED
    BY <1>6, <2>1, <2>3, <2>4, ResumeFrame DEF LoopRuns
<1>7. CASE ToolDone(c)
  <2>1. ReactorType'
    BY <1>7 DEF ToolDone, ReactorType, Memories
  <2>2. QED
    BY <1>7, <2>1, ResumeFrame, OpFrame, HistoryFrame DEF ToolDone
<1>8. CASE RunEnds
  <2>1. ReactorType'
    BY <1>8 DEF RunEnds, ReactorType
  <2>2. QED
    BY <1>8, <2>1, ResumeFrame, OpFrame, HistoryFrame DEF RunEnds
<1>9. QED BY <1>1, <1>2, <1>3, <1>4, <1>5, <1>6, <1>7, <1>8 DEF Loop

LEMMA IdleAskTyped == IdleAsk \in Asks
  BY DEF IdleAsk, Asks, Pcs, Verdicts

LEMMA CorrelatesTypes ==
    ASSUME ReactorType, NEW c \in Calls, NEW v \in Verdicts,
           Correlates(c, v) \/ UNCHANGED <<mem, busy>>,
           UNCHANGED <<gen, reactorButMem>>
    PROVE  ReactorType'
  BY DEF ReactorType, Correlates, reactorButMem, Memories, Verdicts

LEMMA FinishesTypes ==
    ASSUME ResumeType, NEW c \in Calls, NEW threw, Finishes(c, threw)
    PROVE  /\ ask' \in [Calls -> Asks] /\ slot' \in Calls \union {NoCall}
           /\ candidate' \in [call : Calls \union {NoCall}, gen : Nat, attempted : BOOLEAN]
  BY IdleAskTyped DEF ResumeType, Finishes, NoCandidate

LEMMA MarkedTypes ==
    ASSUME ResumeType, NEW c \in Calls, NEW known \in BOOLEAN
    PROVE  Marked(c, known) \in [Calls -> {"no", "unknown", "known"}]
  BY DEF ResumeType, Marked

LEMMA DropsTypes ==
    ASSUME Typed, NEW c \in Calls, NEW a \in Asks, Drops(c, a), DropFrame
    PROVE  Typed'
<1> DEFINE sends == ~a.cancelled /\ a.canReject
<1>1. a.known \in BOOLEAN /\ a.agent \in Nat
  BY DEF Asks
<1>2. ReactorType'
  BY CorrelatesTypes DEF Typed, Drops, DropFrame, Verdicts
<1>3. unsettled' \in [Calls -> {"no", "unknown", "known"}]
  BY <1>1, MarkedTypes DEF Typed, Drops
<1>4. Finishes(c, sends /\ Refuses(a.agent))
  BY DEF Drops
<1>5. ResumeType'
  BY <1>3, <1>4, FinishesTypes DEF Typed, ResumeType, DropFrame
<1>6. OpType'
  BY OpFrame DEF Typed, DropFrame
<1>7. dropped' \in [Calls -> Nat]
  BY <1>1 DEF Typed, HistoryType, Drops
<1>8. HistoryType'
  BY <1>7 DEF Typed, HistoryType, DropFrame
<1>9. QED
  BY <1>2, <1>5, <1>6, <1>8 DEF Typed

\* A settlement's step that drops nothing changes its ask, its slot, the candidate
\* and the queue.
LEMMA AskTypes ==
    ASSUME Typed, AskFrame, OpType',
           ask' \in [Calls -> Asks], slot' \in Calls \union {NoCall},
           candidate' \in [call : Calls \union {NoCall}, gen : Nat, attempted : BOOLEAN]
    PROVE  Typed'
<1>1. ReactorType' /\ HistoryType'
  BY ReactorFrame, HistoryFrame DEF Typed, AskFrame
<1>2. ResumeType'
  BY DEF Typed, ResumeType, AskFrame
<1>3. QED
  BY <1>1, <1>2 DEF Typed

LEMMA HandlesTypes ==
    ASSUME Typed, NEW c \in Calls, NEW sent \in BOOLEAN, Handles(c, sent)
    PROVE  ask' \in [Calls -> Asks] /\ slot' \in Calls \union {NoCall}
<1> DEFINE a == [IdleAsk EXCEPT !.pc = "resolving", !.gen = gen, !.agent = agent, !.sent = sent]
<1>1. a \in Asks
  BY IdleAskTyped DEF Asks, Pcs, Typed, ReactorType
<1>2. ask' = [ask EXCEPT ![c] = a] /\ slot' = c
  BY DEF Handles
<1> HIDE DEF a
<1>3. QED
  BY <1>1, <1>2 DEF Typed, ResumeType

LEMMA EnqueuesTypes ==
    ASSUME OpType, NEW c \in Calls, NEW v \in Verdicts, Enqueues(c, v)
    PROVE  OpType'
<1> DEFINE o == Op("decision", c, v)
<1>1. o \in Operations /\ o.call = c /\ o.verdict = v
  BY DEF Op, Operations
<1>2. ops' = Append(ops, o)
  BY DEF Enqueues
<1> HIDE DEF o
<1>3. ops \in Seq(Operations)
  BY DEF OpType
<1>4. ops' \in Seq(Operations) /\ DOMAIN ops' = 1 .. Len(ops) + 1 /\ DOMAIN ops = 1 .. Len(ops)
      /\ ops'[Len(ops) + 1] = o /\ \A i \in 1 .. Len(ops) : ops'[i] = ops[i]
  BY <1>1, <1>2, <1>3
<1>5. ASSUME NEW i \in DOMAIN ops', IsDecision(ops'[i])
      PROVE  ops'[i].call \in Calls /\ ops'[i].verdict \in Verdicts
  <2>1. CASE i \in DOMAIN ops
    BY <1>4, <1>5, <2>1 DEF OpType, IsDecision
  <2>2. CASE i = Len(ops) + 1
    BY <1>1, <1>4, <2>2
  <2>3. QED
    BY <1>3, <1>4, <2>1, <2>2
<1>6. QED
  BY <1>4, <1>5 DEF OpType, Enqueues, IsDecision

LEMMA ObserveTypes ==
    ASSUME Typed, NEW c \in Calls, NEW sent \in BOOLEAN, ObserveParked(c, sent)
    PROVE  Typed'
<1>1. ReactorType'
  BY DEF Typed, ReactorType, ObserveParked
<1>2. OpType' /\ HistoryType'
  BY OpFrame, HistoryFrame DEF Typed, ObserveParked
<1>3. /\ ask' \in [Calls -> Asks] /\ slot' \in Calls \union {NoCall}
      /\ candidate' \in [call : Calls \union {NoCall}, gen : Nat, attempted : BOOLEAN]
  <2>1. CASE Status(c) = "idle"
    <3>1. Handles(c, sent) /\ candidate' = [call |-> c, gen |-> gen, attempted |-> FALSE]
      BY <2>1 DEF ObserveParked
    <3>2. gen \in Nat
      BY DEF Typed, ReactorType
    <3>3. QED
      BY <3>1, <3>2, HandlesTypes
  <2>2. CASE Status(c) # "idle"
    BY <2>2 DEF ObserveParked, Typed, ResumeType
  <2>3. QED
    BY <2>1, <2>2
<1>4. ResumeType'
  BY <1>3 DEF Typed, ResumeType, ObserveParked
<1>5. QED
  BY <1>1, <1>2, <1>4 DEF Typed

LEMMA TryResumeTypes ==
    ASSUME Typed, TryResumeOnce
    PROVE  Typed'
<1> DEFINE c == candidate.call
<1>1. candidate \in [call : Calls \union {NoCall}, gen : Nat, attempted : BOOLEAN]
  BY DEF Typed, ResumeType
<1>2. c \in Calls /\ AskFrame
  BY <1>1 DEF TryResumeOnce
<1>3. /\ candidate' \in {NoCandidate, [candidate EXCEPT !.attempted = TRUE]}
      /\ Handles(c, FALSE) \/ UNCHANGED <<ask, slot>>
  BY DEF TryResumeOnce
<1>4. candidate' \in [call : Calls \union {NoCall}, gen : Nat, attempted : BOOLEAN]
  <2>1. CASE candidate' = NoCandidate
    BY <2>1 DEF NoCandidate
  <2>2. CASE candidate' = [candidate EXCEPT !.attempted = TRUE]
    BY <1>1, <2>2
  <2>3. QED
    BY <1>3, <2>1, <2>2
<1>5. ask' \in [Calls -> Asks] /\ slot' \in Calls \union {NoCall}
  BY <1>2, <1>3, HandlesTypes DEF Typed, ResumeType
<1>6. OpType'
  BY OpFrame DEF Typed, TryResumeOnce
<1>7. QED
  BY <1>2, <1>4, <1>5, <1>6, AskTypes

LEMMA SettlementTypes ==
    ASSUME Typed, NEW c \in Calls,
           Settlement(c) \/ ReadFails(c) \/ SurfaceThrows(c)
    PROVE  Typed'
<1> DEFINE Candidates == [call : Calls \union {NoCall}, gen : Nat, attempted : BOOLEAN]
<1>1. /\ ask \in [Calls -> Asks] /\ slot \in Calls \union {NoCall}
      /\ candidate \in Candidates
      /\ OpType /\ ResumeType
  BY DEF Typed, ResumeType
<1>2. ask[c] \in Asks
  BY <1>1
<1> HIDE DEF Candidates
<1>3. ASSUME NEW threw, Finishes(c, threw)
      PROVE  ask' \in [Calls -> Asks] /\ slot' \in Calls \union {NoCall} /\ candidate' \in Candidates
  BY <1>1, <1>3, FinishesTypes DEF Candidates
<1>4. ASSUME AskFrame, OpType', ask' \in [Calls -> Asks], slot' \in Calls \union {NoCall},
             candidate' \in Candidates
      PROVE  Typed'
  BY <1>4, AskTypes DEF Candidates
<1>5. UNCHANGED opVars => OpType'
  BY <1>1, OpFrame
<1>6. ASSUME NEW a \in Asks, ask' = [ask EXCEPT ![c] = a]
      PROVE  ask' \in [Calls -> Asks]
  BY <1>1, <1>6
<1>7. CASE Resolved(c)
  <2> DEFINE a == [ask[c] EXCEPT !.known = (disk[c] = "parked")]
  <2>1. a \in Asks /\ [a EXCEPT !.pc = "history"] \in Asks
    BY <1>2 DEF Asks, Pcs
  <2>2. CASE ~StillCurrent(c)
    BY <1>7, <2>1, <2>2, DropsTypes DEF Resolved
  <2>3. CASE StillCurrent(c)
    <3>1. /\ AskFrame /\ UNCHANGED opVars
          /\ IF ~a.known THEN Finishes(c, FALSE)
             ELSE /\ ask' = [ask EXCEPT ![c] = [a EXCEPT !.pc = "history"]]
                  /\ UNCHANGED <<slot, candidate>>
      BY <1>7, <2>3 DEF Resolved
    <3> HIDE DEF a
    <3>2. QED
      BY <1>1, <1>3, <1>4, <1>5, <1>6, <2>1, <3>1
  <2>4. QED
    BY <2>2, <2>3
<1>8. CASE ReadFails(c)
  BY <1>3, <1>4, <1>5, <1>8 DEF ReadFails
<1>9. ASSUME NEW renders \in BOOLEAN, HistoryRead(c, renders)
      PROVE  Typed'
  <2>1. [ask[c] EXCEPT !.pc = "asking", !.canReject = TRUE] \in Asks
        /\ [ask[c] EXCEPT !.pc = "delivering", !.canReject = TRUE, !.verdict = "rejected"] \in Asks
    BY <1>2 DEF Asks, Pcs, Verdicts
  <2>2. CASE ~StillCurrent(c)
    BY <1>2, <1>9, <2>2, DropsTypes DEF HistoryRead
  <2>3. CASE StillCurrent(c) /\ disk[c] = "timedout"
    BY <1>3, <1>4, <1>5, <1>9, <2>3 DEF HistoryRead
  <2>4. CASE StillCurrent(c) /\ disk[c] # "timedout" /\ renders
    <3>1. /\ AskFrame /\ UNCHANGED opVars /\ UNCHANGED <<slot, candidate>>
          /\ ask' = [ask EXCEPT ![c] = [ask[c] EXCEPT !.pc = "asking", !.canReject = TRUE]]
      BY <1>9, <2>4 DEF HistoryRead
    <3>2. QED
      BY <1>1, <1>4, <1>5, <1>6, <2>1, <3>1
  <2>5. CASE StillCurrent(c) /\ disk[c] # "timedout" /\ ~renders
    <3>1. /\ AskFrame /\ Enqueues(c, "rejected") /\ slot' = NoCall /\ candidate' = candidate
          /\ ask' = [ask EXCEPT ![c] = [ask[c] EXCEPT !.pc = "delivering", !.canReject = TRUE,
                                                      !.verdict = "rejected"]]
      BY <1>9, <2>5 DEF HistoryRead
    <3>2. OpType'
      BY <1>1, <3>1, EnqueuesTypes DEF Verdicts
    <3>3. QED
      BY <1>1, <1>4, <1>6, <2>1, <3>1, <3>2
  <2>6. QED
    BY <2>2, <2>3, <2>4, <2>5
<1>10. CASE WatchStops(c)
  <2>1. [ask[c] EXCEPT !.pc = "rechecking"] \in Asks
    BY <1>2 DEF Asks, Pcs
  <2>2. CASE ~StillCurrent(c)
    BY <1>2, <1>10, <2>2, DropsTypes DEF WatchStops
  <2>3. CASE StillCurrent(c)
    <3>1. /\ AskFrame /\ UNCHANGED opVars
          /\ \/ Finishes(c, FALSE)
             \/ /\ ask' = [ask EXCEPT ![c] = [ask[c] EXCEPT !.pc = "rechecking"]]
                /\ slot' = NoCall /\ candidate' = candidate
      BY <1>10, <2>3 DEF WatchStops
    <3>2. QED
      BY <1>1, <1>3, <1>4, <1>5, <1>6, <2>1, <3>1
  <2>4. QED
    BY <2>2, <2>3
<1>11. CASE Rechecked(c)
  <2>1. [ask[c] EXCEPT !.pc = "delivering"] \in Asks /\ ask[c].verdict \in Verdicts
    BY <1>2 DEF Asks, Pcs
  <2>2. [ask[c] EXCEPT !.canReject = @ /\ ~(disk[c] = "timedout")] \in Asks
    BY <1>2 DEF Asks
  <2>3. CASE ~StillCurrent(c)
    BY <2>2, <1>11, <2>3, DropsTypes DEF Rechecked
  <2>4. CASE StillCurrent(c)
    <3>1. /\ AskFrame
          /\ \/ Finishes(c, FALSE) /\ UNCHANGED opVars
             \/ /\ ask' = [ask EXCEPT ![c] = [ask[c] EXCEPT !.pc = "delivering"]]
                /\ Enqueues(c, ask[c].verdict) /\ UNCHANGED <<slot, candidate>>
      BY <1>11, <2>4 DEF Rechecked
    <3>2. OpType'
      BY <1>1, <1>5, <2>1, <3>1, EnqueuesTypes
    <3>3. QED
      BY <1>1, <1>3, <1>4, <1>6, <2>1, <3>1, <3>2
  <2>5. QED
    BY <2>3, <2>4
<1>12. CASE SurfaceThrows(c)
  <2>1. [ask[c] EXCEPT !.pc = "failing", !.verdict = "rejected"] \in Asks
    BY <1>2 DEF Asks, Pcs, Verdicts
  <2>2. CASE ~StillCurrent(c)
    BY <1>2, <1>12, <2>2, DropsTypes DEF SurfaceThrows
  <2>3. CASE StillCurrent(c)
    <3>1. /\ AskFrame /\ UNCHANGED opVars /\ slot' = NoCall /\ candidate' = candidate
          /\ ask' = [ask EXCEPT ![c] = [ask[c] EXCEPT !.pc = "failing", !.verdict = "rejected"]]
      BY <1>12, <2>3 DEF SurfaceThrows
    <3>2. QED
      BY <1>1, <1>4, <1>5, <1>6, <2>1, <3>1
  <2>4. QED
    BY <2>2, <2>3
<1>13. CASE RecheckedAfterThrow(c)
  <2>1. [ask[c] EXCEPT !.pc = "rejecting"] \in Asks
    BY <1>2 DEF Asks, Pcs
  <2>2. [ask[c] EXCEPT !.canReject = @ /\ ~(disk[c] = "timedout")] \in Asks
    BY <1>2 DEF Asks
  <2>3. CASE ~StillCurrent(c)
    BY <2>2, <1>13, <2>3, DropsTypes DEF RecheckedAfterThrow
  <2>4. CASE StillCurrent(c)
    <3>1. /\ AskFrame
          /\ \/ Finishes(c, TRUE) /\ UNCHANGED opVars
             \/ /\ ask' = [ask EXCEPT ![c] = [ask[c] EXCEPT !.pc = "rejecting"]]
                /\ Enqueues(c, "rejected") /\ UNCHANGED <<slot, candidate>>
      BY <1>13, <2>4 DEF RecheckedAfterThrow
    <3>2. OpType'
      BY <1>1, <1>5, <3>1, EnqueuesTypes DEF Verdicts
    <3>3. QED
      BY <1>1, <1>3, <1>4, <1>6, <2>1, <3>1, <3>2
  <2>5. QED
    BY <2>3, <2>4
<1>14. QED
  BY <1>7, <1>8, <1>9, <1>10, <1>11, <1>12, <1>13 DEF Settlement

LEMMA OverlayTypes ==
    ASSUME Typed, NEW c \in Calls, NEW v \in Verdicts, OverlayResolves(c, v)
    PROVE  Typed'
<1>1. PICK sawIt \in {FALSE, disk[c] = "timedout"} :
        ask' = [ask EXCEPT ![c] = [ask[c] EXCEPT !.pc = "watched", !.verdict = v, !.late = sawIt]]
  BY DEF OverlayResolves
<1>2. sawIt \in BOOLEAN /\ ask[c] \in Asks
  BY DEF Typed, ResumeType
<1>3. [ask[c] EXCEPT !.pc = "watched", !.verdict = v, !.late = sawIt] \in Asks
  BY <1>2 DEF Asks, Pcs
<1>4. ask' \in [Calls -> Asks]
  BY <1>1, <1>3 DEF Typed, ResumeType
<1>5. ResumeType'
  BY <1>4 DEF Typed, ResumeType, OverlayResolves
<1>6. ReactorType' /\ OpType'
  BY ReactorFrame, OpFrame DEF Typed, OverlayResolves
<1>7. granted' \in [Calls -> Nat \union {-1}]
  BY DEF Typed, HistoryType, ReactorType, OverlayResolves
<1>8. HistoryType'
  BY <1>7 DEF Typed, HistoryType, OverlayResolves
<1>9. QED
  BY <1>5, <1>6, <1>8 DEF Typed

\* What Tail leaves of the queue.
LEMMA TailShifts ==
    ASSUME NEW S, NEW s \in Seq(S), s # <<>>
    PROVE  /\ Head(s) = s[1] /\ 1 \in DOMAIN s
           /\ Tail(s) \in Seq(S)
           /\ \A i \in DOMAIN Tail(s) : i + 1 \in DOMAIN s /\ Tail(s)[i] = s[i + 1]
           /\ \A i \in DOMAIN s : i = 1 \/ (i - 1 \in DOMAIN Tail(s) /\ Tail(s)[i - 1] = s[i])
<1>1. Len(s) \in Nat /\ Len(s) # 0
  OBVIOUS
<1>2. Tail(s) \in Seq(S) /\ Len(Tail(s)) = Len(s) - 1
  BY <1>1
<1>3. DOMAIN s = 1 .. Len(s) /\ DOMAIN Tail(s) = 1 .. Len(s) - 1
  BY <1>2
<1>4. \A i \in 1 .. Len(s) - 1 : Tail(s)[i] = s[i + 1]
  BY <1>1
<1>5. QED
  BY <1>1, <1>2, <1>3, <1>4

LEMMA OpEndsTypes ==
    ASSUME OpType, OpEnds, ops # <<>>, fatal' \in BOOLEAN, leaked' \in BOOLEAN,
           delivered' \subseteq Calls, left' = left
    PROVE  OpType'
<1>1. ops \in Seq(Operations) /\ ops' = Tail(ops)
  BY DEF OpType, OpEnds
<1>2. ops' \in Seq(Operations)
  BY <1>1, TailShifts
<1>3. \A i \in DOMAIN ops' : i + 1 \in DOMAIN ops /\ ops'[i] = ops[i + 1]
  BY <1>1, TailShifts
<1>4. \A i \in DOMAIN ops' : IsDecision(ops'[i]) =>
        ops'[i].call \in Calls /\ ops'[i].verdict \in Verdicts
  BY <1>3 DEF OpType
<1>5. step' \in Steps /\ todo' \in Seq(Calls) /\ waiter' \in {"none", "waiting", "held", "settled"}
  BY DEF OpEnds, Steps
<1>6. QED
  BY <1>2, <1>4, <1>5 DEF OpType

LEMMA HeadTyped ==
    ASSUME OpType, ops # <<>>
    PROVE  /\ Head(ops) \in Operations /\ Head(ops) = ops[1] /\ 1 \in DOMAIN ops
           /\ Head(ops).kind = "decision" => Head(ops).call \in Calls /\ Head(ops).verdict \in Verdicts
<1>1. ops \in Seq(Operations)
  BY DEF OpType
<1>2. Head(ops) = ops[1] /\ 1 \in DOMAIN ops
  BY <1>1, TailShifts
<1>3. ops[1] \in Operations
  BY <1>1, <1>2
<1>4. QED
  BY <1>2, <1>3 DEF OpType, IsDecision

LEMMA TodoTyped ==
    ASSUME OpType, todo # <<>>
    PROVE  /\ Head(todo) \in Calls /\ Head(todo) = todo[1] /\ 1 \in DOMAIN todo
           /\ Tail(todo) \in Seq(Calls)
           /\ \A i \in DOMAIN Tail(todo) : i + 1 \in DOMAIN todo /\ Tail(todo)[i] = todo[i + 1]
<1>1. todo \in Seq(Calls)
  BY DEF OpType
<1>2. QED
  BY <1>1, TailShifts

LEMMA DecisionEndsTypes ==
    ASSUME Typed, NEW c \in Calls, NEW failed, DecisionEnds(c, failed), ops # <<>>,
           UNCHANGED <<gen, reactorVars, unsettled, silent, fatal, leaked, delivered, left, history>>
    PROVE  Typed'
<1>1. ReactorType' /\ HistoryType'
  BY ReactorFrame, HistoryFrame DEF Typed
<1>2. OpType'
  BY OpEndsTypes DEF Typed, OpType, DecisionEnds
<1>3. /\ ask' \in [Calls -> Asks] /\ slot' \in Calls \union {NoCall}
      /\ candidate' \in [call : Calls \union {NoCall}, gen : Nat, attempted : BOOLEAN]
  BY FinishesTypes DEF Typed, DecisionEnds
<1>4. handedOver' \subseteq Calls
  BY DEF Typed, ResumeType, DecisionEnds
<1>5. ResumeType'
  BY <1>3, <1>4 DEF Typed, ResumeType
<1>6. QED
  BY <1>1, <1>2, <1>5 DEF Typed

LEMMA DecisionTypes ==
    ASSUME Typed, DecisionStarts \/ DecisionAccepted \/ AcceptanceTimesOut
    PROVE  Typed'
<1> DEFINE c == Head(ops).call
           v == Head(ops).verdict
<1>1. Running({"decision"}, step)
  BY DEF DecisionStarts, DecisionBody, DecisionAccepted, AcceptanceTimesOut, Running
<1>2. ops # <<>> /\ c \in Calls /\ v \in Verdicts
  BY <1>1, HeadTyped DEF Typed, Running
<1>3. CASE DecisionStarts
  <2>1. \/ /\ \E failed \in BOOLEAN : DecisionEnds(c, failed)
           /\ UNCHANGED <<mem, busy, delivered>>
        \/ /\ step' = "accept" /\ waiter' \in {"waiting", "held", "settled"}
           /\ Correlates(c, v) \/ UNCHANGED <<mem, busy>>
           /\ delivered' \in {delivered, delivered \union {c}}
           /\ UNCHANGED <<ops, todo, handedOver, ask, slot, candidate>>
    BY <1>3 DEF DecisionStarts, DecisionBody
  <2>2. UNCHANGED <<gen, reactorButMem, unsettled, silent, fatal, leaked, left, history>>
    BY <1>3 DEF DecisionStarts, DecisionBody
  <2>3. CASE /\ \E failed \in BOOLEAN : DecisionEnds(c, failed)
             /\ UNCHANGED <<mem, busy, delivered>>
    BY <1>2, <2>2, <2>3, DecisionEndsTypes DEF reactorButMem, reactorVars
  <2>4. CASE /\ step' = "accept" /\ waiter' \in {"waiting", "held", "settled"}
             /\ Correlates(c, v) \/ UNCHANGED <<mem, busy>>
             /\ delivered' \in {delivered, delivered \union {c}}
             /\ UNCHANGED <<ops, todo, handedOver, ask, slot, candidate>>
    <3>1. ReactorType'
      BY <1>2, <2>2, <2>4, CorrelatesTypes DEF Typed
    <3>2. ResumeType' /\ HistoryType'
      BY <2>2, <2>4, ResumeFrame, HistoryFrame DEF Typed, resumeVars
    <3>3. OpType'
      BY <1>2, <2>2, <2>4 DEF Typed, OpType, Steps
    <3>4. QED
      BY <3>1, <3>2, <3>3 DEF Typed
  <2>5. QED
    BY <2>1, <2>3, <2>4
<1>4. CASE DecisionAccepted
  BY <1>2, <1>4, DecisionEndsTypes DEF DecisionAccepted
<1>5. CASE AcceptanceTimesOut
  BY <1>2, <1>5, DecisionEndsTypes DEF AcceptanceTimesOut
<1>6. QED
  BY <1>3, <1>4, <1>5

\* The shutdown closes calls on disk and opens none.
LEMMA ShutdownFacts ==
    ASSUME ReactorType, ShutdownWrites
    PROVE  /\ disk' \in [Calls -> {"none", "parked", "answered", "timedout"}]
           /\ \A c \in Calls :
                /\ disk'[c] = "parked" => disk[c] = "parked"
                /\ disk[c] # "none" => disk'[c] # "none"
<1>1. PICK S \in {{}, Untaken} :
        disk' = [c \in Calls |-> IF c \notin S THEN disk[c]
                                ELSE IF mem[c] = "timedout" THEN "timedout" ELSE "answered"]
  BY DEF ShutdownWrites
<1>2. disk \in [Calls -> {"none", "parked", "answered", "timedout"}]
  BY DEF ReactorType
<1> QED
  BY <1>1, <1>2

LEMMA RebuildTypes ==
    ASSUME Typed,
           \/ RebuildStarts \/ Prepares \/ PrepareFails \/ CloseBegins \/ Drained
           \/ CloseFails \/ Builds \/ BuildFails \/ Settles \/ RebuildEnds
    PROVE  Typed'
<1>1. OpType /\ ReactorType /\ ResumeType /\ HistoryType
  BY DEF Typed
<1>2. \A S : Known(S) \in Seq(Calls)
  BY KnownSeq
<1>3. CASE RebuildStarts
  <2>1. ReactorType' /\ ResumeType' /\ HistoryType'
    BY <1>1, <1>3, ReactorFrame, ResumeFrame, HistoryFrame DEF RebuildStarts
  <2>2. UNCHANGED <<fatal, leaked, delivered, left>> /\ ops # <<>>
    BY <1>3 DEF RebuildStarts, Running
  <2>3. CASE OpEnds
    BY <1>1, <2>2, <2>3, <2>1, OpEndsTypes DEF Typed, OpType
  <2>4. CASE todo' = Known({"unknown", "known"}) /\ Goto("prepare")
    <3>1. OpType'
      BY <1>1, <1>2, <2>2, <2>4 DEF OpType, Goto, Steps
    <3>2. QED
      BY <2>1, <3>1 DEF Typed
  <2>5. QED
    BY <1>3, <2>3, <2>4 DEF RebuildStarts
<1>4. CASE Prepares
  <2>1. Head(todo) \in Calls /\ Tail(todo) \in Seq(Calls)
    BY <1>1, <1>4, TodoTyped DEF Prepares
  <2>2. ReactorType' /\ HistoryType'
    BY <1>1, <1>4, ReactorFrame, HistoryFrame DEF Prepares
  <2>3. OpType'
    BY <1>1, <1>4, <2>1 DEF Prepares, OpType
  <2>4. unsettled' \in [Calls -> {"no", "unknown", "known"}] /\ silent' \subseteq Calls
    <3>1. \/ unsettled' = Marked(Head(todo), TRUE) /\ silent' = silent \union {Head(todo)}
          \/ UNCHANGED <<unsettled, silent>>
      BY <1>4 DEF Prepares
    <3>2. Marked(Head(todo), TRUE) \in [Calls -> {"no", "unknown", "known"}]
      BY <1>1, <2>1, MarkedTypes
    <3>3. QED
      BY <1>1, <2>1, <3>1, <3>2 DEF ResumeType
  <2>5. ResumeType'
    BY <1>1, <1>4, <2>4 DEF Prepares, ResumeType
  <2>6. QED
    BY <2>2, <2>3, <2>5 DEF Typed
<1>5. CASE PrepareFails
  <2>1. ReactorType' /\ ResumeType' /\ HistoryType'
    BY <1>1, <1>5, ReactorFrame, ResumeFrame, HistoryFrame DEF PrepareFails
  <2>2. OpType'
    BY <1>1, <1>5 DEF PrepareFails, OpType
  <2>3. QED
    BY <2>1, <2>2 DEF Typed
<1>6. CASE CloseBegins
  <2>1. ResumeType' /\ HistoryType'
    BY <1>1, <1>6, ResumeFrame, HistoryFrame DEF CloseBegins
  <2>2. ReactorType'
    BY <1>1, <1>6 DEF CloseBegins, ReactorType
  <2>3. OpType'
    BY <1>1, <1>6 DEF CloseBegins, OpType, Goto, Steps
  <2>4. QED
    BY <2>1, <2>2, <2>3 DEF Typed
<1>7. CASE Drained
  <2>1. ResumeType' /\ HistoryType'
    BY <1>1, <1>7, ResumeFrame, HistoryFrame DEF Drained
  <2>2. ReactorType'
    BY <1>1, <1>7, ShutdownFacts DEF Drained, ReactorType, Memories
  <2>3. OpType'
    BY <1>1, <1>7 DEF Drained, OpType, Goto, Steps
  <2>4. QED
    BY <2>1, <2>2, <2>3 DEF Typed
<1>8. CASE CloseFails
  <2>1. ResumeType' /\ HistoryType'
    BY <1>1, <1>8, ResumeFrame, HistoryFrame DEF CloseFails
  <2>2. ReactorType'
    BY <1>1, <1>8, ShutdownFacts DEF CloseFails, ReactorType, Memories
  <2>3. /\ OpEnds /\ ops # <<>> /\ fatal' \in BOOLEAN /\ leaked' \in BOOLEAN
        /\ delivered' \subseteq Calls /\ left' = left
    BY <1>1, <1>8 DEF CloseFails, Running, OpType
  <2>4. QED
    BY <1>1, <2>1, <2>2, <2>3, OpEndsTypes DEF Typed
<1>9. CASE Builds
  <2> DEFINE held == [c \in Calls |-> IF ShowsParked(c) THEN "parked" ELSE "none"]
  <2>1. BuildsWith(held) /\ held \in [Calls -> Memories]
    BY <1>9 DEF Builds, Memories
  <2> HIDE DEF held
  <2>2. ResumeType' /\ HistoryType'
    BY <1>1, <2>1, ResumeFrame, HistoryFrame DEF BuildsWith
  <2>3. ReactorType'
    <3>1. agent' \in Nat \ {0}
      BY <1>1, <2>1 DEF BuildsWith, ReactorType
    <3>2. QED
      BY <1>1, <2>1, <3>1 DEF BuildsWith, ReactorType
  <2>4. ops # <<>> /\ UNCHANGED <<leaked, delivered, left>>
    BY <2>1 DEF BuildsWith, Running
  <2>5. \/ fatal' = FALSE /\ OpEnds
        \/ todo' = Known({"unknown", "known"}) /\ Goto("settle") /\ fatal' = fatal
    BY <2>1 DEF BuildsWith
  <2>6. CASE fatal' = FALSE /\ OpEnds
    BY <1>1, <2>2, <2>3, <2>4, <2>6, OpEndsTypes DEF Typed, OpType
  <2>7. CASE todo' = Known({"unknown", "known"}) /\ Goto("settle") /\ fatal' = fatal
    <3>1. OpType'
      BY <1>1, <1>2, <2>4, <2>7 DEF OpType, Goto, Steps
    <3>2. QED
      BY <2>2, <2>3, <3>1 DEF Typed
  <2>8. QED
    BY <2>5, <2>6, <2>7
<1>10. CASE BuildFails
  <2>1. ResumeType' /\ HistoryType'
    BY <1>1, <1>10, ResumeFrame, HistoryFrame DEF BuildFails
  <2>2. ReactorType'
    BY <1>1, <1>10 DEF BuildFails, ReactorType
  <2>3. /\ OpEnds /\ ops # <<>> /\ fatal' \in BOOLEAN /\ leaked' \in BOOLEAN
        /\ delivered' \subseteq Calls /\ left' = left
    BY <1>1, <1>10 DEF BuildFails, Running, OpType
  <2>4. QED
    BY <1>1, <2>1, <2>2, <2>3, OpEndsTypes DEF Typed
<1>11. CASE Settles
  <2> DEFINE c == Head(todo)
  <2>1. SettlesOne(c, "known", {c}) /\ c \in Calls /\ Tail(todo) \in Seq(Calls)
    BY <1>1, <1>11, TodoTyped DEF Settles, SettlesOne
  <2> HIDE DEF c
  <2>2. HistoryType'
    BY <1>1, <2>1, HistoryFrame DEF SettlesOne
  <2>3. ReactorType'
    BY <1>1, <2>1, CorrelatesTypes DEF SettlesOne, Verdicts
  <2>4. unsettled' \in [Calls -> {"no", "unknown", "known"}] /\ silent' \subseteq Calls
    BY <1>1, <2>1 DEF SettlesOne, ResumeType
  <2>5. ResumeType'
    BY <1>1, <2>1, <2>4 DEF SettlesOne, ResumeType
  <2>6. OpType'
    BY <1>1, <2>1 DEF SettlesOne, OpType
  <2>7. QED
    BY <2>2, <2>3, <2>5, <2>6 DEF Typed
<1>12. CASE RebuildEnds
  <2>1. ReactorType' /\ ResumeType' /\ HistoryType'
    BY <1>1, <1>12, ReactorFrame, ResumeFrame, HistoryFrame DEF RebuildEnds
  <2>2. /\ OpEnds /\ ops # <<>> /\ fatal' \in BOOLEAN /\ leaked' \in BOOLEAN
        /\ delivered' \subseteq Calls /\ left' = left
    BY <1>1, <1>12 DEF RebuildEnds, Running, OpType
  <2>3. QED
    BY <1>1, <2>1, <2>2, OpEndsTypes DEF Typed
<1>13. QED
  BY <1>3, <1>4, <1>5, <1>6, <1>7, <1>8, <1>9, <1>10, <1>11, <1>12

LEMMA SpendTypes ==
    ASSUME OpType, NEW what \in {"bumps", "reloads"}, Spend(what)
    PROVE  left' \in BudgetType
<1>1. left \in BudgetType
  BY DEF OpType
<1>2. left.bumps \in Nat /\ left.reloads \in Nat /\ left[what] > 0
  BY <1>1 DEF BudgetType, Spend
<1>3. left[what] - 1 \in Nat
  BY <1>2
<1>4. left' = [left EXCEPT ![what] = left[what] - 1]
  BY DEF Spend
<1>5. CASE what = "bumps"
  BY <1>1, <1>3, <1>4, <1>5 DEF BudgetType
<1>6. CASE what = "reloads"
  BY <1>1, <1>3, <1>4, <1>6 DEF BudgetType
<1>7. QED
  BY <1>5, <1>6

LEMMA AppendTypes ==
    ASSUME OpType, NEW kind \in {"rebuild", "rotate", "reload"},
           ops' = Append(ops, Op(kind, NoCall, "none"))
    PROVE  /\ ops' \in Seq(Operations)
           /\ \A i \in DOMAIN ops' : IsDecision(ops'[i]) =>
                ops'[i].call \in Calls /\ ops'[i].verdict \in Verdicts
<1> DEFINE o == Op(kind, NoCall, "none")
<1>1. o \in Operations /\ o.kind # "decision"
  BY DEF Op, Operations
<1>2. ops \in Seq(Operations) /\ ops' = Append(ops, o)
  BY DEF OpType
<1> HIDE DEF o
<1>3. ops' \in Seq(Operations) /\ DOMAIN ops' = 1 .. Len(ops) + 1 /\ DOMAIN ops = 1 .. Len(ops)
      /\ ops'[Len(ops) + 1] = o /\ \A i \in 1 .. Len(ops) : ops'[i] = ops[i]
  BY <1>1, <1>2
<1>4. Len(ops) \in Nat
  BY <1>2
<1>5. ASSUME NEW i \in DOMAIN ops', IsDecision(ops'[i])
      PROVE  ops'[i].call \in Calls /\ ops'[i].verdict \in Verdicts
  <2>1. CASE i \in DOMAIN ops
    BY <1>3, <1>5, <2>1 DEF OpType, IsDecision
  <2>2. CASE i = Len(ops) + 1
    BY <1>1, <1>3, <1>5, <2>2 DEF IsDecision
  <2>3. QED
    BY <1>3, <1>4, <2>1, <2>2
<1>6. QED
  BY <1>3, <1>5

LEMMA BumpTypes ==
    ASSUME Typed, Bump, UNCHANGED reactorButMem
    PROVE  /\ ReactorType' /\ ask' \in [Calls -> Asks]
           /\ candidate' \in [call : Calls \union {NoCall}, gen : Nat, attempted : BOOLEAN]
           /\ dropped' \in [Calls -> Nat] /\ left' \in BudgetType
           /\ waiter' \in {"none", "waiting", "held", "settled"}
           /\ BumpMarks \in [Calls -> {"no", "unknown", "known"}]
<1>1. OpType /\ ReactorType /\ ResumeType /\ HistoryType
  BY DEF Typed
<1>2. left' \in BudgetType /\ waiter' \in {"none", "waiting", "held", "settled"}
  <2>1. Spend("bumps")
    BY DEF Bump
  <2>2. left' \in BudgetType
    BY <1>1, <2>1, SpendTypes
  <2>3. waiter' \in {"none", "waiting", "held", "settled"}
    BY <1>1 DEF Bump, OpType
  <2>4. QED
    BY <2>2, <2>3
<1>3. candidate' \in [call : Calls \union {NoCall}, gen : Nat, attempted : BOOLEAN]
  BY DEF Bump, NoCandidate
<1>4. gen' \in Nat /\ gen' = gen + 1
  BY <1>1 DEF Bump, ReactorType
<1>5. CASE slot # NoCall /\ ~ask[slot].cancelled
  <2>1. slot \in Calls /\ ask[slot] \in Asks /\ ask \in [Calls -> Asks]
    BY <1>1, <1>5 DEF ResumeType
  <2>2. [ask[slot] EXCEPT !.cancelled = TRUE] \in Asks
    BY <2>1 DEF Asks
  <2>3. ask' = [ask EXCEPT ![slot] = [ask[slot] EXCEPT !.cancelled = TRUE]]
    BY <1>5 DEF Bump
  <2>4. ask' \in [Calls -> Asks]
    BY <2>1, <2>2, <2>3
  <2>5. ask[slot].agent \in Nat /\ ask[slot].known \in BOOLEAN
    BY <2>1 DEF Asks
  <2>6. dropped' \in [Calls -> Nat]
    BY <1>1, <1>5, <2>1, <2>5 DEF Bump, HistoryType
  <2>7. BumpMarks \in [Calls -> {"no", "unknown", "known"}]
    BY <1>1, <1>5, <2>1, <2>5, MarkedTypes DEF BumpMarks
  <2>8. Correlates(slot, "rejected") \/ UNCHANGED <<mem, busy>>
    BY <1>5 DEF Bump
  <2>9. mem' \in [Calls -> Memories] /\ busy' \in BOOLEAN
    BY <1>1, <2>1, <2>8 DEF Correlates, ReactorType, Memories
  <2>10. ReactorType'
    BY <1>1, <1>4, <2>9 DEF ReactorType, reactorButMem
  <2>11. QED
    BY <1>2, <1>3, <2>4, <2>6, <2>7, <2>10
<1>6. CASE ~(slot # NoCall /\ ~ask[slot].cancelled)
  <2>1. UNCHANGED <<ask, dropped, mem, busy>> /\ BumpMarks = unsettled
    BY <1>6 DEF Bump, BumpMarks
  <2>2. ReactorType'
    BY <1>1, <1>4, <2>1 DEF ReactorType, reactorButMem
  <2>3. QED
    BY <1>1, <1>2, <1>3, <2>1, <2>2 DEF ResumeType, HistoryType
<1>7. QED
  BY <1>5, <1>6

LEMMA OperatorTypes ==
    ASSUME Typed, Interrupt \/ NewSession \/ ReloadIfIdle
    PROVE  Typed'
<1>1. OpType /\ ReactorType /\ ResumeType /\ HistoryType
  BY DEF Typed
<1> DEFINE Parts ==
      /\ ReactorType' /\ ask' \in [Calls -> Asks]
      /\ candidate' \in [call : Calls \union {NoCall}, gen : Nat, attempted : BOOLEAN]
      /\ dropped' \in [Calls -> Nat] /\ left' \in BudgetType
      /\ waiter' \in {"none", "waiting", "held", "settled"}
      /\ BumpMarks \in [Calls -> {"no", "unknown", "known"}]
<1>2. Bump /\ UNCHANGED reactorButMem => Parts
  BY BumpTypes
<1>3. CASE Interrupt
  <2>1. Parts
    BY <1>2, <1>3 DEF Interrupt, reactorButMem
  <2>2. ResumeType' /\ HistoryType'
    BY <1>1, <1>3, <2>1 DEF Interrupt, ResumeType, HistoryType
  <2>3. ops' = ops \/ ops' = Append(ops, Op("rebuild", NoCall, "none"))
    BY <1>3 DEF Interrupt
  <2>4. /\ ops' \in Seq(Operations)
        /\ \A i \in DOMAIN ops' : IsDecision(ops'[i]) =>
             ops'[i].call \in Calls /\ ops'[i].verdict \in Verdicts
    BY <1>1, <2>3, AppendTypes DEF OpType
  <2>5. OpType'
    BY <1>1, <1>3, <2>1, <2>4 DEF Interrupt, OpType
  <2>6. QED
    BY <2>1, <2>2, <2>5 DEF Typed
<1>4. CASE NewSession
  <2>1. Parts
    BY <1>2, <1>4 DEF NewSession, reactorButMem
  <2>2. unsettled' \in [Calls -> {"no", "unknown", "known"}] /\ silent' \subseteq Calls
    BY <1>1, <1>4, <2>1 DEF NewSession, ResumeType
  <2>3. ResumeType' /\ HistoryType'
    BY <1>1, <1>4, <2>1, <2>2 DEF NewSession, ResumeType, HistoryType
  <2>4. ops' = ops \/ ops' = Append(ops, Op("rotate", NoCall, "none"))
    BY <1>4 DEF NewSession
  <2>5. /\ ops' \in Seq(Operations)
        /\ \A i \in DOMAIN ops' : IsDecision(ops'[i]) =>
             ops'[i].call \in Calls /\ ops'[i].verdict \in Verdicts
    BY <1>1, <2>4, AppendTypes DEF OpType
  <2>6. OpType'
    BY <1>1, <1>4, <2>1, <2>5 DEF NewSession, OpType
  <2>7. QED
    BY <2>1, <2>3, <2>6 DEF Typed
<1>5. CASE ReloadIfIdle
  <2>1. ReactorType' /\ ResumeType' /\ HistoryType'
    BY <1>1, <1>5, ReactorFrame, ResumeFrame, HistoryFrame DEF ReloadIfIdle
  <2>2. left' \in BudgetType
    BY <1>1, <1>5, SpendTypes DEF ReloadIfIdle
  <2>3. /\ ops' \in Seq(Operations)
        /\ \A i \in DOMAIN ops' : IsDecision(ops'[i]) =>
             ops'[i].call \in Calls /\ ops'[i].verdict \in Verdicts
    BY <1>1, <1>5, AppendTypes DEF ReloadIfIdle
  <2>4. OpType'
    BY <1>1, <1>5, <2>2, <2>3 DEF ReloadIfIdle, OpType
  <2>5. QED
    BY <2>1, <2>4 DEF Typed
<1>6. QED
  BY <1>3, <1>4, <1>5

THEOREM TypeInvariant == Spec => []Typed
<1>1. Init => Typed
  <2>1. ASSUME Init PROVE ReactorType
    <3>1. gen \in Nat /\ agent \in Nat \ {0} /\ session \in Nat
      BY <2>1 DEF Init
    <3>2. home \in [Calls -> Nat] /\ mem \in [Calls -> Memories]
          /\ disk \in [Calls -> {"none", "parked", "answered", "timedout"}]
      BY <2>1 DEF Init, Memories
    <3>3. QED
      BY <2>1, <3>1, <3>2 DEF Init, ReactorType
  <2>2. ASSUME Init PROVE ResumeType
    BY <2>2, IdleAskTyped DEF Init, ResumeType, NoCandidate
  <2>3. ASSUME Init PROVE OpType
    <3>1. ops \in Seq(Operations) /\ todo \in Seq(Calls) /\ DOMAIN ops = {}
      BY <2>3 DEF Init
    <3>2. left \in BudgetType
      BY <2>3, ConstantsAssumption DEF Init
    <3>3. QED
      BY <2>3, <3>1, <3>2 DEF Init, OpType, Steps
  <2>4. ASSUME Init PROVE HistoryType
    <3>1. -1 \in Nat \union {-1}
      OBVIOUS
    <3>2. granted \in [Calls -> Nat \union {-1}]
      BY <2>4, <3>1 DEF Init
    <3>3. QED
      BY <2>4, <3>2 DEF Init, HistoryType
  <2>5. QED
    BY <2>1, <2>2, <2>3, <2>4 DEF Typed
<1>2. Typed /\ [Next]_vars => Typed'
  <2> SUFFICES ASSUME Typed, [Next]_vars PROVE Typed'
    OBVIOUS
  <2>1. CASE Next
    <3>1. ASSUME NEW c \in Calls, Park(c) \/ GateTimesOut(c) \/ Loop(c) PROVE Typed'
      BY <3>1, ReactorTypes
    <3>2. ASSUME NEW c \in Calls, NEW sent \in BOOLEAN, ObserveParked(c, sent) PROVE Typed'
      BY <3>2, ObserveTypes
    <3>3. ASSUME NEW c \in Calls, Settlement(c) \/ ReadFails(c) \/ SurfaceThrows(c) PROVE Typed'
      BY <3>3, SettlementTypes
    <3>4. ASSUME NEW c \in Calls, NEW v \in Verdicts, OverlayResolves(c, v) PROVE Typed'
      BY <3>4, OverlayTypes
    <3>5. CASE RunEnds
      <4>1. CASE Calls = {}
        <5>1. ReactorType'
          BY <3>5 DEF RunEnds, Typed, ReactorType
        <5>2. QED
          BY <3>5, <5>1, ResumeFrame, OpFrame, HistoryFrame DEF RunEnds, Typed
      <4>2. CASE Calls # {}
        BY <3>5, <4>2, ReactorTypes
      <4>3. QED
        BY <4>1, <4>2
    <3>6. CASE TryResumeOnce
      BY <3>6, TryResumeTypes
    <3>7. CASE OpStep \/ OpFault
      BY <3>7, DecisionTypes, RebuildTypes DEF OpStep, OpFault
    <3>8. CASE Interrupt \/ NewSession \/ ReloadIfIdle
      BY <3>8, OperatorTypes
    <3>9. QED
      BY <2>1, <3>1, <3>2, <3>3, <3>4, <3>5, <3>6, <3>7, <3>8 DEF Next
  <2>2. CASE UNCHANGED vars
    BY <2>2, ReactorFrame, ResumeFrame, OpFrame, HistoryFrame DEF vars, Typed
  <2>3. QED
    BY <2>1, <2>2
<1>3. QED
  BY <1>1, <1>2, PTL DEF Spec

-----------------------------------------------------------------------------
\* What the reactor's steps keep.

LEMMA RotatingSame == ops' = ops => (Rotating' <=> Rotating)
  BY DEF Rotating

LEMMA ReactorKeeps ==
    ASSUME Typed, NEW c \in Calls, NEW d \in Calls, CallInv(c), CallInv(d),
           Park(c) \/ GateTimesOut(c) \/ Loop(c) \/ RunEnds
    PROVE  CallInv(d)'
<1>1. /\ ask \in [Calls -> Asks] /\ mem \in [Calls -> Memories] /\ runs \in [Calls -> Nat]
      /\ home \in [Calls -> Nat] /\ session \in Nat
      /\ disk \in [Calls -> {"none", "parked", "answered", "timedout"}]
  BY DEF Typed, ReactorType, ResumeType, HistoryType
<1>2. UNCHANGED <<gen, agent, session, ask, slot, candidate, handedOver, unsettled,
                  delivered, ops, step, granted, dropped>>
  BY DEF Park, GateTimesOut, Loop, LoopTakes, LoopWrites, LoopDecides, LoopRuns, ToolDone,
         RunEnds, reactorVars, resumeVars, opVars, history
<1>3. Rotating' <=> Rotating
  BY <1>2, RotatingSame
<1>4. Registered(d)' /\ Asked(d)' /\ Presented(d)' /\ Over(d)'
  BY <1>2 DEF CallInv, Registered, Asked, Presented, Over, StillCurrent
<1>5. CASE Park(c)
  BY <1>1, <1>2, <1>3, <1>4, <1>5 DEF Park, CallInv, Announced, Seen, Remembered, ShowsParked,
     Once, Rejected, Accepting, Answering, Quiet, resumeVars, opVars, history
<1>6. CASE GateTimesOut(c)
  BY <1>1, <1>2, <1>3, <1>4, <1>6 DEF GateTimesOut, CallInv, Announced, Seen, Remembered,
     ShowsParked, Once, Rejected, Accepting, Answering, Quiet, resumeVars, opVars, history
<1>7. CASE LoopTakes(c)
  BY <1>1, <1>2, <1>3, <1>4, <1>7 DEF LoopTakes, CallInv, Announced, Seen, Remembered,
     ShowsParked, Once, Rejected, Accepting, Answering, Quiet, resumeVars, opVars, history
<1>8. CASE LoopWrites(c)
  BY <1>1, <1>2, <1>3, <1>4, <1>8 DEF LoopWrites, CallInv, Announced, Seen, Remembered,
     ShowsParked, Once, Rejected, Accepting, Answering, Quiet, resumeVars, opVars, history
<1>9. CASE LoopDecides(c)
  BY <1>1, <1>2, <1>3, <1>4, <1>9 DEF LoopDecides, CallInv, Announced, Seen, Remembered,
     ShowsParked, Once, Rejected, Accepting, Answering, Quiet, resumeVars, opVars, history
<1>10. CASE LoopRuns(c)
  BY <1>1, <1>2, <1>3, <1>4, <1>10 DEF LoopRuns, CallInv, Announced, Seen, Remembered,
     ShowsParked, Once, Rejected, Accepting, Answering, Quiet, resumeVars, opVars, history
<1>11. CASE ToolDone(c)
  BY <1>1, <1>2, <1>3, <1>4, <1>11 DEF ToolDone, CallInv, Announced, Seen, Remembered,
     ShowsParked, Once, Rejected, Accepting, Answering, Quiet, resumeVars, opVars, history
<1>12. CASE RunEnds
  BY <1>1, <1>2, <1>3, <1>4, <1>12 DEF RunEnds, CallInv, Announced, Seen, Remembered,
     ShowsParked, Once, Rejected, Accepting, Answering, Quiet, resumeVars, opVars, history
<1>13. QED
  BY <1>5, <1>6, <1>7, <1>8, <1>9, <1>10, <1>11, <1>12 DEF Loop

-----------------------------------------------------------------------------
\* What a settlement's steps keep.

\* The queue keeps its head and its rotations.
QueueGrows == (Rotating => Rotating') /\ \A c \in Calls : Accepting(c) => Accepting(c)'

LEMMA SameQueueGrows == UNCHANGED <<ops, step, waiter>> => QueueGrows
  BY DEF QueueGrows, Rotating, Accepting

LEMMA AppendShifts ==
    ASSUME OpType, NEW o \in Operations, ops' = Append(ops, o)
    PROVE  /\ DOMAIN ops' = 1 .. Len(ops) + 1 /\ DOMAIN ops = 1 .. Len(ops) /\ Len(ops) \in Nat
           /\ ops'[Len(ops) + 1] = o /\ \A i \in DOMAIN ops : i \in DOMAIN ops' /\ ops'[i] = ops[i]
           /\ ops' # <<>> /\ Head(ops') = ops'[1]
           /\ ops # <<>> => Head(ops') = Head(ops)
<1>1. ops \in Seq(Operations)
  BY DEF OpType
<1>2. /\ ops' \in Seq(Operations) /\ Len(ops') = Len(ops) + 1
      /\ ops'[Len(ops) + 1] = o /\ \A i \in 1 .. Len(ops) : ops'[i] = ops[i]
  BY <1>1
<1>3. DOMAIN ops' = 1 .. Len(ops) + 1 /\ DOMAIN ops = 1 .. Len(ops) /\ Len(ops) \in Nat
  BY <1>1, <1>2
<1>4. ops' # <<>> /\ Head(ops') = ops'[1]
  BY <1>2, <1>3
<1>5. ops # <<>> => Head(ops) = ops[1] /\ 1 \in DOMAIN ops
  BY <1>1, TailShifts
<1>6. QED
  BY <1>2, <1>3, <1>4, <1>5

LEMMA AppendGrows ==
    ASSUME OpType, NEW o \in Operations, ops' = Append(ops, o), step' = step,
           waiter = "settled" => waiter' = "settled"
    PROVE  QueueGrows
<1>1. Rotating => Rotating'
  BY AppendShifts DEF Rotating
<1>2. \A c \in Calls : Accepting(c) => Accepting(c)'
  BY AppendShifts DEF Accepting
<1>3. QED
  BY <1>1, <1>2 DEF QueueGrows

LEMMA EnqueueGrows ==
    ASSUME OpType, NEW c \in Calls, NEW v \in Verdicts, Enqueues(c, v)
    PROVE  QueueGrows
<1>1. Op("decision", c, v) \in Operations
  BY DEF Op, Operations
<1>2. QED
  BY <1>1, AppendGrows DEF Enqueues

LEMMA HandleKeeps ==
    ASSUME Typed, NEW c \in Calls, NEW d \in Calls, CallInv(c), CallInv(d),
           NEW sent \in BOOLEAN, Handles(c, sent), Status(c) = "idle", dropped[c] = 0,
           disk[c] # "none", c \notin blocked', blocked' \subseteq blocked,
           candidate' \in [call : {c}, gen : Nat, attempted : BOOLEAN],
           UNCHANGED <<gen, agent, session, disk, home, mem, handedOver, unsettled,
                       silent, opVars, history>>
    PROVE  CallInv(d)'
<1>1. /\ ask \in [Calls -> Asks] /\ agent \in Nat \ {0}
  BY DEF Typed, ReactorType, ResumeType
<1>2. ask[c].pc = "idle" /\ c \notin handedOver
  BY DEF Status
<1> DEFINE a == [IdleAsk EXCEPT !.pc = "resolving", !.gen = gen, !.agent = agent, !.sent = sent]
<1>3. /\ a.pc = "resolving" /\ a.gen = gen /\ a.agent = agent /\ ~a.cancelled
      /\ a.verdict = "rejected"
  BY DEF IdleAsk
<1>4. ask' = [ask EXCEPT ![c] = a] /\ slot' = c
  BY DEF Handles
<1> HIDE DEF a
<1>5. ask'[c] = a /\ (d # c => ask'[d] = ask[d])
  BY <1>1, <1>4
<1>6. Rotating' = Rotating /\ (Accepting(d)' <=> Accepting(d))
  BY DEF Rotating, Accepting, opVars
<1>7. candidate'.call = c
  OBVIOUS
<1>8. CASE d = c
  <2>1. Announced(d)' /\ Asked(d)' /\ Registered(d)' /\ Presented(d)' /\ Over(d)' /\ Seen(d)'
    BY <1>1, <1>2, <1>3, <1>4, <1>5, <1>7, <1>8
       DEF CallInv, Announced, Asked, Registered, Presented, StillCurrent, Over, Seen, history
  <2>2. Remembered(d)' /\ Once(d)' /\ Rejected(d)' /\ Quiet(d)'
    BY <1>6 DEF CallInv, Remembered, ShowsParked, Once, Rejected, Answering, Quiet, history, opVars
  <2>3. QED
    BY <2>1, <2>2 DEF CallInv
<1>9. CASE d # c
  <2>1. Announced(d)' /\ Asked(d)' /\ Registered(d)' /\ Presented(d)' /\ Over(d)' /\ Seen(d)'
    BY <1>4, <1>5, <1>7, <1>9
       DEF CallInv, Announced, Asked, Registered, Presented, StillCurrent, Over, Seen, history
  <2>2. Remembered(d)' /\ Once(d)' /\ Rejected(d)' /\ Quiet(d)'
    BY <1>6 DEF CallInv, Remembered, ShowsParked, Once, Rejected, Answering, Quiet, history, opVars
  <2>3. QED
    BY <2>1, <2>2 DEF CallInv
<1>10. QED
  BY <1>8, <1>9

LEMMA ObserveKeeps ==
    ASSUME Typed, NEW c \in Calls, NEW d \in Calls, CallInv(c), CallInv(d),
           NEW sent \in BOOLEAN, ObserveParked(c, sent)
    PROVE  CallInv(d)'
<1>1. gen \in Nat
  BY DEF Typed, ReactorType
<1>2. dropped[c] = 0 /\ disk[c] # "none"
  BY DEF ObserveParked, CallInv, Announced, Seen
<1>3. CASE Status(c) = "idle"
  <2>1. Handles(c, sent) /\ candidate' = [call |-> c, gen |-> gen, attempted |-> FALSE]
    BY <1>3 DEF ObserveParked
  <2>2. candidate' \in [call : {c}, gen : Nat, attempted : BOOLEAN]
    BY <1>1, <2>1
  <2>3. blocked' = blocked \ {c}
        /\ UNCHANGED <<gen, agent, session, disk, home, mem, handedOver, unsettled,
                       silent, opVars, history>>
    BY DEF ObserveParked
  <2>4. QED
    BY <1>2, <1>3, <2>1, <2>2, <2>3, HandleKeeps
<1>4. CASE Status(c) # "idle"
  BY <1>4 DEF ObserveParked, CallInv, Announced, Status
<1>5. QED
  BY <1>3, <1>4

LEMMA TryResumeKeeps ==
    ASSUME Typed, NEW d \in Calls, \A c \in Calls : CallInv(c), TryResumeOnce
    PROVE  CallInv(d)'
<1> DEFINE c == candidate.call
<1>1. candidate \in [call : Calls \union {NoCall}, gen : Nat, attempted : BOOLEAN]
  BY DEF Typed, ResumeType
<1>2. c \in Calls /\ AskFrame /\ UNCHANGED opVars
  BY <1>1 DEF TryResumeOnce
<1>3. \/ candidate' = NoCandidate /\ UNCHANGED <<ask, slot>>
      \/ candidate' = [candidate EXCEPT !.attempted = TRUE] /\ UNCHANGED <<ask, slot>>
      \/ /\ candidate' = [candidate EXCEPT !.attempted = TRUE]
         /\ Status(c) = "idle" /\ ShowsParked(c) /\ Handles(c, FALSE)
  BY DEF TryResumeOnce
<1>4. CASE candidate' \in {NoCandidate, [candidate EXCEPT !.attempted = TRUE]}
           /\ UNCHANGED <<ask, slot>>
  <2>1. candidate'.call = d => candidate.call = d
    <3>1. CASE candidate' = NoCandidate
      BY <3>1, ConstantsAssumption DEF NoCandidate
    <3>2. CASE candidate' = [candidate EXCEPT !.attempted = TRUE]
      BY <1>1, <3>2
    <3>3. QED
      BY <1>4, <3>1, <3>2
  <2>2. Rotating' = Rotating /\ (Accepting(d)' <=> Accepting(d))
    BY <1>2 DEF Rotating, Accepting, opVars
  <2>3. CallInv(d)
    OBVIOUS
  <2>4. Announced(d)' /\ Asked(d)' /\ Registered(d)' /\ Presented(d)' /\ Over(d)' /\ Seen(d)'
    BY <1>2, <1>4, <2>1, <2>3 DEF CallInv, Announced, Asked, Registered, Presented, StillCurrent,
       Over, Seen, AskFrame, reactorVars, history
  <2>5. Remembered(d)' /\ Once(d)' /\ Rejected(d)' /\ Quiet(d)'
    BY <1>2, <2>2, <2>3 DEF CallInv, Remembered, ShowsParked, Once, Rejected, Answering,
       Quiet, AskFrame, reactorVars, history, opVars
  <2>6. QED
    BY <2>4, <2>5 DEF CallInv
<1>5. CASE /\ candidate' = [candidate EXCEPT !.attempted = TRUE]
           /\ Status(c) = "idle" /\ ShowsParked(c) /\ Handles(c, FALSE)
  <2>1. CallInv(c) /\ CallInv(d)
    BY <1>2
  <2>2. dropped[c] = 0 /\ disk[c] # "none" /\ c \notin blocked
    BY <1>5, <2>1 DEF CallInv, Presented, Announced, ShowsParked
  <2>3. candidate' \in [call : {c}, gen : Nat, attempted : BOOLEAN]
    BY <1>1, <1>5
  <2>4. blocked' = blocked /\ UNCHANGED <<gen, agent, session, disk, home, mem, handedOver,
                                          unsettled, silent, opVars, history>>
    BY <1>2 DEF AskFrame, reactorVars
  <2>5. QED
    BY <1>2, <1>5, <2>1, <2>2, <2>3, <2>4, HandleKeeps
<1>6. QED
  BY <1>3, <1>4, <1>5, ZenonT(60)

LEMMA DropsKeep ==
    ASSUME Typed, Queued, NEW c \in Calls, NEW d \in Calls, CallInv(c), CallInv(d),
           NEW a \in Asks, a.agent = ask[c].agent, a.cancelled = ask[c].cancelled,
           ~StillCurrent(c), ask[c].pc \notin {"idle", "delivering", "rejecting"},
           Drops(c, a), DropFrame
    PROVE  CallInv(d)'
<1> DEFINE sends == ~a.cancelled /\ a.canReject
<1>1. /\ ask \in [Calls -> Asks] /\ mem \in [Calls -> Memories] /\ agent \in Nat
      /\ dropped \in [Calls -> Nat] /\ unsettled \in [Calls -> {"no", "unknown", "known"}]
      /\ ask[c].agent \in Nat
  BY DEF Typed, ReactorType, ResumeType, HistoryType, Asks
<1>2. /\ ask' = [ask EXCEPT ![c] = IdleAsk] /\ slot' = NoCall
      /\ candidate' \in {candidate, NoCandidate}
      /\ dropped' = [dropped EXCEPT ![c] = a.agent]
      /\ unsettled' = Marked(c, a.known)
      /\ (Correlates(c, "rejected") /\ a.agent = agent) \/ mem' = mem
  BY DEF Drops, Finishes, Refuses
<1>3. UNCHANGED <<gen, agent, session, disk, home, blocked, handedOver, silent, opVars, granted,
                  runs>>
  BY DEF DropFrame, reactorButMem
<1>4. /\ unsettled'[c] # "no" /\ (d # c => unsettled'[d] = unsettled[d])
  BY <1>1, <1>2 DEF Marked
<1>5. candidate'.call = d => candidate' = candidate
  BY <1>2, ConstantsAssumption DEF NoCandidate
<1>6. (Rotating' <=> Rotating) /\ (Accepting(d)' <=> Accepting(d))
  BY <1>3 DEF Rotating, Accepting, opVars
<1>7. ~Accepting(c)
  BY HeadTyped DEF Queued, Accepting, IsDecision, Typed
<1>8. CASE d = c
  <2>1. ask'[c] = IdleAsk /\ dropped'[c] = ask[c].agent /\ ask[c].agent # 0 /\ candidate.call # c
        /\ c \notin handedOver /\ c \notin blocked
    BY <1>1, <1>2 DEF CallInv, Announced, Asked, Presented, Over
  <2>2. Announced(c)' /\ Asked(c)' /\ Registered(c)' /\ Presented(c)' /\ Over(c)' /\ Seen(c)'
    BY <1>2, <1>3, <1>5, <1>8, <2>1, ConstantsAssumption
       DEF CallInv, Announced, Asked, Registered, Presented, Over, Seen, IdleAsk
  <2>3. Remembered(c)' /\ Rejected(c)'
    BY <1>3, <1>4, <2>1 DEF CallInv, Remembered, Rejected
  <2>4. Once(c)'
    BY <1>1, <1>2, <1>3 DEF CallInv, Once, Correlates, opVars
  <2>5. Quiet(c)'
    <3>1. CASE a.agent = agent
      BY <1>1, <1>3, <2>1, <3>1 DEF Quiet
    <3>2. CASE mem' = mem
      <4>1. Answering(c)' <=> Answering(c)
        BY <1>3, <3>2 DEF Answering
      <4>2. CASE ask[c].cancelled
        BY <1>3, <1>6, <2>1, <4>1, <4>2 DEF CallInv, Asked, Quiet
      <4>3. CASE ~ask[c].cancelled
        BY <1>7, <2>1, <4>1, <4>3 DEF CallInv, Asked, Rejected, Quiet
      <4>4. QED
        BY <4>2, <4>3
    <3>3. QED
      BY <1>2, <3>1, <3>2
  <2>6. QED
    BY <1>8, <2>2, <2>3, <2>4, <2>5 DEF CallInv
<1>9. CASE d # c
  <2>1. ask'[d] = ask[d] /\ dropped'[d] = dropped[d] /\ mem'[d] = mem[d]
    BY <1>1, <1>2, <1>9 DEF Correlates
  <2>2. Announced(d)' /\ Asked(d)' /\ Registered(d)' /\ Presented(d)' /\ Over(d)' /\ Seen(d)'
    BY <1>2, <1>3, <1>5, <2>1, ConstantsAssumption
       DEF CallInv, Announced, Asked, Registered, Presented, StillCurrent, Over, Seen
  <2>3. Remembered(d)' /\ Once(d)' /\ Rejected(d)' /\ Quiet(d)'
    BY <1>3, <1>4, <1>6, <1>9, <2>1
       DEF CallInv, Remembered, ShowsParked, Once, Rejected, Answering, Quiet, opVars
  <2>4. QED
    BY <2>2, <2>3 DEF CallInv
<1>10. QED
  BY <1>8, <1>9

\* A settlement that goes on, or is over without a drop.
LEMMA AskMoves ==
    ASSUME Typed, NEW c \in Calls, NEW d \in Calls, CallInv(c), CallInv(d), AskFrame,
           ask[c].pc # "idle", QueueGrows, delivered' = delivered,
           NEW a \in Asks, ask' = [ask EXCEPT ![c] = a],
           slot' \in {slot, NoCall}, candidate' \in {candidate, NoCandidate},
           \/ a = IdleAsk /\ slot' = NoCall
           \/ /\ a.gen = ask[c].gen /\ a.agent = ask[c].agent /\ a.cancelled = ask[c].cancelled
              /\ a.pc # "idle" /\ a.verdict \in {ask[c].verdict, "rejected"}
              /\ slot' = c => a.pc \in {"resolving", "history", "asking", "watched"}
    PROVE  CallInv(d)'
<1>1. ask \in [Calls -> Asks] /\ ask'[c] = a /\ (d # c => ask'[d] = ask[d])
  BY DEF Typed, ResumeType
<1>2. UNCHANGED <<gen, reactorVars, handedOver, unsettled, silent, history>>
  BY DEF AskFrame
<1>3. candidate'.call = d => candidate' = candidate
  BY ConstantsAssumption DEF NoCandidate
<1>4. (Rotating => Rotating') /\ (Accepting(d) => Accepting(d)')
  BY DEF QueueGrows
<1>5. CASE d = c
  <2>1. Announced(d)' /\ Presented(d)' /\ Over(d)' /\ Seen(d)'
    BY <1>1, <1>2, <1>3, <1>5 DEF CallInv, Announced, Presented, StillCurrent, Over, Seen, IdleAsk,
       reactorVars, history
  <2>2. Asked(d)' /\ Registered(d)'
    BY <1>1, <1>2, <1>5, ConstantsAssumption DEF CallInv, Asked, Registered, IdleAsk, history
  <2>3. QED
    BY <1>2, <1>4, <2>1, <2>2 DEF CallInv, Remembered, ShowsParked, Once, Rejected, Answering,
       Quiet, reactorVars, history
<1>6. CASE d # c
  <2>1. Announced(d)' /\ Presented(d)' /\ Over(d)' /\ Seen(d)' /\ Asked(d)' /\ Registered(d)'
    BY <1>1, <1>2, <1>3, <1>6, ConstantsAssumption DEF CallInv, Announced, Presented,
       StillCurrent, Over, Seen, Asked, Registered, reactorVars, history
  <2>2. QED
    BY <1>2, <1>4, <2>1 DEF CallInv, Remembered, ShowsParked, Once, Rejected, Answering,
       Quiet, reactorVars, history
<1>7. QED
  BY <1>5, <1>6

LEMMA SettlementKeeps ==
    ASSUME Typed, Queued, NEW c \in Calls, NEW d \in Calls, CallInv(c), CallInv(d),
           Settlement(c) \/ ReadFails(c) \/ SurfaceThrows(c)
    PROVE  CallInv(d)'
<1>1. ask[c] \in Asks /\ OpType /\ ask[c].verdict \in Verdicts
  BY DEF Typed, ResumeType, Asks
<1>2. IdleAsk \in Asks
  BY IdleAskTyped
<1>3. ASSUME NEW threw, Finishes(c, threw)
      PROVE  /\ ask' = [ask EXCEPT ![c] = IdleAsk] /\ slot' = NoCall
             /\ candidate' \in {candidate, NoCandidate}
  BY <1>3 DEF Finishes
<1>4. ASSUME NEW threw, Finishes(c, threw), ask[c].pc # "idle", AskFrame, UNCHANGED opVars
      PROVE  CallInv(d)'
  <2>1. QueueGrows /\ delivered' = delivered
    BY <1>4, SameQueueGrows DEF opVars
  <2>2. /\ ask' = [ask EXCEPT ![c] = IdleAsk] /\ slot' = NoCall
        /\ candidate' \in {candidate, NoCandidate}
    BY <1>3, <1>4
  <2>3. QED
    BY <1>2, <1>4, <2>1, <2>2, AskMoves
\* A settlement that goes on keeps the slot or gives it up.
<1>5. ASSUME NEW a \in Asks, ask' = [ask EXCEPT ![c] = a], ask[c].pc # "idle", AskFrame,
             QueueGrows, delivered' = delivered, slot' \in {slot, NoCall}, candidate' = candidate,
             a.gen = ask[c].gen, a.agent = ask[c].agent, a.cancelled = ask[c].cancelled,
             a.pc # "idle", a.verdict \in {ask[c].verdict, "rejected"},
             slot' = c => a.pc \in {"resolving", "history", "asking", "watched"}
      PROVE  CallInv(d)'
  BY <1>5, AskMoves
<1>6. UNCHANGED opVars => QueueGrows /\ delivered' = delivered
  BY SameQueueGrows DEF opVars
<1>7. ASSUME NEW v \in Verdicts, Enqueues(c, v)
      PROVE  QueueGrows /\ delivered' = delivered
  BY <1>1, <1>7, EnqueueGrows DEF Enqueues
<1>8. CASE Resolved(c)
  <2> DEFINE a == [ask[c] EXCEPT !.known = (disk[c] = "parked")]
             b == [a EXCEPT !.pc = "history"]
  <2>1. /\ a \in Asks /\ a.agent = ask[c].agent /\ a.cancelled = ask[c].cancelled
        /\ b \in Asks /\ b.gen = ask[c].gen /\ b.agent = ask[c].agent
        /\ b.cancelled = ask[c].cancelled /\ b.pc = "history" /\ b.verdict = ask[c].verdict
    BY <1>1 DEF Asks, Pcs
  <2>2. ask[c].pc = "resolving"
    BY <1>8 DEF Resolved
  <2>3. CASE ~StillCurrent(c)
    <3>1. Drops(c, a) /\ DropFrame
      BY <1>8, <2>3 DEF Resolved
    <3> HIDE DEF a, b
    <3>2. QED
      BY <2>1, <2>2, <2>3, <3>1, DropsKeep
  <2>4. CASE StillCurrent(c)
    <3>1. /\ AskFrame /\ UNCHANGED opVars
          /\ \/ Finishes(c, FALSE)
             \/ ask' = [ask EXCEPT ![c] = b] /\ UNCHANGED <<slot, candidate>>
      BY <1>8, <2>4 DEF Resolved
    <3> HIDE DEF a, b
    <3>2. CASE Finishes(c, FALSE)
      BY <1>4, <2>2, <3>1, <3>2
    <3>3. CASE ask' = [ask EXCEPT ![c] = b] /\ UNCHANGED <<slot, candidate>>
      BY <1>5, <1>6, <2>1, <2>2, <3>1, <3>3
    <3>4. QED
      BY <3>1, <3>2, <3>3
  <2>5. QED
    BY <2>3, <2>4
<1>9. CASE ReadFails(c)
  BY <1>4, <1>9 DEF ReadFails
<1>10. ASSUME NEW renders \in BOOLEAN, HistoryRead(c, renders)
       PROVE  CallInv(d)'
  <2> DEFINE a == [ask[c] EXCEPT !.pc = "asking", !.canReject = TRUE]
             b == [ask[c] EXCEPT !.pc = "delivering", !.canReject = TRUE, !.verdict = "rejected"]
  <2>1. /\ a \in Asks /\ a.gen = ask[c].gen /\ a.agent = ask[c].agent
        /\ a.cancelled = ask[c].cancelled /\ a.pc = "asking" /\ a.verdict = ask[c].verdict
        /\ b \in Asks /\ b.gen = ask[c].gen /\ b.agent = ask[c].agent
        /\ b.cancelled = ask[c].cancelled /\ b.pc = "delivering" /\ b.verdict = "rejected"
    BY <1>1 DEF Asks, Pcs, Verdicts
  <2>2. ask[c].pc = "history"
    BY <1>10 DEF HistoryRead
  <2>3. CASE ~StillCurrent(c)
    <3>1. Drops(c, ask[c]) /\ DropFrame
      BY <1>10, <2>3 DEF HistoryRead
    <3>2. QED
      BY <1>1, <2>2, <2>3, <3>1, DropsKeep
  <2>4. CASE StillCurrent(c)
    <3>1. /\ AskFrame
          /\ \/ Finishes(c, FALSE) /\ UNCHANGED opVars
             \/ ask' = [ask EXCEPT ![c] = a] /\ UNCHANGED <<slot, candidate, opVars>>
             \/ /\ ask' = [ask EXCEPT ![c] = b] /\ slot' = NoCall
                /\ Enqueues(c, "rejected") /\ UNCHANGED candidate
      BY <1>10, <2>4 DEF HistoryRead
    <3> HIDE DEF a, b
    <3>2. CASE Finishes(c, FALSE) /\ UNCHANGED opVars
      BY <1>4, <2>2, <3>1, <3>2
    <3>3. CASE ask' = [ask EXCEPT ![c] = a] /\ UNCHANGED <<slot, candidate, opVars>>
      BY <1>5, <1>6, <2>1, <2>2, <3>1, <3>3
    <3>4. CASE /\ ask' = [ask EXCEPT ![c] = b] /\ slot' = NoCall
               /\ Enqueues(c, "rejected") /\ UNCHANGED candidate
      <4>1. "rejected" \in Verdicts
        BY DEF Verdicts
      <4>2. slot' # c
        BY <3>4, ConstantsAssumption
      <4>3. QED
        BY <1>5, <1>7, <2>1, <2>2, <3>1, <3>4, <4>1, <4>2
    <3>5. QED
      BY <3>1, <3>2, <3>3, <3>4
  <2>5. QED
    BY <2>3, <2>4
<1>11. CASE WatchStops(c)
  <2> DEFINE a == [ask[c] EXCEPT !.pc = "rechecking"]
  <2>1. /\ a \in Asks /\ a.gen = ask[c].gen /\ a.agent = ask[c].agent
        /\ a.cancelled = ask[c].cancelled /\ a.pc = "rechecking" /\ a.verdict = ask[c].verdict
    BY <1>1 DEF Asks, Pcs
  <2>2. ask[c].pc = "watched"
    BY <1>11 DEF WatchStops
  <2>3. CASE ~StillCurrent(c)
    <3>1. Drops(c, ask[c]) /\ DropFrame
      BY <1>11, <2>3 DEF WatchStops
    <3>2. QED
      BY <1>1, <2>2, <2>3, <3>1, DropsKeep
  <2>4. CASE StillCurrent(c)
    <3>1. /\ AskFrame /\ UNCHANGED opVars
          /\ \/ Finishes(c, FALSE)
             \/ ask' = [ask EXCEPT ![c] = a] /\ slot' = NoCall /\ UNCHANGED candidate
      BY <1>11, <2>4 DEF WatchStops
    <3> HIDE DEF a
    <3>2. CASE Finishes(c, FALSE)
      BY <1>4, <2>2, <3>1, <3>2
    <3>3. CASE ask' = [ask EXCEPT ![c] = a] /\ slot' = NoCall /\ UNCHANGED candidate
      <4>1. slot' # c
        BY <3>3, ConstantsAssumption
      <4>2. QED
        BY <1>5, <1>6, <2>1, <2>2, <3>1, <3>3, <4>1
    <3>4. QED
      BY <3>1, <3>2, <3>3
  <2>5. QED
    BY <2>3, <2>4
<1>12. CASE Rechecked(c)
  <2> DEFINE a == [ask[c] EXCEPT !.pc = "delivering"]
             b == [ask[c] EXCEPT !.canReject = @ /\ ~(disk[c] = "timedout")]
  <2>1. /\ a \in Asks /\ a.gen = ask[c].gen /\ a.agent = ask[c].agent
        /\ a.cancelled = ask[c].cancelled /\ a.pc = "delivering" /\ a.verdict = ask[c].verdict
        /\ b \in Asks /\ b.agent = ask[c].agent /\ b.cancelled = ask[c].cancelled
    BY <1>1 DEF Asks, Pcs
  <2>2. ask[c].pc = "rechecking"
    BY <1>12 DEF Rechecked
  <2>3. CASE ~StillCurrent(c)
    <3>1. Drops(c, b) /\ DropFrame
      BY <1>12, <2>3 DEF Rechecked
    <3> HIDE DEF a, b
    <3>2. QED
      BY <2>1, <2>2, <2>3, <3>1, DropsKeep
  <2>4. CASE StillCurrent(c)
    <3>1. /\ AskFrame
          /\ \/ Finishes(c, FALSE) /\ UNCHANGED opVars
             \/ /\ ask' = [ask EXCEPT ![c] = a] /\ Enqueues(c, ask[c].verdict)
                /\ UNCHANGED <<slot, candidate>>
      BY <1>12, <2>4 DEF Rechecked
    <3>2. slot # c
      BY <2>2 DEF CallInv, Registered
    <3> HIDE DEF a, b
    <3>3. CASE Finishes(c, FALSE) /\ UNCHANGED opVars
      BY <1>4, <2>2, <3>1, <3>3
    <3>4. CASE /\ ask' = [ask EXCEPT ![c] = a] /\ Enqueues(c, ask[c].verdict)
               /\ UNCHANGED <<slot, candidate>>
      BY <1>1, <1>5, <1>7, <2>1, <2>2, <3>1, <3>2, <3>4
    <3>5. QED
      BY <3>1, <3>3, <3>4
  <2>5. QED
    BY <2>3, <2>4
<1>13. CASE SurfaceThrows(c)
  <2> DEFINE a == [ask[c] EXCEPT !.pc = "failing", !.verdict = "rejected"]
  <2>1. /\ a \in Asks /\ a.gen = ask[c].gen /\ a.agent = ask[c].agent
        /\ a.cancelled = ask[c].cancelled /\ a.pc = "failing" /\ a.verdict = "rejected"
    BY <1>1 DEF Asks, Pcs, Verdicts
  <2>2. ask[c].pc = "asking"
    BY <1>13 DEF SurfaceThrows
  <2>3. CASE ~StillCurrent(c)
    <3>1. Drops(c, ask[c]) /\ DropFrame
      BY <1>13, <2>3 DEF SurfaceThrows
    <3>2. QED
      BY <1>1, <2>2, <2>3, <3>1, DropsKeep
  <2>4. CASE StillCurrent(c)
    <3>1. /\ AskFrame /\ UNCHANGED opVars
          /\ ask' = [ask EXCEPT ![c] = a] /\ slot' = NoCall /\ UNCHANGED candidate
      BY <1>13, <2>4 DEF SurfaceThrows
    <3>2. slot' # c
      BY <3>1, ConstantsAssumption
    <3> HIDE DEF a
    <3>3. QED
      BY <1>5, <1>6, <2>1, <2>2, <3>1, <3>2
  <2>5. QED
    BY <2>3, <2>4
<1>14. CASE RecheckedAfterThrow(c)
  <2> DEFINE a == [ask[c] EXCEPT !.pc = "rejecting"]
             b == [ask[c] EXCEPT !.canReject = @ /\ ~(disk[c] = "timedout")]
  <2>1. /\ a \in Asks /\ a.gen = ask[c].gen /\ a.agent = ask[c].agent
        /\ a.cancelled = ask[c].cancelled /\ a.pc = "rejecting" /\ a.verdict = ask[c].verdict
        /\ b \in Asks /\ b.agent = ask[c].agent /\ b.cancelled = ask[c].cancelled
    BY <1>1 DEF Asks, Pcs
  <2>2. ask[c].pc = "failing"
    BY <1>14 DEF RecheckedAfterThrow
  <2>3. CASE ~StillCurrent(c)
    <3>1. Drops(c, b) /\ DropFrame
      BY <1>14, <2>3 DEF RecheckedAfterThrow
    <3> HIDE DEF a, b
    <3>2. QED
      BY <2>1, <2>2, <2>3, <3>1, DropsKeep
  <2>4. CASE StillCurrent(c)
    <3>1. /\ AskFrame
          /\ \/ Finishes(c, TRUE) /\ UNCHANGED opVars
             \/ /\ ask' = [ask EXCEPT ![c] = a] /\ Enqueues(c, "rejected")
                /\ UNCHANGED <<slot, candidate>>
      BY <1>14, <2>4 DEF RecheckedAfterThrow
    <3>2. slot # c /\ "rejected" \in Verdicts
      BY <2>2 DEF CallInv, Registered, Verdicts
    <3> HIDE DEF a, b
    <3>3. CASE Finishes(c, TRUE) /\ UNCHANGED opVars
      BY <1>4, <2>2, <3>1, <3>3
    <3>4. CASE /\ ask' = [ask EXCEPT ![c] = a] /\ Enqueues(c, "rejected")
               /\ UNCHANGED <<slot, candidate>>
      BY <1>5, <1>7, <2>1, <2>2, <3>1, <3>2, <3>4
    <3>5. QED
      BY <3>1, <3>3, <3>4
  <2>5. QED
    BY <2>3, <2>4
<1>15. QED
  BY <1>8, <1>9, <1>10, <1>11, <1>12, <1>13, <1>14 DEF Settlement

LEMMA OverlayKeeps ==
    ASSUME Typed, NEW c \in Calls, NEW d \in Calls, CallInv(c), CallInv(d),
           NEW v \in Verdicts, OverlayResolves(c, v)
    PROVE  CallInv(d)'
<1>1. PICK sawIt \in {FALSE, disk[c] = "timedout"} :
        ask' = [ask EXCEPT ![c] = [ask[c] EXCEPT !.pc = "watched", !.verdict = v, !.late = sawIt]]
  BY ZenonT(60) DEF OverlayResolves
<1>2. /\ ask \in [Calls -> Asks] /\ granted \in [Calls -> Nat \union {-1}]
      /\ ask[c] \in Asks /\ ask[c].pc = "asking"
  BY DEF Typed, ResumeType, HistoryType, OverlayResolves
<1> DEFINE a == [ask[c] EXCEPT !.pc = "watched", !.verdict = v, !.late = sawIt]
<1>3. /\ a.gen = ask[c].gen /\ a.agent = ask[c].agent /\ a.cancelled = ask[c].cancelled
      /\ a.pc = "watched" /\ a.verdict = v
  BY <1>2 DEF Asks
<1> HIDE DEF a
<1>4. ask'[c] = a /\ (d # c => ask'[d] = ask[d] /\ granted'[d] = granted[d])
  BY <1>1, <1>2 DEF OverlayResolves, a
<1>5. v = "approved" => granted'[c] = ask[c].gen
  BY <1>2 DEF OverlayResolves, StillCurrent
<1>6. UNCHANGED <<gen, reactorVars, slot, candidate, handedOver, unsettled, silent, opVars,
                  dropped, runs, noisy>>
  BY DEF OverlayResolves
<1>7. Rotating' = Rotating /\ (Accepting(d)' <=> Accepting(d))
  BY <1>6 DEF Rotating, Accepting, opVars
<1>8. Remembered(d)' /\ Once(d)' /\ Rejected(d)' /\ Quiet(d)'
  BY <1>6, <1>7 DEF CallInv, Remembered, ShowsParked, Once, Rejected, Answering, Quiet,
     reactorVars, opVars
<1>9. Announced(d)' /\ Asked(d)' /\ Registered(d)' /\ Presented(d)' /\ Over(d)' /\ Seen(d)'
  <2>1. CASE d = c
    BY <1>2, <1>3, <1>4, <1>5, <1>6, <2>1 DEF CallInv, Announced, Asked, Registered, Presented,
       StillCurrent, Over, Seen, reactorVars
  <2>2. CASE d # c
    BY <1>4, <1>6, <2>2 DEF CallInv, Announced, Asked, Registered, Presented,
       StillCurrent, Over, Seen, reactorVars
  <2>3. QED
    BY <2>1, <2>2
<1>10. QED
  BY <1>8, <1>9 DEF CallInv

-----------------------------------------------------------------------------
\* What the queue's operations keep.

LEMMA EndKeepsRotations ==
    ASSUME OpType, ops # <<>>, ops' = Tail(ops), Head(ops).kind # "rotate"
    PROVE  Rotating' <=> Rotating
<1>1. ops \in Seq(Operations)
  BY DEF OpType
<1>2. /\ Head(ops) = ops[1]
      /\ \A i \in DOMAIN ops' : i + 1 \in DOMAIN ops /\ ops'[i] = ops[i + 1]
      /\ \A i \in DOMAIN ops : i = 1 \/ (i - 1 \in DOMAIN ops' /\ ops'[i - 1] = ops[i])
  BY <1>1, TailShifts
<1>3. QED
  BY <1>2, ZenonT(60) DEF Rotating

LEMMA DecisionEndsKeep ==
    ASSUME Typed, Queued, NEW d \in Calls, CallInv(d), Running({"decision"}, step),
           NEW failed \in BOOLEAN, DecisionEnds(Head(ops).call, failed),
           failed => ~Accepting(Head(ops).call),
           UNCHANGED <<gen, reactorVars, unsettled, silent, delivered, history>>
    PROVE  CallInv(d)'
<1> DEFINE c == Head(ops).call
<1>1. c \in Calls /\ ask[c].pc \in {"delivering", "rejecting"} /\ Head(ops).kind = "decision"
  BY HeadTyped DEF Typed, Running, Queued, IsDecision
<1>2. /\ ask' = [ask EXCEPT ![c] = IdleAsk] /\ slot' = NoCall
      /\ candidate' \in {candidate, NoCandidate}
      /\ ops' = Tail(ops) /\ step' = "start"
      /\ handedOver' = IF failed THEN handedOver ELSE handedOver \union {c}
  BY DEF DecisionEnds, Finishes, OpEnds
<1>3. Rotating' <=> Rotating
  BY <1>1, <1>2, EndKeepsRotations DEF Typed, Running
<1>4. /\ ask'[c] = IdleAsk /\ (d # c => ask'[d] = ask[d])
      /\ candidate'.call = d => candidate' = candidate
  BY <1>1, <1>2, ConstantsAssumption DEF Typed, ResumeType, NoCandidate
<1>5. d # c => ~Accepting(d) /\ (d \in handedOver' <=> d \in handedOver)
  BY <1>2 DEF Accepting
<1> HIDE DEF c
<1>6. Remembered(d)' /\ Once(d)' /\ Quiet(d)'
  BY <1>3 DEF CallInv, Remembered, ShowsParked, Once, Answering, Quiet, reactorVars, history
<1>7. CASE d = c
  <2>1. c \notin blocked /\ c \notin handedOver
    BY <1>1, <1>7 DEF CallInv, Announced, Over
  <2>2. Announced(d)' /\ Asked(d)' /\ Registered(d)' /\ Presented(d)' /\ Over(d)' /\ Seen(d)'
    BY <1>1, <1>2, <1>4, <1>7, <2>1, ConstantsAssumption DEF CallInv, Announced, Asked,
       Registered, Presented, Over, Seen, IdleAsk, reactorVars, history
  <2>3. Rejected(d)'
    BY <1>2, <1>7, <2>1 DEF CallInv, Rejected, Answering, reactorVars, history, c
  <2>4. QED
    BY <1>6, <2>2, <2>3 DEF CallInv
<1>8. CASE d # c
  <2>1. Announced(d)' /\ Asked(d)' /\ Registered(d)' /\ Presented(d)' /\ Over(d)' /\ Seen(d)'
    BY <1>2, <1>4, <1>5, <1>8, ConstantsAssumption DEF CallInv, Announced, Asked,
       Registered, Presented, StillCurrent, Over, Seen, reactorVars, history
  <2>2. Rejected(d)'
    BY <1>2, <1>5, <1>8 DEF CallInv, Rejected, Answering, reactorVars, history
  <2>3. QED
    BY <1>6, <2>1, <2>2 DEF CallInv
<1>9. QED
  BY <1>7, <1>8

LEMMA DecisionKeeps ==
    ASSUME Typed, Queued, NEW d \in Calls, \A c \in Calls : CallInv(c),
           DecisionStarts \/ DecisionAccepted \/ AcceptanceTimesOut
    PROVE  CallInv(d)'
<1> DEFINE c == Head(ops).call
           v == Head(ops).verdict
<1>1. CallInv(d)
  OBVIOUS
<1>2. CASE DecisionAccepted
  <2>1. Running({"decision"}, step) /\ DecisionEnds(c, FALSE)
        /\ UNCHANGED <<gen, reactorVars, unsettled, silent, delivered, history>>
    BY <1>2 DEF DecisionAccepted, Running
  <2>2. QED
    BY <1>1, <2>1, DecisionEndsKeep
<1>3. CASE AcceptanceTimesOut
  <2>1. Running({"decision"}, step) /\ DecisionEnds(c, TRUE) /\ ~Accepting(c)
        /\ UNCHANGED <<gen, reactorVars, unsettled, silent, delivered, history>>
    BY <1>3 DEF AcceptanceTimesOut, Running, Accepting
  <2>2. QED
    BY <1>1, <2>1, DecisionEndsKeep
<1>4. CASE DecisionStarts
  <2>1. Running({"decision"}, step) /\ step = "start" /\ \A e \in Calls : ~Accepting(e)
    BY <1>4 DEF DecisionStarts, DecisionBody, Running, Accepting
  <2>2. UNCHANGED <<gen, reactorButMem, unsettled, silent, fatal, leaked, left, history>>
    BY <1>4 DEF DecisionStarts, DecisionBody
  <2>3. /\ c \in Calls /\ v \in Verdicts /\ CallInv(c)
        /\ ask[c].pc \in {"delivering", "rejecting"}
    BY <2>1, HeadTyped DEF Typed, Running, Queued, IsDecision
  <2>4. \/ /\ \E failed \in BOOLEAN : DecisionEnds(c, failed)
           /\ UNCHANGED <<mem, busy, delivered>>
        \/ UNCHANGED <<mem, busy, delivered, ops, todo, handedOver, ask, slot, candidate>>
        \/ /\ StillCurrent(c) /\ c \notin delivered /\ Correlates(c, v)
           /\ delivered' = delivered \union {c}
           /\ mem[c] = "parked" /\ v # "approved" => waiter' = "settled"
           /\ step' = "accept"
           /\ UNCHANGED <<ops, todo, handedOver, ask, slot, candidate>>
    BY <1>4 DEF DecisionStarts, DecisionBody
  <2>5. CASE /\ \E failed \in BOOLEAN : DecisionEnds(c, failed)
             /\ UNCHANGED <<mem, busy, delivered>>
    <3>1. UNCHANGED <<gen, reactorVars, unsettled, silent, delivered, history>>
      BY <2>2, <2>5 DEF reactorVars, reactorButMem
    <3>2. QED
      BY <1>1, <2>1, <2>3, <2>5, <3>1, DecisionEndsKeep
  <2>6. CASE UNCHANGED <<mem, busy, delivered, ops, todo, handedOver, ask, slot, candidate>>
    <3>1. Rotating' <=> Rotating
      BY <2>6, RotatingSame
    <3>2. Rejected(d)'
      BY <1>1, <2>1, <2>2, <2>6 DEF CallInv, Rejected, Answering, reactorButMem, history
    <3>3. QED
      BY <1>1, <2>2, <2>6, <3>1, <3>2 DEF CallInv, Announced, Asked, Registered, Presented,
         StillCurrent, Over, Seen, Remembered, ShowsParked, Once, Answering, Quiet,
         reactorButMem, history
  <2>7. CASE /\ StillCurrent(c) /\ c \notin delivered /\ Correlates(c, v)
             /\ delivered' = delivered \union {c}
             /\ mem[c] = "parked" /\ v # "approved" => waiter' = "settled"
             /\ step' = "accept"
             /\ UNCHANGED <<ops, todo, handedOver, ask, slot, candidate>>
    <3>1. Rotating' <=> Rotating
      BY <2>7, RotatingSame
    <3>2. Announced(d)' /\ Asked(d)' /\ Registered(d)' /\ Presented(d)' /\ Over(d)' /\ Seen(d)'
          /\ Remembered(d)'
      BY <1>1, <2>2, <2>7, <3>1 DEF CallInv, Announced, Asked, Registered, Presented,
         StillCurrent, Over, Seen, Remembered, ShowsParked, reactorButMem, history
    <3>3. /\ mem'[c] = IF mem[c] = "parked" THEN v ELSE mem[c]
          /\ d # c => mem'[d] = mem[d]
      BY <2>3, <2>7 DEF Correlates, Typed, ReactorType
    <3>4. CASE d # c
      <4>1. Once(d)' /\ Quiet(d)'
        BY <1>1, <2>2, <2>7, <3>1, <3>3, <3>4 DEF CallInv, Once, Answering, Quiet,
           reactorButMem, history
      <4>2. Rejected(d)'
        BY <1>1, <2>1, <2>2, <2>7, <3>3, <3>4 DEF CallInv, Rejected, Answering,
           reactorButMem, history
      <4>3. QED
        BY <3>2, <4>1, <4>2 DEF CallInv
    <3>5. CASE d = c
      <4>1. dropped[c] = 0 /\ runs[c] = 0 /\ mem[c] # "approved" /\ c \notin handedOver
        BY <2>3, <2>7 DEF CallInv, Asked, StillCurrent, Once, Over
      <4>2. ~Answering(c)
        BY <2>1, <2>3, <4>1 DEF CallInv, Rejected
      <4>3. Once(d)' /\ Quiet(d)'
        BY <2>2, <2>7, <3>5, <4>1 DEF Once, Quiet, history
      <4>4. Rejected(d)'
        <5>1. CASE mem[c] = "parked" /\ v # "approved"
          <6>1. ops # <<>> /\ Head(ops).kind = "decision"
            BY <2>1 DEF Running
          <6>2. Accepting(d)'
            BY <2>7, <3>5, <5>1, <6>1 DEF Accepting
          <6>3. QED
            BY <6>2 DEF Rejected
        <5>2. CASE mem[c] = "parked" /\ v = "approved"
          BY <3>3, <3>5, <5>2 DEF Rejected, Answering
        <5>3. CASE mem[c] # "parked"
          BY <2>2, <3>3, <3>5, <4>2, <5>3 DEF Rejected, Answering, reactorButMem
        <5>4. QED
          BY <5>1, <5>2, <5>3
      <4>5. QED
        BY <3>2, <4>3, <4>4 DEF CallInv
    <3>6. QED
      BY <3>4, <3>5
  <2>8. QED
    BY <2>4, <2>5, <2>6, <2>7
<1>5. QED
  BY <1>2, <1>3, <1>4

LEMMA RebuildKeeps ==
    ASSUME Typed, Between, NEW d \in Calls, CallInv(d),
           \/ RebuildStarts \/ Prepares \/ PrepareFails \/ CloseBegins \/ Drained
           \/ CloseFails \/ Builds \/ BuildFails \/ Settles \/ RebuildEnds
    PROVE  CallInv(d)'
<1>1. /\ OpType /\ mem \in [Calls -> Memories] /\ session \in Nat /\ home \in [Calls -> Nat]
      /\ unsettled \in [Calls -> {"no", "unknown", "known"}] /\ agent \in Nat
      /\ dropped \in [Calls -> Nat]
  BY DEF Typed, ReactorType, ResumeType, HistoryType
<1>2. /\ UNCHANGED <<gen, ask, slot, candidate, handedOver, delivered, home, granted,
                     dropped, runs>>
      /\ blocked' \subseteq blocked
      /\ UNCHANGED disk \/ ShutdownWrites
  BY DEF RebuildStarts, Prepares, PrepareFails, CloseBegins, Drained, CloseFails, Builds,
     BuildsWith, BuildFails, Settles, SettlesOne, RebuildEnds, reactorVars, reactorButMem,
     resumeVars, history
<1>3. /\ disk'[d] = "parked" => disk[d] = "parked"
      /\ disk[d] # "none" => disk'[d] # "none"
  <2>1. CASE disk' = disk
    BY <2>1
  <2>2. CASE ShutdownWrites
    <3>1. ReactorType
      BY DEF Typed
    <3>2. \A c \in Calls : /\ disk'[c] = "parked" => disk[c] = "parked"
                           /\ disk[c] # "none" => disk'[c] # "none"
      BY <2>2, <3>1, ShutdownFacts
    <3>3. QED
      BY <3>2
  <2>3. QED
    BY <1>2, <2>1, <2>2
<1>4. Announced(d)' /\ Asked(d)' /\ Registered(d)' /\ Presented(d)' /\ Over(d)' /\ Seen(d)'
  BY <1>2, <1>3 DEF CallInv, Announced, Asked, Registered, Presented, StillCurrent, Over, Seen
<1>5. ops # <<>> /\ ~Accepting(d) /\ Head(ops).kind # "decision"
  BY DEF RebuildStarts, Prepares, PrepareFails, CloseBegins, Drained, CloseFails, Builds,
     BuildsWith, BuildFails, Settles, SettlesOne, RebuildEnds, Running, Accepting
<1> DEFINE Rest == Remembered(d)' /\ Once(d)' /\ Rejected(d)' /\ Quiet(d)'
<1>6. CASE RebuildStarts
  <2>1. Rotating' <=> Rotating
    <3>1. CASE ops' = ops
      BY <3>1, RotatingSame
    <3>2. CASE OpEnds /\ Head(ops).kind = "reload"
      BY <1>1, <1>5, <3>2, EndKeepsRotations DEF OpEnds
    <3>3. QED
      BY <1>6, <3>1, <3>2 DEF RebuildStarts, Goto
  <2>2. Rest
    BY <1>2, <1>3, <1>5, <1>6, <2>1 DEF RebuildStarts, CallInv, Remembered, ShowsParked, Once, Rejected,
       Answering, Quiet, reactorVars, resumeVars
  <2>3. QED
    BY <1>4, <2>2 DEF CallInv
<1>7. CASE Prepares
  <2>1. Rotating' <=> Rotating
    BY <1>7, RotatingSame DEF Prepares
  <2>2. Head(todo) \in Calls /\ dropped[Head(todo)] # 0
    BY <1>1, <1>7, TodoTyped DEF Prepares, Between
  <2>3. /\ unsettled'[d] # "no" => unsettled[d] # "no" \/ d = Head(todo)
        /\ unsettled[d] # "no" => unsettled'[d] # "no"
        /\ silent \subseteq silent'
    BY <1>1, <1>7, <2>2 DEF Prepares, Marked
  <2>4. Rest
    BY <1>2, <1>3, <1>5, <1>7, <2>1, <2>2, <2>3 DEF Prepares, CallInv, Remembered, ShowsParked, Once,
       Rejected, Answering, Quiet, reactorVars
  <2>5. QED
    BY <1>4, <2>4 DEF CallInv
<1>8. CASE PrepareFails
  <2>1. Rotating' <=> Rotating
    BY <1>8, RotatingSame DEF PrepareFails
  <2>2. Rest
    BY <1>2, <1>3, <1>5, <1>8, <2>1 DEF PrepareFails, CallInv, Remembered, ShowsParked, Once,
       Rejected, Answering, Quiet, reactorVars, resumeVars
  <2>3. QED
    BY <1>4, <2>2 DEF CallInv
<1>9. CASE CloseBegins
  <2>1. Rotating' <=> Rotating
    BY <1>9, RotatingSame DEF CloseBegins, Goto
  <2>2. Rest
    BY <1>2, <1>3, <1>5, <1>9, <2>1 DEF CloseBegins, CallInv, Remembered, ShowsParked, Once,
       Rejected, Answering, Quiet, resumeVars
  <2>3. QED
    BY <1>4, <2>2 DEF CallInv
<1>10. CASE Drained
  <2>1. Rotating' <=> Rotating
    BY <1>10, RotatingSame DEF Drained, Goto
  <2>2. mem'[d] = "none" /\ session' \in {session, session + 1}
    BY <1>10 DEF Drained
  <2>3. home[d] <= session'
        /\ (home[d] = session' => session' = session)
    BY <1>1, <2>2 DEF CallInv, Remembered
  <2>4. Remembered(d)'
    BY <1>2, <1>3, <1>10, <2>1, <2>3 DEF Drained, CallInv, Remembered, ShowsParked, resumeVars
  <2>5. Once(d)' /\ Rejected(d)' /\ Quiet(d)'
    BY <1>2, <1>3, <2>2 DEF CallInv, Once, Rejected, Answering, Quiet
  <2>6. QED
    BY <1>4, <2>4, <2>5 DEF CallInv
<1>11. CASE CloseFails
  <2>1. Rotating' <=> Rotating
    BY <1>1, <1>5, <1>11, EndKeepsRotations DEF CloseFails, OpEnds, Running
  <2>2. mem'[d] = "none"
    BY <1>11 DEF CloseFails
  <2>3. Rest
    BY <1>2, <1>3, <1>11, <2>1, <2>2 DEF CloseFails, CallInv, Remembered, ShowsParked, Once,
       Rejected, Answering, Quiet, resumeVars
  <2>4. QED
    BY <1>4, <2>3 DEF CallInv
<1>12. CASE Builds
  <2> DEFINE held == [c \in Calls |-> IF ShowsParked(c) THEN "parked" ELSE "none"]
  <2>1. BuildsWith(held) /\ held[d] \in {"parked", "none"}
    BY <1>12 DEF Builds
  <2> HIDE DEF held
  <2>2. mem'[d] \in {"parked", "none"} /\ session' = session /\ unsettled' = unsettled
    BY <2>1 DEF BuildsWith, resumeVars
  <2>3. Once(d)' /\ Rejected(d)' /\ Quiet(d)'
    BY <1>2, <1>3, <2>2 DEF CallInv, Once, Rejected, Answering, Quiet
  <2>4. CASE Head(ops).kind = "rotate"
    <3>1. ~ShowsParked(d)
      BY <2>1, <2>4 DEF BuildsWith, Running, Between
    <3>2. QED
      BY <1>2, <1>3, <1>4, <2>2, <2>3, <3>1 DEF CallInv, Remembered, ShowsParked
  <2>5. CASE Head(ops).kind # "rotate"
    <3>1. Rotating' <=> Rotating
      BY <2>1, <2>5, RotatingSame DEF BuildsWith, Goto
    <3>2. QED
      BY <1>2, <1>3, <1>4, <2>2, <2>3, <3>1 DEF CallInv, Remembered, ShowsParked
  <2>6. QED
    BY <2>4, <2>5
<1>13. CASE BuildFails
  <2>1. /\ mem'[d] = "none" /\ session' = session /\ unsettled' = unsettled
        /\ Head(ops).kind = "rotate" => ~ShowsParked(d)
    BY <1>13 DEF BuildFails, Running, Between, resumeVars
  <2>2. Once(d)' /\ Rejected(d)' /\ Quiet(d)'
    BY <1>2, <1>3, <2>1 DEF CallInv, Once, Rejected, Answering, Quiet
  <2>3. CASE Head(ops).kind = "rotate"
    BY <1>2, <1>3, <1>4, <2>1, <2>2, <2>3 DEF CallInv, Remembered, ShowsParked
  <2>4. CASE Head(ops).kind # "rotate"
    <3>1. Rotating' <=> Rotating
      BY <1>1, <1>5, <1>13, <2>4, EndKeepsRotations DEF BuildFails, OpEnds
    <3>2. QED
      BY <1>2, <1>3, <1>4, <2>1, <2>2, <3>1 DEF CallInv, Remembered, ShowsParked
  <2>5. QED
    BY <2>3, <2>4
<1>14. CASE Settles
  <2> DEFINE c == Head(todo)
  <2>1. SettlesOne(c, "known", {c}) /\ c \in Calls /\ dropped[c] # 0
    BY <1>1, <1>14, TodoTyped DEF Settles, SettlesOne, Between
  <2> HIDE DEF c
  <2>2. Rotating' <=> Rotating
    BY <2>1, RotatingSame DEF SettlesOne
  <2>3. session' = session /\ agent' = agent /\ disk' = disk
    BY <2>1 DEF SettlesOne, reactorButMem
  <2>4. CASE d # c
    <3>1. unsettled'[d] = unsettled[d] /\ mem'[d] = mem[d] /\ silent \subseteq silent'
      BY <1>1, <2>1, <2>4 DEF SettlesOne, Correlates
    <3>2. Rest
      BY <1>2, <1>5, <2>2, <2>3, <3>1 DEF CallInv, Remembered, ShowsParked, Once,
         Rejected, Answering, Quiet
    <3>3. QED
      BY <1>4, <3>2 DEF CallInv
  <2>5. CASE d = c
    <3>1. Once(d)'
      BY <1>1, <1>2, <2>1, <2>5 DEF CallInv, Once, SettlesOne, Correlates
    <3>2. Remembered(d)'
      BY <1>1, <1>2, <2>1, <2>2, <2>3, <2>5 DEF CallInv, Remembered, ShowsParked, SettlesOne
    <3>3. Rejected(d)'
      BY <1>2, <2>1, <2>5 DEF Rejected
    <3>4. Quiet(d)'
      <4>1. CASE ShowsParked(c)
        BY <2>1, <2>5, <4>1 DEF Quiet, SettlesOne
      <4>2. CASE ~ShowsParked(c)
        BY <1>2, <2>1, <2>2, <2>3, <2>5, <4>2 DEF CallInv, Quiet, Answering, SettlesOne
      <4>3. QED
        BY <4>1, <4>2
    <3>5. QED
      BY <1>4, <3>1, <3>2, <3>3, <3>4 DEF CallInv
  <2>6. QED
    BY <2>4, <2>5
<1>15. CASE RebuildEnds
  <2>1. Rotating' <=> Rotating
    BY <1>1, <1>5, <1>15, EndKeepsRotations DEF RebuildEnds, OpEnds, Running
  <2>2. Rest
    BY <1>2, <1>3, <1>5, <1>15, <2>1 DEF RebuildEnds, CallInv, Remembered, ShowsParked, Once, Rejected,
       Answering, Quiet, reactorVars, resumeVars
  <2>3. QED
    BY <1>4, <2>2 DEF CallInv
<1>16. QED
  BY <1>6, <1>7, <1>8, <1>9, <1>10, <1>11, <1>12, <1>13, <1>14, <1>15

-----------------------------------------------------------------------------
\* What the operator's steps keep.

LEMMA OperatorQueue ==
    ASSUME OpType, Interrupt \/ NewSession \/ ReloadIfIdle
    PROVE  QueueGrows /\ step' = step /\ todo' = todo
           /\ (ops' = ops
               \/ \E kind \in {"rebuild", "rotate", "reload"} : ops' = Append(ops, Op(kind, NoCall, "none")))
<1>1. step' = step /\ todo' = todo /\ (waiter = "settled" => waiter' = "settled")
  BY DEF Interrupt, NewSession, ReloadIfIdle, Bump
<1>2. ops' = ops
      \/ \E kind \in {"rebuild", "rotate", "reload"} : ops' = Append(ops, Op(kind, NoCall, "none"))
  BY DEF Interrupt, NewSession, ReloadIfIdle
<1>3. CASE ops' = ops
  BY <1>1, <1>3 DEF QueueGrows, Rotating, Accepting
<1>4. ASSUME NEW kind \in {"rebuild", "rotate", "reload"}, ops' = Append(ops, Op(kind, NoCall, "none"))
      PROVE  QueueGrows
  <2>1. Op(kind, NoCall, "none") \in Operations
    BY DEF Op, Operations
  <2>2. QED
    BY <1>1, <1>4, <2>1, AppendGrows
<1>5. QED
  BY <1>1, <1>2, <1>3, <1>4

LEMMA NewSessionRotates ==
    ASSUME OpType, NewSession, ~BumpThrows
    PROVE  Rotating' /\ unsettled' = [c \in Calls |-> "no"]
<1> DEFINE o == Op("rotate", NoCall, "none")
<1>1. o \in Operations /\ o.kind = "rotate"
  BY DEF Op, Operations
<1>2. ops' = Append(ops, o) /\ unsettled' = [c \in Calls |-> "no"]
  BY DEF NewSession
<1> HIDE DEF o
<1>3. Len(ops) + 1 \in DOMAIN ops' /\ ops'[Len(ops) + 1] = o
  BY <1>1, <1>2, AppendShifts
<1>4. QED
  BY <1>1, <1>2, <1>3 DEF Rotating

LEMMA BumpKeeps ==
    ASSUME Typed, Queued, NEW d \in Calls, CallInv(d), Interrupt \/ NewSession
    PROVE  CallInv(d)'
<1>1. /\ OpType /\ ask \in [Calls -> Asks] /\ mem \in [Calls -> Memories] /\ agent \in Nat
      /\ dropped \in [Calls -> Nat] /\ unsettled \in [Calls -> {"no", "unknown", "known"}]
      /\ slot \in Calls \union {NoCall} /\ ask[d].agent \in Nat
  BY DEF Typed, ReactorType, ResumeType, HistoryType, Asks
<1>2. UNCHANGED <<agent, session, disk, home, blocked, slot, handedOver, delivered, granted, runs>>
      /\ candidate' = NoCandidate
  BY DEF Interrupt, NewSession, Bump, reactorButMem
<1>3. (Rotating => Rotating') /\ (Accepting(d) => Accepting(d)')
  BY <1>1, OperatorQueue DEF QueueGrows
<1>4. \/ unsettled' = BumpMarks /\ silent' = silent
      \/ Rotating' /\ unsettled' = [c \in Calls |-> "no"]
  <2>1. CASE Interrupt
    BY <2>1 DEF Interrupt
  <2>2. CASE NewSession /\ BumpThrows
    BY <2>2 DEF NewSession
  <2>3. CASE NewSession /\ ~BumpThrows
    BY <1>1, <2>3, NewSessionRotates
  <2>4. QED
    BY <2>1, <2>2, <2>3
<1>5. CASE d = slot /\ ~ask[d].cancelled
  <2>1. /\ ask' = [ask EXCEPT ![d] = [ask[d] EXCEPT !.cancelled = TRUE]]
        /\ dropped' = [dropped EXCEPT ![d] = ask[d].agent]
        /\ mem' = mem \/ (Correlates(d, "rejected") /\ ask[d].agent = agent)
        /\ BumpMarks = Marked(d, ask[d].known)
    BY <1>5, ConstantsAssumption
       DEF Interrupt, NewSession, Bump, BumpThrows, BumpMarks, Refuses
  <2>2. /\ ask'[d].pc = ask[d].pc /\ ask'[d].agent = ask[d].agent /\ ask'[d].gen = ask[d].gen
        /\ ask'[d].verdict = ask[d].verdict /\ ask'[d].cancelled = TRUE
        /\ dropped'[d] = ask[d].agent
    BY <1>1, <2>1 DEF Asks
  <2>3. /\ ask[d].pc \in {"resolving", "history", "asking", "watched"}
        /\ ask[d].agent # 0 /\ dropped[d] = 0 /\ d \notin handedOver /\ d \notin blocked
    BY <1>5 DEF CallInv, Registered, Asked, Over, Announced
  <2>4. ~Accepting(d) /\ ~Answering(d)
    <3>1. ~Accepting(d)
      BY <1>1, <2>3, HeadTyped DEF Queued, Accepting, IsDecision
    <3>2. QED
      BY <2>3, <3>1 DEF CallInv, Rejected
  <2>5. Announced(d)' /\ Asked(d)' /\ Registered(d)' /\ Presented(d)' /\ Over(d)' /\ Seen(d)'
    BY <1>2, <2>2, <2>3, ConstantsAssumption DEF CallInv, Announced, Asked, Registered,
       Presented, Over, Seen, NoCandidate
  <2>6. unsettled'[d] # "no" \/ (Rotating' /\ unsettled'[d] = "no")
    BY <1>1, <1>4, <2>1 DEF Marked
  <2>7. Remembered(d)' /\ Rejected(d)'
    BY <1>2, <2>2, <2>3, <2>6 DEF CallInv, Remembered, Rejected
  <2>8. Once(d)'
    BY <1>1, <1>2, <2>1 DEF CallInv, Once, Correlates
  <2>9. Quiet(d)'
    BY <1>1, <1>2, <2>1, <2>2, <2>4 DEF Quiet, Answering
  <2>10. QED
    BY <2>5, <2>7, <2>8, <2>9 DEF CallInv
<1>6. CASE ~(d = slot /\ ~ask[d].cancelled)
  <2>1. /\ ask'[d] = ask[d] /\ dropped'[d] = dropped[d] /\ mem'[d] = mem[d]
        /\ BumpMarks[d] = unsettled[d]
    <3>1. CASE slot # NoCall /\ ~ask[slot].cancelled
      <4>1. slot \in Calls /\ slot # d
        BY <1>1, <1>6, <3>1
      <4>2. QED
        BY <1>1, <3>1, <4>1 DEF Interrupt, NewSession, Bump, BumpMarks, Marked, Correlates
    <3>2. CASE ~(slot # NoCall /\ ~ask[slot].cancelled)
      BY <3>2 DEF Interrupt, NewSession, Bump, BumpMarks
    <3>3. QED
      BY <3>1, <3>2
  <2>2. Announced(d)' /\ Asked(d)' /\ Registered(d)' /\ Presented(d)' /\ Over(d)' /\ Seen(d)'
    BY <1>2, <2>1, ConstantsAssumption DEF CallInv, Announced, Asked, Registered,
       Presented, Over, Seen, NoCandidate
  <2>3. \/ unsettled'[d] = unsettled[d] /\ silent' = silent
        \/ Rotating' /\ unsettled'[d] = "no"
    BY <1>4, <2>1
  <2>4. Remembered(d)' /\ Once(d)' /\ Rejected(d)' /\ Quiet(d)'
    BY <1>2, <1>3, <2>1, <2>3 DEF CallInv, Remembered, ShowsParked, Once, Rejected, Answering, Quiet
  <2>5. QED
    BY <2>2, <2>4 DEF CallInv
<1>7. QED
  BY <1>5, <1>6

LEMMA ReloadKeeps ==
    ASSUME Typed, NEW d \in Calls, CallInv(d), ReloadIfIdle
    PROVE  CallInv(d)'
<1>1. UNCHANGED <<gen, reactorVars, resumeVars, delivered, history>>
  BY DEF ReloadIfIdle
<1>2. (Rotating => Rotating') /\ (Accepting(d) => Accepting(d)')
  BY OperatorQueue DEF Typed, QueueGrows
<1>3. Announced(d)' /\ Asked(d)' /\ Registered(d)' /\ Presented(d)' /\ Over(d)' /\ Seen(d)'
  BY <1>1 DEF CallInv, Announced, Asked, Registered, Presented, StillCurrent, Over, Seen,
     reactorVars, resumeVars, history
<1>4. Remembered(d)' /\ Once(d)' /\ Rejected(d)' /\ Quiet(d)'
  BY <1>1, <1>2 DEF CallInv, Remembered, ShowsParked, Once, Rejected, Answering, Quiet,
     reactorVars, resumeVars, history
<1>5. QED
  BY <1>3, <1>4 DEF CallInv

-----------------------------------------------------------------------------
\* What every step keeps of the queue, and between a close and a build.

\* A settlement's step puts at most its own decision into the queue, and only the
\* reject of a drop changes what a reactor holds.
LEMMA SettlementShape ==
    ASSUME Typed, NEW c \in Calls, CallInv(c),
           Settlement(c) \/ ReadFails(c) \/ SurfaceThrows(c)
    PROVE  /\ ask[c].pc \notin {"idle", "delivering", "rejecting"}
           /\ \E a \in Asks :
                /\ ask' = [ask EXCEPT ![c] = a]
                /\ \/ ops' = ops
                   \/ \E v \in {a.verdict, "rejected"} :
                        /\ v \in Verdicts /\ a.pc \in {"delivering", "rejecting"}
                        /\ ops' = Append(ops, Op("decision", c, v))
           /\ \/ dropped' = dropped
              \/ \E n \in Nat \ {0} : dropped' = [dropped EXCEPT ![c] = n]
           /\ mem' = mem \/ Correlates(c, "rejected")
           /\ UNCHANGED <<step, todo, up, disk, home, session, noisy>>
<1> DEFINE Shape(a) ==
      /\ ask' = [ask EXCEPT ![c] = a]
      /\ \/ ops' = ops
         \/ \E v \in {a.verdict, "rejected"} :
              /\ v \in Verdicts /\ a.pc \in {"delivering", "rejecting"}
              /\ ops' = Append(ops, Op("decision", c, v))
<1>1. ask[c] \in Asks /\ ask[c].verdict \in Verdicts /\ ask[c].agent \in Nat
      /\ (ask[c].pc # "idle" => ask[c].agent # 0)
  BY DEF Typed, ResumeType, Asks, CallInv, Asked
<1>2. ask[c].pc \notin {"idle", "delivering", "rejecting"}
  BY DEF Settlement, Resolved, ReadFails, HistoryRead, WatchStops, Rechecked,
     SurfaceThrows, RecheckedAfterThrow
<1>3. UNCHANGED <<step, todo, up, disk, home, session, noisy>>
  BY DEF Settlement, Resolved, ReadFails, HistoryRead, WatchStops, Rechecked, SurfaceThrows,
     RecheckedAfterThrow, DropFrame, AskFrame, reactorButMem, reactorVars, opVars, history,
     Enqueues
<1>4. IdleAsk \in Asks
  BY IdleAskTyped
<1>5. ASSUME NEW a \in Asks, a.agent = ask[c].agent, Drops(c, a), DropFrame
      PROVE  /\ \E b \in Asks : Shape(b)
             /\ \E n \in Nat \ {0} : dropped' = [dropped EXCEPT ![c] = n]
             /\ mem' = mem \/ Correlates(c, "rejected")
  <2>1. ask' = [ask EXCEPT ![c] = IdleAsk] /\ dropped' = [dropped EXCEPT ![c] = ask[c].agent]
        /\ ops' = ops /\ (mem' = mem \/ Correlates(c, "rejected"))
    BY <1>5 DEF Drops, Finishes, DropFrame, opVars
  <2>2. ask[c].agent \in Nat \ {0}
    BY <1>1, <1>2
  <2>3. Shape(IdleAsk)
    BY <2>1
  <2>4. QED
    BY <1>4, <2>1, <2>2, <2>3
<1>6. AskFrame => mem' = mem /\ dropped' = dropped
  BY DEF AskFrame, reactorVars, history
<1>7. ASSUME NEW threw, Finishes(c, threw), UNCHANGED opVars
      PROVE  \E b \in Asks : Shape(b)
  <2>1. Shape(IdleAsk)
    BY <1>7 DEF Finishes, opVars
  <2>2. QED
    BY <1>4, <2>1
<1>8. ASSUME NEW a \in Asks, ask' = [ask EXCEPT ![c] = a], UNCHANGED opVars
      PROVE  \E b \in Asks : Shape(b)
  BY <1>8 DEF opVars
<1>9. ASSUME NEW a \in Asks, ask' = [ask EXCEPT ![c] = a], NEW v \in {a.verdict, "rejected"},
             v \in Verdicts, a.pc \in {"delivering", "rejecting"}, Enqueues(c, v)
      PROVE  \E b \in Asks : Shape(b)
  BY <1>9 DEF Enqueues
<1>10. SUFFICES ASSUME ~ (/\ \E a \in Asks : a.agent = ask[c].agent /\ Drops(c, a)
                          /\ DropFrame)
                PROVE  AskFrame /\ \E b \in Asks : Shape(b)
  BY <1>2, <1>3, <1>5, <1>6
<1>11. CASE Resolved(c)
  <2> DEFINE a == [ask[c] EXCEPT !.known = (disk[c] = "parked")]
             b == [a EXCEPT !.pc = "history"]
  <2>1. a \in Asks /\ a.agent = ask[c].agent /\ b \in Asks
    BY <1>1 DEF Asks, Pcs
  <2>2. StillCurrent(c)
    BY <1>10, <1>11, <2>1 DEF Resolved
  <2>3. /\ AskFrame /\ UNCHANGED opVars
        /\ Finishes(c, FALSE) \/ ask' = [ask EXCEPT ![c] = b]
    BY <1>11, <2>2 DEF Resolved
  <2> HIDE DEF a, b, Shape
  <2>4. QED
    BY <1>7, <1>8, <2>1, <2>3
<1>12. CASE ReadFails(c)
  <2>1. AskFrame /\ UNCHANGED opVars /\ Finishes(c, TRUE)
    BY <1>12 DEF ReadFails
  <2> HIDE DEF Shape
  <2>2. QED
    BY <1>7, <2>1
<1>13. ASSUME NEW renders \in BOOLEAN, HistoryRead(c, renders)
       PROVE  AskFrame /\ \E b \in Asks : Shape(b)
  <2> DEFINE a == [ask[c] EXCEPT !.pc = "asking", !.canReject = TRUE]
             b == [ask[c] EXCEPT !.pc = "delivering", !.canReject = TRUE, !.verdict = "rejected"]
  <2>1. a \in Asks /\ b \in Asks /\ b.pc = "delivering" /\ b.verdict = "rejected"
        /\ "rejected" \in Verdicts
    BY <1>1 DEF Asks, Pcs, Verdicts
  <2>2. StillCurrent(c)
    BY <1>1, <1>10, <1>13 DEF HistoryRead
  <2>3. /\ AskFrame
        /\ \/ Finishes(c, FALSE) /\ UNCHANGED opVars
           \/ ask' = [ask EXCEPT ![c] = a] /\ UNCHANGED opVars
           \/ ask' = [ask EXCEPT ![c] = b] /\ Enqueues(c, "rejected")
    BY <1>13, <2>2 DEF HistoryRead
  <2> HIDE DEF a, b, Shape
  <2>4. QED
    BY <1>7, <1>8, <1>9, <2>1, <2>3
<1>14. CASE WatchStops(c)
  <2> DEFINE a == [ask[c] EXCEPT !.pc = "rechecking"]
  <2>1. a \in Asks
    BY <1>1 DEF Asks, Pcs
  <2>2. StillCurrent(c)
    BY <1>1, <1>10, <1>14 DEF WatchStops
  <2>3. /\ AskFrame /\ UNCHANGED opVars
        /\ Finishes(c, FALSE) \/ ask' = [ask EXCEPT ![c] = a]
    BY <1>14, <2>2, ZenonT(60) DEF WatchStops
  <2> HIDE DEF a, Shape
  <2>4. QED
    BY <1>7, <1>8, <2>1, <2>3
<1>15. CASE Rechecked(c)
  <2> DEFINE a == [ask[c] EXCEPT !.pc = "delivering"]
             b == [ask[c] EXCEPT !.canReject = @ /\ ~(disk[c] = "timedout")]
  <2>1. /\ a \in Asks /\ a.pc = "delivering" /\ a.verdict = ask[c].verdict
        /\ b \in Asks /\ b.agent = ask[c].agent
    BY <1>1 DEF Asks, Pcs
  <2>2. StillCurrent(c)
    BY <1>10, <1>15, <2>1 DEF Rechecked
  <2>3. /\ AskFrame
        /\ \/ Finishes(c, FALSE) /\ UNCHANGED opVars
           \/ ask' = [ask EXCEPT ![c] = a] /\ Enqueues(c, ask[c].verdict)
    BY <1>15, <2>2 DEF Rechecked
  <2> HIDE DEF a, b, Shape
  <2>4. QED
    BY <1>1, <1>7, <1>9, <2>1, <2>3
<1>16. CASE SurfaceThrows(c)
  <2> DEFINE a == [ask[c] EXCEPT !.pc = "failing", !.verdict = "rejected"]
  <2>1. a \in Asks
    BY <1>1 DEF Asks, Pcs, Verdicts
  <2>2. StillCurrent(c)
    BY <1>1, <1>10, <1>16 DEF SurfaceThrows
  <2>3. AskFrame /\ UNCHANGED opVars /\ ask' = [ask EXCEPT ![c] = a]
    BY <1>16, <2>2 DEF SurfaceThrows
  <2> HIDE DEF a, Shape
  <2>4. QED
    BY <1>8, <2>1, <2>3
<1>17. CASE RecheckedAfterThrow(c)
  <2> DEFINE a == [ask[c] EXCEPT !.pc = "rejecting"]
             b == [ask[c] EXCEPT !.canReject = @ /\ ~(disk[c] = "timedout")]
  <2>1. /\ a \in Asks /\ a.pc = "rejecting" /\ b \in Asks /\ b.agent = ask[c].agent
        /\ "rejected" \in Verdicts
    BY <1>1 DEF Asks, Pcs, Verdicts
  <2>2. StillCurrent(c)
    BY <1>10, <1>17, <2>1 DEF RecheckedAfterThrow
  <2>3. /\ AskFrame
        /\ \/ Finishes(c, TRUE) /\ UNCHANGED opVars
           \/ ask' = [ask EXCEPT ![c] = a] /\ Enqueues(c, "rejected")
    BY <1>17, <2>2 DEF RecheckedAfterThrow
  <2> HIDE DEF a, b, Shape
  <2>4. QED
    BY <1>7, <1>9, <2>1, <2>3
<1>18. QED
  BY <1>11, <1>12, <1>13, <1>14, <1>15, <1>16, <1>17 DEF Settlement

LEMMA QueuedStays ==
    ASSUME Typed, Queued, ops' = ops,
           \A c \in Calls : ask[c].pc \in {"delivering", "rejecting"} =>
             ask'[c].pc = ask[c].pc /\ ask'[c].verdict = ask[c].verdict
    PROVE  Queued'
  BY DEF Queued, IsDecision

LEMMA QueuedAppends ==
    ASSUME Typed, Queued, NEW o \in Operations, ops' = Append(ops, o),
           IsDecision(o) => /\ o.call \in Calls /\ ask[o.call].pc \notin {"delivering", "rejecting"}
                            /\ ask'[o.call].pc \in {"delivering", "rejecting"}
                            /\ o.verdict \in {ask'[o.call].verdict, "rejected"},
           \A c \in Calls : ask[c].pc \in {"delivering", "rejecting"} =>
             ask'[c].pc = ask[c].pc /\ ask'[c].verdict = ask[c].verdict
    PROVE  Queued'
<1>1. /\ DOMAIN ops' = 1 .. Len(ops) + 1 /\ DOMAIN ops = 1 .. Len(ops) /\ Len(ops) \in Nat
      /\ ops'[Len(ops) + 1] = o /\ \A i \in DOMAIN ops : i \in DOMAIN ops' /\ ops'[i] = ops[i]
  BY AppendShifts DEF Typed
<1>2. \A i \in DOMAIN ops' : i \in DOMAIN ops \/ i = Len(ops) + 1
  BY <1>1
<1>3. ASSUME NEW i \in DOMAIN ops', IsDecision(ops'[i])
      PROVE  /\ ops'[i].call \in Calls /\ ops'[i].verdict \in {ask'[ops'[i].call].verdict, "rejected"}
             /\ ask'[ops'[i].call].pc \in {"delivering", "rejecting"}
  <2>1. CASE i \in DOMAIN ops
    BY <1>1, <1>3, <2>1 DEF Queued, IsDecision
  <2>2. CASE i = Len(ops) + 1
    BY <1>1, <1>3, <2>2
  <2>3. QED
    BY <1>2, <2>1, <2>2
<1>4. ASSUME NEW i \in DOMAIN ops', NEW j \in DOMAIN ops', IsDecision(ops'[i]), IsDecision(ops'[j]),
             ops'[i].call = ops'[j].call
      PROVE  i = j
  <2>1. CASE i \in DOMAIN ops /\ j \in DOMAIN ops
    BY <1>1, <1>4, <2>1 DEF Queued, IsDecision
  <2>2. CASE i \in DOMAIN ops /\ j = Len(ops) + 1
    BY <1>1, <1>4, <2>2 DEF Queued, IsDecision
  <2>3. CASE i = Len(ops) + 1 /\ j \in DOMAIN ops
    BY <1>1, <1>4, <2>3, SMTT(60) DEF Queued, IsDecision
  <2>4. QED
    BY <1>2, <2>1, <2>2, <2>3
<1>5. QED
  BY <1>3, <1>4 DEF Queued, IsDecision

LEMMA QueuedEnds ==
    ASSUME Typed, Queued, ops # <<>>, ops' = Tail(ops),
           \A c \in Calls : ask[c].pc \in {"delivering", "rejecting"} =>
             \/ ask'[c].pc = ask[c].pc /\ ask'[c].verdict = ask[c].verdict
             \/ Head(ops).kind = "decision" /\ Head(ops).call = c
    PROVE  Queued'
<1>1. ops \in Seq(Operations)
  BY DEF Typed, OpType
<1>2. /\ Head(ops) = ops[1] /\ 1 \in DOMAIN ops
      /\ \A i \in DOMAIN ops' : i + 1 \in DOMAIN ops /\ ops'[i] = ops[i + 1]
      /\ \A i \in DOMAIN ops' : i \in Nat /\ i # 0
  <2>1. ops' \in Seq(Operations)
    BY <1>1, TailShifts
  <2>2. QED
    BY <1>1, <2>1, TailShifts
<1>3. ASSUME NEW i \in DOMAIN ops', IsDecision(ops'[i])
      PROVE  /\ ops'[i].call \in Calls /\ ops'[i].verdict \in {ask'[ops'[i].call].verdict, "rejected"}
             /\ ask'[ops'[i].call].pc \in {"delivering", "rejecting"}
  <2>1. i + 1 \in DOMAIN ops /\ ops'[i] = ops[i + 1] /\ i + 1 # 1
    BY <1>2
  <2>2. ~(IsDecision(ops[1]) /\ ops[1].call = ops[i + 1].call)
    BY <1>2, <1>3, <2>1 DEF Queued, IsDecision
  <2>3. QED
    BY <1>2, <1>3, <2>1, <2>2 DEF Queued, IsDecision
<1>4. ASSUME NEW i \in DOMAIN ops', NEW j \in DOMAIN ops', IsDecision(ops'[i]), IsDecision(ops'[j]),
             ops'[i].call = ops'[j].call
      PROVE  i = j
  <2>1. i + 1 = j + 1
    BY <1>2, <1>4 DEF Queued, IsDecision
  <2>2. QED
    BY <1>2, <2>1
<1>5. QED
  BY <1>3, <1>4 DEF Queued, IsDecision

LEMMA BetweenStays ==
    ASSUME Typed, Between, UNCHANGED <<step, todo>>,
           ops' = ops \/ \E o \in Operations : ops' = Append(ops, o),
           \A c \in Calls : dropped[c] # 0 => dropped'[c] # 0,
           up = "closed" => /\ up' = "closed"
                            /\ \A c \in Calls : /\ mem[c] = "none" => mem'[c] = "none"
                                                /\ ShowsParked(c)' => ShowsParked(c)
    PROVE  Between'
<1>1. OpType /\ todo \in Seq(Calls)
  BY DEF Typed, OpType
<1>2. ops # <<>> => ops' # <<>> /\ Head(ops') = Head(ops)
  BY <1>1, AppendShifts
<1>3. ops' = <<>> => step' = "start"
  BY <1>2 DEF Between
<1>4. \A i \in DOMAIN todo' : dropped'[todo'[i]] # 0
  BY <1>1 DEF Between
<1>5. ASSUME step' = "build"
      PROVE  /\ up' = "closed" /\ \A c \in Calls : mem'[c] = "none"
             /\ Head(ops').kind = "rotate" => \A c \in Calls : ~ShowsParked(c)'
  <2>1. step = "build" /\ ops # <<>>
    BY <1>5 DEF Between
  <2>2. QED
    BY <1>2, <2>1 DEF Between
<1>6. QED
  BY <1>3, <1>4, <1>5 DEF Between

LEMMA BetweenEnds ==
    ASSUME step' = "start", todo' = <<>>
    PROVE  Between'
<1>1. DOMAIN todo' = {}
  OBVIOUS
<1>2. QED
  BY <1>1 DEF Between

\* The parts of the invariant that are not about one call.
Orderly == Queued /\ Between /\ noisy = {}

LEMMA OverlayShape ==
    ASSUME NEW c \in Calls, NEW v \in Verdicts, OverlayResolves(c, v)
    PROVE  ask[c].pc = "asking" /\ \E a : ask' = [ask EXCEPT ![c] = a]
<1>1. PICK sawIt \in {FALSE, disk[c] = "timedout"} :
        ask' = [ask EXCEPT ![c] = [ask[c] EXCEPT !.pc = "watched", !.verdict = v, !.late = sawIt]]
  BY ZenonT(60) DEF OverlayResolves
<1>2. QED
  BY <1>1 DEF OverlayResolves

LEMMA AskerOrder ==
    ASSUME Typed, Orderly, \A e \in Calls : CallInv(e), NEW c \in Calls,
           \/ Park(c) \/ GateTimesOut(c) \/ Loop(c) \/ RunEnds
           \/ \E sent \in BOOLEAN : ObserveParked(c, sent)
           \/ TryResumeOnce
           \/ \E v \in Verdicts : OverlayResolves(c, v)
    PROVE  Orderly'
<1>1. UNCHANGED <<ops, todo, step, dropped, session>>
  BY DEF Park, GateTimesOut, Loop, LoopTakes, LoopWrites, LoopDecides, LoopRuns, ToolDone, RunEnds,
     ObserveParked, TryResumeOnce, OverlayResolves, AskFrame, reactorVars, resumeVars, opVars, history
<1>2. up' = up
  BY DEF Park, GateTimesOut, Loop, LoopTakes, LoopWrites, LoopDecides, LoopRuns, ToolDone, RunEnds,
     ObserveParked, TryResumeOnce, OverlayResolves, AskFrame, reactorVars
<1>3. mem \in [Calls -> Memories] /\ disk \in [Calls -> {"none", "parked", "answered", "timedout"}]
      /\ ask \in [Calls -> Asks] /\ candidate.call \in Calls \union {NoCall}
  BY DEF Typed, ReactorType, ResumeType
<1>4. ASSUME up = "closed", NEW e \in Calls
      PROVE  /\ mem[e] = "none" => mem'[e] = "none"
             /\ ShowsParked(e)' => ShowsParked(e)
  <2>1. UNCHANGED <<mem, disk, home, session>> \/ Loop(c)
    BY <1>4 DEF Park, GateTimesOut, RunEnds, ObserveParked, TryResumeOnce, OverlayResolves,
       AskFrame, reactorVars
  <2>2. CASE Loop(c)
    BY <1>3, <1>4, <2>2 DEF Loop, LoopTakes, LoopWrites, LoopDecides, LoopRuns, ToolDone, ShowsParked
  <2>3. QED
    BY <2>1, <2>2 DEF ShowsParked
<1>5. Between'
  BY <1>1, <1>2, <1>4, BetweenStays DEF Orderly
<1>6. ASSUME NEW e \in Calls, ask[e].pc \in {"delivering", "rejecting"}
      PROVE  ask'[e] = ask[e]
  <2>1. \/ ask' = ask
        \/ \E f \in Calls : ask[f].pc \in {"idle", "asking"} /\ \E a : ask' = [ask EXCEPT ![f] = a]
    <3>1. CASE Park(c) \/ GateTimesOut(c) \/ Loop(c) \/ RunEnds
      BY <3>1 DEF Park, GateTimesOut, Loop, LoopTakes, LoopWrites, LoopDecides, LoopRuns, ToolDone,
         RunEnds, resumeVars
    <3>2. CASE \E sent \in BOOLEAN : ObserveParked(c, sent)
      BY <3>2 DEF ObserveParked, Handles, Status
    <3>3. CASE TryResumeOnce
      BY <1>3, <3>3 DEF TryResumeOnce, Handles, Status
    <3>4. ASSUME NEW v \in Verdicts, OverlayResolves(c, v)
          PROVE  ask[c].pc = "asking" /\ \E a : ask' = [ask EXCEPT ![c] = a]
      BY <3>4, OverlayShape
    <3>5. QED
      BY <3>1, <3>2, <3>3, <3>4
  <2>2. QED
    BY <1>3, <1>6, <2>1
<1>7. Queued'
  BY <1>1, <1>6, QueuedStays DEF Orderly
<1>8. noisy' = {}
  <2>1. CASE LoopDecides(c)
    <3>1. c \notin silent /\ disk[c] = "answered" /\ dropped[c] \in 1 .. agent - 1 => Rotating
      BY <2>1 DEF LoopDecides, CallInv, Quiet, Answering
    <3>2. QED
      BY <2>1, <3>1 DEF LoopDecides, Orderly
  <2>2. CASE noisy' = noisy
    BY <2>2 DEF Orderly
  <2>3. noisy' = noisy \/ LoopDecides(c)
    BY DEF Park, GateTimesOut, Loop, LoopTakes, LoopWrites, LoopRuns, ToolDone, RunEnds,
     ObserveParked, TryResumeOnce, OverlayResolves, AskFrame, history
  <2>4. QED
    BY <2>1, <2>2, <2>3
<1>9. QED
  BY <1>5, <1>7, <1>8 DEF Orderly

LEMMA SettlementOrder ==
    ASSUME Typed, Orderly, NEW c \in Calls, CallInv(c),
           Settlement(c) \/ ReadFails(c) \/ SurfaceThrows(c)
    PROVE  Orderly'
<1>1. PICK a \in Asks :
        /\ ask' = [ask EXCEPT ![c] = a]
        /\ \/ ops' = ops
           \/ \E v \in {a.verdict, "rejected"} :
                /\ v \in Verdicts /\ a.pc \in {"delivering", "rejecting"}
                /\ ops' = Append(ops, Op("decision", c, v))
  BY SettlementShape
<1>2. /\ ask[c].pc \notin {"idle", "delivering", "rejecting"}
      /\ \/ dropped' = dropped
         \/ \E n \in Nat \ {0} : dropped' = [dropped EXCEPT ![c] = n]
      /\ mem' = mem \/ Correlates(c, "rejected")
      /\ UNCHANGED <<step, todo, up, disk, home, session, noisy>>
  BY SettlementShape
<1>3. /\ ask \in [Calls -> Asks] /\ dropped \in [Calls -> Nat] /\ mem \in [Calls -> Memories]
  BY DEF Typed, ReactorType, ResumeType, HistoryType
<1>4. ask'[c] = a /\ \A e \in Calls \ {c} : ask'[e] = ask[e]
  BY <1>1, <1>3
<1>5. \A e \in Calls : ask[e].pc \in {"delivering", "rejecting"} =>
        ask'[e].pc = ask[e].pc /\ ask'[e].verdict = ask[e].verdict
  BY <1>2, <1>4
<1>6. \A e \in Calls : /\ dropped[e] # 0 => dropped'[e] # 0
                       /\ mem[e] = "none" => mem'[e] = "none"
                       /\ ShowsParked(e)' => ShowsParked(e)
  BY <1>2, <1>3 DEF Correlates, ShowsParked
<1>7. CASE ops' = ops
  <2>1. Queued'
    BY <1>5, <1>7, QueuedStays DEF Orderly
  <2>2. Between'
    BY <1>2, <1>6, <1>7, BetweenStays DEF Orderly
  <2>3. QED
    BY <1>2, <2>1, <2>2 DEF Orderly
<1>8. ASSUME NEW v \in {a.verdict, "rejected"}, v \in Verdicts, a.pc \in {"delivering", "rejecting"},
             ops' = Append(ops, Op("decision", c, v))
      PROVE  Orderly'
  <2> DEFINE o == Op("decision", c, v)
  <2>1. o \in Operations /\ o.call = c /\ o.verdict = v
    BY <1>8 DEF Op, Operations
  <2>2. ops' = Append(ops, o)
    BY <1>8
  <2> HIDE DEF o
  <2>3. Queued'
    BY <1>2, <1>4, <1>5, <1>8, <2>1, <2>2, QueuedAppends DEF Orderly
  <2>4. Between'
    BY <1>2, <1>6, <2>1, <2>2, BetweenStays DEF Orderly
  <2>5. QED
    BY <1>2, <2>3, <2>4 DEF Orderly
<1>9. QED
  BY <1>1, <1>7, <1>8

LEMMA DecisionOrder ==
    ASSUME Typed, Orderly, DecisionStarts \/ DecisionAccepted \/ AcceptanceTimesOut
    PROVE  Orderly'
<1> DEFINE c == Head(ops).call
<1>1. ops # <<>> /\ Head(ops).kind = "decision" /\ ask \in [Calls -> Asks] /\ c \in Calls
      /\ step # "build"
  <2>1. ops # <<>> /\ Head(ops).kind = "decision" /\ step # "build"
    BY DEF DecisionStarts, DecisionBody, DecisionAccepted, AcceptanceTimesOut, Running
  <2>2. QED
    BY <2>1, HeadTyped DEF Typed, ResumeType
<1>2. noisy' = {} /\ dropped' = dropped
  BY DEF DecisionStarts, DecisionBody, DecisionAccepted, AcceptanceTimesOut, history, Orderly
<1>3. \/ \E failed \in BOOLEAN : DecisionEnds(c, failed)
      \/ step' = "accept" /\ UNCHANGED <<ops, todo, ask>>
  BY DEF DecisionStarts, DecisionBody, DecisionAccepted, AcceptanceTimesOut
<1>4. CASE \E failed \in BOOLEAN : DecisionEnds(c, failed)
  <2>1. /\ ops' = Tail(ops) /\ step' = "start" /\ todo' = <<>>
        /\ ask' = [ask EXCEPT ![c] = IdleAsk]
    BY <1>4 DEF DecisionEnds, OpEnds, Finishes
  <2>2. \A e \in Calls : e = c \/ ask'[e] = ask[e]
    BY <1>1, <2>1
  <2>3. Queued'
    BY <1>1, <2>1, <2>2, QueuedEnds DEF Orderly
  <2>4. Between'
    BY <2>1, BetweenEnds
  <2>5. QED
    BY <1>2, <2>3, <2>4 DEF Orderly
<1>5. CASE step' = "accept" /\ UNCHANGED <<ops, todo, ask>>
  <2>1. Queued'
    BY <1>5, QueuedStays DEF Orderly
  <2>2. Between'
    BY <1>1, <1>2, <1>5 DEF Orderly, Between
  <2>3. QED
    BY <1>2, <2>1, <2>2 DEF Orderly
<1>6. QED
  BY <1>3, <1>4, <1>5

LEMMA RebuildOrder ==
    ASSUME Typed, Orderly, \A c \in Calls : CallInv(c),
           \/ RebuildStarts \/ Prepares \/ PrepareFails \/ CloseBegins \/ Drained
           \/ CloseFails \/ Builds \/ BuildFails \/ Settles \/ RebuildEnds
    PROVE  Orderly'
<1>1. /\ OpType /\ todo \in Seq(Calls) /\ session \in Nat /\ home \in [Calls -> Nat]
  BY DEF Typed, ReactorType, OpType
<1>2. UNCHANGED <<ask, dropped, home>> /\ noisy' = {}
  BY DEF RebuildStarts, Prepares, PrepareFails, CloseBegins, Drained, CloseFails, Builds,
     BuildsWith, BuildFails, Settles, SettlesOne, RebuildEnds, reactorVars, reactorButMem,
     resumeVars, history, Orderly
<1>3. ops # <<>>
  BY DEF RebuildStarts, Prepares, PrepareFails, CloseBegins, Drained, CloseFails, Builds,
     BuildsWith, BuildFails, Settles, SettlesOne, RebuildEnds, Running
<1>4. CASE OpEnds
  <2>1. ops' = Tail(ops) /\ step' = "start" /\ todo' = <<>>
    BY <1>4 DEF OpEnds
  <2>2. Queued' /\ Between'
    BY <1>2, <1>3, <2>1, QueuedEnds, BetweenEnds DEF Orderly
  <2>3. QED
    BY <1>2, <2>2 DEF Orderly
<1>5. ASSUME ops' = ops, \A i \in DOMAIN todo' : dropped[todo'[i]] # 0, step' # "build"
      PROVE  Orderly'
  <2>1. Queued'
    BY <1>2, <1>5, QueuedStays DEF Orderly
  <2>2. Between'
    BY <1>2, <1>3, <1>5 DEF Between
  <2>3. QED
    BY <1>2, <2>1, <2>2 DEF Orderly
<1>6. \A i \in DOMAIN todo : dropped[todo[i]] # 0
  BY DEF Orderly, Between
<1>7. todo' = Known({"unknown", "known"}) => \A i \in DOMAIN todo' : dropped[todo'[i]] # 0
  <2>1. /\ Known({"unknown", "known"}) \in Seq(Calls)
        /\ \A i \in DOMAIN Known({"unknown", "known"}) :
             unsettled[Known({"unknown", "known"})[i]] \in {"unknown", "known"}
    BY KnownSeq
  <2>2. \A i \in DOMAIN Known({"unknown", "known"}) : Known({"unknown", "known"})[i] \in Calls
    BY <2>1
  <2>3. \A c \in Calls : unsettled[c] \in {"unknown", "known"} => dropped[c] # 0
    BY DEF CallInv, Remembered
  <2>4. QED
    BY <2>1, <2>2, <2>3
<1>8. todo # <<>> /\ todo' = Tail(todo) => \A i \in DOMAIN todo' : dropped[todo'[i]] # 0
  BY <1>1, <1>6, TailShifts
<1>9. todo' = <<>> => \A i \in DOMAIN todo' : dropped[todo'[i]] # 0
  OBVIOUS
<1>10. CASE RebuildStarts
  BY <1>4, <1>5, <1>7, <1>10 DEF RebuildStarts, Goto
<1>11. CASE Prepares
  BY <1>5, <1>8, <1>11 DEF Prepares, Running
<1>12. CASE PrepareFails
  BY <1>5, <1>9, <1>12 DEF PrepareFails, Running
<1>13. CASE CloseBegins
  BY <1>5, <1>6, <1>13 DEF CloseBegins, Goto
<1>14. CASE Drained
  <2>1. /\ up' = "closed" /\ mem' = [c \in Calls |-> "none"] /\ UNCHANGED <<ops, todo>>
        /\ Head(ops).kind = "rotate" => session' = session + 1
    BY <1>14 DEF Drained, Goto
  <2>2. \A c \in Calls : Head(ops).kind = "rotate" => ~ShowsParked(c)'
    BY <1>1, <1>2, <2>1 DEF ShowsParked, CallInv, Remembered
  <2>3. Between'
    BY <1>2, <1>3, <1>6, <2>1, <2>2 DEF Between
  <2>4. Queued'
    BY <1>2, <2>1, QueuedStays DEF Orderly
  <2>5. QED
    BY <1>2, <2>3, <2>4 DEF Orderly
<1>15. CASE CloseFails
  BY <1>4, <1>15 DEF CloseFails
<1>16. CASE Builds
  BY <1>4, <1>5, <1>7, <1>16 DEF Builds, BuildsWith, Goto
<1>17. CASE BuildFails
  BY <1>4, <1>17 DEF BuildFails
<1>18. CASE Settles
  BY <1>5, <1>8, <1>18 DEF Settles, SettlesOne, Running
<1>19. CASE RebuildEnds
  BY <1>4, <1>19 DEF RebuildEnds
<1>20. QED
  BY <1>10, <1>11, <1>12, <1>13, <1>14, <1>15, <1>16, <1>17, <1>18, <1>19

LEMMA OperatorOrder ==
    ASSUME Typed, Orderly, \A c \in Calls : CallInv(c), Interrupt \/ NewSession \/ ReloadIfIdle
    PROVE  Orderly'
<1>1. /\ ask \in [Calls -> Asks] /\ mem \in [Calls -> Memories] /\ dropped \in [Calls -> Nat]
      /\ slot \in Calls \union {NoCall} /\ OpType
  BY DEF Typed, ReactorType, ResumeType, HistoryType
<1>2. UNCHANGED <<step, todo, up, session, disk, home, noisy>>
  BY DEF Interrupt, NewSession, ReloadIfIdle, Bump, reactorButMem, reactorVars, history
<1>3. /\ \/ ask' = ask
         \/ slot \in Calls /\ ask' = [ask EXCEPT ![slot] = [ask[slot] EXCEPT !.cancelled = TRUE]]
      /\ \/ dropped' = dropped
         \/ /\ slot \in Calls /\ ask[slot].agent # 0
            /\ dropped' = [dropped EXCEPT ![slot] = ask[slot].agent]
      /\ mem' = mem \/ (slot \in Calls /\ Correlates(slot, "rejected"))
  <2>1. CASE ReloadIfIdle
    BY <2>1 DEF ReloadIfIdle, reactorVars, resumeVars, history
  <2>2. CASE Bump
    <3>1. slot # NoCall => slot \in Calls /\ ask[slot].agent # 0
      BY <1>1 DEF CallInv, Registered, Asked
    <3>2. QED
      BY <2>2, <3>1 DEF Bump
  <2>3. QED
    BY <2>1, <2>2 DEF Interrupt, NewSession
<1>4. \A c \in Calls : ask'[c].pc = ask[c].pc /\ ask'[c].verdict = ask[c].verdict
  BY <1>1, <1>3 DEF Asks
<1>5. \A c \in Calls : /\ dropped[c] # 0 => dropped'[c] # 0
                       /\ mem[c] = "none" => mem'[c] = "none"
                       /\ ShowsParked(c)' => ShowsParked(c)
  BY <1>1, <1>2, <1>3 DEF Correlates, ShowsParked
<1>6. \/ ops' = ops
      \/ \E kind \in {"rebuild", "rotate", "reload"} : ops' = Append(ops, Op(kind, NoCall, "none"))
  BY <1>1, OperatorQueue
<1>7. CASE ops' = ops
  <2>1. Queued'
    BY <1>4, <1>7, QueuedStays DEF Orderly
  <2>2. Between'
    BY <1>2, <1>5, <1>7, BetweenStays DEF Orderly
  <2>3. QED
    BY <1>2, <2>1, <2>2 DEF Orderly
<1>8. ASSUME NEW kind \in {"rebuild", "rotate", "reload"}, ops' = Append(ops, Op(kind, NoCall, "none"))
      PROVE  Orderly'
  <2> DEFINE o == Op(kind, NoCall, "none")
  <2>1. o \in Operations /\ ~IsDecision(o)
    BY <1>8 DEF Op, Operations, IsDecision
  <2>2. ops' = Append(ops, o)
    BY <1>8
  <2> HIDE DEF o
  <2>3. Queued'
    BY <1>4, <2>1, <2>2, QueuedAppends DEF Orderly
  <2>4. Between'
    BY <1>2, <1>5, <2>1, <2>2, BetweenStays DEF Orderly
  <2>5. QED
    BY <1>2, <2>3, <2>4 DEF Orderly
<1>9. QED
  BY <1>6, <1>7, <1>8

-----------------------------------------------------------------------------
\* The invariant of a host's approvals: each call's settlement, the queue, and the
\* gap between two agents, in any behaviour.
THEOREM ApprovalInvariant == Spec => []Inv
<1>1. Init => Inv
  <2> SUFFICES ASSUME Init PROVE Inv
    OBVIOUS
  <2>1. ASSUME NEW c \in Calls PROVE CallInv(c)
    BY ConstantsAssumption DEF Init, CallInv, Announced, Asked, Registered, Presented, Over, Seen,
       Remembered, Once, Rejected, Answering, Quiet, IdleAsk, NoCandidate
  <2>2. Queued /\ Between /\ noisy = {}
    <3>1. ops = <<>> /\ todo = <<>> /\ step = "start" /\ noisy = {}
      BY DEF Init
    <3>2. DOMAIN ops = {} /\ DOMAIN todo = {}
      BY <3>1
    <3>3. QED
      BY <3>1, <3>2 DEF Queued, Between
  <2>3. QED
    BY <2>1, <2>2 DEF Inv
<1>2. Typed /\ Inv /\ [Next]_vars => Inv'
  <2> SUFFICES ASSUME Typed, Inv, [Next]_vars PROVE Inv'
    OBVIOUS
  <2>1. Orderly /\ Queued /\ Between /\ \A c \in Calls : CallInv(c)
    BY DEF Inv, Orderly
  <2>2. SUFFICES (\A d \in Calls : CallInv(d)') /\ Orderly'
    BY DEF Inv, Orderly
  <2>3. ASSUME NEW c \in Calls, Park(c) \/ GateTimesOut(c) \/ Loop(c)
        PROVE  (\A d \in Calls : CallInv(d)') /\ Orderly'
    BY <2>1, <2>3, ReactorKeeps, AskerOrder
  <2>4. ASSUME NEW c \in Calls, NEW sent \in BOOLEAN, ObserveParked(c, sent)
        PROVE  (\A d \in Calls : CallInv(d)') /\ Orderly'
    BY <2>1, <2>4, ObserveKeeps, AskerOrder
  <2>5. ASSUME NEW c \in Calls, Settlement(c) \/ ReadFails(c) \/ SurfaceThrows(c)
        PROVE  (\A d \in Calls : CallInv(d)') /\ Orderly'
    BY <2>1, <2>5, SettlementKeeps, SettlementOrder
  <2>6. ASSUME NEW c \in Calls, NEW v \in Verdicts, OverlayResolves(c, v)
        PROVE  (\A d \in Calls : CallInv(d)') /\ Orderly'
    BY <2>1, <2>6, OverlayKeeps, AskerOrder
  <2>7. CASE RunEnds
    <3>1. \A d \in Calls : CallInv(d)'
      BY <2>1, <2>7, ReactorKeeps
    <3>2. Queued' /\ noisy' = {}
      BY <2>1, <2>7, QueuedStays DEF RunEnds, resumeVars, opVars, history, Orderly
    <3>3. UNCHANGED <<ops, step, todo, up, dropped, mem, disk, home, session>>
      BY <2>7 DEF RunEnds, opVars, history
    <3>4. Between'
      BY <2>1, <3>3, BetweenStays DEF ShowsParked
    <3>5. QED
      BY <3>1, <3>2, <3>4 DEF Orderly
  <2>8. CASE TryResumeOnce
    <3>1. \A d \in Calls : CallInv(d)'
      BY <2>1, <2>8, TryResumeKeeps
    <3>2. candidate.call \in Calls
      BY <2>8 DEF TryResumeOnce, Typed, ResumeType
    <3>3. Orderly'
      BY <2>1, <2>8, <3>2, AskerOrder
    <3>4. QED
      BY <3>1, <3>3
  <2>9. CASE OpStep \/ OpFault
    <3>1. \/ DecisionStarts \/ DecisionAccepted \/ AcceptanceTimesOut
          \/ RebuildStarts \/ Prepares \/ PrepareFails \/ CloseBegins \/ Drained
          \/ CloseFails \/ Builds \/ BuildFails \/ Settles \/ RebuildEnds
      BY <2>9 DEF OpStep, OpFault
    <3>2. CASE DecisionStarts \/ DecisionAccepted \/ AcceptanceTimesOut
      BY <2>1, <3>2, DecisionKeeps, DecisionOrder
    <3>3. CASE \/ RebuildStarts \/ Prepares \/ PrepareFails \/ CloseBegins \/ Drained
               \/ CloseFails \/ Builds \/ BuildFails \/ Settles \/ RebuildEnds
      BY <2>1, <3>3, RebuildKeeps, RebuildOrder
    <3>4. QED
      BY <3>1, <3>2, <3>3
  <2>10. CASE Interrupt \/ NewSession \/ ReloadIfIdle
    BY <2>1, <2>10, BumpKeeps, ReloadKeeps, OperatorOrder
  <2>11. CASE UNCHANGED vars
    <3>1. UNCHANGED <<gen, reactorVars, resumeVars, opVars, history>>
      BY <2>11 DEF vars
    <3>2. Rotating' <=> Rotating
      BY <3>1, RotatingSame DEF opVars
    <3>3. \A d \in Calls : CallInv(d)'
      BY <2>1, <3>1, <3>2 DEF CallInv, Announced, Asked, Registered, Presented, StillCurrent,
         Over, Seen, Remembered, ShowsParked, Once, Rejected, Accepting, Answering, Quiet,
         reactorVars, resumeVars, opVars, history
    <3>4. Queued' /\ noisy' = {}
      BY <2>1, <3>1, QueuedStays DEF resumeVars, opVars, history, Orderly
    <3>5. UNCHANGED <<ops, step, todo, up, dropped, mem, disk, home, session>>
      BY <3>1 DEF reactorVars, opVars, history
    <3>6. Between'
      BY <2>1, <3>5, BetweenStays DEF ShowsParked
    <3>7. QED
      BY <3>3, <3>4, <3>6 DEF Orderly
  <2>12. QED
    BY <2>3, <2>4, <2>5, <2>6, <2>7, <2>8, <2>9, <2>10, <2>11 DEF Next
<1>3. QED
  BY <1>1, <1>2, TypeInvariant, PTL DEF Spec

\* Types: what the reactor holds, the asks, the queue and the history variables
\* keep their ranges, however often the agent is replaced.
THEOREM TypeCorrect == Spec => []TypeOK
<1>1. Typed => TypeOK
  BY TypedIsTypeOK
<1>2. QED
  BY <1>1, TypeInvariant, PTL

\* An approved call runs at most once, for any number of retries, timeouts,
\* interrupts, rotations and reloads (approval-delivery.ts, `delivered`;
\* approval-resume.ts, `handedOver`).
THEOREM ApprovedRunsOnce == Spec => []RunsAtMostOnce
<1>1. Inv => RunsAtMostOnce
  BY DEF Inv, CallInv, Once, RunsAtMostOnce
<1>2. QED
  BY <1>1, ApprovalInvariant, PTL

\* A dropped approval that its session still shows parked is in `unsettled` for the
\* next rebuild (approval-resume.ts, dropParked and settleOn).
THEOREM DropsAreRemembered == Spec => []DroppedIsRemembered
<1>1. Inv => DroppedIsRemembered
  BY DEF Inv, CallInv, Remembered, DroppedIsRemembered
<1>2. QED
  BY <1>1, ApprovalInvariant, PTL

\* The reject that settles a dropped approval starts no turn on a rebuilt agent
\* (approval-resume.ts, prepareRebuild and settleOn; the chat director).
THEOREM DropsStartNoTurn == Spec => []NoTurnForDroppedCall
<1>1. Inv => NoTurnForDroppedCall
  BY DEF Inv, NoTurnForDroppedCall
<1>2. QED
  BY <1>1, ApprovalInvariant, PTL

\* A step approves a call on a reactor only by delivering a decision that is current.
LEMMA ApprovalIsDelivered ==
    ASSUME Typed, Inv, Next, NEW c \in Calls, mem[c] = "parked", mem'[c] = "approved"
    PROVE  granted[c] = gen
<1>1. mem \in [Calls -> Memories] /\ \A e \in Calls : CallInv(e)
  BY DEF Typed, ReactorType, Inv
<1>2. ASSUME NEW e \in Calls, Correlates(e, "rejected")
      PROVE  FALSE
  BY <1>1, <1>2 DEF Correlates
<1>3. mem' # mem
  OBVIOUS
<1>4. ASSUME NEW e \in Calls, Park(e) \/ GateTimesOut(e) \/ Loop(e) \/ RunEnds
      PROVE  FALSE
  BY <1>1, <1>3, <1>4 DEF Park, GateTimesOut, Loop, LoopTakes, LoopWrites, LoopDecides, LoopRuns,
     ToolDone, RunEnds
<1>5. ASSUME NEW e \in Calls, Settlement(e) \/ ReadFails(e) \/ SurfaceThrows(e)
      PROVE  FALSE
  BY <1>1, <1>2, <1>3, <1>5, SettlementShape, SMTT(60)
<1>6. ASSUME \/ \E e \in Calls, sent \in BOOLEAN : ObserveParked(e, sent)
             \/ \E e \in Calls, v \in Verdicts : OverlayResolves(e, v)
             \/ TryResumeOnce \/ ReloadIfIdle
      PROVE  FALSE
  BY <1>3, <1>6 DEF ObserveParked, OverlayResolves, TryResumeOnce, ReloadIfIdle, AskFrame, reactorVars
<1>7. CASE Interrupt \/ NewSession
  <2>1. slot # NoCall => slot \in Calls
    BY DEF Typed, ResumeType
  <2>2. QED
    BY <1>2, <1>3, <1>7, <2>1 DEF Interrupt, NewSession, Bump
<1>8. CASE DecisionAccepted \/ AcceptanceTimesOut
  BY <1>3, <1>8 DEF DecisionAccepted, AcceptanceTimesOut, reactorVars
<1>9. CASE DecisionStarts
  <2>1. /\ Running({"decision"}, "start") /\ Head(ops).call \in Calls
        /\ Head(ops).verdict \in {ask[Head(ops).call].verdict, "rejected"}
    BY <1>9, HeadTyped DEF DecisionStarts, DecisionBody, Running, Typed, Inv, Queued, IsDecision
  <2>2. StillCurrent(Head(ops).call) /\ Correlates(Head(ops).call, Head(ops).verdict)
    BY <1>3, <1>9 DEF DecisionStarts, DecisionBody
  <2>3. c = Head(ops).call /\ Head(ops).verdict = "approved"
    BY <1>1, <2>1, <2>2 DEF Correlates
  <2>4. QED
    BY <1>1, <2>1, <2>2, <2>3 DEF StillCurrent, CallInv, Asked
<1>10. CASE \/ RebuildStarts \/ Prepares \/ PrepareFails \/ CloseBegins \/ Drained
            \/ CloseFails \/ BuildFails \/ RebuildEnds
  BY <1>3, <1>10 DEF RebuildStarts, Prepares, PrepareFails, CloseBegins, Drained, CloseFails,
     BuildFails, RebuildEnds, reactorVars
<1>11. CASE Builds
  BY <1>11 DEF Builds, BuildsWith
<1>12. CASE Settles
  <2>1. Head(todo) \in Calls
    BY <1>12, TodoTyped DEF Settles, SettlesOne, Typed
  <2>2. QED
    BY <1>2, <1>3, <1>12, <2>1 DEF Settles, SettlesOne
<1>13. QED
  BY <1>4, <1>5, <1>6, <1>7, <1>8, <1>9, <1>10, <1>11, <1>12 DEF Next, OpStep, OpFault

\* An approval reaches a reactor only in the generation in which the operator gave
\* it, whatever is queued between the answer and the delivery (tui/runner/session.ts,
\* deliverDecision; delivery-queue.ts, the generation).
THEOREM ApprovedWhereGiven == Spec => ApprovedInItsGeneration
<1>1. Typed /\ Inv /\ [Next]_vars =>
        [\A c \in Calls : mem[c] = "parked" /\ mem'[c] = "approved" => granted[c] = gen]_vars
  BY ApprovalIsDelivered
<1>2. QED
  BY <1>1, TypeInvariant, ApprovalInvariant, PTL DEF Spec, ApprovedInItsGeneration
=============================================================================
