-------------------------- MODULE OperatorDelivery --------------------------
\* What the operator types while a turn runs: soft steers and follow-ups wait in the
\* shell's queue, are drained at boundaries, and reach the agent through operations
\* of the session queue, which interrupts, reloads and /clear share.  No fleet is
\* live and no open task is driven, so a settled turn always hands the shell back.
EXTENDS Naturals, Sequences, FiniteSets, Functions

CONSTANTS
  MaxTyped,     \* bound: messages typed; a message is its number
  MaxStops      \* bound: interrupts, reloads and rotations

ASSUME BoundsAssumption == MaxTyped \in Nat /\ MaxStops \in Nat

VARIABLES
  kindOf,       \* the messages typed so far: immediate, steer or queue
  runState, paused, items,          \* shell.session
  composer,     \* the message restored to the prompt, 0 for none
  recoveries,   \* pendingPromptRecoveries
  underway,     \* pendingDeliveries
  epoch,        \* deliveryGeneration
  tasks,        \* sessionOps: the head runs
  phase,        \* where the head is
  directs,      \* immediate sends that have not reached the agent
  aborted,      \* sendAborted
  live, unbuilt,  \* the live agent, and fatalBuildError
  turnQueue,    \* what the agent was sent; the head has the turn
  begun,        \* the head's inference has started
  stops,
  drainedIn,    \* history: the generation each message was drained in
  reached,      \* history: messages an agent has taken
  discarded     \* history: messages the operator cancelled, cleared or wiped

queueVars == <<items, underway, drainedIn>>
agentVars == <<live, unbuilt, turnQueue, begun>>
promptVars == <<composer, recoveries, discarded>>
deliveryVars == <<kindOf, runState, paused, queueVars, promptVars, epoch, tasks, phase, directs,
                  aborted, agentVars, stops, reached>>

Typed == DOMAIN kindOf
NoMessage == 0

DeliveryInit ==
  /\ kindOf = <<>> /\ runState = "idle" /\ paused = FALSE /\ items = <<>>
  /\ composer = NoMessage /\ recoveries = <<>> /\ underway = {} /\ epoch = 0
  /\ tasks = <<>> /\ phase = "start" /\ directs = {} /\ aborted = FALSE
  /\ live = [no |-> 1, open |-> TRUE] /\ unbuilt = FALSE /\ turnQueue = <<>> /\ begun = FALSE
  /\ stops = 0 /\ drainedIn = [m \in 1 .. MaxTyped |-> 0] /\ reached = {} /\ discarded = {}

\* An operation of the session queue, for a message drained in generation e.
Task(do, m, e) == [do |-> do, msg |-> m, epoch |-> e, agent |-> IF do = "deliver" THEN live.no ELSE 0]
\* filter(): the members of S in ms, each after those that came before it.
Only(ms, S) ==
  LET at == {i \in DOMAIN ms : ms[i] \in S} IN
  [n \in 1 .. Cardinality(at) |->
     ms[CHOOSE i \in at : Cardinality({j \in at : j <= i}) = n]]
Kinds(ms, k) == Only(ms, {m \in Typed : kindOf[m] = k})

\* deliverQueuedItem: each drained message becomes an operation in generation e.
Drains(ms, do, e) ==
  /\ items' = Only(items, Typed \ Range(ms))
  /\ underway' = underway \union Range(ms)
  /\ drainedIn' = [m \in DOMAIN drainedIn |-> IF m \in Range(ms) THEN e ELSE drainedIn[m]]
HopsOf(ms, do, e) == [i \in DOMAIN ms |-> Task(do, ms[i], e)]

\* drainAtBoundary: steers first, then follow-ups; a held queue is left alone.
DrainOrder == IF paused THEN <<>> ELSE Kinds(items, "steer") \o Kinds(items, "queue")

-----------------------------------------------------------------------------
\* submit: an explicit send when idle, otherwise the queue.  The message that sat in
\* the prompt is sent in place of a new one, and the next one comes back.
Submit(kind) ==
  LET m == IF composer # NoMessage THEN composer ELSE Len(kindOf) + 1 IN
  /\ m <= MaxTyped
  /\ composer' = IF recoveries = <<>> THEN NoMessage ELSE Head(recoveries)
  /\ recoveries' = IF recoveries = <<>> THEN <<>> ELSE Tail(recoveries)
  /\ IF runState = "idle"
     THEN /\ kind = "immediate"
          /\ paused' = FALSE /\ runState' = "busy" /\ aborted' = FALSE
          /\ directs' = directs \union {[msg |-> m, epoch |-> epoch, pc |-> "ingest", ahead |-> 0]}
          /\ UNCHANGED items
     ELSE /\ kind # "immediate"
          /\ items' = Append(items, m)
          /\ UNCHANGED <<paused, runState, aborted, directs>>
  /\ kindOf' = IF m \in Typed THEN [kindOf EXCEPT ![m] = kind] ELSE Append(kindOf, kind)
  /\ UNCHANGED <<underway, drainedIn, epoch, tasks, phase, agentVars, stops, reached, discarded>>

\* applyShellCancelLast: the newest item goes to an empty prompt; a draft drops it.
CancelLast(draft) ==
  LET newest == items[Len(items)] IN
  /\ items # <<>> /\ (composer # NoMessage => draft)
  /\ items' = SubSeq(items, 1, Len(items) - 1)
  /\ composer' = IF draft THEN composer ELSE newest
  /\ discarded' = IF draft THEN discarded \union {newest} ELSE discarded
  /\ UNCHANGED <<kindOf, runState, paused, recoveries, underway, drainedIn, epoch, tasks, phase,
                 directs, aborted, agentVars, stops, reached>>

\* onForceDeliver: a selected item skips its boundary, and the pause.
ForceDeliver(m) ==
  LET do == IF kindOf[m] = "steer" /\ begun THEN "steer" ELSE "send" IN
  /\ m \in Range(items)
  /\ Drains(<<m>>, do, epoch)
  /\ tasks' = Append(tasks, Task(do, m, epoch))
  /\ UNCHANGED <<kindOf, runState, paused, promptVars, epoch, phase, directs, aborted, agentVars,
                 stops, reached>>

\* abortInFlightAndHandoff: the prompt is emptied, the generation passes, a rebuild
\* queues, and what is not held drains behind it.
Stops ==
  /\ stops < MaxStops /\ stops' = stops + 1
  /\ epoch' = epoch + 1 /\ aborted' = TRUE
  /\ composer' = NoMessage
  /\ discarded' = discarded \union ({composer} \ {NoMessage})
  /\ UNCHANGED <<kindOf, recoveries, phase, directs, agentVars, reached>>

\* The first Ctrl+C holds the queue.
CtrlC ==
  /\ runState = "busy" \/ items # <<>>
  /\ Stops
  /\ paused' = TRUE /\ runState' = "idle"
  /\ tasks' = Append(tasks, Task("rebuild", NoMessage, epoch))
  /\ UNCHANGED queueVars

\* The stall watchdog does not.
WatchdogAborts ==
  /\ begun
  /\ Stops
  /\ runState' = "idle" /\ UNCHANGED paused
  /\ Drains(DrainOrder, "send", epoch + 1)
  /\ tasks' = Append(tasks, Task("rebuild", NoMessage, epoch)) \o HopsOf(DrainOrder, "send", epoch + 1)

\* /clear: the queue, what is on its way and what came back go with the session.
ClearsSession ==
  /\ composer = NoMessage /\ stops < MaxStops /\ stops' = stops + 1
  /\ epoch' = epoch + 1
  /\ runState' = "idle" /\ paused' = FALSE
  /\ items' = <<>> /\ underway' = {} /\ recoveries' = <<>>
  /\ discarded' = discarded \union Range(items) \union underway \union Range(recoveries)
  /\ tasks' = Append(tasks, Task("rotate", NoMessage, epoch))
  /\ UNCHANGED <<kindOf, composer, phase, directs, aborted, agentVars, drainedIn, reached>>

-----------------------------------------------------------------------------
\* inference.start: the head of the agent's queue has the turn.
Infers ==
  /\ turnQueue # <<>> /\ live.open /\ (begun => runState = "idle")
  /\ begun' = TRUE /\ runState' = "busy"
  /\ UNCHANGED <<kindOf, paused, queueVars, promptVars, epoch, tasks, phase, directs, aborted,
                 live, unbuilt, turnQueue, stops, reached>>

\* tool.boundary: soft steers go into the running turn.
ToolBoundary ==
  LET steers == IF paused THEN <<>> ELSE Kinds(items, "steer") IN
  /\ begun /\ steers # <<>>
  /\ Drains(steers, "steer", epoch)
  /\ tasks' = tasks \o HopsOf(steers, "steer", epoch)
  /\ UNCHANGED <<kindOf, runState, paused, promptVars, epoch, phase, directs, aborted, agentVars,
                 stops, reached>>

\* The turn settles; a shell still busy is released and drains everything.
TurnEnds ==
  LET drained == IF runState = "busy" THEN DrainOrder ELSE <<>> IN
  /\ begun
  /\ turnQueue' = Tail(turnQueue) /\ begun' = FALSE
  /\ runState' = "idle"
  /\ Drains(drained, "send", epoch)
  /\ tasks' = tasks \o HopsOf(drained, "send", epoch)
  /\ UNCHANGED <<kindOf, paused, promptVars, epoch, phase, directs, aborted, live, unbuilt, stops,
                 reached>>

-----------------------------------------------------------------------------
Runs(doing, ph) == tasks # <<>> /\ Head(tasks).do \in doing /\ phase = ph
Advances(ph) == phase' = ph /\ UNCHANGED tasks
\* The head ends: immediate sends that waited for it come nearer.
TaskEnds(more) ==
  /\ tasks' = Tail(tasks) \o more /\ phase' = "start"
  /\ directs' = {[d EXCEPT !.ahead = IF @ > 0 THEN @ - 1 ELSE 0] : d \in directs}
Current == Head(tasks).epoch = epoch

\* settleDrainedDelivery: what was not delivered goes back to the prompt, or waits
\* while a draft or another message is there.  What /clear forgot stays forgotten.
Accepted(m) == underway' = underway \ {m} /\ UNCHANGED <<composer, recoveries>>

\* (mutant) Nothing waits for the prompt.
NotDeliveredLost(m) ==
  /\ underway' = underway \ {m}
  /\ composer' = IF m \in underway /\ composer = NoMessage THEN m ELSE composer
  /\ UNCHANGED recoveries

NotDelivered(m) ==
  /\ underway' = underway \ {m}
  /\ \/ m \notin underway /\ UNCHANGED <<composer, recoveries>>
     \/ m \in underway /\ composer = NoMessage /\ composer' = m /\ UNCHANGED recoveries
     \/ m \in underway /\ recoveries' = Append(recoveries, m) /\ UNCHANGED composer

HopFrame == UNCHANGED <<kindOf, paused, items, drainedIn, discarded, epoch, live, unbuilt, begun, stops>>

\* (mutant) A stale hop returns without settling its message.
HopStartsSilently ==
  /\ Runs({"send", "steer"}, "start")
  /\ IF Current THEN Advances("ingest") /\ UNCHANGED directs ELSE TaskEnds(<<>>)
  /\ HopFrame /\ UNCHANGED <<underway, composer, recoveries, runState, aborted, turnQueue, reached>>

\* createGenerationGatedHop: a message of a generation that has passed goes no further.
HopStarts ==
  /\ Runs({"send", "steer"}, "start")
  /\ IF Current
     THEN Advances("ingest") /\ UNCHANGED <<directs, underway, composer, recoveries>>
     ELSE TaskEnds(<<>>) /\ NotDelivered(Head(tasks).msg)
  /\ HopFrame /\ UNCHANGED <<runState, aborted, turnQueue, reached>>

\* The message is ingested.  A follow-up, or a steer at idle, is a send that holds
\* the session queue to the end of its turn; a live steer takes a second hop.
HopBody(ok, current) ==
  LET m == Head(tasks).msg
      goes == ok /\ current IN
  /\ Runs({"send", "steer"}, "ingest")
  /\ \/ ~goes /\ TaskEnds(<<>>) /\ NotDelivered(m) /\ UNCHANGED <<runState, aborted, turnQueue, reached>>
     \/ /\ goes /\ Head(tasks).do = "steer"
        /\ TaskEnds(<<Task("deliver", m, epoch)>>)
        /\ UNCHANGED <<underway, composer, recoveries, runState, aborted, turnQueue, reached>>
     \/ /\ goes /\ Head(tasks).do = "send" /\ aborted' = FALSE
        /\ IF live.open
           THEN /\ Advances("turn") /\ turnQueue' = Append(turnQueue, m) /\ reached' = reached \union {m}
                /\ UNCHANGED <<directs, underway, composer, recoveries, runState>>
           ELSE /\ TaskEnds(<<>>) /\ NotDelivered(m) /\ runState' = "idle"
                /\ UNCHANGED <<turnQueue, reached>>
  /\ HopFrame

\* (mutant) The generation is not looked at again after the await.
HopIngestsUnchecked(ok) == HopBody(ok, TRUE)

HopIngests(ok) == HopBody(ok, Current)

HopEnds ==
  /\ Runs({"send"}, "turn") /\ Head(tasks).msg \notin Range(turnQueue)
  /\ TaskEnds(<<>>) /\ Accepted(Head(tasks).msg)
  /\ HopFrame /\ UNCHANGED <<runState, aborted, turnQueue, reached>>

\* enqueueAgentDeliver: into the running turn, or as a turn of its own.
SteerDelivers ==
  LET t == Head(tasks) IN
  /\ Runs({"deliver"}, "start")
  /\ TaskEnds(<<>>)
  /\ IF Current /\ ~unbuilt /\ live = [no |-> t.agent, open |-> TRUE]
     THEN /\ Accepted(t.msg) /\ reached' = reached \union {t.msg}
          /\ turnQueue' = IF begun THEN turnQueue ELSE Append(turnQueue, t.msg)
     ELSE NotDelivered(t.msg) /\ UNCHANGED <<reached, turnQueue>>
  /\ HopFrame /\ UNCHANGED <<runState, aborted>>

\* interrupt, reloadIfIdle, newSession: the agent is closed, which rejects its sends;
\* a reload leaves a busy agent alone.  A rejected immediate send hands the shell back
\* unless it is known to be aborted.
AgentBusy == turnQueue # <<>> \/ \E d \in directs : d.pc # "ingest"

Closes ==
  LET rejected == \E m \in Range(turnQueue) : kindOf[m] = "immediate" IN
  /\ Runs({"rebuild", "reload", "rotate"}, "start")
  /\ IF Head(tasks).do = "reload" /\ AgentBusy
     THEN TaskEnds(<<>>) /\ UNCHANGED <<live, turnQueue, begun, runState>>
     ELSE /\ Advances("build") /\ UNCHANGED directs
          /\ live' = [live EXCEPT !.open = FALSE] /\ turnQueue' = <<>> /\ begun' = FALSE
          /\ runState' = IF rejected /\ ~aborted THEN "idle" ELSE runState
  /\ UNCHANGED <<kindOf, paused, queueVars, promptVars, epoch, aborted, unbuilt, stops, reached>>

Rebuilds(ok) ==
  /\ Runs({"rebuild", "reload", "rotate"}, "build")
  /\ unbuilt' = ~ok
  /\ live' = IF ok THEN [no |-> live.no + 1, open |-> TRUE] ELSE live
  /\ TaskEnds(<<>>)
  /\ UNCHANGED <<kindOf, runState, paused, queueVars, promptVars, epoch, aborted, turnQueue, begun,
                 stops, reached>>

Reload ==
  /\ ~AgentBusy /\ stops < MaxStops /\ stops' = stops + 1
  /\ tasks' = Append(tasks, Task("reload", NoMessage, epoch))
  /\ UNCHANGED <<kindOf, runState, paused, queueVars, promptVars, epoch, phase, directs, aborted,
                 agentVars, reached>>

-----------------------------------------------------------------------------
DirectFrame == UNCHANGED <<kindOf, paused, queueVars, promptVars, epoch, tasks, phase, live, unbuilt,
                           begun, stops>>
Leaves(d) == directs' = directs \ {d}
Moves(d, e) == directs' = (directs \ {d}) \union {e}
\* handleSendFailure: the shell is handed back, and nothing is drained.
SendFails(d) ==
  /\ Leaves(d)
  /\ runState' = IF aborted THEN runState ELSE "idle"
  /\ UNCHANGED <<aborted, turnQueue, reached>>

\* sendUserPrompt, then the proxy's wait for the session queue's tail.
DirectIngests(d, ok) ==
  /\ d.pc = "ingest"
  /\ IF ~ok THEN SendFails(d)
     ELSE /\ IF d.epoch = epoch THEN Moves(d, [d EXCEPT !.pc = "tail", !.ahead = Len(tasks)])
             ELSE Leaves(d)
          /\ UNCHANGED <<runState, aborted, turnQueue, reached>>
  /\ DirectFrame

\* dropIfRotated, here and after the credentials were refreshed.
Rotated(d) == Leaves(d) /\ aborted' = TRUE /\ UNCHANGED <<runState, turnQueue, reached>>

DirectWaited(d) ==
  /\ d.pc = "tail" /\ d.ahead = 0
  /\ IF d.epoch # epoch THEN Rotated(d)
     ELSE IF unbuilt THEN SendFails(d)
     ELSE Moves(d, [d EXCEPT !.pc = "refresh"]) /\ UNCHANGED <<runState, aborted, turnQueue, reached>>
  /\ DirectFrame

DirectSends(d, ok) ==
  /\ d.pc = "refresh"
  /\ IF ~ok THEN SendFails(d)
     ELSE IF d.epoch # epoch THEN Rotated(d)
     ELSE IF ~live.open THEN SendFails(d)
     ELSE /\ Leaves(d) /\ turnQueue' = Append(turnQueue, d.msg) /\ reached' = reached \union {d.msg}
          /\ UNCHANGED <<runState, aborted>>
  /\ DirectFrame

-----------------------------------------------------------------------------
TaskStep == HopStarts \/ HopIngests(TRUE) \/ HopEnds \/ SteerDelivers \/ Closes \/ Rebuilds(TRUE)

DeliveryNext ==
  \/ \E kind \in {"immediate", "steer", "queue"} : Submit(kind)
  \/ \E draft \in BOOLEAN : CancelLast(draft)
  \/ \E m \in Typed : ForceDeliver(m)
  \/ CtrlC \/ WatchdogAborts \/ ClearsSession \/ Reload
  \/ Infers \/ ToolBoundary \/ TurnEnds
  \/ TaskStep \/ HopIngests(FALSE) \/ Rebuilds(FALSE)
  \/ \E d \in directs :
       DirectWaited(d) \/ \E ok \in BOOLEAN : DirectIngests(d, ok) \/ DirectSends(d, ok)

DeliverySpec == DeliveryInit /\ [][DeliveryNext]_deliveryVars

\* Operations go on, and turns begin and end.
DeliveryFairness ==
  WF_deliveryVars(TaskStep) /\ WF_deliveryVars(Infers) /\ WF_deliveryVars(TurnEnds)

-----------------------------------------------------------------------------
Places(m) ==
  {p \in {"items", "underway", "prompt", "recoveries"} :
     m \in CASE p = "items" -> Range(items) [] p = "underway" -> underway
             [] p = "prompt" -> {composer} [] p = "recoveries" -> Range(recoveries)}

\* A message queued behind a turn is held in exactly one place until an agent has
\* taken it, the operator has dropped it or an interrupt has emptied the prompt that
\* held it, whatever interrupts, reloads and failing rebuilds come between, and is
\* never offered again afterwards; what is on its way has an operation to settle it.
QueuedInOnePlace ==
  /\ \A m \in Typed : kindOf[m] # "immediate" =>
       IF m \in reached THEN Places(m) \subseteq {"underway"}
       ELSE m \in discarded \/ \E p \in Places(m) : Places(m) = {p}
  /\ \A m \in underway : \E i \in DOMAIN tasks : tasks[i].msg = m

\* No agent takes a message that was sent or drained before an interrupt or a
\* rotation: it would start the turn the operator has stopped, or in a session the
\* operator has left.
StaleNeverDelivered ==
  [][\A m \in reached' \ reached :
       IF kindOf[m] = "immediate" THEN \E d \in directs : d.msg = m /\ d.epoch = epoch
       ELSE drainedIn[m] = epoch]_deliveryVars

\* Every message that left the queue is settled: taken, or handed back.
DrainedSettles == \A m \in 1 .. MaxTyped : (m \in underway) ~> (m \notin underway)
=============================================================================
