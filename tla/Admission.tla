------------------------------ MODULE Admission ------------------------------
(***************************************************************************)
(* The admission queue in front of worker run():                           *)
(* createAdmissionQueue of src/src/subagent/admission.ts.                  *)
(*                                                                         *)
(* A handler (enqueue, release, setCapacity, notePressure, cancel, the     *)
(* drain timer) is one step; the while loop of drain() is one step per job *)
(* it starts, with draining = TRUE in between, so that the clock may move  *)
(* between two calls of now() and a start() callback that gives its slot   *)
(* back at once (release inside start, a nested drain()) continues the     *)
(* same loop.  No other handler runs while draining: the loop has no await.*)
(***************************************************************************)
EXTENDS Integers, Sequences, FiniteSets

CONSTANTS Jobs,            \* session ids of workers
          Providers,       \* provider labels
          ProviderOf,      \* AdmissionJob.provider
          Bypass,          \* jobs with bypass = true (nested children)
          CapacityInputs,  \* arguments of setCapacity; negative ones are invalid
          MaxClock         \* bound: the last instant of Date.now()

ASSUME ConstantsAssumption ==
    /\ ProviderOf \in [Jobs -> Providers]
    /\ Bypass \subseteq Jobs
    /\ CapacityInputs \subseteq Int
    /\ MaxClock \in Nat

VARIABLES capacity,     \* POSITIVE_INFINITY is any number >= |Jobs|
          inFlight,     \* ids that occupy a burst slot
          queued,       \* FIFO array of waiting jobs
          pausedUntil,  \* per provider; 0 = no entry. A lapsed entry reads as none.
          drainTimer,   \* deadline of the armed timer, 0 = undefined
          timerHolds,   \* the armed timer keeps the process alive (not unref'd)
          clock,        \* now()
          draining      \* inside the while loop of drain()

vars == <<capacity, inFlight, queued, pausedUntil, drainTimer, timerHolds,
          clock, draining>>

Elems(s) == {s[i] : i \in DOMAIN s}

TypeOK == /\ capacity \in Nat
          /\ inFlight \in SUBSET Jobs
          /\ queued \in Seq(Jobs)
          /\ pausedUntil \in [Providers -> Nat]
          /\ drainTimer \in Nat
          /\ timerHolds \in BOOLEAN
          /\ clock \in Nat
          /\ draining \in BOOLEAN

-----------------------------------------------------------------------------
Paused(p) == clock < pausedUntil[p]

HasRoom == Cardinality(inFlight) < capacity

CanAdmitNoWindow(j) == ~Paused(ProviderOf[j])
CanAdmit(j) == /\ ~Paused(ProviderOf[j])
               /\ j \in Bypass \/ HasRoom

\* queued.findIndex(canAdmit)
LastAdmissible(i) == /\ i \in DOMAIN queued
                     /\ CanAdmit(queued[i])
                     /\ \A k \in DOMAIN queued : k > i => ~CanAdmit(queued[k])
NextAdmissible(i) == /\ i \in DOMAIN queued
                     /\ CanAdmit(queued[i])
                     /\ \A k \in 1..(i - 1) : ~CanAdmit(queued[k])

RemoveAt(s, i) == [k \in 1..(Len(s) - 1) |-> IF k < i THEN s[k] ELSE s[k + 1]]

-----------------------------------------------------------------------------
\* scheduleDrain: clear the timer, arm it for the earliest pause that has not
\* lapsed; an armed timer holds the process only while jobs wait.
OpenPauses == {pausedUntil[p] : p \in {q \in Providers : Paused(q)}}

ScheduleDrain ==
    \/ /\ OpenPauses = {}
       /\ drainTimer' = 0
       /\ timerHolds' = FALSE
    \/ /\ drainTimer' \in OpenPauses
       /\ \A u \in OpenPauses : drainTimer' <= u
       /\ timerHolds' = (queued' # <<>>)

\* occupyAndStart: start() normally leaves the slot occupied; a worker that
\* was torn down while it waited releases it again before start() returns.
StartRuns(j) == inFlight' = inFlight \cup {j}
StartDeclines(j) == inFlight' = inFlight \ {j}

\* enqueue: idempotent by id; admits at once when it can, else queues.
EnqueueKnown(j) == /\ j \in inFlight \cup Elems(queued)
                   /\ UNCHANGED vars

EnqueueAdmit(j) ==
    /\ j \notin inFlight \cup Elems(queued)
    /\ CanAdmit(j)
    /\ \/ StartRuns(j) /\ draining' = FALSE
       \/ StartDeclines(j) /\ draining' = TRUE
    /\ UNCHANGED <<capacity, queued, pausedUntil, drainTimer, timerHolds, clock>>

EnqueueWaitAgain(j) ==
    /\ ~CanAdmit(j)
    /\ queued' = Append(queued, j)
    /\ ScheduleDrain
    /\ UNCHANGED <<capacity, inFlight, pausedUntil, clock, draining>>
EnqueueWaitUnscheduled(j) ==
    /\ j \notin inFlight \cup Elems(queued)
    /\ ~CanAdmit(j)
    /\ queued' = Append(queued, j)
    /\ UNCHANGED <<capacity, inFlight, pausedUntil, drainTimer, timerHolds,
                   clock, draining>>
EnqueueWait(j) ==
    /\ j \notin inFlight \cup Elems(queued)
    /\ ~CanAdmit(j)
    /\ queued' = Append(queued, j)
    /\ ScheduleDrain
    /\ UNCHANGED <<capacity, inFlight, pausedUntil, clock, draining>>

Enqueue(j) == /\ ~draining
              /\ EnqueueKnown(j) \/ EnqueueAdmit(j) \/ EnqueueWait(j)

-----------------------------------------------------------------------------
\* release and setCapacity change one thing and drain.
ReleaseOnly(j) == /\ ~draining
                  /\ inFlight' = inFlight \ {j}
                  /\ UNCHANGED <<capacity, queued, pausedUntil, drainTimer,
                                 timerHolds, clock, draining>>
Release(j) == /\ ~draining
              /\ inFlight' = inFlight \ {j}
              /\ draining' = TRUE
              /\ UNCHANGED <<capacity, queued, pausedUntil, drainTimer,
                             timerHolds, clock>>

SetCapacity(n) == /\ ~draining
                  /\ n >= 0
                  /\ capacity' = n
                  /\ draining' = TRUE
                  /\ UNCHANGED <<inFlight, queued, pausedUntil, drainTimer,
                                 timerHolds, clock>>

\* notePressure (agent/retry-policy.ts, on a 429): a pause only grows.
NotePressure(p, until) ==
    /\ ~draining
    /\ until > clock
    /\ pausedUntil' = [pausedUntil EXCEPT ![p] = IF until > @ THEN until ELSE @]
    /\ draining' = TRUE
    /\ UNCHANGED <<capacity, inFlight, queued, drainTimer, timerHolds, clock>>

\* cancel drops a waiting job; an occupied slot is the run's to release.
Cancel(j) ==
    /\ ~draining
    /\ \E i \in DOMAIN queued : queued[i] = j /\ queued' = RemoveAt(queued, i)
    /\ UNCHANGED <<capacity, inFlight, pausedUntil, drainTimer, timerHolds,
                   clock, draining>>

\* The setTimeout callback: never early, possibly late.
DrainTimerFires == /\ ~draining
                   /\ drainTimer # 0
                   /\ drainTimer <= clock
                   /\ drainTimer' = 0
                   /\ timerHolds' = FALSE
                   /\ draining' = TRUE
                   /\ UNCHANGED <<capacity, inFlight, queued, pausedUntil, clock>>

\* One iteration of the loop: splice the first admissible job, start it.
DrainNext ==
    /\ draining
    /\ \E i \in DOMAIN queued :
          /\ NextAdmissible(i)
          /\ queued' = RemoveAt(queued, i)
          /\ StartRuns(queued[i]) \/ StartDeclines(queued[i])
    /\ UNCHANGED <<capacity, pausedUntil, drainTimer, timerHolds, clock, draining>>

\* No job is admissible: break, re-arm the timer.
DrainStopUnscheduled ==
    /\ draining
    /\ \A i \in DOMAIN queued : ~CanAdmit(queued[i])
    /\ draining' = FALSE
    /\ UNCHANGED <<capacity, inFlight, queued, pausedUntil, drainTimer,
                   timerHolds, clock>>
DrainStop == /\ draining
             /\ \A i \in DOMAIN queued : ~CanAdmit(queued[i])
             /\ draining' = FALSE
             /\ UNCHANGED <<capacity, inFlight, queued, pausedUntil, clock>>
             /\ ScheduleDrain

Tick == /\ clock < MaxClock
        /\ clock' = clock + 1
        /\ UNCHANGED <<capacity, inFlight, queued, pausedUntil, drainTimer,
                       timerHolds, draining>>

-----------------------------------------------------------------------------
Init == /\ capacity \in CapacityInputs \cap Nat
        /\ inFlight = {}
        /\ queued = <<>>
        /\ pausedUntil = [p \in Providers |-> 0]
        /\ drainTimer = 0
        /\ timerHolds = FALSE
        /\ clock = 0
        /\ draining = FALSE

Next == \/ \E j \in Jobs : Enqueue(j) \/ Release(j) \/ Cancel(j)
        \/ \E n \in CapacityInputs : SetCapacity(n)
        \/ \E p \in Providers, until \in 1..MaxClock : NotePressure(p, until)
        \/ DrainTimerFires
        \/ DrainNext
        \/ DrainStop
        \/ Tick

Spec == Init /\ [][Next]_vars

\* The event loop runs every pending callback and a handler to its end; time
\* passes; a worker's run always settles and its finally releases the slot.
Fairness == /\ WF_vars(DrainNext)
            /\ WF_vars(DrainStop)
            /\ SF_vars(DrainTimerFires)
            /\ WF_vars(Tick)
            /\ \A j \in Jobs : SF_vars(j \in inFlight /\ Release(j))

FairSpec == Spec /\ Fairness

-----------------------------------------------------------------------------
\* No job is lost, duplicated or both waiting and running: the drain loop,
\* the direct admit of enqueue and re-entrant starts keep one record per id.
OneRecordPerJob ==
    /\ \A i, k \in DOMAIN queued : queued[i] = queued[k] => i = k
    /\ \A i \in DOMAIN queued : queued[i] \notin inFlight

\* Between handlers a job waits only for a reason: its provider was paused,
\* or the window is full.  Every handler that could open a slot drains.
NoIdleSlot ==
    \A i \in DOMAIN queued :
        ~draining /\ CanAdmit(queued[i]) => pausedUntil[ProviderOf[queued[i]]] # 0

\* Between handlers a waiting job has something that will wake it: an armed
\* timer or a running worker whose finally drains (unless the window is 0).
SomethingWakes ==
    ~draining /\ queued # <<>> => drainTimer # 0 \/ inFlight # {} \/ capacity = 0

\* A job waiting on a pause has a timer no later than the end of that pause,
\* and the timer keeps the process alive ("Keep the process alive while jobs
\* are waiting on a pause").
PauseHasTimer ==
    \A i \in DOMAIN queued :
        ~draining /\ Paused(ProviderOf[queued[i]]) =>
            /\ drainTimer # 0
            /\ drainTimer <= pausedUntil[ProviderOf[queued[i]]]
            /\ timerHolds

\* "Drain is FIFO among currently admissible jobs": a step that starts a
\* waiting job passes over no admissible job ahead of it.
FifoAmongAdmissible ==
    [][\A i \in DOMAIN queued :
          queued[i] \in inFlight' =>
              \A k \in 1..(i - 1) : ~CanAdmit(queued[k])]_vars

\* Every waiting job starts or leaves once the window stays open: no lost wakeup
\* over pauses, cancels, resizes and overtaking by direct admits.  A capacity of
\* zero, which setCapacity accepts, starts nothing by design.
Started ==
    <>[](capacity > 0) =>
        \A j \in Jobs : (j \in Elems(queued)) ~> (j \notin Elems(queued))

\* The queue keeps the promise of AdmissionPromise.  A nested job starts past a full
\* window but, as canAdmit has it, not past a pause; BypassIsNeverFrozen is the
\* other reading.
Promise == INSTANCE AdmissionPromise WITH
               waiting <- Elems(queued), running <- inFlight,
               window <- capacity, frozen <- {p \in Providers : Paused(p)}
KeepsPromise == Promise!Spec

\* "a paused provider is skipped so it cannot block another provider": a job
\* that may start now is not left to a timer set for a later pause.
PausedProviderNeverBlocksAnother ==
    \A i \in DOMAIN queued :
        ~draining /\ CanAdmit(queued[i]) /\ drainTimer # 0 => drainTimer <= clock

\* "bypass is never frozen": no nested job waits for its provider's pause to end.
\* canAdmit looks at the pause before the bypass.
BypassIsNeverFrozen ==
    \A i \in DOMAIN queued : queued[i] \in Bypass => ~Paused(ProviderOf[queued[i]])
=============================================================================
