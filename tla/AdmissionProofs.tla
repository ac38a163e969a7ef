--------------------------- MODULE AdmissionProofs ---------------------------
(***************************************************************************)
(* TLAPS proofs about Admission, for every set of jobs and providers,      *)
(* every window and every clock bound; and about FleetRecovery, whose      *)
(* calls wait in that queue, for any number of spawn_agent calls.          *)
(***************************************************************************)
EXTENDS Admission, FleetRecovery, FiniteSetTheorems, TLAPS

-----------------------------------------------------------------------------
\* What Array.prototype.splice(index, 1) leaves of the queue.
LEMMA RemoveAtFacts ==
    ASSUME NEW s \in Seq(Jobs), NEW i \in DOMAIN s
    PROVE  /\ RemoveAt(s, i) \in Seq(Jobs)
           /\ DOMAIN RemoveAt(s, i) = 1..(Len(s) - 1)
           /\ \A k \in 1..(Len(s) - 1) :
                 /\ (IF k < i THEN k ELSE k + 1) \in DOMAIN s
                 /\ RemoveAt(s, i)[k] = s[IF k < i THEN k ELSE k + 1]
<1>1. /\ Len(s) \in Nat /\ DOMAIN s = 1..Len(s) /\ i \in 1..Len(s)
      /\ \A k \in 1..Len(s) : s[k] \in Jobs
  OBVIOUS
<1>2. \A k \in 1..(Len(s) - 1) : (IF k < i THEN k ELSE k + 1) \in 1..Len(s)
  BY <1>1
<1>3. RemoveAt(s, i) \in [1..(Len(s) - 1) -> Jobs]
  BY <1>1, <1>2 DEF RemoveAt
<1>4. Len(s) - 1 \in Nat
  BY <1>1
<1>5. RemoveAt(s, i) \in Seq(Jobs)
  BY <1>3, <1>4
<1>6. QED
  BY <1>1, <1>2, <1>3, <1>5 DEF RemoveAt

LEMMA RemoveAtKeeps ==
    ASSUME NEW s \in Seq(Jobs), NEW i \in DOMAIN s,
           NEW k \in DOMAIN RemoveAt(s, i)
    PROVE  \E m \in DOMAIN s : s[m] = RemoveAt(s, i)[k]
BY RemoveAtFacts

\* Without duplicates, splicing out position i takes exactly s[i] away.
LEMMA RemoveAtElems ==
    ASSUME NEW s \in Seq(Jobs), NEW i \in DOMAIN s,
           \A m, n \in DOMAIN s : s[m] = s[n] => m = n
    PROVE  Elems(RemoveAt(s, i)) = Elems(s) \ {s[i]}
<1>1. /\ Len(s) \in Nat /\ DOMAIN s = 1..Len(s) /\ i \in 1..Len(s)
  OBVIOUS
<1>2. ASSUME NEW e \in Elems(RemoveAt(s, i))
      PROVE  e \in Elems(s) \ {s[i]}
  <2>1. PICK k \in 1..(Len(s) - 1) : e = RemoveAt(s, i)[k]
    BY RemoveAtFacts DEF Elems
  <2>2. PICK m \in DOMAIN s : m = (IF k < i THEN k ELSE k + 1) /\ e = s[m]
    BY <2>1, RemoveAtFacts
  <2>3. m # i
    BY <1>1, <2>1, <2>2
  <2>4. QED
    BY <2>2, <2>3 DEF Elems
<1>3. ASSUME NEW e \in Elems(s) \ {s[i]}
      PROVE  e \in Elems(RemoveAt(s, i))
  <2>1. PICK m \in DOMAIN s : e = s[m] /\ m # i
    BY DEF Elems
  <2>2. PICK k \in 1..(Len(s) - 1) : m = IF k < i THEN k ELSE k + 1
    <3>1. CASE m < i
      <4>1. m \in 1..(Len(s) - 1) /\ m = IF m < i THEN m ELSE m + 1
        BY <1>1, <3>1
      <4>2. QED
        BY <4>1
    <3>2. CASE m > i
      <4>1. /\ m - 1 \in 1..(Len(s) - 1)
            /\ m = IF m - 1 < i THEN m - 1 ELSE (m - 1) + 1
        BY <1>1, <3>2
      <4>2. QED
        BY <4>1
    <3>3. QED
      BY <1>1, <2>1, <3>1, <3>2
  <2>3. e = RemoveAt(s, i)[k]
    BY <2>1, <2>2, RemoveAtFacts, ZenonT(60)
  <2>4. QED
    BY <2>3, RemoveAtFacts DEF Elems
<1>4. QED
  BY <1>2, <1>3

LEMMA AppendElems ==
    ASSUME NEW s \in Seq(Jobs), NEW j \in Jobs
    PROVE  /\ Append(s, j) \in Seq(Jobs)
           /\ Elems(Append(s, j)) = Elems(s) \cup {j}
<1>1. /\ Append(s, j) \in Seq(Jobs)
      /\ Len(s) \in Nat
      /\ DOMAIN s = 1..Len(s)
      /\ DOMAIN Append(s, j) = 1..(Len(s) + 1)
      /\ \A k \in 1..Len(s) : Append(s, j)[k] = s[k]
      /\ Append(s, j)[Len(s) + 1] = j
  OBVIOUS
<1>2. 1..(Len(s) + 1) = (1..Len(s)) \cup {Len(s) + 1}
  BY <1>1
<1>3. QED
  BY <1>1, <1>2 DEF Elems

\* scheduleDrain only ever arms the timer for the end of an open pause.
LEMMA ScheduleDrainType ==
    ASSUME TypeOK, ScheduleDrain
    PROVE  drainTimer' \in Nat /\ timerHolds' \in BOOLEAN
<1>1. OpenPauses \subseteq Nat
  BY DEF TypeOK, OpenPauses
<1>2. drainTimer' = 0 \/ drainTimer' \in OpenPauses
  BY Zenon DEF ScheduleDrain
<1>3. drainTimer' \in Nat
  <2>1. 0 \in Nat
    OBVIOUS
  <2>2. QED
    BY Zenon, <1>1, <1>2, <2>1
<1>4. timerHolds' \in BOOLEAN
  BY Zenon DEF ScheduleDrain
<1>5. QED
  BY Zenon, <1>3, <1>4

-----------------------------------------------------------------------------
\* Type correctness of the queue's state.
THEOREM TypeCorrect == Spec => []TypeOK
<1>1. Init => TypeOK
  <2> SUFFICES ASSUME Init PROVE TypeOK
    OBVIOUS
  <2>1. capacity \in Nat /\ drainTimer \in Nat /\ clock \in Nat
    BY DEF Init
  <2>2. inFlight \in SUBSET Jobs /\ pausedUntil \in [Providers -> Nat]
    BY DEF Init
  <2>3. queued \in Seq(Jobs)
    BY DEF Init
  <2>4. timerHolds \in BOOLEAN /\ draining \in BOOLEAN
    BY DEF Init
  <2>5. QED
    BY <2>1, <2>2, <2>3, <2>4 DEF TypeOK
<1>2. TypeOK /\ [Next]_vars => TypeOK'
  <2> SUFFICES ASSUME TypeOK, [Next]_vars PROVE TypeOK'
    OBVIOUS
  <2>1. ASSUME NEW j \in Jobs, Enqueue(j) PROVE TypeOK'
    <3>1. CASE EnqueueKnown(j)
      BY <3>1 DEF EnqueueKnown, vars, TypeOK
    <3>2. CASE EnqueueAdmit(j)
      BY <3>2 DEF EnqueueAdmit, StartRuns, StartDeclines, TypeOK
    <3>3. CASE EnqueueWait(j)
      <4>1. queued' \in Seq(Jobs)
        BY <3>3, AppendElems DEF EnqueueWait, TypeOK
      <4>2. drainTimer' \in Nat /\ timerHolds' \in BOOLEAN
        BY <3>3, ScheduleDrainType DEF EnqueueWait
      <4>3. QED
        BY <3>3, <4>1, <4>2 DEF EnqueueWait, TypeOK
    <3>4. QED
      BY <2>1, <3>1, <3>2, <3>3 DEF Enqueue
  <2>2. ASSUME NEW j \in Jobs, Release(j) PROVE TypeOK'
    BY <2>2 DEF Release, TypeOK
  <2>3. ASSUME NEW j \in Jobs, Cancel(j) PROVE TypeOK'
    <3>1. PICK i \in DOMAIN queued : queued' = RemoveAt(queued, i)
      BY <2>3 DEF Cancel
    <3>2. queued' \in Seq(Jobs)
      BY <3>1, RemoveAtFacts DEF TypeOK
    <3>3. QED
      BY <2>3, <3>2 DEF Cancel, TypeOK
  <2>4. ASSUME NEW n \in CapacityInputs, SetCapacity(n) PROVE TypeOK'
    BY <2>4, ConstantsAssumption DEF SetCapacity, TypeOK
  <2>5. ASSUME NEW p \in Providers, NEW until \in 1..MaxClock,
               NotePressure(p, until)
        PROVE  TypeOK'
    BY <2>5, ConstantsAssumption DEF NotePressure, TypeOK
  <2>6. CASE DrainTimerFires
    BY <2>6 DEF DrainTimerFires, TypeOK
  <2>7. CASE DrainNext
    <3>1. PICK i \in DOMAIN queued :
             /\ queued' = RemoveAt(queued, i)
             /\ StartRuns(queued[i]) \/ StartDeclines(queued[i])
      BY <2>7 DEF DrainNext
    <3>2. queued' \in Seq(Jobs) /\ queued[i] \in Jobs
      BY <3>1, RemoveAtFacts DEF TypeOK
    <3>3. inFlight' \in SUBSET Jobs
      BY <3>1, <3>2 DEF StartRuns, StartDeclines, TypeOK
    <3>4. QED
      BY <2>7, <3>2, <3>3 DEF DrainNext, TypeOK
  <2>8. CASE DrainStop
    BY <2>8, ScheduleDrainType DEF DrainStop, TypeOK
  <2>9. CASE Tick
    BY <2>9 DEF Tick, TypeOK
  <2>10. CASE UNCHANGED vars
    BY <2>10 DEF vars, TypeOK
  <2>11. QED
    BY <2>1, <2>2, <2>3, <2>4, <2>5, <2>6, <2>7, <2>8, <2>9, <2>10 DEF Next
<1>3. QED
  BY <1>1, <1>2, PTL DEF Spec

-----------------------------------------------------------------------------
\* One record per id: the waiting jobs are distinct and hold no slot.
THEOREM OneRecord == Spec => []OneRecordPerJob
<1>1. Init => OneRecordPerJob
  BY DEF Init, OneRecordPerJob
<1>2. TypeOK /\ OneRecordPerJob /\ [Next]_vars => OneRecordPerJob'
  <2> SUFFICES ASSUME TypeOK, OneRecordPerJob, [Next]_vars
               PROVE  OneRecordPerJob'
    OBVIOUS
  <2>1. ASSUME UNCHANGED queued, inFlight' \subseteq inFlight
        PROVE  OneRecordPerJob'
    BY <2>1 DEF OneRecordPerJob
  <2>2. ASSUME NEW i \in DOMAIN queued, queued' = RemoveAt(queued, i),
               inFlight' \subseteq inFlight \cup {queued[i]}
        PROVE  OneRecordPerJob'
    <3>1. /\ Len(queued) \in Nat
          /\ DOMAIN queued = 1..Len(queued)
          /\ DOMAIN queued' = 1..(Len(queued) - 1)
      BY <2>2, RemoveAtFacts DEF TypeOK
    <3>2. ASSUME NEW k \in DOMAIN queued'
          PROVE  /\ (IF k < i THEN k ELSE k + 1) \in DOMAIN queued
                 /\ (IF k < i THEN k ELSE k + 1) # i
                 /\ queued'[k] = queued[IF k < i THEN k ELSE k + 1]
      <4>1. k \in 1..(Len(queued) - 1) /\ queued \in Seq(Jobs)
        BY <3>1 DEF TypeOK
      <4>2. /\ (IF k < i THEN k ELSE k + 1) \in DOMAIN queued
            /\ queued'[k] = queued[IF k < i THEN k ELSE k + 1]
        BY <2>2, <4>1, RemoveAtFacts
      <4>3. (IF k < i THEN k ELSE k + 1) # i
        BY <3>1, <4>1
      <4>4. QED
        BY <4>2, <4>3
    <3>3. ASSUME NEW k \in DOMAIN queued', NEW m \in DOMAIN queued',
                 queued'[k] = queued'[m]
          PROVE  k = m
      <4>1. (IF k < i THEN k ELSE k + 1) = (IF m < i THEN m ELSE m + 1)
        BY <3>2, <3>3 DEF OneRecordPerJob
      <4>2. QED
        BY <3>1, <4>1
    <3>4. ASSUME NEW k \in DOMAIN queued'
          PROVE  queued'[k] \notin inFlight'
      BY <2>2, <3>2 DEF OneRecordPerJob
    <3>5. QED
      BY <3>3, <3>4 DEF OneRecordPerJob
  <2>3. ASSUME NEW j \in Jobs, Enqueue(j) PROVE OneRecordPerJob'
    <3>1. CASE EnqueueKnown(j)
      BY <2>1, <3>1 DEF EnqueueKnown, vars
    <3>2. CASE EnqueueAdmit(j)
      BY <3>2 DEF EnqueueAdmit, StartRuns, StartDeclines, OneRecordPerJob, Elems
    <3>3. CASE EnqueueWait(j)
      <4>1. /\ Len(queued) \in Nat
            /\ DOMAIN queued = 1..Len(queued)
            /\ DOMAIN queued' = 1..(Len(queued) + 1)
            /\ \A k \in 1..Len(queued) : queued'[k] = queued[k]
            /\ queued'[Len(queued) + 1] = j
        BY <3>3 DEF EnqueueWait, TypeOK
      <4>2. j \notin inFlight /\ \A k \in DOMAIN queued : queued[k] # j
        BY <3>3 DEF EnqueueWait, Elems
      <4>3. \A k \in DOMAIN queued' : k \in DOMAIN queued \/ k = Len(queued) + 1
        BY <4>1
      <4>4. inFlight' = inFlight
        BY <3>3 DEF EnqueueWait
      <4>5. \A k \in DOMAIN queued' : queued'[k] \notin inFlight'
        BY <4>1, <4>2, <4>3, <4>4 DEF OneRecordPerJob
      <4>6. \A k, m \in DOMAIN queued' : queued'[k] = queued'[m] => k = m
        BY <4>1, <4>2, <4>3 DEF OneRecordPerJob
      <4>7. QED
        BY <4>5, <4>6 DEF OneRecordPerJob
    <3>4. QED
      BY <2>3, <3>1, <3>2, <3>3 DEF Enqueue
  <2>4. ASSUME NEW j \in Jobs, Release(j) PROVE OneRecordPerJob'
    BY <2>1, <2>4 DEF Release
  <2>5. ASSUME NEW j \in Jobs, Cancel(j) PROVE OneRecordPerJob'
    BY <2>2, <2>5 DEF Cancel
  <2>6. CASE DrainNext
    <3>1. PICK i \in DOMAIN queued :
             /\ queued' = RemoveAt(queued, i)
             /\ StartRuns(queued[i]) \/ StartDeclines(queued[i])
      BY <2>6 DEF DrainNext
    <3>2. inFlight' \subseteq inFlight \cup {queued[i]}
      BY <3>1 DEF StartRuns, StartDeclines
    <3>3. QED
      BY <2>2, <3>1, <3>2
  <2>7. CASE DrainStop
    BY <2>1, <2>7 DEF DrainStop
  <2>8. ASSUME NEW n \in CapacityInputs, SetCapacity(n) PROVE OneRecordPerJob'
    BY <2>1, <2>8 DEF SetCapacity
  <2>9. ASSUME NEW p \in Providers, NEW until \in 1..MaxClock,
               NotePressure(p, until)
        PROVE  OneRecordPerJob'
    BY <2>1, <2>9 DEF NotePressure
  <2>10. CASE DrainTimerFires
    BY <2>1, <2>10 DEF DrainTimerFires
  <2>11. CASE Tick
    BY <2>1, <2>11 DEF Tick
  <2>12. CASE UNCHANGED vars
    BY <2>1, <2>12 DEF vars
  <2>13. QED
    BY <2>3, <2>4, <2>5, <2>6, <2>7, <2>8, <2>9, <2>10, <2>11, <2>12 DEF Next
<1>3. QED
  BY <1>1, <1>2, TypeCorrect, PTL DEF Spec

-----------------------------------------------------------------------------
\* Only finitely many slots are ever taken, whatever the set of jobs.
THEOREM FiniteSlots == Spec => []IsFiniteSet(inFlight)
<1>1. Init => IsFiniteSet(inFlight)
  BY FS_EmptySet DEF Init
<1>2. IsFiniteSet(inFlight) /\ [Next]_vars => IsFiniteSet(inFlight)'
  <2> SUFFICES ASSUME IsFiniteSet(inFlight), [Next]_vars
               PROVE  IsFiniteSet(inFlight')
    OBVIOUS
  <2>1. (\E j : inFlight' = inFlight \cup {j} \/ inFlight' = inFlight \ {j})
        \/ inFlight' = inFlight
    BY DEF Next, vars, Enqueue, EnqueueKnown, EnqueueAdmit, EnqueueWait, Release,
           Cancel, SetCapacity, NotePressure, DrainTimerFires, DrainNext,
           DrainStop, Tick, StartRuns, StartDeclines
  <2>2. ASSUME NEW j PROVE IsFiniteSet(inFlight \cup {j}) /\ IsFiniteSet(inFlight \ {j})
    BY FS_AddElement, FS_RemoveElement
  <2>3. QED
    BY <2>1, <2>2
<1>3. QED
  BY <1>1, <1>2, PTL DEF Spec

\* now() never runs backwards.
LEMMA ClockNeverBack ==
    ASSUME TypeOK, [Next]_vars
    PROVE  clock' \in Nat /\ clock' >= clock
<1>1. clock' = clock \/ clock' = clock + 1
  BY DEF Next, vars, Enqueue, EnqueueKnown, EnqueueAdmit, EnqueueWait, Release,
         Cancel, SetCapacity, NotePressure, DrainTimerFires, DrainNext,
         DrainStop, Tick
<1>2. QED
  BY <1>1 DEF TypeOK

\* After scheduleDrain every open pause has a timer that is early enough.
LEMMA ScheduleDrainArms ==
    ASSUME TypeOK, ScheduleDrain, NEW p \in Providers, Paused(p)
    PROVE  /\ drainTimer' # 0
           /\ drainTimer' <= pausedUntil[p]
           /\ timerHolds' = (queued' # <<>>)
<1>1. pausedUntil[p] \in OpenPauses
  BY DEF OpenPauses
<1>2. /\ drainTimer' \in OpenPauses
      /\ \A u \in OpenPauses : drainTimer' <= u
      /\ timerHolds' = (queued' # <<>>)
  BY Zenon, <1>1 DEF ScheduleDrain
<1>3. \A u \in OpenPauses : u # 0
  BY DEF OpenPauses, Paused, TypeOK
<1>4. QED
  BY Zenon, <1>1, <1>2, <1>3

\* Between handlers a waiting job always has a timer or a worker to wake it.
THEOREM WakesUp == Spec => []SomethingWakes
<1>1. Init => SomethingWakes
  BY DEF Init, SomethingWakes
<1>2. TypeOK /\ SomethingWakes /\ [Next]_vars => SomethingWakes'
  <2> SUFFICES ASSUME TypeOK, SomethingWakes, [Next]_vars,
                      ~draining', queued' # <<>>, capacity' # 0
               PROVE  drainTimer' # 0 \/ inFlight' # {}
    BY DEF SomethingWakes
  <2>1. ASSUME NEW j \in Jobs, ~CanAdmit(j), ScheduleDrain,
               UNCHANGED <<inFlight, capacity>>
        PROVE  drainTimer' # 0 \/ inFlight' # {}
    <3>1. CASE Paused(ProviderOf[j])
      <4>1. ProviderOf[j] \in Providers
        BY ConstantsAssumption
      <4>2. QED
        BY <2>1, <3>1, <4>1, ScheduleDrainArms
    <3>2. CASE ~Paused(ProviderOf[j])
      <4>1. ~(Cardinality(inFlight) < capacity)
        BY <2>1, <3>2 DEF CanAdmit, HasRoom
      <4>2. capacity \in Nat /\ capacity # 0
        BY <2>1 DEF TypeOK
      <4>3. inFlight # {}
        <5>1. Cardinality({}) < capacity
          BY <4>2, FS_EmptySet
        <5>2. QED
          BY Zenon, <4>1, <5>1
      <4>4. QED
        BY <2>1, <4>3
    <3>3. QED
      BY <3>1, <3>2
  <2>2. CASE DrainStop
    <3>1. PICK i \in DOMAIN queued : TRUE
      BY <2>2 DEF DrainStop, TypeOK
    <3>2. queued[i] \in Jobs /\ ~CanAdmit(queued[i])
      BY <2>2, <3>1 DEF DrainStop, TypeOK
    <3>3. QED
      BY <2>1, <2>2, <3>2 DEF DrainStop
  <2>3. ASSUME NEW j \in Jobs, Enqueue(j)
        PROVE  drainTimer' # 0 \/ inFlight' # {}
    <3>1. CASE EnqueueKnown(j)
      BY <3>1 DEF EnqueueKnown, vars, SomethingWakes
    <3>2. CASE EnqueueAdmit(j)
      BY <3>2 DEF EnqueueAdmit, StartRuns
    <3>3. CASE EnqueueWait(j)
      BY <2>1, <3>3 DEF EnqueueWait
    <3>4. QED
      BY <2>3, <3>1, <3>2, <3>3 DEF Enqueue
  <2>4. ASSUME NEW j \in Jobs, Cancel(j)
        PROVE  drainTimer' # 0 \/ inFlight' # {}
    <3>1. queued # <<>>
      BY <2>4 DEF Cancel
    <3>2. QED
      BY <2>4, <3>1 DEF Cancel, SomethingWakes
  <2>5. CASE Tick
    BY <2>5 DEF Tick, SomethingWakes
  <2>6. CASE UNCHANGED vars
    BY <2>6 DEF vars, SomethingWakes
  <2>7. QED
    BY <2>2, <2>3, <2>4, <2>5, <2>6
       DEF Next, Release, SetCapacity, NotePressure, DrainTimerFires, DrainNext
<1>3. QED
  BY <1>1, <1>2, TypeCorrect, PTL DEF Spec

\* A job waiting on a pause is woken by the end of that pause at the latest.
THEOREM PauseTimers == Spec => []PauseHasTimer
<1>1. Init => PauseHasTimer
  BY DEF Init, PauseHasTimer
<1>2. TypeOK /\ PauseHasTimer /\ [Next]_vars => PauseHasTimer'
  <2> SUFFICES ASSUME TypeOK, PauseHasTimer, [Next]_vars, ~draining',
                      NEW q \in DOMAIN queued',
                      clock' < pausedUntil'[ProviderOf[queued'[q]]]
               PROVE  /\ drainTimer' # 0
                      /\ drainTimer' <= pausedUntil'[ProviderOf[queued'[q]]]
                      /\ timerHolds'
    BY Zenon DEF PauseHasTimer, Paused
  <2> DEFINE Armed == /\ drainTimer' # 0
                      /\ drainTimer' <= pausedUntil'[ProviderOf[queued'[q]]]
                      /\ timerHolds'
  \* A job that was waiting already, under an unchanged timer.
  <2>1. ASSUME UNCHANGED <<drainTimer, timerHolds, pausedUntil>>, ~draining,
               NEW i \in DOMAIN queued, queued[i] = queued'[q], clock' >= clock
        PROVE  Armed
    <3>1. /\ ProviderOf[queued[i]] \in Providers
          /\ pausedUntil[ProviderOf[queued[i]]] \in Nat /\ clock \in Nat
      BY ConstantsAssumption DEF TypeOK
    <3>2. Paused(ProviderOf[queued[i]])
      <4>1. clock' < pausedUntil[ProviderOf[queued[i]]]
        BY <2>1 DEF Paused
      <4>2. clock' \in Int
        BY <3>1, ClockNeverBack
      <4>3. QED
        BY <2>1, <3>1, <4>1, <4>2 DEF Paused
    <3>3. QED
      BY Zenon, <2>1, <3>2 DEF PauseHasTimer
  \* The timer was just scheduled.
  <2>2. ASSUME ScheduleDrain, queued'[q] \in Jobs, UNCHANGED <<pausedUntil, clock>>,
               queued' # <<>>
        PROVE  Armed
    <3>1. ProviderOf[queued'[q]] \in Providers
      BY <2>2, ConstantsAssumption
    <3>2. Paused(ProviderOf[queued'[q]])
      BY <2>2 DEF Paused
    <3>3. /\ drainTimer' # 0
          /\ drainTimer' <= pausedUntil[ProviderOf[queued'[q]]]
          /\ timerHolds' = (queued' # <<>>)
      BY Zenon, <2>2, <3>1, <3>2, ScheduleDrainArms
    <3>4. QED
      BY Zenon, <2>2, <3>3
  <2>3. CASE DrainStop
    BY <2>2, <2>3 DEF DrainStop, TypeOK
  <2>4. ASSUME NEW j \in Jobs, Enqueue(j) PROVE Armed
    <3>1. CASE EnqueueKnown(j)
      BY <2>1, <2>4, <3>1 DEF EnqueueKnown, vars, Enqueue, TypeOK
    <3>2. CASE EnqueueAdmit(j)
      BY <2>1, <2>4, <3>2 DEF EnqueueAdmit, Enqueue, TypeOK
    <3>3. CASE EnqueueWait(j)
      <4>1. queued'[q] \in Jobs /\ queued' # <<>>
        BY <3>3 DEF EnqueueWait, TypeOK
      <4>2. QED
        BY <2>2, <3>3, <4>1 DEF EnqueueWait
    <3>4. QED
      BY <2>4, <3>1, <3>2, <3>3 DEF Enqueue
  <2>5. ASSUME NEW j \in Jobs, Cancel(j) PROVE Armed
    <3>1. PICK i \in DOMAIN queued : queued' = RemoveAt(queued, i)
      BY <2>5 DEF Cancel
    <3>2. \E m \in DOMAIN queued : queued[m] = queued'[q]
      BY <3>1, RemoveAtKeeps DEF TypeOK
    <3>3. QED
      BY <2>1, <2>5, <3>2 DEF Cancel, TypeOK
  <2>6. CASE Tick
    BY <2>1, <2>6 DEF Tick, TypeOK
  <2>7. CASE UNCHANGED vars
    BY <2>1, <2>7 DEF vars, TypeOK
  <2>8. QED
    BY <2>3, <2>4, <2>5, <2>6, <2>7
       DEF Next, Release, SetCapacity, NotePressure, DrainTimerFires, DrainNext
<1>3. QED
  BY <1>1, <1>2, TypeCorrect, PTL DEF Spec

\* One more occupied slot never makes room.
LEMMA RoomShrinks ==
    ASSUME TypeOK, IsFiniteSet(inFlight), NEW j,
           Cardinality(inFlight \cup {j}) < capacity
    PROVE  HasRoom
<1>1. /\ Cardinality(inFlight) \in Nat
      /\ \/ Cardinality(inFlight \cup {j}) = Cardinality(inFlight)
         \/ Cardinality(inFlight \cup {j}) = Cardinality(inFlight) + 1
  BY FS_CardinalityType, FS_AddElement
<1>2. QED
  BY <1>1 DEF HasRoom, TypeOK

\* Between handlers an admissible job waits only after a lapsed pause: every
\* handler that can open a slot has drained.
THEOREM NoSlotIdles == Spec => []NoIdleSlot
<1>1. Init => NoIdleSlot
  BY DEF Init, NoIdleSlot
<1>2. TypeOK /\ IsFiniteSet(inFlight) /\ NoIdleSlot /\ [Next]_vars => NoIdleSlot'
  <2> SUFFICES ASSUME TypeOK, IsFiniteSet(inFlight), NoIdleSlot, [Next]_vars,
                      ~draining', NEW q \in DOMAIN queued',
                      pausedUntil'[ProviderOf[queued'[q]]] = 0,
                      queued'[q] \in Bypass \/ Cardinality(inFlight') < capacity'
               PROVE  FALSE
    BY Zenon DEF NoIdleSlot, CanAdmit, HasRoom
  \* A job that was waiting already gains nothing from this step.
  <2>1. ASSUME ~draining, UNCHANGED <<pausedUntil, capacity>>,
               \/ inFlight' = inFlight
               \/ \E j : inFlight' = inFlight \cup {j},
               NEW i \in DOMAIN queued, queued[i] = queued'[q]
        PROVE  FALSE
    <3>1. queued[i] \in Bypass \/ HasRoom
      <4>1. CASE queued'[q] \in Bypass
        BY <2>1, <4>1
      <4>2. CASE Cardinality(inFlight') < capacity'
        <5>1. CASE inFlight' = inFlight
          BY Zenon, <2>1, <4>2, <5>1 DEF HasRoom
        <5>2. CASE \E j : inFlight' = inFlight \cup {j}
          BY <2>1, <4>2, <5>2, RoomShrinks
        <5>3. QED
          BY <2>1, <5>1, <5>2
      <4>3. QED
        BY <4>1, <4>2
    <3>2. ~Paused(ProviderOf[queued[i]])
      BY <2>1 DEF Paused, TypeOK
    <3>3. QED
      BY <2>1, <3>1, <3>2 DEF NoIdleSlot, CanAdmit
  <2>2. CASE DrainStop
    <3>1. ~CanAdmit(queued'[q]) /\ UNCHANGED <<pausedUntil, inFlight, capacity, clock>>
      BY <2>2 DEF DrainStop
    <3>2. ~Paused(ProviderOf[queued'[q]])
      BY <3>1 DEF Paused, TypeOK
    <3>3. QED
      BY <3>1, <3>2 DEF CanAdmit, HasRoom
  <2>3. ASSUME NEW j \in Jobs, Enqueue(j) PROVE FALSE
    <3>1. CASE EnqueueKnown(j)
      BY <2>1, <2>3, <3>1 DEF EnqueueKnown, vars, Enqueue
    <3>2. CASE EnqueueAdmit(j)
      BY <2>1, <2>3, <3>2 DEF EnqueueAdmit, StartRuns, Enqueue
    <3>3. CASE EnqueueWait(j)
      <4>1. queued'[q] = j \/ \E i \in DOMAIN queued : queued[i] = queued'[q]
        <5>1. queued'[q] \in Elems(queued) \cup {j}
          BY <3>3, AppendElems DEF EnqueueWait, TypeOK, Elems
        <5>2. QED
          BY <5>1 DEF Elems
      <4>2. CASE queued'[q] = j
        <5>1. ~CanAdmit(j) /\ UNCHANGED <<pausedUntil, inFlight, capacity, clock>>
          BY <3>3 DEF EnqueueWait
        <5>2. ~Paused(ProviderOf[j])
          BY <4>2, <5>1 DEF Paused, TypeOK
        <5>3. QED
          BY <4>2, <5>1, <5>2 DEF CanAdmit, HasRoom
      <4>3. CASE \E i \in DOMAIN queued : queued[i] = queued'[q]
        BY <2>1, <2>3, <3>3, <4>3 DEF EnqueueWait, Enqueue
      <4>4. QED
        BY <4>1, <4>2, <4>3
    <3>4. QED
      BY <2>3, <3>1, <3>2, <3>3 DEF Enqueue
  <2>4. ASSUME NEW j \in Jobs, Cancel(j) PROVE FALSE
    <3>1. PICK i \in DOMAIN queued : queued' = RemoveAt(queued, i)
      BY <2>4 DEF Cancel
    <3>2. \E m \in DOMAIN queued : queued[m] = queued'[q]
      BY <3>1, RemoveAtKeeps DEF TypeOK
    <3>3. QED
      BY <2>1, <2>4, <3>2 DEF Cancel
  <2>5. CASE Tick
    BY <2>1, <2>5 DEF Tick
  <2>6. CASE UNCHANGED vars
    BY <2>1, <2>6 DEF vars
  <2>7. QED
    BY <2>2, <2>3, <2>4, <2>5, <2>6
       DEF Next, Release, SetCapacity, NotePressure, DrainTimerFires, DrainNext
<1>3. QED
  BY <1>1, <1>2, TypeCorrect, FiniteSlots, PTL DEF Spec

-----------------------------------------------------------------------------
\* drain() starts the first admissible job of the queue: nobody who could start is
\* passed over, in a direct admit either, which is for a job that never waited.
THEOREM DrainsInOrder == Spec => FifoAmongAdmissible
<1> DEFINE InOrder == \A i \in DOMAIN queued :
                         queued[i] \in inFlight' =>
                             \A k \in 1..(i - 1) : ~CanAdmit(queued[k])
<1>1. TypeOK /\ OneRecordPerJob /\ [Next]_vars => [InOrder]_vars
  <2> SUFFICES ASSUME TypeOK, OneRecordPerJob, [Next]_vars,
                      NEW i \in DOMAIN queued, queued[i] \in inFlight'
               PROVE  \A k \in 1..(i - 1) : ~CanAdmit(queued[k])
    OBVIOUS
  <2>1. queued[i] \notin inFlight
    BY DEF OneRecordPerJob
  <2>2. CASE DrainNext
    <3>1. PICK n \in DOMAIN queued :
             NextAdmissible(n) /\ (StartRuns(queued[n]) \/ StartDeclines(queued[n]))
      BY <2>2 DEF DrainNext
    <3>2. queued[i] = queued[n]
      BY <2>1, <3>1 DEF StartRuns, StartDeclines
    <3>3. i = n
      BY <3>1, <3>2 DEF OneRecordPerJob
    <3>4. QED
      BY <3>1, <3>3 DEF NextAdmissible
  <2>3. ASSUME NEW j \in Jobs, Enqueue(j) PROVE FALSE
    <3>1. inFlight' \subseteq inFlight \/ (inFlight' = inFlight \cup {j} /\ j \notin Elems(queued))
      BY <2>3 DEF Enqueue, EnqueueKnown, EnqueueAdmit, EnqueueWait, StartRuns, StartDeclines, vars
    <3>2. queued[i] \in Elems(queued)
      BY DEF Elems
    <3>3. QED
      BY <2>1, <3>1, <3>2
  <2>4. ASSUME inFlight' \subseteq inFlight PROVE FALSE
    BY <2>1, <2>4
  <2>5. QED
    BY <2>2, <2>3, <2>4
       DEF Next, Release, Cancel, SetCapacity, NotePressure, DrainTimerFires, DrainStop, Tick, vars
<1>2. QED
  BY <1>1, TypeCorrect, OneRecord, PTL DEF Spec, FifoAmongAdmissible

-----------------------------------------------------------------------------
\* The queue implements AdmissionPromise: a step of the queue is one step of
\* the promise, or none.
THEOREM Implements == Spec => KeepsPromise
<1>1. Init => Promise!Init
  BY ConstantsAssumption DEF Init, Promise!Init, Elems, Paused
<1>2. TypeOK /\ OneRecordPerJob /\ [Next]_vars => [Promise!Next]_(Promise!pvars)
  <2> SUFFICES ASSUME TypeOK, OneRecordPerJob, [Next]_vars
               PROVE  Promise!Next \/ UNCHANGED Promise!pvars
    OBVIOUS
  <2>1. \A j \in Jobs : CanAdmit(j) <=> Promise!MayStart(j)
    <3> SUFFICES ASSUME NEW j \in Jobs PROVE CanAdmit(j) <=> Promise!MayStart(j)
      OBVIOUS
    <3>1. Paused(ProviderOf[j]) <=> ProviderOf[j] \in {p \in Providers : Paused(p)}
      BY ConstantsAssumption
    <3>2. QED
      BY Zenon, <3>1 DEF CanAdmit, HasRoom, Promise!MayStart, Cardinality, Promise!Cardinality
  <2>2. ASSUME UNCHANGED <<queued, inFlight, capacity, pausedUntil, clock>>
        PROVE  UNCHANGED Promise!pvars
    BY <2>2 DEF Promise!pvars, Elems, Paused
  <2>3. ASSUME UNCHANGED <<queued, inFlight, capacity>> PROVE Promise!Freeze
    BY <2>3 DEF Promise!Freeze, Elems
  <2>4. ASSUME NEW i \in DOMAIN queued, queued' = RemoveAt(queued, i)
        PROVE  /\ queued[i] \in Jobs
               /\ queued[i] \in Elems(queued)
               /\ queued[i] \notin inFlight
               /\ Elems(queued') = Elems(queued) \ {queued[i]}
    <3>1. queued \in Seq(Jobs) /\ queued[i] \in Jobs
      BY DEF TypeOK
    <3>2. queued[i] \in Elems(queued) /\ queued[i] \notin inFlight
      BY DEF OneRecordPerJob, Elems
    <3>3. Elems(queued') = Elems(queued) \ {queued[i]}
      BY <2>4, <3>1, RemoveAtElems DEF OneRecordPerJob
    <3>4. QED
      BY <3>1, <3>2, <3>3
  <2>5. ASSUME NEW j \in Jobs, Enqueue(j)
        PROVE  Promise!Next \/ UNCHANGED Promise!pvars
    <3>1. CASE EnqueueKnown(j)
      BY <2>2, <3>1 DEF EnqueueKnown, vars
    <3>2. CASE EnqueueAdmit(j) /\ StartRuns(j)
      <4>1. Promise!Start(j)
        BY <2>1, <3>2 DEF EnqueueAdmit, StartRuns, Promise!Start, Elems, Paused
      <4>2. QED
        BY <4>1 DEF Promise!Next
    <3>3. CASE EnqueueAdmit(j) /\ StartDeclines(j)
      <4>1. inFlight' = inFlight
        BY <3>3 DEF EnqueueAdmit, StartDeclines
      <4>2. QED
        BY <2>2, <3>3, <4>1 DEF EnqueueAdmit
    <3>4. CASE EnqueueWait(j)
      <4>1. Elems(queued') = Elems(queued) \cup {j}
        BY <3>4, AppendElems DEF EnqueueWait, TypeOK
      <4>2. Promise!Ask(j)
        BY <2>1, <3>4, <4>1 DEF EnqueueWait, Promise!Ask, Paused
      <4>3. QED
        BY <4>2 DEF Promise!Next
    <3>5. QED
      BY <2>5, <3>1, <3>2, <3>3, <3>4 DEF Enqueue, EnqueueAdmit
  <2>6. ASSUME NEW j \in Jobs, Release(j)
        PROVE  Promise!Next \/ UNCHANGED Promise!pvars
    <3>1. CASE j \in inFlight
      <4>1. Promise!Finish(j)
        BY <2>6, <3>1 DEF Release, Promise!Finish, Elems, Paused
      <4>2. QED
        BY <4>1 DEF Promise!Next
    <3>2. CASE j \notin inFlight
      <4>1. inFlight' = inFlight
        BY <2>6, <3>2 DEF Release
      <4>2. QED
        BY <2>2, <2>6, <4>1 DEF Release
    <3>3. QED
      BY <3>1, <3>2
  <2>7. ASSUME NEW j \in Jobs, Cancel(j)
        PROVE  Promise!Next \/ UNCHANGED Promise!pvars
    <3>1. PICK i \in DOMAIN queued : queued[i] = j /\ queued' = RemoveAt(queued, i)
      BY <2>7 DEF Cancel
    <3>2. Promise!Leave(j)
      BY <2>4, <2>7, <3>1 DEF Cancel, Promise!Leave, Paused
    <3>3. QED
      BY <3>2 DEF Promise!Next
  <2>8. ASSUME NEW n \in CapacityInputs, SetCapacity(n)
        PROVE  Promise!Next \/ UNCHANGED Promise!pvars
    <3>1. Promise!Resize
      BY <2>8, ConstantsAssumption DEF SetCapacity, Promise!Resize, Elems, Paused
    <3>2. QED
      BY <3>1 DEF Promise!Next
  <2>9. ASSUME NEW p \in Providers, NEW until \in 1..MaxClock,
               NotePressure(p, until)
        PROVE  Promise!Next \/ UNCHANGED Promise!pvars
    BY <2>3, <2>9 DEF NotePressure, Promise!Next
  <2>10. CASE DrainTimerFires
    BY <2>2, <2>10 DEF DrainTimerFires
  <2>11. CASE DrainNext
    <3>1. PICK i \in DOMAIN queued :
             /\ CanAdmit(queued[i])
             /\ queued' = RemoveAt(queued, i)
             /\ StartRuns(queued[i]) \/ StartDeclines(queued[i])
      BY <2>11 DEF DrainNext, NextAdmissible
    <3>2. CASE StartRuns(queued[i])
      <4>1. Promise!Start(queued[i])
        BY <2>1, <2>4, <2>11, <3>1, <3>2
           DEF DrainNext, StartRuns, Promise!Start, Paused
      <4>2. QED
        BY <2>4, <3>1, <4>1 DEF Promise!Next
    <3>3. CASE StartDeclines(queued[i])
      <4>1. Promise!Leave(queued[i])
        BY <2>4, <2>11, <3>1, <3>3
           DEF DrainNext, StartDeclines, Promise!Leave, Paused
      <4>2. QED
        BY <2>4, <3>1, <4>1 DEF Promise!Next
    <3>4. QED
      BY <3>1, <3>2, <3>3
  <2>12. CASE DrainStop
    BY <2>2, <2>12 DEF DrainStop
  <2>13. CASE Tick
    BY <2>3, <2>13 DEF Tick, Promise!Next
  <2>14. CASE UNCHANGED vars
    BY <2>2, <2>14 DEF vars
  <2>15. QED
    BY <2>5, <2>6, <2>7, <2>8, <2>9, <2>10, <2>11, <2>12, <2>13, <2>14 DEF Next
<1>3. QED
  BY <1>1, <1>2, TypeCorrect, OneRecord, PTL
     DEF Spec, KeepsPromise, Promise!Spec

-----------------------------------------------------------------------------
\* FleetRecovery: a failed worker is replaced at most once.

RecoveryTypeOK ==
  /\ claim \in Spawns \union {Eligible, NoRecord}
  /\ resident \in BOOLEAN
  /\ spawnAt \in [Spawns -> {"idle", "refused", "admission", "worktree", "run", "ended"}]
  /\ halted \subseteq Spawns /\ launched \subseteq Spawns

\* Where a call is says what may have happened to it.
Placed(r) ==
  /\ r \in launched => spawnAt[r] \in {"run", "ended"}
  /\ spawnAt[r] = "run" => r \in launched
  /\ r \in halted => spawnAt[r] \notin {"idle", "refused", "admission"}

\* A call that has run, or that nothing stops from running, holds the replacement.
Holds(r) == r \in launched \/ (spawnAt[r] \in {"admission", "worktree"} /\ r \notin halted)

\* While a call holds the replacement nobody else can claim the record.
SoleHolder ==
  /\ \A r \in Spawns : Holds(r) => claim \in {r, NoRecord}
  /\ \A r, q \in Spawns : Holds(r) /\ Holds(q) => r = q

\* The inductive invariant.
RecoveryInv == RecoveryTypeOK /\ (\A r \in Spawns : Placed(r)) /\ SoleHolder /\ ClaimIsHonest

-----------------------------------------------------------------------------
LEMMA RecoveryInitOK == RecoveryInit => RecoveryInv
BY SpawnsAssumption
   DEF RecoveryInit, RecoveryInv, RecoveryTypeOK, Placed, Holds, SoleHolder, ClaimIsHonest

\* One case per exit of the launch: each either keeps the claim with the one call
\* that holds the replacement or gives it back when that call can no longer run.
LEMMA RecoveryStepOK == RecoveryInv /\ [RecoveryNext]_recoveryVars => RecoveryInv'
<1> SUFFICES ASSUME RecoveryInv, [RecoveryNext]_recoveryVars
             PROVE  RecoveryInv'
  OBVIOUS
<1> USE SpawnsAssumption
    DEF RecoveryInv, RecoveryTypeOK, Placed, Holds, SoleHolder, ClaimIsHonest
<1>1. ASSUME NEW r \in Spawns, Claims(r)
      PROVE  RecoveryInv'
  <2>1. CASE claim = Eligible
    <3>1. \A q \in Spawns : ~Holds(q)
      BY <2>1
    <3>2. claim' = r /\ spawnAt' = [spawnAt EXCEPT ![r] = "admission"]
      BY <1>1, <2>1 DEF Claims, SpawnTo
    <3>3. QED
      BY <1>1, <3>1, <3>2 DEF Claims
  <2>2. CASE claim # Eligible
    BY <1>1, <2>2 DEF Claims, SpawnTo
  <2>3. QED
    BY <2>1, <2>2
<1>2. ASSUME NEW r \in Spawns, NEW worktree \in BOOLEAN, Admitted(r, worktree)
      PROVE  RecoveryInv'
  BY <1>2 DEF Admitted, SpawnTo
<1>3. ASSUME NEW r \in Spawns, WorktreeFails(r)
      PROVE  RecoveryInv'
  BY <1>3 DEF WorktreeFails, SpawnTo, Refunded
<1>4. ASSUME NEW r \in Spawns, WorktreeReady(r)
      PROVE  RecoveryInv'
  BY <1>4 DEF WorktreeReady, SpawnTo, Refunded
<1>5. ASSUME NEW r \in Spawns, Halts(r)
      PROVE  RecoveryInv'
  BY <1>5 DEF Halts, SpawnTo, Refunded
<1>6. ASSUME NEW r \in Spawns, RunSettles(r)
      PROVE  RecoveryInv'
  BY <1>6 DEF RunSettles, SpawnTo
<1>7. CASE WorkerGoesOn
  BY <1>7 DEF WorkerGoesOn
<1>8. CASE WorkerIsEvicted
  BY <1>8 DEF WorkerIsEvicted
<1>9. CASE UNCHANGED recoveryVars
  BY <1>9 DEF recoveryVars
<1>10. QED
  BY <1>1, <1>2, <1>3, <1>4, <1>5, <1>6, <1>7, <1>8, <1>9 DEF RecoveryNext

\* Whatever claims, refunds, halts and late settlements interleave, every state of
\* the recovery satisfies the inductive invariant.
THEOREM RecoveryInvariant == RecoverySpec => []RecoveryInv
BY RecoveryInitOK, RecoveryStepOK, PTL DEF RecoverySpec

\* The record of a failed worker is never frozen on a replacement that does not
\* exist (refundUnlaunchedRecovery on every exit of the launch).
THEOREM ClaimStaysHonest == RecoverySpec => []ClaimIsHonest
<1>1. RecoveryInv => ClaimIsHonest
  BY DEF RecoveryInv
<1>2. QED
  BY <1>1, RecoveryInvariant, PTL

\* "One replacement per failed worker", for any number of spawn_agent calls.
THEOREM AtMostOneReplacement == RecoverySpec => []OneReplacementRuns
<1>1. RecoveryInv => OneReplacementRuns
  <2> SUFFICES ASSUME RecoveryInv
               PROVE  Cardinality(launched) <= 1
    BY DEF OneReplacementRuns
  <2>1. CASE launched = {}
    BY <2>1, FS_EmptySet
  <2>2. CASE \E r \in launched : TRUE
    <3>1. PICK r \in launched : TRUE
      BY <2>2
    <3>2. launched = {r}
      BY <3>1 DEF RecoveryInv, RecoveryTypeOK, SoleHolder, Holds
    <3>3. QED
      BY <3>2, FS_Singleton
  <2>3. QED
    BY <2>1, <2>2
<1>2. QED
  BY <1>1, RecoveryInvariant, PTL
=============================================================================
