-------------------------- MODULE AdmissionPromise --------------------------
(***************************************************************************)
(* What the admission queue of src/src/subagent/admission.ts promises to   *)
(* the callers of enqueue, release, cancel, setCapacity and notePressure,  *)
(* with no queue, no timer and no clock: a job waits, runs, and ends; a    *)
(* job starts only while its provider is open and either it bypasses the   *)
(* burst window or the window has room.  That a nested job, which bypasses *)
(* the window, waits for its provider's pause is what canAdmit, its tests  *)
(* and docs/ARCHITECTURE.md:252 say; the header of admission.ts says       *)
(* "bypass is never frozen" (the run admission_bypass).                    *)
(***************************************************************************)
EXTENDS Naturals, FiniteSets

CONSTANTS Jobs,        \* worker sessions that may ask for admission
          Providers,   \* inference providers
          ProviderOf,  \* the provider each job runs on
          Bypass       \* nested children: exempt from the burst window

VARIABLES waiting,  \* jobs reported "queued"
          running,  \* jobs that occupy a burst slot
          window,   \* the burst window
          frozen    \* providers under a 429 pause

pvars == <<waiting, running, window, frozen>>

Init == /\ waiting = {}
        /\ running = {}
        /\ window \in Nat
        /\ frozen = {}

\* A nested child is exempt from the window, not from a pause.
MayStart(j) == /\ ProviderOf[j] \notin frozen
               /\ j \in Bypass \/ Cardinality(running) < window

\* A job asks and has to wait: it may not start now.
Ask(j) == /\ j \notin waiting \cup running
          /\ ~MayStart(j)
          /\ waiting' = waiting \cup {j}
          /\ UNCHANGED <<running, window, frozen>>

\* A job starts, at once when it asks or after a wait.
Start(j) == /\ j \notin running
            /\ MayStart(j)
            /\ waiting' = waiting \ {j}
            /\ running' = running \cup {j}
            /\ UNCHANGED <<window, frozen>>

\* The worker's run is over.
Finish(j) == /\ j \in running
             /\ running' = running \ {j}
             /\ UNCHANGED <<waiting, window, frozen>>

\* A waiting job is cancelled, or gives its turn back when it comes.
Leave(j) == /\ j \in waiting
            /\ waiting' = waiting \ {j}
            /\ UNCHANGED <<running, window, frozen>>

Resize == /\ window' \in Nat
          /\ UNCHANGED <<waiting, running, frozen>>

\* Pauses begin on a 429 and lapse with time; neither touches a job.
Freeze == /\ frozen' \in SUBSET Providers
          /\ UNCHANGED <<waiting, running, window>>

Next == \/ \E j \in Jobs : Ask(j) \/ Start(j) \/ Finish(j) \/ Leave(j)
        \/ Resize
        \/ Freeze

Spec == Init /\ [][Next]_pvars
=============================================================================
