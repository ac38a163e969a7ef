---------------------------- MODULE WorkerPromise ----------------------------
(***************************************************************************)
(* What a worker's session promises the parent that reads it through       *)
(* wait_agents and list_agents (docs/ARCHITECTURE.md: the fleet mailbox is *)
(* a projection of the stored lifecycle): an outcome, the failure record   *)
(* stamped with it, and nothing but a resume or a steer to undo either.    *)
(***************************************************************************)
CONSTANTS Records, NoRecord

VARIABLES outcome, record

promise == <<outcome, record>>

Open == {"absent", "live"}
Resumable == {"completed", "interrupted"}   \* a pause: the agent is kept
Ended == {"failed", "cancelled", "shutdown"}

TypeOK == /\ outcome \in Open \cup Resumable \cup Ended
          /\ record \in Records \cup {NoRecord}

Init == outcome = "absent" /\ record = NoRecord

\* A worker opens once; a paused one is taken up again, its record withdrawn.
Begin == /\ outcome \in {"absent"} \cup Resumable
         /\ outcome' = "live" /\ record' = NoRecord

\* One record per outcome.  A failed, cancelled or interrupted worker has one; a
\* completed or closed one has one when its run was forced to stop.
Settle == /\ outcome = "live"
          /\ outcome' \in Resumable \cup Ended
          /\ record' \in Records
                \cup {r \in {NoRecord} : outcome' \in {"completed", "shutdown"}}

\* A pause can still turn into an end, and an end into a closed session.
End == /\ outcome \in Resumable \cup Ended
       /\ outcome' \in IF outcome \in Resumable THEN Ended ELSE {"shutdown"}
       /\ \/ record' = record /\ (record = NoRecord => outcome' = "shutdown")
          \/ record' \in Records /\ (record = NoRecord \/ outcome' = "failed")

\* A clean outcome can be stamped late, when a second turn of the worker settles.
Stamp == /\ outcome \in {"completed", "shutdown"} /\ record = NoRecord
         /\ record' \in Records
         /\ UNCHANGED outcome

Forget == /\ outcome \in Resumable \cup Ended
          /\ outcome' = "absent" /\ record' = NoRecord

Next == Begin \/ Settle \/ End \/ Stamp \/ Forget

Spec == Init /\ [][Next]_promise
=============================================================================
