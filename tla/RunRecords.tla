----------------------------- MODULE RunRecords -----------------------------
\* run.json, the record by which a later process tells a session that ended from
\* one that is still running.  Snapshots, a rename, the rotation to a new session,
\* the quit and runTUI's catch write it through a chain per session; the process
\* handlers for crashes and signals write around the chain, behind a fence.
EXTENDS Naturals, Sequences, SequencesExt

CONSTANT MaxQueued      \* bound: writes a chain holds when a snapshot joins it

ASSUME MaxQueuedAssumption == MaxQueued \in Nat

VARIABLES
  current,      \* state.sessionId; /clear makes one new session at most
  handle,       \* the session the registered active run names, 0 once cleared
  finalized,    \* crashGuard
  crashed,      \* markCrashed()
  chain,        \* per session, the statuses saveState has queued
  writing,      \* the head of the chain is past the fence
  record,       \* what run.json says
  rotation, quit, dying,    \* where newSession's op, finalizeTUIRun and the handlers are
  renaming,     \* /rename: the session and the status it read
  savedTo,      \* the session saveCrashState writes, 0 for none
  failed,       \* history: a write failed
  straddled     \* history: a write was past the fence when it went up

recordVars == <<current, handle, finalized, crashed, chain, writing, record, rotation, quit,
                dying, renaming, savedTo, failed, straddled>>

SessionIds == 1 .. 2
NoRename == [session |-> 0, status |-> "none"]

\* prepareTUISession has written the record and registered the run.
RecordInit ==
  /\ current = 1 /\ handle = 1 /\ finalized = FALSE /\ crashed = FALSE
  /\ chain = [s \in SessionIds |-> <<>>] /\ writing = [s \in SessionIds |-> FALSE]
  /\ record = [s \in SessionIds |-> IF s = 1 THEN "running" ELSE "none"]
  /\ rotation = "idle" /\ quit = "setup" /\ dying = "none" /\ renaming = NoRename
  /\ savedTo = 0 /\ failed = FALSE /\ straddled = FALSE

\* process.exit has not run.
Alive == quit # "over" /\ dying # "over"

\* saveState: the write joins its session's chain.
Saves(s, status) == chain' = [chain EXCEPT ![s] = Append(@, status)]
Settled(s, status) == status \notin Range(chain[s])
ProcessUnchanged == UNCHANGED <<current, handle, finalized, crashed, savedTo, straddled>>
ActorsUnchanged == UNCHANGED <<rotation, quit, dying, renaming>>

-----------------------------------------------------------------------------
\* A progress snapshot or the heartbeat.
Snapshot ==
  /\ Alive /\ ~finalized /\ Len(chain[current]) < MaxQueued
  /\ Saves(current, "running")
  /\ ProcessUnchanged /\ ActorsUnchanged /\ UNCHANGED <<writing, record, failed>>

\* (mutant) The fence is only looked at when the write is queued.
WriteStartsUnfenced(s) ==
  /\ Alive /\ chain[s] # <<>> /\ ~writing[s]
  /\ writing' = [writing EXCEPT ![s] = TRUE]
  /\ ProcessUnchanged /\ ActorsUnchanged /\ UNCHANGED <<chain, record, failed>>

\* atomicWriteUnlessCrashed: the write's turn has come.
WriteStarts(s) ==
  /\ Alive /\ chain[s] # <<>> /\ ~writing[s]
  /\ IF crashed
     THEN chain' = [chain EXCEPT ![s] = Tail(@)] /\ UNCHANGED writing
     ELSE writing' = [writing EXCEPT ![s] = TRUE] /\ UNCHANGED chain
  /\ ProcessUnchanged /\ ActorsUnchanged /\ UNCHANGED <<record, failed>>

\* The rename lands, or the write fails and the chain goes on.
WriteEnds(s, landed) ==
  /\ Alive /\ writing[s]
  /\ record' = IF landed THEN [record EXCEPT ![s] = Head(chain[s])] ELSE record
  /\ failed' = (failed \/ ~landed)
  /\ chain' = [chain EXCEPT ![s] = Tail(@)]
  /\ writing' = [writing EXCEPT ![s] = FALSE]
  /\ ProcessUnchanged /\ ActorsUnchanged

\* renameSession reads the record and writes it back with the new title.
RenameReads ==
  /\ Alive /\ quit = "idle" /\ renaming = NoRename
  /\ renaming' = [session |-> current,
                  status |-> IF record[current] = "none" THEN "running" ELSE record[current]]
  /\ ProcessUnchanged /\ UNCHANGED <<chain, writing, record, failed, rotation, quit, dying>>

RenameSaves ==
  /\ Alive /\ renaming # NoRename /\ Len(chain[renaming.session]) < MaxQueued
  /\ Saves(renaming.session, renaming.status)
  /\ renaming' = NoRename
  /\ ProcessUnchanged /\ UNCHANGED <<writing, record, failed, rotation, quit, dying>>

-----------------------------------------------------------------------------
\* newSession: the old agent is torn down, then the old record is closed out.
RotationBegins ==
  /\ Alive /\ rotation = "idle" /\ quit = "idle" /\ dying = "none"
  /\ rotation' = "teardown"
  /\ ProcessUnchanged /\ UNCHANGED <<chain, writing, record, failed, quit, dying, renaming>>

RotationClosesOut ==
  /\ Alive /\ rotation = "teardown"
  /\ rotation' = "closing"
  /\ IF finalized THEN UNCHANGED chain ELSE Saves(current, "ended")
  /\ ProcessUnchanged /\ UNCHANGED <<writing, record, failed, quit, dying, renaming>>

\* The handle is repointed with the session, unless the sources cannot be built.
RotationRepoints(built) ==
  /\ Alive /\ rotation = "closing" /\ Settled(current, "ended")
  /\ current' = current + 1
  /\ handle' = IF built /\ handle # 0 THEN current + 1 ELSE handle
  /\ rotation' = IF built THEN "building" ELSE "done"
  /\ UNCHANGED <<finalized, crashed, chain, writing, record, quit, dying, renaming, savedTo,
                 failed, straddled>>

\* The new agent is built and the new record written, or the build fails.  The
\* quit's own write queues behind this one, so its end is not followed.
RotationEnds(built) ==
  /\ Alive /\ rotation = "building"
  /\ rotation' = "done"
  /\ IF built /\ ~finalized THEN Saves(current, "running") ELSE UNCHANGED chain
  /\ ProcessUnchanged /\ UNCHANGED <<writing, record, failed, quit, dying, renaming>>

-----------------------------------------------------------------------------
\* The agent is built and the host mounted.
HostMounts ==
  /\ Alive /\ quit = "setup"
  /\ quit' = "idle"
  /\ ProcessUnchanged /\ UNCHANGED <<chain, writing, record, failed, rotation, dying, renaming>>

\* finalizeTUIRun: waitUntilExit resolves when the operator quits, and when the
\* handlers' teardown disposes of the host.
QuitBegins ==
  /\ Alive /\ quit = "idle"
  /\ quit' = "teardown"
  /\ ProcessUnchanged /\ UNCHANGED <<chain, writing, record, failed, rotation, dying, renaming>>

\* shutdownRuntime and the tail of the session operations are awaited.
QuitDrains ==
  /\ Alive /\ quit = "teardown" /\ rotation \in {"idle", "done"}
  /\ quit' = "closing"
  /\ ProcessUnchanged /\ UNCHANGED <<chain, writing, record, failed, rotation, dying, renaming>>

\* markFinalized, then finalizeRunState: the handle goes before the write is queued.
QuitClosesOut ==
  /\ Alive /\ quit = "closing"
  /\ quit' = "saving"
  /\ finalized' = TRUE
  /\ handle' = 0
  /\ Saves(current, "ended")
  /\ UNCHANGED <<current, crashed, writing, record, rotation, dying, renaming, savedTo, failed,
                 straddled>>

\* runTUI's catch: finalizeOnCrash, unless the run is finalized already.
CaughtBegins ==
  /\ Alive /\ quit \in {"setup", "teardown", "closing"}
  /\ quit' = "flushing"
  /\ finalized' = TRUE
  /\ handle' = 0
  /\ UNCHANGED <<current, crashed, chain, writing, record, rotation, dying, renaming, savedTo,
                 failed, straddled>>

\* The partial output is flushed before the record of the session live by then.
CaughtClosesOut ==
  /\ Alive /\ quit = "flushing"
  /\ quit' = "saving"
  /\ Saves(current, "ended")
  /\ ProcessUnchanged /\ UNCHANGED <<writing, record, failed, rotation, dying, renaming>>

\* The terminal write has settled, one way or another: main exits.
QuitExits ==
  /\ Alive /\ quit = "saving" /\ \A s \in SessionIds : Settled(s, "ended")
  /\ quit' = "over"
  /\ ProcessUnchanged /\ UNCHANGED <<chain, writing, record, failed, rotation, dying, renaming>>

-----------------------------------------------------------------------------
\* handleFatal and the signal handlers: the fence goes up before anything is awaited.
FatalBegins ==
  /\ Alive /\ dying = "none"
  /\ dying' = "teardown"
  /\ crashed' = TRUE
  /\ straddled' = \E s \in SessionIds : writing[s]
  /\ UNCHANGED <<current, handle, finalized, chain, writing, record, rotation, quit, renaming,
                 savedTo, failed>>

\* The teardown ends or its deadline passes, the report is written; the run that
\* is registered by then is closed out around the chain.
FatalSaves ==
  /\ Alive /\ dying = "teardown"
  /\ dying' = IF handle = 0 THEN "saved" ELSE "saving"
  /\ savedTo' = handle
  /\ UNCHANGED <<current, handle, finalized, crashed, chain, writing, record, rotation, quit,
                 renaming, failed, straddled>>

FatalSaved(landed) ==
  /\ Alive /\ dying = "saving"
  /\ dying' = "saved"
  /\ record' = IF landed THEN [record EXCEPT ![savedTo] = "ended"] ELSE record
  /\ failed' = (failed \/ ~landed)
  /\ ProcessUnchanged /\ UNCHANGED <<chain, writing, rotation, quit, renaming>>

\* Telemetry is flushed, and the process exits.
FatalExits ==
  /\ Alive /\ dying = "saved"
  /\ dying' = "over"
  /\ ProcessUnchanged /\ UNCHANGED <<chain, writing, record, failed, rotation, quit, renaming>>

-----------------------------------------------------------------------------
RecordNext ==
  \/ Snapshot \/ RenameReads \/ RenameSaves
  \/ \E s \in SessionIds : WriteStarts(s) \/ \E landed \in BOOLEAN : WriteEnds(s, landed)
  \/ RotationBegins \/ RotationClosesOut
  \/ \E built \in BOOLEAN : RotationRepoints(built) \/ RotationEnds(built)
  \/ HostMounts \/ QuitBegins \/ QuitDrains \/ QuitClosesOut \/ CaughtBegins \/ CaughtClosesOut \/ QuitExits
  \/ FatalBegins \/ FatalSaves \/ (\E landed \in BOOLEAN : FatalSaved(landed)) \/ FatalExits

RecordSpec == RecordInit /\ [][RecordNext]_recordVars

-----------------------------------------------------------------------------
\* The record a crash or a signal leaves is final: no snapshot, rename, rotation
\* or quit still queued in a chain overwrites it, unless its write had been
\* dispatched when the fence went up or the crash write itself failed.
CrashRecordStands ==
  dying \in {"saved", "over"} /\ savedTo # 0 /\ ~straddled /\ ~failed => record[savedTo] = "ended"

\* "Clears the in-memory active-run handle alongside the on-disk status so the two
\* cannot drift": when finalizeRunState was called before the process ended, the
\* record of the session does not say running.
HandleFollowsRecord ==
  ~Alive /\ quit \in {"saving", "over"} /\ ~straddled /\ ~failed => record[current] # "running"
=============================================================================
