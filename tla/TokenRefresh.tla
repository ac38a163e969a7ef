---------------------------- MODULE TokenRefresh ----------------------------
\* Processes that share one credential store refresh its tokens one at a time,
\* under a lock file that the next one takes over when its holder has died.  One
\* step is one file operation: anything may happen between two of them.
EXTENDS Naturals, FiniteSets

CONSTANTS
  Procs,        \* processes that call getValidToken, once each
  Gone,         \* the process that died holding the lock, before the behaviour
  NoProc

ASSUME ProcsAssumption == Gone \notin Procs /\ NoProc \notin Procs \union {Gone}

VARIABLES
  at,           \* where each process is
  dead,         \* processes that have died
  lock,         \* the lock file: whose claim, whether written yet, past its horizon
  seen,         \* the content a waiter judged
  basis,        \* the refresh token a process loaded
  stored,       \* the refresh token in the store; token 0 has expired
  server,       \* the refresh token the provider accepts
  stolen,       \* history: an unlink removed the file of a live other process
  lost,         \* history: a granted token was never persisted
  replayed      \* history: a spent refresh token was presented

refreshVars == <<at, dead, lock, seen, basis, stored, server, stolen, lost, replayed>>

\* The lock file is absent, or names its creator once the claim is written.
Absent == [by |-> NoProc, tagged |-> FALSE, old |-> FALSE]
Created(p) == [by |-> p, tagged |-> FALSE, old |-> FALSE]

RefreshInit ==
  /\ at = [p \in Procs |-> "start"]
  /\ dead = {Gone}
  /\ lock \in {Absent, Created(Gone), [Created(Gone) EXCEPT !.tagged = TRUE]}
  /\ seen = [p \in Procs |-> Absent]
  /\ basis = [p \in Procs |-> 0]
  /\ stored = 0 /\ server = 0
  /\ stolen = FALSE /\ lost = FALSE /\ replayed = FALSE

At(p, pc) == at[p] = pc /\ p \notin dead
MoveTo(p, pc) == at' = [at EXCEPT ![p] = pc]
TokensUnchanged == UNCHANGED <<basis, stored, server, lost, replayed>>
Holding == {"load", "grant", "persist", "releasing", "unlocking"}

\* unlink(lockPath) removes whatever is there.
Unlinks(p) ==
  /\ lock' = Absent
  /\ stolen' = (stolen \/ (lock.by \in Procs \ ({p} \union dead) /\ at[lock.by] \in Holding))

\* serializeCodexRefresh: a fresh token needs no lock.
ReadsProfile(p) ==
  /\ At(p, "start")
  /\ MoveTo(p, IF stored = 0 THEN "open" ELSE "done")
  /\ UNCHANGED <<dead, lock, seen, stolen>> /\ TokensUnchanged

\* open(lockPath, "wx").
OpensLock(p) ==
  /\ At(p, "open")
  /\ IF lock = Absent
     THEN lock' = Created(p) /\ MoveTo(p, "write")
     ELSE MoveTo(p, "read") /\ UNCHANGED lock
  /\ UNCHANGED <<dead, seen, stolen>> /\ TokensUnchanged

\* The claim goes to the file this process created, wherever its name is now.
WritesClaim(p) ==
  /\ At(p, "write")
  /\ lock' = IF lock.by = p THEN [lock EXCEPT !.tagged = TRUE] ELSE lock
  /\ MoveTo(p, "verify")
  /\ UNCHANGED <<dead, seen, stolen>> /\ TokensUnchanged

\* The write fails: the half-written lock is removed and the error surfaces.
ClaimFails(p) ==
  /\ At(p, "write")
  /\ Unlinks(p)
  /\ MoveTo(p, "failed")
  /\ UNCHANGED <<dead, seen>> /\ TokensUnchanged

\* (mutant) The exclusive create is trusted.
TrustsClaim(p) ==
  /\ At(p, "verify")
  /\ MoveTo(p, "load")
  /\ UNCHANGED <<dead, lock, seen, stolen>> /\ TokensUnchanged

\* The path must still name this claim; otherwise the process contends again.
VerifiesClaim(p) ==
  /\ At(p, "verify")
  /\ MoveTo(p, IF lock.by = p /\ lock.tagged THEN "load" ELSE "pace")
  /\ UNCHANGED <<dead, lock, seen, stolen>> /\ TokensUnchanged

\* The lock exists: its content is read.  One that vanished is not stale.
ReadsLock(p) ==
  /\ At(p, "read")
  /\ seen' = [seen EXCEPT ![p] = lock]
  /\ MoveTo(p, IF lock = Absent THEN "pace" ELSE "judge")
  /\ UNCHANGED <<dead, lock, stolen>> /\ TokensUnchanged

\* (mutant) A tagged lock waits for the horizon like an untagged one.
StaleWhenOld(content) == lock.old

\* A tagged lock is stale when its process is dead, an untagged one when old.
IsLockStale(content) == IF content.tagged THEN content.by \in dead ELSE lock.old

JudgesLock(p) ==
  /\ At(p, "judge")
  /\ MoveTo(p, IF IsLockStale(seen[p]) THEN "reread" ELSE "pace")
  /\ UNCHANGED <<dead, lock, seen, stolen>> /\ TokensUnchanged

\* The content is read again, and compared: two untagged files look the same.
Content(f) == IF f.tagged THEN f.by ELSE NoProc

RereadsLock(p) ==
  /\ At(p, "reread")
  /\ MoveTo(p, IF lock # Absent /\ Content(lock) = Content(seen[p]) THEN "unlink" ELSE "pace")
  /\ UNCHANGED <<dead, lock, seen, stolen>> /\ TokensUnchanged

TakesOver(p) ==
  /\ At(p, "unlink")
  /\ Unlinks(p)
  /\ MoveTo(p, "pace")
  /\ UNCHANGED <<dead, seen>> /\ TokensUnchanged

\* pace(): the process sleeps and tries again, or its deadline has passed.
Paces(p) ==
  /\ At(p, "pace")
  /\ MoveTo(p, "open")
  /\ UNCHANGED <<dead, lock, seen, stolen>> /\ TokensUnchanged

GivesUp(p) ==
  /\ At(p, "pace")
  /\ MoveTo(p, "failed")
  /\ UNCHANGED <<dead, lock, seen, stolen>> /\ TokensUnchanged

\* getValid under the lock: the profile is loaded, and refreshed if still expired.
LoadsProfile(p) ==
  /\ At(p, "load")
  /\ basis' = [basis EXCEPT ![p] = stored]
  /\ MoveTo(p, IF stored = 0 THEN "grant" ELSE "releasing")
  /\ UNCHANGED <<dead, lock, seen, stored, server, stolen, lost, replayed>>

\* The provider rotates the refresh token, and refuses one that was spent.
Refreshes(p) ==
  /\ At(p, "grant")
  /\ IF basis[p] = server
     THEN server' = server + 1 /\ MoveTo(p, "persist") /\ UNCHANGED replayed
     ELSE replayed' = TRUE /\ MoveTo(p, "releasing") /\ UNCHANGED server
  /\ UNCHANGED <<dead, lock, seen, basis, stored, stolen, lost>>

\* The request fails before the provider takes it.
RefreshFails(p) ==
  /\ At(p, "grant")
  /\ MoveTo(p, "releasing")
  /\ UNCHANGED <<dead, lock, seen, stolen>> /\ TokensUnchanged

\* updateTokens: only over the token the refresh started from.
Persists(p) ==
  /\ At(p, "persist")
  /\ IF stored = basis[p]
     THEN stored' = basis[p] + 1 /\ UNCHANGED lost
     ELSE lost' = TRUE /\ UNCHANGED stored
  /\ MoveTo(p, "releasing")
  /\ UNCHANGED <<dead, lock, seen, basis, server, stolen, replayed>>

\* releaseClaim: the file is removed only while it carries this claim.
ReleaseReads(p) ==
  /\ At(p, "releasing")
  /\ MoveTo(p, IF lock.by = p /\ lock.tagged THEN "unlocking" ELSE "done")
  /\ UNCHANGED <<dead, lock, seen, stolen>> /\ TokensUnchanged

ReleaseUnlinks(p) ==
  /\ At(p, "unlocking")
  /\ Unlinks(p)
  /\ MoveTo(p, "done")
  /\ UNCHANGED <<dead, seen>> /\ TokensUnchanged

\* A process dies; at most one does in a behaviour.
Dies(p) ==
  /\ p \notin dead /\ dead = {Gone} /\ at[p] \notin {"done", "failed"}
  /\ dead' = dead \union {p}
  /\ lost' = (lost \/ at[p] = "persist")
  /\ UNCHANGED <<at, lock, seen, basis, stored, server, stolen, replayed>>

\* An untagged lock passes its horizon, which is far above a live write.
LockAges ==
  /\ lock # Absent /\ ~lock.tagged /\ ~lock.old /\ lock.by \in dead
  /\ lock' = [lock EXCEPT !.old = TRUE]
  /\ UNCHANGED <<at, dead, seen, stolen>> /\ TokensUnchanged

-----------------------------------------------------------------------------
ProcSteps(p) ==
  \/ ReadsProfile(p) \/ OpensLock(p) \/ WritesClaim(p) \/ VerifiesClaim(p)
  \/ ReadsLock(p) \/ JudgesLock(p) \/ RereadsLock(p) \/ TakesOver(p) \/ Paces(p)
  \/ LoadsProfile(p) \/ Refreshes(p) \/ Persists(p) \/ ReleaseReads(p) \/ ReleaseUnlinks(p)

RefreshNext ==
  \/ \E p \in Procs :
       ProcSteps(p) \/ ClaimFails(p) \/ GivesUp(p) \/ RefreshFails(p) \/ Dies(p)
  \/ LockAges

\* A live process goes on, and time passes.
RefreshFairness == WF_refreshVars(LockAges) /\ \A p \in Procs : WF_refreshVars(ProcSteps(p))

RefreshSpec == RefreshInit /\ [][RefreshNext]_refreshVars /\ RefreshFairness

-----------------------------------------------------------------------------
Waiting == {p \in Procs \ dead : at[p] \in {"open", "read", "judge", "reread", "unlink", "pace"}}

\* Rotation never sees a spent refresh token: a process that waited refreshes what
\* the process before it persisted, unless a takeover removed a live holder's lock
\* file or a process died between the grant and the store write.
NoReplay == replayed => stolen \/ lost

\* The lock of a process that died, tagged or not, does not outlive the waiters:
\* it is taken over, or everyone who waited has given up.
DeadHolderIsReplaced == (lock.by \in dead) ~> (lock.by \notin dead \/ Waiting = {})

\* "At most one refresh grant is in flight": no two processes are between the
\* request for new tokens and the store write.
OneGrantInFlight == Cardinality({p \in Procs \ dead : at[p] \in {"grant", "persist"}}) <= 1
=============================================================================
