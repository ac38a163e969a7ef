----------------------------- MODULE HostProofs -----------------------------
(***************************************************************************)
(* TLAPS proofs about the host's smaller services, which share no state:   *)
(* TokenRefresh for any number of processes, CompactionLifecycle for any   *)
(* number of compacts, WorkerGrants for any number of identical calls.     *)
(***************************************************************************)
EXTENDS TokenRefresh, CompactionLifecycle, WorkerGrants, WellFoundedInduction, TLAPS

-----------------------------------------------------------------------------
(* TokenRefresh *)

Places == {"start", "open", "write", "verify", "read", "judge", "reread", "unlink", "pace",
           "load", "grant", "persist", "releasing", "unlocking", "done", "failed"}

LockFiles == [by : Procs \union {Gone, NoProc}, tagged : BOOLEAN, old : BOOLEAN]

RefreshTypeOK ==
  /\ at \in [Procs -> Places] /\ dead \subseteq Procs \union {Gone}
  /\ lock \in LockFiles /\ seen \in [Procs -> LockFiles]
  /\ basis \in [Procs -> Nat] /\ stored \in Nat /\ server \in Nat
  /\ stolen \in BOOLEAN /\ lost \in BOOLEAN /\ replayed \in BOOLEAN

\* A live process past the verification still owns the file at the lock's path,
\* until somebody unlinks it under its hands.
HoldersOwnTheLock == ~stolen => \A p \in Procs \ dead : at[p] \in Holding => lock.by = p

\* What a holder loaded is what the store holds, and the store is behind the
\* provider by the one grant a holder is about to persist.
StoreFollowsServer ==
  ~stolen /\ ~lost =>
    /\ \A p \in Procs \ dead : at[p] \in {"grant", "persist"} => basis[p] = stored
    /\ \A p \in Procs \ dead : at[p] = "persist" => server = stored + 1
    /\ (\A p \in Procs \ dead : at[p] # "persist") => server = stored

\* The inductive invariant.
RefreshInv == RefreshTypeOK /\ HoldersOwnTheLock /\ StoreFollowsServer /\ NoReplay

-----------------------------------------------------------------------------
LEMMA RefreshInitOK == RefreshInit => RefreshInv
<1> SUFFICES ASSUME RefreshInit
             PROVE  RefreshInv
  OBVIOUS
<1>1. Absent \in LockFiles /\ Created(Gone) \in LockFiles /\ [Created(Gone) EXCEPT !.tagged = TRUE] \in LockFiles
  BY DEF Absent, Created, LockFiles
<1>2. RefreshTypeOK
  BY <1>1 DEF RefreshInit, RefreshTypeOK, Places
<1>3. HoldersOwnTheLock /\ StoreFollowsServer /\ NoReplay
  BY DEF RefreshInit, HoldersOwnTheLock, StoreFollowsServer, NoReplay, Holding
<1>4. QED
  BY <1>2, <1>3 DEF RefreshInv

\* While nothing was stolen there is one live holder at most.
LEMMA OneHolder ==
  ASSUME RefreshInv, ~stolen, NEW p \in Procs \ dead, NEW q \in Procs \ dead,
         at[p] \in Holding, at[q] \in Holding
  PROVE  p = q
BY DEF RefreshInv, HoldersOwnTheLock

\* An unlink of somebody else's file is on the record when its owner still holds it.
LEMMA UnlinkKeeps ==
  ASSUME RefreshInv, NEW p \in Procs \ dead, Unlinks(p), NEW to \in Places \ Holding, MoveTo(p, to),
         dead' = dead
  PROVE  HoldersOwnTheLock' /\ lock' \in LockFiles /\ stolen' \in BOOLEAN
BY ProcsAssumption
   DEF RefreshInv, RefreshTypeOK, HoldersOwnTheLock, Unlinks, MoveTo, Absent, LockFiles, Holding

LEMMA LockStepOK ==
  ASSUME RefreshInv, NEW p \in Procs,
         \/ ReadsProfile(p) \/ OpensLock(p) \/ WritesClaim(p) \/ VerifiesClaim(p)
         \/ ReadsLock(p) \/ JudgesLock(p) \/ RereadsLock(p) \/ Paces(p) \/ GivesUp(p)
  PROVE  RefreshInv'
<1> USE ProcsAssumption
    DEF RefreshInv, RefreshTypeOK, HoldersOwnTheLock, StoreFollowsServer, NoReplay, TokensUnchanged,
        MoveTo, At, Holding, Places
<1>1. CASE ReadsProfile(p)
  BY <1>1 DEF ReadsProfile
<1>2. CASE OpensLock(p)
  <2>1. CASE lock = Absent
    <3>1. Created(p) \in LockFiles
      BY DEF Created, LockFiles
    <3>2. \A q \in Procs : lock.by # q
      BY <2>1 DEF Absent
    <3>3. QED
      BY <1>2, <2>1, <3>1, <3>2 DEF OpensLock
  <2>2. CASE lock # Absent
    BY <1>2, <2>2 DEF OpensLock
  <2>3. QED
    BY <2>1, <2>2
<1>3. CASE WritesClaim(p)
  BY <1>3 DEF WritesClaim, LockFiles
<1>4. CASE VerifiesClaim(p)
  BY <1>4 DEF VerifiesClaim
<1>5. CASE ReadsLock(p)
  BY <1>5 DEF ReadsLock
<1>6. CASE JudgesLock(p)
  BY <1>6 DEF JudgesLock
<1>7. CASE RereadsLock(p)
  BY <1>7 DEF RereadsLock
<1>8. CASE Paces(p) \/ GivesUp(p)
  BY <1>8 DEF Paces, GivesUp
<1>9. QED
  BY <1>1, <1>2, <1>3, <1>4, <1>5, <1>6, <1>7, <1>8

LEMMA UnlinkStepOK ==
  ASSUME RefreshInv, NEW p \in Procs, ClaimFails(p) \/ TakesOver(p) \/ ReleaseUnlinks(p)
  PROVE  RefreshInv'
<1>1. PICK to \in {"failed", "pace", "done"} : MoveTo(p, to)
  BY DEF ClaimFails, TakesOver, ReleaseUnlinks
<1>2. /\ p \in Procs \ dead /\ Unlinks(p) /\ dead' = dead /\ seen' = seen /\ TokensUnchanged
      /\ at[p] \in {"write", "unlink", "unlocking"}
  BY DEF ClaimFails, TakesOver, ReleaseUnlinks, At
<1>3. to \in Places \ Holding
  BY DEF Places, Holding
<1>4. HoldersOwnTheLock' /\ lock' \in LockFiles /\ stolen' \in BOOLEAN
  BY <1>1, <1>2, <1>3, UnlinkKeeps
<1>5. stolen => stolen'
  BY <1>2 DEF Unlinks
<1>6. QED
  BY <1>1, <1>2, <1>3, <1>4, <1>5
     DEF RefreshInv, RefreshTypeOK, StoreFollowsServer, NoReplay, TokensUnchanged, MoveTo, Places

LEMMA TokenStepOK ==
  ASSUME RefreshInv, NEW p \in Procs,
         LoadsProfile(p) \/ Refreshes(p) \/ RefreshFails(p) \/ Persists(p) \/ ReleaseReads(p)
  PROVE  RefreshInv'
<1> USE DEF RefreshInv, RefreshTypeOK, HoldersOwnTheLock, StoreFollowsServer, NoReplay,
            TokensUnchanged, MoveTo, At, Holding, Places
<1>1. CASE LoadsProfile(p)
  BY <1>1, OneHolder DEF LoadsProfile
<1>2. CASE Refreshes(p)
  <2>1. CASE basis[p] = server
    <3>1. /\ server' = server + 1 /\ at' = [at EXCEPT ![p] = "persist"] /\ at[p] = "grant"
          /\ p \in Procs \ dead
          /\ UNCHANGED <<dead, lock, seen, basis, stored, stolen, lost, replayed>>
      BY <1>2, <2>1 DEF Refreshes
    <3>2. StoreFollowsServer'
      <4> SUFFICES ASSUME ~stolen, ~lost
                   PROVE  StoreFollowsServer'
        BY <3>1
      <4>1. \A q \in Procs \ dead : q # p => at[q] \notin Holding
        BY <3>1, OneHolder
      <4>2. basis[p] = stored
        BY <3>1
      <4>3. QED
        BY <2>1, <3>1, <4>1, <4>2
    <3>3. QED
      BY <3>1, <3>2
  <2>2. CASE basis[p] # server
    <3>1. stolen \/ lost
      <4> SUFFICES ASSUME ~stolen, ~lost
                   PROVE  FALSE
        OBVIOUS
      <4>1. at[p] = "grant" /\ p \in Procs \ dead
        BY <1>2 DEF Refreshes
      <4>2. \A q \in Procs \ dead : q # p => at[q] \notin Holding
        BY <4>1, OneHolder
      <4>3. QED
        BY <2>2, <4>1, <4>2
    <3>2. QED
      BY <1>2, <2>2, <3>1 DEF Refreshes
  <2>3. QED
    BY <2>1, <2>2
<1>3. CASE RefreshFails(p)
  BY <1>3 DEF RefreshFails
<1>4. CASE Persists(p)
  <2>1. /\ at' = [at EXCEPT ![p] = "releasing"] /\ at[p] = "persist" /\ p \in Procs \ dead
        /\ UNCHANGED <<dead, lock, seen, basis, server, stolen, replayed>>
    BY <1>4 DEF Persists
  <2>2. stored' \in Nat /\ lost' \in BOOLEAN /\ (lost => lost')
    <3>1. CASE stored = basis[p]
      BY <1>4, <3>1 DEF Persists
    <3>2. CASE stored # basis[p]
      BY <1>4, <3>2 DEF Persists
    <3>3. QED
      BY <3>1, <3>2
  <2>3. StoreFollowsServer'
    <3> SUFFICES ASSUME ~stolen, ~lost'
                 PROVE  StoreFollowsServer'
      BY <2>1
    <3>1. \A q \in Procs \ dead : q # p => at[q] \notin Holding
      BY <2>1, OneHolder
    <3>2. server = stored + 1 /\ stored' = stored + 1
      BY <1>4, <2>1, <2>2 DEF Persists
    <3>3. QED
      BY <2>1, <3>1, <3>2
  <2>4. QED
    BY <2>1, <2>2, <2>3
<1>5. CASE ReleaseReads(p)
  BY <1>5 DEF ReleaseReads
<1>6. QED
  BY <1>1, <1>2, <1>3, <1>4, <1>5

LEMMA RefreshStepOK == RefreshInv /\ [RefreshNext]_refreshVars => RefreshInv'
<1> SUFFICES ASSUME RefreshInv, [RefreshNext]_refreshVars
             PROVE  RefreshInv'
  OBVIOUS
<1>1. ASSUME NEW p \in Procs, ProcSteps(p) \/ ClaimFails(p) \/ GivesUp(p) \/ RefreshFails(p)
      PROVE  RefreshInv'
  BY <1>1, LockStepOK, UnlinkStepOK, TokenStepOK DEF ProcSteps
<1>2. ASSUME NEW p \in Procs, Dies(p)
      PROVE  RefreshInv'
  BY <1>2 DEF Dies, RefreshInv, RefreshTypeOK, HoldersOwnTheLock, StoreFollowsServer, NoReplay
<1>3. CASE LockAges
  BY <1>3 DEF LockAges, RefreshInv, RefreshTypeOK, HoldersOwnTheLock, StoreFollowsServer, NoReplay,
              TokensUnchanged, LockFiles
<1>4. CASE UNCHANGED refreshVars
  BY <1>4 DEF refreshVars, RefreshInv, RefreshTypeOK, HoldersOwnTheLock, StoreFollowsServer,
              NoReplay
<1>5. QED
  BY <1>1, <1>2, <1>3, <1>4 DEF RefreshNext

\* Between any two file operations of any processes the lock's owner and the
\* store's token are what the refresh relies on.
THEOREM RefreshInvariant == RefreshSpec => []RefreshInv
BY RefreshInitOK, RefreshStepOK, PTL DEF RefreshSpec

\* No process presents a spent refresh token, unless a takeover removed a live
\* holder's lock file or a process died between the grant and the store write.
THEOREM SpentTokenIsNeverPresented == RefreshSpec => []NoReplay
<1>1. RefreshInv => NoReplay
  BY DEF RefreshInv
<1>2. QED
  BY <1>1, RefreshInvariant, PTL

-----------------------------------------------------------------------------
(* CompactionLifecycle *)

\* No two compacts share a generation, and none is ahead of the counter: the
\* settling of one never hides another that is still current.
GenerationsDistinct ==
  /\ generation \in Nat
  /\ \A a \in applies : a.gen \in Nat /\ a.gen <= generation
  /\ \A a, b \in applies : a.gen = b.gen => a = b

\* The inductive invariant.
CompactInv ==
  /\ controller \in [no : Nat, aborted : BOOLEAN]
  /\ compacting \in BOOLEAN
  /\ applies \subseteq [gen : Nat, no : Nat, aborted : BOOLEAN]
  /\ GenerationsDistinct
  /\ FlagIsCurrent

-----------------------------------------------------------------------------
LEMMA CompactInitOK == CompactInit => CompactInv
<1> SUFFICES ASSUME CompactInit
             PROVE  CompactInv
  OBVIOUS
<1>1. /\ controller \in [no : Nat, aborted : BOOLEAN]
      /\ compacting \in BOOLEAN /\ applies = {}
  BY DEF CompactInit
<1>2. GenerationsDistinct
  BY DEF CompactInit, GenerationsDistinct
<1>3. FlagIsCurrent
  BY DEF CompactInit, FlagIsCurrent
<1>4. QED
  BY <1>1, <1>2, <1>3 DEF CompactInv

LEMMA CompactStepOK == CompactInv /\ [CompactNext]_compactVars => CompactInv'
<1> SUFFICES ASSUME CompactInv, [CompactNext]_compactVars
             PROVE  CompactInv'
  OBVIOUS
<1> USE DEF CompactInv, GenerationsDistinct, FlagIsCurrent
<1>1. CASE ApplyStarts
  <2> DEFINE started == [gen |-> generation + 1, no |-> controller.no, aborted |-> FALSE]
  <2>1. applies' = applies \union {started} /\ started.gen = generation'
    BY <1>1 DEF ApplyStarts
  <2>2. started \in [gen : Nat, no : Nat, aborted : BOOLEAN]
    OBVIOUS
  <2> HIDE DEF started
  <2>3. GenerationsDistinct'
    BY <1>1, <2>1, <2>2 DEF ApplyStarts
  <2>4. compacting' = TRUE /\ controller' = controller
    BY <1>1 DEF ApplyStarts
  <2>5. FlagIsCurrent'
    BY <2>1, <2>4
  <2>6. QED
    BY <2>1, <2>2, <2>3, <2>4, <2>5
<1>2. CASE AbortCompaction
  <2> DEFINE Cut(a) == [a EXCEPT !.aborted = @ \/ a.no = controller.no]
  <2>1. \A a \in applies : /\ Cut(a) \in [gen : Nat, no : Nat, aborted : BOOLEAN]
                           /\ Cut(a).gen = a.gen
    <3> SUFFICES ASSUME NEW a \in applies
                 PROVE  /\ Cut(a) \in [gen : Nat, no : Nat, aborted : BOOLEAN]
                        /\ Cut(a).gen = a.gen
      OBVIOUS
    <3>1. (a.aborted \/ a.no = controller.no) \in BOOLEAN
      OBVIOUS
    <3>2. QED
      BY <3>1
  <2>2. applies' = {Cut(a) : a \in applies}
    BY <1>2 DEF AbortCompaction
  <2>3. controller' \in [no : Nat, aborted : BOOLEAN]
    BY <1>2 DEF AbortCompaction
  <2> HIDE DEF Cut
  <2>4. GenerationsDistinct'
    BY <1>2, <2>1, <2>2 DEF AbortCompaction
  <2>5. FlagIsCurrent'
    BY <1>2, <2>1, <2>2 DEF AbortCompaction
  <2>6. QED
    BY <1>2, <2>1, <2>2, <2>3, <2>4, <2>5 DEF AbortCompaction
<1>3. CASE ResetCompaction
  <2>1. /\ controller' \in [no : Nat, aborted : BOOLEAN]
        /\ generation' = generation + 1 /\ compacting' = FALSE /\ applies' = applies
    BY <1>3 DEF ResetCompaction
  <2>2. GenerationsDistinct'
    BY <2>1
  <2>3. \A a \in applies' : a.gen # generation'
    BY <2>1
  <2>4. FlagIsCurrent'
    BY <2>1, <2>3
  <2>5. QED
    BY <2>1, <2>2, <2>4
<1>4. ASSUME NEW a \in applies, ApplySettles(a)
      PROVE  CompactInv'
  BY <1>4 DEF ApplySettles
<1>5. CASE UNCHANGED compactVars
  BY <1>5 DEF compactVars
<1>6. QED
  BY <1>1, <1>2, <1>3, <1>4, <1>5 DEF CompactNext

\* Every interleaving of applies, aborts, resets and late settlements keeps the
\* generations apart.
THEOREM CompactInvariant == CompactSpec => []CompactInv
BY CompactInitOK, CompactStepOK, PTL DEF CompactSpec

\* isCompacting() is true exactly while an apply of the current generation is in
\* flight, whenever the compacts an abort or a reset cut short settle.
THEOREM FlagStaysCurrent == CompactSpec => []FlagIsCurrent
<1>1. CompactInv => FlagIsCurrent
  BY DEF CompactInv
<1>2. QED
  BY <1>1, CompactInvariant, PTL

-----------------------------------------------------------------------------
(* WorkerGrants *)

\* worker-grant.ts: an envelope and its five statuses.
Envelope == [status : Open \union {"consumed", "expired", "interrupted"},
             asked : BOOLEAN, overdue : BOOLEAN]

Callers == Retries \union {Approver}

GrantTypeOK ==
  /\ envelopes \in Seq(Envelope) /\ question \in Nat /\ question <= Len(envelopes)
  /\ turns \in Seq(Callers) /\ DOMAIN place = Callers
  /\ covered \in BOOLEAN /\ executed \in Nat

\* Two envelopes of one call are never open together, and nothing open is older
\* than a spent one: it would hide the spent one from the precheck.
OneOpen(es) ==
  \A i, j \in DOMAIN es : es[i].status \in Open /\ es[j].status \in Open => i = j
NothingOpenBeforeSpent(es) ==
  \A i, j \in DOMAIN es : i < j /\ es[j].status = "consumed" => es[i].status \notin Open
Ordered(es) == es \in Seq(Envelope) /\ OneOpen(es) /\ NothingOpenBeforeSpent(es)

\* Who is between the check and the answer of its gate has the turn.
MidTurnIsHead ==
  \A a \in Callers : place[a] \in {"authorizing", "executing", "evaluating"} => HasTurn(a)

\* What the check saw is still so when the gate answers.
Unspent(es) == With(es, "authorized") = {} /\ With(es, "consumed") = {}
CheckStands == \A r \in Retries : place[r] \in {"authorizing", "executing"} => Unspent(envelopes)

GrantInv == GrantTypeOK /\ Ordered(envelopes) /\ MidTurnIsHead /\ CheckStands

-----------------------------------------------------------------------------
LEMMA FirstIsLeast ==
  ASSUME NEW S \in SUBSET Nat, S # {}
  PROVE  First(S) \in S /\ \A j \in S : First(S) <= j
<1>1. PICK m \in S : \A j \in S : <<j, m>> \notin OpToRel(<, Nat)
  BY NatLessThanWellFounded, WFMin, Zenon
<1>2. \A j \in S : ~(j < m)
  BY <1>1 DEF OpToRel
<1>3. \A j \in S : m <= j
  BY <1>2
<1>4. QED
  BY <1>1, <1>3 DEF First

\* Sweeping only ends envelopes.
LEMMA SweptOK ==
  ASSUME NEW es, Ordered(es)
  PROVE  /\ Ordered(Swept(es)) /\ Len(Swept(es)) = Len(es) /\ DOMAIN Swept(es) = DOMAIN es
         /\ \A i \in DOMAIN es :
              /\ es[i].status \notin Open => Swept(es)[i] = es[i]
              /\ Swept(es)[i].status \in Open => Swept(es)[i] = es[i]
              /\ Swept(es)[i].status \in {es[i].status, "expired"}
<1>1. DOMAIN es = 1 .. Len(es) /\ Len(es) \in Nat /\ \A i \in DOMAIN es : es[i] \in Envelope
  BY DEF Ordered
<1>2. DOMAIN Swept(es) = 1 .. Len(es)
  BY <1>1 DEF Swept
<1>3. \A i \in DOMAIN es :
        /\ Swept(es)[i] \in Envelope
        /\ es[i].status \notin Open => Swept(es)[i] = es[i]
        /\ Swept(es)[i].status \in Open => Swept(es)[i] = es[i]
        /\ Swept(es)[i].status \in {es[i].status, "expired"}
  BY <1>1 DEF Swept, Envelope, Open
<1>4. Swept(es) \in Seq(Envelope) /\ Len(Swept(es)) = Len(es)
  BY <1>1, <1>2, <1>3 DEF Swept
<1>5. OneOpen(Swept(es)) /\ NothingOpenBeforeSpent(Swept(es))
  BY <1>1, <1>2, <1>3 DEF Ordered, OneOpen, NothingOpenBeforeSpent, Open
<1>6. QED
  BY <1>1, <1>2, <1>3, <1>4, <1>5 DEF Ordered

\* A spent envelope fails the precheck, whatever else the call has.
LEMMA PrecheckSeesSpent ==
  ASSUME NEW es, Ordered(es), Prechecks(es)
  PROVE  With(es, "consumed") = {}
<1> SUFFICES ASSUME NEW j \in DOMAIN es, es[j].status = "consumed"
             PROVE  FALSE
  BY DEF With
<1> DEFINE live == {i \in DOMAIN es : es[i].status # "expired"}
<1>1. DOMAIN es \subseteq Nat /\ j \in live /\ live \in SUBSET Nat
  BY DEF Ordered
<1>2. First(live) \in live /\ First(live) <= j
  BY <1>1, FirstIsLeast
<1>3. es[First(live)].status \in Open
  BY <1>1 DEF Prechecks
<1> HIDE DEF live
<1>4. First(live) \in DOMAIN es /\ First(live) \in Nat /\ j \in Nat
  BY <1>1, <1>2 DEF live
<1>5. First(live) # j
  BY <1>3 DEF Open
<1>6. QED
  BY <1>2, <1>3, <1>4, <1>5 DEF Ordered, NothingOpenBeforeSpent

\* Spending the open envelope of a call that has none spent keeps the order.
LEMMA SpentOK ==
  ASSUME NEW es, Ordered(es), NEW S \in SUBSET DOMAIN es, S # {},
         \A i \in S : es[i].status \in Open
  PROVE  Ordered(Spent(es, First(S))) /\ Len(Spent(es, First(S))) = Len(es)
<1>1. First(S) \in S
  BY FirstIsLeast DEF Ordered
<1> DEFINE k == First(S)
<1>2. k \in DOMAIN es /\ es[k].status \in Open
  BY <1>1
<1> HIDE DEF k
<1>3. [es[k] EXCEPT !.status = "consumed"] \in Envelope
  <2>1. es[k] \in Envelope
    BY <1>2 DEF Ordered
  <2>2. QED
    BY <2>1 DEF Envelope
<1>4. Spent(es, k) = [es EXCEPT ![k] = [es[k] EXCEPT !.status = "consumed"]]
  BY DEF Spent
<1>5. Spent(es, k) \in Seq(Envelope) /\ Len(Spent(es, k)) = Len(es) /\ DOMAIN Spent(es, k) = DOMAIN es
  BY <1>2, <1>3, <1>4 DEF Ordered
<1>6. \A i \in DOMAIN es : Spent(es, k)[i].status = IF i = k THEN "consumed" ELSE es[i].status
  BY <1>2, <1>4 DEF Ordered, Envelope
<1>7. OneOpen(Spent(es, k))
  BY <1>5, <1>6 DEF Ordered, OneOpen, Open
<1>8. NothingOpenBeforeSpent(Spent(es, k))
  BY <1>2, <1>5, <1>6 DEF Ordered, OneOpen, NothingOpenBeforeSpent, Open
<1>9. QED
  BY <1>5, <1>7, <1>8 DEF Ordered, k

\* A denial adds an envelope only when the call has none that is open.
LEMMA DeniedOK ==
  ASSUME NEW es, Ordered(es), With(es, "authorized") = {}
  PROVE  Ordered(DeniedWith(es)) /\ Len(DeniedWith(es)) >= Len(es)
<1>1. CASE With(es, "pending") # {}
  BY <1>1 DEF DeniedWith, Ordered
<1>2. CASE With(es, "pending") = {}
  <2> DEFINE e == [status |-> "pending", asked |-> FALSE, overdue |-> FALSE]
  <2>1. DeniedWith(es) = Append(es, e)
    BY <1>2 DEF DeniedWith
  <2>2. e \in Envelope /\ e.status = "pending"
    BY DEF Envelope, Open
  <2> HIDE DEF e
  <2>3. /\ Append(es, e) \in Seq(Envelope) /\ Len(Append(es, e)) = Len(es) + 1
        /\ DOMAIN Append(es, e) = 1 .. Len(es) + 1 /\ DOMAIN es = 1 .. Len(es) /\ Len(es) \in Nat
        /\ Append(es, e)[Len(es) + 1] = e
        /\ \A i \in DOMAIN es : Append(es, e)[i] = es[i]
    BY <2>2 DEF Ordered
  <2>4. \A i \in DOMAIN es : es[i].status \notin Open
    BY <1>2 DEF With, Open
  <2>5. OneOpen(Append(es, e))
    BY <2>3, <2>4 DEF OneOpen
  <2>6. NothingOpenBeforeSpent(Append(es, e))
    BY <2>2, <2>3, <2>4 DEF NothingOpenBeforeSpent, Ordered
  <2>7. QED
    BY <2>1, <2>3, <2>5, <2>6 DEF Ordered
<1>3. QED
  BY <1>1, <1>2

LEMMA GrantInitOK == GrantInit => GrantInv
<1> SUFFICES ASSUME GrantInit
             PROVE  GrantInv
  OBVIOUS
<1>1. <<>> \in Seq(Envelope) /\ <<>> \in Seq(Callers)
  OBVIOUS
<1>2. GrantTypeOK
  <2>1. Len(envelopes) = 0 /\ question = 0 /\ DOMAIN place = Callers
    BY DEF GrantInit, Callers
  <2>2. QED
    <3>1. envelopes \in Seq(Envelope) /\ turns \in Seq(Callers)
      BY <1>1 DEF GrantInit
    <3>2. covered \in BOOLEAN /\ executed \in Nat
      BY DEF GrantInit
    <3>3. QED
      BY <2>1, <3>1, <3>2 DEF GrantTypeOK
<1>3. Ordered(envelopes)
  BY <1>1 DEF GrantInit, Ordered, OneOpen, NothingOpenBeforeSpent
<1>4. MidTurnIsHead /\ CheckStands
  BY DEF GrantInit, MidTurnIsHead, CheckStands, Callers
<1>5. QED
  BY <1>2, <1>3, <1>4 DEF GrantInv

\* Who joins leaves the head where it is; the head's leaving ends its own turn.
LEMMA TurnsKeep ==
  ASSUME GrantInv, NEW a \in Callers, NEW to,
         \/ JoinsTurns(a, to) /\ to \in {"authorize", "execute", "approve"}
         \/ /\ LeavesTurn(a, to) /\ to \in {"denied", "allowed", "ran", "idle"}
            /\ HasTurn(a)
         \/ Goes(a, to) /\ turns' = turns /\ HasTurn(a)
  PROVE  /\ MidTurnIsHead' /\ turns' \in Seq(Callers) /\ DOMAIN place' = Callers
         /\ place'[a] = to /\ \A b \in Callers : b # a => place'[b] = place[b]
<1>1. /\ turns \in Seq(Callers) /\ DOMAIN place = Callers
      /\ place' = [place EXCEPT ![a] = to]
  BY DEF GrantInv, GrantTypeOK, JoinsTurns, LeavesTurn, Goes
<1>2. DOMAIN place' = Callers /\ place'[a] = to /\ \A b \in Callers : b # a => place'[b] = place[b]
  BY <1>1
<1>3. turns' \in Seq(Callers)
  BY <1>1, SMTT(60) DEF JoinsTurns, LeavesTurn, HasTurn
<1>4. MidTurnIsHead'
  <2>1. CASE JoinsTurns(a, to) /\ to \in {"authorize", "execute", "approve"}
    <3>1. turns # <<>> => turns' # <<>> /\ Head(turns') = Head(turns)
      BY <1>1, <2>1 DEF JoinsTurns
    <3>2. QED
      BY <1>2, <2>1, <3>1 DEF MidTurnIsHead, HasTurn, GrantInv
  <2>2. CASE LeavesTurn(a, to) /\ to \in {"denied", "allowed", "ran", "idle"} /\ HasTurn(a)
    BY <1>2, <2>2 DEF MidTurnIsHead, HasTurn, GrantInv
  <2>3. CASE Goes(a, to) /\ turns' = turns /\ HasTurn(a)
    BY <1>2, <2>3 DEF MidTurnIsHead, HasTurn, GrantInv
  <2>4. QED
    BY <2>1, <2>2, <2>3
<1>5. QED
  BY <1>2, <1>3, <1>4

\* One caller at a time is past its check.
LEMMA OneMidTurn ==
  ASSUME GrantInv, NEW a \in Callers, HasTurn(a), NEW r \in Retries, r # a
  PROVE  place[r] \notin {"authorizing", "executing"}
BY DEF GrantInv, MidTurnIsHead, HasTurn, Callers

LEMMA AuthorizeOK ==
  ASSUME GrantInv, NEW r \in Retries,
         CallArrives(r) \/ AuthorizeChecks(r) \/ AuthorizeAnswered(r) \/ ExecutionArrives(r)
  PROVE  GrantInv' /\ executed' = executed
<1>1. r \in Callers
  BY DEF Callers
<1>2. CASE CallArrives(r) \/ ExecutionArrives(r)
  <2>1. PICK to \in {"authorize", "execute"} : JoinsTurns(r, to)
    BY <1>2 DEF CallArrives, ExecutionArrives
  <2>2. UNCHANGED <<envelopes, question, covered, executed>>
    BY <1>2 DEF CallArrives, ExecutionArrives
  <2>3. /\ MidTurnIsHead' /\ turns' \in Seq(Callers) /\ DOMAIN place' = Callers
        /\ place'[r] = to /\ \A b \in Callers : b # r => place'[b] = place[b]
    BY <1>1, <2>1, TurnsKeep
  <2>4. CheckStands'
    BY <2>2, <2>3 DEF GrantInv, CheckStands, Unspent, With, Callers
  <2>5. QED
    BY <2>2, <2>3, <2>4 DEF GrantInv, GrantTypeOK, Ordered, OneOpen, NothingOpenBeforeSpent
<1>3. CASE AuthorizeChecks(r)
  <2> DEFINE es == Swept(envelopes)
  <2>1. Ordered(es) /\ Len(es) = Len(envelopes) /\ HasTurn(r)
    BY <1>3, SweptOK DEF AuthorizeChecks, GrantInv
  <2>2. PICK to \in {"denied", "allowed", "authorizing"} :
          /\ \/ LeavesTurn(r, to) /\ to # "authorizing"
             \/ Goes(r, to) /\ turns' = turns
          /\ to = "authorizing" => Prechecks(es) /\ With(es, "authorized") = {}
    BY <1>3 DEF AuthorizeChecks
  <2>3. /\ MidTurnIsHead' /\ turns' \in Seq(Callers) /\ DOMAIN place' = Callers
        /\ place'[r] = to /\ \A b \in Callers : b # r => place'[b] = place[b]
    BY <1>1, <2>1, <2>2, TurnsKeep
  <2>4. envelopes' = es /\ UNCHANGED <<question, covered, executed>>
    BY <1>3 DEF AuthorizeChecks
  <2> HIDE DEF es
  <2>5. CheckStands'
    <3>1. to = "authorizing" => Unspent(es)
      BY <2>1, <2>2, PrecheckSeesSpent DEF Unspent
    <3>2. \A q \in Retries : q # r => place'[q] \notin {"authorizing", "executing"}
      BY <1>1, <2>1, <2>3, OneMidTurn DEF Callers
    <3>3. QED
      BY <2>2, <2>3, <2>4, <3>1, <3>2 DEF CheckStands, Unspent, With
  <2>6. QED
    BY <2>1, <2>3, <2>4, <2>5 DEF GrantInv, GrantTypeOK, Ordered, OneOpen, NothingOpenBeforeSpent
<1>4. CASE AuthorizeAnswered(r)
  <2>1. HasTurn(r) /\ Unspent(envelopes) /\ Ordered(envelopes)
    BY <1>1, <1>4 DEF AuthorizeAnswered, GrantInv, MidTurnIsHead, CheckStands
  <2>2. PICK to \in {"denied", "allowed"} : LeavesTurn(r, to)
    BY <1>4 DEF AuthorizeAnswered
  <2>3. /\ MidTurnIsHead' /\ turns' \in Seq(Callers) /\ DOMAIN place' = Callers
        /\ place'[r] = to /\ \A b \in Callers : b # r => place'[b] = place[b]
    BY <1>1, <2>1, <2>2, TurnsKeep
  <2>4. Ordered(envelopes') /\ Len(envelopes') >= Len(envelopes)
    <3>1. /\ Ordered(Swept(envelopes)) /\ Len(Swept(envelopes)) = Len(envelopes)
          /\ With(Swept(envelopes), "authorized") = {}
      BY <2>1, SweptOK DEF Unspent, With
    <3>2. CASE covered
      BY <1>4, <2>1, <3>2 DEF AuthorizeAnswered, Ordered
    <3>3. CASE ~covered
      BY <1>4, <3>1, <3>3, DeniedOK DEF AuthorizeAnswered
    <3>4. QED
      BY <3>2, <3>3
  <2>5. CheckStands'
    BY <1>1, <2>1, <2>3, OneMidTurn DEF CheckStands, Callers
  <2>6. UNCHANGED <<question, covered, executed>>
    BY <1>4 DEF AuthorizeAnswered
  <2>7. QED
    BY <2>3, <2>4, <2>5, <2>6 DEF GrantInv, GrantTypeOK, Ordered, OneOpen, NothingOpenBeforeSpent
<1>5. QED
  BY <1>2, <1>3, <1>4

LEMMA ExecutionOK ==
  ASSUME GrantInv, NEW r \in Retries, ExecutionChecks(r) \/ ExecutionAnswered(r)
  PROVE  GrantInv' /\ (executed' > executed => With(envelopes, "consumed") = {})
<1>1. r \in Callers
  BY DEF Callers
<1>2. CASE ExecutionChecks(r)
  <2> DEFINE es == Swept(envelopes)
             granted == With(es, "authorized")
  <2>1. Ordered(es) /\ Len(es) = Len(envelopes) /\ HasTurn(r)
    BY <1>2, SweptOK DEF ExecutionChecks, GrantInv
  <2>2. PICK to \in {"denied", "ran", "executing"} :
          /\ \/ LeavesTurn(r, to) /\ to # "executing"
             \/ Goes(r, to) /\ turns' = turns
          /\ to = "executing" => Prechecks(es) /\ granted = {} /\ envelopes' = es
          /\ \/ envelopes' = es /\ executed' = executed
             \/ /\ Prechecks(es) /\ granted # {} /\ envelopes' = Spent(es, First(granted))
                /\ executed' = executed + 1
          /\ UNCHANGED <<question, covered>>
    BY <1>2 DEF ExecutionChecks
  <2>3. /\ MidTurnIsHead' /\ turns' \in Seq(Callers) /\ DOMAIN place' = Callers
        /\ place'[r] = to /\ \A b \in Callers : b # r => place'[b] = place[b]
    BY <1>1, <2>1, <2>2, TurnsKeep
  <2>4. granted \subseteq DOMAIN es /\ \A i \in granted : es[i].status \in Open
    BY DEF With, Open
  <2> HIDE DEF es, granted
  <2>5. Ordered(envelopes') /\ Len(envelopes') = Len(envelopes)
    BY <2>1, <2>2, <2>4, SpentOK
  <2>6. CheckStands'
    <3>1. to = "executing" => Unspent(envelopes')
      BY <2>1, <2>2, PrecheckSeesSpent DEF Unspent, granted
    <3>2. \A q \in Retries : q # r => place'[q] \notin {"authorizing", "executing"}
      BY <1>1, <2>1, <2>3, OneMidTurn DEF Callers
    <3>3. QED
      BY <2>2, <2>3, <3>1, <3>2 DEF CheckStands, Unspent, With
  <2>7. Prechecks(es) => With(envelopes, "consumed") = {}
    <3>1. \A i \in DOMAIN envelopes :
            /\ i \in DOMAIN es
            /\ envelopes[i].status = "consumed" => es[i].status = "consumed"
      BY SweptOK DEF GrantInv, Open, es
    <3>2. QED
      BY <2>1, <3>1, PrecheckSeesSpent DEF With
  <2>8. executed \in Nat /\ executed' \in Nat
    BY <2>2 DEF GrantInv, GrantTypeOK
  <2>9. QED
    BY <2>2, <2>3, <2>5, <2>6, <2>7, <2>8
       DEF GrantInv, GrantTypeOK, Ordered, OneOpen, NothingOpenBeforeSpent
<1>3. CASE ExecutionAnswered(r)
  <2> DEFINE pending == {i \in With(envelopes, "pending") : ~envelopes[i].overdue}
  <2>1. HasTurn(r) /\ Unspent(envelopes) /\ Ordered(envelopes)
    BY <1>1, <1>3 DEF ExecutionAnswered, GrantInv, MidTurnIsHead, CheckStands
  <2>2. PICK to \in {"denied", "ran"} : LeavesTurn(r, to)
    BY <1>3 DEF ExecutionAnswered
  <2>3. /\ MidTurnIsHead' /\ turns' \in Seq(Callers) /\ DOMAIN place' = Callers
        /\ place'[r] = to /\ \A b \in Callers : b # r => place'[b] = place[b]
    BY <1>1, <2>1, <2>2, TurnsKeep
  <2>4. Ordered(envelopes') /\ Len(envelopes') >= Len(envelopes)
    <3>1. /\ Ordered(Swept(envelopes)) /\ Len(Swept(envelopes)) = Len(envelopes)
          /\ With(Swept(envelopes), "authorized") = {}
      BY <2>1, SweptOK DEF Unspent, With
    <3>2. CASE covered
      <4>1. pending \subseteq DOMAIN envelopes /\ \A i \in pending : envelopes[i].status \in Open
        BY DEF With, Open
      <4>2. envelopes' = IF pending = {} THEN envelopes ELSE Spent(envelopes, First(pending))
        BY <1>3, <3>2 DEF ExecutionAnswered
      <4> HIDE DEF pending
      <4>3. Len(envelopes) \in Nat
        BY <2>1 DEF Ordered
      <4>4. QED
        BY <2>1, <4>1, <4>2, <4>3, SpentOK
    <3>3. CASE ~covered
      BY <1>3, <3>1, <3>3, DeniedOK DEF ExecutionAnswered
    <3>4. QED
      BY <3>2, <3>3
  <2>5. CheckStands'
    BY <1>1, <2>1, <2>3, OneMidTurn DEF CheckStands, Callers
  <2>6. UNCHANGED <<question, covered>> /\ executed' \in Nat
    BY <1>3 DEF ExecutionAnswered, GrantInv, GrantTypeOK
  <2>7. QED
    BY <2>1, <2>3, <2>4, <2>5, <2>6
       DEF GrantInv, GrantTypeOK, Ordered, OneOpen, NothingOpenBeforeSpent, Unspent
<1>4. QED
  BY <1>2, <1>3

\* Closing, expiring and asking about envelopes opens and spends none.
LEMMA NothingReopened ==
  ASSUME NEW es, Ordered(es), NEW fs \in Seq(Envelope), Len(fs) = Len(es),
         \A i \in DOMAIN es : /\ fs[i].status \in Open => es[i].status \in Open
                              /\ fs[i].status = "consumed" => es[i].status = "consumed"
  PROVE  Ordered(fs) /\ (With(es, "consumed") = {} => With(fs, "consumed") = {})
<1>1. DOMAIN fs = DOMAIN es
  BY DEF Ordered
<1>2. QED
  BY <1>1 DEF Ordered, OneOpen, NothingOpenBeforeSpent, With

\* The director's side: asks, approvals and what ends an envelope.
LEMMA ApproverOK ==
  ASSUME GrantInv,
         \/ AsksDirector \/ Approves \/ ApproveChecks
         \/ \E allowed, kept \in BOOLEAN : ApproveEvaluated(allowed, kept)
  PROVE  GrantInv' /\ executed' = executed
<1>1. Approver \in Callers /\ Ordered(envelopes) /\ Len(envelopes) \in Nat
      /\ DOMAIN envelopes = 1 .. Len(envelopes)
  BY DEF Callers, GrantInv, Ordered
<1> DEFINE es == Swept(envelopes)
<1>2. /\ Ordered(es) /\ Len(es) = Len(envelopes) /\ DOMAIN es = DOMAIN envelopes
      /\ \A i \in DOMAIN envelopes :
           /\ envelopes[i].status \notin Open => es[i] = envelopes[i]
           /\ es[i].status \in Open => es[i] = envelopes[i]
           /\ es[i].status \in {envelopes[i].status, "expired"}
  BY <1>1, SweptOK
<1> HIDE DEF es
<1>3. Unspent(envelopes) => Unspent(es)
  BY <1>1, <1>2 DEF Unspent, With
<1>4. CASE AsksDirector
  <2>1. PICK i \in With(es, "pending") :
          envelopes' = [es EXCEPT ![i].asked = TRUE] /\ question' = i
    BY <1>4 DEF AsksDirector, es
  <2>2. i \in DOMAIN es /\ es[i] \in Envelope /\ es \in Seq(Envelope)
    BY <1>2, <2>1 DEF With, Ordered
  <2>3. [es[i] EXCEPT !.asked = TRUE] \in Envelope
    BY <2>2 DEF Envelope
  <2>4. envelopes' \in Seq(Envelope) /\ Len(envelopes') = Len(es)
    BY <2>1, <2>2, <2>3
  <2>5. \A j \in DOMAIN es : envelopes'[j].status = es[j].status
    BY <2>1, <2>2 DEF Envelope
  <2>6. Ordered(envelopes')
    BY <1>2, <2>4, <2>5, NothingReopened
  <2>7. DOMAIN envelopes' = DOMAIN es
    BY <2>2, <2>4
  <2>8. Unspent(envelopes) => Unspent(envelopes')
    BY <1>3, <2>5, <2>7 DEF Unspent, With
  <2>9. UNCHANGED <<turns, place, covered, executed>>
    BY <1>4 DEF AsksDirector
  <2>10. question' \in Nat /\ question' <= Len(envelopes')
    BY <1>1, <1>2, <2>1, <2>2, <2>4
  <2>11. QED
    BY <2>6, <2>8, <2>9, <2>10
       DEF GrantInv, GrantTypeOK, Ordered, MidTurnIsHead, HasTurn, CheckStands
<1>5. CASE Approves
  <2>1. JoinsTurns(Approver, "approve") /\ UNCHANGED <<envelopes, question, covered, executed>>
    BY <1>5 DEF Approves
  <2>2. /\ MidTurnIsHead' /\ turns' \in Seq(Callers) /\ DOMAIN place' = Callers
        /\ \A b \in Callers : b # Approver => place'[b] = place[b]
    BY <1>1, <2>1, TurnsKeep
  <2>3. CheckStands'
    BY <2>1, <2>2, ApproverAssumption DEF GrantInv, CheckStands, Unspent, With, Callers
  <2>4. QED
    BY <2>1, <2>2, <2>3 DEF GrantInv, GrantTypeOK, Ordered, OneOpen, NothingOpenBeforeSpent
<1>6. CASE ApproveChecks
  <2>1. PICK to \in {"evaluating", "idle"} :
          /\ \/ LeavesTurn(Approver, to) /\ to = "idle"
             \/ Goes(Approver, to) /\ turns' = turns
          /\ HasTurn(Approver) /\ envelopes' \in {envelopes, es}
          /\ UNCHANGED <<question, covered, executed>>
    BY <1>6 DEF ApproveChecks, es
  <2>2. /\ MidTurnIsHead' /\ turns' \in Seq(Callers) /\ DOMAIN place' = Callers
        /\ \A b \in Callers : b # Approver => place'[b] = place[b]
    BY <1>1, <2>1, TurnsKeep
  <2>3. CheckStands'
    BY <1>1, <2>1, <2>2, OneMidTurn, ApproverAssumption DEF CheckStands, Callers
  <2>4. QED
    BY <1>1, <1>2, <2>1, <2>2, <2>3
       DEF GrantInv, GrantTypeOK, Ordered, OneOpen, NothingOpenBeforeSpent
<1>7. CASE \E allowed, kept \in BOOLEAN : ApproveEvaluated(allowed, kept)
  <2>1. PICK allowed \in BOOLEAN, kept \in BOOLEAN : ApproveEvaluated(allowed, kept)
    BY <1>7
  <2>2. HasTurn(Approver) /\ LeavesTurn(Approver, "idle") /\ executed' = executed
        /\ covered' \in BOOLEAN
    BY <1>1, <2>1 DEF ApproveEvaluated, GrantInv, GrantTypeOK, MidTurnIsHead
  <2>3. /\ MidTurnIsHead' /\ turns' \in Seq(Callers) /\ DOMAIN place' = Callers
        /\ \A b \in Callers : b # Approver => place'[b] = place[b]
    BY <1>1, <2>2, TurnsKeep
  <2>4. CheckStands'
    BY <1>1, <2>2, <2>3, OneMidTurn, ApproverAssumption DEF CheckStands, Callers
  <2>5. Ordered(envelopes') /\ Len(envelopes') = Len(envelopes) /\ question' \in {0, question}
    <3>1. CASE allowed /\ StillAsked(question)
      <4>1. envelopes' = [es EXCEPT ![question].status = "authorized"] /\ question' = 0
        BY <2>1, <3>1 DEF ApproveEvaluated, es
      <4>2. /\ question \in DOMAIN envelopes /\ envelopes[question].status = "pending"
            /\ ~envelopes[question].overdue
        BY <1>1, <3>1 DEF StillAsked, GrantInv, GrantTypeOK
      <4>3. es[question] = envelopes[question]
        BY <4>2 DEF es, Swept
      <4>4. es \in Seq(Envelope) /\ question \in DOMAIN es /\ es[question] \in Envelope
        BY <1>2, <4>2 DEF Ordered
      <4>5. [es[question] EXCEPT !.status = "authorized"] \in Envelope
        BY <4>4 DEF Envelope, Open
      <4>6. envelopes' \in Seq(Envelope) /\ Len(envelopes') = Len(es)
        BY <4>1, <4>4, <4>5
      <4>7. \A j \in DOMAIN es :
              /\ envelopes'[j].status \in Open => es[j].status \in Open
              /\ envelopes'[j].status = "consumed" => es[j].status = "consumed"
        BY <4>1, <4>2, <4>3, <4>4 DEF Envelope, Open
      <4>8. QED
        BY <1>2, <4>1, <4>6, <4>7, NothingReopened
    <3>2. CASE ~(allowed /\ StillAsked(question))
      BY <1>1, <1>2, <2>1, <3>2 DEF ApproveEvaluated, es
    <3>3. QED
      BY <3>1, <3>2
  <2>6. question' \in Nat /\ question' <= Len(envelopes')
    BY <1>1, <2>5 DEF GrantInv, GrantTypeOK
  <2>7. QED
    BY <2>2, <2>3, <2>4, <2>5, <2>6 DEF GrantInv, GrantTypeOK, Ordered
<1>8. QED
  BY <1>4, <1>5, <1>6, <1>7

LEMMA ClosedOK ==
  ASSUME GrantInv, NEW st \in {"interrupted", "expired"}
  PROVE  /\ Closed(st) \in Seq(Envelope) /\ Len(Closed(st)) = Len(envelopes)
         /\ \A i \in DOMAIN envelopes :
              /\ Closed(st)[i].status \notin Open
              /\ Closed(st)[i].status = "consumed" => envelopes[i].status = "consumed"
<1>1. /\ envelopes \in Seq(Envelope) /\ Len(envelopes) \in Nat /\ DOMAIN envelopes = 1 .. Len(envelopes)
      /\ \A i \in DOMAIN envelopes : envelopes[i] \in Envelope
  BY DEF GrantInv, GrantTypeOK
<1>2. DOMAIN Closed(st) = 1 .. Len(envelopes)
  BY <1>1 DEF Closed
<1>3. \A i \in DOMAIN envelopes :
        /\ Closed(st)[i] \in Envelope /\ Closed(st)[i].status \notin Open
        /\ Closed(st)[i].status = "consumed" => envelopes[i].status = "consumed"
  BY <1>1 DEF Closed, Envelope, Open
<1>4. Closed(st) \in [1 .. Len(envelopes) -> Envelope]
  BY <1>1, <1>2, <1>3 DEF Closed
<1>5. Closed(st) \in Seq(Envelope) /\ Len(Closed(st)) = Len(envelopes)
  BY <1>1, <1>4
<1>6. QED
  BY <1>3, <1>5

LEMMA EndingOK ==
  ASSUME GrantInv,
         \/ AnsweredInWords \/ AskIsCancelled \/ AskExpires \/ SessionInvalidated
         \/ GateChanges \/ Overdue
  PROVE  GrantInv' /\ executed' = executed
<1>1. /\ Ordered(envelopes) /\ envelopes \in Seq(Envelope) /\ Len(envelopes) \in Nat
      /\ DOMAIN envelopes = 1 .. Len(envelopes)
  BY DEF GrantInv, Ordered
<1>2. /\ UNCHANGED <<turns, place, executed>> /\ question' \in {0, question}
      /\ covered' \in BOOLEAN
  BY DEF GrantInv, GrantTypeOK, AnsweredInWords, AskIsCancelled, AskExpires, SessionInvalidated,
     GateChanges, Overdue
<1>3. /\ envelopes' \in Seq(Envelope) /\ Len(envelopes') = Len(envelopes)
      /\ \A i \in DOMAIN envelopes :
           /\ envelopes'[i].status \in Open => envelopes'[i].status = envelopes[i].status
           /\ envelopes'[i].status = "consumed" => envelopes[i].status = "consumed"
  <2>1. CASE AnsweredInWords \/ GateChanges
    BY <1>1, <2>1 DEF AnsweredInWords, GateChanges
  <2>2. CASE AskIsCancelled \/ AskExpires \/ SessionInvalidated
    <3>1. PICK st \in {"interrupted", "expired"} : envelopes' = Closed(st)
      BY <2>2 DEF AskIsCancelled, AskExpires, SessionInvalidated
    <3>2. QED
      BY <3>1, ClosedOK
  <2>3. CASE Overdue
    <3>1. PICK i \in DOMAIN envelopes : envelopes' = [envelopes EXCEPT ![i].overdue = TRUE]
      BY <2>3 DEF Overdue
    <3>2. envelopes[i] \in Envelope
      BY <1>1
    <3>3. [envelopes[i] EXCEPT !.overdue = TRUE] \in Envelope
      BY <3>2 DEF Envelope
    <3>4. \A j \in DOMAIN envelopes : envelopes'[j].status = envelopes[j].status
      BY <1>1, <3>1, <3>2 DEF Envelope
    <3>5. QED
      BY <1>1, <3>1, <3>3, <3>4
  <2>4. QED
    BY <2>1, <2>2, <2>3
<1>4. Ordered(envelopes') /\ DOMAIN envelopes' = DOMAIN envelopes
  BY <1>1, <1>3, NothingReopened
<1>5. Unspent(envelopes) => Unspent(envelopes')
  BY <1>3, <1>4 DEF Unspent, With, Open
<1>6. QED
  BY <1>1, <1>2, <1>3, <1>4, <1>5
     DEF GrantInv, GrantTypeOK, Ordered, MidTurnIsHead, HasTurn, CheckStands

-----------------------------------------------------------------------------
LEMMA GrantStepOK ==
  GrantInv /\ [GrantNext]_grantVars =>
    GrantInv' /\ (executed' > executed => With(envelopes, "consumed") = {})
<1> SUFFICES ASSUME GrantInv, [GrantNext]_grantVars
             PROVE  GrantInv' /\ (executed' > executed => With(envelopes, "consumed") = {})
  OBVIOUS
<1>1. executed \in Nat
  BY DEF GrantInv, GrantTypeOK
<1>2. CASE UNCHANGED grantVars
  BY <1>1, <1>2 DEF grantVars, GrantInv, GrantTypeOK, Ordered, OneOpen, NothingOpenBeforeSpent,
                    MidTurnIsHead, HasTurn, CheckStands, Unspent, With
<1>3. ASSUME NEW r \in Retries,
             \/ CallArrives(r) \/ AuthorizeChecks(r) \/ AuthorizeAnswered(r)
             \/ ExecutionArrives(r) \/ ExecutionChecks(r) \/ ExecutionAnswered(r)
      PROVE  GrantInv' /\ (executed' > executed => With(envelopes, "consumed") = {})
  BY <1>1, <1>3, AuthorizeOK, ExecutionOK
<1>4. CASE \/ AsksDirector \/ Approves \/ ApproveChecks
           \/ \E allowed, kept \in BOOLEAN : ApproveEvaluated(allowed, kept)
  BY <1>1, <1>4, ApproverOK
<1>5. CASE \/ AnsweredInWords \/ AskIsCancelled \/ AskExpires \/ SessionInvalidated
           \/ GateChanges \/ Overdue
  BY <1>1, <1>5, EndingOK
<1>6. QED
  BY <1>2, <1>3, <1>4, <1>5 DEF GrantNext

\* In the registry of worker-grant.ts at most one envelope of a call is open, none that
\* is older than a spent one, and what a check saw stands until its gate answers.
THEOREM GrantInvariant == GrantSpec => []GrantInv
<1>1. GrantInv /\ [GrantNext]_grantVars => GrantInv'
  BY GrantStepOK
<1>2. QED
  BY <1>1, GrantInitOK, PTL DEF GrantSpec

\* executionVerdictWorkerCall runs a granted call once: when an envelope of the call is
\* spent no identical call executes, however many wait and whatever the gate allows.
THEOREM SpentEndsTheCall == GrantSpec => SpentGrantEndsTheCall
<1>1. GrantInv /\ [GrantNext]_grantVars
        => [executed' > executed => With(envelopes, "consumed") = {}]_grantVars
  BY GrantStepOK
<1>2. QED
  BY <1>1, GrantInvariant, PTL DEF GrantSpec, SpentGrantEndsTheCall
=============================================================================
