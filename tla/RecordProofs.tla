---------------------------- MODULE RecordProofs ----------------------------
(***************************************************************************)
(* TLAPS proofs about RunRecords, for chains of any length.                *)
(***************************************************************************)
EXTENDS RunRecords, TLAPS

Statuses == {"none", "running", "ended"}

RecordTypeOK ==
  /\ current \in SessionIds /\ handle \in SessionIds \union {0}
  /\ savedTo \in SessionIds \union {0}
  /\ finalized \in BOOLEAN /\ crashed \in BOOLEAN /\ failed \in BOOLEAN /\ straddled \in BOOLEAN
  /\ chain \in [SessionIds -> Seq(Statuses)] /\ writing \in [SessionIds -> BOOLEAN]
  /\ record \in [SessionIds -> Statuses]
  /\ rotation \in {"idle", "teardown", "closing", "building", "done"}
  /\ dying \in {"none", "teardown", "saving", "saved", "over"}
  /\ renaming \in [session : SessionIds, status : Statuses] \union {NoRename}

\* One rotation at most, and it starts from the first session.
OneRotation == rotation \in {"idle", "teardown", "closing"} => current = 1

\* A write past the fence is the head of its chain.
WritesAreQueued == \A s \in SessionIds : writing[s] => chain[s] # <<>>

\* The fence: once it is up nothing passes it, and what had passed it is known.
Fenced ==
  /\ crashed => dying # "none"
  /\ dying # "none" => crashed
  /\ straddled => crashed
  /\ crashed /\ ~straddled => \A s \in SessionIds : ~writing[s]

\* The session the crash write names is one that exists.
CrashNamesASession == dying = "saving" => savedTo # 0

\* The inductive invariant.
RecordInv ==
  /\ RecordTypeOK /\ OneRotation /\ WritesAreQueued /\ Fenced /\ CrashNamesASession
  /\ CrashRecordStands

-----------------------------------------------------------------------------
LEMMA RecordInitOK == RecordInit => RecordInv
<1> SUFFICES ASSUME RecordInit
             PROVE  RecordInv
  OBVIOUS
<1>1. chain \in [SessionIds -> Seq(Statuses)]
  <2>1. <<>> \in Seq(Statuses)
    OBVIOUS
  <2>2. QED
    BY <2>1 DEF RecordInit
<1>2. RecordTypeOK
  <2>1. record \in [SessionIds -> Statuses]
    BY DEF RecordInit, Statuses
  <2>2. writing \in [SessionIds -> BOOLEAN]
    BY DEF RecordInit
  <2>3. current \in SessionIds /\ handle \in SessionIds /\ savedTo = 0
    BY DEF RecordInit, SessionIds
  <2>4. /\ finalized = FALSE /\ crashed = FALSE /\ failed = FALSE /\ straddled = FALSE
        /\ rotation = "idle" /\ dying = "none" /\ renaming = NoRename
    BY DEF RecordInit
  <2>5. QED
    BY <1>1, <2>1, <2>2, <2>3, <2>4 DEF RecordTypeOK
<1>3. OneRotation /\ CrashNamesASession /\ CrashRecordStands
  BY DEF RecordInit, OneRotation, CrashNamesASession, CrashRecordStands
<1>4. WritesAreQueued /\ Fenced
  BY DEF RecordInit, WritesAreQueued, Fenced
<1>5. QED
  BY <1>2, <1>3, <1>4 DEF RecordInv

\* A write that joins a chain disturbs neither the fence nor a record.
LEMMA SavesKeeps ==
  ASSUME RecordInv, NEW s \in SessionIds, NEW status \in Statuses, Saves(s, status)
  PROVE  chain' \in [SessionIds -> Seq(Statuses)] /\ \A q \in SessionIds : writing[q] => chain'[q] # <<>>
<1>1. chain[s] \in Seq(Statuses)
  BY DEF RecordInv, RecordTypeOK
<1>2. Append(chain[s], status) \in Seq(Statuses)
  BY <1>1
<1>3. Len(Append(chain[s], status)) = Len(chain[s]) + 1 /\ Len(chain[s]) \in Nat
  BY <1>1
<1>4. Append(chain[s], status) # <<>>
  BY <1>3
<1>5. QED
  BY <1>2, <1>4 DEF RecordInv, RecordTypeOK, WritesAreQueued, Saves

\* The head of a chain is taken off it.
LEMMA TailKeeps ==
  ASSUME RecordInv, NEW s \in SessionIds, chain[s] # <<>>
  PROVE  Head(chain[s]) \in Statuses /\ Tail(chain[s]) \in Seq(Statuses)
BY DEF RecordInv, RecordTypeOK

LEMMA ChainStepOK ==
  ASSUME RecordInv, NEW s \in SessionIds
  PROVE  /\ WriteStarts(s) => RecordInv'
         /\ \A landed \in BOOLEAN : WriteEnds(s, landed) => RecordInv'
<1> USE DEF RecordInv, RecordTypeOK, OneRotation, WritesAreQueued, Fenced, CrashNamesASession,
            CrashRecordStands, ProcessUnchanged, ActorsUnchanged
<1>1. ASSUME WriteStarts(s)
      PROVE  RecordInv'
  <2>1. CASE crashed
    <3>1. chain[s] # <<>> /\ ~writing[s] /\ Tail(chain[s]) \in Seq(Statuses)
      BY <1>1, TailKeeps DEF WriteStarts
    <3>2. chain' = [chain EXCEPT ![s] = Tail(chain[s])] /\ writing' = writing
      BY <1>1, <2>1 DEF WriteStarts
    <3>3. chain' \in [SessionIds -> Seq(Statuses)] /\ WritesAreQueued'
      BY <3>1, <3>2
    <3>4. QED
      BY <1>1, <3>2, <3>3 DEF WriteStarts
  <2>2. CASE ~crashed
    BY <1>1, <2>2 DEF WriteStarts
  <2>3. QED
    BY <2>1, <2>2
<1>2. ASSUME NEW landed \in BOOLEAN, WriteEnds(s, landed)
      PROVE  RecordInv'
  <2>1. writing[s] /\ chain[s] # <<>>
    BY <1>2 DEF WriteEnds
  <2>2. crashed => straddled
    BY <2>1
  <2>3. record' \in [SessionIds -> Statuses]
    BY <1>2, <2>1, TailKeeps DEF WriteEnds
  <2>4. QED
    BY <1>2, <2>1, <2>2, <2>3, TailKeeps DEF WriteEnds
<1>3. QED
  BY <1>1, <1>2

LEMMA OperatorStepOK ==
  ASSUME RecordInv, Snapshot \/ RenameReads \/ RenameSaves
  PROVE  RecordInv'
<1> USE DEF RecordInv, RecordTypeOK, OneRotation, WritesAreQueued, Fenced, CrashNamesASession,
            CrashRecordStands, ProcessUnchanged, ActorsUnchanged
<1>1. CASE Snapshot
  BY <1>1, SavesKeeps DEF Snapshot, Statuses
<1>2. CASE RenameReads
  BY <1>2 DEF RenameReads, Statuses
<1>3. CASE RenameSaves
  <2>1. renaming.session \in SessionIds
    BY <1>3 DEF RenameSaves
  <2>2. QED
    BY <1>3, <2>1, SavesKeeps DEF RenameSaves, NoRename, SessionIds, Statuses
<1>4. QED
  BY <1>1, <1>2, <1>3

LEMMA RotationStepOK ==
  ASSUME RecordInv,
         \/ RotationBegins \/ RotationClosesOut
         \/ \E built \in BOOLEAN : RotationRepoints(built) \/ RotationEnds(built)
  PROVE  RecordInv'
<1> USE DEF RecordInv, RecordTypeOK, OneRotation, WritesAreQueued, Fenced, CrashNamesASession,
            CrashRecordStands, ProcessUnchanged, ActorsUnchanged
<1>1. CASE RotationBegins
  BY <1>1 DEF RotationBegins
<1>2. CASE RotationClosesOut
  BY <1>2, SavesKeeps DEF RotationClosesOut, Statuses
<1>3. ASSUME NEW built \in BOOLEAN, RotationRepoints(built)
      PROVE  RecordInv'
  BY <1>3 DEF RotationRepoints, SessionIds
<1>4. ASSUME NEW built \in BOOLEAN, RotationEnds(built)
      PROVE  RecordInv'
  BY <1>4, SavesKeeps DEF RotationEnds, Statuses
<1>5. QED
  BY <1>1, <1>2, <1>3, <1>4

LEMMA QuitStepOK ==
  ASSUME RecordInv,
         HostMounts \/ QuitBegins \/ QuitDrains \/ QuitClosesOut \/ CaughtBegins
           \/ CaughtClosesOut \/ QuitExits
  PROVE  RecordInv'
<1> USE DEF RecordInv, RecordTypeOK, OneRotation, WritesAreQueued, Fenced, CrashNamesASession,
            CrashRecordStands, ProcessUnchanged, ActorsUnchanged
<1>1. CASE HostMounts \/ QuitBegins \/ QuitDrains \/ QuitExits
  BY <1>1 DEF HostMounts, QuitBegins, QuitDrains, QuitExits
<1>2. CASE QuitClosesOut
  BY <1>2, SavesKeeps DEF QuitClosesOut, Statuses
<1>3. CASE CaughtBegins
  BY <1>3 DEF CaughtBegins
<1>4. CASE CaughtClosesOut
  BY <1>4, SavesKeeps DEF CaughtClosesOut, Statuses
<1>5. QED
  BY <1>1, <1>2, <1>3, <1>4

LEMMA FatalStepOK ==
  ASSUME RecordInv,
         FatalBegins \/ FatalSaves \/ (\E landed \in BOOLEAN : FatalSaved(landed)) \/ FatalExits
  PROVE  RecordInv'
<1> USE DEF RecordInv, RecordTypeOK, OneRotation, WritesAreQueued, Fenced, CrashNamesASession,
            CrashRecordStands, ProcessUnchanged, ActorsUnchanged
<1>1. CASE FatalBegins
  BY <1>1 DEF FatalBegins
<1>2. CASE FatalSaves
  BY <1>2 DEF FatalSaves
<1>3. ASSUME NEW landed \in BOOLEAN, FatalSaved(landed)
      PROVE  RecordInv'
  BY <1>3 DEF FatalSaved, Statuses
<1>4. CASE FatalExits
  BY <1>4 DEF FatalExits
<1>5. QED
  BY <1>1, <1>2, <1>3, <1>4

LEMMA RecordStepOK == RecordInv /\ [RecordNext]_recordVars => RecordInv'
<1> SUFFICES ASSUME RecordInv, [RecordNext]_recordVars
             PROVE  RecordInv'
  OBVIOUS
<1>1. CASE RecordNext
  BY <1>1, ChainStepOK, OperatorStepOK, RotationStepOK, QuitStepOK, FatalStepOK DEF RecordNext
<1>2. CASE UNCHANGED recordVars
  BY <1>2 DEF recordVars, RecordInv, RecordTypeOK, OneRotation, WritesAreQueued, Fenced,
              CrashNamesASession, CrashRecordStands
<1>3. QED
  BY <1>1, <1>2

\* The fence holds in every state, however the chains, the quit, the rotation and
\* the crash handlers interleave.
THEOREM RecordInvariant == RecordSpec => []RecordInv
BY RecordInitOK, RecordStepOK, PTL DEF RecordSpec

\* The record a crash or a signal leaves is final, for chains of any length.
THEOREM CrashRecordIsFinal == RecordSpec => []CrashRecordStands
<1>1. RecordInv => CrashRecordStands
  BY DEF RecordInv
<1>2. QED
  BY <1>1, RecordInvariant, PTL
=============================================================================
