------------------------ MODULE CompactionLifecycle -------------------------
\* The abort race around the reactor's compactor: an interrupt or a rotation cuts
\* a compact short and the rebuilt agent gets a fresh signal, while what was cut
\* short settles whenever its promises do.
EXTENDS Naturals

CONSTANT MaxGeneration      \* bound on compacts started and signals minted

ASSUME MaxGenerationAssumption == MaxGeneration \in Nat

VARIABLES
  controller,       \* the abort controller: the reset that minted it, aborted
  compacting,       \* isCompacting()
  generation,
  applies           \* wrapped applies that have not settled

compactVars == <<controller, compacting, generation, applies>>

CompactInit ==
  /\ controller = [no |-> 0, aborted |-> FALSE]
  /\ compacting = FALSE /\ generation = 0 /\ applies = {}

\* apply(): skipped without a trace on an aborted signal.
ApplyStarts ==
  /\ ~controller.aborted /\ generation < MaxGeneration
  /\ generation' = generation + 1
  /\ compacting' = TRUE
  /\ applies' = applies \union {[gen |-> generation + 1, no |-> controller.no, aborted |-> FALSE]}
  /\ UNCHANGED controller

\* The abort wins the race of every apply that listens on this signal.
AbortCompaction ==
  /\ ~controller.aborted
  /\ controller' = [controller EXCEPT !.aborted = TRUE]
  /\ applies' = {[a EXCEPT !.aborted = @ \/ a.no = controller.no] : a \in applies}
  /\ UNCHANGED <<compacting, generation>>

\* The agent was rebuilt, or its rebuild failed.
ResetCompaction ==
  /\ generation < MaxGeneration
  /\ controller' = [no |-> generation + 1, aborted |-> FALSE]
  /\ compacting' = FALSE
  /\ generation' = generation + 1
  /\ UNCHANGED applies

\* (mutant) Any settle clears the flag.
AnySettleClears(a) ==
  /\ a \in applies
  /\ applies' = applies \ {a}
  /\ compacting' = FALSE
  /\ UNCHANGED <<controller, generation>>

\* The inner compactor or the abort settles it; only a current one clears the flag.
ApplySettles(a) ==
  /\ a \in applies
  /\ applies' = applies \ {a}
  /\ compacting' = (compacting /\ a.gen # generation)
  /\ UNCHANGED <<controller, generation>>

CompactNext ==
  \/ ApplyStarts \/ AbortCompaction \/ ResetCompaction
  \/ \E a \in applies : ApplySettles(a)

CompactSpec == CompactInit /\ [][CompactNext]_compactVars

-----------------------------------------------------------------------------
\* isCompacting() says that the newest compact is on its way, however many older
\* ones settle late: it is true exactly while an apply of the current generation
\* is in flight.
FlagIsCurrent == compacting <=> \E a \in applies : a.gen = generation
=============================================================================
