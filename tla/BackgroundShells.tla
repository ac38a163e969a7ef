-------------------------- MODULE BackgroundShells --------------------------
\* Shells that run on past the end of a turn.  The child's own events (error, exit,
\* close), the per-call timeout, a stop and the disposal of the tool set race to
\* settle each of them.
EXTENDS Naturals, FiniteSets

CONSTANTS
  Shells,       \* run_shell calls with background
  MaxRunning    \* MAX_RUNNING_BACKGROUND_SHELLS

ASSUME MaxRunningAssumption == MaxRunning \in Nat

VARIABLES
  shellAt,      \* idle, wrapping, spawned, draining (exited, grace timer set), over
  running,      \* the registry's map
  ending,       \* children whose process group was killed
  told,         \* history: onExit calls of each shell
  disposed      \* history: shells disposeAll has cleared

shellVars == <<shellAt, running, ending, told, disposed>>

ShellsInit ==
  /\ shellAt = [s \in Shells |-> "idle"] /\ running = {} /\ ending = {}
  /\ told = [s \in Shells |-> 0] /\ disposed = {}

ShellTo(s, pc) == shellAt' = [shellAt EXCEPT ![s] = pc]

\* record(): the first settlement takes the shell off the map and reports it.
SettlesShell(s) ==
  /\ running' = running \ {s}
  /\ told' = [told EXCEPT ![s] = IF s \in running THEN @ + 1 ELSE @]

\* The limit is looked at before the sandbox wrap is awaited.
Starts(s) ==
  /\ shellAt[s] = "idle"
  /\ ShellTo(s, IF Cardinality(running) < MaxRunning THEN "wrapping" ELSE "over")
  /\ UNCHANGED <<running, ending, told, disposed>>

WrapFails(s) ==
  /\ shellAt[s] = "wrapping"
  /\ ShellTo(s, "over")
  /\ UNCHANGED <<running, ending, told, disposed>>

Spawned(s) ==
  /\ shellAt[s] = "wrapping"
  /\ ShellTo(s, "spawned") /\ running' = running \union {s}
  /\ UNCHANGED <<ending, told, disposed>>

\* The per-call timer kills the group; an error or an exit clears it.
TimesOut(s) ==
  /\ shellAt[s] = "spawned" /\ s \in running
  /\ ending' = ending \union {s}
  /\ SettlesShell(s)
  /\ UNCHANGED <<shellAt, disposed>>

SpawnErrs(s) ==
  /\ shellAt[s] = "spawned"
  /\ ShellTo(s, "over")
  /\ SettlesShell(s)
  /\ UNCHANGED <<ending, disposed>>

\* The child exits, of itself or because it was killed.
Exits(s) ==
  /\ shellAt[s] = "spawned"
  /\ ShellTo(s, IF s \in running THEN "draining" ELSE "over")
  /\ UNCHANGED <<running, ending, told, disposed>>

\* (mutant) The completion waits for the pipe to close.
NoGrace(s) == FALSE /\ UNCHANGED shellVars

\* The grace timer, or close before it: a grandchild may hold the pipe for ever.
DrainOver(s) ==
  /\ shellAt[s] = "draining"
  /\ ShellTo(s, "over")
  /\ SettlesShell(s)
  /\ UNCHANGED <<ending, disposed>>
GraceEnds(s) == DrainOver(s)
PipeCloses(s) == DrainOver(s)

\* run_shell stop=<id>.
Cancels(s) ==
  /\ s \in running \ ending
  /\ ending' = ending \union {s}
  /\ UNCHANGED <<shellAt, running, told, disposed>>

DisposeAll ==
  /\ running # {}
  /\ ending' = ending \union running
  /\ disposed' = disposed \union running
  /\ running' = {}
  /\ UNCHANGED <<shellAt, told>>

-----------------------------------------------------------------------------
ShellsNext ==
  \/ \E s \in Shells :
       \/ Starts(s) \/ WrapFails(s) \/ Spawned(s) \/ TimesOut(s) \/ SpawnErrs(s)
       \/ Exits(s) \/ GraceEnds(s) \/ PipeCloses(s) \/ Cancels(s)
  \/ DisposeAll

\* A killed child exits, and the grace timer fires.
ShellsFairness ==
  \A s \in Shells : WF_shellVars(GraceEnds(s)) /\ WF_shellVars(s \in ending /\ Exits(s))

-----------------------------------------------------------------------------
\* "A grandchild holding the pipe must not delay the completion message": a shell
\* that has exited or was stopped is reported, exactly once, unless the session that
\* started it was disposed of.
ExitIsReported ==
  \A s \in Shells :
    (s \in running /\ (shellAt[s] = "draining" \/ s \in ending))
      ~> (s \notin running /\ (told[s] = 1 \/ s \in disposed))
=============================================================================
