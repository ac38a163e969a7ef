SPECIFICATION MCSpec
CONSTANTS
  Followed = {"fleet", "turns"}
  MaxTurns = 4
  SegmentTurns = 2
  MaxFaults = 2
  N = 2
  MaxCalls = 1
  MaxRecords = 1
INVARIANTS
  RestartFindsTheTurns
  PinnedResultSurvives
  OneClaimEach
  PayloadsCapped
PROPERTY CommitPublishesMemory
CHECK_DEADLOCK FALSE
