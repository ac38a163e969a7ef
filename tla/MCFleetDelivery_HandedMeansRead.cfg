SPECIFICATION MCSpec
CONSTANTS
  Followed = {"fleet"}
  MaxTurns = 0
  SegmentTurns = 1
  MaxFaults = 0
  N = 1
  MaxCalls = 1
  MaxRecords = 1
CHECK_DEADLOCK FALSE
INVARIANT HandedMeansRead
