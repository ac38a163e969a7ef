SPECIFICATION MCFair
CONSTANTS
  Followed = {"admission", "delivery", "recovery", "shells"}
  MaxTyped = 3
  MaxStops = 1
  r1 = r1
  r2 = r2
  r3 = r3
  Spawns = {r1, r2, r3}
  Eligible = Eligible
  NoRecord = NoRecord
  s1 = s1
  s2 = s2
  Shells = {s1, s2}
  MaxRunning = 1
  j1 = j1
  j2 = j2
  j3 = j3
  pa = pa
  pb = pb
  Jobs = {j1, j2, j3}
  Providers = {pa, pb}
  ProviderOf <- MCProviderOf
  Bypass = {j2}
  CapacityInputs <- MCCapacityInputs
  MaxClock = 3
INVARIANTS
  OneRecordPerJob
  NoIdleSlot
  SomethingWakes
  PauseHasTimer
  QueuedInOnePlace
  OneReplacementRuns
  ClaimIsHonest
PROPERTIES
  FifoAmongAdmissible
  KeepsPromise
  Started
  StaleNeverDelivered
  DrainedSettles
  ExitIsReported
CHECK_DEADLOCK FALSE
