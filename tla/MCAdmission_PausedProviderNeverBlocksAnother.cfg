SPECIFICATION MCSpec
CONSTANTS
  Followed = {"admission"}
  MaxTyped = 3
  MaxStops = 1
  r1 = r1
  r2 = r2
  r3 = r3
  Spawns = {r1, r2, r3}
  Eligible = Eligible
  NoRecord = NoRecord
  s1 = s1
  s2 = s2
  Shells = {s1, s2}
  MaxRunning = 1
  j1 = j1
  j2 = j2
  j3 = j3
  pa = pa
  pb = pb
  Jobs = {j1, j2, j3}
  Providers = {pa, pb}
  ProviderOf <- MCProviderOf
  Bypass = {j2}
  CapacityInputs = {1, 2}
  MaxClock = 3
INVARIANT PausedProviderNeverBlocksAnother
