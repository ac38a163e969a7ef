SPECIFICATION FairHostSpec
CONSTANTS
  Followed = {"approvals", "refresh", "compaction", "grants"}
  c1 = c1
  c2 = c2
  NoCall = NoCall
  Calls = {c1, c2}
  Budgets <- MCBudgets
  p1 = p1
  p2 = p2
  Procs = {p1, p2}
  Gone = Gone
  NoProc = NoProc
  MaxGeneration = 5
  r1 = r1
  r2 = r2
  r3 = r3
  Retries = {r1, r2, r3}
  Approver = Approver
INVARIANTS
  TypeOK
  RunsAtMostOnce
  DroppedIsRemembered
  NoTurnForDroppedCall
  NoReplay
  FlagIsCurrent
PROPERTIES
  ApprovedInItsGeneration
  QueueDrains
  DeadHolderIsReplaced
  SpentGrantEndsTheCall
CHECK_DEADLOCK FALSE
