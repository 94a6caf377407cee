SPECIFICATION MCSpec
CONSTANTS
  Targets = {"board", "page"}
  NoTarget = NoTarget
  Jobs = {"job"}
  Requests = {"request"}
  Ats = {"board"}
  StartTier <- MCStartTier
  MaxTier <- MCMaxTier
  BatchSize = 2
  MaxFaults = 1
  Callers = {1, 2}
  Period = 2
  Capacity = 2
  Threshold = 2
  Timeout = 3
  MaxRetries = 1
  BackoffBase = 1
  MaxTime = 7
  u1 = u1
  u2 = u2
  u3 = u3
  Users = {u1, u2, u3}
  Vendor <- MCVendor
  Lists <- MCLists
  StartTiers = {2}
SYMMETRY Symmetry
CHECK_DEADLOCK FALSE
INVARIANTS
  CountersNeverOverstate
  BatchIsAtomic
  SchedulesAreEarned
  TargetsExplained
PROPERTY
  GateHolds
