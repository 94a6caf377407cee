CONSTANTS
  plain = plain
  once = once
  byUser = byUser
  bySchedule = bySchedule
  Jobs = {plain, byUser}
  MaxTries <- McMaxTries
  MaxJobs = 2
  Scoped = {byUser}
  ByApi = {byUser}
  MaxStops = 1
SPECIFICATION Spec
INVARIANTS RunsKeepLeaseAndScope TriesAreCounted ScopeLossExplained
PROPERTY ImplementsLedger
CHECK_DEADLOCK FALSE
