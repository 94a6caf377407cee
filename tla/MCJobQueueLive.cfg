CONSTANTS
  plain = plain
  once = once
  byUser = byUser
  bySchedule = bySchedule
  Jobs = {once, bySchedule}
  MaxTries <- McMaxTries
  MaxJobs = 1
  Scoped = {bySchedule}
  ByApi = {}
  MaxStops = 2
SPECIFICATION FairSpec
PROPERTY EveryJobSettles
CHECK_DEADLOCK FALSE
