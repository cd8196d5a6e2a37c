CONSTANTS
  Outcomes <- MCOutcomes
  Day <- MCDay
  QueueCap = 2
  BatchCap = 2
  CriticalWindow = 2
  DedupWindow = 2
  RawRetention = 1
  DailyRetention = 2
  MaxTick = 2
  MaxRequests = 2
  MaxBackfills = 1
  MaxFaults = 1
SPECIFICATION AlertSpec
CHECK_DEADLOCK FALSE
INVARIANTS EventsReachTheTable DuplicatesNeedOverlap FailuresAlerted
PROPERTIES RecentDaysKept
