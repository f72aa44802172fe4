SPECIFICATION Spec
CONSTANTS
  Keys <- ThreeKeys
  Critical = {"vuln"}
  Noisy = {"lighthouse"}
  Slow = {"renovate"}
  Metrics <- SmallMetrics
  Heartbeat = 2
  Memory = 3
  Tolerance = 1
  WatchDays = 2
  MaxDays = 5
  DayRuns = 2
  MaxFaults = 1
CHECK_DEADLOCK FALSE
INVARIANTS
  TypeOK
  OneMailADay
  LogOnlyClaimsMail
PROPERTIES
  NewsIsMailed
  CriticalRisesAreMailed
  HeartbeatIsKept
  SlowItemsSurface
