SPECIFICATION Spec
CONSTANTS
  u = u
  w = w
  c1 = c1
  r1 = r1
  r2 = r2
  a1 = a1
  a2 = a2
  a3 = a3
  none = none
  Urls <- TwoUrls
  SiteOf <- SiteKey
  Clicks <- OneClick
  Runs <- TwoRuns
  Cap = 2
  Duplicate = 0
  RunLimit = 1
  Stale = 2
  Window = 3
  RowIds <- ThreeRows
  Bills = {1, 2, 3}
  None = none
  MaxFaults = 1
SYMMETRY SlotSymmetry
INVARIANTS
  TypeOK
  CapHolds
  SpendingRunsAreCounted
  OneSlotPerAudit
PROPERTIES
  ReportsAreKept
