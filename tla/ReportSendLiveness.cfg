SPECIFICATION FairSpec
CONSTANTS
  r1 = r1
  r2 = r2
  s1 = s1
  NoReport = NoReport
  Reports <- OneLaunch
  TopTier <- OneLaunch
  Launches <- OneLaunch
  Sessions <- OneSession
  MaxApprovals = 2
  MaxEdits = 1
  MaxLapses = 1
PROPERTIES
  ApprovedReportsSettle
