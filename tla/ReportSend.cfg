SPECIFICATION Spec
CONSTANTS
  r1 = r1
  r2 = r2
  s1 = s1
  NoReport = NoReport
  Reports <- Both
  TopTier <- OneLaunch
  Launches <- OneLaunch
  Sessions <- OneSession
  MaxApprovals = 2
  MaxEdits = 0
  MaxLapses = 1
INVARIANTS
  TypeOK
  SentMeansEmailed
  ClaimInvariant
  GreenRunIsRecorded
PROPERTIES
  DeliverySpec
  EmailsOnlyUnderApproval
  ClosedReportsStayClosed
