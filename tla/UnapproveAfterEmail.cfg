SPECIFICATION Spec
CONSTANTS
  r1 = r1
  r2 = r2
  s1 = s1
  NoReport = NoReport
  Reports <- OneChecked
  TopTier = {}
  Launches = {}
  Sessions <- OneSession
  MaxApprovals = 2
  MaxEdits = 1
  MaxLapses = 1
PROPERTIES
  NoUnapproveAfterEmail
