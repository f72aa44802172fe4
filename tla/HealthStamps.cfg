SPECIFICATION Spec
CONSTANTS
  p1 = p1
  p2 = p2
  p3 = p3
  p4 = p4
  t1 = t1
  Sites <- FourSites
  Audits = {"lighthouse", "browser"}
  Lighthouse = "lighthouse"
  Comes <- SmallOutcomes
  Retests <- OneRetest
  MaxSweeps = 1
  MaxRetests = 1
  MaxTroubles = 1
SYMMETRY SiteSymmetry
CHECK_DEADLOCK FALSE
INVARIANTS
  TypeOK
  RetestTellsTruth
PROPERTIES
  VerdictsOnlyAge
  GreenNightIsFresh
