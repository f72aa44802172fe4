SPECIFICATION Spec
CONSTANTS
  Lead <- FourLeads
  Leads = {"pitch1", "pitch2", "known", "signup"}
  Sites = {"s1", "s2"}
  NoBody = "none"
  Building = {}
  Requests = {q1, q2}
  q1 = q1
  q2 = q2
  MaxPosts = 2
  MaxRestored = 1
  MaxFaults = 1
SYMMETRY RequestSymmetry
INVARIANTS
  TypeOK
  AcceptedLeadsAreKept
  DuplicatesCostFailures
  SpamHasEvidence
  
PROPERTIES
  OperatorDecisionStands
CHECK_DEADLOCK FALSE
