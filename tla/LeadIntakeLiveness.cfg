SPECIFICATION FairSpec
CONSTANTS
  Lead <- OnBuildingSite
  Leads = {"pitch1", "pitch2"}
  Sites = {"s1", "s2"}
  NoBody = "none"
  Building = {"s2"}
  Requests = {"q1"}
  MaxPosts = 2
  MaxRestored = 0
  MaxFaults = 1
PROPERTIES
  QueuedLeadsSettle
CHECK_DEADLOCK FALSE
