SPECIFICATION Spec
CONSTANTS
  Programs <- Scheduled
  Overlap = FALSE
  Anchored = FALSE
  MaxRows = 3
  MaxMonth = 2
INVARIANTS
  OneDraftPerPeriod
  NoPileUp
