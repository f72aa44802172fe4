SPECIFICATION FairSpec
CONSTANTS
  Programs <- AllPrograms
  Overlap = FALSE
  Anchored = TRUE
  MaxRows = 2
  MaxMonth = 2
INVARIANTS
  TypeOK
  OnePendingReport
PROPERTIES
  StrandedDraftsAreCompleted
