SPECIFICATION FairSpec
CONSTANTS
  Emails <- OneEmail
  Overlap = FALSE
  LateStamps = FALSE
  MaxFaults = 3
INVARIANTS
  TypeOK
  AckedIsRecorded
PROPERTIES
  RecordSpec
  EventsSettle
CHECK_DEADLOCK FALSE
