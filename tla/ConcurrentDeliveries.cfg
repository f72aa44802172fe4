SPECIFICATION Spec
CONSTANTS
  Emails <- OneEmail
  Overlap = TRUE
  LateStamps = FALSE
  MaxFaults = 0
PROPERTIES
  NeverDowngraded
CHECK_DEADLOCK FALSE
