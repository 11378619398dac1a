\* Counts around the largest chunk and around two of them.
CONSTANTS
  MIN_COUNT = 126
  MAX_COUNT = 256
  RSVD_COUNTS <- MCCounts
SPECIFICATION Spec
INVARIANT DestinationAdvances
CHECK_DEADLOCK FALSE
