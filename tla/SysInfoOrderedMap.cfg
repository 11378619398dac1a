\* A map in order and without overlaps, with and without gaps, and a static
\* stack small enough to run full at each of the three places that allocate.
CONSTANTS
  ADDR_MOD = 14
  MAX_REGIONS = 7
  REAL_MODE_LIMIT = 2
  BASES = {0, 3, 5, 8, 10}
  SIZES = {1, 3}
  TYPES = {1, 2, 3}
  MAX_REPORTS = 5
  ORDERED_BIOS = TRUE
  BIOS_REGIONS <- MCRegions
SPECIFICATION FairSpec
INVARIANTS SysInfoTypeOK Disjoint Sorted TypesAreKept UsableIsReported
PROPERTY Terminates
\* get_sysinfo returns, or panics
CHECK_DEADLOCK FALSE
