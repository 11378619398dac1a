\* One segment whose end passes the last 32-bit address.
CONSTANTS
  ADDR_MOD = 32
  PTR_MOD = 16
  MAX_REGIONS = 8
  REAL_MODE_LIMIT = 2
  BASES = {0}
  SIZES = {8}
  TYPES = {1}
  MAX_REPORTS = 1
  ORDERED_BIOS = TRUE
  BIOS_REGIONS <- MCRegions
  VADDRS = {6, 15}
  FILESZS = {1, 3}
  MEMSZS = {3}
  SEGMENTS <- MCSegments
  MAX_SEGMENTS = 1
  STACK_RESERVE = 1
  STACK_ALIGN = 2
SPECIFICATION BootSpec
INVARIANT NothingLoadedLow
CHECK_DEADLOCK FALSE
