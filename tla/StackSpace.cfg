\* A usable region with room below the last 32-bit address (16), and a larger one of
\* another type that lies above it as a whole: the two are not merged.
CONSTANTS
  ADDR_MOD = 32
  PTR_MOD = 16
  MAX_REGIONS = 8
  REAL_MODE_LIMIT = 2
  BASES = {0, 16}
  SIZES = {12}
  TYPES = {1, 3}
  MAX_REPORTS = 2
  ORDERED_BIOS = TRUE
  BIOS_REGIONS <- MCRegions
  VADDRS = {6}
  FILESZS = {1}
  MEMSZS = {1}
  SEGMENTS <- MCSegments
  MAX_SEGMENTS = 0
  STACK_RESERVE = 1
  STACK_ALIGN = 2
SPECIFICATION BootSpec
INVARIANT NoSpaceMeansNoSpace
CHECK_DEADLOCK FALSE
