\* One usable region and a segment that ends where the region ends.
CONSTANTS
  ADDR_MOD = 32
  PTR_MOD = 16
  MAX_REGIONS = 8
  REAL_MODE_LIMIT = 2
  BASES = {0}
  SIZES = {8}
  TYPES = {1}
  MAX_REPORTS = 1
  ORDERED_BIOS = TRUE
  BIOS_REGIONS <- MCRegions
  VADDRS = {4, 6}
  FILESZS = {1}
  MEMSZS = {2}
  SEGMENTS <- MCSegments
  MAX_SEGMENTS = 1
  STACK_RESERVE = 1
  STACK_ALIGN = 2
SPECIFICATION FairBootSpec
PROPERTY BootEnds
CHECK_DEADLOCK FALSE
