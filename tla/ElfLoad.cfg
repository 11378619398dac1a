\* Two regions of the firmware, up to three segments: at the start of a usable region,
\* in its middle, bordering and touching.
CONSTANTS
  ADDR_MOD = 32
  PTR_MOD = 16
  MAX_REGIONS = 8
  REAL_MODE_LIMIT = 2
  BASES = {0, 4, 14}
  SIZES = {4, 6}
  TYPES = {1, 2}
  MAX_REPORTS = 2
  ORDERED_BIOS = TRUE
  BIOS_REGIONS <- MCRegions
  VADDRS = {1, 2, 4, 5, 6, 7, 9}
  FILESZS = {0, 1}
  MEMSZS = {0, 1, 2}
  SEGMENTS <- MCSegments
  MAX_SEGMENTS = 3
  STACK_RESERVE = 1
  STACK_ALIGN = 2
SPECIFICATION FairBootSpec
INVARIANTS ElfTypeOK SparesRestricted SegmentsApart BinaryIsListed InsertedSurvivesLoading BinaryNotUsable StackInLargestRegion
PROPERTY BootEndsOrCutsForever
\* the boot ends in the binary, in an error message or in panic
CHECK_DEADLOCK FALSE
