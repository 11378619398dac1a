\* Usable memory and the region behind it, which the firmware may mark as the last; a
\* segment in the one or at the start of the other.
CONSTANTS
  ADDR_MOD = 32
  PTR_MOD = 16
  MAX_REGIONS = 8
  REAL_MODE_LIMIT = 2
  BASES = {0, 8}
  SIZES = {4}
  TYPES = {1, 2}
  MAX_REPORTS = 2
  ORDERED_BIOS = TRUE
  BIOS_REGIONS <- MCRegions
  VADDRS = {3, 8}
  FILESZS = {1}
  MEMSZS = {1}
  SEGMENTS <- MCSegments
  MAX_SEGMENTS = 1
  STACK_RESERVE = 1
  STACK_ALIGN = 2
SPECIFICATION BootSpec
INVARIANT RefusesReserved
CHECK_DEADLOCK FALSE
