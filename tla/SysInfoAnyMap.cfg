\* Any map: three regions in any order, overlapping in any way.
CONSTANTS
  ADDR_MOD = 8
  MAX_REGIONS = 12
  REAL_MODE_LIMIT = 2
  BASES = {0, 2, 3}
  SIZES = {0, 1, 4}
  TYPES = {1, 2, 3}
  MAX_REPORTS = 3
  ORDERED_BIOS = FALSE
  BIOS_REGIONS <- MCRegions
SPECIFICATION Spec
INVARIANTS LowMemoryReserved InsertedIsKept
PROPERTY NeverLessRestricted
\* get_sysinfo returns, or panics
CHECK_DEADLOCK FALSE
