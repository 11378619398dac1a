----------------------------- MODULE MCSysInfo -----------------------------
EXTENDS SysInfo

CONSTANTS BASES, SIZES, TYPES   \* of the regions the firmware may report

MCRegions == [base_addr : BASES, size : SIZES, type : TYPES]
=============================================================================
