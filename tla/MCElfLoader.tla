---------------------------- MODULE MCElfLoader ----------------------------
EXTENDS ElfLoader

CONSTANTS
  BASES, SIZES, TYPES,      \* of the regions the firmware may report
  VADDRS, FILESZS, MEMSZS   \* of the segments of the binary

MCRegions == [base_addr : BASES, size : SIZES, type : TYPES]

\* the ELF format has p_filesz <= p_memsz
MCSegments ==
  {s \in [p_vaddr : VADDRS, p_filesz : FILESZS, p_memsz : MEMSZS] :
     s.p_filesz <= s.p_memsz}
=============================================================================
