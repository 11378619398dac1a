\* Sectors of two bytes, clusters of two sectors, chains of up to three clusters:
\* ended, cyclic, bad and torn.  Buffers below, on and above the extended stack.
CONSTANTS
  BYTES_PER_SECTOR = 2
  SECTORS_PER_CLUSTER = 2
  FIRST_DATA_SECTOR = 5
  FAT_END = 6
  EXTENDED_STACK_LIMIT = 8
  EXTENDED_STACK_BASE = 19
  PARAGRAPH = 2
  MAX_WORD = 7
  MEMORY_SIZE = 29
  OFFSETS = {0, 1, 2, 3, 5}
  LENGTHS = {0, 1, 2, 5, 8}
  BUFFERS = {0, 10, 13, 16, 21}
  LINKS2 = {0, 3, 5}
  LINKS3 = {2, 4, 5, 6}
  LINKS4 = {2, 6}
  LINKSBAD = {4, 5, 6}
  FATS <- MCFats
  REQUESTS <- MCRequests
SPECIFICATION FairSpec
INVARIANTS FatReadTypeOK WritesOnlyBuffer StackBalanced RoomForOnePartIsEnough
PROPERTIES ImplementsFileRead ReadEndsOrStaysBad
\* fat_read returns, or panics
CHECK_DEADLOCK FALSE
