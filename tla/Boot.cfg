\* Every text on one disk, every path on disks of every shape, one text on disks of
\* every geometry.  Sizes of strings and buffers are small, the thresholds of the FAT
\* types and the numbers of the end marks are the real ones.
CONSTANTS
  EXTENDED_STACK_LIMIT = 0
  EXTENDED_STACK_BASE = 150
  MOUNT_BUFFER = 64
  UINT32 = 1048576
  FAT_MAX_LENGTH_SHORT_NAME = 2
  FAT_MAX_LENGTH_SHORT_EXTENSION = 1
  MAX_NAME_LEN = 5
  PARSER_KEY_MAX_LENGTH = 2
  PARSER_VALUE_MAX_LENGTH = 7
  LOAD_OFFSET_STR = 6
  JUNK = {"NUL", "b"}
  UPPER_CASE <- MCUpperCase
  DIGITS <- MCDigits
  BOOT_OPTIONS_BOOT_BINARY_KEY <- MCBinaryKey
  BOOT_OPTIONS_LOAD_OFFSET_KEY <- MCOffsetKey
  BOOT_OPTIONS_TXT <- MCOptionsTxt
  UNINITIALISED <- MCUninitialised
  HEADERS <- MCHeaders
  TEXTS <- MCTexts
  DISKS <- MCDisks
SPECIFICATION FairSpec
INVARIANTS BootTypeOK MountedFromTheStart StackHoldsWhatIsInUse PanicsOnlyForRoom ParsesLines PairsStayInBuffers BootsNamedBinary
PROPERTIES ImplementsPathWalk BootEndsOrSearchIsEndless
\* main ends in the binary, a message or a panic
CHECK_DEADLOCK FALSE
