\* Every count of reserved sectors up to three chunks.
CONSTANTS
  MIN_COUNT = 0
  MAX_COUNT = 300
  RSVD_COUNTS <- MCCounts
SPECIFICATION Spec
INVARIANTS TypeOK ReadsInOrder Stage1InPlace Stage0Survives
\* stage0 jumps to stage1, or halts
CHECK_DEADLOCK FALSE
