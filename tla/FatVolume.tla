----------------------------- MODULE FatVolume -----------------------------
(***************************************************************************)
(* What every operation of stage1/fat.c works on: the volume as fat_mount  *)
(* describes it, memory, and the extended stack of stage1/mem.c that all   *)
(* buffers are pushed on.  Bytes per sector, sectors per cluster and the   *)
(* addresses of include/memory_map.h are parameters.                       *)
(*                                                                         *)
(* A byte is known by where it lies on the disk: data is copied, never     *)
(* looked at.  The file allocation table maps a cluster number to the next *)
(* one; it is a function here, reading an entry costs a buffer on the      *)
(* stack and a read of the disk that may fail.                             *)
(***************************************************************************)
EXTENDS ExtendedStack, Sequences, FiniteSets

CONSTANTS
  BYTES_PER_SECTOR, SECTORS_PER_CLUSTER,
  FIRST_DATA_SECTOR,
  FAT_END,                \* the least value that ends a chain: 0xFF8, 0xFFF8, 0x0FFFFFF8
  FATS,                   \* the file allocation tables the disk may hold
  PARAGRAPH,              \* 16: the unit a segment counts
  MAX_WORD,               \* 0xffff: the largest segment, and the largest offset
  MEMORY_SIZE             \* bound: the part of memory that is modelled

REAL_MODE_LIMIT == MAX_WORD * PARAGRAPH + MAX_WORD

FAT_BAD == FAT_END - 1
FirstCluster == 2
Clusters == 0 .. FAT_BAD
Links == 0 .. FAT_END     \* all the values that end a chain are one

ASSUME GeometryAssumption ==
  /\ BYTES_PER_SECTOR \in Nat \ {0}
  /\ SECTORS_PER_CLUSTER \in Nat \ {0}
  /\ FIRST_DATA_SECTOR \in Nat
  /\ FIRST_DATA_SECTOR >= FirstCluster * SECTORS_PER_CLUSTER
  /\ FAT_END \in Nat /\ FAT_END > FirstCluster
ASSUME FatsAssumption == FATS \subseteq [Clusters -> Links]
ASSUME MemoryMapAssumption ==
  /\ PARAGRAPH \in 1 .. MAX_WORD /\ MAX_WORD \in Nat /\ MEMORY_SIZE \in Nat
  /\ EXTENDED_STACK_BASE <= REAL_MODE_LIMIT
  /\ EXTENDED_STACK_BASE + BYTES_PER_SECTOR <= MEMORY_SIZE
  /\ REAL_MODE_LIMIT <= MEMORY_SIZE

VARIABLES
  fat,            \* the file allocation table
  memory          \* what lies at each address

volumeVars == <<fat, memory, ext_stack_top>>

min(a, b) == IF a < b THEN a ELSE b

Memory == 0 .. MEMORY_SIZE - 1
Byte(sector, at) == [sector |-> sector, at |-> at]
OtherByte == Byte(-1, 0)       \* anything that is not data of the volume
Bytes == [sector : Nat, at : 0 .. BYTES_PER_SECTOR - 1] \cup {OtherByte}

bytes_per_cluster == SECTORS_PER_CLUSTER * BYTES_PER_SECTOR

cluster_to_lba(cluster) ==
  FIRST_DATA_SECTOR + (cluster - FirstCluster) * SECTORS_PER_CLUSTER

\* the address in the packet for the firmware: two words
Segment(address) == min(address \div PARAGRAPH, MAX_WORD)
Offset(address) == (address - Segment(address) * PARAGRAPH) % (MAX_WORD + 1)

\* where the firmware puts what it reads
Target(address) == Segment(address) * PARAGRAPH + Offset(address)

\* memory once disk_read has put n sectors from lba on at address
DiskRead(lba, address, n) ==
  [a \in Memory |->
     LET i == a - Target(address)
     IN  IF i \in 0 .. n * BYTES_PER_SECTOR - 1
         THEN Byte(lba + i \div BYTES_PER_SECTOR, i % BYTES_PER_SECTOR)
         ELSE memory[a]]

\* fat_next reads two sectors of the table: a 12-bit entry may lie in both
fat_buffer_size == 2 * BYTES_PER_SECTOR

\* memory once fat_next has read its two sectors and popped them
TableRead ==
  [a \in Memory |->
     IF a \in ext_stack_top - fat_buffer_size .. ext_stack_top - 1 THEN OtherByte ELSE memory[a]]

VolumeTypeOK ==
  /\ fat \in FATS
  /\ memory \in [Memory -> Bytes]
  /\ StackTypeOK
=============================================================================
