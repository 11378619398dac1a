------------------------------ MODULE FatMount ------------------------------
(***************************************************************************)
(* fat_mount and fat_next of stage1/fat.c on the disk as it is laid out:   *)
(* the sector numbers that follow from the BIOS parameter block, and the   *)
(* packed entries of the table.                                            *)
(*                                                                         *)
(* A disk is described by what its file system means (the link of each     *)
(* cluster, the entries of each directory); LayOut and TableByte say where *)
(* the format puts that, the definitions translated from fat.c where the   *)
(* code looks for it.                                                      *)
(***************************************************************************)
EXTENDS Word, ExtendedStack, Sequences, FiniteSetsExt

CONSTANTS
  DISKS,          \* the disks the machine may boot from
  MOUNT_BUFFER    \* 4096, the largest sector

VARIABLES
  disk,
  mounted,        \* *fat_out of fat_mount
  failed          \* history: a call of disk_read has reported an error

DIRENT_SIZE == 32
FirstCluster == 2
FatTypes == {"FAT12", "FAT16", "FAT32"}

Bpb ==
  [bytes_per_sector : Nat, sectors_per_cluster : 0 .. 255, reserved_sectors : Nat,
   num_fats : Nat, root_entry_count : Nat, total_sectors_16 : Nat, fat_size_16 : Nat,
   total_sectors_32 : Nat, fat_size_32 : Nat, root_cluster : Nat]

ASSUME BpbAssumption == \A d \in DISKS : d.bpb \in Bpb
ASSUME MountBufferAssumption ==
  MOUNT_BUFFER \in Nat /\ MOUNT_BUFFER <= EXTENDED_STACK_BASE - EXTENDED_STACK_LIMIT

-----------------------------------------------------------------------------
(* Geometry *)

get_fat_type_M(cluster_count) ==
  IF cluster_count < 4085 THEN "FAT12"
  ELSE IF cluster_count < 4085 * 2 THEN "FAT16" ELSE "FAT32"

get_fat_type(cluster_count) ==
  IF cluster_count < 4085 THEN "FAT12"
  ELSE IF cluster_count < 65525 THEN "FAT16" ELSE "FAT32"

get_root_dir_sectors(bpb) ==
  IF bpb.bytes_per_sector = 0 THEN 0
  ELSE ((bpb.root_entry_count * DIRENT_SIZE + bpb.bytes_per_sector - 1)
          \div bpb.bytes_per_sector) % 65536   \* a uint16_t

get_fat_size(bpb) == IF bpb.fat_size_16 # 0 THEN bpb.fat_size_16 ELSE bpb.fat_size_32

get_total_sectors(bpb) ==
  IF bpb.total_sectors_16 # 0 THEN bpb.total_sectors_16 ELSE bpb.total_sectors_32

get_first_data_sector(bpb) ==
  U32(bpb.reserved_sectors + bpb.num_fats * get_fat_size(bpb) + get_root_dir_sectors(bpb))

get_count_of_clusters(bpb) ==
  IF bpb.sectors_per_cluster = 0 THEN 0
  ELSE U32(get_total_sectors(bpb) - get_first_data_sector(bpb)) \div bpb.sectors_per_cluster

Geometry(bpb) ==
  [type |-> get_fat_type(get_count_of_clusters(bpb)),
   first_fat_sector |-> bpb.reserved_sectors,
   first_data_sector |-> get_first_data_sector(bpb),
   root_dir_sectors |-> get_root_dir_sectors(bpb),
   cluster_count |-> get_count_of_clusters(bpb),
   bpb |-> bpb]

cluster_to_lba(cluster) ==
  U32(mounted.first_data_sector
        + (cluster - FirstCluster) * mounted.bpb.sectors_per_cluster)

bytes_per_sector == mounted.bpb.bytes_per_sector
bytes_per_cluster == mounted.bpb.sectors_per_cluster * bytes_per_sector

-----------------------------------------------------------------------------
(* The format: where a disk has its table and its directories *)

\* the least value that ends a chain
EndMark(type) ==
  CASE type = "FAT12" -> 4088 [] type = "FAT16" -> 65528 [] type = "FAT32" -> 268435448

\* a link is the number of a cluster, one of the eight end marks or the bad mark
LastEnd == -1
LeastEnd == -8
Bad == -9
LinkOn(d, cluster) == IF cluster \in DOMAIN d.links THEN d.links[cluster] ELSE d.beyond
LinkOf(cluster) == LinkOn(disk, cluster)
Number(link) == IF link >= 0 THEN link ELSE EndMark(disk.type) + 8 + link

\* the n-th byte of the table; the highest four bits of a 32-bit entry are no part
\* of the link
TableByte(n) ==
  CASE disk.type = "FAT12" ->
         LET even == Number(LinkOf(2 * (n \div 3)))
             odd == Number(LinkOf(2 * (n \div 3) + 1))
         IN  (CASE n % 3 = 0 -> even % 256
                [] n % 3 = 1 -> (even \div 256) + 16 * (odd % 16)
                [] n % 3 = 2 -> odd \div 16)
    [] disk.type = "FAT16" -> (Number(LinkOf(n \div 2)) \div 256 ^ (n % 2)) % 256
    [] disk.type = "FAT32" ->
         ((Number(LinkOf(n \div 4)) \div 256 ^ (n % 4)) % 256)
           + (IF n % 4 = 3 THEN 16 * disk.reserved_bits ELSE 0)

LayOut ==
  LET bpb == disk.bpb
      root == bpb.reserved_sectors + bpb.num_fats * (bpb.fat_size_16 + bpb.fat_size_32)
  IN  [table |-> bpb.reserved_sectors,
       root |-> root,
       data |-> root + Min({n \in 0 .. bpb.root_entry_count :
                              n * bpb.bytes_per_sector >= bpb.root_entry_count * DIRENT_SIZE})]

\* the entries that lie from a sector on; none where there is no directory
EntriesAt(lba) ==
  LET here == {c \in DOMAIN disk.dirs :
                 lba = LayOut.data + (c - FirstCluster) * disk.bpb.sectors_per_cluster}
  IN  IF lba = LayOut.root /\ disk.type # "FAT32" THEN disk.root
      ELSE IF here # {} THEN disk.dirs[CHOOSE c \in here : TRUE]
      ELSE <<>>

-----------------------------------------------------------------------------
(* fat_next *)

FatOffset(cluster) ==
  CASE mounted.type = "FAT12" -> cluster + cluster \div 2
    [] mounted.type = "FAT16" -> cluster * 2
    [] mounted.type = "FAT32" -> cluster * 4

fat_buffer_size == 2 * bytes_per_sector

\* the byte at an index of the buffer, once two sectors have been read into it
Buffer(cluster, i) ==
  LET fat_sector == mounted.first_fat_sector + FatOffset(cluster) \div bytes_per_sector
  IN  TableByte((fat_sector - LayOut.table) * bytes_per_sector + i)

\* the entry, as a number of two bytes or of 28 bits
Entry16(cluster) ==
  LET at == FatOffset(cluster) % bytes_per_sector
  IN  Buffer(cluster, at) + 256 * Buffer(cluster, at + 1)
Entry28(cluster) ==
  LET at == FatOffset(cluster) % bytes_per_sector
  IN  Entry16(cluster) + 65536 * Buffer(cluster, at + 2)
        + 16777216 * (Buffer(cluster, at + 3) % 16)

NextOf_M(cluster) ==
  CASE mounted.type = "FAT12" -> Entry16(cluster) % 4096
    [] mounted.type = "FAT16" -> Entry16(cluster)
    [] mounted.type = "FAT32" -> Entry28(cluster)

\* *next
NextOf(cluster) ==
  CASE mounted.type = "FAT12" -> IF cluster % 2 = 1 THEN Entry16(cluster) \div 16
                                                    ELSE Entry16(cluster) % 4096
    [] mounted.type = "FAT16" -> Entry16(cluster)
    [] mounted.type = "FAT32" -> Entry28(cluster)

IsEnd(next) == next >= EndMark(mounted.type)
IsBad(next) == next = EndMark(mounted.type) - 1

-----------------------------------------------------------------------------
\* fat_mount; the buffer is pushed and popped
Mount ==
  /\ CanPush(MOUNT_BUFFER)
  /\ mounted' = Geometry(disk.bpb)
  /\ UNCHANGED <<disk, ext_stack_top, failed>>

-----------------------------------------------------------------------------
(* What the geometry must satisfy *)

\* The volume fat_mount describes is the one on the disk: the type is the one the
\* table is written in, and the clusters it counts lie behind the root directory,
\* inside the volume, with less than a cluster left over.
MountedAsWritten ==
  /\ mounted.type = disk.type
  /\ mounted.first_data_sector = LayOut.data
  /\ LET total == disk.bpb.total_sectors_16 + disk.bpb.total_sectors_32
         behind == cluster_to_lba(mounted.cluster_count + FirstCluster)
     IN  behind <= total /\ total < behind + disk.bpb.sectors_per_cluster
=============================================================================
