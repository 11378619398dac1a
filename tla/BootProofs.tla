----------------------------- MODULE BootProofs -----------------------------
(***************************************************************************)
(* The boot, for every disk, text, size of buffers and place of the stack: *)
(* what lies on the extended stack while main goes on, and when main       *)
(* panics; that the geometry fat_mount works out is the disk's own; and    *)
(* that what main, fat_open and parse keep stays of its type.  The last    *)
(* two ask that the disk is formatted, and holds numbers.                  *)
(***************************************************************************)
EXTENDS Boot, Induction, TLAPS

OpenStates == {"idle", "start", "descend", "read", "next", "done", "panic"}

\* The stack as a whole is too small for what is held at one time.
RoomLacks ==
  LET room == EXTENDED_STACK_BASE - EXTENDED_STACK_LIMIT
  IN  \/ room < RootBuffer
      \/ room < bytes_per_cluster + fat_buffer_size
      \/ \E t \in TEXTS[disk.texts] : room < TextLength(t) + bytes_per_cluster + fat_buffer_size

\* the inductive invariant: beside what the stack holds, where fat_open is while main is
\* elsewhere, and what a panic on its way tells
BootInv ==
  /\ disk \in DISKS
  /\ mounted = Geometry(disk.bpb)
  /\ boot_pc \in Running \cup Halted
  /\ open_pc \in OpenStates
  /\ boot_pc = "mount" => open_pc = "idle"
  /\ boot_pc \in {"read_options", "parse", "print", "open_elf"} => open_pc = "done"
  /\ options_txt_length \in Nat
  /\ boot_pc = "read_options" => \E t \in TEXTS[disk.texts] : options_txt_length = TextLength(t)
  /\ open_pc = "panic" \/ boot_pc = "panicked" => RoomLacks
  /\ StackHoldsWhatIsInUse

-----------------------------------------------------------------------------
\* The sizes of the buffers are numbers.
LEMMA BufferSizes ==
  ASSUME BootInv
  PROVE  /\ bytes_per_cluster \in Nat
         /\ fat_buffer_size \in Nat
         /\ RootBuffer \in Nat
         /\ EXTENDED_STACK_BASE \in Nat /\ EXTENDED_STACK_LIMIT \in Nat
<1>1. mounted.bpb \in Bpb /\ mounted.bpb = disk.bpb
  BY BpbAssumption DEF BootInv, Geometry
<1>2. mounted.bpb.bytes_per_sector \in Nat /\ mounted.bpb.sectors_per_cluster \in Nat
      /\ mounted.bpb.root_entry_count \in Nat
  BY <1>1 DEF Bpb
<1>3. mounted.root_dir_sectors = get_root_dir_sectors(mounted.bpb)
  BY <1>1 DEF BootInv, Geometry
<1>4. mounted.root_dir_sectors \in Nat
  <2> DEFINE b == mounted.bpb.bytes_per_sector
             n == mounted.bpb.root_entry_count * DIRENT_SIZE + b - 1
  <2>1. CASE b = 0
    BY <1>3, <2>1 DEF get_root_dir_sectors
  <2>2. CASE b # 0
    <3>1. b \in Nat \ {0} /\ n \in Nat
      BY <1>2, <2>2 DEF DIRENT_SIZE
    <3>2. n \div b \in Nat
      BY <3>1
    <3>3. QED
      BY <1>3, <2>2, <3>2 DEF get_root_dir_sectors
  <2>3. QED
    BY <2>1, <2>2
<1>5. QED
  BY <1>2, <1>4, ExtendedStackAssumption
     DEF bytes_per_cluster, bytes_per_sector, fat_buffer_size, RootBuffer

LEMMA TextLengthType ==
  ASSUME BootInv, NEW t \in TEXTS[disk.texts]
  PROVE  TextLength(t) \in Nat
BY TextsAssumption, Uint32Assumption DEF BootInv, TextLength, U32

\* Nothing that BootInv says of the buffers changes while the volume stays mounted.
LEMMA SameVolume ==
  ASSUME UNCHANGED <<disk, mounted>>
  PROVE  /\ bytes_per_cluster' = bytes_per_cluster
         /\ fat_buffer_size' = fat_buffer_size
         /\ RootBuffer' = RootBuffer
         /\ RoomLacks' = RoomLacks
BY DEF bytes_per_cluster, bytes_per_sector, fat_buffer_size, RootBuffer, RoomLacks, TextLength, U32

LEMMA InitInv == Init => BootInv
<1> SUFFICES ASSUME Init PROVE BootInv
  OBVIOUS
<1>1. boot_pc = "mount" /\ open_pc = "idle" /\ options_txt_length = 0
  BY DEF Init, OpenInit
<1>2. ext_stack_top = EXTENDED_STACK_BASE
  BY DEF Init
<1>3. StackHoldsWhatIsInUse
  BY <1>1, <1>2, ExtendedStackAssumption
     DEF StackHoldsWhatIsInUse, TextIsHeld, ClusterIsHeld, Opening
<1>4. QED
  BY <1>1, <1>3 DEF Init, BootInv, Running, OpenStates

-----------------------------------------------------------------------------
(* fat_open at work *)

\* What the stack holds while main is in fat_open.
LEMMA OpenStack ==
  ASSUME BootInv, Opening, open_pc # "panic"
  PROVE  ext_stack_top =
           EXTENDED_STACK_BASE - (IF open_pc = "next" THEN bytes_per_cluster ELSE 0)
<1>1. boot_pc \in {"open_options", "open_binary"}
  BY DEF Opening
<1>2. QED
  BY <1>1, BufferSizes DEF BootInv, StackHoldsWhatIsInUse, TextIsHeld, ClusterIsHeld, Opening

\* What a step of fat_open has to keep.
LEMMA OpenKeepsInv ==
  ASSUME BootInv, Opening, UNCHANGED <<bootVars, disk, mounted>>,
         open_pc' \in OpenStates,
         open_pc' = "panic" => RoomLacks,
         open_pc' # "panic" =>
           ext_stack_top' =
             EXTENDED_STACK_BASE - (IF open_pc' = "next" THEN bytes_per_cluster ELSE 0)
  PROVE  BootInv'
<1>1. boot_pc \in {"open_options", "open_binary"} /\ boot_pc' = boot_pc
  BY DEF Opening, bootVars
<1>2. RoomLacks' = RoomLacks /\ bytes_per_cluster' = bytes_per_cluster
  BY SameVolume
<1>3. StackHoldsWhatIsInUse'
  BY <1>1, <1>2, BufferSizes DEF StackHoldsWhatIsInUse, TextIsHeld, ClusterIsHeld, Opening
<1>4. QED
  BY <1>1, <1>2, <1>3 DEF BootInv, bootVars, Geometry, Running, Halted

\* Each way fat_open panics tells that the room lacks.
LEMMA OpenPanicInv ==
  ASSUME BootInv, Opening, UNCHANGED bootVars, SearchRootPanic \/ ReadDirectoryPanic \/ FollowPanic
  PROVE  BootInv'
<1>1. Panic /\ open_pc \in {"start", "read", "next"}
  BY DEF SearchRootPanic, SearchingRoot, Starting, ReadDirectoryPanic, FollowPanic
<1>2. CASE SearchRootPanic
  <2>1. ext_stack_top = EXTENDED_STACK_BASE
    BY <1>2, OpenStack, BufferSizes DEF SearchRootPanic, SearchingRoot, Starting
  <2>2. EXTENDED_STACK_BASE - EXTENDED_STACK_LIMIT < RootBuffer
    BY <1>2, <2>1, BufferSizes DEF SearchRootPanic, CanPush
  <2>3. QED
    BY <1>1, <2>2, OpenKeepsInv DEF Panic, RoomLacks, OpenStates
<1>3. CASE ReadDirectoryPanic
  <2>1. ext_stack_top = EXTENDED_STACK_BASE
    BY <1>3, OpenStack, BufferSizes DEF ReadDirectoryPanic
  <2>2. EXTENDED_STACK_BASE - EXTENDED_STACK_LIMIT < bytes_per_cluster + fat_buffer_size
    BY <1>3, <2>1, BufferSizes DEF ReadDirectoryPanic, CanPush
  <2>3. QED
    BY <1>1, <2>2, OpenKeepsInv DEF Panic, RoomLacks, OpenStates
<1>4. CASE FollowPanic
  <2>1. ext_stack_top = EXTENDED_STACK_BASE - bytes_per_cluster
    BY <1>4, OpenStack, BufferSizes DEF FollowPanic
  <2>2. EXTENDED_STACK_BASE - EXTENDED_STACK_LIMIT < bytes_per_cluster + fat_buffer_size
    BY <1>4, <2>1, BufferSizes DEF FollowPanic, CanPush
  <2>3. QED
    BY <1>1, <2>2, OpenKeepsInv DEF Panic, RoomLacks, OpenStates
<1>5. QED
  BY <1>2, <1>3, <1>4

LEMMA OpenProgressInv ==
  ASSUME BootInv, Opening, UNCHANGED bootVars, OpenProgress \/ OpenFails
  PROVE  BootInv'
<1> USE DEF OpenStates
<1>1. CASE SearchRootPanic \/ ReadDirectoryPanic \/ FollowPanic
  BY <1>1, OpenPanicInv
<1>2. CASE NoSegment \/ OpenReturns
  BY <1>2, OpenStack, OpenKeepsInv DEF NoSegment, OpenReturns, Return
<1>3. CASE StartAtRootCluster
  BY <1>3, OpenStack, OpenKeepsInv DEF StartAtRootCluster, Starting, GoOnFrom
<1>4. CASE SearchRoot \/ SearchRootFails
  BY <1>4, OpenStack, OpenKeepsInv DEF SearchRoot, SearchRootFails, SearchingRoot, Starting, Return
<1>5. CASE EnterFromRoot
  BY <1>5, OpenStack, OpenKeepsInv DEF EnterFromRoot, SearchingRoot, Starting
<1>6. CASE Descend
  BY <1>6, OpenStack, OpenKeepsInv DEF Descend
<1>7. CASE EnterDirectory
  BY <1>7, OpenStack, OpenKeepsInv DEF EnterDirectory, GoOnFrom
<1>8. CASE ReadDirectoryFails
  BY <1>8, OpenStack, OpenKeepsInv DEF ReadDirectoryFails, Return
<1>9. CASE ReadDirectory
  <2>1. ext_stack_top' = EXTENDED_STACK_BASE - bytes_per_cluster
    BY <1>9, OpenStack, BufferSizes DEF ReadDirectory
  <2>2. QED
    BY <1>9, <2>1, OpenKeepsInv DEF ReadDirectory
<1>10. CASE FollowFails \/ FollowEnd \/ FollowValid
  <2>1. open_pc = "next" /\ PopCluster
    BY <1>10 DEF FollowFails, FollowEnd, FollowValid
  <2>2. ext_stack_top' = EXTENDED_STACK_BASE
    BY <2>1, OpenStack, BufferSizes DEF PopCluster
  <2>3. open_pc' \in {"done", "read"} /\ UNCHANGED <<disk, mounted>>
    BY <1>10 DEF FollowFails, FollowEnd, FollowValid, Return
  <2>4. QED
    BY <2>2, <2>3, OpenKeepsInv, BufferSizes
<1>11. CASE FollowBad
  BY <1>11, OpenStack, OpenKeepsInv DEF FollowBad
<1>12. QED
  BY <1>1, <1>2, <1>3, <1>4, <1>5, <1>6, <1>7, <1>8, <1>9, <1>10, <1>11
     DEF OpenProgress, OpenFails

-----------------------------------------------------------------------------
(* main *)

\* Nothing is asked of the stack where main has ended.
LEMMA EndedInv ==
  ASSUME BootInv,
         boot_pc' \in {"stopped", "overrun", "panicked"},
         boot_pc' = "panicked" => RoomLacks,
         UNCHANGED <<disk, mounted, open_pc, options_txt_length>>
  PROVE  BootInv'
<1>1. RoomLacks' = RoomLacks
  BY SameVolume
<1>2. QED
  BY <1>1 DEF BootInv, StackHoldsWhatIsInUse, Halted, Geometry

\* fat_open is called, or has returned.
LEMMA MainKeepsInv ==
  ASSUME BootInv, UNCHANGED <<disk, mounted>>,
         boot_pc' \in {"open_options", "read_options", "parse", "print", "open_binary",
                       "open_elf", "handed_over"},
         open_pc' \in {"start", "done"},
         boot_pc' \notin {"open_options", "open_binary"} => open_pc' = "done",
         options_txt_length' \in Nat,
         boot_pc' = "read_options" =>
           \E t \in TEXTS[disk.texts] : options_txt_length' = TextLength(t),
         ext_stack_top' =
           EXTENDED_STACK_BASE -
             (IF boot_pc' \in {"read_options", "parse"} THEN options_txt_length' ELSE 0)
  PROVE  BootInv'
<1>1. RoomLacks' = RoomLacks
  BY SameVolume
<1>2. StackHoldsWhatIsInUse'
  BY BufferSizes DEF StackHoldsWhatIsInUse, TextIsHeld, ClusterIsHeld
<1>3. boot_pc' = "read_options" =>
        \E t \in TEXTS[disk'.texts] : options_txt_length' = TextLength(t)'
  BY DEF TextLength, U32
<1>4. QED
  BY <1>1, <1>2, <1>3 DEF BootInv, Geometry, Running, Halted, OpenStates

LEMMA MountInv == BootInv /\ (MountVolume \/ MountFails) => BootInv'
<1> SUFFICES ASSUME BootInv, MountVolume \/ MountFails PROVE BootInv'
  OBVIOUS
<1>1. CASE MountVolume
  <2>1. ext_stack_top = EXTENDED_STACK_BASE /\ open_pc = "idle"
    BY <1>1, BufferSizes
       DEF MountVolume, BootInv, StackHoldsWhatIsInUse, TextIsHeld, ClusterIsHeld, Opening
  <2>2. UNCHANGED <<disk, mounted, ext_stack_top, options_txt_length>>
    BY <1>1 DEF MountVolume, Mount, Becomes, BootInv
  <2>3. boot_pc' = "open_options" /\ open_pc' = "start"
    BY <1>1 DEF MountVolume, Becomes, CallOpen
  <2>4. QED
    BY <2>1, <2>2, <2>3, MainKeepsInv, BufferSizes DEF BootInv
<1>2. CASE MountFails
  <2>1. boot_pc' = "stopped" /\ UNCHANGED <<disk, mounted, open_pc, options_txt_length>>
    BY <1>2 DEF MountFails, Stop, Becomes, openVars
  <2>2. QED
    BY <2>1, EndedInv
<1>3. QED
  BY <1>1, <1>2

\* main at its own work: what the stack holds is the text, or nothing.
LEMMA MainStack ==
  ASSUME BootInv,
         boot_pc \in {"open_options", "read_options", "parse", "print", "open_binary", "open_elf"},
         open_pc = "done"
  PROVE  ext_stack_top =
           EXTENDED_STACK_BASE -
             (IF boot_pc \in {"read_options", "parse"} THEN options_txt_length ELSE 0)
BY BufferSizes DEF BootInv, StackHoldsWhatIsInUse, TextIsHeld, ClusterIsHeld, Opening

LEMMA PushOptionsInv == BootInv /\ (PushOptionsPanic \/ PushOptions) => BootInv'
<1> SUFFICES ASSUME BootInv, PushOptionsPanic \/ PushOptions PROVE BootInv'
  OBVIOUS
<1>1. boot_pc = "open_options" /\ open_pc = "done"
  BY DEF PushOptionsPanic, PushOptions, Opened
<1>2. ext_stack_top = EXTENDED_STACK_BASE
  BY <1>1, MainStack, BufferSizes DEF Opening
<1>3. CASE PushOptionsPanic
  <2>1. PICK t \in TEXTS[disk.texts] : ~CanPush(TextLength(t))
    BY <1>3 DEF PushOptionsPanic
  <2>2. EXTENDED_STACK_BASE - EXTENDED_STACK_LIMIT
          < TextLength(t) + bytes_per_cluster + fat_buffer_size
    BY <1>2, <2>1, TextLengthType, BufferSizes DEF CanPush
  <2>3. boot_pc' = "panicked" /\ UNCHANGED <<disk, mounted, open_pc, options_txt_length>>
    BY <1>3 DEF PushOptionsPanic, BootPanics, Becomes, fatVars, openVars
  <2>4. QED
    BY <2>2, <2>3, EndedInv DEF RoomLacks
<1>4. CASE PushOptions
  <2>1. PICK t \in TEXTS[disk.texts] :
          /\ options_txt_length' = TextLength(t)
          /\ ext_stack_top' = ext_stack_top - TextLength(t)
    BY <1>4 DEF PushOptions
  <2>2. /\ boot_pc' = "read_options" /\ open_pc' = "done"
        /\ UNCHANGED <<disk, mounted>>
    BY <1>1, <1>4 DEF PushOptions, openVars
  <2>3. QED
    BY <1>2, <2>1, <2>2, TextLengthType, MainKeepsInv
<1>5. QED
  BY <1>3, <1>4

LEMMA ReadPanicsInv == BootInv /\ ReadPanics => BootInv'
<1> SUFFICES ASSUME BootInv, ReadPanics PROVE BootInv'
  OBVIOUS
<1>1. boot_pc' = "panicked" /\ UNCHANGED <<disk, mounted, open_pc, options_txt_length>>
  BY DEF ReadPanics, BootPanics, Becomes, fatVars, openVars
<1>2. CASE boot_pc = "read_options"
  <2>1. PICK t \in TEXTS[disk.texts] : options_txt_length = TextLength(t)
    BY <1>2 DEF BootInv
  <2>2. ext_stack_top = EXTENDED_STACK_BASE - TextLength(t)
    BY <1>2, <2>1, MainStack DEF BootInv
  <2>3. EXTENDED_STACK_BASE - EXTENDED_STACK_LIMIT
          < TextLength(t) + bytes_per_cluster + fat_buffer_size
    BY <2>2, TextLengthType, BufferSizes DEF ReadPanics, ReadMayPanic, CanPush
  <2>4. QED
    BY <1>1, <2>3, EndedInv DEF RoomLacks
<1>3. CASE boot_pc = "open_elf"
  <2>1. ext_stack_top = EXTENDED_STACK_BASE
    BY <1>3, MainStack, BufferSizes DEF BootInv
  <2>2. EXTENDED_STACK_BASE - EXTENDED_STACK_LIMIT < bytes_per_cluster + fat_buffer_size
    BY <2>1, BufferSizes DEF ReadPanics, ReadMayPanic, CanPush
  <2>3. QED
    BY <1>1, <2>2, EndedInv DEF RoomLacks
<1>4. QED
  BY <1>2, <1>3 DEF ReadPanics

LEMMA PopOptionsInv == BootInv /\ PopOptions => BootInv'
<1> SUFFICES ASSUME BootInv, PopOptions PROVE BootInv'
  OBVIOUS
<1>1. ext_stack_top = EXTENDED_STACK_BASE - options_txt_length
  BY MainStack DEF PopOptions, BootInv
<1>2. ext_stack_top' = EXTENDED_STACK_BASE
  BY <1>1, BufferSizes DEF PopOptions, BootInv
<1>3. /\ boot_pc' = "print" /\ open_pc' = "done"
      /\ UNCHANGED <<disk, mounted, options_txt_length>>
  BY DEF PopOptions, Becomes, openVars, BootInv
<1>4. QED
  BY <1>2, <1>3, MainKeepsInv, BufferSizes DEF BootInv

LEMMA NextInv == BootInv /\ [Next]_vars => BootInv'
<1> SUFFICES ASSUME BootInv, [Next]_vars PROVE BootInv'
  OBVIOUS
<1>1. CASE MountVolume \/ MountFails
  BY <1>1, MountInv
<1>2. CASE OpenStep \/ OpenDiskFails
  BY <1>2, OpenProgressInv DEF OpenStep, OpenDiskFails
<1>3. CASE OpenPanics
  <2>1. boot_pc' = "panicked" /\ UNCHANGED <<disk, mounted, open_pc, options_txt_length>>
    BY <1>3 DEF OpenPanics, BootPanics, Becomes, fatVars, openVars
  <2>2. RoomLacks
    BY <1>3 DEF OpenPanics, BootInv
  <2>3. QED
    BY <2>1, <2>2, EndedInv
<1>4. CASE NotOpened \/ ReadFails \/ NotParsed \/ NotElf
  <2>1. boot_pc' = "stopped" /\ UNCHANGED <<disk, mounted, open_pc, options_txt_length>>
    BY <1>4
       DEF NotOpened, ReadFails, ReadFailed, NotParsed, NotElf, Stop, Becomes, fatVars, openVars
  <2>2. QED
    BY <2>1, EndedInv
<1>5. CASE ParseOverruns \/ PrintOffsetOverruns
  <2>1. boot_pc' = "overrun" /\ UNCHANGED <<disk, mounted, open_pc, options_txt_length>>
    BY <1>5 DEF ParseOverruns, PrintOffsetOverruns, BufferOverrun, Becomes, fatVars, openVars
  <2>2. QED
    BY <2>1, EndedInv
<1>6. CASE PushOptionsPanic \/ PushOptions
  BY <1>6, PushOptionsInv
<1>7. CASE ReadPanics
  BY <1>7, ReadPanicsInv
<1>8. CASE ReadOptions \/ ParseStep
  <2>1. /\ boot_pc \in {"read_options", "parse"} /\ boot_pc' = "parse"
        /\ UNCHANGED <<disk, mounted, ext_stack_top, open_pc, options_txt_length>>
    BY <1>8 DEF ReadOptions, ParseStep, Becomes, bootVars, fatVars, openVars
  <2>2. QED
    BY <2>1, MainStack, MainKeepsInv DEF BootInv
<1>9. CASE PopOptions
  BY <1>9, PopOptionsInv
<1>10. CASE PrintOffset
  <2>1. /\ boot_pc = "print" /\ boot_pc' = "open_binary" /\ open_pc' = "start"
        /\ UNCHANGED <<disk, mounted, ext_stack_top, options_txt_length>>
    BY <1>10 DEF PrintOffset, CallOpen, Becomes, fatVars
  <2>2. QED
    BY <2>1, MainStack, MainKeepsInv DEF BootInv
<1>11. CASE OpenElf \/ HandOver
  <2>1. /\ Opened("open_binary") \/ boot_pc = "open_elf"
        /\ boot_pc' \in {"open_elf", "handed_over"}
        /\ UNCHANGED <<disk, mounted, ext_stack_top, open_pc, options_txt_length>>
    BY <1>11 DEF OpenElf, HandOver, Becomes, fatVars, openVars
  <2>2. boot_pc \in {"open_binary", "open_elf"} /\ open_pc = "done"
    BY <2>1 DEF Opened, BootInv
  <2>3. QED
    BY <2>1, <2>2, MainStack, MainKeepsInv DEF BootInv, Opening
<1>12. CASE UNCHANGED vars
  <2>1. UNCHANGED <<disk, mounted, ext_stack_top, open_pc, boot_pc, options_txt_length>>
    BY <1>12 DEF vars, bootVars, fatVars, openVars
  <2>2. RoomLacks' = RoomLacks /\ bytes_per_cluster' = bytes_per_cluster
    BY <2>1, SameVolume
  <2>3. StackHoldsWhatIsInUse'
    BY <2>1, <2>2 DEF BootInv, StackHoldsWhatIsInUse, TextIsHeld, ClusterIsHeld, Opening
  <2>4. (boot_pc = "read_options" =>
           \E t \in TEXTS[disk.texts] : options_txt_length = TextLength(t))'
    BY <2>1 DEF BootInv, TextLength, U32
  <2>5. QED
    BY <2>1, <2>2, <2>3, <2>4 DEF BootInv, Geometry
<1>13. QED
  BY <1>1, <1>2, <1>3, <1>4, <1>5, <1>6, <1>7, <1>8, <1>9, <1>10, <1>11, <1>12
     DEF Next, Progress

-----------------------------------------------------------------------------
\* For every disk, text, path and sequence of failures, the extended stack holds the
\* text of the options from its push to its pop and a cluster while its link is followed:
\* every way through fat_open and main pops what it pushed.
THEOREM StackHoldsWhatIsInUseAlways == Spec => []StackHoldsWhatIsInUse
<1>1. BootInv => StackHoldsWhatIsInUse
  BY DEF BootInv
<1>2. QED
  BY <1>1, InitInv, NextInv, PTL DEF Spec

\* Wherever main panics, the whole stack is too small for the root directory, for a
\* cluster and two sectors, or for these beside the text: nothing left behind by a
\* longer path or chain takes part in it.
THEOREM PanicsOnlyForRoomAlways == Spec => []PanicsOnlyForRoom
<1>1. BootInv => PanicsOnlyForRoom
  BY DEF BootInv, RoomLacks, PanicsOnlyForRoom
<1>2. QED
  BY <1>1, InitInv, NextInv, PTL DEF Spec

-----------------------------------------------------------------------------
(* The geometry *)

\* A volume as it is formatted: a sector holds an entry, there is one size of the table
\* and one of the volume, and the sectors of the root directory, the clusters and less
\* than a cluster fill what lies behind the tables; the number of clusters is what makes
\* the type.
IsFormatted(d) ==
  LET bpb == d.bpb
      root == bpb.reserved_sectors + bpb.num_fats * (bpb.fat_size_16 + bpb.fat_size_32)
      total == bpb.total_sectors_16 + bpb.total_sectors_32
  IN  /\ bpb.bytes_per_sector >= DIRENT_SIZE
      /\ bpb.sectors_per_cluster > 0
      /\ bpb.root_entry_count < 65536
      /\ bpb.fat_size_16 = 0 \/ bpb.fat_size_32 = 0
      /\ bpb.total_sectors_16 = 0 \/ bpb.total_sectors_32 = 0
      /\ total < UINT32
      /\ \E directory \in 0 .. bpb.root_entry_count : \E clusters \in 0 .. total :
           /\ bpb.root_entry_count * DIRENT_SIZE <= directory * bpb.bytes_per_sector
           /\ directory * bpb.bytes_per_sector
                < bpb.root_entry_count * DIRENT_SIZE + bpb.bytes_per_sector
           /\ root + directory + clusters * bpb.sectors_per_cluster <= total
           /\ total < root + directory + (clusters + 1) * bpb.sectors_per_cluster
           /\ d.type = IF clusters < 4085 THEN "FAT12"
                       ELSE IF clusters < 65525 THEN "FAT16" ELSE "FAT32"

AllFormatted == \A d \in DISKS : IsFormatted(d)

LEMMA SmallWord ==
  ASSUME NEW n \in Nat, n < UINT32
  PROVE  U32(n) = n
BY Uint32Assumption DEF U32

LEMMA QuotientOf ==
  ASSUME NEW n \in Nat, NEW b \in Nat \ {0}, NEW q \in Nat, b * q <= n, n < b * q + b
  PROVE  n \div b = q
OBVIOUS

LEMMA LeastOf ==
  ASSUME NEW S \in SUBSET Nat, NEW d \in S, \A n \in S : d <= n
  PROVE  Min(S) = d
<1>1. Min(S) \in S /\ \A n \in S : Min(S) <= n
  BY DEF Min
<1>2. Min(S) \in S
  BY <1>1
<1>3. Min(S) \in Nat /\ d \in Nat
  BY <1>2
<1>4. Min(S) <= d
  BY <1>1
<1>5. d <= Min(S)
  BY <1>2
<1>6. QED
  BY <1>3, <1>4, <1>5

\* The sectors of the root directory, as the code rounds them and as they lie on the disk.
LEMMA DirectorySectors ==
  ASSUME NEW bpb \in Bpb, NEW directory \in 0 .. bpb.root_entry_count,
         bpb.bytes_per_sector >= DIRENT_SIZE,
         bpb.root_entry_count < 65536,
         bpb.root_entry_count * DIRENT_SIZE <= directory * bpb.bytes_per_sector,
         directory * bpb.bytes_per_sector
           < bpb.root_entry_count * DIRENT_SIZE + bpb.bytes_per_sector
  PROVE  /\ get_root_dir_sectors(bpb) = directory
         /\ Min({n \in 0 .. bpb.root_entry_count :
                   n * bpb.bytes_per_sector >= bpb.root_entry_count * DIRENT_SIZE}) = directory
<1> DEFINE b == bpb.bytes_per_sector
           bytes == bpb.root_entry_count * DIRENT_SIZE
           Enough == {n \in 0 .. bpb.root_entry_count : n * b >= bytes}
<1>1. /\ b \in Nat \ {0} /\ bytes \in Nat /\ directory \in Nat
      /\ bpb.root_entry_count \in Nat
  BY DEF Bpb, DIRENT_SIZE
<1>2. bytes <= b * directory /\ b * directory < bytes + b
  BY <1>1
<1>3. (bytes + b - 1) \div b = directory
  <2> HIDE DEF bytes, b
  <2>1. /\ bytes + b - 1 \in Nat
        /\ b * directory <= bytes + b - 1
        /\ bytes + b - 1 < b * directory + b
    BY <1>1, <1>2
  <2>2. QED
    BY <1>1, <2>1, QuotientOf
<1>4. get_root_dir_sectors(bpb) = directory
  <2>1. directory % 65536 = directory
    BY <1>1
  <2>2. b # 0
    BY <1>1
  <2>3. QED
    BY <1>3, <2>1, <2>2 DEF get_root_dir_sectors
<1>5. directory \in Enough
  BY <1>1
<1>6. ASSUME NEW n \in Enough PROVE directory <= n
  <2>1. n \in Nat /\ bytes <= b * n
    BY <1>1
  <2>2. b * directory < b * (n + 1)
    <3> HIDE DEF bytes, b
    <3>1. QED
      BY <1>1, <1>2, <2>1
  <2>3. QED
    <3> HIDE DEF bytes, b
    <3>1. QED
      BY <1>1, <2>1, <2>2
<1>7. Min(Enough) = directory
  <2>1. Enough \subseteq Nat
    OBVIOUS
  <2> HIDE DEF Enough
  <2>2. QED
    BY <1>5, <1>6, <2>1, LeastOf
<1>8. QED
  BY <1>4, <1>7

\* Of a formatted volume fat_mount works out the geometry it has.
LEMMA GeometryAsWritten ==
  ASSUME BootInv, IsFormatted(disk)
  PROVE  MountedAsWritten
<1> DEFINE bpb == disk.bpb
           root == bpb.reserved_sectors + bpb.num_fats * (bpb.fat_size_16 + bpb.fat_size_32)
           total == bpb.total_sectors_16 + bpb.total_sectors_32
           spc == bpb.sectors_per_cluster
<1>1. bpb \in Bpb /\ mounted = Geometry(bpb)
  BY BpbAssumption DEF BootInv
<1>2. /\ root \in Nat /\ total \in Nat /\ spc \in Nat \ {0} /\ total < UINT32
      /\ bpb.root_entry_count \in Nat
  BY <1>1 DEF Bpb, IsFormatted
<1>3. PICK directory \in 0 .. bpb.root_entry_count, clusters \in 0 .. total :
        /\ bpb.root_entry_count * DIRENT_SIZE <= directory * bpb.bytes_per_sector
        /\ directory * bpb.bytes_per_sector
             < bpb.root_entry_count * DIRENT_SIZE + bpb.bytes_per_sector
        /\ root + directory + clusters * spc <= total
        /\ total < root + directory + (clusters + 1) * spc
        /\ disk.type = get_fat_type(clusters)
  BY DEF IsFormatted, get_fat_type
<1>4. directory \in Nat /\ clusters \in Nat
  BY <1>2
<1>5. /\ get_root_dir_sectors(bpb) = directory
      /\ LayOut.data = root + directory
  <2>1. bpb.bytes_per_sector >= DIRENT_SIZE /\ bpb.root_entry_count < 65536
    BY DEF IsFormatted
  <2>2. QED
    BY <1>1, <1>3, <2>1, DirectorySectors DEF LayOut
<1>6. get_first_data_sector(bpb) = root + directory
  <2>1. get_fat_size(bpb) = bpb.fat_size_16 + bpb.fat_size_32
    BY <1>1 DEF IsFormatted, get_fat_size, Bpb
  <2>2. clusters * spc \in Nat
    BY <1>2, <1>4
  <2>3. root + directory \in Nat /\ root + directory < UINT32
    BY <1>2, <1>3, <1>4, <2>2, Uint32Assumption
  <2>4. QED
    BY <1>5, <2>1, <2>3, SmallWord DEF get_first_data_sector
<1>7. get_count_of_clusters(bpb) = clusters
  <2>1. get_total_sectors(bpb) = total
    BY <1>1 DEF IsFormatted, get_total_sectors, Bpb
  <2>2. /\ total - (root + directory) \in Nat /\ total - (root + directory) < UINT32
        /\ spc * clusters <= total - (root + directory)
        /\ total - (root + directory) < spc * clusters + spc
    <3>1. /\ clusters * spc = spc * clusters
          /\ (clusters + 1) * spc = spc * clusters + spc
          /\ spc * clusters \in Nat
      BY <1>2, <1>4
    <3>2. QED
      <4> HIDE DEF root, total, spc
      <4>1. QED
        BY <1>2, <1>3, <1>4, <3>1, Uint32Assumption
  <2>3. U32(total - (root + directory)) = total - (root + directory)
    BY <2>2, SmallWord
  <2>4. (total - (root + directory)) \div spc = clusters
    <3> HIDE DEF root, total, spc
    <3>1. QED
      BY <1>2, <1>4, <2>2, QuotientOf
  <2>5. spc # 0
    BY <1>2
  <2>6. QED
    BY <1>6, <2>1, <2>3, <2>4, <2>5 DEF get_count_of_clusters
<1>8. /\ mounted.type = get_fat_type(clusters)
      /\ mounted.first_data_sector = root + directory
      /\ mounted.cluster_count = clusters
      /\ mounted.bpb = bpb
  BY <1>1, <1>6, <1>7 DEF Geometry
<1>9. cluster_to_lba(mounted.cluster_count + FirstCluster) = root + directory + clusters * spc
  <2>1. (clusters + FirstCluster) - FirstCluster = clusters
    BY <1>4 DEF FirstCluster
  <2>2. root + directory + clusters * spc \in Nat /\ clusters * spc \in Nat
    BY <1>2, <1>4
  <2>3. root + directory + clusters * spc < UINT32
    BY <1>2, <1>3, <1>4, <2>2, Uint32Assumption
  <2>4. U32(root + directory + clusters * spc) = root + directory + clusters * spc
    BY <2>2, <2>3, SmallWord
  <2>5. cluster_to_lba(clusters + FirstCluster)
          = U32(root + directory + ((clusters + FirstCluster) - FirstCluster) * spc)
    BY <1>8, Zenon DEF cluster_to_lba
  <2>6. QED
    BY <1>8, <2>1, <2>4, <2>5
<1>10. total < root + directory + clusters * spc + spc
  <2> HIDE DEF root, total, spc
  <2>1. (clusters + 1) * spc = clusters * spc + spc
    BY <1>2, <1>4
  <2>2. QED
    BY <1>2, <1>3, <1>4, <2>1
<1>11. QED
  BY <1>3, <1>5, <1>8, <1>9, <1>10 DEF MountedAsWritten

\* On a disk that is formatted, whatever its sizes, main works from its mount to its end
\* with the geometry the disk has: the first sector behind the root directory, the number
\* of clusters and the type that follows from it, computed in words of 32 bits.
THEOREM MountedFromTheStartAlways == ASSUME AllFormatted PROVE Spec => []MountedFromTheStart
<1>1. BootInv => MountedFromTheStart
  BY GeometryAsWritten DEF BootInv, MountedFromTheStart, AllFormatted
<1>2. QED
  BY <1>1, InitInv, NextInv, PTL DEF Spec

-----------------------------------------------------------------------------
(* Types: fat_open *)

\* What a disk holds are numbers: the links of its table, the clusters of its entries.
AreEntries(es) == DOMAIN es \subseteq Nat /\ \A k \in DOMAIN es : es[k].cluster \in Nat
HoldsNumbers(d) ==
  /\ d.beyond \in Int /\ d.beyond >= Bad
  /\ \A c \in DOMAIN d.links : d.links[c] \in Int /\ d.links[c] >= Bad
  /\ d.reserved_bits \in Nat
  /\ AreEntries(d.root)
  /\ \A c \in DOMAIN d.dirs : AreEntries(d.dirs[c])

AllHoldNumbers == \A d \in DISKS : HoldsNumbers(d)

LEMMA TypeOfDisk ==
  ASSUME IsFormatted(disk)
  PROVE  disk.type \in FatTypes
BY DEF IsFormatted, FatTypes

LEMMA NumberType ==
  ASSUME IsFormatted(disk), HoldsNumbers(disk), NEW cluster
  PROVE  Number(LinkOf(cluster)) \in Nat
<1>1. LinkOf(cluster) \in Int /\ LinkOf(cluster) >= Bad
  BY DEF HoldsNumbers, LinkOf, LinkOn
<1>2. EndMark(disk.type) \in Nat /\ EndMark(disk.type) >= 4088
  BY TypeOfDisk DEF FatTypes, EndMark
<1>3. QED
  BY <1>1, <1>2 DEF Number, Bad

\* The weight of a byte in an entry.
LEMMA ByteWeight ==
  ASSUME NEW k, k = 0 \/ k = 1 \/ k = 2 \/ k = 3
  PROVE  256 ^ k \in Nat \ {0}
<1>1. k = 0 => 256 ^ k = 1
  OBVIOUS
<1>2. k = 1 => 256 ^ k = 256
  OBVIOUS
<1>3. k = 2 => 256 ^ k = 65536
  OBVIOUS
<1>4. k = 3 => 256 ^ k = 16777216
  OBVIOUS
<1>5. QED
  BY <1>1, <1>2, <1>3, <1>4

LEMMA TableByteType ==
  ASSUME IsFormatted(disk), HoldsNumbers(disk), NEW n \in Nat
  PROVE  TableByte(n) \in Nat
<1>1. CASE disk.type = "FAT12"
  <2>1. PICK even \in Nat : even = Number(LinkOf(2 * (n \div 3)))
    BY NumberType
  <2>2. PICK odd \in Nat : odd = Number(LinkOf(2 * (n \div 3) + 1))
    BY NumberType
  <2>3. TableByte(n) = CASE n % 3 = 0 -> even % 256
                         [] n % 3 = 1 -> (even \div 256) + 16 * (odd % 16)
                         [] n % 3 = 2 -> odd \div 16
    BY <1>1, <2>1, <2>2 DEF TableByte
  <2>4. n % 3 = 0 \/ n % 3 = 1 \/ n % 3 = 2
    OBVIOUS
  <2>5. QED
    BY <2>3, <2>4
<1>2. CASE disk.type = "FAT16"
  <2>1. PICK link \in Nat : link = Number(LinkOf(n \div 2))
    BY NumberType
  <2>2. TableByte(n) = (link \div 256 ^ (n % 2)) % 256
    BY <1>2, <2>1 DEF TableByte
  <2>3. n % 2 = 0 \/ n % 2 = 1
    OBVIOUS
  <2>4. 256 ^ (n % 2) \in Nat \ {0}
    BY <2>3, ByteWeight
  <2>5. QED
    BY <2>2, <2>4
<1>3. CASE disk.type = "FAT32"
  <2>1. PICK link \in Nat : link = Number(LinkOf(n \div 4))
    BY NumberType
  <2>2. TableByte(n) = ((link \div 256 ^ (n % 4)) % 256)
                         + (IF n % 4 = 3 THEN 16 * disk.reserved_bits ELSE 0)
    BY <1>3, <2>1 DEF TableByte
  <2>3. n % 4 = 0 \/ n % 4 = 1 \/ n % 4 = 2 \/ n % 4 = 3
    OBVIOUS
  <2>4. 256 ^ (n % 4) \in Nat \ {0}
    BY <2>3, ByteWeight
  <2>5. (link \div 256 ^ (n % 4)) % 256 \in Nat
    BY <2>4
  <2>6. 16 * disk.reserved_bits \in Nat
    BY DEF HoldsNumbers
  <2>7. QED
    BY <2>2, <2>5, <2>6
<1>4. QED
  BY <1>1, <1>2, <1>3, TypeOfDisk DEF FatTypes

\* fat_next makes a number of what the table holds, whichever type it is.
LEMMA NextType ==
  ASSUME BootInv, IsFormatted(disk), HoldsNumbers(disk), NEW cluster \in Nat
  PROVE  NextOf(cluster) \in Nat
<1>1. mounted.type \in FatTypes
  BY GeometryAsWritten, TypeOfDisk DEF MountedAsWritten
<1>2. bytes_per_sector \in Nat \ {0} /\ mounted.first_fat_sector \in Nat
      /\ LayOut.table = mounted.first_fat_sector
  BY BpbAssumption
     DEF BootInv, Geometry, Bpb, IsFormatted, bytes_per_sector, DIRENT_SIZE, LayOut
<1>3. FatOffset(cluster) \in Nat
  BY <1>1 DEF FatOffset, FatTypes
<1>4. FatOffset(cluster) % bytes_per_sector \in Nat
  BY <1>2, <1>3
<1>5. ASSUME NEW at \in Nat PROVE Buffer(cluster, at) \in Nat
  <2>1. PICK q \in Nat : q = FatOffset(cluster) \div bytes_per_sector
    BY <1>2, <1>3
  <2>2. (mounted.first_fat_sector + q) - LayOut.table = q
    BY <1>2
  <2>3. q * bytes_per_sector + at \in Nat
    BY <1>2
  <2>4. Buffer(cluster, at) = TableByte(q * bytes_per_sector + at)
    BY <2>1, <2>2, Zenon DEF Buffer
  <2>5. QED
    BY <2>3, <2>4, TableByteType
<1>6. Entry16(cluster) \in Nat
  <2>1. PICK at \in Nat : at = FatOffset(cluster) % bytes_per_sector
    BY <1>4
  <2>2. Buffer(cluster, at) \in Nat /\ Buffer(cluster, at + 1) \in Nat
    BY <1>5
  <2>3. QED
    BY <2>1, <2>2 DEF Entry16
<1>7. Entry28(cluster) \in Nat
  <2>1. PICK at \in Nat : at = FatOffset(cluster) % bytes_per_sector
    BY <1>4
  <2>2. Buffer(cluster, at + 2) \in Nat /\ Buffer(cluster, at + 3) \in Nat
    BY <1>5
  <2>3. QED
    BY <1>6, <2>1, <2>2 DEF Entry28
<1>8. QED
  BY <1>1, <1>6, <1>7 DEF NextOf, FatTypes

LEMMA ClusterOfEntry ==
  ASSUME HoldsNumbers(disk), NEW lba
  PROVE  AreEntries(EntriesAt(lba))
<1> DEFINE here == {c \in DOMAIN disk.dirs :
                      lba = LayOut.data + (c - FirstCluster) * disk.bpb.sectors_per_cluster}
<1>1. CASE lba = LayOut.root /\ disk.type # "FAT32"
  BY <1>1 DEF HoldsNumbers, EntriesAt
<1>2. CASE ~(lba = LayOut.root /\ disk.type # "FAT32") /\ here # {}
  <2>1. (CHOOSE c \in here : TRUE) \in here
    BY <1>2
  <2>2. EntriesAt(lba) = disk.dirs[CHOOSE c \in here : TRUE]
    BY <1>2 DEF EntriesAt
  <2>3. QED
    BY <2>1, <2>2 DEF HoldsNumbers
<1>3. CASE ~(lba = LayOut.root /\ disk.type # "FAT32") /\ here = {}
  <2>1. EntriesAt(lba) = <<>>
    BY <1>3 DEF EntriesAt
  <2>2. QED
    BY <2>1 DEF AreEntries
<1>4. QED
  BY <1>1, <1>2, <1>3

LEMMA FoundEntry ==
  ASSUME NEW es, AreEntries(es), NEW size, NEW name, Found(es, size, name) # {}
  PROVE  es[Min(Found(es, size, name))].cluster \in Nat
<1> DEFINE F == Found(es, size, name)
<1>1. F \subseteq DOMAIN es
  BY DEF Found
<1>2. F \subseteq Nat
  BY <1>1 DEF AreEntries
<1> HIDE DEF F
<1>3. PICK d \in F : \A n \in F : d <= n
  BY <1>2, LeastNumber DEF F
<1>4. Min(F) = d
  BY <1>2, <1>3, LeastOf
<1>5. QED
  BY <1>1, <1>3, <1>4 DEF F, AreEntries

\* What is kept of fat_open: where it is, its result, and clusters that are numbers.
OpenTypes ==
  /\ open_result \in FatResults
  /\ open_pc = "done" <=> open_result # "none"
  /\ current_dir_cluster \in Nat
  /\ current_directory.cluster \in Nat
  /\ failed \in BOOLEAN

LEMMA OpenKeepsTypes ==
  ASSUME BootInv, OpenTypes, IsFormatted(disk), HoldsNumbers(disk), OpenProgress \/ OpenFails
  PROVE  OpenTypes'
<1> USE DEF FatResults
<1>1. CASE SearchRootPanic \/ ReadDirectoryPanic \/ FollowPanic
  BY <1>1 DEF SearchRootPanic, SearchingRoot, Starting, ReadDirectoryPanic, FollowPanic, Panic,
              OpenTypes
<1>2. CASE NoSegment \/ OpenReturns
  BY <1>2 DEF NoSegment, OpenReturns, Return, OpenTypes
<1>3. CASE StartAtRootCluster
  <2>1. RootDirectory.cluster \in Nat
    BY BpbAssumption DEF RootDirectory, BootInv, Geometry, Bpb
  <2>2. QED
    BY <1>3, <2>1 DEF StartAtRootCluster, Starting, GoOnFrom, OpenTypes
<1>4. CASE SearchRoot \/ SearchRootFails
  BY <1>4 DEF SearchRoot, SearchRootFails, SearchingRoot, Starting, Return, OpenTypes
<1>5. CASE EnterFromRoot
  <2>1. RootEntries[Min(RootFound)].cluster \in Nat
    BY <1>5, ClusterOfEntry, FoundEntry DEF EnterFromRoot, RootEntries, RootFound
  <2>2. QED
    BY <1>5, <2>1 DEF EnterFromRoot, SearchingRoot, Starting, OpenTypes
<1>6. CASE Descend
  BY <1>6 DEF Descend, OpenTypes
<1>7. CASE EnterDirectory
  <2>1. ClusterEntries[Min(ClusterFound)].cluster \in Nat
    BY <1>7, ClusterOfEntry, FoundEntry DEF EnterDirectory, ClusterEntries, ClusterFound
  <2>2. QED
    BY <1>7, <2>1 DEF EnterDirectory, GoOnFrom, OpenTypes
<1>8. CASE ReadDirectoryFails
  BY <1>8 DEF ReadDirectoryFails, Return, OpenTypes
<1>9. CASE ReadDirectory
  BY <1>9 DEF ReadDirectory, OpenTypes
<1>10. CASE FollowFails \/ FollowEnd
  BY <1>10 DEF FollowFails, FollowEnd, Return, OpenTypes
<1>11. CASE FollowBad \/ FollowValid
  <2>1. NextOf(current_dir_cluster) \in Nat
    BY NextType DEF OpenTypes
  <2>2. QED
    BY <1>11, <2>1 DEF FollowBad, FollowValid, OpenTypes
<1>12. QED
  BY <1>1, <1>2, <1>3, <1>4, <1>5, <1>6, <1>7, <1>8, <1>9, <1>10, <1>11
     DEF OpenProgress, OpenFails

\* fat_open keeps to the extended stack: what it pops it has pushed.
LEMMA OpenKeepsStack ==
  ASSUME BootInv, Opening, StackTypeOK, OpenProgress \/ OpenFails
  PROVE  StackTypeOK'
<1>1. CASE ReadDirectory
  <2>1. ext_stack_top' = ext_stack_top - bytes_per_cluster /\ CanPush(bytes_per_cluster)
    BY <1>1 DEF ReadDirectory
  <2>2. QED
    BY <2>1, BufferSizes DEF StackTypeOK, CanPush
<1>2. CASE FollowFails \/ FollowEnd \/ FollowValid
  <2>1. open_pc = "next" /\ ext_stack_top' = ext_stack_top + bytes_per_cluster
    BY <1>2 DEF FollowFails, FollowEnd, FollowValid, PopCluster
  <2>2. ext_stack_top' = EXTENDED_STACK_BASE
    BY <2>1, OpenStack, BufferSizes
  <2>3. QED
    BY <2>2, ExtendedStackAssumption DEF StackTypeOK
<1>3. CASE UNCHANGED ext_stack_top
  BY <1>3 DEF StackTypeOK
<1>4. ReadDirectory \/ (FollowFails \/ FollowEnd \/ FollowValid) \/ UNCHANGED ext_stack_top
  BY DEF OpenProgress, OpenFails, NoSegment, StartAtRootCluster, SearchRootPanic, SearchRoot,
         EnterFromRoot, Descend, OpenReturns, ReadDirectoryPanic, EnterDirectory, FollowPanic,
         FollowBad, SearchRootFails, ReadDirectoryFails, Panic
<1>5. QED
  BY <1>1, <1>2, <1>3, <1>4

-----------------------------------------------------------------------------
(* Types: parse *)

\* A set of numbers with a bound has a greatest element, which is its Max.
LEMMA GreatestOf ==
  ASSUME NEW L \in Nat, NEW S \in SUBSET (0 .. L), S # {}
  PROVE  Max(S) \in S /\ \A n \in S : n <= Max(S)
<1> DEFINE T == {n \in Nat : n <= L /\ L - n \in S}
<1>1. T # {}
  <2>1. PICK n \in S : TRUE
    OBVIOUS
  <2>2. L - n \in Nat /\ L - n <= L /\ L - (L - n) = n
    OBVIOUS
  <2>3. L - n \in T
    BY <2>1, <2>2
  <2>4. QED
    BY <2>3
<1>2. PICK least \in T : \A n \in T : least <= n
  <2>1. T \in SUBSET Nat
    OBVIOUS
  <2> HIDE DEF T
  <2>2. QED
    BY <1>1, <2>1, LeastNumber
<1>3. ASSUME NEW n \in S PROVE L - least >= n
  <2>1. L - n \in Nat /\ L - n <= L /\ L - (L - n) = n
    OBVIOUS
  <2>2. L - n \in T
    BY <2>1
  <2>3. QED
    BY <1>2, <2>2
<1>4. \E m \in S : \A n \in S : m >= n
  BY <1>2, <1>3
<1>5. Max(S) \in S /\ \A n \in S : Max(S) >= n
  BY <1>4 DEF Max
<1>6. Max(S) \in S
  BY <1>5
<1>7. ASSUME NEW n \in S PROVE n <= Max(S)
  <2>1. Max(S) >= n
    BY <1>5
  <2>2. Max(S) \in Int /\ n \in Int
    <3>1. \A x \in S : x \in Int
      OBVIOUS
    <3>2. QED
      BY <1>6, <3>1
  <2>3. QED
    BY <2>1, <2>2
<1>8. QED
  BY <1>6, <1>7

\* What atoi works out is a word, whatever the characters.
LEMMA AtoiType ==
  ASSUME NEW string, Len(string) \in Nat, NEW base \in Nat
  PROVE  atoi(string, base).out \in 0 .. UINT32 - 1
<1> DEFINE W == 0 .. UINT32 - 1
           Digit(n) == find_in_alphabet(string[n])
           F == [p \in Nat \X W |-> (p[2] * base + Digit(p[1] + 1)) % UINT32]
           Body(f) == [n \in Nat |->
                         IF n = 0 THEN 0
                         ELSE (f[n - 1] * base + find_in_alphabet(string[n])) % UINT32]
           Good == {n \in 0 .. Len(string) :
                      \A k \in 1 .. n : find_in_alphabet(string[k]) \in 0 .. base - 1}
<1>1. ASSUME NEW n PROVE Digit(n) \in Int
  BY OptionsAssumption DEF find_in_alphabet
<1>2. ASSUME NEW m \in Int PROVE m % UINT32 \in W
  BY Uint32Assumption
<1>0. W \subseteq Int /\ 0 \in W
  BY Uint32Assumption
<1> HIDE DEF Digit
<1>3. F \in [Nat \X W -> W]
  <2>1. ASSUME NEW p \in Nat \X W PROVE (p[2] * base + Digit(p[1] + 1)) % UINT32 \in W
    <3>1. p[2] \in Int /\ Digit(p[1] + 1) \in Int
      BY <1>1
    <3>2. p[2] * base + Digit(p[1] + 1) \in Int
      BY <3>1
    <3>3. QED
      BY <1>2, <3>2
  <2> HIDE DEF W
  <2>2. QED
    BY <2>1
<1>4. PICK g \in [Nat -> W] : g[0] = 0 /\ \A n \in Nat : g[n + 1] = F[<<n, g[n]>>]
  <2> HIDE DEF W, F
  <2>1. Recursions(W, 0, F) # {}
    BY <1>0, <1>3, RecursionOnNumbers
  <2>2. QED
    BY <2>1 DEF Recursions
<1>5. g = Body(g)
  <2>1. ASSUME NEW n \in Nat, n # 0
        PROVE  g[n] = (g[n - 1] * base + Digit(n)) % UINT32
    <3>1. n - 1 \in Nat /\ (n - 1) + 1 = n
      BY <2>1
    <3>2. g[n] = F[<<n - 1, g[n - 1]>>]
      BY <1>4, <3>1
    <3>3. <<n - 1, g[n - 1]>> \in Nat \X W
      BY <3>1
    <3>4. QED
      BY <3>1, <3>2, <3>3
  <2>2. ASSUME NEW n \in Nat PROVE g[n] = Body(g)[n]
    <3>1. CASE n = 0
      BY <1>4, <3>1
    <3>2. CASE n # 0
      BY <2>1, <3>2 DEF Digit
    <3>3. QED
      BY <3>1, <3>2
  <2> HIDE DEF F, W
  <2>3. QED
    BY <2>2
<1> DEFINE out == CHOOSE f : f = Body(f)
<1>6. out = Body(out)
  <2>1. \E f : f = Body(f)
    BY <1>5
  <2> HIDE DEF Body
  <2>2. QED
    BY <2>1, Zenon
<1>7. atoi(string, base).out =
        IF Max(Good) = Len(string) THEN out[Max(Good)] ELSE (out[Max(Good)] * base) % UINT32
  BY DEF atoi
<1> HIDE DEF out
<1>8. \A n \in Nat : out[n] \in W
  <2> DEFINE S == {n \in Nat : out[n] \in W}
  <2>1. 0 \in S
    BY <1>6, Uint32Assumption
  <2>2. ASSUME NEW n \in Nat, n \in S PROVE n + 1 \in S
    <3>1. out[n + 1] = (out[n] * base + Digit(n + 1)) % UINT32
      <4>1. n + 1 \in Nat /\ n + 1 # 0 /\ (n + 1) - 1 = n
        OBVIOUS
      <4>2. out[n + 1] = Body(out)[n + 1]
        BY <1>6
      <4>3. QED
        BY <4>1, <4>2 DEF Digit
    <3>2. out[n] \in Int
      <4> HIDE DEF W
      <4>1. QED
        BY <1>0, <2>2
    <3>3. PICK d \in Int : d = Digit(n + 1)
      BY <1>1
    <3>4. out[n] * base + d \in Int
      <4>1. PICK o \in Int : o = out[n]
        BY <3>2
      <4>2. o * base + d \in Int
        OBVIOUS
      <4>3. QED
        BY <4>1, <4>2
    <3>5. out[n + 1] \in W
      <4> HIDE DEF W
      <4>1. QED
        BY <1>2, <3>1, <3>3, <3>4
    <3>6. QED
      BY <3>5
  <2> HIDE DEF S
  <2>3. \A n \in Nat : n \in S
    BY <2>1, <2>2, SetInduction
  <2>4. QED
    BY <2>3 DEF S
<1>9. Max(Good) \in Nat
  <2>1. Good \in SUBSET (0 .. Len(string)) /\ 0 \in Good /\ Good \subseteq Nat
    OBVIOUS
  <2> HIDE DEF Good
  <2>2. Max(Good) \in Good
    BY <2>1, GreatestOf
  <2>3. QED
    BY <2>1, <2>2
<1> HIDE DEF Good
<1>10. out[Max(Good)] \in W
  BY <1>8, <1>9
<1>11. out[Max(Good)] * base \in Int
  BY <1>10
<1>12. QED
  BY <1>2, <1>7, <1>10, <1>11

LEMMA LengthOf ==
  ASSUME NEW s, NEW n \in Nat, s = [k \in 1 .. n |-> s[k]]
  PROVE  Len(s) \in Nat
<1> DEFINE S == {s[k] : k \in 1 .. n}
<1>1. s \in [1 .. n -> S]
  OBVIOUS
<1>2. s \in Seq(S)
  <2> HIDE DEF S
  <2>1. QED
    BY <1>1
<1>3. QED
  BY <1>2

\* What lies in an array up to its NUL has a length.
LEMMA StringLength ==
  ASSUME NEW array, NEW n \in Nat, DOMAIN array = 1 .. n, Ends(array) # {}
  PROVE  Len(String(array)) \in Nat
<1>1. Ends(array) \in SUBSET (1 .. n)
  BY DEF Ends
<1>2. PICK least \in Ends(array) : \A c \in Ends(array) : least <= c
  <2>1. Ends(array) \in SUBSET Nat
    BY <1>1
  <2>2. QED
    BY <2>1, LeastNumber
<1>3. Min(Ends(array)) = least
  <2>1. Ends(array) \in SUBSET Nat
    BY <1>1
  <2>2. QED
    BY <1>2, <2>1, LeastOf
<1>4. PICK l \in Nat : l = strlen(array)
  <2>1. least \in 1 .. n
    BY <1>1, <1>2
  <2>2. QED
    BY <1>3, <2>1 DEF strlen
<1>5. String(array) = [k \in 1 .. l |-> String(array)[k]]
  BY <1>4 DEF String
<1>6. QED
  BY <1>5, LengthOf

LEMMA OffsetType ==
  ASSUME NEW v, Len(v) \in Nat
  PROVE  load_offset_of(v).out \in 0 .. UINT32 - 1
<1>1. CASE IsHex(v)
  <2>1. Len(SubSeq(v, 3, Len(v))) \in Nat
    <3>1. PICK l \in Nat : l = Len(v) - 2
      BY <1>1 DEF IsHex
    <3>2. SubSeq(v, 3, Len(v)) = [k \in 1 .. l |-> SubSeq(v, 3, Len(v))[k]]
      BY <3>1
    <3>3. QED
      BY <3>2, LengthOf
  <2>2. QED
    BY <1>1, <2>1, AtoiType DEF load_offset_of
<1>2. CASE ~IsHex(v)
  BY <1>2, AtoiType DEF load_offset_of
<1>3. QED
  BY <1>1, <1>2

LEMMA LongestArray ==
  /\ Max({PARSER_KEY_MAX_LENGTH, PARSER_VALUE_MAX_LENGTH}) \in Nat
  /\ PARSER_KEY_MAX_LENGTH <= Max({PARSER_KEY_MAX_LENGTH, PARSER_VALUE_MAX_LENGTH})
  /\ PARSER_VALUE_MAX_LENGTH <= Max({PARSER_KEY_MAX_LENGTH, PARSER_VALUE_MAX_LENGTH})
<1> DEFINE S == {PARSER_KEY_MAX_LENGTH, PARSER_VALUE_MAX_LENGTH}
<1>1. PARSER_KEY_MAX_LENGTH \in Nat /\ PARSER_VALUE_MAX_LENGTH \in Nat
  BY OptionsAssumption
<1>2. PICK L \in Nat : L = PARSER_KEY_MAX_LENGTH + PARSER_VALUE_MAX_LENGTH
  BY <1>1
<1>3. /\ S \in SUBSET (0 .. L) /\ S # {} /\ S \subseteq Nat
      /\ PARSER_KEY_MAX_LENGTH \in S /\ PARSER_VALUE_MAX_LENGTH \in S
  BY <1>1, <1>2
<1> HIDE DEF S
<1>4. Max(S) \in S /\ \A n \in S : n <= Max(S)
  BY <1>3, GreatestOf
<1>5. Max(S) \in Nat /\ PARSER_KEY_MAX_LENGTH <= Max(S) /\ PARSER_VALUE_MAX_LENGTH <= Max(S)
  BY <1>3, <1>4
<1>6. QED
  BY <1>5 DEF S

\* What a line sets and what parse answers to it.
LEMMA LineTypes ==
  ASSUME ParseTypeOK, TakeLine
  PROVE  /\ LineResult \in ParserResults \ {"none"}
         /\ load_offset' = NoOffset \/ load_offset' \in 0 .. UINT32 - 1
         /\ DOMAIN value' = ValueCells
<1>1. j + 1 \in ValueCells /\ DOMAIN EndOfLine = ValueCells
  BY DEF TakeLine, ParseTypeOK, EndOfLine
<1>2. Len(String(EndOfLine)) \in Nat
  <2>1. PICK n \in Nat : n = PARSER_VALUE_MAX_LENGTH + 1
    BY OptionsAssumption
  <2>2. DOMAIN EndOfLine = 1 .. n
    BY <1>1, <2>1 DEF ValueCells
  <2>3. j + 1 \in Ends(EndOfLine)
    BY <1>1 DEF Ends, EndOfLine, ParseTypeOK
  <2>4. QED
    BY <2>2, <2>3, StringLength
<1>3. load_offset' = load_offset \/ load_offset' = load_offset_of(String(EndOfLine)).out
  BY DEF TakeLine, update_options
<1>4. load_offset' = NoOffset \/ load_offset' \in 0 .. UINT32 - 1
  BY <1>2, <1>3, OffsetType DEF ParseTypeOK
<1>5. LineResult \in ParserResults \ {"none"}
  BY DEF LineResult, ResultOf, ParserResults
<1>6. QED
  BY <1>1, <1>4, <1>5 DEF TakeLine

LEMMA ParseKeepsTypes ==
  ASSUME ParseTypeOK, Len(text) \in Nat, ParseNext
  PROVE  ParseTypeOK' /\ text' = text
<1> DEFINE longest == Max({PARSER_KEY_MAX_LENGTH, PARSER_VALUE_MAX_LENGTH})
<1>1. /\ longest \in Nat /\ PARSER_KEY_MAX_LENGTH <= longest
      /\ PARSER_VALUE_MAX_LENGTH <= longest
      /\ PARSER_KEY_MAX_LENGTH \in Nat /\ PARSER_VALUE_MAX_LENGTH \in Nat
  BY LongestArray, OptionsAssumption
<1>2. /\ parse_pc \in {"idle", "parsing", "done", "overrun"}
      /\ i \in 0 .. Len(text) /\ j \in 0 .. longest + 1
      /\ in_key \in BOOLEAN
      /\ DOMAIN key = KeyCells /\ DOMAIN value = ValueCells
      /\ load_offset = NoOffset \/ load_offset \in 0 .. UINT32 - 1
      /\ parse_result \in ParserResults
      /\ parse_pc = "done" <=> parse_result # "none"
  BY DEF ParseTypeOK
<1> HIDE DEF longest
<1>3. SUFFICES /\ parse_pc' \in {"idle", "parsing", "done", "overrun"}
               /\ i' \in 0 .. Len(text) /\ j' \in 0 .. longest + 1
               /\ in_key' \in BOOLEAN
               /\ DOMAIN key' = KeyCells /\ DOMAIN value' = ValueCells
               /\ load_offset' = NoOffset \/ load_offset' \in 0 .. UINT32 - 1
               /\ parse_result' \in ParserResults
               /\ parse_pc' = "done" <=> parse_result' # "none"
               /\ text' = text
  BY DEF ParseTypeOK, longest, KeyCells, ValueCells, ParserResults, NoOffset
<1>4. CASE NewlineOverrun \/ EqualsOverrun
  BY <1>2, <1>4 DEF NewlineOverrun, EqualsOverrun, Overrun, Parsing
<1>5. CASE Newline
  <2>1. i + 1 \in 0 .. Len(text) /\ 0 \in 0 .. longest + 1
    BY <1>1, <1>2, <1>5 DEF Newline, TakeLine, Parsing
  <2>2. QED
    BY <1>2, <1>5, <2>1, LineTypes DEF Newline, TakeLine
<1>6. CASE NewlineFails
  BY <1>2, <1>6, LineTypes DEF NewlineFails, TakeLine, ParseReturns
<1>7. CASE CarriageReturn
  BY <1>2, <1>7 DEF CarriageReturn, Parsing
<1>8. CASE Equals
  <2>1. i + 1 \in 0 .. Len(text) /\ 0 \in 0 .. longest + 1
    BY <1>1, <1>2, <1>8 DEF Equals, Parsing
  <2>2. DOMAIN key' = KeyCells
    BY <1>2, <1>8 DEF Equals
  <2>3. QED
    BY <1>2, <1>8, <2>1, <2>2 DEF Equals, Parsing
<1>9. CASE KeyCharacter
  BY <1>1, <1>2, <1>9 DEF KeyCharacter, AtCharacter
<1>10. CASE ValueCharacter
  BY <1>1, <1>2, <1>10 DEF ValueCharacter, AtCharacter
<1>11. CASE TooLong
  BY <1>2, <1>11 DEF TooLong, AtCharacter, ParseReturns, ParserResults
<1>12. CASE EndOfText
  BY <1>2, <1>12 DEF EndOfText, ParseReturns, ParserResults
<1>13. QED
  BY <1>4, <1>5, <1>6, <1>7, <1>8, <1>9, <1>10, <1>11, <1>12 DEF ParseNext

-----------------------------------------------------------------------------
(* Types: main *)

\* The inductive invariant: beside the types, that parse is called once, and on a text.
TypeInv ==
  /\ BootInv
  /\ OpenTypes
  /\ StackTypeOK
  /\ ParseTypeOK
  /\ Len(contents) \in Nat
  /\ Len(text) \in Nat
  /\ boot_pc \in {"mount", "open_options", "read_options"} => parse_pc = "idle"

LEMMA InitTypes == Init => TypeInv
<1> SUFFICES ASSUME Init PROVE TypeInv
  OBVIOUS
<1>1. BootInv
  BY InitInv
<1>2. OpenTypes
  BY DEF Init, OpenInit, OpenTypes, FatResults
<1>3. StackTypeOK
  BY ExtendedStackAssumption DEF Init, StackTypeOK
<1>4. Len(<<>>) = 0
  OBVIOUS
<1>5. ParseTypeOK
  <2>1. 0 \in 0 .. Len(<<>>)
    BY <1>4
  <2>2. 0 \in 0 .. Max({PARSER_KEY_MAX_LENGTH, PARSER_VALUE_MAX_LENGTH}) + 1
    BY LongestArray
  <2>3. QED
    BY <2>1, <2>2 DEF Init, ParseInit, ParseTypeOK, ParserResults, KeyCells, ValueCells, NoOffset
<1>6. QED
  BY <1>1, <1>2, <1>3, <1>4, <1>5 DEF Init, ParseInit, TypeInv

\* main itself leaves the result of fat_open, or calls it again.
LEMMA MainKeepsOpenTypes ==
  ASSUME OpenTypes, UNCHANGED openVars \/ (\E p : CallOpen(p)), failed' \in {failed, TRUE}
  PROVE  OpenTypes'
<1>1. CASE UNCHANGED openVars
  BY <1>1 DEF openVars, OpenTypes, FatResults
<1>2. CASE \E p : CallOpen(p)
  BY <1>2 DEF CallOpen, OpenTypes, FatResults
<1>3. QED
  BY <1>1, <1>2

LEMMA ParseCallTypes ==
  ASSUME ParseTypeOK, parse_pc = "idle", NEW t, Len(t) \in Nat, CallParse(t)
  PROVE  ParseTypeOK' /\ Len(text') \in Nat
<1>1. 0 \in 0 .. Len(t) /\ text' = t
  BY DEF CallParse
<1>2. 0 \in 0 .. Max({PARSER_KEY_MAX_LENGTH, PARSER_VALUE_MAX_LENGTH}) + 1
  BY LongestArray
<1>3. QED
  BY <1>1, <1>2 DEF CallParse, ParseTypeOK, ParserResults, KeyCells, ValueCells, NoOffset

LEMMA ParseStays ==
  ASSUME ParseTypeOK, Len(text) \in Nat, UNCHANGED parseVars
  PROVE  ParseTypeOK' /\ Len(text') \in Nat /\ parse_pc' = parse_pc
<1>1. text' = text /\ parse_pc' = parse_pc
  BY DEF parseVars
<1>2. ParseTypeOK'
  BY DEF parseVars, ParseTypeOK, ParserResults, KeyCells, ValueCells, NoOffset
<1>3. QED
  BY <1>1, <1>2

\* What main pushes there is room for, and it pops what it pushed.
LEMMA MainKeepsStack ==
  ASSUME BootInv, StackTypeOK,
         UNCHANGED ext_stack_top \/ PushOptions \/ PopOptions \/ ReadFailed
  PROVE  StackTypeOK'
<1>1. CASE UNCHANGED ext_stack_top
  BY <1>1 DEF StackTypeOK
<1>2. CASE PushOptions
  <2>1. PICK t \in TEXTS[disk.texts] :
          CanPush(TextLength(t)) /\ ext_stack_top' = ext_stack_top - TextLength(t)
    BY <1>2 DEF PushOptions
  <2>2. QED
    BY <2>1, TextLengthType, ExtendedStackAssumption DEF StackTypeOK, CanPush
<1>3. CASE PopOptions
  <2>1. CanPop(options_txt_length) /\ ext_stack_top' = ext_stack_top + options_txt_length
    BY <1>3 DEF PopOptions
  <2>2. options_txt_length \in Nat
    BY DEF BootInv
  <2>3. QED
    BY <2>1, <2>2, ExtendedStackAssumption DEF StackTypeOK, CanPop
<1>4. CASE ReadFailed
  <2>1. PICK sectors \in 0 .. mounted.bpb.sectors_per_cluster :
          /\ CanPop(sectors * bytes_per_sector)
          /\ ext_stack_top' = ext_stack_top + sectors * bytes_per_sector
    BY <1>4 DEF ReadFailed
  <2>2. sectors \in Nat /\ bytes_per_sector \in Nat
    BY BpbAssumption DEF BootInv, Geometry, Bpb, bytes_per_sector
  <2>3. PICK popped \in Nat : popped = sectors * bytes_per_sector
    BY <2>2
  <2>4. QED
    BY <2>1, <2>3, ExtendedStackAssumption DEF StackTypeOK, CanPop
<1>5. QED
  BY <1>1, <1>2, <1>3, <1>4

LEMMA NextTypes ==
  ASSUME AllFormatted, AllHoldNumbers, TypeInv, [Next]_vars
  PROVE  TypeInv'
<1>1. IsFormatted(disk) /\ HoldsNumbers(disk) /\ BootInv'
  BY NextInv DEF AllFormatted, AllHoldNumbers, TypeInv, BootInv
<1>2. CASE OpenStep \/ OpenDiskFails
  <2>1. Opening /\ UNCHANGED <<bootVars, parseVars>> /\ (OpenProgress \/ OpenFails)
    BY <1>2 DEF OpenStep, OpenDiskFails
  <2>2. OpenTypes' /\ StackTypeOK'
    BY <1>1, <2>1, OpenKeepsTypes, OpenKeepsStack DEF TypeInv
  <2>3. ParseTypeOK' /\ Len(text') \in Nat /\ parse_pc' = parse_pc
    BY <2>1, ParseStays DEF TypeInv
  <2>4. QED
    BY <1>1, <2>1, <2>2, <2>3 DEF TypeInv, bootVars
<1>3. CASE ParseStep
  <2>1. /\ boot_pc = "parse" /\ ParseNext
        /\ UNCHANGED bootVars /\ UNCHANGED fatVars /\ UNCHANGED openVars
    BY <1>3 DEF ParseStep
  <2>2. ParseTypeOK' /\ text' = text
    BY <2>1, ParseKeepsTypes DEF TypeInv
  <2>3. OpenTypes' /\ StackTypeOK'
    BY <2>1, MainKeepsOpenTypes, MainKeepsStack DEF TypeInv, fatVars
  <2>4. QED
    BY <1>1, <2>1, <2>2, <2>3 DEF TypeInv, bootVars
<1>4. CASE ReadOptions
  <2>1. /\ boot_pc = "read_options" /\ CallParse(contents) /\ boot_pc' = "parse"
        /\ contents' = contents
        /\ UNCHANGED fatVars /\ UNCHANGED openVars
    BY <1>4 DEF ReadOptions, Becomes
  <2>2. ParseTypeOK' /\ Len(text') \in Nat
    BY <2>1, ParseCallTypes DEF TypeInv
  <2>3. OpenTypes' /\ StackTypeOK'
    BY <2>1, MainKeepsOpenTypes, MainKeepsStack DEF TypeInv, fatVars
  <2>4. QED
    BY <1>1, <2>1, <2>2, <2>3 DEF TypeInv
<1>5. ASSUME UNCHANGED parseVars,
             UNCHANGED openVars \/ (\E p : CallOpen(p)),
             failed' \in {failed, TRUE},
             UNCHANGED ext_stack_top \/ PushOptions \/ PopOptions \/ ReadFailed,
             Len(contents') \in Nat,
             boot_pc' \in {"mount", "open_options", "read_options"} =>
               boot_pc \in {"mount", "open_options", "read_options"}
      PROVE  TypeInv'
  <2>1. OpenTypes' /\ StackTypeOK'
    BY <1>5, MainKeepsOpenTypes, MainKeepsStack DEF TypeInv
  <2>2. ParseTypeOK' /\ Len(text') \in Nat /\ parse_pc' = parse_pc
    BY <1>5, ParseStays DEF TypeInv
  <2>3. QED
    BY <1>1, <1>5, <2>1, <2>2 DEF TypeInv
<1>6. CASE PushOptions
  <2>1. PICK t \in TEXTS[disk.texts] : contents' = t
    BY <1>6 DEF PushOptions
  <2>2. Len(contents') \in Nat
    BY <1>1, <2>1, TextsAssumption DEF TypeInv, BootInv
  <2>3. QED
    BY <1>5, <1>6, <2>2 DEF PushOptions, Opened
<1>7. Len(contents) \in Nat
  BY DEF TypeInv
<1>8. CASE MountVolume
  <2>1. contents' = contents
    BY <1>8 DEF MountVolume, Becomes
  <2>2. QED
    BY <1>5, <1>7, <1>8, <2>1 DEF MountVolume, Mount, Becomes
<1>9. CASE MountFails
  BY <1>5, <1>7, <1>9 DEF MountFails, Stop, Becomes
<1>10. CASE OpenPanics \/ PushOptionsPanic \/ ReadPanics
  BY <1>5, <1>7, <1>10 DEF OpenPanics, PushOptionsPanic, ReadPanics, BootPanics, Becomes, fatVars
<1>11. CASE ParseOverruns \/ PrintOffsetOverruns
  BY <1>5, <1>7, <1>11 DEF ParseOverruns, PrintOffsetOverruns, BufferOverrun, Becomes, fatVars
<1>12. CASE NotOpened \/ NotParsed \/ NotElf
  BY <1>5, <1>7, <1>12 DEF NotOpened, NotParsed, NotElf, Stop, Becomes, fatVars
<1>13. CASE ReadFails
  BY <1>5, <1>7, <1>13 DEF ReadFails, ReadFailed, Stop, Becomes
<1>14. CASE PopOptions
  BY <1>5, <1>7, <1>14 DEF PopOptions, Becomes
<1>15. CASE PrintOffset
  <2>1. \E p : CallOpen(p)
    BY <1>15 DEF PrintOffset
  <2>2. QED
    BY <1>5, <1>7, <1>15, <2>1 DEF PrintOffset, Becomes, fatVars
<1>16. CASE OpenElf \/ HandOver
  BY <1>5, <1>7, <1>16 DEF OpenElf, HandOver, Becomes, fatVars
<1>17. CASE UNCHANGED vars
  BY <1>5, <1>7, <1>17 DEF vars, bootVars, fatVars
<1>18. QED
  BY <1>2, <1>3, <1>4, <1>6, <1>8, <1>9, <1>10, <1>11, <1>12, <1>13, <1>14, <1>15, <1>16, <1>17
     DEF Next, Progress, TypeInv

\* For every formatted disk, text and size of the buffers: what main, fat_open and parse
\* keep has its type, with the stack between its limits, the indices of parse within one
\* cell of its arrays, the clusters fat_next makes of the bytes of the table numbers, and
\* a result of fat_open and of parse exactly when they have returned.
THEOREM BootTypeOKAlways == ASSUME AllFormatted, AllHoldNumbers PROVE Spec => []BootTypeOK
<1>1. TypeInv => BootTypeOK
  BY DEF TypeInv, BootInv, BootTypeOK, OpenTypes, OpenTypeOK, OpenStates
<1>2. QED
  BY <1>1, InitTypes, NextTypes, PTL DEF Spec
=============================================================================
