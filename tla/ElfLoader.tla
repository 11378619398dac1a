----------------------------- MODULE ElfLoader -----------------------------
(***************************************************************************)
(* What main does with memory once get_sysinfo has returned: elf_load of   *)
(* stage1/elf.c puts every loadable segment into the list of regions and   *)
(* reads it into place, and get_stack_pointer of stage1/prot.c picks the   *)
(* stack the binary starts on.                                             *)
(*                                                                         *)
(* The program headers are chosen one at a time from SEGMENTS; a read of   *)
(* the file, of a header or of a segment, may fail.  Addresses of segments *)
(* are uint32_t, those of the list uint64_t.                               *)
(***************************************************************************)
EXTENDS SysInfo

CONSTANTS
  PTR_MOD,        \* pointers and ELF addresses are uint32_t: 2^32
  SEGMENTS,       \* the PT_LOAD program headers the file may hold
  MAX_SEGMENTS,   \* bound: how many of them
  STACK_RESERVE,  \* transfer_control: a pointer and a long
  STACK_ALIGN     \* 2^ELF_STACK_ALIGNMENT

PtrAddresses == 0 .. PTR_MOD - 1
Segments == [p_vaddr : PtrAddresses, p_filesz : PtrAddresses, p_memsz : PtrAddresses]

ASSUME PtrModAssumption == PTR_MOD \in 1 .. ADDR_MOD
ASSUME SegmentsAssumption == SEGMENTS \subseteq Segments
ASSUME MaxSegmentsAssumption == MAX_SEGMENTS \in Nat
ASSUME StackAssumption == STACK_RESERVE \in Nat /\ STACK_ALIGN \in Nat \ {0}

VARIABLES
  segments,       \* history: the segments accepted so far
  written,        \* history: the addresses elf_load has written to
  elf_result,     \* what elf_load returned
  largest, scan,  \* get_stack_pointer: the loop over the list
  stack_pointer   \* what get_stack_pointer found

elfVars == <<segments, written, elf_result, largest, scan, stack_pointer>>
bootVars == <<vars, elfVars>>

ElfResults == {"none", "ELF_SUCCESS", "ELF_FAT_ERROR", "ELF_LOAD_ON_RESERVED_MEMORY"}
NO_STACK == -1

ElfInit ==
  /\ SysInfoInit
  /\ segments = <<>>
  /\ written = {}
  /\ elf_result = "none"
  /\ largest = NULL
  /\ scan = NULL
  /\ stack_pointer = NO_STACK

ElfUnchanged == UNCHANGED <<largest, scan, stack_pointer>>

-----------------------------------------------------------------------------
(* elf_load *)

\* main calls elf_load when get_sysinfo has succeeded
InElfLoad ==
  /\ pc = "done"
  /\ result = "SYSINFO_SUCCESS"
  /\ elf_result = "none"

is_intersecting_used_memregions_M(s) ==
  \/ s.p_memsz = 0
  \/ \E n \in InList :
       /\ heap[n].type # SYSINFO_MT_USABLE
       /\ heap[n].base_addr >= s.p_vaddr
       /\ (s.p_vaddr + s.p_memsz) % PTR_MOD > heap[n].base_addr

is_intersecting_used_memregions(s) ==
  \/ s.p_memsz = 0
  \/ \E n \in InList :
       /\ heap[n].type # SYSINFO_MT_USABLE
       /\ IF heap[n].base_addr < s.p_vaddr
          THEN RightOf(heap, n) > s.p_vaddr
          ELSE (s.p_vaddr + s.p_memsz) % PTR_MOD > heap[n].base_addr

Rejected(s) ==
  \/ s.p_vaddr < REAL_MODE_LIMIT
  \/ is_intersecting_used_memregions(s)

\* listed with the size in the file, or as if it were still free
AcceptSegment_M(s) ==
  /\ InElfLoad
  /\ ~Rejected(s)
  /\ \/ CallInsert(Region(s.p_vaddr, s.p_filesz, SYSINFO_MT_ELF_EXECUTABLE), "load")
     \/ CallInsert(Region(s.p_vaddr, s.p_memsz, SYSINFO_MT_USABLE), "load")
  /\ segments' = Append(segments, s)
  /\ UNCHANGED sysinfoVars
  /\ UNCHANGED <<written, elf_result>>
  /\ ElfUnchanged

\* append_memregion, on a header that was read and passed the checks
AcceptSegment(s) ==
  /\ InElfLoad
  /\ ~Rejected(s)
  /\ CallInsert(Region(s.p_vaddr, s.p_memsz, SYSINFO_MT_ELF_EXECUTABLE), "load")
  /\ segments' = Append(segments, s)
  /\ UNCHANGED sysinfoVars
  /\ UNCHANGED <<written, elf_result>>
  /\ ElfUnchanged

AcceptSegmentPanic(s) ==
  /\ InElfLoad
  /\ ~Rejected(s)
  /\ AllocPanic
  /\ UNCHANGED sysinfoVars
  /\ UNCHANGED elfVars

RejectSegment(s) ==
  /\ InElfLoad
  /\ Rejected(s)
  /\ elf_result' = "ELF_LOAD_ON_RESERVED_MEMORY"
  /\ UNCHANGED <<listVars, sysinfoVars, segments, written>>
  /\ ElfUnchanged

ReadHeaderFails ==
  /\ InElfLoad
  /\ elf_result' = "ELF_FAT_ERROR"
  /\ UNCHANGED <<listVars, sysinfoVars, segments, written>>
  /\ ElfUnchanged

Segment == segments[Len(segments)]

\* the n bytes at segment s's address, where the CPU puts them
Bytes(s, n) == {(s.p_vaddr + k) % PTR_MOD : k \in 0 .. n - 1}

\* p_filesz bytes from the file, the rest up to p_memsz zeroed
ReadSegment ==
  /\ pc = "load"
  /\ written' = written \cup
       Bytes(Segment, IF Segment.p_memsz > Segment.p_filesz
                      THEN Segment.p_memsz ELSE Segment.p_filesz)
  /\ pc' = "done"
  /\ ListUnchanged
  /\ UNCHANGED <<sysinfoVars, segments, elf_result>>
  /\ ElfUnchanged

\* fat_read fails after some part of the segment is in place
ReadSegmentFails ==
  /\ pc = "load"
  /\ \E n \in 0 .. Segment.p_filesz : written' = written \cup Bytes(Segment, n)
  /\ pc' = "done"
  /\ elf_result' = "ELF_FAT_ERROR"
  /\ ListUnchanged
  /\ UNCHANGED <<sysinfoVars, segments>>
  /\ ElfUnchanged

\* all headers are loaded: transfer_control looks for a stack
LoadDone ==
  /\ InElfLoad
  /\ elf_result' = "ELF_SUCCESS"
  /\ pc' = "stack"
  /\ largest' = mem_regions
  /\ scan' = mem_regions
  /\ ListUnchanged
  /\ UNCHANGED <<sysinfoVars, segments, written, stack_pointer>>

-----------------------------------------------------------------------------
(* get_stack_pointer *)

ScanRegion_M ==
  /\ pc = "stack"
  /\ scan # NULL
  /\ largest' = IF heap[scan].size >= heap[largest].size THEN scan ELSE largest
  /\ UNCHANGED <<listVars, sysinfoVars, segments, written, elf_result, scan, stack_pointer>>

ScanRegion ==
  /\ pc = "stack"
  /\ scan # NULL
  /\ largest' = IF heap[scan].size >= heap[largest].size THEN scan ELSE largest
  /\ scan' = NextOf(scan)
  /\ UNCHANGED <<listVars, sysinfoVars, segments, written, elf_result, stack_pointer>>

AlignDown(a) == a - (a % STACK_ALIGN)

\* the aligned address STACK_RESERVE below the end of the region, cast to uint32_t
StackBottom(r) ==
  AlignDown(((r.base_addr + r.size - 1 - STACK_RESERVE) % ADDR_MOD) % PTR_MOD)

HasSpace_M == largest # NULL
HasSpace == largest # NULL /\ StackBottom(heap[largest]) >= heap[largest].base_addr

\* control goes to the binary, with info and a return address pushed
Transfer ==
  /\ pc = "stack"
  /\ scan = NULL
  /\ HasSpace
  /\ stack_pointer' = (StackBottom(heap[largest]) + STACK_RESERVE) % PTR_MOD
  /\ pc' = "running"
  /\ ListUnchanged
  /\ UNCHANGED <<sysinfoVars, segments, written, elf_result, largest, scan>>

\* CONTROL_NO_SPACE_FOR_STACK: main reports it and returns
NoSpaceForStack ==
  /\ pc = "stack"
  /\ scan = NULL
  /\ ~HasSpace
  /\ pc' = "no_stack"
  /\ ListUnchanged
  /\ UNCHANGED <<sysinfoVars, elfVars>>

ElfNext ==
  \/ /\ Len(segments) < MAX_SEGMENTS
     /\ \E s \in SEGMENTS : AcceptSegment(s) \/ AcceptSegmentPanic(s) \/ RejectSegment(s)
  \/ ReadHeaderFails \/ ReadSegment \/ ReadSegmentFails
  \/ LoadDone \/ ScanRegion \/ Transfer \/ NoSpaceForStack

BootNext ==
  \/ SysInfoNext /\ UNCHANGED elfVars
  \/ ElfNext

BootSpec == ElfInit /\ [][BootNext]_bootVars
FairBootSpec == BootSpec /\ WF_bootVars(BootNext)

-----------------------------------------------------------------------------
ElfTypeOK ==
  /\ ListTypeOK
  /\ pc \in {"e820", "walk", "fix", "rsdp", "done", "panic",
             "load", "stack", "running", "no_stack"}
  /\ reported \in Seq(E820Regions)
  /\ count \in 0 .. Len(reported)
  /\ result \in Results
  /\ segments \in Seq(SEGMENTS)
  /\ written \subseteq PtrAddresses
  /\ elf_result \in ElfResults
  /\ {largest, scan} \subseteq Pointers
  /\ stack_pointer \in PtrAddresses \cup {NO_STACK}

\* elf_load writes only at or above REAL_MODE_LIMIT, and nowhere a region was inserted
\* as anything but usable: neither the segment nor a part of it that was read before the
\* read failed.  Memory that no region covers is not refused, and neither is the region
\* that get_mem_regions dropped (RefusesReserved).
SparesRestricted ==
  \A a \in written :
    /\ a >= REAL_MODE_LIMIT
    /\ \A r \in Inserted : Covers(r, a) => convert_type(r.type) = SYSINFO_MT_USABLE

SegmentBytes(i) == Bytes(segments[i], segments[i].p_memsz)

\* No segment is accepted over memory an earlier segment occupies: the list, after
\* all its merges and splits, still says the earlier segment is there.
SegmentsApart ==
  \A i, j \in 1 .. Len(segments) :
    i # j => SegmentBytes(i) \cap SegmentBytes(j) = {}

Loaded == pc \in {"done", "load", "stack", "running"}

\* The list main hands to the binary says of every byte of the binary that it is
\* occupied, however the segments split and border the regions of the firmware.
BinaryIsListed ==
  Loaded =>
    LET restriction == Restrictions
    IN  \A i \in 1 .. Len(segments) : \A a \in SegmentBytes(i) :
          restriction[a] = SYSINFO_MT_ELF_EXECUTABLE

\* Whatever elf_load splits and merges, the list main hands to the binary still says of
\* every address of a region that get_mem_regions inserted as anything but usable what
\* the firmware said of it.
InsertedSurvivesLoading ==
  (Loaded /\ result = "SYSINFO_SUCCESS") =>
    LET restriction == Restrictions
    IN  \A r \in Inserted : \A a \in Addresses :
          LET type == convert_type(r.type)
          IN  (Covers(r, a) /\ a >= REAL_MODE_LIMIT /\ type # SYSINFO_MT_USABLE)
                => restriction[a] = type

\* A usable region of the list overlaps a segment only where both begin at the same
\* address.  (A segment that begins where a usable region begins is linked before it, and
\* only the two nodes before the segment are repaired.)  No other segment that begins in,
\* splits or borders a usable region leaves any of its bytes listed as usable, whatever is
\* merged with it.
BinaryNotUsable ==
  Loaded =>
    \A n \in InList :
      heap[n].type = SYSINFO_MT_USABLE =>
        \A i \in 1 .. Len(segments) :
          heap[n].base_addr # segments[i].p_vaddr => Extent(n) \cap SegmentBytes(i) = {}

\* the bytes transfer_control pushes before it jumps
Pushed == {stack_pointer - k : k \in 1 .. STACK_RESERVE}

\* The stack lies in one region of the list, none of which is larger: the cast to
\* uint32_t and the alignment never take it out of the region.
StackInLargestRegion ==
  pc = "running" =>
    \E n \in InList :
      /\ Pushed \subseteq Extent(n)
      /\ \A m \in InList : heap[m].size <= heap[n].size

BootEnded ==
  \/ pc \in {"running", "no_stack", "panic"}
  \/ result \in Results \ {"none", "SYSINFO_SUCCESS"}
  \/ elf_result \in {"ELF_FAT_ERROR", "ELF_LOAD_ON_RESERVED_MEMORY"}

\* The boot comes to an end: the binary runs, or an error is reported.  readme.md
\* says the binary is loaded and executed; fix_right does not always return.
BootEnds == <>BootEnded

\* fix_right is to cut this_region at a next region that reaches as far: it
\* changes neither limit_right nor the next region and tries again
CutsForever ==
  /\ pc = "fix"
  /\ Overlapping
  /\ NextWins
  /\ limit_right <= RightOf(heap, next_region)

\* That cut is the only way the boot does not come to an end, and of a map in
\* order and without overlaps it takes a segment of the binary: no region of the
\* firmware's leads to it.
BootEndsOrCutsForever == <>(BootEnded \/ (CutsForever /\ ret = "load"))

\* "Load on a reserved region of memory" (elf_result_to_str) is the answer to every
\* segment that shares a byte with a region the firmware reported as anything but usable,
\* the last region of its map included.
RefusesReserved ==
  \A k \in 1 .. Len(reported) :
    convert_type(reported[k].type) # SYSINFO_MT_USABLE =>
      \A i \in 1 .. Len(segments) : \A a \in SegmentBytes(i) : ~Covers(reported[k], a)

\* "The ELF cannot load segments to memory below 1MiB" (readme.md)
NothingLoadedLow == \A a \in written : a >= REAL_MODE_LIMIT

\* The bytes of region n a stack can start in: the list says usable, and a 32-bit
\* pointer reaches them.
UsableForStack(n) ==
  IF heap[n].type = SYSINFO_MT_USABLE THEN Extent(n) \cap PtrAddresses ELSE {}

\* "Not enough space in memory to place stack pointer" (control_result_to_str) is
\* said only when no usable region within reach has room for the two words.
NoSpaceMeansNoSpace ==
  pc = "no_stack" =>
    \A n \in InList :
      ~ \E a \in UsableForStack(n) :
          a % STACK_ALIGN = 0 /\ a .. a + STACK_RESERVE \subseteq UsableForStack(n)
=============================================================================
