------------------------------ MODULE ElfProofs ------------------------------
(***************************************************************************)
(* From the first report of the firmware to the jump into the binary: the  *)
(* types, and for maps in order what elf_load and get_stack_pointer make   *)
(* of the list.                                                            *)
(*                                                                         *)
(* The list of an ordered map is a chain (OrderedMapProofs); the list      *)
(* elf_load works on is not: segments are inserted anywhere in it, and two *)
(* neighbours may overlap where one of them is usable.  LoadShape says     *)
(* what is left of the order, Held that nothing occupied gets lost in it.  *)
(***************************************************************************)
EXTENDS ElfLoader, OrderedMapProofs

\* where get_sysinfo is at work or has ended, and where get_stack_pointer is or has
SysInfoPcs == {"e820", "walk", "fix", "rsdp", "done", "panic"}
StackPcs == {"stack", "running", "no_stack"}

\* the inductive invariant: beside the types, insert_sorted returns to elf_load only when
\* it was called with a segment, and get_stack_pointer has not begun before the list is
\* complete
ElfInv ==
  /\ ElfTypeOK
  /\ ret \in {"e820", "rsdp", "load"}
  /\ pc = "load" => ret = "load"
  /\ ret = "load" => segments # <<>>
  /\ pc \notin StackPcs => largest = NULL /\ scan = NULL

\* main begins with an empty list, before the first report.
LEMMA ElfInitInv == ElfInit => ElfInv
<1> SUFFICES ASSUME ElfInit PROVE ElfInv
  OBVIOUS
<1>1. SysInfoTypeOK
  BY InitType DEF ElfInit
<1>2. segments \in Seq(SEGMENTS)
  BY DEF ElfInit
<1>3. count \in 0 .. Len(reported)
  BY DEF ElfInit, SysInfoInit
<1>4. Len(heap) = 0
  BY DEF ElfInit, SysInfoInit, ListInit
<1>5. QED
  BY <1>1, <1>2, <1>3, <1>4
  DEF ElfInit, SysInfoInit, ElfInv, ElfTypeOK, SysInfoTypeOK, ElfResults, Pointers, NULL, NO_STACK

\* A null pointer stays one, however the list grows.
LEMMA NullPointer ==
  ASSUME ListTypeOK
  PROVE  NULL \in Pointers
BY DEF ListTypeOK, HeapOK, Pointers, NULL

\* A step of get_sysinfo keeps the invariant when it keeps the types of its own variables
\* and returns to where insert_sorted was called.
LEMMA SysInfoStepInv ==
  ASSUME ElfInv, pc \in SysInfoPcs, ListTypeOK',
         pc' \in SysInfoPcs \cup {ret},
         ret' # ret => ret' \in {"e820", "rsdp"} /\ pc' \in SysInfoPcs,
         reported' \in Seq(E820Regions), count' \in 0 .. Len(reported'), result' \in Results,
         UNCHANGED elfVars
  PROVE  ElfInv'
<1>1. NULL \in Pointers'
  BY NullPointer DEF ListTypeOK, HeapOK, Pointers, NULL
<1>2. pc' \in SysInfoPcs \cup {"load"} /\ (pc' = "load" => ret = "load")
  BY DEF ElfInv, SysInfoPcs
<1>3. largest = NULL /\ scan = NULL
  BY DEF ElfInv, SysInfoPcs, StackPcs
<1>4. pc' = "load" => ret' = "load"
  BY <1>2 DEF SysInfoPcs
<1>5. ret' \in {"e820", "rsdp", "load"} /\ (ret' = "load" => segments # <<>>)
  BY DEF ElfInv
<1>6. QED
  BY <1>1, <1>2, <1>3, <1>4, <1>5 DEF ElfInv, ElfTypeOK, elfVars, SysInfoPcs, ElfResults

\* What the end of the reports leaves: no region, or the call for the memory below 1 MiB.
LEMMA AfterLoopInv ==
  ASSUME ElfInv, pc = "e820", AfterLoop,
         reported' \in Seq(E820Regions), count' \in 0 .. Len(reported'), UNCHANGED elfVars
  PROVE  ElfInv'
<1>1. CASE NoRegions
  <2>1. ListTypeOK' /\ pc' = "done" /\ ret' = ret /\ result' \in Results
    BY <1>1 DEF NoRegions, ElfInv, ElfTypeOK, ListTypeOK, ListUnchanged, Pointers, Results
  <2>2. QED
    BY <2>1, SysInfoStepInv DEF SysInfoPcs
<1>2. CASE ReserveLow
  <2>1. ListTypeOK'
    BY <1>2, ReservedType, CallInsertType DEF ReserveLow, ElfInv, ElfTypeOK
  <2>2. pc' \in {"rsdp", "walk"} /\ ret' = "rsdp" /\ result' \in Results
    BY <1>2 DEF ReserveLow, CallInsert, ElfInv, ElfTypeOK
  <2>3. QED
    BY <2>1, <2>2, SysInfoStepInv DEF SysInfoPcs
<1>3. CASE ReserveLowPanic
  <2>1. ListTypeOK' /\ pc' = "panic" /\ ret' = ret /\ result' \in Results
    BY <1>3, AllocPanicType DEF ReserveLowPanic, AllocPanic, ElfInv, ElfTypeOK
  <2>2. QED
    BY <2>1, SysInfoStepInv DEF SysInfoPcs
<1>4. QED
  BY <1>1, <1>2, <1>3 DEF AfterLoop

\* Until elf_load is called, and while insert_sorted works for it, the code of get_sysinfo
\* keeps the invariant.
LEMMA SysInfoNextInv ==
  ASSUME ElfInv, SysInfoNext, UNCHANGED elfVars
  PROVE  ElfInv'
<1> USE DEF ElfInv, ElfTypeOK
<1>1. ASSUME NEW r \in NextReports, NextRegion(r) \/ NextRegionPanic(r) \/ LastRegion(r)
      PROVE  ElfInv'
  <2>1. r \in E820Regions
    BY BiosRegionsAssumption DEF NextReports
  <2>2. /\ Len(reported) \in Nat
        /\ Append(reported, r) \in Seq(E820Regions)
        /\ Len(Append(reported, r)) = Len(reported) + 1
    BY <2>1, AppendProperties
  <2>3. CASE NextRegion(r)
    <3>1. ListTypeOK'
      BY <2>1, <2>3, ConvertType, CallInsertType DEF NextRegion
    <3>2. pc' \in {"e820", "walk"} /\ ret' = "e820"
      BY <2>3 DEF NextRegion, CallInsert
    <3>3. reported' \in Seq(E820Regions) /\ count' \in 0 .. Len(reported') /\ result' \in Results
      BY <2>2, <2>3 DEF NextRegion
    <3>4. pc \in SysInfoPcs
      BY <2>3 DEF NextRegion, SysInfoPcs
    <3>5. QED
      BY <3>1, <3>2, <3>3, <3>4, SysInfoStepInv DEF SysInfoPcs
  <2>4. CASE NextRegionPanic(r)
    <3>1. ListTypeOK' /\ pc' = "panic" /\ ret' = ret /\ pc = "e820"
      BY <2>4, AllocPanicType DEF NextRegionPanic, AllocPanic
    <3>2. reported' \in Seq(E820Regions) /\ count' \in 0 .. Len(reported') /\ result' \in Results
      BY <2>2, <2>4 DEF NextRegionPanic
    <3>3. QED
      BY <3>1, <3>2, SysInfoStepInv DEF SysInfoPcs
  <2>5. CASE LastRegion(r)
    BY <2>2, <2>5, AfterLoopInv DEF LastRegion
  <2>6. QED
    BY <1>1, <2>3, <2>4, <2>5
<1>2. CASE NoMoreRegions
  BY <1>2, AfterLoopInv DEF NoMoreRegions
<1>3. CASE SearchRsdp
  <2>1. ListTypeOK' /\ pc' = "done" /\ ret' = ret /\ result' \in Results /\ pc = "rsdp"
    BY <1>3 DEF SearchRsdp, ListTypeOK, ListUnchanged, Pointers, Results
  <2>2. QED
    BY <1>3, <2>1, SysInfoStepInv DEF SearchRsdp, SysInfoPcs
<1>4. CASE ListStep
  <2>1. ListTypeOK'
    BY <1>4, InsertSortedType DEF ListStep
  <2>2. pc \in {"walk", "fix"}
    BY <1>4 DEF ListStep, InsertSorted, Walk, LinkFirst, LinkHead, LinkAfter, FixRight, DropNext,
         TrimNext, CutThis, SplitThis, SplitPanic, MergeRight, ExtendReserved, PadGap, PadPanic,
         NoPadding, LoopOver, Overlapping
  <2>3. pc' \in {"walk", "fix", "panic", pc, ret} /\ ret' = ret
    BY <1>4, ListStepControl DEF ListStep
  <2>4. UNCHANGED <<reported, count, result>>
    BY <1>4 DEF ListStep, sysinfoVars
  <2>5. QED
    BY <2>1, <2>2, <2>3, <2>4, SysInfoStepInv DEF SysInfoPcs
<1>5. QED
  BY <1>1, <1>2, <1>3, <1>4 DEF SysInfoNext

-----------------------------------------------------------------------------
\* A segment makes a well-formed node.
LEMMA SegmentRegion ==
  ASSUME NEW s \in SEGMENTS
  PROVE  LET r == Region(s.p_vaddr, s.p_memsz, SYSINFO_MT_ELF_EXECUTABLE)
         IN  r \in Regions /\ r.next = NULL
<1>1. s \in Segments /\ PtrAddresses \subseteq Addresses
  BY SegmentsAssumption, PtrModAssumption, AddrModAssumption DEF PtrAddresses, Addresses
<1>2. s.p_vaddr \in Addresses /\ s.p_memsz \in Addresses
  BY <1>1 DEF Segments
<1>3. QED
  BY <1>2
  DEF Region, Regions, MemTypes, NULL, SYSINFO_MT_USABLE, SYSINFO_MT_RECLAIMABLE,
      SYSINFO_MT_ELF_EXECUTABLE, SYSINFO_MT_ACPI_NVS, SYSINFO_MT_BAD, SYSINFO_MT_RESERVED

\* What elf_load writes to is an address.
LEMMA BytesType ==
  ASSUME NEW s \in Segments, NEW n \in Nat
  PROVE  Bytes(s, n) \subseteq PtrAddresses
<1>1. \A x \in Int : x % PTR_MOD \in PtrAddresses
  BY PtrModAssumption, AddrModAssumption DEF PtrAddresses
<1>2. \A k \in 0 .. n - 1 : s.p_vaddr + k \in Int
  BY PtrModAssumption, AddrModAssumption DEF Segments, PtrAddresses
<1>3. QED
  BY <1>1, <1>2 DEF Bytes

\* A step of elf_load outside insert_sorted.
LEMMA LoadStepInv ==
  ASSUME ElfInv, pc \in {"done", "load"}, pc' \in {"done", "panic"},
         ListUnchanged, UNCHANGED <<sysinfoVars, segments, largest, scan, stack_pointer>>,
         written' \subseteq PtrAddresses, elf_result' \in ElfResults
  PROVE  ElfInv'
<1>1. UNCHANGED <<heap, mem_regions, ret, new_region, prev2, prev, current, this_region,
                  limit_right, pending, reported, count, result, segments, largest, scan,
                  stack_pointer>>
  BY DEF sysinfoVars, ListUnchanged
<1>2. ListTypeOK'
  BY <1>1 DEF ElfInv, ElfTypeOK, ListTypeOK, Pointers
<1>3. QED
  BY <1>1, <1>2 DEF ElfInv, ElfTypeOK, Pointers, StackPcs

\* Every step of elf_load and of get_stack_pointer keeps the invariant.
LEMMA ElfNextInv ==
  ASSUME ElfInv, ElfNext
  PROVE  ElfInv'
<1> USE DEF ElfInv, ElfTypeOK
<1>1. ASSUME NEW s \in SEGMENTS, AcceptSegment(s)
      PROVE  ElfInv'
  <2>1. ListTypeOK'
    BY <1>1, SegmentRegion, CallInsertType DEF AcceptSegment
  <2>2. pc = "done" /\ pc' \in {"load", "walk"} /\ ret' = "load"
    BY <1>1 DEF AcceptSegment, CallInsert, InElfLoad
  <2>3. segments' \in Seq(SEGMENTS) /\ segments' # <<>>
    BY <1>1, AppendProperties DEF AcceptSegment
  <2>4. UNCHANGED <<reported, count, result, written, elf_result, largest, scan, stack_pointer>>
    BY <1>1 DEF AcceptSegment, sysinfoVars, ElfUnchanged
  <2>5. NULL \in Pointers'
    BY <2>1 DEF ListTypeOK, HeapOK, Pointers, NULL
  <2>6. largest = NULL /\ scan = NULL
    BY <2>2 DEF StackPcs
  <2>7. QED
    BY <2>1, <2>2, <2>3, <2>4, <2>5, <2>6 DEF StackPcs
<1>2. ASSUME NEW s \in SEGMENTS, AcceptSegmentPanic(s) \/ RejectSegment(s)
      PROVE  ElfInv'
  <2>1. pc = "done" /\ elf_result' \in ElfResults /\ written' = written
    BY <1>2 DEF AcceptSegmentPanic, RejectSegment, InElfLoad, elfVars, ElfResults
  <2>2. /\ pc' \in {"done", "panic"}
        /\ UNCHANGED <<sysinfoVars, segments, largest, scan, stack_pointer>>
        /\ ListUnchanged
    BY <1>2, <2>1
    DEF AcceptSegmentPanic, RejectSegment, AllocPanic, ElfUnchanged, listVars, ListUnchanged,
        elfVars
  <2>3. QED
    BY <2>1, <2>2, LoadStepInv
<1>3. CASE ReadHeaderFails
  BY <1>3, LoadStepInv
  DEF ReadHeaderFails, InElfLoad, ElfUnchanged, listVars, ListUnchanged, ElfResults
<1>4. ASSUME pc = "load"
      PROVE  Segment \in Segments /\ Segment.p_memsz \in Nat /\ Segment.p_filesz \in Nat
  <2>1. Len(segments) \in 1 .. Len(segments)
    BY <1>4, EmptySeq DEF ElfInv
  <2>2. Segment \in SEGMENTS
    BY <2>1, ElementOfSeq DEF Segment
  <2>3. QED
    BY <2>2, SegmentsAssumption, PtrModAssumption, AddrModAssumption DEF Segments, PtrAddresses
<1>5. CASE ReadSegment
  <2>1. written' \subseteq PtrAddresses
    BY <1>4, <1>5, BytesType DEF ReadSegment
  <2>2. QED
    BY <1>5, <2>1, LoadStepInv DEF ReadSegment, ElfUnchanged
<1>6. CASE ReadSegmentFails
  <2>1. written' \subseteq PtrAddresses
    BY <1>4, <1>6, BytesType DEF ReadSegmentFails
  <2>2. QED
    BY <1>6, <2>1, LoadStepInv DEF ReadSegmentFails, ElfUnchanged, ElfResults
<1>7. CASE LoadDone
  BY <1>7
  DEF LoadDone, InElfLoad, ListUnchanged, ListTypeOK, sysinfoVars, Pointers, StackPcs, ElfResults
<1>8. CASE ScanRegion
  <2>1. NextOf(scan) \in Pointers
    BY <1>8, NodeType DEF ScanRegion, NextOf, ListTypeOK, Pointers, NULL, HeapOK
  <2>2. ListTypeOK'
    BY <1>8 DEF ScanRegion, listVars, ListTypeOK, Pointers
  <2>3. QED
    BY <1>8, <2>1, <2>2 DEF ScanRegion, listVars, sysinfoVars, Pointers, StackPcs
<1>9. CASE Transfer
  <2>1. stack_pointer' \in PtrAddresses
    <3>1. largest \in 1 .. Len(heap) /\ HeapOK(heap)
      BY <1>9 DEF Transfer, HasSpace, ListTypeOK, Pointers, NULL, HeapOK
    <3>2. heap[largest].base_addr \in Addresses /\ heap[largest].size \in Addresses
      BY <3>1, NodeType
    <3>3. PICK at \in Int : at = heap[largest].base_addr + heap[largest].size - 1 - STACK_RESERVE
      BY <3>2, StackAssumption, AddrModAssumption DEF Addresses
    <3>4. PICK down \in Nat : down = (at % ADDR_MOD) % PTR_MOD
      BY PtrModAssumption, AddrModAssumption
    <3>5. down % STACK_ALIGN \in Nat
      BY StackAssumption
    <3>6. StackBottom(heap[largest]) \in Int
      BY <3>3, <3>4, <3>5 DEF StackBottom, AlignDown
    <3>7. \A x \in Int : x % PTR_MOD \in PtrAddresses
      BY PtrModAssumption, AddrModAssumption DEF PtrAddresses
    <3>8. QED
      BY <1>9, <3>6, <3>7, StackAssumption DEF Transfer
  <2>2. ListTypeOK'
    BY <1>9 DEF Transfer, ListUnchanged, ListTypeOK, Pointers
  <2>3. QED
    BY <1>9, <2>1, <2>2 DEF Transfer, ListUnchanged, sysinfoVars, Pointers, StackPcs
<1>10. CASE NoSpaceForStack
  <2>1. ListTypeOK'
    BY <1>10 DEF NoSpaceForStack, ListUnchanged, ListTypeOK, Pointers
  <2>2. QED
    BY <1>10, <2>1 DEF NoSpaceForStack, ListUnchanged, sysinfoVars, elfVars, Pointers, StackPcs
<1>11. QED
  BY <1>1, <1>2, <1>3, <1>5, <1>6, <1>7, <1>8, <1>9, <1>10 DEF ElfNext

\* So does every step of the whole.
LEMMA BootNextInv ==
  ASSUME ElfInv, [BootNext]_bootVars
  PROVE  ElfInv'
<1>1. CASE UNCHANGED bootVars
  <2>1. ListTypeOK'
    BY <1>1 DEF bootVars, vars, listVars, ElfInv, ElfTypeOK, ListTypeOK, Pointers
  <2>2. QED
    BY <1>1, <2>1 DEF bootVars, vars, listVars, sysinfoVars, elfVars, ElfInv, ElfTypeOK, Pointers
<1>2. QED
  BY <1>1, SysInfoNextInv, ElfNextInv DEF BootNext

\* From the first report to the jump every pointer that elf_load and get_stack_pointer
\* follow is null or a node, what they write to and start the stack at is a 32-bit
\* address, and what comes back from insert_sorted belongs to a segment.
THEOREM ElfTypeCorrect == BootSpec => []ElfTypeOK
<1>1. ElfInit => ElfInv
  BY ElfInitInv
<1>2. ElfInv /\ [BootNext]_bootVars => ElfInv'
  BY BootNextInv
<1>3. ElfInv => ElfTypeOK
  BY DEF ElfInv
<1>4. QED
  BY <1>1, <1>2, <1>3, PTL DEF BootSpec

-----------------------------------------------------------------------------
(* The list elf_load works on *)

\* What is assumed of the segments of the binary: p_filesz is not larger than p_memsz, and
\* no segment reaches the end of the 32-bit addresses.
SegmentsFit ==
  \A s \in SEGMENTS : s.p_filesz <= s.p_memsz /\ s.p_vaddr + s.p_memsz < PTR_MOD

Free(h, n) == h[n].type = SYSINFO_MT_USABLE

\* S is a list without a cycle: nothing points at its head, and one node at any other.
Line(h, head, S) ==
  /\ S \subseteq 1 .. Len(h) /\ head \in S /\ Closed(h, S)
  /\ \A n \in S : h[n].next # head
  /\ \A m, n \in S : (h[m].next # NULL /\ h[m].next = h[n].next) => m = n

\* a node that does not wrap, and is empty at most where memory is usable
Sized(h, n) == End(h, n) < ADDR_MOD /\ (~Free(h, n) => h[n].size > 0)

\* How node n and its successor q lie in a list that elf_load has added segments to.
Edge(h, n, q) ==
  IF Free(h, n)
  THEN ~Free(h, q) /\ End(h, n) = h[q].base_addr
  ELSE \/ End(h, n) <= h[q].base_addr
       \/ Free(h, q) /\ (h[q].next # NULL => End(h, n) <= End(h, q))

EdgesBut(h, S, X) == \A n \in S \ X : h[n].next # NULL => Edge(h, n, h[n].next)

Shape(h, head, S) ==
  Line(h, head, S) /\ (\A n \in S : Sized(h, n)) /\ LowHead(h, head)

Sound == Shape(heap, mem_regions, List) /\ EdgesBut(heap, List, {})

\* the node of the segment being listed
ElfNode ==
  /\ new_region \in 1 .. Len(heap)
  /\ heap[new_region].type = SYSINFO_MT_ELF_EXECUTABLE
  /\ heap[new_region].size > 0 /\ End(heap, new_region) < ADDR_MOD
  /\ heap[new_region].base_addr > 0

\* the segment shares no address with what is not usable
Clear ==
  \A n \in List : ~Free(heap, n) =>
    \/ End(heap, n) <= heap[new_region].base_addr
    \/ End(heap, new_region) <= heap[n].base_addr

Left(n) == n \in List /\ heap[n].base_addr < heap[new_region].base_addr

WalkingElf ==
  /\ Sound /\ ElfNode /\ Clear
  /\ new_region \notin List
  /\ heap[new_region].base_addr = Segment.p_vaddr
  /\ heap[new_region].size = Segment.p_memsz
  /\ IF prev = NULL THEN prev2 = NULL /\ current = mem_regions
     ELSE Left(prev) /\ heap[prev].next = current
  /\ IF prev2 = NULL THEN prev # NULL => prev = mem_regions
     ELSE Left(prev2) /\ prev # NULL /\ heap[prev2].next = prev

\* Node p is left of the new node s and the next one but for the part that s cuts off.
Before(p, s) ==
  /\ heap[p].base_addr <= heap[s].base_addr
  /\ ~Free(heap, p) => End(heap, p) <= heap[s].base_addr
  /\ (Free(heap, p) /\ heap[s].next # NULL /\ End(heap, p) > heap[s].base_addr) =>
        ~Free(heap, heap[s].next) /\ End(heap, p) = heap[heap[s].next].base_addr

\* the repair of prev2, then of prev
Second ==
  /\ this_region \in List /\ prev \in List /\ new_region \in List
  /\ pending = prev /\ heap[this_region].next = prev /\ heap[prev].next = new_region
  /\ EdgesBut(heap, List, {this_region, prev})
  /\ Before(prev, new_region)
  /\ limit_right = End(heap, this_region)
  /\ IF Free(heap, this_region)
     THEN ~Free(heap, prev) /\ End(heap, this_region) = heap[prev].base_addr
     ELSE /\ End(heap, this_region) <= heap[new_region].base_addr
          /\ ~Free(heap, prev) => End(heap, this_region) <= heap[prev].base_addr

SecondDropped ==
  /\ this_region \in List /\ new_region \in List
  /\ pending = prev /\ prev \in (1 .. Len(heap)) \ List
  /\ heap[this_region].next = new_region /\ heap[prev].next = new_region
  /\ EdgesBut(heap, List, {})
  /\ ~Free(heap, this_region)
  /\ limit_right = End(heap, this_region)
  /\ End(heap, this_region) <= heap[new_region].base_addr
  /\ End(heap, prev) <= heap[new_region].base_addr

First ==
  /\ this_region \in List /\ new_region \in List /\ pending = NULL
  /\ heap[this_region].next = new_region
  /\ EdgesBut(heap, List, {this_region})
  /\ Before(this_region, new_region)
  /\ limit_right = End(heap, this_region)
  /\ \A n \in List : heap[n].next = this_region => End(heap, n) <= heap[this_region].base_addr

FirstDropped ==
  /\ this_region \in (1 .. Len(heap)) \ List /\ pending = NULL
  /\ heap[this_region].next = new_region
  /\ EdgesBut(heap, List, {})
  /\ limit_right = End(heap, this_region)
  /\ End(heap, this_region) <= heap[new_region].base_addr

AfterSplit ==
  /\ this_region \in List /\ pending = NULL /\ Free(heap, this_region)
  /\ EdgesBut(heap, List, {})
  /\ limit_right = End(heap, this_region)

Caught ==
  /\ this_region \in List /\ new_region \in List /\ pending = NULL
  /\ heap[this_region].next = new_region
  /\ EdgesBut(heap, List, {})
  /\ Free(heap, this_region)
  /\ heap[this_region].base_addr <= heap[new_region].base_addr
  /\ End(heap, this_region) = heap[new_region].base_addr
  /\ heap[new_region].base_addr < limit_right /\ limit_right <= End(heap, new_region)

RepairingElf ==
  /\ Shape(heap, mem_regions, List) /\ ElfNode
  /\ Second \/ SecondDropped \/ First \/ FirstDropped \/ AfterSplit \/ Caught

LoadPhase == pc # "panic" /\ (ret = "load" \/ pc \in StackPcs)

\* The list elf_load works on.
LoadShape ==
  LoadPhase =>
    CASE pc = "walk" -> WalkingElf
      [] pc = "fix" -> RepairingElf
      [] OTHER -> Sound

\* Address a lies in a node of type t, which is not usable.
HeldAt(h, S, a, t) ==
  \E n \in S : ~Free(h, n) /\ h[n].type = t /\ h[n].base_addr <= a /\ a < End(h, n)

In(s, a) == s.p_vaddr <= a /\ a < s.p_vaddr + s.p_memsz

ListedSegments == IF pc = "walk" /\ ret = "load" THEN Len(segments) - 1 ELSE Len(segments)

\* what a is in use for: as an inserted report says that is not usable, or for a segment
Occupied(a, t) ==
  \/ \E k \in 1 .. count : /\ Covers(reported[k], a) /\ a >= REAL_MODE_LIMIT
                            /\ ~Usable(k) /\ t = convert_type(reported[k].type)
  \/ /\ \E i \in 1 .. ListedSegments : In(segments[i], a)
     /\ t = SYSINFO_MT_ELF_EXECUTABLE

OccupiedHeld ==
  \A a \in Addresses, t \in MemTypes : Occupied(a, t) => HeldAt(heap, List, a, t)

Held == LoadPhase => OccupiedHeld

SegmentsAccepted ==
  /\ \A i \in 1 .. Len(segments) :
        /\ segments[i].p_vaddr >= REAL_MODE_LIMIT /\ segments[i].p_memsz > 0
        /\ \A a \in Addresses, k \in 1 .. count :
              (In(segments[i], a) /\ Covers(reported[k], a)) => Usable(k)
  /\ \A i, j \in 1 .. Len(segments) : i # j =>
        \/ segments[i].p_vaddr + segments[i].p_memsz <= segments[j].p_vaddr
        \/ segments[j].p_vaddr + segments[j].p_memsz <= segments[i].p_vaddr
  /\ \A a \in written : \E i \in 1 .. Len(segments) : In(segments[i], a)

\* Two usable nodes are never neighbours (but for prev and the new one).
UsableApart(h, S, X) ==
  \A n \in S \ X : (h[n].next # NULL /\ Free(h, n)) => ~Free(h, h[n].next)

MapPhase == pc # "panic" /\ ~LoadPhase
Neighbours ==
  MapPhase => UsableApart(heap, List, IF pc = "fix" /\ ret = "e820" THEN {prev} ELSE {})
MapControl ==
  /\ MapPhase => segments = <<>> /\ written = {} /\ (pc = "rsdp" => ret = "rsdp")
  /\ (MapPhase /\ result = "SYSINFO_SUCCESS") => pc = "done" /\ ret = "rsdp"
  /\ (pc \in StackPcs \cup {"load"} \/ ret = "load") => result = "SYSINFO_SUCCESS"
  /\ ret = "load" => pc \notin {"e820", "rsdp"}

Scanned ==
  /\ pc = "stack" =>
       /\ largest \in List /\ scan \in List \cup {NULL}
       /\ \A n \in List \ Live(heap, scan) : heap[n].size <= heap[largest].size
  /\ pc = "running" =>
       /\ largest \in List /\ HasSpace
       /\ \A n \in List : heap[n].size <= heap[largest].size
       /\ stack_pointer = (StackBottom(heap[largest]) + STACK_RESERVE) % PTR_MOD

-----------------------------------------------------------------------------
(* Lists without a cycle *)

\* No node of such a list points at itself.
LEMMA LineNoLoop ==
  ASSUME NEW h, HeapOK(h), NEW head \in 1 .. Len(h), Line(h, head, Live(h, head)),
         NEW n \in Live(h, head)
  PROVE  h[n].next # n
<1> DEFINE S == Live(h, head)
<1> SUFFICES ASSUME h[n].next = n PROVE FALSE
  OBVIOUS
<1>1. S \subseteq 1 .. Len(h) /\ Len(h) \in Nat
  BY DEF Line, HeapOK
<1>2. n # NULL /\ n # head /\ head \in 0 .. Len(h)
  BY <1>1 DEF Line, NULL
<1>3. Closed(h, S \ {n})
  <2>1. SUFFICES ASSUME NEW m \in S \ {n}, h[m].next # NULL PROVE h[m].next \in S /\ h[m].next # n
    BY DEF Closed
  <2>2. h[m].next \in S
    BY <2>1 DEF Line, Closed
  <2>3. h[m].next # n
    BY <1>2, <2>1 DEF Line
  <2>4. QED
    BY <2>2, <2>3
<1>4. head \in S \ {n}
  BY <1>2 DEF Line
<1>5. S \subseteq S \ {n}
  <2> DEFINE T == S \ {n}
  <2>1. Closed(h, T) /\ head \in T
    BY <1>3, <1>4
  <2> HIDE DEF T
  <2>2. Live(h, head) \subseteq T
    BY <1>2, <2>1, LiveLeast
  <2>3. QED
    BY <2>2 DEF T
<1>6. QED
  BY <1>5

\* The list is the same when its nodes point where they did.
LEMMA LineFrame ==
  ASSUME NEW h, HeapOK(h), NEW g, HeapOK(g), NEW head \in 1 .. Len(h), head \in 1 .. Len(g),
         NEW S, S = Live(h, head), Line(h, head, S), S \subseteq 1 .. Len(g),
         \A n \in S : g[n].next = h[n].next
  PROVE  Live(g, head) = S /\ Line(g, head, S)
<1>1. head \in 0 .. Len(h) /\ head \in 0 .. Len(g) /\ head # NULL
  BY DEF HeapOK, NULL
<1>2. Closed(g, S) /\ head \in S
  BY DEF Closed, Line
<1>3. Live(g, head) \subseteq S
  BY <1>1, <1>2, LiveLeast
<1>4. Closed(g, Live(g, head)) /\ head \in Live(g, head)
  BY <1>1, LiveClosed
<1>5. Closed(h, Live(g, head))
  BY <1>3, <1>4 DEF Closed
<1>6. S \subseteq Live(g, head)
  BY <1>1, <1>4, <1>5, LiveLeast
<1>7. Line(g, head, S)
  BY <1>2 DEF Line
<1>8. QED
  BY <1>3, <1>6, <1>7

\* Heap h holds the list S, and its nodes are nodes of heap g as well.
Lists(h, g, head, S) ==
  /\ HeapOK(h) /\ HeapOK(g) /\ head \in 1 .. Len(h) /\ head \in 1 .. Len(g)
  /\ S = Live(h, head) /\ Line(h, head, S) /\ S \subseteq 1 .. Len(g)

\* In heap g node s is linked behind node p.
Links(h, g, S, p, s) ==
  /\ p \in S /\ s \in 1 .. Len(g) /\ s \notin S
  /\ g[p].next = s /\ g[s].next = h[p].next
  /\ \A n \in S : n # p => g[n].next = h[n].next

\* In heap g the successor u of node p is unlinked.
Unlinks(h, g, S, p, u) ==
  /\ p \in S /\ u = h[p].next /\ u # NULL /\ g[p].next = h[u].next
  /\ \A n \in S : n # p => g[n].next = h[n].next

LEMMA LineInsert ==
  ASSUME NEW h, NEW g, NEW head, NEW S, Lists(h, g, head, S), NEW p, NEW s, Links(h, g, S, p, s)
  PROVE  Live(g, head) = S \cup {s} /\ Line(g, head, S \cup {s})
<1> USE DEF Lists, Links
<1>1. head \in 0 .. Len(h) /\ head \in 0 .. Len(g) /\ head # NULL /\ s # NULL
  BY DEF HeapOK, NULL
<1>2. Closed(g, S \cup {s}) /\ head \in S
  BY DEF Closed, Line
<1>3. Live(g, head) \subseteq S \cup {s}
  BY <1>1, <1>2, LiveLeast
<1> DEFINE T == Live(g, head)
<1>4. Closed(g, T) /\ head \in T
  BY <1>1, LiveClosed
<1> HIDE DEF T
<1>5. Closed(h, T \cap S)
  <2>1. SUFFICES ASSUME NEW n \in T, n \in S, h[n].next # NULL PROVE h[n].next \in T /\ h[n].next \in S
    BY DEF Closed
  <2>2. h[n].next \in S
    BY <2>1 DEF Line, Closed
  <2>3. CASE n = p
    <3>1. s \in T
      BY <1>1, <1>4, <2>1, <2>3 DEF Closed
    <3>2. g[s].next # NULL /\ g[s].next = h[n].next
      BY <2>1, <2>3
    <3>3. g[s].next \in T
      BY <1>4, <3>1, <3>2 DEF Closed
    <3>4. QED
      BY <2>2, <3>2, <3>3
  <2>4. CASE n # p
    <3>1. g[n].next = h[n].next
      BY <2>1, <2>4
    <3>2. g[n].next \in T
      BY <1>4, <2>1, <3>1 DEF Closed
    <3>3. QED
      BY <2>2, <3>1, <3>2
  <2>5. QED
    BY <2>3, <2>4
<1>6. S \subseteq T
  <2>1. head \in T \cap S
    BY <1>2, <1>4
  <2>2. Live(h, head) \subseteq T \cap S
    BY <1>1, <1>5, <2>1, LiveLeast
  <2>3. QED
    BY <2>2
<1>7. s \in T
  BY <1>1, <1>4, <1>6 DEF Closed
<1>8. T = S \cup {s}
  BY <1>3, <1>6, <1>7 DEF T
<1>9. Line(g, head, S \cup {s})
  <2>1. S \cup {s} \subseteq 1 .. Len(g)
    OBVIOUS
  <2>2. ASSUME NEW n \in S \cup {s} PROVE g[n].next # head
    <3>1. s # head
      BY <1>2
    <3>2. QED
      BY <3>1 DEF Line
  <2>3. ASSUME NEW m \in S \cup {s}, NEW n \in S \cup {s}, g[m].next # NULL, g[m].next = g[n].next
        PROVE  m = n
    <3>1. \A x \in S : h[x].next # NULL => h[x].next # s
      BY DEF Line, Closed
    <3>2. CASE m = p
      <4>1. n # s
        BY <1>1, <2>3, <3>1, <3>2
      <4>2. QED
        BY <1>1, <2>3, <3>1, <3>2, <4>1
    <3>3. CASE n = p
      <4>1. m # s
        BY <1>1, <2>3, <3>1, <3>3
      <4>2. QED
        BY <1>1, <2>3, <3>1, <3>3, <4>1
    <3>4. CASE m # p /\ n # p
      <4> DEFINE x == IF m = s THEN p ELSE m
                 y == IF n = s THEN p ELSE n
      <4>1. /\ x \in S /\ y \in S
            /\ h[x].next = g[m].next /\ h[y].next = g[n].next
        BY <3>4
      <4>2. x = y
        <5> HIDE DEF x, y
        <5>1. QED
          BY <2>3, <4>1 DEF Line
      <4>3. QED
        BY <3>4, <4>2
    <3>5. QED
      BY <3>2, <3>3, <3>4
  <2>4. QED
    BY <1>2, <2>1, <2>2, <2>3 DEF Line
<1>10. QED
  BY <1>8, <1>9 DEF T

LEMMA LineRemove ==
  ASSUME NEW h, NEW g, NEW head, NEW S, Lists(h, g, head, S), NEW p, NEW u, Unlinks(h, g, S, p, u)
  PROVE  /\ Live(g, head) = S \ {u} /\ Line(g, head, S \ {u})
         /\ u \in S /\ u # p /\ u # head /\ h[u].next # u
<1> USE DEF Lists, Unlinks
<1>1. head \in 0 .. Len(h) /\ head \in 0 .. Len(g) /\ head # NULL
  BY DEF HeapOK, NULL
<1>2. u \in S /\ u # head /\ head \in S
  BY DEF Line, Closed
<1>3. h[u].next # u /\ h[p].next # p
  BY <1>2, LineNoLoop
<1>4. u # p
  BY <1>3
<1>5. ASSUME NEW n \in S \ {u}, g[n].next # NULL PROVE g[n].next \in S \ {u}
  <2>1. CASE n = p
    <3>1. h[u].next \in S
      BY <1>2, <1>5, <2>1 DEF Line, Closed
    <3>2. QED
      BY <1>3, <2>1, <3>1
  <2>2. CASE n # p
    <3>1. g[n].next = h[n].next /\ h[n].next \in S
      BY <1>5, <2>2 DEF Line, Closed
    <3>2. h[n].next # u
      BY <2>2 DEF Line
    <3>3. QED
      BY <3>1, <3>2
  <2>3. QED
    BY <2>1, <2>2
<1>6. Closed(g, S \ {u}) /\ head \in S \ {u}
  BY <1>2, <1>5 DEF Closed
<1> DEFINE T == Live(g, head)
<1>7. T \subseteq S \ {u}
  <2> DEFINE R == S \ {u}
  <2>1. Closed(g, R) /\ head \in R
    BY <1>6
  <2> HIDE DEF R
  <2>2. T \subseteq R
    BY <1>1, <2>1, LiveLeast
  <2>3. QED
    BY <2>2 DEF R
<1>8. Closed(g, T) /\ head \in T
  BY <1>1, LiveClosed
<1> HIDE DEF T
<1>9. ASSUME p \notin T PROVE FALSE
  <2>1. Closed(h, T)
    BY <1>7, <1>8, <1>9 DEF Closed
  <2>2. Live(h, head) \subseteq T
    BY <1>1, <1>8, <2>1, LiveLeast
  <2>3. QED
    BY <1>9, <2>2
<1>10. Closed(h, T \cup {u})
  <2>1. SUFFICES ASSUME NEW n \in T \cup {u}, h[n].next # NULL PROVE h[n].next \in T \cup {u}
    BY DEF Closed
  <2>2. CASE n = u
    BY <1>8, <1>9, <2>1, <2>2 DEF Closed
  <2>3. CASE n \in T /\ n # p
    <3>1. g[n].next = h[n].next
      BY <1>7, <2>3
    <3>2. QED
      BY <1>8, <2>1, <2>3, <3>1 DEF Closed
  <2>4. CASE n = p
    BY <2>4
  <2>5. QED
    BY <2>1, <2>2, <2>3, <2>4
<1>11. S \subseteq T \cup {u}
  BY <1>1, <1>8, <1>10, LiveLeast
<1>12. T = S \ {u}
  BY <1>7, <1>11
<1>13. Line(g, head, S \ {u})
  <2>1. ASSUME NEW n \in S \ {u} PROVE g[n].next # head
    BY <1>2 DEF Line
  <2>2. ASSUME NEW m \in S \ {u}, NEW n \in S \ {u}, g[m].next # NULL, g[m].next = g[n].next
        PROVE  m = n
    <3> DEFINE x == IF m = p THEN u ELSE m
               y == IF n = p THEN u ELSE n
    <3>1. /\ x \in S /\ y \in S
          /\ h[x].next = g[m].next /\ h[y].next = g[n].next
      BY <1>2
    <3>2. x = y
      <4> HIDE DEF x, y
      <4>1. QED
        BY <2>2, <3>1 DEF Line
    <3>3. QED
      BY <3>2
  <2>3. QED
    BY <1>6, <2>1, <2>2 DEF Line
<1>14. QED
  BY <1>2, <1>3, <1>4, <1>12, <1>13 DEF T

-----------------------------------------------------------------------------
(* What the steps of a repair have in common *)

\* The nodes of the heap as numbers, and the pointers of the list.
LEMMA ListNumbers ==
  ASSUME ListTypeOK
  PROVE  /\ HeapOK(heap) /\ Len(heap) \in Nat /\ mem_regions \in 0 .. Len(heap)
         /\ List \subseteq 1 .. Len(heap)
         /\ \A n \in 1 .. Len(heap) :
               /\ heap[n].base_addr \in Nat /\ heap[n].size \in Nat
               /\ heap[n].base_addr < ADDR_MOD /\ heap[n].size < ADDR_MOD
               /\ heap[n].next \in 0 .. Len(heap) /\ heap[n].type \in MemTypes
               /\ End(heap, n) \in Nat
               /\ End(heap, n) < ADDR_MOD => RightOf(heap, n) = End(heap, n)
         /\ \A n \in List : heap[n].next # NULL => heap[n].next \in List
<1>1. HeapOK(heap) /\ Len(heap) \in Nat /\ mem_regions \in 0 .. Len(heap)
  BY DEF ListTypeOK, HeapOK, Pointers
<1>2. List \subseteq 1 .. Len(heap) /\ \A n \in List : heap[n].next # NULL => heap[n].next \in List
  BY <1>1, LiveClosed DEF List, Closed
<1>3. ASSUME NEW n \in 1 .. Len(heap)
      PROVE  heap[n].base_addr < ADDR_MOD /\ heap[n].size < ADDR_MOD
  BY <1>1, NodeType, AddrModAssumption DEF Addresses
<1>4. QED
  BY <1>1, <1>2, <1>3, NodeNumbers

\* The same after a step.
LEMMA ListNumbersNext ==
  ASSUME ListTypeOK'
  PROVE  /\ HeapOK(heap') /\ Len(heap') \in Nat /\ mem_regions' \in 0 .. Len(heap')
         /\ \A n \in 1 .. Len(heap') :
               /\ heap'[n].base_addr \in Nat /\ heap'[n].size \in Nat
               /\ heap'[n].next \in 0 .. Len(heap') /\ heap'[n].type \in MemTypes
               /\ End(heap', n) \in Nat
               /\ End(heap', n) < ADDR_MOD => RightOf(heap', n) = End(heap', n)
<1>1. HeapOK(heap') /\ Len(heap') \in Nat /\ mem_regions' \in 0 .. Len(heap')
  BY DEF ListTypeOK, HeapOK, Pointers
<1>2. QED
  BY <1>1, NodeNumbers

\* Node n has the address, size and type it had.
Same(h, g, n) ==
  /\ g[n].base_addr = h[n].base_addr /\ g[n].size = h[n].size /\ g[n].type = h[n].type

\* An edge of which only pointers have changed.
LEMMA EdgeFrame ==
  ASSUME NEW h, NEW g, NEW n, NEW q, Edge(h, n, q), Same(h, g, n), Same(h, g, q),
         g[q].next # NULL => h[q].next # NULL
  PROVE  Edge(g, n, q)
BY DEF Edge, Same, Free, End

LEMMA SizedFrame ==
  ASSUME NEW h, NEW g, NEW n, Sized(h, n), Same(h, g, n)
  PROVE  Sized(g, n)
BY DEF Sized, Same, Free, End

\* What is not usable stays covered.
LEMMA HeldCarries ==
  ASSUME NEW h, NEW g, NEW S, NEW T,
         \A n \in S : h[n].base_addr \in Nat /\ End(h, n) \in Nat,
         \A n \in T : g[n].base_addr \in Nat /\ End(g, n) \in Nat,
         \A n \in S : ~Free(h, n) =>
            \E m \in T : /\ g[m].type = h[n].type /\ g[m].base_addr <= h[n].base_addr
                         /\ End(h, n) <= End(g, m),
         NEW a \in Nat, NEW t, HeldAt(h, S, a, t)
  PROVE  HeldAt(g, T, a, t)
<1>1. PICK n \in S : ~Free(h, n) /\ h[n].type = t /\ h[n].base_addr <= a /\ a < End(h, n)
  BY DEF HeldAt
<1>2. PICK m \in T : /\ g[m].type = h[n].type /\ g[m].base_addr <= h[n].base_addr
                     /\ End(h, n) <= End(g, m)
  BY <1>1
<1>3. g[m].base_addr <= a /\ a < End(g, m)
  BY <1>1, <1>2
<1>4. ~Free(g, m) /\ g[m].type = t
  BY <1>1, <1>2 DEF Free
<1>5. QED
  BY <1>3, <1>4 DEF HeldAt

LEMMA HeldSame ==
  ASSUME NEW h, NEW g, NEW S, NEW T, \A n \in S : ~Free(h, n) => n \in T /\ Same(h, g, n),
         NEW a \in Nat, NEW t, HeldAt(h, S, a, t)
  PROVE  HeldAt(g, T, a, t)
<1>1. PICK n \in S : ~Free(h, n) /\ h[n].type = t /\ h[n].base_addr <= a /\ a < End(h, n)
  BY DEF HeldAt
<1>2. n \in T /\ ~Free(g, n) /\ g[n].type = t /\ g[n].base_addr <= a /\ a < End(g, n)
  BY <1>1 DEF Same, Free, End
<1>3. QED
  BY <1>2 DEF HeldAt

\* The list of the model after a step that changes no pointer in it, ...
LEMMA ListFrame ==
  ASSUME ListTypeOK, ListTypeOK', mem_regions' = mem_regions, mem_regions \in 1 .. Len(heap),
         Line(heap, mem_regions, List), Len(heap) <= Len(heap'),
         \A n \in List : heap'[n].next = heap[n].next
  PROVE  List' = List /\ Line(heap', mem_regions, List)
<1> DEFINE S == List
<1>1. /\ S = Live(heap, mem_regions) /\ S \subseteq 1 .. Len(heap')
      /\ HeapOK(heap) /\ HeapOK(heap') /\ mem_regions \in 1 .. Len(heap')
  BY ListNumbers, ListNumbersNext DEF List
<1>2. Live(heap', mem_regions) = S /\ Line(heap', mem_regions, S)
  <2>1. Line(heap, mem_regions, S) /\ \A n \in S : heap'[n].next = heap[n].next
    OBVIOUS
  <2> HIDE DEF S
  <2>2. QED
    BY <1>1, <2>1, LineFrame
<1>3. QED
  BY <1>2 DEF List

\* ... that links node s behind node p, ...
LEMMA ListInsert ==
  ASSUME ListTypeOK, ListTypeOK', mem_regions' = mem_regions, mem_regions \in 1 .. Len(heap),
         Line(heap, mem_regions, List), Len(heap) <= Len(heap'),
         NEW p \in List, NEW s \in 1 .. Len(heap'), s \notin List,
         heap'[p].next = s, heap'[s].next = heap[p].next,
         \A n \in List : n # p => heap'[n].next = heap[n].next
  PROVE  List' = List \cup {s} /\ Line(heap', mem_regions, List \cup {s})
<1>1. /\ List \subseteq 1 .. Len(heap')
      /\ HeapOK(heap) /\ HeapOK(heap') /\ mem_regions \in 1 .. Len(heap')
  BY ListNumbers, ListNumbersNext
<1>2. Lists(heap, heap', mem_regions, List)
  BY <1>1 DEF Lists, List
<1>3. Links(heap, heap', List, p, s)
  BY DEF Links
<1>4. Live(heap', mem_regions) = List \cup {s} /\ Line(heap', mem_regions, List \cup {s})
  BY ONLY <1>2, <1>3, LineInsert
<1>5. QED
  BY <1>4 DEF List

\* ... or that unlinks the successor u of node t.
LEMMA ListRemove ==
  ASSUME ListTypeOK, ListTypeOK', mem_regions' = mem_regions, mem_regions \in 1 .. Len(heap),
         Line(heap, mem_regions, List), Len(heap) <= Len(heap'),
         NEW t \in List, NEW u, u = heap[t].next, u # NULL,
         heap'[t].next = heap[u].next,
         \A n \in List : n # t => heap'[n].next = heap[n].next
  PROVE  /\ List' = List \ {u} /\ Line(heap', mem_regions, List \ {u})
         /\ u \in List /\ u # t /\ u # mem_regions /\ heap[u].next # u
<1>1. /\ List \subseteq 1 .. Len(heap')
      /\ HeapOK(heap) /\ HeapOK(heap') /\ mem_regions \in 1 .. Len(heap')
  BY ListNumbers, ListNumbersNext
<1>2. Lists(heap, heap', mem_regions, List)
  BY <1>1 DEF Lists, List
<1>3. Unlinks(heap, heap', List, t, u)
  BY DEF Unlinks
<1>4. /\ Live(heap', mem_regions) = List \ {u} /\ Line(heap', mem_regions, List \ {u})
      /\ u \in List /\ u # t /\ u # mem_regions /\ heap[u].next # u
  BY ONLY <1>2, <1>3, LineRemove
<1>5. QED
  BY <1>4 DEF List

KeepsHeld ==
  \A a \in Nat, t \in MemTypes : HeldAt(heap, List, a, t) => HeldAt(heap', List', a, t)

\* The list, the new node and the node being repaired, in every state of a repair.
LEMMA ElfRepairFacts ==
  ASSUME ListTypeOK, pc = "fix", RepairingElf
  PROVE  /\ mem_regions \in 1 .. Len(heap)
         /\ Line(heap, mem_regions, List) /\ LowHead(heap, mem_regions)
         /\ \A n \in List : Sized(heap, n)
         /\ this_region \in 1 .. Len(heap) /\ new_region \in 1 .. Len(heap)
         /\ next_region # NULL => next_region \in 1 .. Len(heap)
         /\ next_region = heap[this_region].next
         /\ End(heap, new_region) < ADDR_MOD /\ RightOf(heap, new_region) = End(heap, new_region)
         /\ limit_right \in Nat
         /\ heap[new_region].type = SYSINFO_MT_ELF_EXECUTABLE /\ ~Free(heap, new_region)
         /\ heap[new_region].size > 0 /\ heap[new_region].base_addr > 0
<1>1. Shape(heap, mem_regions, List) /\ ElfNode
  BY DEF RepairingElf
<1>2. /\ mem_regions \in 0 .. Len(heap) /\ Len(heap) \in Nat /\ mem_regions # NULL
      /\ List \subseteq 1 .. Len(heap)
  BY <1>1, ListNumbers DEF Shape, LowHead
<1>3. this_region \in 1 .. Len(heap) /\ (next_region # NULL => next_region \in 1 .. Len(heap))
  BY RepairNodes
<1>4. limit_right \in Nat
  BY AddrModAssumption DEF ListTypeOK, Addresses
<1>5. new_region \in 1 .. Len(heap) /\ ~Free(heap, new_region)
  BY <1>1 DEF ElfNode, Free, SYSINFO_MT_ELF_EXECUTABLE, SYSINFO_MT_USABLE
<1>6. End(heap, new_region) < ADDR_MOD /\ RightOf(heap, new_region) = End(heap, new_region)
  BY <1>1, <1>5, ListNumbers DEF ElfNode
<1>7. QED
  BY <1>1, <1>2, <1>3, <1>4, <1>5, <1>6 DEF Shape, ElfNode, NULL, next_region, NextOf

\* Where fix_right finds an overlap there is something usable to be cut.
LEMMA ElfOverlaps ==
  ASSUME ListTypeOK, pc = "fix", RepairingElf, Overlapping
  PROVE  \/ Second /\ ~Free(heap, this_region) /\ Free(heap, prev) /\ ~NextWins
         \/ First /\ Free(heap, this_region) /\ NextWins
         \/ Caught /\ NextWins /\ limit_right <= RightOf(heap, next_region)
<1>1. /\ next_region = heap[this_region].next /\ limit_right > heap[next_region].base_addr
      /\ next_region # NULL /\ next_region \in 1 .. Len(heap)
      /\ this_region \in 1 .. Len(heap) /\ new_region \in 1 .. Len(heap)
  BY ElfRepairFacts DEF Overlapping
<1>2. /\ heap[this_region].type \in 0 .. 5 /\ heap[next_region].type \in 0 .. 5
      /\ heap[next_region].base_addr \in Nat /\ limit_right \in Nat
  BY <1>1, ListNumbers, ElfRepairFacts
  DEF MemTypes, SYSINFO_MT_USABLE, SYSINFO_MT_RESERVED
<1>3. CASE Second
  <2>1. next_region = prev /\ limit_right = End(heap, this_region)
    BY <1>1, <1>3 DEF Second
  <2>2. ~Free(heap, this_region)
    BY <1>1, <1>2, <1>3, <2>1 DEF Second
  <2>3. Free(heap, prev)
    BY <1>1, <1>2, <1>3, <2>1, <2>2 DEF Second
  <2>4. ~NextWins
    BY <1>2, <2>1, <2>3 DEF NextWins, is_left_more_restrictive, Free, SYSINFO_MT_USABLE
  <2>5. QED
    BY <1>3, <2>2, <2>3, <2>4
<1>4. CASE SecondDropped
  BY <1>1, <1>2, <1>4 DEF SecondDropped
<1>5. CASE First
  <2>1. next_region = new_region /\ limit_right = End(heap, this_region)
    BY <1>1, <1>5 DEF First
  <2>2. Free(heap, this_region)
    BY <1>1, <1>2, <1>5, <2>1 DEF First, Before
  <2>3. NextWins
    BY <2>1, <2>2, ElfRepairFacts
    DEF NextWins, is_left_more_restrictive, Free, SYSINFO_MT_USABLE, SYSINFO_MT_ELF_EXECUTABLE
  <2>4. QED
    BY <1>5, <2>2, <2>3
<1>6. CASE FirstDropped
  BY <1>1, <1>2, <1>6 DEF FirstDropped
<1>7. CASE AfterSplit
  <2>1. End(heap, this_region) = heap[next_region].base_addr
    BY <1>1, <1>7 DEF AfterSplit, EdgesBut, Edge
  <2>2. QED
    BY <1>1, <1>2, <1>7, <2>1 DEF AfterSplit
<1>8. CASE Caught
  <2>1. next_region = new_region
    BY <1>1, <1>8 DEF Caught
  <2>2. NextWins
    BY <1>8, <2>1, ElfRepairFacts
    DEF Caught, NextWins, is_left_more_restrictive, Free, SYSINFO_MT_USABLE,
        SYSINFO_MT_ELF_EXECUTABLE
  <2>3. limit_right <= RightOf(heap, next_region)
    BY <1>8, <2>1, ElfRepairFacts DEF Caught
  <2>4. QED
    BY <1>8, <2>2, <2>3
<1>9. QED
  BY <1>3, <1>4, <1>5, <1>6, <1>7, <1>8 DEF RepairingElf

\* When the loop of fix_right is over the node being repaired ends before the next one.
LEMMA ElfLoopOver ==
  ASSUME ListTypeOK, RepairingElf, LoopOver
  PROVE  /\ pc = "fix" /\ ~Caught
         /\ limit_right = End(heap, this_region) /\ End(heap, this_region) < ADDR_MOD
         /\ RightOf(heap, this_region) = End(heap, this_region)
         /\ next_region # NULL => End(heap, this_region) <= heap[next_region].base_addr
<1>1. pc = "fix" /\ ~Overlapping
  BY DEF LoopOver
<1>2. /\ this_region \in 1 .. Len(heap) /\ limit_right \in Nat /\ new_region \in 1 .. Len(heap)
      /\ next_region = heap[this_region].next /\ new_region # NULL
  BY <1>1, ElfRepairFacts DEF NULL
<1>3. ~Caught
  BY <1>1, <1>2 DEF Caught, Overlapping
<1>4. limit_right = End(heap, this_region)
  BY <1>3 DEF RepairingElf, Second, SecondDropped, First, FirstDropped, AfterSplit
<1>5. End(heap, this_region) < ADDR_MOD
  BY <1>4, AddrModAssumption DEF ListTypeOK, Addresses
<1>6. next_region # NULL => next_region \in 1 .. Len(heap)
  BY <1>1, ElfRepairFacts
<1>7. next_region # NULL => heap[next_region].base_addr \in Nat
  BY <1>6, ListNumbers
<1>8. next_region # NULL => limit_right <= heap[next_region].base_addr
  BY <1>1, <1>2, <1>7 DEF Overlapping
<1>9. QED
  BY <1>1, <1>2, <1>3, <1>4, <1>5, <1>8, ListNumbers

-----------------------------------------------------------------------------
(* The loop of fix_right *)

\* The node of the segment keeps what it says.
LEMMA ElfNodeFrame ==
  ASSUME ListTypeOK, ElfNode, new_region' = new_region, Len(heap') \in Nat,
         Len(heap) <= Len(heap'), Same(heap, heap', new_region)
  PROVE  ElfNode'
<1>1. new_region \in 1 .. Len(heap')
  BY ListNumbers DEF ElfNode
<1>2. QED
  BY <1>1 DEF ElfNode, Same, End

\* prev, if usable, is dropped when the nodes around it cover it.
LEMMA ElfDrop ==
  ASSUME ListTypeOK, ListTypeOK', pc = "fix", RepairingElf, DropNext
  PROVE  RepairingElf' /\ KeepsHeld
<1> DEFINE t == this_region
           p == prev
           s == new_region
<1>1. /\ Overlapping /\ ~NextWins /\ RightOf(heap, next_region) <= limit_right
      /\ mem_regions' = mem_regions /\ new_region' = new_region /\ prev' = prev
      /\ this_region' = this_region /\ limit_right' = limit_right /\ pending' = pending
  BY DEF DropNext, FixUnchanged
<1>2. Second /\ ~Free(heap, t) /\ Free(heap, p)
  BY <1>1, ElfOverlaps
<1>3. /\ t \in List /\ p \in List /\ s \in List /\ pending = p
      /\ heap[t].next = p /\ heap[p].next = s /\ next_region = p
      /\ limit_right = End(heap, t) /\ End(heap, t) <= heap[s].base_addr
      /\ EdgesBut(heap, List, {t, p})
  BY <1>2, ElfRepairFacts DEF Second
<1>4. /\ mem_regions \in 1 .. Len(heap) /\ List \subseteq 1 .. Len(heap)
      /\ Line(heap, mem_regions, List) /\ LowHead(heap, mem_regions)
      /\ \A n \in List : Sized(heap, n)
      /\ s \in 1 .. Len(heap) /\ ~Free(heap, s)
      /\ HeapOK(heap) /\ HeapOK(heap') /\ Len(heap) \in Nat
  BY ElfRepairFacts, ListNumbers, ListNumbersNext
<1>5. /\ t \in 1 .. Len(heap) /\ p \in 1 .. Len(heap) /\ p # NULL /\ s # NULL
  BY <1>3, <1>4 DEF NULL
<1>6. /\ Len(heap') = Len(heap)
      /\ \A m \in 1 .. Len(heap) :
            /\ Same(heap, heap', m)
            /\ heap'[m].next = IF m = t THEN s ELSE heap[m].next
  BY <1>3, <1>5, DropWrites DEF Same
<1>7. /\ List' = List \ {p} /\ Line(heap', mem_regions, List \ {p})
      /\ p # t
  <2>1. heap'[t].next = heap[p].next
    BY <1>3, <1>5, <1>6
  <2>2. \A n \in List : n # t => heap'[n].next = heap[n].next
    BY <1>4, <1>6
  <2>3. Len(heap) <= Len(heap') /\ p = heap[t].next
    BY <1>3, <1>4, <1>6
  <2>4. QED
    BY <1>1, <1>3, <1>4, <1>5, <2>1, <2>2, <2>3, ListRemove
<1>8. Shape(heap', mem_regions, List \ {p})
  <2>1. \A n \in List \ {p} : Sized(heap', n)
    BY <1>4, <1>6, SizedFrame
  <2>2. LowHead(heap', mem_regions)
    BY <1>4, <1>6 DEF LowHead, Same
  <2>3. QED
    BY <1>7, <2>1, <2>2 DEF Shape
<1>9. EdgesBut(heap', List \ {p}, {})
  <2>1. SUFFICES ASSUME NEW n \in List \ {p}, heap'[n].next # NULL
                 PROVE  Edge(heap', n, heap'[n].next)
    BY DEF EdgesBut
  <2>2. CASE n = t
    BY <1>2, <1>3, <1>4, <1>5, <1>6, <2>2 DEF Edge, Free, End, Same
  <2>3. CASE n # t
    <3>1. heap'[n].next = heap[n].next /\ n \in 1 .. Len(heap)
      BY <1>4, <1>6, <2>3
    <3>2. Edge(heap, n, heap[n].next) /\ heap[n].next \in List
      BY <1>3, <1>4, <2>1, <2>3, <3>1 DEF EdgesBut, Line, Closed
    <3>3. heap[n].next \in 1 .. Len(heap)
      BY <1>4, <3>2
    <3>4. heap'[heap[n].next].next # NULL => heap[heap[n].next].next # NULL
      BY <1>3, <1>5, <1>6, <3>3
    <3>5. QED
      BY <1>6, <3>1, <3>2, <3>3, <3>4, EdgeFrame
  <2>4. QED
    BY <2>2, <2>3
<1>10. End(heap, p) <= heap[s].base_addr
  <2>1. RightOf(heap, p) = End(heap, p)
    BY <1>3, <1>4, <1>5, ListNumbers DEF Sized
  <2>2. End(heap, p) \in Nat /\ End(heap, t) \in Nat /\ heap[s].base_addr \in Nat
    BY <1>4, <1>5, ListNumbers
  <2>3. QED
    BY <1>1, <1>3, <2>1, <2>2
<1>11. SecondDropped'
  <2>1. /\ t \in List \ {p} /\ s \in List \ {p} /\ p \in (1 .. Len(heap')) \ (List \ {p})
    <3>1. s # p
      BY <1>2, <1>4
    <3>2. QED
      BY <1>3, <1>5, <1>6, <1>7, <3>1
  <2>2. heap'[t].next = s /\ heap'[p].next = s
    BY <1>3, <1>5, <1>6, <1>7
  <2>3. /\ ~Free(heap', t) /\ End(heap', t) = End(heap, t) /\ End(heap', p) = End(heap, p)
        /\ heap'[s].base_addr = heap[s].base_addr
    BY <1>2, <1>4, <1>5, <1>6 DEF Free, End, Same
  <2>4. QED
    BY <1>1, <1>3, <1>7, <1>9, <1>10, <2>1, <2>2, <2>3 DEF SecondDropped
<1>12. ElfNode'
  BY <1>1, <1>4, <1>6, ElfNodeFrame DEF RepairingElf
<1>13. RepairingElf'
  BY <1>1, <1>7, <1>8, <1>11, <1>12 DEF RepairingElf
<1>14. KeepsHeld
  <2>1. \A n \in List : ~Free(heap, n) => n \in List' /\ Same(heap, heap', n)
    BY <1>2, <1>4, <1>6, <1>7
  <2>2. QED
    BY <2>1, HeldSame DEF KeepsHeld
<1>15. QED
  BY <1>13, <1>14

\* prev, if usable, begins where the node before it ends.
LEMMA ElfTrim ==
  ASSUME ListTypeOK, ListTypeOK', pc = "fix", RepairingElf, TrimNext
  PROVE  RepairingElf' /\ KeepsHeld
<1> DEFINE t == this_region
           p == prev
           s == new_region
<1>1. /\ Overlapping /\ ~NextWins /\ RightOf(heap, next_region) > limit_right
      /\ limit_right > heap[next_region].base_addr
      /\ mem_regions' = mem_regions /\ new_region' = new_region /\ prev' = prev
      /\ this_region' = this_region /\ limit_right' = limit_right /\ pending' = pending
  BY DEF TrimNext, FixUnchanged, Overlapping
<1>2. Second /\ ~Free(heap, t) /\ Free(heap, p)
  BY <1>1, ElfOverlaps
<1>3. /\ t \in List /\ p \in List /\ s \in List /\ pending = p
      /\ heap[t].next = p /\ heap[p].next = s /\ next_region = p
      /\ limit_right = End(heap, t) /\ End(heap, t) <= heap[s].base_addr
      /\ EdgesBut(heap, List, {t, p}) /\ Before(p, s)
  BY <1>2, ElfRepairFacts DEF Second
<1>4. /\ mem_regions \in 1 .. Len(heap) /\ List \subseteq 1 .. Len(heap)
      /\ Line(heap, mem_regions, List) /\ LowHead(heap, mem_regions)
      /\ \A n \in List : Sized(heap, n)
      /\ s \in 1 .. Len(heap) /\ ~Free(heap, s) /\ limit_right \in Nat
      /\ HeapOK(heap) /\ HeapOK(heap') /\ Len(heap) \in Nat
  BY ElfRepairFacts, ListNumbers, ListNumbersNext
<1>5. /\ t \in 1 .. Len(heap) /\ p \in 1 .. Len(heap) /\ p # NULL /\ s # NULL
      /\ p # t /\ p # s /\ p # mem_regions
  BY <1>2, <1>3, <1>4 DEF NULL, Line
<1>5a. t # s
  <2>1. heap[s].size > 0 /\ heap[s].base_addr \in Nat /\ heap[s].size \in Nat
    BY <1>4, ElfRepairFacts, ListNumbers
  <2>2. QED
    BY <1>3, <2>1 DEF End
<1>6. RightOf(heap, p) = End(heap, p) /\ limit_right < End(heap, p)
      /\ heap[p].base_addr \in Nat /\ heap[p].size \in Nat /\ heap[p].base_addr < limit_right
      /\ heap[p].size < ADDR_MOD
  BY <1>1, <1>3, <1>4, <1>5, ListNumbers DEF Sized
<1>7. (heap[p].size - (limit_right - heap[p].base_addr)) % ADDR_MOD
        = heap[p].size - (limit_right - heap[p].base_addr)
  <2>1. heap[p].size - (limit_right - heap[p].base_addr) \in 0 .. ADDR_MOD - 1
    <3>1. limit_right < heap[p].base_addr + heap[p].size
      BY <1>6 DEF End
    <3>2. limit_right \in Nat /\ ADDR_MOD \in Nat
      BY <1>4, AddrModAssumption
    <3>3. QED
      BY <1>6, <3>1, <3>2
  <2>2. \A x \in 0 .. ADDR_MOD - 1 : x % ADDR_MOD = x
    BY AddrModAssumption
  <2>3. QED
    BY <2>1, <2>2
<1>8. /\ Len(heap') = Len(heap)
      /\ \A m \in 1 .. Len(heap) :
            /\ heap'[m].next = heap[m].next
            /\ m # p => Same(heap, heap', m)
      /\ heap'[p].type = heap[p].type /\ heap'[p].base_addr = limit_right
      /\ heap'[p].size = heap[p].size - (limit_right - heap[p].base_addr)
  BY <1>3, <1>5, <1>7, TrimWrites DEF Same
<1>9. End(heap', p) = End(heap, p) /\ Free(heap', p)
  BY <1>2, <1>4, <1>6, <1>8 DEF End, Free
<1>10. List' = List /\ Line(heap', mem_regions, List)
  BY <1>1, <1>4, <1>8, ListFrame
<1>11. Shape(heap', mem_regions, List)
  <2>1. ASSUME NEW n \in List PROVE Sized(heap', n)
    <3>1. CASE n = p
      BY <1>4, <1>9, <3>1 DEF Sized
    <3>2. CASE n # p
      BY <1>4, <1>8, <3>2, SizedFrame
    <3>3. QED
      BY <3>1, <3>2
  <2>2. LowHead(heap', mem_regions)
    BY <1>4, <1>5, <1>8 DEF LowHead, Same
  <2>3. QED
    BY <1>10, <2>1, <2>2 DEF Shape
<1>12. EdgesBut(heap', List, {t, p})
  <2>1. SUFFICES ASSUME NEW n \in List \ {t, p}, heap'[n].next # NULL
                 PROVE  Edge(heap', n, heap'[n].next)
    BY DEF EdgesBut
  <2>2. heap'[n].next = heap[n].next /\ n \in 1 .. Len(heap)
    BY <1>4, <1>8
  <2>3. Edge(heap, n, heap[n].next) /\ heap[n].next \in List
    BY <1>3, <1>4, <2>1, <2>2 DEF EdgesBut, Line, Closed
  <2>4. heap[n].next # p /\ heap[n].next \in 1 .. Len(heap)
    BY <1>3, <1>4, <1>5, <2>1, <2>3 DEF Line
  <2>5. QED
    BY <1>8, <2>1, <2>2, <2>3, <2>4, EdgeFrame
<1>13. Before(p, s)'
  <2>1. heap'[s].base_addr = heap[s].base_addr /\ heap'[s].next = heap[s].next
    BY <1>4, <1>5, <1>8 DEF Same
  <2>2. heap[s].next # p
    BY <1>3, <1>4, <1>5, <1>5a DEF Line
  <2>3. heap[s].next # NULL => heap[s].next \in 1 .. Len(heap)
    BY <1>3, <1>4 DEF Line, Closed
  <2>4. heap[s].next # NULL => Same(heap, heap', heap[s].next)
    BY <1>8, <2>2, <2>3
  <2>5. heap'[p].base_addr <= heap'[s].base_addr
    BY <1>3, <1>8, <2>1
  <2>6. (heap'[s].next # NULL /\ End(heap', p) > heap'[s].base_addr) =>
           ~Free(heap', heap'[s].next) /\ End(heap', p) = heap'[heap'[s].next].base_addr
    BY <1>2, <1>3, <1>9, <2>1, <2>4 DEF Before, Same, Free
  <2>7. Before(p, s)' <=>
          /\ heap'[p].base_addr <= heap'[s].base_addr
          /\ ~Free(heap', p) => End(heap', p) <= heap'[s].base_addr
          /\ (Free(heap', p) /\ heap'[s].next # NULL /\ End(heap', p) > heap'[s].base_addr) =>
                ~Free(heap', heap'[s].next) /\ End(heap', p) = heap'[heap'[s].next].base_addr
    BY <1>1 DEF Before
  <2>8. QED
    BY <1>9, <2>5, <2>6, <2>7
<1>14. Second'
  <2>1. /\ ~Free(heap', t) /\ End(heap', t) = End(heap, t)
        /\ heap'[s].base_addr = heap[s].base_addr
        /\ heap'[t].next = p /\ heap'[p].next = s
    BY <1>2, <1>3, <1>4, <1>5, <1>8 DEF Free, End, Same
  <2>2. QED
    BY <1>1, <1>3, <1>9, <1>10, <1>12, <1>13, <2>1 DEF Second
<1>15. ElfNode'
  BY <1>1, <1>4, <1>5, <1>8, ElfNodeFrame DEF RepairingElf
<1>16. RepairingElf'
  BY <1>1, <1>10, <1>11, <1>14, <1>15 DEF RepairingElf
<1>17. KeepsHeld
  <2>1. \A n \in List : ~Free(heap, n) => n \in List' /\ Same(heap, heap', n)
    BY <1>2, <1>4, <1>8, <1>10
  <2>2. QED
    BY <2>1, HeldSame DEF KeepsHeld
<1>18. QED
  BY <1>16, <1>17

\* Cutting a second time changes nothing.
LEMMA ElfCutAgain ==
  ASSUME ListTypeOK, pc = "fix", RepairingElf, CutThis, Caught
  PROVE  RepairingElf' /\ KeepsHeld
<1> DEFINE t == this_region
           v == (heap[next_region].base_addr - heap[this_region].base_addr) % ADDR_MOD
<1>1. /\ mem_regions' = mem_regions /\ new_region' = new_region
      /\ this_region' = this_region /\ limit_right' = limit_right /\ pending' = pending
      /\ heap' = CutHeap /\ next_region = heap[t].next
  BY DEF CutThis, FixUnchanged, next_region, NextOf
<1>2. /\ t \in 1 .. Len(heap) /\ next_region = new_region /\ new_region \in 1 .. Len(heap)
      /\ heap[t].base_addr \in Nat /\ heap[new_region].base_addr \in Nat /\ heap[t].size \in Nat
      /\ heap[t].size < ADDR_MOD /\ End(heap, t) = heap[new_region].base_addr
  BY <1>1, ElfRepairFacts, ListNumbers DEF Caught
<1>3. v = heap[t].size
  <2>1. heap[next_region].base_addr - heap[t].base_addr = heap[t].size
    BY <1>2 DEF End
  <2>2. \A x \in 0 .. ADDR_MOD - 1 : x % ADDR_MOD = x
    BY AddrModAssumption
  <2>3. heap[t].size \in 0 .. ADDR_MOD - 1
    BY <1>2, AddrModAssumption
  <2>4. QED
    BY <2>1, <2>2, <2>3
<1>4. heap' = heap
  <2>1. heap' = [heap EXCEPT ![t].size = v]
    BY <1>1 DEF CutHeap
  <2>2. heap \in Seq(Regions) /\ heap[t] \in Regions
    BY <1>2, ListNodes, NodeType
  <2> HIDE DEF v
  <2>3. [heap[t] EXCEPT !.size = v] = heap[t]
    BY <1>3, <2>2 DEF Regions
  <2>4. [heap EXCEPT ![t].size = v] = [heap EXCEPT ![t] = [heap[t] EXCEPT !.size = v]]
    OBVIOUS
  <2>5. [heap EXCEPT ![t] = heap[t]] = heap
    BY <2>2
  <2>6. QED
    BY <2>1, <2>3, <2>4, <2>5
<1>5. List' = List
  BY <1>1, <1>4 DEF List
<1>6. Caught'
  BY <1>1, <1>4, <1>5 DEF Caught
<1>7. RepairingElf'
  BY <1>1, <1>4, <1>5, <1>6 DEF RepairingElf, ElfNode
<1>8. KeepsHeld
  BY <1>4, <1>5 DEF KeepsHeld
<1>9. QED
  BY <1>7, <1>8

\* A usable node ends where the segment begins.
LEMMA ElfCut ==
  ASSUME ListTypeOK, ListTypeOK', pc = "fix", RepairingElf, CutThis
  PROVE  RepairingElf' /\ KeepsHeld
<1> DEFINE t == this_region
           s == new_region
<1>1. /\ Overlapping /\ NextWins /\ limit_right <= RightOf(heap, next_region)
      /\ limit_right > heap[next_region].base_addr
      /\ mem_regions' = mem_regions /\ new_region' = new_region
      /\ this_region' = this_region /\ limit_right' = limit_right /\ pending' = pending
      /\ heap' = CutHeap /\ next_region = heap[t].next
  BY DEF CutThis, FixUnchanged, Overlapping, next_region, NextOf
<1>2. SUFFICES ASSUME First, Free(heap, t) PROVE RepairingElf' /\ KeepsHeld
  BY <1>1, ElfOverlaps, ElfCutAgain
<1>3. /\ t \in List /\ s \in List /\ next_region = s /\ pending = NULL
      /\ heap[t].next = s /\ EdgesBut(heap, List, {t}) /\ Before(t, s)
      /\ heap[t].base_addr <= heap[s].base_addr /\ limit_right = End(heap, t)
  BY <1>1, <1>2 DEF First, Before
<1>4. /\ mem_regions \in 1 .. Len(heap) /\ List \subseteq 1 .. Len(heap)
      /\ Line(heap, mem_regions, List) /\ LowHead(heap, mem_regions)
      /\ \A n \in List : Sized(heap, n)
      /\ s \in 1 .. Len(heap) /\ ~Free(heap, s) /\ limit_right \in Nat
      /\ HeapOK(heap) /\ HeapOK(heap') /\ Len(heap) \in Nat
      /\ RightOf(heap, s) = End(heap, s)
  BY ElfRepairFacts, ListNumbers, ListNumbersNext
<1>5. /\ t \in 1 .. Len(heap) /\ s # NULL /\ t # s /\ t # mem_regions
  BY <1>2, <1>3, <1>4
  DEF NULL, LowHead, Free, SYSINFO_MT_RESERVED, SYSINFO_MT_USABLE
<1>6. /\ heap[t].base_addr \in Nat /\ heap[s].base_addr \in Nat /\ heap[t].size \in Nat
      /\ heap[s].base_addr < ADDR_MOD /\ heap[t].size < ADDR_MOD
  BY <1>4, <1>5, ListNumbers
<1>7. (heap[s].base_addr - heap[t].base_addr) % ADDR_MOD = heap[s].base_addr - heap[t].base_addr
  <2>1. heap[s].base_addr - heap[t].base_addr \in 0 .. ADDR_MOD - 1
    BY <1>3, <1>6, AddrModAssumption
  <2>2. \A x \in 0 .. ADDR_MOD - 1 : x % ADDR_MOD = x
    BY AddrModAssumption
  <2>3. QED
    BY <2>1, <2>2
<1>8. /\ Len(heap') = Len(heap)
      /\ \A m \in 1 .. Len(heap) :
            /\ heap'[m].next = heap[m].next
            /\ m # t => Same(heap, heap', m)
      /\ heap'[t].type = heap[t].type /\ heap'[t].base_addr = heap[t].base_addr
      /\ heap'[t].size = heap[s].base_addr - heap[t].base_addr
  BY <1>1, <1>3, <1>4, <1>5, <1>7, CutWrites DEF Same
<1>9. End(heap', t) = heap[s].base_addr /\ Free(heap', t)
  BY <1>2, <1>6, <1>8 DEF End, Free
<1>10. List' = List /\ Line(heap', mem_regions, List)
  BY <1>1, <1>4, <1>8, ListFrame
<1>11. Shape(heap', mem_regions, List)
  <2>1. ASSUME NEW n \in List PROVE Sized(heap', n)
    <3>1. CASE n = t
      BY <1>6, <1>9, <3>1 DEF Sized
    <3>2. CASE n # t
      BY <1>4, <1>8, <3>2, SizedFrame
    <3>3. QED
      BY <3>1, <3>2
  <2>2. LowHead(heap', mem_regions)
    BY <1>4, <1>5, <1>8 DEF LowHead, Same
  <2>3. QED
    BY <1>10, <2>1, <2>2 DEF Shape
<1>12. EdgesBut(heap', List, {})
  <2>1. SUFFICES ASSUME NEW n \in List, heap'[n].next # NULL
                 PROVE  Edge(heap', n, heap'[n].next)
    BY DEF EdgesBut
  <2>2. heap'[n].next = heap[n].next /\ n \in 1 .. Len(heap) /\ heap[n].next \in List
    BY <1>4, <1>8, <2>1 DEF Line, Closed
  <2>3. CASE n = t
    <3>1. ~Free(heap', s) /\ heap'[s].base_addr = heap[s].base_addr
      BY <1>4, <1>5, <1>8 DEF Same, Free
    <3>2. QED
      BY <1>3, <1>9, <2>2, <2>3, <3>1 DEF Edge
  <2>4. CASE n # t
    <3>1. Edge(heap, n, heap[n].next)
      BY <1>3, <2>1, <2>2, <2>4 DEF EdgesBut
    <3>2. CASE heap[n].next = t
      <4>1. End(heap, n) <= heap[t].base_addr /\ ~Free(heap, n)
        BY <1>2, <2>1, <3>1, <3>2 DEF First, Edge
      <4>2. ~Free(heap', n) /\ End(heap', n) = End(heap, n)
        BY <1>8, <2>2, <2>4, <4>1 DEF Same, Free, End
      <4>3. QED
        BY <1>8, <2>2, <3>2, <4>1, <4>2 DEF Edge
    <3>3. CASE heap[n].next # t
      <4>1. heap[n].next \in 1 .. Len(heap)
        BY <1>4, <2>2
      <4>2. QED
        BY <1>8, <2>2, <2>4, <3>1, <3>3, <4>1, EdgeFrame
    <3>4. QED
      BY <3>2, <3>3
  <2>5. QED
    BY <2>3, <2>4
<1>13. Caught'
  <2>1. heap'[t].next = s /\ heap'[s].base_addr = heap[s].base_addr /\ End(heap', s) = End(heap, s)
    BY <1>3, <1>4, <1>5, <1>8 DEF Same, End
  <2>2. limit_right <= End(heap, s) /\ heap[s].base_addr < limit_right
    BY <1>1, <1>3, <1>4, <1>6
  <2>3. QED
    BY <1>1, <1>3, <1>8, <1>9, <1>10, <1>12, <2>1, <2>2 DEF Caught
<1>14. ElfNode'
  BY <1>1, <1>4, <1>5, <1>8, ElfNodeFrame DEF RepairingElf
<1>15. RepairingElf'
  BY <1>1, <1>10, <1>11, <1>13, <1>14 DEF RepairingElf
<1>16. KeepsHeld
  <2>1. \A n \in List : ~Free(heap, n) => n \in List' /\ Same(heap, heap', n)
    BY <1>2, <1>4, <1>8, <1>10
  <2>2. QED
    BY <2>1, HeldSame DEF KeepsHeld
<1>17. QED
  BY <1>15, <1>16

\* A usable node is split around the segment.
LEMMA ElfSplit ==
  ASSUME ListTypeOK, ListTypeOK', pc = "fix", RepairingElf, SplitThis
  PROVE  RepairingElf' /\ KeepsHeld
<1> DEFINE t == this_region
           s == new_region
           q == Len(heap) + 1
           N == List \cup {q}
<1>1. /\ Overlapping /\ NextWins /\ limit_right > RightOf(heap, next_region)
      /\ limit_right > heap[next_region].base_addr
      /\ mem_regions' = mem_regions /\ new_region' = new_region
      /\ this_region' = q /\ limit_right' = limit_right /\ pending' = pending
      /\ next_region = heap[t].next
  BY DEF SplitThis, FixUnchanged, Overlapping, next_region, NextOf
<1>2. First /\ Free(heap, t)
  <2>1. limit_right \in Nat /\ (next_region # NULL => next_region \in 1 .. Len(heap))
    BY ElfRepairFacts
  <2>2. next_region # NULL
    BY <1>1 DEF Overlapping
  <2>3. RightOf(heap, next_region) \in Nat
    BY <2>1, <2>2, ListNodes, AddrModAssumption DEF Addresses
  <2>4. ~ (limit_right <= RightOf(heap, next_region))
    BY <1>1, <2>1, <2>3
  <2>5. QED
    BY <1>1, <2>4, ElfOverlaps
<1>3. /\ t \in List /\ s \in List /\ next_region = s /\ pending = NULL
      /\ heap[t].next = s /\ EdgesBut(heap, List, {t}) /\ Before(t, s)
      /\ heap[t].base_addr <= heap[s].base_addr /\ limit_right = End(heap, t)
  BY <1>1, <1>2 DEF First, Before
<1>4. /\ mem_regions \in 1 .. Len(heap) /\ List \subseteq 1 .. Len(heap)
      /\ Line(heap, mem_regions, List) /\ LowHead(heap, mem_regions)
      /\ \A n \in List : Sized(heap, n)
      /\ s \in 1 .. Len(heap) /\ ~Free(heap, s) /\ limit_right \in Nat
      /\ HeapOK(heap) /\ HeapOK(heap') /\ Len(heap) \in Nat
      /\ RightOf(heap, s) = End(heap, s)
  BY ElfRepairFacts, ListNumbers, ListNumbersNext
<1>5. /\ t \in 1 .. Len(heap) /\ s # NULL /\ t # s /\ t # mem_regions
      /\ q \notin List /\ q # t /\ q # s /\ q \notin 1 .. Len(heap) /\ q # NULL
  BY <1>2, <1>3, <1>4
  DEF NULL, LowHead, Free, SYSINFO_MT_RESERVED, SYSINFO_MT_USABLE
<1>6. /\ heap[t].base_addr \in Nat /\ heap[s].base_addr \in Nat /\ heap[t].size \in Nat
      /\ heap[s].base_addr < ADDR_MOD /\ heap[t].size < ADDR_MOD
      /\ End(heap, s) \in Nat /\ End(heap, t) \in Nat /\ End(heap, t) < ADDR_MOD
  BY <1>3, <1>4, <1>5, ListNumbers DEF Sized
<1>7. (heap[s].base_addr - heap[t].base_addr) % ADDR_MOD = heap[s].base_addr - heap[t].base_addr
  <2>1. heap[s].base_addr - heap[t].base_addr \in 0 .. ADDR_MOD - 1
    BY <1>3, <1>6, AddrModAssumption
  <2>2. \A x \in 0 .. ADDR_MOD - 1 : x % ADDR_MOD = x
    BY AddrModAssumption
  <2>3. QED
    BY <2>1, <2>2
<1>8. \A m \in 1 .. Len(heap) : CutHeap[m].size = IF m = t THEN heap[s].base_addr - heap[t].base_addr
                                                  ELSE heap[m].size
  BY <1>3, <1>4, <1>5, <1>7, CutWrites
<1>9. /\ Len(heap') = Len(heap) + 1
      /\ \A m \in 1 .. Len(heap) :
            /\ m # s => heap'[m].next = heap[m].next
            /\ m # t => Same(heap, heap', m)
      /\ heap'[s].next = q
      /\ heap'[t].type = heap[t].type /\ heap'[t].base_addr = heap[t].base_addr
      /\ heap'[t].size = heap[s].base_addr - heap[t].base_addr
      /\ heap'[q].next = heap[s].next /\ heap'[q].type = heap[t].type
      /\ heap'[q].base_addr = End(heap, s) /\ heap'[q].size = limit_right - End(heap, s)
  <2> HIDE DEF q
  <2>1. q = Len(heap) + 1
    BY DEF q
  <2>2. QED
    BY <1>3, <1>4, <1>5, <1>8, <2>1, SplitWrites DEF Same
<1>10. /\ End(heap', t) = heap[s].base_addr /\ Free(heap', t)
       /\ End(heap', q) = limit_right /\ Free(heap', q)
  BY <1>2, <1>3, <1>6, <1>9 DEF End, Free
<1>11. List' = N /\ Line(heap', mem_regions, N)
  <2>1. q \in 1 .. Len(heap') /\ Len(heap) <= Len(heap')
    BY <1>4, <1>9
  <2>2. \A n \in List : n # s => heap'[n].next = heap[n].next
    BY <1>4, <1>9
  <2> HIDE DEF q
  <2>3. QED
    BY <1>1, <1>3, <1>4, <1>5, <1>9, <2>1, <2>2, ListInsert
<1>12. Shape(heap', mem_regions, N)
  <2>1. ASSUME NEW n \in N PROVE Sized(heap', n)
    <3>1. CASE n = t
      BY <1>6, <1>10, <3>1 DEF Sized
    <3>2. CASE n = q
      BY <1>3, <1>6, <1>10, <3>2 DEF Sized
    <3>3. CASE n \in List /\ n # t
      BY <1>4, <1>9, <3>3, SizedFrame
    <3>4. QED
      BY <2>1, <3>1, <3>2, <3>3
  <2>2. LowHead(heap', mem_regions)
    BY <1>4, <1>5, <1>9 DEF LowHead, Same
  <2>3. QED
    BY <1>11, <2>1, <2>2 DEF Shape
<1>13. EdgesBut(heap', N, {})
  <2>1. SUFFICES ASSUME NEW n \in N, heap'[n].next # NULL
                 PROVE  Edge(heap', n, heap'[n].next)
    BY DEF EdgesBut
  <2>2. /\ ~Free(heap', s) /\ heap'[s].base_addr = heap[s].base_addr
        /\ End(heap', s) = End(heap, s)
    BY <1>4, <1>5, <1>9 DEF Same, Free, End
  <2>3. CASE n = t
    BY <1>3, <1>5, <1>9, <1>10, <2>2, <2>3 DEF Edge
  <2>4. CASE n = s
    BY <1>6, <1>9, <2>2, <2>4 DEF Edge
  <2>5. CASE n = q
    <3> DEFINE u == heap[s].next
    <3>1. u # NULL /\ u \in 1 .. Len(heap) /\ u = heap'[q].next
      BY <1>3, <1>4, <1>9, <2>1, <2>5 DEF Line, Closed
    <3>2. ~Free(heap, u) /\ End(heap, t) = heap[u].base_addr
      BY <1>1, <1>2, <1>3, <3>1 DEF Before
    <3>3. Same(heap, heap', u)
      BY <1>2, <1>9, <3>1, <3>2
    <3>4. ~Free(heap', u) /\ heap'[u].base_addr = heap[u].base_addr
      BY <3>2, <3>3 DEF Same, Free
    <3> HIDE DEF u, q
    <3>5. QED
      BY <1>3, <1>10, <2>5, <3>1, <3>2, <3>4 DEF Edge
  <2>6. CASE n \in List /\ n # t /\ n # s
    <3>1. heap'[n].next = heap[n].next /\ n \in 1 .. Len(heap) /\ heap[n].next \in List
      BY <1>4, <1>9, <2>1, <2>6 DEF Line, Closed
    <3>2. Edge(heap, n, heap[n].next) /\ heap[n].next # s
      BY <1>3, <1>4, <1>5, <2>1, <2>6, <3>1 DEF EdgesBut, Line
    <3>3. CASE heap[n].next = t
      <4>1. End(heap, n) <= heap[t].base_addr /\ ~Free(heap, n)
        BY <1>2, <2>6, <3>2, <3>3 DEF First, Edge
      <4>2. ~Free(heap', n) /\ End(heap', n) = End(heap, n)
        BY <1>9, <2>6, <3>1, <4>1 DEF Same, Free, End
      <4>3. QED
        BY <1>9, <3>1, <3>3, <4>1, <4>2 DEF Edge
    <3>4. CASE heap[n].next # t
      <4>1. heap[n].next \in 1 .. Len(heap)
        BY <1>4, <3>1
      <4>2. QED
        BY <1>9, <2>6, <3>1, <3>2, <3>4, <4>1, EdgeFrame
    <3>5. QED
      BY <3>3, <3>4
  <2>7. QED
    BY <2>1, <2>3, <2>4, <2>5, <2>6
<1>14. AfterSplit'
  BY <1>1, <1>3, <1>10, <1>11, <1>13 DEF AfterSplit
<1>15. ElfNode'
  <2>1. Len(heap') \in Nat /\ Len(heap) <= Len(heap') /\ Same(heap, heap', s)
    BY <1>4, <1>5, <1>9
  <2>2. QED
    BY <1>1, <2>1, ElfNodeFrame DEF RepairingElf
<1>16. RepairingElf'
  BY <1>1, <1>11, <1>12, <1>14, <1>15 DEF RepairingElf
<1>17. KeepsHeld
  <2>1. \A n \in List : ~Free(heap, n) => n \in List' /\ Same(heap, heap', n)
    BY <1>2, <1>4, <1>9, <1>11
  <2>2. QED
    BY <2>1, HeldSame DEF KeepsHeld
<1>18. QED
  BY <1>16, <1>17

-----------------------------------------------------------------------------
(* add_padding_right, and the return of fix_right *)

\* What a step that returns from fix_right leads to.
Mended == (pc' = "fix" /\ RepairingElf') \/ (pc' = ret /\ Sound')

\* fix_right returns to the repair of prev or out of insert_sorted.
LEMMA ElfReturns ==
  ASSUME Return
  PROVE  /\ mem_regions' = mem_regions /\ new_region' = new_region /\ prev' = prev
         /\ pending # NULL => /\ pc' = "fix" /\ this_region' = pending /\ pending' = NULL
                              /\ limit_right' = RightOf(heap', pending)
         /\ pending = NULL => pc' = ret
BY DEF Return, FixUnchanged, EnterFix

\* The list is what it was when every node of it is.
LEMMA ElfSame ==
  ASSUME ListTypeOK, ListTypeOK', mem_regions' = mem_regions, Shape(heap, mem_regions, List),
         Len(heap) <= Len(heap'),
         \A n \in List : Same(heap, heap', n) /\ heap'[n].next = heap[n].next,
         NEW X, EdgesBut(heap, List, X)
  PROVE  /\ List' = List /\ Shape(heap', mem_regions, List) /\ EdgesBut(heap', List, X)
         /\ KeepsHeld
<1>1. /\ mem_regions \in 1 .. Len(heap) /\ Line(heap, mem_regions, List)
      /\ \A n \in List : Sized(heap, n)
      /\ LowHead(heap, mem_regions)
      /\ mem_regions \in List
  BY ListNumbers DEF Shape, Line
<1>2. List' = List /\ Line(heap', mem_regions, List)
  BY <1>1, ListFrame
<1>3. Shape(heap', mem_regions, List)
  <2>1. \A n \in List : Sized(heap', n)
    BY <1>1, SizedFrame
  <2>2. LowHead(heap', mem_regions)
    BY <1>1 DEF LowHead, Same
  <2>3. QED
    BY <1>2, <2>1, <2>2 DEF Shape
<1>4. EdgesBut(heap', List, X)
  <2>1. SUFFICES ASSUME NEW n \in List, n \notin X, heap'[n].next # NULL
                 PROVE  Edge(heap', n, heap'[n].next)
    BY DEF EdgesBut
  <2>2. heap'[n].next = heap[n].next /\ heap[n].next \in List
    BY <1>1, <2>1 DEF Line, Closed
  <2>3. Edge(heap, n, heap[n].next)
    BY <2>1, <2>2 DEF EdgesBut
  <2>4. QED
    BY <2>2, <2>3, EdgeFrame
<1>5. KeepsHeld
  <2>1. \A n \in List : ~Free(heap, n) => n \in List' /\ Same(heap, heap', n)
    BY <1>2
  <2>2. QED
    BY <2>1, HeldSame DEF KeepsHeld
<1>6. QED
  BY <1>2, <1>3, <1>4, <1>5

\* What is written to a node that was taken out of the list does not matter.
LEMMA ElfOrphan ==
  ASSUME ListTypeOK, ListTypeOK', mem_regions' = mem_regions, Shape(heap, mem_regions, List),
         EdgesBut(heap, List, {}), Len(heap) <= Len(heap'), NEW t, t \notin List,
         \A m \in 1 .. Len(heap) : m # t => heap'[m] = heap[m]
  PROVE  Sound' /\ KeepsHeld
<1>1. \A n \in List : Same(heap, heap', n) /\ heap'[n].next = heap[n].next
  BY ListNumbers DEF Same
<1>2. /\ List' = List /\ Shape(heap', mem_regions, List) /\ EdgesBut(heap', List, {})
      /\ KeepsHeld
  BY <1>1, ElfSame
<1>3. QED
  BY <1>2 DEF Sound

\* this_region grows over the next node, which leaves the list.
LEMMA ElfMergeList ==
  ASSUME ListTypeOK, ListTypeOK', RepairingElf, MergeRight,
         this_region \in List, ~Free(heap, this_region), next_region # NULL,
         EdgesBut(heap, List, {this_region, next_region}),
         NextOf(next_region) # NULL => Edge(heap, next_region, NextOf(next_region))
  PROVE  /\ List' = List \ {next_region} /\ next_region \in List /\ next_region # this_region
         /\ Shape(heap', mem_regions, List') /\ EdgesBut(heap', List', {})
         /\ KeepsHeld
<1> DEFINE t == this_region
           u == next_region
           M == List \ {u}
<1>1. /\ pc = "fix" /\ SameType /\ mem_regions' = mem_regions
      /\ LoopOver
  BY ElfReturns DEF MergeRight, LoopOver
<1>2. /\ RightOf(heap, t) = End(heap, t)
      /\ End(heap, t) <= heap[u].base_addr
  BY <1>1, ElfLoopOver
<1>3. /\ mem_regions \in 1 .. Len(heap) /\ List \subseteq 1 .. Len(heap)
      /\ Line(heap, mem_regions, List) /\ LowHead(heap, mem_regions)
      /\ \A n \in List : Sized(heap, n)
      /\ u = heap[t].next /\ u \in 1 .. Len(heap) /\ t \in 1 .. Len(heap) /\ u \in List
      /\ HeapOK(heap) /\ HeapOK(heap') /\ Len(heap) \in Nat
  BY <1>1, ElfRepairFacts, ListNumbers, ListNumbersNext
<1>4. /\ heap[t].type = heap[u].type /\ ~Free(heap, u)
  BY <1>1 DEF SameType, Free
<1>5. /\ heap[t].base_addr \in Nat /\ heap[t].size \in Nat /\ End(heap, u) \in Nat
      /\ heap[u].base_addr \in Nat /\ heap[u].size \in Nat
      /\ End(heap, u) < ADDR_MOD /\ RightOf(heap, u) = End(heap, u) /\ heap[t].size > 0
  BY <1>3, ListNumbers DEF Sized
<1>6. (RightOf(heap, u) - heap[t].base_addr) % ADDR_MOD = End(heap, u) - heap[t].base_addr
  <2>1. End(heap, u) - heap[t].base_addr \in 0 .. ADDR_MOD - 1
    BY <1>2, <1>5, AddrModAssumption DEF End
  <2>2. \A x \in 0 .. ADDR_MOD - 1 : x % ADDR_MOD = x
    BY AddrModAssumption
  <2>3. QED
    BY <1>5, <2>1, <2>2
<1>7. /\ Len(heap') = Len(heap)
      /\ \A m \in 1 .. Len(heap) :
            /\ m # t => Same(heap, heap', m) /\ heap'[m].next = heap[m].next
      /\ heap'[t].next = heap[u].next
      /\ heap'[t].type = heap[t].type /\ heap'[t].base_addr = heap[t].base_addr
      /\ heap'[t].size = End(heap, u) - heap[t].base_addr
  BY <1>3, <1>6, MergeWrites DEF Same
<1>8. /\ End(heap', t) = End(heap, u) /\ ~Free(heap', t)
      /\ heap'[t].size > heap[t].size
  <2>1. heap[u].size > 0
    BY <1>3, <1>4 DEF Sized
  <2>2. End(heap', t) = End(heap, u)
    BY <1>5, <1>7 DEF End
  <2>3. ~Free(heap', t)
    BY <1>4, <1>7 DEF Free
  <2>4. heap'[t].size > heap[t].size
    <3>1. heap[t].base_addr + heap[t].size <= heap[u].base_addr
      BY <1>2 DEF End
    <3>2. heap[u].base_addr < End(heap, u)
      BY <1>5, <2>1 DEF End
    <3>3. QED
      BY <1>5, <1>7, <3>1, <3>2
  <2>5. QED
    BY <2>2, <2>3, <2>4
<1>9. /\ List' = M /\ Line(heap', mem_regions, M)
      /\ u # t /\ u # mem_regions
  <2>1. \A n \in List : n # t => heap'[n].next = heap[n].next
    BY <1>3, <1>7
  <2>2. Len(heap) <= Len(heap') /\ u # NULL
    BY <1>3, <1>7
  <2>3. /\ mem_regions' = mem_regions /\ mem_regions \in 1 .. Len(heap)
        /\ Line(heap, mem_regions, List) /\ t \in List /\ u = heap[t].next
        /\ heap'[t].next = heap[u].next
    BY <1>1, <1>3, <1>7
  <2>4. ListTypeOK /\ ListTypeOK'
    OBVIOUS
  <2> HIDE DEF u, t
  <2>5. QED
    BY ONLY <2>1, <2>2, <2>3, <2>4, ListRemove DEF M
<1>10. Shape(heap', mem_regions, M)
  <2>1. ASSUME NEW n \in M PROVE Sized(heap', n)
    <3>1. CASE n = t
      BY <1>5, <1>7, <1>8, <3>1 DEF Sized
    <3>2. CASE n # t
      BY <1>3, <1>7, <3>2, SizedFrame
    <3>3. QED
      BY <3>1, <3>2
  <2>2. LowHead(heap', mem_regions)
    <3>1. CASE mem_regions = t
      BY <1>3, <1>5, <1>7, <1>8, <3>1, RealModeLimitAssumption DEF LowHead, Addresses
    <3>2. CASE mem_regions # t
      BY <1>3, <1>7, <3>2 DEF LowHead, Same
    <3>3. QED
      BY <3>1, <3>2
  <2>3. QED
    BY <1>9, <2>1, <2>2 DEF Shape
<1>11. EdgesBut(heap', M, {})
  <2>1. SUFFICES ASSUME NEW n \in M, heap'[n].next # NULL
                 PROVE  Edge(heap', n, heap'[n].next)
    BY DEF EdgesBut
  <2> DEFINE w == heap'[n].next
  <2>2. w \in M /\ w \in 1 .. Len(heap)
    BY <1>3, <1>9, <2>1 DEF Line, Closed
  <2>3. /\ heap'[w].base_addr = heap[w].base_addr /\ heap'[w].type = heap[w].type
        /\ Free(heap, w) => Same(heap, heap', w) /\ heap'[w].next = heap[w].next
    <3>1. CASE w = t
      BY <1>7, <3>1
    <3>2. CASE w # t
      BY <1>7, <2>2, <3>2 DEF Same
    <3>3. QED
      BY <3>1, <3>2
  <2>4. CASE n = t
    <3>1. w = heap[u].next /\ Edge(heap, u, w)
      BY <1>7, <2>1, <2>4 DEF NextOf
    <3> HIDE DEF w
    <3>2. \/ End(heap, u) <= heap[w].base_addr
          \/ Free(heap, w) /\ (heap[w].next # NULL => End(heap, u) <= End(heap, w))
      BY <1>4, <3>1 DEF Edge
    <3>3. Edge(heap', t, w)
      BY <1>8, <2>3, <3>2 DEF Edge, Free, End, Same
    <3>4. QED
      BY <2>4, <3>3 DEF w
  <2>5. CASE n # t
    <3>1. w = heap[n].next /\ n \in 1 .. Len(heap) /\ n # u
      BY <1>3, <1>7, <2>5
    <3>2. Edge(heap, n, w) /\ Same(heap, heap', n)
      BY <1>7, <2>1, <2>5, <3>1 DEF EdgesBut
    <3> HIDE DEF w
    <3>3. CASE Free(heap, w)
      <4>1. QED
        BY <2>3, <3>2, <3>3, EdgeFrame DEF w
    <3>4. CASE ~Free(heap, w)
      <4>1. Edge(heap', n, w)
        BY <2>3, <3>2, <3>4 DEF Edge, Free, End, Same
      <4>2. QED
        BY <4>1 DEF w
    <3>5. QED
      BY <3>3, <3>4
  <2>6. QED
    BY <2>4, <2>5
<1>12. KeepsHeld
  <2>1. \A n \in List : heap[n].base_addr \in Nat /\ End(heap, n) \in Nat
    BY <1>3, ListNumbers
  <2>2. \A n \in M : heap'[n].base_addr \in Nat /\ End(heap', n) \in Nat
    BY <1>3, <1>7, ListNumbersNext
  <2>3. ASSUME NEW n \in List, ~Free(heap, n)
        PROVE  \E m \in M : /\ heap'[m].type = heap[n].type
                            /\ heap'[m].base_addr <= heap[n].base_addr
                            /\ End(heap, n) <= End(heap', m)
    <3>1. t \in M
      BY <1>9
    <3>2. CASE n = t \/ n = u
      <4>1. heap'[t].type = heap[n].type /\ heap'[t].base_addr = heap[t].base_addr
        BY <1>4, <1>7, <3>2
      <4>2. heap[t].base_addr <= heap[n].base_addr
        BY <1>2, <1>5, <3>2 DEF End
      <4>3. End(heap, n) <= End(heap', t)
        BY <1>2, <1>5, <1>8, <3>2 DEF End
      <4>4. QED
        BY <3>1, <4>1, <4>2, <4>3
    <3>3. CASE n # t /\ n # u
      <4>1. n \in M /\ Same(heap, heap', n) /\ heap[n].base_addr \in Nat /\ End(heap, n) \in Nat
        BY <1>3, <1>7, <2>1, <3>3
      <4>2. QED
        BY <2>3, <4>1 DEF Same, End
    <3>4. QED
      BY <3>2, <3>3
  <2>4. QED
    BY <1>9, <2>1, <2>2, <2>3, HeldCarries DEF KeepsHeld
<1>13. QED
  BY <1>3, <1>9, <1>10, <1>11, <1>12

\* The node being repaired and the new one, where the loop of fix_right is over.
LEMMA ElfEnds ==
  ASSUME ListTypeOK, RepairingElf, LoopOver
  PROVE  /\ pc = "fix" /\ HeapOK(heap) /\ Len(heap) \in Nat /\ List \subseteq 1 .. Len(heap)
         /\ mem_regions \in 1 .. Len(heap) /\ Line(heap, mem_regions, List)
         /\ Shape(heap, mem_regions, List) /\ ElfNode
         /\ this_region \in 1 .. Len(heap) /\ new_region \in 1 .. Len(heap) /\ new_region # NULL
         /\ next_region = heap[this_region].next /\ ~Free(heap, new_region)
         /\ this_region # new_region
         /\ RightOf(heap, this_region) = End(heap, this_region)
         /\ next_region # NULL => /\ next_region \in 1 .. Len(heap)
                                  /\ End(heap, this_region) <= heap[next_region].base_addr
         /\ \/ Second /\ prev \in 1 .. Len(heap) /\ prev # NULL /\ next_region = prev
               /\ prev # this_region /\ prev # new_region
            \/ SecondDropped /\ prev \in 1 .. Len(heap) /\ prev # NULL
               /\ next_region = new_region /\ prev # this_region
            \/ First /\ next_region = new_region
            \/ FirstDropped /\ next_region = new_region
            \/ AfterSplit
<1>1. pc = "fix"
  BY ElfLoopOver
<1>2. /\ HeapOK(heap) /\ Len(heap) \in Nat /\ List \subseteq 1 .. Len(heap)
      /\ mem_regions \in 1 .. Len(heap) /\ Line(heap, mem_regions, List)
      /\ Shape(heap, mem_regions, List) /\ ElfNode
      /\ this_region \in 1 .. Len(heap) /\ new_region \in 1 .. Len(heap) /\ new_region # NULL
      /\ next_region = heap[this_region].next /\ ~Free(heap, new_region)
      /\ RightOf(heap, this_region) = End(heap, this_region)
      /\ next_region # NULL => /\ next_region \in 1 .. Len(heap)
                               /\ End(heap, this_region) <= heap[next_region].base_addr
  BY <1>1, ElfRepairFacts, ElfLoopOver, ListNumbers DEF NULL, RepairingElf
<1>3. /\ heap[new_region].size > 0 /\ heap[new_region].size \in Nat
      /\ heap[new_region].base_addr \in Nat
      /\ heap[this_region].size \in Nat /\ heap[this_region].base_addr \in Nat
  BY <1>2, ListNumbers DEF ElfNode
<1>4. CASE Second
  <2>1. /\ prev \in 1 .. Len(heap) /\ prev # NULL /\ next_region = prev
        /\ heap[prev].next = new_region /\ prev \in List /\ this_region \in List
        /\ heap[prev].base_addr <= heap[new_region].base_addr /\ new_region \in List
        /\ heap[this_region].next = prev
    BY <1>2, <1>4 DEF Second, Before, NULL
  <2>2. \A n \in List : heap[n].next # n
    <3> DEFINE S == List
    <3>1. S = Live(heap, mem_regions)
      BY DEF List
    <3> HIDE DEF S
    <3>2. \A n \in S : heap[n].next # n
      <4>1. Line(heap, mem_regions, S)
        BY <1>2 DEF S
      <4>2. QED
        BY <1>2, <3>1, <4>1, LineNoLoop
    <3>3. QED
      BY <3>2 DEF S
  <2>3. prev # this_region /\ prev # new_region
    BY <2>1, <2>2
  <2>4. this_region # new_region
    <3>1. CASE Free(heap, this_region)
      BY <1>2, <3>1
    <3>2. CASE ~Free(heap, this_region)
      BY <1>3, <1>4, <3>2 DEF Second, End
    <3>3. QED
      BY <3>1, <3>2
  <2>5. QED
    BY <1>1, <1>2, <1>4, <2>1, <2>3, <2>4
<1>5. CASE SecondDropped
  BY <1>1, <1>2, <1>3, <1>5 DEF SecondDropped, End, NULL
<1>6. CASE First
  <2>1. next_region = new_region
    BY <1>2, <1>6 DEF First
  <2>2. this_region # new_region
    BY <1>2, <1>3, <2>1 DEF End
  <2>3. QED
    BY <1>1, <1>2, <1>6, <2>1, <2>2
<1>7. CASE FirstDropped
  BY <1>1, <1>2, <1>3, <1>7 DEF FirstDropped, End
<1>8. CASE AfterSplit
  BY <1>1, <1>2, <1>8 DEF AfterSplit
<1>9. QED
  BY <1>4, <1>5, <1>6, <1>7, <1>8, ElfLoopOver DEF RepairingElf

\* The node being repaired takes in the next one, where both are of one type.
LEMMA ElfMerge ==
  ASSUME ListTypeOK, ListTypeOK', RepairingElf, MergeRight
  PROVE  Mended /\ KeepsHeld
<1> DEFINE t == this_region
           p == prev
           s == new_region
<1>1. LoopOver /\ next_region # NULL /\ SameType /\ Return
  BY DEF MergeRight
<1>2. /\ HeapOK(heap) /\ Len(heap) \in Nat /\ List \subseteq 1 .. Len(heap)
      /\ Shape(heap, mem_regions, List) /\ ElfNode
      /\ t \in 1 .. Len(heap) /\ s \in 1 .. Len(heap) /\ ~Free(heap, s) /\ t # s
      /\ next_region = heap[t].next /\ next_region \in 1 .. Len(heap)
  BY <1>1, ElfEnds
<1>3. heap[t].type = heap[next_region].type
  BY <1>1 DEF SameType
<1>4. /\ Len(heap') = Len(heap)
      /\ \A m \in 1 .. Len(heap) :
            /\ m # t => heap'[m] = heap[m]
            /\ heap'[m].base_addr = heap[m].base_addr
  BY <1>2, MergeWrites
<1>5. ElfNode'
  <2>1. Same(heap, heap', s)
    BY <1>2, <1>4 DEF Same
  <2>2. new_region' = new_region /\ Len(heap') \in Nat /\ Len(heap) <= Len(heap')
    BY <1>1, <1>2, <1>4, ElfReturns
  <2>3. QED
    BY <1>2, <2>1, <2>2, ElfNodeFrame
<1>6. ASSUME List' = List \ {next_region}, Shape(heap', mem_regions, List'), EdgesBut(heap', List', {}),
             pending = p, p \in 1 .. Len(heap), p # NULL, p # t, p \notin List',
             heap[p].next = s, End(heap, p) <= heap[s].base_addr
      PROVE  Mended
  <2>1. /\ heap'[p] = heap[p] /\ heap'[s].base_addr = heap[s].base_addr
        /\ p \in 1 .. Len(heap')
    BY <1>2, <1>4, <1>6
  <2>2. RightOf(heap', p) = End(heap', p) /\ End(heap', p) = End(heap, p)
    <3>1. End(heap', p) = End(heap, p)
      BY <2>1 DEF End
    <3>2. End(heap', p) < ADDR_MOD
      <4>1. /\ heap[s].base_addr < ADDR_MOD /\ heap[s].base_addr \in Nat
            /\ End(heap, p) \in Nat
        BY <1>2, <1>6, ListNumbers
      <4>2. QED
        BY <1>6, <3>1, <4>1, AddrModAssumption
    <3>3. QED
      BY <2>1, <3>1, <3>2, ListNumbersNext
  <2>3. /\ pc' = "fix" /\ this_region' = p /\ pending' = NULL /\ limit_right' = RightOf(heap', p)
        /\ mem_regions' = mem_regions /\ new_region' = new_region
    BY <1>1, <1>6, ElfReturns
  <2>4. FirstDropped'
    BY <1>6, <2>1, <2>2, <2>3 DEF FirstDropped
  <2>5. QED
    BY <1>5, <1>6, <2>3, <2>4 DEF Mended, RepairingElf
<1>7. CASE Second /\ p \in 1 .. Len(heap) /\ p # NULL /\ next_region = p /\ p # t /\ p # s
  <2>1. ~Free(heap, t) /\ ~Free(heap, p)
    BY <1>3, <1>7 DEF Second, Free
  <2>2. heap[p].next = s /\ End(heap, p) <= heap[s].base_addr /\ pending = p
    BY <1>7, <2>1 DEF Second, Before
  <2>3. Edge(heap, next_region, NextOf(next_region))
    BY <1>7, <2>1, <2>2 DEF Edge, NextOf
  <2>4. t \in List /\ EdgesBut(heap, List, {this_region, next_region})
    BY <1>7 DEF Second
  <2>5. /\ List' = List \ {next_region}
        /\ Shape(heap', mem_regions, List') /\ EdgesBut(heap', List', {}) /\ KeepsHeld
    BY <1>1, <2>1, <2>3, <2>4, ElfMergeList
  <2>6. QED
    BY <1>6, <1>7, <2>2, <2>5
<1>8. CASE SecondDropped /\ p \in 1 .. Len(heap) /\ p # NULL /\ next_region = s /\ p # t
  <2>1. /\ ~Free(heap, t) /\ pending = p /\ p \notin List /\ t \in List /\ s \in List
        /\ heap[p].next = s /\ End(heap, p) <= heap[s].base_addr /\ EdgesBut(heap, List, {})
    BY <1>8 DEF SecondDropped
  <2>2. NextOf(next_region) # NULL => Edge(heap, next_region, NextOf(next_region))
    BY <1>8, <2>1 DEF EdgesBut, NextOf
  <2>3. EdgesBut(heap, List, {this_region, next_region})
    BY <2>1 DEF EdgesBut
  <2>4. /\ List' = List \ {next_region}
        /\ Shape(heap', mem_regions, List') /\ EdgesBut(heap', List', {}) /\ KeepsHeld
    BY <1>1, <2>1, <2>2, <2>3, ElfMergeList
  <2>5. QED
    BY <1>6, <1>8, <2>1, <2>4
<1>9. CASE First /\ next_region = s
  <2>1. t \in List /\ s \in List /\ pending = NULL /\ EdgesBut(heap, List, {t})
    BY <1>9 DEF First
  <2>2. ~Free(heap, t)
    BY <1>2, <1>3, <1>9 DEF Free
  <2>3. NextOf(next_region) # NULL => Edge(heap, next_region, NextOf(next_region))
    BY <1>2, <1>9, <2>1 DEF EdgesBut, NextOf
  <2>4. EdgesBut(heap, List, {this_region, next_region})
    BY <2>1 DEF EdgesBut
  <2>5. Shape(heap', mem_regions, List') /\ EdgesBut(heap', List', {}) /\ KeepsHeld
    BY <1>1, <2>1, <2>2, <2>3, <2>4, ElfMergeList
  <2>6. pc' = ret /\ mem_regions' = mem_regions
    BY <1>1, <2>1, ElfReturns
  <2>7. QED
    BY <2>5, <2>6 DEF Mended, Sound
<1>10. CASE FirstDropped
  <2>1. t \notin List /\ pending = NULL /\ EdgesBut(heap, List, {})
    BY <1>10 DEF FirstDropped
  <2>2. pc' = ret /\ mem_regions' = mem_regions
    BY <1>1, <2>1, ElfReturns
  <2>3. Len(heap) <= Len(heap')
    BY <1>2, <1>4
  <2>4. Sound' /\ KeepsHeld
    BY <1>2, <1>4, <2>1, <2>2, <2>3, ElfOrphan
  <2>5. QED
    BY <2>2, <2>4 DEF Mended
<1>11. CASE AfterSplit
  BY <1>1, <1>2, <1>3, <1>11 DEF AfterSplit, EdgesBut, Edge, Free
<1>12. QED
  BY <1>1, <1>7, <1>8, <1>9, <1>10, <1>11, ElfEnds

\* Reserved memory behind the node being repaired is extended down to it.
LEMMA ElfExtend ==
  ASSUME ListTypeOK, ListTypeOK', RepairingElf, ExtendReserved
  PROVE  Mended /\ KeepsHeld
<1> DEFINE t == this_region
           u == next_region
           p == prev
           s == new_region
<1>1. /\ LoopOver /\ u # NULL /\ ~SameType /\ heap[u].type = SYSINFO_MT_RESERVED /\ Return
      /\ mem_regions' = mem_regions /\ new_region' = new_region /\ prev' = prev
  BY ElfReturns DEF ExtendReserved
<1>2. /\ HeapOK(heap) /\ HeapOK(heap') /\ Len(heap) \in Nat /\ List \subseteq 1 .. Len(heap)
      /\ mem_regions \in 1 .. Len(heap) /\ Line(heap, mem_regions, List)
      /\ Shape(heap, mem_regions, List) /\ ElfNode /\ s # NULL
      /\ t \in 1 .. Len(heap) /\ s \in 1 .. Len(heap) /\ ~Free(heap, s) /\ t # s
      /\ u = heap[t].next /\ u \in 1 .. Len(heap)
      /\ RightOf(heap, t) = End(heap, t) /\ End(heap, t) <= heap[u].base_addr
  BY <1>1, ElfEnds, ListNumbersNext
<1>3. ~Free(heap, u) /\ u # s
  BY <1>1, <1>2
  DEF ElfNode, Free, SYSINFO_MT_RESERVED, SYSINFO_MT_USABLE, SYSINFO_MT_ELF_EXECUTABLE
<1>4. /\ t \in List /\ u \in List /\ EdgesBut(heap, List, {t, u}) /\ heap[u].size > 0
  <2>1. (Second /\ u = p) \/ AfterSplit
    BY <1>1, <1>3, ElfEnds
  <2>2. t \in List /\ EdgesBut(heap, List, {t, u})
    BY <2>1 DEF Second, AfterSplit, EdgesBut
  <2>3. u \in List
    BY <1>1, <1>2, <2>2 DEF Line, Closed
  <2>4. QED
    BY <1>2, <1>3, <2>2, <2>3 DEF Shape, Sized
<1>5. /\ heap[u].base_addr \in Nat /\ heap[u].size \in Nat /\ End(heap, t) \in Nat
      /\ End(heap, u) < ADDR_MOD /\ End(heap, u) \in Nat
      /\ heap[t].base_addr \in Nat
  BY <1>2, <1>4, ListNumbers DEF Shape, Sized
<1>6. (heap[u].size + heap[u].base_addr - RightOf(heap, t)) % ADDR_MOD = End(heap, u) - End(heap, t)
  <2>1. heap[u].size + heap[u].base_addr - RightOf(heap, t) = End(heap, u) - End(heap, t)
    BY <1>2, <1>5 DEF End
  <2>2. End(heap, u) - End(heap, t) \in 0 .. ADDR_MOD - 1
    <3>1. heap[u].base_addr <= End(heap, u)
      BY <1>5 DEF End
    <3>2. QED
      BY <1>2, <1>5, <3>1, AddrModAssumption
  <2>3. \A x \in 0 .. ADDR_MOD - 1 : x % ADDR_MOD = x
    BY AddrModAssumption
  <2>4. QED
    BY <2>1, <2>2, <2>3
<1>7. /\ Len(heap') = Len(heap)
      /\ \A m \in 1 .. Len(heap) :
            /\ heap'[m].next = heap[m].next
            /\ m # u => Same(heap, heap', m)
      /\ heap'[u].type = heap[u].type /\ heap'[u].base_addr = End(heap, t)
      /\ heap'[u].size = End(heap, u) - End(heap, t)
  BY <1>1, <1>2, <1>6, ExtendWrites DEF Same
<1>8. /\ End(heap', u) = End(heap, u) /\ ~Free(heap', u) /\ heap'[u].size > 0
      /\ heap'[u].base_addr <= heap[u].base_addr
  <2>1. End(heap', u) = End(heap, u)
    BY <1>5, <1>7 DEF End
  <2>2. ~Free(heap', u)
    BY <1>3, <1>7 DEF Free
  <2>3. heap'[u].base_addr <= heap[u].base_addr
    BY <1>2, <1>7
  <2>4. heap'[u].size > 0
    <3>1. heap[u].base_addr < End(heap, u)
      BY <1>4, <1>5 DEF End
    <3>2. QED
      BY <1>2, <1>5, <1>7, <3>1
  <2>5. QED
    BY <2>1, <2>2, <2>3, <2>4
<1>9. List' = List /\ Line(heap', mem_regions, List)
  <2>1. Len(heap) <= Len(heap') /\ \A n \in List : heap'[n].next = heap[n].next
    BY <1>2, <1>7
  <2>2. QED
    BY <1>1, <1>2, <2>1, ListFrame
<1>10. u # mem_regions /\ u # t
  <2>1. u # mem_regions
    BY <1>2, <1>4 DEF Line
  <2>2. heap[t].size \in Nat
    BY <1>2, ListNumbers
  <2>3. t = u => heap[u].size = 0
    <3>1. heap[t].base_addr + heap[t].size <= heap[u].base_addr
      BY <1>2 DEF End
    <3>2. QED
      BY <1>5, <2>2, <3>1
  <2>4. QED
    BY <1>4, <2>1, <2>3
<1>11. Shape(heap', mem_regions, List)
  <2>1. ASSUME NEW n \in List PROVE Sized(heap', n)
    <3>1. CASE n = u
      BY <1>5, <1>8, <3>1 DEF Sized
    <3>2. CASE n # u
      <4>1. n \in 1 .. Len(heap) /\ Sized(heap, n)
        BY <1>2 DEF Shape
      <4>2. QED
        BY <1>7, <3>2, <4>1, SizedFrame
    <3>3. QED
      BY <3>1, <3>2
  <2>2. LowHead(heap', mem_regions)
    BY <1>2, <1>7, <1>10 DEF Shape, LowHead, Same
  <2>3. QED
    BY <1>9, <2>1, <2>2 DEF Shape
<1>12. EdgesBut(heap', List, {t, u})
  <2>1. SUFFICES ASSUME NEW n \in List, n # t, n # u, heap'[n].next # NULL
                 PROVE  Edge(heap', n, heap'[n].next)
    BY DEF EdgesBut
  <2>2. /\ heap'[n].next = heap[n].next /\ n \in 1 .. Len(heap) /\ heap[n].next \in List
        /\ heap[n].next # u /\ heap[n].next \in 1 .. Len(heap)
    BY <1>1, <1>2, <1>4, <1>7, <2>1 DEF Line, Closed
  <2>3. Edge(heap, n, heap[n].next)
    BY <1>4, <2>1, <2>2 DEF EdgesBut
  <2>4. QED
    BY <1>7, <2>1, <2>2, <2>3, EdgeFrame
<1>13. Edge(heap', t, u)
  <2>1. End(heap', t) = End(heap, t) /\ heap'[u].base_addr = End(heap, t)
    BY <1>2, <1>7, <1>10 DEF Same, End
  <2>2. QED
    BY <1>5, <1>8, <2>1 DEF Edge
<1>14. heap'[t].next = u
  BY <1>2, <1>7
<1>15. EdgesBut(heap', List, {u})
  BY <1>12, <1>13, <1>14 DEF EdgesBut
<1>16. ElfNode'
  <2>1. Same(heap, heap', s)
    BY <1>2, <1>3, <1>7
  <2>2. Len(heap') \in Nat /\ Len(heap) <= Len(heap')
    BY <1>2, <1>7
  <2>3. QED
    BY <1>1, <1>2, <2>1, <2>2, ElfNodeFrame
<1>17. KeepsHeld
  <2>1. \A n \in List : heap[n].base_addr \in Nat /\ End(heap, n) \in Nat
    BY <1>2, ListNumbers
  <2>2. \A n \in List : heap'[n].base_addr \in Nat /\ End(heap', n) \in Nat
    BY <1>2, <1>7, ListNumbersNext
  <2>3. ASSUME NEW n \in List, ~Free(heap, n)
        PROVE  \E m \in List : /\ heap'[m].type = heap[n].type
                               /\ heap'[m].base_addr <= heap[n].base_addr
                               /\ End(heap, n) <= End(heap', m)
    <3>1. CASE n = u
      BY <1>4, <1>5, <1>7, <1>8, <3>1
    <3>2. CASE n # u
      <4>1. Same(heap, heap', n) /\ heap[n].base_addr \in Nat /\ End(heap, n) \in Nat
        BY <1>2, <1>7, <2>1, <3>2
      <4>2. QED
        BY <2>3, <4>1 DEF Same, Free, End
    <3>3. QED
      BY <3>1, <3>2
  <2>4. QED
    BY <1>9, <2>1, <2>2, <2>3, HeldCarries DEF KeepsHeld
<1>18. CASE Second /\ u = p /\ p # NULL
  <2>1. /\ pending = p /\ heap[p].next = s /\ s \in List /\ Before(p, s)
        /\ heap[p].base_addr <= heap[s].base_addr /\ End(heap, p) <= heap[s].base_addr
    BY <1>3, <1>18 DEF Second, Before
  <2>2. /\ pc' = "fix" /\ this_region' = p /\ pending' = NULL /\ limit_right' = RightOf(heap', p)
    BY <1>1, <1>18, <2>1, ElfReturns
  <2>3. RightOf(heap', p) = End(heap', p)
    BY <1>2, <1>5, <1>7, <1>8, <1>18, ListNumbersNext
  <2>4. heap'[s].base_addr = heap[s].base_addr /\ heap'[p].next = s
    BY <1>2, <1>3, <1>7, <1>18, <2>1 DEF Same
  <2>5. /\ heap'[p].base_addr <= heap'[s].base_addr /\ End(heap', p) <= heap'[s].base_addr
    <3>1. heap[s].base_addr \in Nat
      BY <1>2, ListNumbers
    <3>2. heap'[p].base_addr \in Nat
      BY <1>2, <1>7, <1>18, ListNumbersNext
    <3>3. QED
      BY <1>5, <1>8, <1>18, <2>1, <2>4, <3>1, <3>2
  <2>6. Before(p, s)'
    <3>1. Before(p, s)' <=>
            /\ heap'[p].base_addr <= heap'[s].base_addr
            /\ ~Free(heap', p) => End(heap', p) <= heap'[s].base_addr
            /\ (Free(heap', p) /\ heap'[s].next # NULL /\ End(heap', p) > heap'[s].base_addr) =>
                  ~Free(heap', heap'[s].next) /\ End(heap', p) = heap'[heap'[s].next].base_addr
      BY <1>1 DEF Before
    <3>2. QED
      BY <1>8, <1>18, <2>5, <3>1
  <2>7. \A n \in List : heap'[n].next = p => End(heap', n) <= heap'[p].base_addr
    <3>1. SUFFICES ASSUME NEW n \in List, heap'[n].next = p
                   PROVE  End(heap', n) <= heap'[p].base_addr
      OBVIOUS
    <3>2. n = t
      BY <1>2, <1>4, <1>7, <1>18, <3>1 DEF Line
    <3>3. End(heap', t) = End(heap, t) /\ heap'[u].base_addr = End(heap, t)
      BY <1>2, <1>7, <1>10 DEF Same, End
    <3>4. QED
      BY <1>5, <1>18, <3>2, <3>3
  <2>8. Before(this_region, new_region)'
    <3>1. Before(this_region, new_region)' <=> Before(p, s)'
      BY <1>1, <2>2 DEF Before
    <3>2. QED
      BY <2>6, <3>1
  <2>9. First'
    BY <1>1, <1>4, <1>9, <1>15, <1>18, <2>1, <2>2, <2>3, <2>4, <2>7, <2>8 DEF First
  <2>10. QED
    BY <1>1, <1>9, <1>11, <1>16, <1>17, <2>2, <2>9 DEF Mended, RepairingElf
<1>19. CASE AfterSplit
  <2>1. pc' = ret
    BY <1>1, <1>19, ElfReturns DEF AfterSplit
  <2>2. Edge(heap, t, u) /\ (heap[u].next # NULL => Edge(heap, u, heap[u].next))
    BY <1>1, <1>2, <1>4, <1>19 DEF AfterSplit, EdgesBut
  <2>3. End(heap, t) = heap[u].base_addr
    BY <1>19, <2>2 DEF AfterSplit, Edge
  <2>4. Same(heap, heap', u)
    BY <1>5, <1>7, <2>3 DEF Same, End
  <2>5. \A n \in List : Same(heap, heap', n) /\ heap'[n].next = heap[n].next
    BY <1>2, <1>7, <2>4
  <2>6. EdgesBut(heap', List, {})
    <3>1. EdgesBut(heap, List, {}) /\ Len(heap) <= Len(heap')
      BY <1>2, <1>7, <1>19 DEF AfterSplit
    <3>2. QED
      BY <1>1, <1>2, <2>5, <3>1, ElfSame
  <2>7. QED
    BY <1>1, <1>9, <1>11, <1>17, <2>1, <2>6 DEF Mended, Sound
<1>20. QED
  BY <1>1, <1>3, <1>18, <1>19, ElfEnds

\* A reserved node is put between this_region and the next one.
LEMMA ElfPadList ==
  ASSUME ListTypeOK, ListTypeOK', RepairingElf, PadGap, this_region \in List,
         NEW Y, this_region \notin Y, EdgesBut(heap, List, Y \cup {this_region}),
         NEW q, q = Len(heap) + 1
  PROVE  /\ List' = List \cup {q} /\ q \notin List
         /\ Shape(heap', mem_regions, List') /\ EdgesBut(heap', List', Y)
         /\ KeepsHeld
<1> DEFINE t == this_region
           u == next_region
           N == List \cup {q}
<1>1. /\ LoopOver /\ u # NULL /\ RightOf(heap, t) < heap[u].base_addr /\ Return
      /\ mem_regions' = mem_regions
  BY ElfReturns DEF PadGap, GapRight
<1>2. /\ HeapOK(heap) /\ HeapOK(heap') /\ Len(heap) \in Nat /\ List \subseteq 1 .. Len(heap)
      /\ mem_regions \in 1 .. Len(heap) /\ Line(heap, mem_regions, List)
      /\ Shape(heap, mem_regions, List)
      /\ t \in 1 .. Len(heap) /\ u = heap[t].next /\ u \in 1 .. Len(heap) /\ u \in List
      /\ RightOf(heap, t) = End(heap, t)
  <2>1. /\ HeapOK(heap) /\ HeapOK(heap') /\ Len(heap) \in Nat /\ List \subseteq 1 .. Len(heap)
        /\ mem_regions \in 1 .. Len(heap) /\ Line(heap, mem_regions, List)
        /\ Shape(heap, mem_regions, List)
        /\ t \in 1 .. Len(heap) /\ u = heap[t].next /\ u \in 1 .. Len(heap)
        /\ RightOf(heap, t) = End(heap, t)
    BY <1>1, ElfEnds, ListNumbersNext
  <2>2. u \in List
    BY <1>1, <2>1 DEF Line, Closed
  <2>3. QED
    BY <2>1, <2>2
<1>3. /\ Len(heap') = Len(heap) + 1
      /\ \A m \in 1 .. Len(heap) :
            /\ Same(heap, heap', m)
            /\ heap'[m].next = IF m = t THEN q ELSE heap[m].next
      /\ heap'[q].next = u /\ heap'[q].type = SYSINFO_MT_RESERVED
      /\ heap'[q].base_addr = End(heap, t)
      /\ heap'[q].size = heap[u].base_addr - End(heap, t)
  BY <1>2, PadWrites DEF Same
<1>4. /\ heap[u].base_addr \in Nat /\ End(heap, t) \in Nat /\ End(heap, t) < heap[u].base_addr
      /\ heap[u].base_addr < ADDR_MOD
      /\ q \notin List /\ q \notin 1 .. Len(heap) /\ q # NULL /\ q \in 1 .. Len(heap')
  BY <1>1, <1>2, <1>3, ListNumbers DEF NULL
<1>5. /\ End(heap', q) = heap[u].base_addr /\ ~Free(heap', q) /\ heap'[q].size > 0
  BY <1>3, <1>4 DEF End, Free, SYSINFO_MT_RESERVED, SYSINFO_MT_USABLE
<1>6. List' = N /\ Line(heap', mem_regions, N)
  <2>1. \A n \in List : n # t => heap'[n].next = heap[n].next
    BY <1>2, <1>3
  <2>2. heap'[t].next = q /\ heap'[q].next = heap[t].next /\ Len(heap) <= Len(heap')
    BY <1>2, <1>3
  <2>3. QED
    BY <1>1, <1>2, <1>4, <2>1, <2>2, ListInsert
<1>7. Shape(heap', mem_regions, N)
  <2>1. ASSUME NEW n \in N PROVE Sized(heap', n)
    <3>1. CASE n = q
      BY <1>4, <1>5, <3>1 DEF Sized
    <3>2. CASE n \in List
      <4>1. n \in 1 .. Len(heap) /\ Sized(heap, n)
        BY <1>2, <3>2 DEF Shape
      <4>2. QED
        BY <1>3, <4>1, SizedFrame
    <3>3. QED
      BY <2>1, <3>1, <3>2
  <2>2. LowHead(heap', mem_regions)
    BY <1>2, <1>3 DEF Shape, LowHead, Same
  <2>3. QED
    BY <1>6, <2>1, <2>2 DEF Shape
<1>8. EdgesBut(heap', N, Y)
  <2>1. SUFFICES ASSUME NEW n \in N, n \notin Y, heap'[n].next # NULL
                 PROVE  Edge(heap', n, heap'[n].next)
    BY DEF EdgesBut
  <2>2. CASE n = q
    <3>1. Same(heap, heap', u)
      BY <1>2, <1>3
    <3>2. QED
      BY <1>3, <1>4, <1>5, <2>2, <3>1 DEF Same, Edge
  <2>3. CASE n = t
    <3>1. heap'[n].next = q /\ End(heap', n) = End(heap, t)
      BY <1>2, <1>3, <2>3 DEF Same, End
    <3>2. QED
      BY <1>3, <1>4, <1>5, <3>1 DEF Edge
  <2>4. CASE n \in List /\ n # t
    <3>1. /\ heap'[n].next = heap[n].next /\ n \in 1 .. Len(heap) /\ heap[n].next \in List
          /\ heap[n].next \in 1 .. Len(heap)
      BY <1>2, <1>3, <2>1, <2>4 DEF Line, Closed
    <3>2. Edge(heap, n, heap[n].next)
      BY <2>1, <2>4, <3>1 DEF EdgesBut
    <3>3. heap'[heap[n].next].next # NULL => heap[heap[n].next].next # NULL
      BY <1>1, <1>2, <1>3, <3>1
    <3>4. QED
      BY <1>3, <3>1, <3>2, <3>3, EdgeFrame
  <2>5. QED
    BY <2>1, <2>2, <2>3, <2>4
<1>9. KeepsHeld
  <2>1. \A n \in List : ~Free(heap, n) => n \in List' /\ Same(heap, heap', n)
    BY <1>2, <1>3, <1>6
  <2>2. QED
    BY <2>1, HeldSame DEF KeepsHeld
<1>10. QED
  BY <1>4, <1>6, <1>7, <1>8, <1>9

\* A gap behind the node being repaired is closed with reserved memory.
LEMMA ElfPad ==
  ASSUME ListTypeOK, ListTypeOK', RepairingElf, PadGap
  PROVE  Mended /\ KeepsHeld
<1> DEFINE t == this_region
           p == prev
           s == new_region
<1> PICK q \in Nat : q = Len(heap) + 1
  BY DEF ListTypeOK, HeapOK
<1>1. /\ LoopOver /\ next_region # NULL /\ RightOf(heap, t) < heap[next_region].base_addr
      /\ Return
      /\ mem_regions' = mem_regions /\ new_region' = new_region /\ prev' = prev
  BY ElfReturns DEF PadGap, GapRight
<1>2. /\ HeapOK(heap) /\ HeapOK(heap') /\ Len(heap) \in Nat /\ List \subseteq 1 .. Len(heap)
      /\ Line(heap, mem_regions, List)
      /\ Shape(heap, mem_regions, List) /\ ElfNode
      /\ t \in 1 .. Len(heap) /\ s \in 1 .. Len(heap) /\ t # s
      /\ next_region = heap[t].next /\ next_region \in 1 .. Len(heap)
      /\ RightOf(heap, t) = End(heap, t)
  BY <1>1, ElfEnds, ListNumbersNext
<1>3. /\ Len(heap') = Len(heap) + 1
      /\ \A m \in 1 .. Len(heap) :
            /\ Same(heap, heap', m)
            /\ m # t => heap'[m] = heap[m]
            /\ heap'[m].next = IF m = t THEN q ELSE heap[m].next
      /\ heap'[q].next = next_region
      /\ heap'[q].base_addr = End(heap, t)
      /\ heap'[q].size = heap[next_region].base_addr - End(heap, t)
  BY <1>2, PadWrites DEF Same
<1>4. ElfNode'
  <2>1. Same(heap, heap', s) /\ Len(heap') \in Nat /\ Len(heap) <= Len(heap')
    BY <1>2, <1>3
  <2>2. QED
    BY <1>1, <1>2, <2>1, ElfNodeFrame
<1>5. CASE Second /\ p \in 1 .. Len(heap) /\ p # NULL /\ next_region = p /\ p # t /\ p # s
  <2>1. /\ pending = p /\ heap[p].next = s /\ s \in List /\ t \in List /\ p \in List
        /\ Before(p, s) /\ EdgesBut(heap, List, {p} \cup {t})
    <3>1. {p} \cup {t} = {this_region, prev}
      OBVIOUS
    <3>2. QED
      BY <1>5, <3>1 DEF Second
  <2>2. /\ pc' = "fix" /\ this_region' = p /\ pending' = NULL /\ limit_right' = RightOf(heap', p)
    BY <1>1, <1>5, <2>1, ElfReturns
  <2>3. /\ List' = List \cup {q} /\ q \notin List
        /\ Shape(heap', mem_regions, List') /\ EdgesBut(heap', List', {p})
        /\ KeepsHeld
    <3>1. t \notin {p}
      BY <1>5
    <3>2. QED
      BY <2>1, <3>1, ElfPadList
  <2>4. RightOf(heap', p) = End(heap', p)
    <3>1. End(heap', p) = End(heap, p) /\ End(heap, p) < ADDR_MOD
      BY <1>2, <1>3, <1>5, <2>1 DEF Same, End, Shape, Sized
    <3>2. QED
      BY <1>2, <1>3, <1>5, <3>1, ListNumbersNext
  <2>5. Before(this_region, new_region)'
    <3>1. Same(heap, heap', p) /\ Same(heap, heap', s) /\ heap'[s].next = heap[s].next
      BY <1>2, <1>3, <1>5
    <3>2. heap[s].next # NULL => Same(heap, heap', heap[s].next)
      BY <1>2, <1>3, <2>1 DEF Line, Closed
    <3>3. Before(this_region, new_region)' <=>
            /\ heap'[p].base_addr <= heap'[s].base_addr
            /\ ~Free(heap', p) => End(heap', p) <= heap'[s].base_addr
            /\ (Free(heap', p) /\ heap'[s].next # NULL /\ End(heap', p) > heap'[s].base_addr) =>
                  ~Free(heap', heap'[s].next) /\ End(heap', p) = heap'[heap'[s].next].base_addr
      BY <1>1, <2>2 DEF Before
    <3>4. QED
      BY <2>1, <3>1, <3>2, <3>3 DEF Before, Same, Free, End
  <2>6. \A n \in List' : heap'[n].next = p => End(heap', n) <= heap'[p].base_addr
    <3>1. SUFFICES ASSUME NEW n \in List', heap'[n].next = p
                   PROVE  End(heap', n) <= heap'[p].base_addr
      OBVIOUS
    <3>2. n \notin List
      <4>1. SUFFICES ASSUME n \in List PROVE FALSE
        OBVIOUS
      <4>2. n # t /\ heap[n].next = p
        BY <1>2, <1>3, <1>5, <2>1, <2>3, <3>1, <4>1
      <4>3. QED
        BY <1>2, <1>5, <2>1, <4>1, <4>2 DEF Line
    <3>3. n = q
      BY <2>3, <3>1, <3>2
    <3>4. heap[p].base_addr \in Nat /\ End(heap, t) \in Nat /\ heap'[p].base_addr = heap[p].base_addr
      BY <1>2, <1>3, <1>5, ListNumbers DEF Same
    <3>5. End(heap', q) = heap[p].base_addr
      BY <1>3, <1>5, <3>4 DEF End
    <3>6. QED
      BY <3>3, <3>4, <3>5
  <2>7. heap'[p].next = s
    BY <1>3, <1>5, <2>1
  <2>8. First'
    BY <1>1, <2>1, <2>2, <2>3, <2>4, <2>5, <2>6, <2>7 DEF First
  <2>9. QED
    BY <1>1, <1>4, <2>2, <2>3, <2>8 DEF Mended, RepairingElf
<1>6. CASE SecondDropped /\ p \in 1 .. Len(heap) /\ p # NULL /\ next_region = s /\ p # t
  <2>1. /\ pending = p /\ p \notin List /\ t \in List /\ s \in List
        /\ heap[p].next = s /\ End(heap, p) <= heap[s].base_addr /\ EdgesBut(heap, List, {})
    BY <1>6 DEF SecondDropped
  <2>2. /\ pc' = "fix" /\ this_region' = p /\ pending' = NULL /\ limit_right' = RightOf(heap', p)
    BY <1>1, <1>6, <2>1, ElfReturns
  <2>3. /\ List' = List \cup {q} /\ q \notin List
        /\ Shape(heap', mem_regions, List') /\ EdgesBut(heap', List', {})
        /\ KeepsHeld
    <3>1. EdgesBut(heap, List, {} \cup {t})
      BY <2>1 DEF EdgesBut
    <3>2. QED
      BY <2>1, <3>1, ElfPadList
  <2>4. /\ RightOf(heap', p) = End(heap', p) /\ End(heap', p) = End(heap, p)
        /\ heap'[s].base_addr = heap[s].base_addr
    <3>1. End(heap', p) = End(heap, p) /\ heap'[s].base_addr = heap[s].base_addr
      BY <1>2, <1>3, <1>6 DEF Same, End
    <3>2. /\ heap[s].base_addr < ADDR_MOD /\ heap[s].base_addr \in Nat
          /\ End(heap, p) \in Nat
      BY <1>2, <1>6, ListNumbers
    <3>3. End(heap', p) < ADDR_MOD
      BY <2>1, <3>1, <3>2, AddrModAssumption
    <3>4. QED
      BY <1>2, <1>3, <1>6, <3>1, <3>3, ListNumbersNext
  <2>5. heap'[p].next = s /\ p \in (1 .. Len(heap')) \ List'
    BY <1>2, <1>3, <1>6, <2>1, <2>3
  <2>6. FirstDropped'
    BY <1>1, <2>1, <2>2, <2>3, <2>4, <2>5 DEF FirstDropped
  <2>7. QED
    BY <1>1, <1>4, <2>2, <2>3, <2>6 DEF Mended, RepairingElf
<1>7. CASE First
  <2>1. t \in List /\ pending = NULL /\ EdgesBut(heap, List, {} \cup {t})
    BY <1>7 DEF First, EdgesBut
  <2>2. pc' = ret
    BY <1>1, <2>1, ElfReturns
  <2>3. Shape(heap', mem_regions, List') /\ EdgesBut(heap', List', {}) /\ KeepsHeld
    BY <2>1, ElfPadList
  <2>4. QED
    BY <1>1, <2>2, <2>3 DEF Mended, Sound
<1>8. CASE FirstDropped
  <2>1. t \notin List /\ pending = NULL /\ EdgesBut(heap, List, {})
    BY <1>8 DEF FirstDropped
  <2>2. pc' = ret
    BY <1>1, <2>1, ElfReturns
  <2>3. Len(heap) <= Len(heap')
    BY <1>2, <1>3
  <2>4. Sound' /\ KeepsHeld
    BY <1>1, <1>2, <1>3, <2>1, <2>3, ElfOrphan
  <2>5. QED
    BY <2>2, <2>4 DEF Mended
<1>9. CASE AfterSplit
  <2>1. End(heap, t) = heap[next_region].base_addr
    BY <1>1, <1>2, <1>9 DEF AfterSplit, EdgesBut, Edge
  <2>2. heap[next_region].base_addr \in Nat
    BY <1>2, ListNumbers
  <2>3. QED
    BY <1>1, <1>2, <2>1, <2>2
<1>10. QED
  BY <1>1, <1>5, <1>6, <1>7, <1>8, <1>9, ElfEnds

\* Nothing is to be done behind the node being repaired.
LEMMA ElfNoPadding ==
  ASSUME ListTypeOK, ListTypeOK', RepairingElf, NoPadding
  PROVE  Mended /\ KeepsHeld
<1> DEFINE t == this_region
           p == prev
           s == new_region
<1>1. /\ LoopOver /\ Return /\ heap' = heap
      /\ mem_regions' = mem_regions /\ new_region' = new_region /\ prev' = prev
      /\ next_region # NULL => ~ (RightOf(heap, t) < heap[next_region].base_addr)
  BY ElfReturns DEF NoPadding, GapRight
<1>2. /\ HeapOK(heap) /\ Len(heap) \in Nat /\ List \subseteq 1 .. Len(heap)
      /\ Line(heap, mem_regions, List)
      /\ Shape(heap, mem_regions, List) /\ ElfNode
      /\ t \in 1 .. Len(heap) /\ s \in 1 .. Len(heap) /\ t # s /\ ~Free(heap, s) /\ s # NULL
      /\ next_region = heap[t].next
      /\ RightOf(heap, t) = End(heap, t)
      /\ next_region # NULL => /\ next_region \in 1 .. Len(heap)
                               /\ End(heap, t) <= heap[next_region].base_addr
  BY <1>1, ElfEnds
<1>3. List' = List /\ KeepsHeld /\ Shape(heap', mem_regions', List') /\ ElfNode'
  <2>1. List' = List
    BY <1>1 DEF List
  <2>2. QED
    BY <1>1, <1>2, <2>1 DEF KeepsHeld, ElfNode
<1>4. next_region # NULL => End(heap, t) = heap[next_region].base_addr
  <2>1. next_region # NULL => heap[next_region].base_addr \in Nat
    BY <1>2, ListNumbers
  <2>2. End(heap, t) \in Nat
    BY <1>2, ListNumbers
  <2>3. QED
    BY <1>1, <1>2, <2>1, <2>2
<1>5. CASE Second /\ p \in 1 .. Len(heap) /\ p # NULL /\ next_region = p /\ p # t /\ p # s
  <2>1. /\ pending = p /\ heap[p].next = s /\ s \in List /\ t \in List /\ p \in List
        /\ Before(p, s) /\ EdgesBut(heap, List, {t, p}) /\ heap[t].next = p
        /\ Free(heap, t) => ~Free(heap, p)
    BY <1>5 DEF Second
  <2>2. /\ pc' = "fix" /\ this_region' = p /\ pending' = NULL /\ limit_right' = RightOf(heap', p)
    BY <1>1, <1>5, <2>1, ElfReturns
  <2>3. heap[p].base_addr \in Nat /\ End(heap, t) = heap[p].base_addr /\ RightOf(heap, p) = End(heap, p)
    BY <1>2, <1>4, <1>5, <2>1, ListNumbers DEF Shape, Sized
  <2>4. Edge(heap, t, p)
    BY <2>1, <2>3 DEF Edge
  <2>5. EdgesBut(heap, List, {p})
    BY <2>1, <2>4 DEF EdgesBut
  <2>6. \A n \in List : heap[n].next = p => End(heap, n) <= heap[p].base_addr
    <3>1. \A n \in List : heap[n].next = p => n = t
      BY <1>2, <1>5, <2>1 DEF Line
    <3>2. QED
      BY <2>3, <3>1
  <2>7. Before(this_region, new_region)'
    BY <1>1, <2>1, <2>2 DEF Before
  <2>8. First'
    BY <1>1, <1>3, <2>1, <2>2, <2>3, <2>5, <2>6, <2>7 DEF First
  <2>9. QED
    BY <1>3, <2>2, <2>8 DEF Mended, RepairingElf
<1>6. CASE SecondDropped /\ p \in 1 .. Len(heap) /\ p # NULL /\ next_region = s /\ p # t
  <2>1. /\ pending = p /\ p \notin List
        /\ heap[p].next = s /\ End(heap, p) <= heap[s].base_addr /\ EdgesBut(heap, List, {})
    BY <1>6 DEF SecondDropped
  <2>2. /\ pc' = "fix" /\ this_region' = p /\ pending' = NULL /\ limit_right' = RightOf(heap', p)
    BY <1>1, <1>6, <2>1, ElfReturns
  <2>3. /\ heap[s].base_addr < ADDR_MOD /\ heap[s].base_addr \in Nat
        /\ End(heap, p) \in Nat
    BY <1>2, <1>6, ListNumbers
  <2>4. End(heap, p) < ADDR_MOD
    BY <2>1, <2>3, AddrModAssumption
  <2>5. RightOf(heap, p) = End(heap, p)
    BY <1>6, <2>4, ListNumbers
  <2>6. FirstDropped'
    BY <1>1, <1>3, <1>6, <2>1, <2>2, <2>5 DEF FirstDropped
  <2>7. QED
    BY <1>3, <2>2, <2>6 DEF Mended, RepairingElf
<1>7. CASE First /\ next_region = s
  <2>1. t \in List /\ pending = NULL /\ EdgesBut(heap, List, {t})
    BY <1>7 DEF First
  <2>2. Edge(heap, t, s) /\ heap[t].next = s
    <3>1. heap[s].base_addr \in Nat
      BY <1>2, ListNumbers
    <3>2. QED
      BY <1>2, <1>4, <1>7, <3>1 DEF Edge
  <2>3. EdgesBut(heap, List, {})
    BY <2>1, <2>2 DEF EdgesBut
  <2>4. pc' = ret
    BY <1>1, <2>1, ElfReturns
  <2>5. QED
    BY <1>1, <1>3, <2>3, <2>4 DEF Mended, Sound
<1>8. CASE FirstDropped \/ AfterSplit
  <2>1. pending = NULL /\ EdgesBut(heap, List, {})
    BY <1>8 DEF FirstDropped, AfterSplit
  <2>2. pc' = ret
    BY <1>1, <2>1, ElfReturns
  <2>3. QED
    BY <1>1, <1>3, <2>1, <2>2 DEF Mended, Sound
<1>9. QED
  BY <1>1, <1>5, <1>6, <1>7, <1>8, ElfEnds

\* No step of a repair breaks the list or gives up an address that is in use.
LEMMA ElfFix ==
  ASSUME ListTypeOK, ListTypeOK', pc = "fix", RepairingElf, FixRight
  PROVE  pc' = "panic" \/ (Mended /\ KeepsHeld)
<1>1. CASE DropNext
  BY <1>1, ElfDrop DEF DropNext, Mended
<1>2. CASE TrimNext
  BY <1>2, ElfTrim DEF TrimNext, Mended
<1>3. CASE CutThis
  BY <1>3, ElfCut DEF CutThis, Mended
<1>4. CASE SplitThis
  BY <1>4, ElfSplit DEF SplitThis, Mended
<1>5. CASE SplitPanic \/ PadPanic
  BY <1>5 DEF SplitPanic, PadPanic, AllocPanic
<1>6. CASE MergeRight
  BY <1>6, ElfMerge
<1>7. CASE ExtendReserved
  BY <1>7, ElfExtend
<1>8. CASE PadGap
  BY <1>8, ElfPad
<1>9. CASE NoPadding
  BY <1>9, ElfNoPadding
<1>10. QED
  BY <1>1, <1>2, <1>3, <1>4, <1>5, <1>6, <1>7, <1>8, <1>9 DEF FixRight

-----------------------------------------------------------------------------
(* A segment is listed *)

\* The two nodes behind which the segment belongs.
LEMMA ElfWalk ==
  ASSUME ListTypeOK, pc = "walk", WalkingElf, Walk, UNCHANGED segments
  PROVE  WalkingElf' /\ List' = List /\ pc' = "walk" /\ heap' = heap
<1>1. /\ BeforeNew /\ prev2' = prev /\ prev' = current /\ current' = NextOf(current)
      /\ heap' = heap /\ mem_regions' = mem_regions /\ new_region' = new_region /\ pc' = pc
  BY DEF Walk
<1>2. List' = List
  BY <1>1 DEF List
<1>3. /\ Sound /\ ElfNode /\ Clear /\ new_region \notin List
      /\ heap[new_region].base_addr = Segment.p_vaddr
      /\ heap[new_region].size = Segment.p_memsz
      /\ mem_regions \in List /\ Closed(heap, List)
  BY DEF WalkingElf, Sound, Shape, Line
<1>4. Sound' /\ ElfNode' /\ Clear' /\ new_region' \notin List'
  BY <1>1, <1>2, <1>3 DEF Sound, ElfNode, Clear
<1>5. Segment' = Segment
  BY DEF Segment
<1>6. current # NULL /\ current \in List
  BY <1>1, <1>3 DEF WalkingElf, Left, BeforeNew, Closed
<1>7. Left(current)
  BY <1>1, <1>6 DEF Left, BeforeNew
<1>8. heap'[prev'].next = current' /\ prev' # NULL
  BY <1>1, <1>6 DEF NextOf
<1>9. prev'  \in List' /\ heap'[prev'].base_addr < heap'[new_region'].base_addr
  BY <1>1, <1>2, <1>7 DEF Left
<1>10. IF prev2' = NULL THEN prev' = mem_regions'
       ELSE /\ prev2' \in List' /\ heap'[prev2'].base_addr < heap'[new_region'].base_addr
            /\ heap'[prev2'].next = prev'
  BY <1>1, <1>2 DEF WalkingElf, Left
<1>11. WalkingElf'
  BY <1>1, <1>3, <1>4, <1>5, <1>8, <1>9, <1>10 DEF WalkingElf, Left
<1>12. QED
  BY <1>1, <1>2, <1>11

\* What LinkAfter writes.
LEMMA LinkWrites ==
  ASSUME ListTypeOK, LinkAfter, prev \in 1 .. Len(heap), new_region \in 1 .. Len(heap),
         prev # new_region
  PROVE  /\ Len(heap') = Len(heap)
         /\ \A m \in 1 .. Len(heap) :
               /\ Same(heap, heap', m)
               /\ heap'[m].next = IF m = prev THEN new_region
                                  ELSE IF m = new_region THEN current ELSE heap[m].next
<1> DEFINE f == SetNextOf(heap, new_region, current)
<1>1. heap' = SetNextOf(f, prev, new_region)
  BY DEF LinkAfter, SetNextOf
<1>2. current \in Nat /\ heap \in Seq(Regions)
  BY ListNodes DEF ListTypeOK, Pointers
<1>3. /\ f \in Seq(Regions) /\ Len(f) = Len(heap)
      /\ \A m \in 1 .. Len(heap) :
            /\ Same(heap, f, m)
            /\ f[m].next = IF m = new_region THEN current ELSE heap[m].next
  BY <1>2, SetNextOfWrites DEF Same
<1> HIDE DEF f
<1>4. new_region \in Nat /\ prev \in 1 .. Len(f)
  BY <1>3
<1>5. /\ Len(heap') = Len(f)
      /\ \A m \in 1 .. Len(f) :
            /\ Same(f, heap', m)
            /\ heap'[m].next = IF m = prev THEN new_region ELSE f[m].next
  BY <1>1, <1>3, <1>4, SetNextOfWrites DEF Same
<1>6. QED
  BY <1>3, <1>5 DEF Same

\* The node of the segment is linked, and the repair of the nodes before it begins.
LEMMA ElfLink ==
  ASSUME ListTypeOK, ListTypeOK', WalkingElf, LinkAfter
  PROVE  /\ pc' = "fix" /\ RepairingElf' /\ KeepsHeld
         /\ \A a \in Nat : In(Segment, a) => HeldAt(heap', List', a, SYSINFO_MT_ELF_EXECUTABLE)
<1> DEFINE p == prev
           c == current
           s == new_region
           N == List \cup {s}
<1>1. /\ pc' = "fix" /\ mem_regions' = mem_regions /\ new_region' = s /\ prev' = p
      /\ p # NULL /\ ~BeforeNew
      /\ this_region' = (IF prev2 = NULL THEN p ELSE prev2)
      /\ pending' = (IF prev2 = NULL THEN NULL ELSE p)
      /\ limit_right' = RightOf(heap', this_region')
  BY DEF LinkAfter, EnterFix
<1>2. /\ Sound /\ ElfNode /\ Clear /\ s \notin List
      /\ heap[s].base_addr = Segment.p_vaddr /\ heap[s].size = Segment.p_memsz
      /\ p \in List /\ heap[p].base_addr < heap[s].base_addr /\ heap[p].next = c
      /\ IF prev2 = NULL THEN p = mem_regions
         ELSE prev2 \in List /\ heap[prev2].base_addr < heap[s].base_addr /\ heap[prev2].next = p
  BY <1>1 DEF WalkingElf, Left
<1>3. /\ HeapOK(heap) /\ HeapOK(heap') /\ Len(heap) \in Nat /\ List \subseteq 1 .. Len(heap)
      /\ mem_regions \in 1 .. Len(heap) /\ mem_regions \in List
      /\ Line(heap, mem_regions, List) /\ LowHead(heap, mem_regions)
      /\ \A n \in List : Sized(heap, n)
      /\ s \in 1 .. Len(heap) /\ heap[s].size > 0 /\ End(heap, s) < ADDR_MOD
      /\ ~Free(heap, s)
      /\ EdgesBut(heap, List, {})
  <2>1. HeapOK(heap) /\ HeapOK(heap') /\ Len(heap) \in Nat /\ List \subseteq 1 .. Len(heap)
    BY ListNumbers, ListNumbersNext
  <2>2. Line(heap, mem_regions, List) /\ mem_regions \in List
    BY <1>2 DEF Sound, Shape, Line
  <2>3. QED
    BY <1>2, <2>1, <2>2
    DEF Sound, Shape, ElfNode, Free, SYSINFO_MT_ELF_EXECUTABLE, SYSINFO_MT_USABLE
<1>4. \A n \in 1 .. Len(heap) :
         /\ heap[n].base_addr \in Nat /\ heap[n].size \in Nat /\ End(heap, n) \in Nat
         /\ heap[n].base_addr <= End(heap, n)
         /\ heap[n].size > 0 => heap[n].base_addr < End(heap, n)
  BY ListNumbers DEF End
<1>5. p \in 1 .. Len(heap) /\ p # s /\ s # NULL
  BY <1>2, <1>3 DEF NULL
<1>6. /\ Len(heap') = Len(heap)
      /\ \A m \in 1 .. Len(heap) :
            /\ Same(heap, heap', m)
            /\ heap'[m].next = IF m = p THEN s ELSE IF m = s THEN c ELSE heap[m].next
  BY <1>3, <1>5, LinkWrites
<1>7. List' = N /\ Line(heap', mem_regions, N)
  <2>1. \A n \in List : n # p => heap'[n].next = heap[n].next
    BY <1>2, <1>3, <1>6
  <2>2. heap'[p].next = s /\ heap'[s].next = heap[p].next /\ Len(heap) <= Len(heap')
        /\ s \in 1 .. Len(heap')
    BY <1>2, <1>3, <1>5, <1>6
  <2>3. QED
    BY <1>1, <1>2, <1>3, <2>1, <2>2, ListInsert
<1>8. Shape(heap', mem_regions, N)
  <2>1. ASSUME NEW n \in N PROVE Sized(heap', n)
    <3>1. n \in 1 .. Len(heap) /\ Sized(heap, n)
      BY <1>3 DEF Sized
    <3>2. QED
      BY <1>6, <3>1, SizedFrame
  <2>2. LowHead(heap', mem_regions)
    BY <1>3, <1>6 DEF LowHead, Same
  <2>3. QED
    BY <1>7, <2>1, <2>2 DEF Shape
<1>9. \A n \in List : (heap[n].base_addr < heap[s].base_addr /\ ~Free(heap, n)) =>
         End(heap, n) <= heap[s].base_addr
  <2>1. SUFFICES ASSUME NEW n \in List, heap[n].base_addr < heap[s].base_addr, ~Free(heap, n)
                 PROVE  End(heap, n) <= heap[s].base_addr
    OBVIOUS
  <2>2. \/ End(heap, n) <= heap[s].base_addr
        \/ End(heap, s) <= heap[n].base_addr
    BY <1>2, <2>1 DEF Clear
  <2>3. n \in 1 .. Len(heap)
    BY <1>3
  <2>4. QED
    BY <1>3, <1>4, <2>1, <2>2, <2>3
<1>10. \A n \in List : (heap[n].base_addr >= heap[s].base_addr /\ ~Free(heap, n)) =>
         End(heap, s) <= heap[n].base_addr
  <2>1. SUFFICES ASSUME NEW n \in List, heap[n].base_addr >= heap[s].base_addr, ~Free(heap, n)
                 PROVE  End(heap, s) <= heap[n].base_addr
    OBVIOUS
  <2>2. \/ End(heap, n) <= heap[s].base_addr
        \/ End(heap, s) <= heap[n].base_addr
    BY <1>2, <2>1 DEF Clear
  <2>3. n \in 1 .. Len(heap) /\ heap[n].size > 0
    BY <1>3, <2>1 DEF Sized
  <2>4. QED
    BY <1>3, <1>4, <2>1, <2>2, <2>3
<1>11. c # NULL => /\ c \in List /\ c \in 1 .. Len(heap) /\ Edge(heap, p, c)
                   /\ heap[c].base_addr >= heap[s].base_addr /\ c # p
  <2>1. SUFFICES ASSUME c # NULL
                 PROVE  /\ c \in List /\ c \in 1 .. Len(heap) /\ Edge(heap, p, c)
                        /\ heap[c].base_addr >= heap[s].base_addr /\ c # p
    OBVIOUS
  <2>2. c \in List /\ c \in 1 .. Len(heap) /\ Edge(heap, p, c)
    BY <1>2, <1>3, <2>1 DEF Line, Closed, EdgesBut
  <2>3. heap[c].base_addr >= heap[s].base_addr
    BY <1>1, <1>3, <1>4, <2>1, <2>2 DEF BeforeNew
  <2>4. QED
    BY <1>2, <1>4, <1>3, <1>5, <2>2, <2>3
<1>12. Before(p, s)'
  <2>1. Same(heap, heap', p) /\ Same(heap, heap', s) /\ heap'[s].next = c
    BY <1>3, <1>5, <1>6
  <2>2. heap'[p].base_addr <= heap'[s].base_addr
    BY <1>2, <1>3, <1>4, <1>5, <2>1 DEF Same
  <2>3. ~Free(heap', p) => End(heap', p) <= heap'[s].base_addr
    BY <1>2, <1>9, <2>1 DEF Same, Free, End
  <2>4. (Free(heap', p) /\ c # NULL /\ End(heap', p) > heap'[s].base_addr) =>
           ~Free(heap', c) /\ End(heap', p) = heap'[c].base_addr
    <3>1. c # NULL => Same(heap, heap', c)
      BY <1>6, <1>11
    <3>2. QED
      BY <1>11, <2>1, <3>1 DEF Edge, Same, Free, End
  <2>5. QED
    BY <1>1, <2>1, <2>2, <2>3, <2>4 DEF Before
<1>13. c # NULL => Edge(heap', s, c)
  <2>1. SUFFICES ASSUME c # NULL PROVE Edge(heap', s, c)
    OBVIOUS
  <2>2. /\ Same(heap, heap', s) /\ Same(heap, heap', c) /\ c # s
        /\ heap'[c].next = heap[c].next
    BY <1>2, <1>3, <1>6, <1>11, <2>1
  <2>3. CASE ~Free(heap, c)
    BY <1>3, <1>10, <1>11, <2>1, <2>2, <2>3 DEF Edge, Same, Free, End
  <2>4. CASE Free(heap, c)
    <3>1. heap[c].next # NULL => End(heap, s) <= End(heap, c)
      <4>1. SUFFICES ASSUME heap[c].next # NULL PROVE End(heap, s) <= End(heap, c)
        OBVIOUS
      <4> DEFINE d == heap[c].next
      <4>2. d \in List /\ d \in 1 .. Len(heap) /\ Edge(heap, c, d)
        BY <1>3, <1>11, <2>1, <4>1 DEF Line, Closed, EdgesBut
      <4>3. ~Free(heap, d) /\ End(heap, c) = heap[d].base_addr
        BY <2>4, <4>2 DEF Edge
      <4> HIDE DEF d
      <4>4. heap[d].base_addr >= heap[s].base_addr
        BY <1>3, <1>4, <1>11, <2>1, <4>2, <4>3
      <4>5. QED
        BY <1>10, <4>2, <4>3, <4>4
    <3>2. QED
      BY <1>3, <2>2, <2>4, <3>1 DEF Edge, Same, Free, End
  <2>5. QED
    BY <2>3, <2>4
<1>14. \A n \in List : (n # p /\ heap[n].next # NULL /\ heap[n].next # p) =>
         heap'[n].next = heap[n].next /\ Edge(heap', n, heap[n].next)
  <2>1. SUFFICES ASSUME NEW n \in List, n # p, heap[n].next # NULL, heap[n].next # p
                 PROVE  heap'[n].next = heap[n].next /\ Edge(heap', n, heap[n].next)
    OBVIOUS
  <2>2. /\ n \in 1 .. Len(heap) /\ n # s /\ heap[n].next \in List /\ heap[n].next # s
        /\ heap[n].next \in 1 .. Len(heap) /\ Edge(heap, n, heap[n].next)
    BY <1>2, <1>3, <2>1 DEF Line, Closed, EdgesBut
  <2>3. heap'[heap[n].next].next = heap[heap[n].next].next
    BY <1>6, <2>1, <2>2
  <2>4. QED
    BY <1>6, <2>1, <2>2, <2>3, EdgeFrame
<1>15. ElfNode'
  <2>1. Same(heap, heap', s) /\ Len(heap') \in Nat /\ Len(heap) <= Len(heap')
    BY <1>3, <1>6
  <2>2. QED
    BY <1>1, <1>2, <2>1, ElfNodeFrame
<1>16. KeepsHeld
  <2>1. \A n \in List : ~Free(heap, n) => n \in List' /\ Same(heap, heap', n)
    BY <1>3, <1>6, <1>7
  <2>2. QED
    BY <2>1, HeldSame DEF KeepsHeld
<1>17. \A a \in Nat : In(Segment, a) => HeldAt(heap', List', a, SYSINFO_MT_ELF_EXECUTABLE)
  <2>1. Same(heap, heap', s) /\ s \in List'
    BY <1>3, <1>6, <1>7
  <2>2. ~Free(heap', s) /\ heap'[s].base_addr = Segment.p_vaddr
        /\ End(heap', s) = Segment.p_vaddr + Segment.p_memsz
        /\ heap'[s].type = SYSINFO_MT_ELF_EXECUTABLE
    BY <1>2, <1>3, <2>1 DEF Same, Free, End, ElfNode
  <2>3. QED
    BY <2>1, <2>2 DEF In, HeldAt
<1>18. heap'[p].next = s /\ heap'[s].next = c /\ s \in List' /\ p \in List'
  BY <1>2, <1>3, <1>5, <1>6, <1>7
<1>19. CASE prev2 = NULL
  <2>1. this_region' = p /\ pending' = NULL /\ limit_right' = RightOf(heap', p) /\ p = mem_regions
    BY <1>1, <1>2, <1>19
  <2>2. EdgesBut(heap', N, {p})
    <3>1. SUFFICES ASSUME NEW n \in N, n # p, heap'[n].next # NULL
                   PROVE  Edge(heap', n, heap'[n].next)
      BY DEF EdgesBut
    <3>2. CASE n = s
      BY <1>13, <1>18, <3>1, <3>2
    <3>3. CASE n \in List /\ n # s
      <4>1. heap'[n].next = heap[n].next /\ heap[n].next # p
        BY <1>3, <1>6, <2>1, <3>1, <3>3 DEF Line
      <4>2. QED
        BY <1>14, <3>1, <3>3, <4>1
    <3>4. QED
      BY <3>1, <3>2, <3>3
  <2>3. \A n \in List' : heap'[n].next # p
    BY <1>7, <2>1 DEF Line
  <2>4. RightOf(heap', p) = End(heap', p)
    BY <1>2, <1>3, <1>5, <1>6, <1>7, <1>8, ListNumbersNext DEF Shape, Sized
  <2>5. Before(this_region, new_region)'
    BY <1>1, <1>12, <2>1 DEF Before
  <2>6. First'
    BY <1>1, <1>7, <1>18, <2>1, <2>2, <2>3, <2>4, <2>5 DEF First
  <2>7. QED
    BY <1>1, <1>7, <1>8, <1>15, <1>16, <1>17, <2>6 DEF RepairingElf
<1>20. CASE prev2 # NULL
  <2> DEFINE t == prev2
  <2>1. /\ this_region' = t /\ pending' = p /\ limit_right' = RightOf(heap', t)
        /\ t \in List /\ heap[t].base_addr < heap[s].base_addr /\ heap[t].next = p
    BY <1>1, <1>2, <1>20
  <2>2. t \in 1 .. Len(heap) /\ t # s /\ t # p
    <3>1. t # p
      <4> DEFINE S == List
      <4>1. S = Live(heap, mem_regions)
        BY DEF List
      <4>2. Line(heap, mem_regions, S) /\ p \in S
        BY <1>2, <1>3
      <4> HIDE DEF S
      <4>3. heap[p].next # p
        BY <1>3, <4>1, <4>2, LineNoLoop
      <4>4. QED
        BY <2>1, <4>3
    <3>2. QED
      BY <1>2, <1>3, <2>1, <3>1
  <2>3. EdgesBut(heap', N, {t, p})
    <3>1. SUFFICES ASSUME NEW n \in N, n # p, n # t, heap'[n].next # NULL
                   PROVE  Edge(heap', n, heap'[n].next)
      BY DEF EdgesBut
    <3>2. CASE n = s
      BY <1>13, <1>18, <3>1, <3>2
    <3>3. CASE n \in List /\ n # s
      <4>1. heap'[n].next = heap[n].next /\ heap[n].next # p
        BY <1>1, <1>3, <1>6, <2>1, <3>1, <3>3 DEF Line
      <4>2. QED
        BY <1>14, <3>1, <3>3, <4>1
    <3>4. QED
      BY <3>1, <3>2, <3>3
  <2>4. RightOf(heap', t) = End(heap', t)
    BY <1>2, <1>3, <1>6, <1>7, <1>8, <2>1, <2>2, ListNumbersNext DEF Shape, Sized
  <2>5. Same(heap, heap', t) /\ Same(heap, heap', p) /\ Same(heap, heap', s) /\ heap'[t].next = p
    BY <1>3, <1>5, <1>6, <2>1, <2>2
  <2>6. Edge(heap, t, p)
    BY <1>1, <1>3, <2>1 DEF EdgesBut
  <2>7. IF Free(heap', t)
        THEN ~Free(heap', p) /\ End(heap', t) = heap'[p].base_addr
        ELSE /\ End(heap', t) <= heap'[s].base_addr
             /\ ~Free(heap', p) => End(heap', t) <= heap'[p].base_addr
    BY <1>9, <2>1, <2>5, <2>6 DEF Edge, Same, Free, End
  <2>8. Second'
    BY <1>1, <1>7, <1>12, <1>18, <2>1, <2>3, <2>4, <2>5, <2>7 DEF Second
  <2>9. QED
    BY <1>1, <1>7, <1>8, <1>15, <1>16, <1>17, <2>8 DEF RepairingElf
<1>21. QED
  BY <1>19, <1>20

-----------------------------------------------------------------------------
(* elf_load: a segment is accepted *)

\* A segment as numbers.
LEMMA SegmentNumbers ==
  ASSUME SegmentsFit, NEW s \in SEGMENTS
  PROVE  /\ s.p_vaddr \in Nat /\ s.p_memsz \in Nat /\ s.p_filesz \in Nat
         /\ s.p_filesz <= s.p_memsz
         /\ s.p_vaddr + s.p_memsz < PTR_MOD /\ s.p_vaddr + s.p_memsz < ADDR_MOD
         /\ PTR_MOD \in Nat /\ PTR_MOD > 0 /\ PTR_MOD <= ADDR_MOD
         /\ \A x \in Nat : x < PTR_MOD => (x % PTR_MOD) = x
<1>1. PTR_MOD \in Nat /\ PTR_MOD > 0 /\ PTR_MOD <= ADDR_MOD /\ ADDR_MOD \in Nat
  BY PtrModAssumption, AddrModAssumption
<1>2. s.p_vaddr \in Nat /\ s.p_memsz \in Nat /\ s.p_filesz \in Nat
  BY <1>1, SegmentsAssumption DEF Segments, PtrAddresses
<1>3. s.p_filesz <= s.p_memsz /\ s.p_vaddr + s.p_memsz < PTR_MOD
  BY DEF SegmentsFit
<1>4. \A x \in Nat : x < PTR_MOD => (x % PTR_MOD) = x
  BY <1>1
<1>5. QED
  BY <1>1, <1>2, <1>3, <1>4

\* The two tests append_memregion is guarded by keep a segment off all that is not usable.
LEMMA SegmentClear ==
  ASSUME ListTypeOK, Sound, SegmentsFit, NEW s \in SEGMENTS, ~Rejected(s)
  PROVE  /\ s.p_vaddr >= REAL_MODE_LIMIT /\ s.p_memsz > 0
         /\ \A n \in List : ~Free(heap, n) =>
              \/ End(heap, n) <= s.p_vaddr
              \/ s.p_vaddr + s.p_memsz <= heap[n].base_addr
<1>1. s.p_vaddr \in Nat /\ s.p_memsz \in Nat /\ REAL_MODE_LIMIT \in Nat
  BY SegmentNumbers, RealModeLimitAssumption, AddrModAssumption DEF Addresses
<1>2. s.p_vaddr >= REAL_MODE_LIMIT /\ s.p_memsz > 0 /\ ~is_intersecting_used_memregions(s)
  BY <1>1 DEF Rejected, is_intersecting_used_memregions
<1>3. ASSUME NEW n \in List, ~Free(heap, n)
      PROVE  \/ End(heap, n) <= s.p_vaddr
             \/ s.p_vaddr + s.p_memsz <= heap[n].base_addr
  <2>1. n \in 1 .. Len(heap) /\ heap[n].base_addr \in Nat /\ End(heap, n) \in Nat
    BY ListNumbers
  <2>2. RightOf(heap, n) = End(heap, n)
    BY <2>1, ListNumbers DEF Sound, Shape, Sized
  <2>3. n \in InList
    BY InListIsLive DEF List
  <2>4. heap[n].type # SYSINFO_MT_USABLE
    BY <1>3 DEF Free
  <2>5. ((s.p_vaddr + s.p_memsz) % PTR_MOD) = s.p_vaddr + s.p_memsz
    BY <1>1, SegmentNumbers
  <2>6. ~ IF heap[n].base_addr < s.p_vaddr
          THEN RightOf(heap, n) > s.p_vaddr
          ELSE ((s.p_vaddr + s.p_memsz) % PTR_MOD) > heap[n].base_addr
    BY <1>2, <2>3, <2>4 DEF is_intersecting_used_memregions
  <2>7. QED
    BY <1>1, <2>1, <2>2, <2>5, <2>6
<1>4. QED
  BY <1>2, <1>3

\* What reports and segments are listed as.
LEMMA TypeOfReport ==
  /\ \A e : convert_type(e) \in MemTypes
  /\ SYSINFO_MT_ELF_EXECUTABLE \in MemTypes /\ SYSINFO_MT_ELF_EXECUTABLE > SYSINFO_MT_USABLE
BY DEF convert_type, MemTypes, SYSINFO_MT_USABLE, SYSINFO_MT_RECLAIMABLE, SYSINFO_MT_ACPI_NVS,
       SYSINFO_MT_BAD, SYSINFO_MT_ELF_EXECUTABLE, SYSINFO_MT_RESERVED

\* No address of an accepted segment is occupied.
LEMMA SegmentUnoccupied ==
  ASSUME ListTypeOK, Sound, OccupiedHeld, SegmentsFit, NEW s \in SEGMENTS, ~Rejected(s),
         NEW a \in Addresses, In(s, a), NEW t \in MemTypes
  PROVE  ~Occupied(a, t)
<1>1. SUFFICES ASSUME Occupied(a, t) PROVE FALSE
  OBVIOUS
<1>2. PICK n \in List : ~Free(heap, n) /\ heap[n].base_addr <= a /\ a < End(heap, n)
  BY <1>1 DEF OccupiedHeld, HeldAt
<1>3. \/ End(heap, n) <= s.p_vaddr
      \/ s.p_vaddr + s.p_memsz <= heap[n].base_addr
  BY <1>2, SegmentClear
<1>4. /\ heap[n].base_addr \in Nat /\ End(heap, n) \in Nat /\ a \in Nat
      /\ s.p_vaddr \in Nat /\ s.p_memsz \in Nat
  <2>1. heap[n].base_addr \in Nat /\ End(heap, n) \in Nat
    BY ListNumbers
  <2>2. a \in Nat
    BY AddrModAssumption DEF Addresses
  <2>3. s.p_vaddr \in Nat /\ s.p_memsz \in Nat
    BY SegmentNumbers
  <2>4. QED
    BY <2>1, <2>2, <2>3
<1>5. QED
  BY <1>2, <1>3, <1>4 DEF In

\* elf_load calls insert_sorted with a sound list and a segment that is clear of it.
LEMMA ElfCalled ==
  ASSUME ListTypeOK, ListTypeOK', Sound, SegmentsFit, segments \in Seq(SEGMENTS),
         NEW s \in SEGMENTS, AcceptSegment(s)
  PROVE  /\ pc' = "walk" /\ ret' = "load" /\ WalkingElf'
         /\ Len(segments) \in Nat /\ Len(segments') = Len(segments) + 1 /\ Segment' = s
         /\ segments'[Len(segments) + 1] = s
         /\ \A i \in 1 .. Len(segments) : segments'[i] = segments[i]
         /\ List' = List /\ KeepsHeld
<1> DEFINE r == Region(s.p_vaddr, s.p_memsz, SYSINFO_MT_ELF_EXECUTABLE)
           q == Len(heap) + 1
<1>1. /\ heap' = Append(heap, r) /\ new_region' = q /\ ret' = "load"
      /\ pc' = (IF r.size = 0 THEN "load" ELSE "walk")
      /\ prev2' = NULL /\ prev' = NULL /\ current' = mem_regions /\ mem_regions' = mem_regions
      /\ segments' = Append(segments, s) /\ ~Rejected(s)
  BY DEF AcceptSegment, CallInsert
<1>2. /\ s.p_vaddr \in Nat /\ s.p_memsz \in Nat /\ s.p_vaddr + s.p_memsz < ADDR_MOD
      /\ s.p_vaddr >= REAL_MODE_LIMIT /\ s.p_memsz > 0
      /\ REAL_MODE_LIMIT \in Nat /\ REAL_MODE_LIMIT > 0
  BY <1>1, SegmentNumbers, SegmentClear, RealModeLimitAssumption, AddrModAssumption DEF Addresses
<1>3. /\ r.base_addr = s.p_vaddr /\ r.size = s.p_memsz /\ r.next = NULL
      /\ r.type = SYSINFO_MT_ELF_EXECUTABLE /\ r \in Regions
  BY SegmentRegion DEF Region
<1> HIDE DEF r
<1>4. pc' = "walk"
  BY <1>1, <1>2, <1>3
<1>5. /\ Len(segments) \in Nat /\ Len(segments') = Len(segments) + 1
      /\ segments'[Len(segments) + 1] = s
      /\ \A i \in 1 .. Len(segments) : segments'[i] = segments[i]
  BY <1>1, AppendProperties
<1>6. Segment' = s
  BY <1>5 DEF Segment
<1>7. /\ heap \in Seq(Regions) /\ Len(heap) \in Nat /\ List \subseteq 1 .. Len(heap)
      /\ mem_regions \in 0 .. Len(heap)
  BY ListNumbers DEF HeapOK
<1>8. /\ Len(heap') = q /\ heap'[q] = r
      /\ \A m \in 1 .. Len(heap) : heap'[m] = heap[m]
  BY <1>1, <1>3, <1>7, Grown
<1>9. q \in 1 .. Len(heap') /\ q \notin List /\ q # NULL
  BY <1>7, <1>8 DEF NULL
<1>10. \A n \in List : Same(heap, heap', n) /\ heap'[n].next = heap[n].next
  BY <1>7, <1>8 DEF Same
<1>11. List' = List /\ Shape(heap', mem_regions, List) /\ EdgesBut(heap', List, {}) /\ KeepsHeld
  <2>1. Shape(heap, mem_regions, List) /\ EdgesBut(heap, List, {}) /\ Len(heap) <= Len(heap')
    BY <1>7, <1>8 DEF Sound
  <2>2. QED
    BY <1>1, <1>10, <2>1, ElfSame
<1>12. Sound'
  BY <1>1, <1>11 DEF Sound
<1>13. End(heap', q) = s.p_vaddr + s.p_memsz
  BY <1>3, <1>8 DEF End
<1>14. ElfNode'
  BY <1>1, <1>2, <1>3, <1>8, <1>9, <1>13 DEF ElfNode
<1>15. Clear'
  <2>1. SUFFICES ASSUME NEW n \in List, ~Free(heap', n)
                 PROVE  \/ End(heap', n) <= heap'[q].base_addr
                        \/ End(heap', q) <= heap'[n].base_addr
    BY <1>1, <1>11 DEF Clear
  <2>2. heap'[n] = heap[n]
    BY <1>7, <1>8
  <2>3. ~Free(heap, n) /\ End(heap', n) = End(heap, n)
    BY <2>1, <2>2 DEF Free, End
  <2>4. \/ End(heap, n) <= s.p_vaddr
        \/ s.p_vaddr + s.p_memsz <= heap[n].base_addr
    BY <1>1, <2>3, SegmentClear
  <2>5. QED
    BY <1>3, <1>8, <1>13, <2>2, <2>3, <2>4
<1>16. heap'[q].base_addr = s.p_vaddr /\ heap'[q].size = s.p_memsz
  BY <1>3, <1>8
<1>17. WalkingElf'
  BY <1>1, <1>6, <1>9, <1>11, <1>12, <1>14, <1>15, <1>16 DEF WalkingElf
<1>18. QED
  BY <1>1, <1>4, <1>5, <1>6, <1>11, <1>17

\* The history of the reports as numbers.
LEMMA HistoryNumbers ==
  ASSUME ElfInv
  PROVE  /\ Len(reported) \in Nat /\ count \in Nat /\ count <= Len(reported)
         /\ segments \in Seq(SEGMENTS) /\ Len(segments) \in Nat
         /\ \A i \in 1 .. Len(segments) : segments[i] \in SEGMENTS
<1>1. reported \in Seq(E820Regions) /\ count \in 0 .. Len(reported) /\ segments \in Seq(SEGMENTS)
  BY DEF ElfInv, ElfTypeOK
<1>2. Len(reported) \in Nat /\ Len(segments) \in Nat
  BY <1>1
<1>3. \A i \in 1 .. Len(segments) : segments[i] \in SEGMENTS
  BY <1>1, ElementOfSeq
<1>4. QED
  BY <1>1, <1>2, <1>3

\* A segment is accepted where nothing is occupied, so apart from all before it.
LEMMA ElfAccepted ==
  ASSUME ElfInv, ListTypeOK', Sound, OccupiedHeld, SegmentsFit, SegmentsAccepted, pc = "done",
         NEW s \in SEGMENTS, AcceptSegment(s)
  PROVE  OccupiedHeld' /\ SegmentsAccepted'
<1> DEFINE L == Len(segments)
<1>1. /\ ListTypeOK /\ segments \in Seq(SEGMENTS) /\ L \in Nat /\ count \in Nat
      /\ \A i \in 1 .. L : segments[i] \in SEGMENTS
  BY HistoryNumbers DEF ElfInv, ElfTypeOK
<1>2. /\ pc' = "walk" /\ ret' = "load" /\ Len(segments') = L + 1
      /\ segments'[L + 1] = s /\ KeepsHeld
      /\ \A i \in 1 .. L : segments'[i] = segments[i]
  BY <1>1, ElfCalled
<1>3. ~Rejected(s) /\ reported' = reported /\ count' = count /\ written' = written
  BY DEF AcceptSegment, sysinfoVars
<1>4. ListedSegments = L /\ ListedSegments' = L
  BY <1>1, <1>2 DEF ListedSegments
<1>5. ASSUME NEW a \in Addresses, NEW t \in MemTypes, Occupied(a, t)'
      PROVE  HeldAt(heap', List', a, t)
  <2>1. Occupied(a, t)
    BY <1>1, <1>2, <1>3, <1>4, <1>5 DEF Occupied, Usable
  <2>2. HeldAt(heap, List, a, t) /\ a \in Nat
    BY <2>1, AddrModAssumption DEF OccupiedHeld, Addresses
  <2>3. QED
    BY <1>2, <2>2 DEF KeepsHeld
<1>6. OccupiedHeld'
  BY <1>5 DEF OccupiedHeld
<1>7. \A a \in Addresses, t \in MemTypes : In(s, a) => ~Occupied(a, t)
  BY <1>1, <1>3, SegmentUnoccupied
<1>8. /\ s.p_vaddr \in Nat /\ s.p_memsz \in Nat /\ REAL_MODE_LIMIT \in Nat
      /\ s.p_vaddr >= REAL_MODE_LIMIT /\ s.p_memsz > 0 /\ s.p_vaddr + s.p_memsz < ADDR_MOD
  BY <1>1, <1>3, SegmentNumbers, SegmentClear, RealModeLimitAssumption, AddrModAssumption
  DEF Addresses
<1>9. ASSUME NEW a \in Addresses, NEW k \in 1 .. count, In(s, a), Covers(reported[k], a)
      PROVE  Usable(k)
  <2>1. a >= REAL_MODE_LIMIT
    BY <1>8, <1>9, AddrModAssumption DEF In, Addresses
  <2>2. QED
    BY <1>7, <1>9, <2>1, TypeOfReport DEF Occupied
<1>10. ASSUME NEW i \in 1 .. L
       PROVE  \/ segments[i].p_vaddr + segments[i].p_memsz <= s.p_vaddr
              \/ s.p_vaddr + s.p_memsz <= segments[i].p_vaddr
  <2> DEFINE t == segments[i]
             a == IF t.p_vaddr >= s.p_vaddr THEN t.p_vaddr ELSE s.p_vaddr
  <2>1. /\ t.p_vaddr \in Nat /\ t.p_memsz \in Nat /\ t.p_memsz > 0
        /\ t.p_vaddr + t.p_memsz < ADDR_MOD
    BY <1>1, SegmentNumbers DEF SegmentsAccepted
  <2> HIDE DEF t
  <2>2. SUFFICES ASSUME s.p_vaddr < t.p_vaddr + t.p_memsz, t.p_vaddr < s.p_vaddr + s.p_memsz
                 PROVE  FALSE
    BY <1>8, <2>1 DEF t
  <2>3. a \in Addresses /\ In(s, a) /\ In(t, a)
    BY <1>8, <2>1, <2>2, AddrModAssumption DEF In, Addresses
  <2> HIDE DEF a
  <2>4. Occupied(a, SYSINFO_MT_ELF_EXECUTABLE)
    BY <1>4, <2>3 DEF Occupied, t
  <2>5. QED
    BY <1>7, <2>3, <2>4, TypeOfReport
<1>11. SegmentsAccepted'
  <2>1. ASSUME NEW i \in 1 .. L + 1
        PROVE  /\ segments'[i].p_vaddr >= REAL_MODE_LIMIT /\ segments'[i].p_memsz > 0
               /\ \A a \in Addresses, k \in 1 .. count' :
                     (In(segments'[i], a) /\ Covers(reported'[k], a)) => Usable(k)'
    <3>1. CASE i = L + 1
      BY <1>2, <1>3, <1>8, <1>9, <3>1 DEF Usable
    <3>2. CASE i # L + 1
      <4>1. i \in 1 .. L
        BY <1>1, <3>2
      <4>2. QED
        BY <1>2, <1>3, <4>1 DEF SegmentsAccepted, Usable
    <3>3. QED
      BY <3>1, <3>2
  <2>2. ASSUME NEW i \in 1 .. L + 1, NEW j \in 1 .. L + 1, i # j
        PROVE  \/ segments'[i].p_vaddr + segments'[i].p_memsz <= segments'[j].p_vaddr
               \/ segments'[j].p_vaddr + segments'[j].p_memsz <= segments'[i].p_vaddr
    <3>1. CASE i = L + 1
      <4>1. j \in 1 .. L
        BY <1>1, <2>2, <3>1
      <4>2. QED
        BY <1>2, <1>10, <3>1, <4>1
    <3>2. CASE j = L + 1
      <4>1. i \in 1 .. L
        BY <1>1, <2>2, <3>2
      <4>2. QED
        BY <1>2, <1>10, <3>2, <4>1
    <3>3. CASE i # L + 1 /\ j # L + 1
      <4>1. i \in 1 .. L /\ j \in 1 .. L
        BY <1>1, <3>3
      <4>2. QED
        BY <1>2, <2>2, <4>1 DEF SegmentsAccepted
    <3>4. QED
      BY <3>1, <3>2, <3>3
  <2>3. ASSUME NEW a \in written PROVE \E i \in 1 .. L + 1 : In(segments'[i], a)
    <3>1. PICK i \in 1 .. L : In(segments[i], a)
      BY DEF SegmentsAccepted
    <3>2. i \in 1 .. L + 1 /\ segments'[i] = segments[i]
      BY <1>1, <1>2
    <3>3. QED
      BY <3>1, <3>2
  <2>4. QED
    BY <1>2, <1>3, <2>1, <2>2, <2>3 DEF SegmentsAccepted
<1>12. QED
  BY <1>6, <1>11

-----------------------------------------------------------------------------
(* elf_load and get_stack_pointer, step by step *)

\* What get_sysinfo has made of the map, while it is at work and when it has returned.
MapInv == MapPhase => SysInfoTypeOK /\ OrderedInv /\ ContentsInv

\* the inductive invariant
LoadInv ==
  ElfInv /\ MapInv /\ Neighbours /\ MapControl /\ LoadShape /\ Held /\ SegmentsAccepted /\ Scanned

\* Nothing that the shape of the list is about has changed.
LEMMA ReadyFrame ==
  ASSUME Sound, OccupiedHeld, pc # "walk", pc' \notin {"walk", "fix"},
         UNCHANGED <<heap, mem_regions, segments, reported, count>>
  PROVE  Sound' /\ OccupiedHeld' /\ LoadShape' /\ Held' /\ List' = List
<1>1. List' = List
  BY DEF List
<1>2. Sound'
  BY <1>1 DEF Sound
<1>3. OccupiedHeld'
  <2>1. SUFFICES ASSUME NEW a \in Addresses, NEW t \in MemTypes, Occupied(a, t)'
                 PROVE  HeldAt(heap', List', a, t)
    BY DEF OccupiedHeld
  <2>2. ListedSegments = Len(segments) /\ ListedSegments' = Len(segments)
    BY DEF ListedSegments
  <2>3. Occupied(a, t)
    BY <2>1, <2>2 DEF Occupied, Usable
  <2>4. QED
    BY <1>1, <2>3 DEF OccupiedHeld
<1>4. QED
  BY <1>1, <1>2, <1>3 DEF LoadShape, Held

\* Nothing that the map's list is about has changed.
LEMMA MapFrame ==
  ASSUME SysInfoTypeOK, OrderedInv, ContentsInv, OrderedMap, UsableApart(heap, List, {}),
         UNCHANGED vars, pc # "fix"
  PROVE  MapInv' /\ Neighbours'
<1>1. [SysInfoNext]_vars
  OBVIOUS
<1>2. SysInfoTypeOK'
  BY <1>1, NextType
<1>3. OrderedInv'
  BY <1>1, <1>2, NextOrdered
<1>4. ContentsInv'
  BY <1>1, <1>2, <1>3, NextContents
<1>5. heap' = heap /\ mem_regions' = mem_regions /\ pc' = pc /\ List' = List
  BY DEF vars, listVars, List
<1>6. Neighbours'
  BY <1>5 DEF Neighbours
<1>7. QED
  BY <1>2, <1>3, <1>4, <1>6 DEF MapInv

\* The bytes of a segment are where its header says.
LEMMA BytesAreIn ==
  ASSUME SegmentsFit, NEW s \in SEGMENTS, NEW n \in Nat, n <= s.p_memsz, NEW a \in Bytes(s, n)
  PROVE  In(s, a)
<1>1. PICK k \in 0 .. n - 1 : a = (s.p_vaddr + k) % PTR_MOD
  BY DEF Bytes
<1>2. /\ s.p_vaddr \in Nat /\ s.p_memsz \in Nat /\ s.p_vaddr + s.p_memsz < PTR_MOD
      /\ PTR_MOD \in Nat /\ \A x \in Nat : x < PTR_MOD => (x % PTR_MOD) = x
  BY SegmentNumbers
<1>3. k \in Nat /\ k < s.p_memsz /\ s.p_vaddr + k \in Nat /\ s.p_vaddr + k < PTR_MOD
  BY <1>2
<1>4. a = s.p_vaddr + k
  BY <1>1, <1>2, <1>3
<1>5. QED
  BY <1>2, <1>3, <1>4 DEF In

\* What has been accepted stays so when more of its bytes are written.
LEMMA AcceptedFrame ==
  ASSUME SegmentsAccepted, UNCHANGED <<segments, reported, count>>,
         \A a \in written' : a \in written \/ \E i \in 1 .. Len(segments) : In(segments[i], a)
  PROVE  SegmentsAccepted'
BY DEF SegmentsAccepted, Usable

\* A segment is read into place, or a part of it.
LEMMA ReadKeeps ==
  ASSUME LoadInv, SegmentsFit, pc = "load", pc' = "done",
         ListUnchanged, UNCHANGED <<sysinfoVars, segments>>, ElfUnchanged, ElfInv',
         NEW n \in Nat, n <= Segment.p_memsz, written' = written \cup Bytes(Segment, n)
  PROVE  LoadInv'
<1>1. /\ UNCHANGED <<heap, mem_regions, ret, reported, count, result, segments>>
      /\ ret = "load" /\ LoadPhase /\ LoadPhase' /\ ~MapPhase' /\ result = "SYSINFO_SUCCESS"
  BY DEF ListUnchanged, sysinfoVars, LoadInv, ElfInv, LoadPhase, MapPhase, MapControl
<1>2. Sound /\ OccupiedHeld
  BY <1>1 DEF LoadInv, LoadShape, Held
<1>3. LoadShape' /\ Held'
  BY <1>1, <1>2, ReadyFrame
<1>4. Len(segments) \in 1 .. Len(segments) /\ Segment \in SEGMENTS
  <2>1. segments \in Seq(SEGMENTS) /\ segments # <<>>
    BY <1>1 DEF LoadInv, ElfInv, ElfTypeOK
  <2>2. Len(segments) \in 1 .. Len(segments)
    BY <2>1, EmptySeq
  <2>3. QED
    BY <2>1, <2>2, ElementOfSeq DEF Segment
<1>5. SegmentsAccepted'
  <2>1. \A a \in Bytes(Segment, n) : In(Segment, a)
    BY <1>4, BytesAreIn
  <2>2. \A a \in written' : a \in written \/ \E i \in 1 .. Len(segments) : In(segments[i], a)
    BY <1>4, <2>1 DEF Segment
  <2>3. QED
    BY <1>1, <2>2, AcceptedFrame DEF LoadInv
<1>6. MapControl' /\ Scanned' /\ MapInv' /\ Neighbours'
  BY <1>1 DEF MapControl, Scanned, MapInv, Neighbours, StackPcs
<1>7. QED
  BY <1>3, <1>5, <1>6 DEF LoadInv

\* get_stack_pointer begins at the head of the list.
LEMMA LoadDoneKeeps ==
  ASSUME LoadInv, Sound, OccupiedHeld, LoadDone, ElfInv'
  PROVE  LoadInv'
<1>1. /\ UNCHANGED <<heap, mem_regions, ret, reported, count, result, segments, written>>
      /\ pc = "done" /\ pc' = "stack" /\ result = "SYSINFO_SUCCESS"
      /\ LoadPhase' /\ ~MapPhase' /\ largest' = mem_regions /\ scan' = mem_regions
  BY DEF LoadDone, InElfLoad, ListUnchanged, sysinfoVars, LoadPhase, MapPhase, StackPcs
<1>2. LoadShape' /\ Held' /\ List' = List
  BY <1>1, ReadyFrame
<1>3. SegmentsAccepted'
  BY <1>1, AcceptedFrame DEF LoadInv
<1>4. ListTypeOK /\ ListTypeOK'
  BY DEF LoadInv, ElfInv, ElfTypeOK
<1>5. mem_regions \in List
  BY DEF Sound, Shape, Line
<1>6. List = Live(heap, mem_regions)
  BY DEF List
<1>7. \A n \in List \ Live(heap, mem_regions) : FALSE
  BY <1>6
<1>8. Scanned'
  BY <1>1, <1>2, <1>5, <1>7 DEF Scanned
<1>9. MapControl' /\ MapInv' /\ Neighbours'
  BY <1>1 DEF MapControl, MapInv, Neighbours, StackPcs, LoadInv
<1>10. QED
  BY <1>2, <1>3, <1>8, <1>9 DEF LoadInv

\* The largest region among those looked at.
LEMMA ScanKeeps ==
  ASSUME LoadInv, ScanRegion, ElfInv'
  PROVE  LoadInv'
<1>1. /\ UNCHANGED <<heap, mem_regions, ret, reported, count, result, segments, written>>
      /\ pc = "stack" /\ pc' = "stack" /\ scan # NULL /\ scan' = heap[scan].next
      /\ largest' = (IF heap[scan].size >= heap[largest].size THEN scan ELSE largest)
  BY DEF ScanRegion, listVars, sysinfoVars, NextOf
<1>2. LoadPhase /\ LoadPhase' /\ ~MapPhase' /\ result = "SYSINFO_SUCCESS"
  BY <1>1 DEF LoadPhase, MapPhase, StackPcs, LoadInv, MapControl
<1>3. Sound /\ OccupiedHeld
  BY <1>1, <1>2 DEF LoadInv, LoadShape, Held
<1>4. LoadShape' /\ Held' /\ List' = List
  BY <1>1, <1>3, ReadyFrame
<1>5. SegmentsAccepted'
  BY <1>1, AcceptedFrame DEF LoadInv
<1>6. /\ ListTypeOK /\ largest \in List /\ scan \in List
      /\ \A n \in List \ Live(heap, scan) : heap[n].size <= heap[largest].size
  BY <1>1 DEF LoadInv, ElfInv, ElfTypeOK, Scanned
<1>7. /\ scan \in 1 .. Len(heap) /\ heap[scan].next \in 0 .. Len(heap)
      /\ heap[scan].next # NULL => heap[scan].next \in List
      /\ \A n \in List : heap[n].size \in Nat
  BY <1>6, ListNumbers
<1>8. Live(heap, scan) = {scan} \cup Live(heap, heap[scan].next)
  BY <1>6, <1>7, ListNumbers, LiveCons
<1>9. largest' \in List /\ scan' \in List \cup {NULL}
  BY <1>1, <1>6, <1>7
<1>10. ASSUME NEW n \in List \ Live(heap, heap[scan].next)
       PROVE  heap[n].size <= heap[largest'].size
  <2>1. n = scan \/ heap[n].size <= heap[largest].size
    BY <1>6, <1>8
  <2>2. heap[n].size \in Nat /\ heap[scan].size \in Nat /\ heap[largest].size \in Nat
    BY <1>6, <1>7
  <2>3. QED
    BY <1>1, <2>1, <2>2
<1>11. Scanned'
  BY <1>1, <1>4, <1>9, <1>10 DEF Scanned
<1>12. MapControl' /\ MapInv' /\ Neighbours'
  BY <1>1, <1>2 DEF MapControl, MapInv, Neighbours, StackPcs
<1>13. QED
  BY <1>4, <1>5, <1>11, <1>12 DEF LoadInv

\* The jump, or the message that there is no space.
LEMMA JumpKeeps ==
  ASSUME LoadInv, Transfer \/ NoSpaceForStack, ElfInv'
  PROVE  LoadInv'
<1>1. /\ UNCHANGED <<heap, mem_regions, ret, reported, count, result, segments, written, largest>>
      /\ pc = "stack" /\ pc' \in {"running", "no_stack"} /\ scan = NULL
      /\ pc' = "running" =>
           HasSpace /\ stack_pointer' = (StackBottom(heap[largest]) + STACK_RESERVE) % PTR_MOD
  BY DEF Transfer, NoSpaceForStack, ListUnchanged, sysinfoVars, elfVars
<1>2. LoadPhase /\ LoadPhase' /\ ~MapPhase' /\ result = "SYSINFO_SUCCESS"
  BY <1>1 DEF LoadPhase, MapPhase, StackPcs, LoadInv, MapControl
<1>3. Sound /\ OccupiedHeld
  BY <1>1, <1>2 DEF LoadInv, LoadShape, Held
<1>4. LoadShape' /\ Held' /\ List' = List
  BY <1>1, <1>3, ReadyFrame
<1>5. SegmentsAccepted'
  BY <1>1, AcceptedFrame DEF LoadInv
<1>6. /\ ListTypeOK /\ largest \in List
      /\ \A n \in List \ Live(heap, scan) : heap[n].size <= heap[largest].size
  BY <1>1 DEF LoadInv, ElfInv, ElfTypeOK, Scanned
<1>7. Live(heap, NULL) \subseteq {}
  <2>1. HeapOK(heap) /\ NULL \in 0 .. Len(heap)
    BY <1>6, ListNumbers DEF NULL
  <2>2. Closed(heap, {})
    BY DEF Closed
  <2>3. QED
    BY <2>1, <2>2, LiveLeast
<1>8. \A n \in List : heap[n].size <= heap[largest].size
  BY <1>1, <1>6, <1>7
<1>9. HasSpace => HasSpace'
  BY <1>1 DEF HasSpace
<1>10. Scanned'
  BY <1>1, <1>4, <1>6, <1>8, <1>9 DEF Scanned
<1>11. MapControl' /\ MapInv' /\ Neighbours'
  BY <1>1, <1>2 DEF MapControl, MapInv, Neighbours, StackPcs
<1>12. QED
  BY <1>4, <1>5, <1>10, <1>11 DEF LoadInv

\* A header cannot be read, or its segment is rejected: elf_load returns.
LEMMA LoadFailsKeeps ==
  ASSUME LoadInv, OrderedMap, Sound, OccupiedHeld, InElfLoad, pc' = pc,
         UNCHANGED <<listVars, sysinfoVars, segments, written>>, ElfUnchanged, ElfInv'
  PROVE  LoadInv'
<1>1. /\ UNCHANGED <<heap, mem_regions, ret, reported, count, result, segments, written>>
      /\ UNCHANGED vars /\ pc = "done" /\ result = "SYSINFO_SUCCESS"
  BY DEF listVars, sysinfoVars, vars, InElfLoad
<1>2. LoadShape' /\ Held'
  BY <1>1, ReadyFrame
<1>3. SegmentsAccepted'
  BY <1>1, AcceptedFrame DEF LoadInv
<1>4. MapPhase' = MapPhase /\ LoadPhase' = LoadPhase
  BY <1>1 DEF MapPhase, LoadPhase
<1>5. MapInv' /\ Neighbours'
  <2>1. CASE MapPhase
    <3>1. UsableApart(heap, List, {}) /\ SysInfoTypeOK /\ OrderedInv /\ ContentsInv
      BY <1>1, <2>1 DEF LoadInv, Neighbours, MapInv
    <3>2. QED
      BY <1>1, <3>1, MapFrame
  <2>2. CASE ~MapPhase
    BY <1>4, <2>2 DEF MapInv, Neighbours
  <2>3. QED
    BY <2>1, <2>2
<1>6. MapControl' /\ Scanned'
  BY <1>1, <1>4 DEF LoadInv, MapControl, Scanned, StackPcs
<1>7. QED
  BY <1>2, <1>3, <1>5, <1>6 DEF LoadInv

\* static_alloc is full: the machine stops.
LEMMA PanicKeeps ==
  ASSUME LoadInv, pc' = "panic", ElfInv', UNCHANGED <<segments, written, result>>,
         reported' = reported, count' = count, ret' = ret
  PROVE  LoadInv'
<1>1. ~LoadPhase' /\ ~MapPhase'
  BY DEF LoadPhase, MapPhase
<1>2. SegmentsAccepted'
  BY AcceptedFrame DEF LoadInv
<1>3. LoadShape' /\ Held' /\ MapInv' /\ Neighbours'
  BY <1>1 DEF LoadShape, Held, MapInv, Neighbours
<1>4. MapControl'
  BY <1>1 DEF LoadInv, MapControl, StackPcs
<1>5. Scanned'
  BY DEF Scanned
<1>6. QED
  BY <1>2, <1>3, <1>4, <1>5 DEF LoadInv

\* The list get_sysinfo hands to elf_load: a chain of regions that border each other, no
\* two neighbours of it usable, in which every inserted address has a node of its type.
LEMMA MapIsReady ==
  ASSUME LoadInv, MapPhase, pc = "done", result = "SYSINFO_SUCCESS"
  PROVE  Sound /\ OccupiedHeld
<1>1. /\ SysInfoTypeOK /\ Complete /\ Kept /\ UsableApart(heap, List, {})
      /\ ret = "rsdp" /\ segments = <<>>
  BY DEF LoadInv, MapInv, OrderedInv, ContentsInv, Neighbours, MapControl
<1>2. /\ Chain(heap, mem_regions, List) /\ Contiguous(heap, List)
      /\ LowHead(heap, mem_regions) /\ mem_regions # NULL
  BY <1>1 DEF Complete, LowHead
<1>3. /\ List \subseteq 1 .. Len(heap)
      /\ \A n \in 1 .. Len(heap) : heap[n].base_addr \in Nat /\ heap[n].size \in Nat
      /\ \A n \in List : heap[n].next # NULL => heap[n].next \in List
  BY <1>1, Nodes
<1>4. /\ mem_regions \in List
      /\ \A n \in List : Whole(heap, n)
      /\ \A n \in List : heap[n].next # NULL => End(heap, n) = heap[heap[n].next].base_addr
  BY <1>2 DEF Chain, Contiguous
<1>5. \A n \in List : heap[n].next # mem_regions
  <2>1. SUFFICES ASSUME NEW n \in List, heap[n].next = mem_regions PROVE FALSE
    OBVIOUS
  <2>2. End(heap, n) = 0
    BY <1>2, <1>4, <2>1 DEF LowHead
  <2>3. heap[n].size > 0 /\ heap[n].size \in Nat /\ heap[n].base_addr \in Nat
    BY <1>3, <1>4 DEF Whole
  <2>4. QED
    BY <2>2, <2>3 DEF End
<1>6. ASSUME NEW m \in List, NEW n \in List, heap[m].next = heap[n].next PROVE m = n
  <2>1. \A x \in List : heap[x].base_addr \in Nat /\ heap[x].size \in Nat
    BY <1>3
  <2>2. QED
    BY <1>2, <1>6, <2>1, NextInjective
<1>7. Line(heap, mem_regions, List)
  BY <1>3, <1>4, <1>5, <1>6 DEF Line, Closed
<1>8. Shape(heap, mem_regions, List)
  BY <1>2, <1>4, <1>7 DEF Shape, Sized, Whole
<1>9. EdgesBut(heap, List, {})
  <2>1. SUFFICES ASSUME NEW n \in List, heap[n].next # NULL PROVE Edge(heap, n, heap[n].next)
    BY DEF EdgesBut
  <2>2. End(heap, n) = heap[heap[n].next].base_addr /\ End(heap, n) \in Nat
    BY <1>1, <1>3, <1>4, <2>1, Nodes
  <2>3. Free(heap, n) => ~Free(heap, heap[n].next)
    BY <1>1, <2>1 DEF UsableApart
  <2>4. QED
    BY <2>2, <2>3 DEF Edge
<1>10. OccupiedHeld
  <2>1. SUFFICES ASSUME NEW a \in Addresses, NEW t \in MemTypes, Occupied(a, t)
                 PROVE  HeldAt(heap, List, a, t)
    BY DEF OccupiedHeld
  <2>2. ListedSegments = 0
    BY <1>1 DEF ListedSegments
  <2>3. PICK k \in 1 .. count : /\ Covers(reported[k], a) /\ a >= REAL_MODE_LIMIT
                                /\ ~Usable(k) /\ t = convert_type(reported[k].type)
    BY <2>1, <2>2 DEF Occupied
  <2>4. Linked = count /\ pc # "panic"
    BY DEF Linked
  <2>5. KeptAt(k)
    BY <1>1, <2>4 DEF Kept
  <2>6. Listed(a, convert_type(reported[k].type))
    BY <2>3, <2>5 DEF KeptAt
  <2>7. QED
    BY <2>3, <2>6 DEF Listed, Usable, HeldAt, Free
<1>11. QED
  BY <1>8, <1>9, <1>10 DEF Sound

\* Whenever elf_load looks at the list, for the first segment or a later one.
LEMMA ElfLoadIsReady ==
  ASSUME LoadInv, InElfLoad
  PROVE  /\ Sound /\ OccupiedHeld /\ pc = "done" /\ result = "SYSINFO_SUCCESS"
         /\ ListTypeOK /\ SegmentsAccepted /\ segments \in Seq(SEGMENTS)
<1>1. pc = "done" /\ result = "SYSINFO_SUCCESS"
  BY DEF InElfLoad
<1>2. Sound /\ OccupiedHeld
  <2>1. CASE LoadPhase
    BY <1>1, <2>1 DEF LoadInv, LoadShape, Held
  <2>2. CASE ~LoadPhase
    BY <1>1, <2>2, MapIsReady DEF MapPhase
  <2>3. QED
    BY <2>1, <2>2
<1>3. QED
  BY <1>1, <1>2 DEF LoadInv, ElfInv, ElfTypeOK

\* A step of elf_load or of get_stack_pointer.
LEMMA ElfNextLoad ==
  ASSUME LoadInv, OrderedMap, SegmentsFit, ElfNext
  PROVE  LoadInv'
<1>1. ElfInv' /\ ListTypeOK'
  BY ElfNextInv DEF LoadInv, ElfInv, ElfTypeOK
<1>2. ASSUME NEW s \in SEGMENTS, AcceptSegment(s)
      PROVE  LoadInv'
  <2>1. /\ InElfLoad /\ reported' = reported /\ count' = count /\ result' = result
    BY <1>2 DEF AcceptSegment, sysinfoVars
  <2>2. /\ Sound /\ OccupiedHeld /\ pc = "done" /\ result = "SYSINFO_SUCCESS"
        /\ ListTypeOK /\ SegmentsAccepted /\ segments \in Seq(SEGMENTS)
    BY <2>1, ElfLoadIsReady
  <2>3. pc' = "walk" /\ ret' = "load" /\ WalkingElf'
    BY <1>1, <1>2, <2>2, ElfCalled
  <2>4. OccupiedHeld' /\ SegmentsAccepted'
    BY <1>1, <1>2, <2>2, ElfAccepted DEF LoadInv
  <2>5. LoadPhase' /\ ~MapPhase'
    BY <2>3 DEF LoadPhase, MapPhase
  <2>6. LoadShape' /\ Held'
    BY <2>3, <2>4 DEF LoadShape, Held
  <2>7. MapInv' /\ Neighbours' /\ MapControl' /\ Scanned'
    BY <2>1, <2>2, <2>3, <2>5 DEF MapInv, Neighbours, MapControl, Scanned
  <2>8. QED
    BY <1>1, <2>4, <2>6, <2>7 DEF LoadInv
<1>3. ASSUME NEW s \in SEGMENTS, AcceptSegmentPanic(s)
      PROVE  LoadInv'
  BY <1>1, <1>3, PanicKeeps DEF AcceptSegmentPanic, AllocPanic, sysinfoVars, elfVars
<1>4. ASSUME \/ \E s \in SEGMENTS : RejectSegment(s)
             \/ ReadHeaderFails
      PROVE  LoadInv'
  <2>1. /\ InElfLoad /\ ElfUnchanged /\ pc' = pc
        /\ UNCHANGED <<listVars, sysinfoVars, segments, written>>
    BY <1>4 DEF RejectSegment, ReadHeaderFails, listVars
  <2>2. QED
    BY <1>1, <2>1, ElfLoadIsReady, LoadFailsKeeps
<1>5. pc = "load" => /\ Segment.p_memsz \in Nat /\ Segment.p_filesz \in Nat
                     /\ Segment.p_filesz <= Segment.p_memsz
  <2>1. SUFFICES ASSUME pc = "load" PROVE Segment \in SEGMENTS
    BY SegmentNumbers
  <2>2. segments \in Seq(SEGMENTS) /\ segments # <<>>
    BY <2>1 DEF LoadInv, ElfInv, ElfTypeOK
  <2>3. Len(segments) \in 1 .. Len(segments)
    BY <2>2, EmptySeq
  <2>4. QED
    BY <2>2, <2>3, ElementOfSeq DEF Segment
<1>6. CASE ReadSegment
  <2> DEFINE n == IF Segment.p_memsz > Segment.p_filesz THEN Segment.p_memsz ELSE Segment.p_filesz
  <2>1. /\ pc = "load" /\ pc' = "done" /\ ListUnchanged /\ ElfUnchanged
        /\ UNCHANGED <<sysinfoVars, segments>> /\ written' = written \cup Bytes(Segment, n)
    BY <1>6 DEF ReadSegment
  <2>2. n \in Nat /\ n <= Segment.p_memsz
    BY <1>5, <2>1
  <2> HIDE DEF n
  <2>3. QED
    BY <1>1, <2>1, <2>2, ReadKeeps
<1>7. CASE ReadSegmentFails
  <2>1. /\ pc = "load" /\ pc' = "done" /\ ListUnchanged /\ ElfUnchanged
        /\ UNCHANGED <<sysinfoVars, segments>>
    BY <1>7 DEF ReadSegmentFails
  <2>2. PICK n \in 0 .. Segment.p_filesz : written' = written \cup Bytes(Segment, n)
    BY <1>7 DEF ReadSegmentFails
  <2>3. n \in Nat /\ n <= Segment.p_memsz
    BY <1>5, <2>1
  <2>4. QED
    BY <1>1, <2>1, <2>2, <2>3, ReadKeeps
<1>8. CASE LoadDone
  <2>1. InElfLoad
    BY <1>8 DEF LoadDone
  <2>2. Sound /\ OccupiedHeld
    BY <2>1, ElfLoadIsReady
  <2>3. QED
    BY <1>1, <1>8, <2>2, LoadDoneKeeps
<1>9. CASE ScanRegion
  BY <1>1, <1>9, ScanKeeps
<1>10. CASE Transfer \/ NoSpaceForStack
  BY <1>1, <1>10, JumpKeeps
<1>11. QED
  BY <1>2, <1>3, <1>4, <1>6, <1>7, <1>8, <1>9, <1>10 DEF ElfNext

-----------------------------------------------------------------------------
(* insert_sorted, called by elf_load *)

\* What is occupied stays held, when the list keeps what it holds and a segment that is
\* listed from now on is held.
LEMMA HeldStep ==
  ASSUME ElfInv, OccupiedHeld, KeepsHeld, UNCHANGED <<reported, count, segments>>,
         ret = "load",
         \/ ListedSegments' = ListedSegments
         \/ /\ pc = "walk" /\ pc' # "walk" /\ ret' = ret
            /\ \A a \in Nat : In(Segment, a) => HeldAt(heap', List', a, SYSINFO_MT_ELF_EXECUTABLE)
  PROVE  OccupiedHeld'
<1>1. Len(segments) \in Nat
  BY HistoryNumbers
<1>2. SUFFICES ASSUME NEW a \in Addresses, NEW t \in MemTypes, Occupied(a, t)'
               PROVE  HeldAt(heap', List', a, t)
  BY DEF OccupiedHeld
<1>3. a \in Nat
  BY AddrModAssumption DEF Addresses
<1>4. Occupied(a, t) => HeldAt(heap', List', a, t)
  BY <1>3 DEF OccupiedHeld, KeepsHeld
<1>5. CASE \E k \in 1 .. count : /\ Covers(reported[k], a) /\ a >= REAL_MODE_LIMIT
                                /\ ~Usable(k) /\ t = convert_type(reported[k].type)
  BY <1>4, <1>5 DEF Occupied
<1>6. CASE /\ \E i \in 1 .. ListedSegments' : In(segments[i], a)
           /\ t = SYSINFO_MT_ELF_EXECUTABLE
  <2>1. PICK i \in 1 .. ListedSegments' : In(segments[i], a)
    BY <1>6
  <2>2. CASE ListedSegments' = ListedSegments
    BY <1>4, <1>6, <2>1, <2>2 DEF Occupied
  <2>3. CASE /\ pc = "walk" /\ pc' # "walk"
             /\ \A b \in Nat : In(Segment, b) => HeldAt(heap', List', b, SYSINFO_MT_ELF_EXECUTABLE)
    <3>1. ListedSegments = Len(segments) - 1 /\ ListedSegments' = Len(segments)
      BY <2>3 DEF ListedSegments
    <3>2. CASE i = Len(segments)
      BY <1>3, <1>6, <2>1, <2>3, <3>2 DEF Segment
    <3>3. CASE i # Len(segments)
      <4>1. i \in 1 .. ListedSegments
        BY <1>1, <2>1, <3>1, <3>3
      <4>2. QED
        BY <1>4, <1>6, <2>1, <4>1 DEF Occupied
    <3>4. QED
      BY <3>2, <3>3
  <2>4. QED
    BY <2>2, <2>3
<1>7. Usable(0)' = Usable(0) /\ \A k \in 1 .. count : Usable(k)' = Usable(k)
  BY DEF Usable
<1>8. QED
  BY <1>2, <1>5, <1>6, <1>7 DEF Occupied

\* A segment never comes before the reserved low memory, and the list is never empty.
LEMMA ElfNeverFirst ==
  ASSUME ListTypeOK, WalkingElf
  PROVE  ~LinkFirst /\ ~LinkHead
<1>1. /\ LowHead(heap, mem_regions) /\ ElfNode
      /\ prev = NULL => current = mem_regions
  BY DEF WalkingElf, Sound, Shape
<1>2. ~LinkFirst
  BY <1>1 DEF LinkFirst, LowHead
<1>3. ASSUME LinkHead PROVE FALSE
  <2>1. current = mem_regions /\ ~BeforeNew
    BY <1>1, <1>3 DEF LinkHead
  <2>2. ~(heap[mem_regions].base_addr < heap[new_region].base_addr)
    BY <1>1, <2>1 DEF BeforeNew, LowHead
  <2>3. QED
    BY <1>1, <2>2 DEF LowHead, ElfNode
<1>4. QED
  BY <1>2, <1>3

\* A step of insert_sorted for elf_load.
LEMMA ListStepLoad ==
  ASSUME LoadInv, LoadPhase, ListStep, UNCHANGED elfVars, ElfInv'
  PROVE  LoadInv'
<1>1. /\ InsertSorted /\ UNCHANGED <<reported, count, result, segments, written>>
      /\ UNCHANGED <<elf_result, largest, scan, stack_pointer>>
  BY DEF ListStep, sysinfoVars, elfVars
<1>2. ListTypeOK /\ ListTypeOK'
  BY DEF LoadInv, ElfInv, ElfTypeOK
<1>3. pc \in {"walk", "fix"} /\ ret' = ret
  BY <1>1 DEF InsertSorted, Walk, LinkFirst, LinkHead, LinkAfter, FixRight, DropNext,
         TrimNext, CutThis, SplitThis, SplitPanic, MergeRight, ExtendReserved, PadGap, PadPanic,
         NoPadding, LoopOver, Overlapping, FixUnchanged, Return, AllocPanic
<1>4. ret = "load" /\ result = "SYSINFO_SUCCESS" /\ OccupiedHeld
  BY <1>3 DEF LoadPhase, StackPcs, LoadInv, MapControl, Held
<1>5. SegmentsAccepted'
  BY <1>1, AcceptedFrame DEF LoadInv
<1>6. ASSUME pc' \in {"walk", "fix", "load"},
             IF pc' = "walk" THEN WalkingElf' ELSE IF pc' = "fix" THEN RepairingElf' ELSE Sound',
             OccupiedHeld'
      PROVE  LoadInv'
  <2>1. LoadPhase' /\ ~MapPhase'
    BY <1>3, <1>4, <1>6 DEF LoadPhase, MapPhase
  <2>2. LoadShape' /\ Held'
    BY <1>6 DEF LoadShape, Held
  <2>3. MapControl'
    BY <1>1, <1>3, <1>4, <1>6, <2>1 DEF MapControl
  <2>4. Scanned' /\ MapInv' /\ Neighbours'
    BY <1>6, <2>1 DEF MapInv, Neighbours, Scanned
  <2>5. QED
    BY <1>5, <2>2, <2>3, <2>4 DEF LoadInv
<1>7. CASE pc' = "panic"
  BY <1>1, <1>3, <1>7, PanicKeeps
<1>8. CASE pc = "walk"
  <2>1. WalkingElf
    BY <1>8 DEF LoadInv, LoadShape
  <2>2. CASE Walk
    <3>1. WalkingElf' /\ List' = List /\ pc' = "walk" /\ heap' = heap
      BY <1>1, <1>2, <1>8, <2>1, <2>2, ElfWalk
    <3>2. KeepsHeld /\ ListedSegments' = ListedSegments
      BY <1>1, <1>3, <1>8, <3>1 DEF KeepsHeld, ListedSegments
    <3>3. OccupiedHeld'
      BY <1>1, <1>4, <3>2, HeldStep DEF LoadInv
    <3>4. QED
      BY <1>6, <3>1, <3>3
  <2>3. CASE LinkAfter
    <3>1. /\ pc' = "fix" /\ RepairingElf' /\ KeepsHeld
          /\ \A a \in Nat : In(Segment, a) => HeldAt(heap', List', a, SYSINFO_MT_ELF_EXECUTABLE)
      BY <1>2, <2>1, <2>3, ElfLink
    <3>2. OccupiedHeld'
      BY <1>1, <1>3, <1>4, <1>8, <3>1, HeldStep DEF LoadInv
    <3>3. QED
      BY <1>6, <3>1, <3>2
  <2>4. QED
    BY <1>1, <1>2, <1>8, <2>1, <2>2, <2>3, ElfNeverFirst
    DEF InsertSorted, FixRight, DropNext, TrimNext, CutThis, SplitThis, SplitPanic, MergeRight,
        ExtendReserved, PadGap, PadPanic, NoPadding, LoopOver, Overlapping
<1>9. CASE pc = "fix" /\ pc' # "panic"
  <2>1. RepairingElf
    BY <1>9 DEF LoadInv, LoadShape
  <2>2. FixRight
    BY <1>1, <1>9 DEF InsertSorted, Walk, LinkFirst, LinkHead, LinkAfter
  <2>3. Mended /\ KeepsHeld
    BY <1>2, <1>9, <2>1, <2>2, ElfFix
  <2>4. ListedSegments' = ListedSegments
    BY <1>1, <1>4, <1>9, <2>3 DEF ListedSegments, Mended
  <2>5. OccupiedHeld'
    BY <1>1, <1>4, <2>3, <2>4, HeldStep DEF LoadInv
  <2>6. QED
    BY <1>4, <1>6, <2>3, <2>5 DEF Mended
<1>10. QED
  BY <1>3, <1>7, <1>8, <1>9

\* get_sysinfo itself does nothing any more.
LEMMA SysInfoNextLoad ==
  ASSUME LoadInv, LoadPhase, SysInfoNext, UNCHANGED elfVars
  PROVE  LoadInv'
<1>1. ElfInv'
  BY SysInfoNextInv DEF LoadInv
<1>2. pc \notin {"e820", "rsdp"}
  BY DEF LoadPhase, StackPcs, LoadInv, MapControl
<1>3. ListStep
  BY <1>2 DEF SysInfoNext, NextRegion, NextRegionPanic, LastRegion, NoMoreRegions, SearchRsdp
<1>4. QED
  BY <1>1, <1>3, ListStepLoad

-----------------------------------------------------------------------------
(* Two usable regions are never neighbours in the list get_sysinfo builds *)

\* the node whose edge is being repaired
Unrepaired == IF pc = "fix" /\ ret = "e820" THEN {prev} ELSE {}

Apart == UsableApart(heap, List, Unrepaired)

\* Types and pointers stay: so do the neighbours.
LEMMA ApartFrame ==
  ASSUME SysInfoTypeOK, NEW X, UsableApart(heap, List, X), List' = List,
         \A n \in List : heap'[n].type = heap[n].type /\ heap'[n].next = heap[n].next,
         Unrepaired' = X
  PROVE  Apart'
<1>1. SUFFICES ASSUME NEW n \in List, n \notin X, heap'[n].next # NULL, Free(heap', n)
               PROVE  ~Free(heap', heap'[n].next)
  BY DEF Apart, UsableApart
<1>2. heap'[n].next = heap[n].next /\ heap[n].next \in List /\ Free(heap, n)
  BY <1>1, Nodes DEF Free
<1>3. ~Free(heap, heap[n].next)
  BY <1>1, <1>2 DEF UsableApart
<1>4. QED
  BY <1>2, <1>3 DEF Free

\* A repair of one node's edge: no other pointer and no type changes, and what is added to
\* the list is not usable.
LEMMA ApartRepair ==
  ASSUME SysInfoTypeOK, UsableApart(heap, List, {this_region}), Unrepaired' = {},
         \A n \in List' : n \in List \/ ~Free(heap', n),
         \A m \in 1 .. Len(heap) : /\ heap'[m].type = heap[m].type
                                   /\ m # this_region => heap'[m].next = heap[m].next,
         \/ ~Free(heap', this_region)
         \/ heap'[this_region].next = NULL
         \/ ~Free(heap', heap'[this_region].next)
  PROVE  Apart'
<1>1. SUFFICES ASSUME NEW n \in List', heap'[n].next # NULL, Free(heap', n), n # this_region
               PROVE  ~Free(heap', heap'[n].next)
  BY DEF Apart, UsableApart
<1>2. n \in List /\ n \in 1 .. Len(heap)
  BY <1>1, Nodes
<1>3. heap'[n].next = heap[n].next /\ Free(heap, n)
  BY <1>1, <1>2 DEF Free
<1>4. heap[n].next \in 1 .. Len(heap)
  BY <1>1, <1>2, <1>3, Nodes
<1>5. ~Free(heap, heap[n].next)
  BY <1>1, <1>2, <1>3 DEF UsableApart
<1>6. QED
  BY <1>3, <1>4, <1>5 DEF Free

\* Where the new region is linked.
LEMMA ApartLink ==
  ASSUME SysInfoTypeOK, SysInfoTypeOK', OrderedInv, UNCHANGED sysinfoVars, Apart,
         LinkFirst \/ LinkHead \/ LinkAfter
  PROVE  Apart'
<1>1. pc = "walk" /\ ret' = ret /\ prev' = prev /\ ListTypeOK /\ ret \in {"e820", "rsdp"}
  BY DEF LinkFirst, LinkHead, LinkAfter, SysInfoTypeOK
<1>2. UsableApart(heap, List, {})
  BY <1>1 DEF Apart, Unrepaired
<1>3. CASE LinkFirst
  <2>1. List' = {new_region} /\ pc' = ret
    BY <1>3, LinkFirstOrdered DEF LinkFirst
  <2>2. new_region \in 1 .. Len(heap)
    BY <1>1 DEF ListTypeOK, HeapOK, Pointers, NULL
  <2>3. heap' = SetNextOf(heap, new_region, NULL) /\ heap \in Seq(Regions)
    BY <1>1, <1>3, ListNodes DEF LinkFirst, SetNextOf
  <2>4. heap'[new_region].next = NULL
    BY <2>2, <2>3, SetNextOfWrites DEF NULL
  <2>5. QED
    BY <2>1, <2>4 DEF Apart, UsableApart
<1>4. CASE LinkHead
  <2>1. /\ ret = "rsdp" /\ List' = List \cup {new_region}
        /\ heap'[new_region].type = SYSINFO_MT_RESERVED
        /\ \A n \in List : heap'[n] = heap[n]
    BY <1>4, LinkHeadOrdered
  <2>2. Unrepaired' = {}
    BY <1>1, <2>1 DEF Unrepaired
  <2>3. ~Free(heap', new_region)
    BY <2>1 DEF Free, SYSINFO_MT_RESERVED, SYSINFO_MT_USABLE
  <2>4. SUFFICES ASSUME NEW n \in List, heap'[n].next # NULL, Free(heap', n)
                 PROVE  ~Free(heap', heap'[n].next)
    BY <2>1, <2>2, <2>3 DEF Apart, UsableApart
  <2>5. heap'[n] = heap[n] /\ heap[n].next \in List
    BY <2>1, <2>4, Nodes
  <2>6. ~Free(heap, heap[n].next)
    BY <1>2, <2>4, <2>5 DEF UsableApart, Free
  <2>7. QED
    BY <2>1, <2>5, <2>6 DEF Free
<1>5. CASE LinkAfter
  <2>1. ret = "e820" /\ List' = List \cup {new_region}
    BY <1>5, LinkAfterOrdered
  <2>2. pc' = "fix" /\ prev # NULL /\ ~BeforeNew
    BY <1>5 DEF LinkAfter, EnterFix
  <2>3. current = NULL /\ new_region \in 1 .. Len(heap) /\ new_region \notin List
    BY <1>1, <2>1, <2>2, NewIsLast
  <2>4. prev \in List /\ prev \in 1 .. Len(heap) /\ prev # new_region
    BY <1>1, <2>1, <2>2, <2>3, Nodes DEF OrderedInv, Walking
  <2>5. \A m \in 1 .. Len(heap) :
            /\ Same(heap, heap', m)
            /\ heap'[m].next = IF m = prev THEN new_region
                               ELSE IF m = new_region THEN current ELSE heap[m].next
    BY <1>1, <1>5, <2>3, <2>4, LinkWrites
  <2>6. Unrepaired' = {prev}
    BY <1>1, <2>1, <2>2 DEF Unrepaired
  <2>7. SUFFICES ASSUME NEW n \in List', n # prev, heap'[n].next # NULL, Free(heap', n)
                 PROVE  ~Free(heap', heap'[n].next)
    BY <2>6 DEF Apart, UsableApart
  <2>8. n # new_region
    BY <2>3, <2>4, <2>5, <2>7
  <2>9. n \in List /\ n \in 1 .. Len(heap)
    BY <2>1, <2>7, <2>8, Nodes
  <2>10. heap'[n].next = heap[n].next /\ Free(heap, n)
    BY <2>5, <2>7, <2>8, <2>9 DEF Free, Same
  <2>11. heap[n].next \in 1 .. Len(heap) /\ ~Free(heap, heap[n].next)
    BY <1>2, <2>7, <2>9, <2>10, Nodes DEF UsableApart
  <2>12. QED
    BY <2>5, <2>10, <2>11 DEF Free, Same
<1>6. QED
  BY <1>3, <1>4, <1>5

\* What a repair leaves of the node it is about, of a map in order.
LEMMA ApartFirst ==
  ASSUME SysInfoTypeOK, SysInfoTypeOK', OrderedInv, UNCHANGED sysinfoVars, Apart,
         pc = "fix", ret = "e820", this_region # prev,
         MergeRight \/ ExtendReserved \/ PadGap \/ NoPadding
  PROVE  Apart'
<1>1. List' = List /\ heap' = heap
  BY FirstRepair
<1>2. pending = prev /\ prev # NULL
  BY Nodes, RepairPlace DEF OrderedInv, Repairing, NULL
<1>3. pc' = "fix" /\ prev' = prev /\ ret' = ret
  BY <1>2 DEF MergeRight, ExtendReserved, PadGap, NoPadding, Return, EnterFix, FixUnchanged
<1>4. Unrepaired' = Unrepaired
  BY <1>3 DEF Unrepaired
<1>5. QED
  BY <1>1, <1>4, ApartFrame DEF Apart

LEMMA ApartLast ==
  ASSUME SysInfoTypeOK, SysInfoTypeOK', OrderedInv, UNCHANGED sysinfoVars, Apart,
         pc = "fix", ret = "e820", this_region = prev,
         MergeRight \/ ExtendReserved \/ PadGap \/ NoPadding
  PROVE  Apart'
<1>1. /\ next_region = new_region /\ heap[prev].next = new_region
      /\ heap[new_region].next = NULL /\ pending = NULL
      /\ prev \in List /\ new_region \in List /\ prev # new_region
  BY LastRepairPlace
<1>2. /\ Len(heap) \in Nat /\ this_region \in 1 .. Len(heap) /\ next_region \in 1 .. Len(heap)
      /\ List \subseteq 1 .. Len(heap) /\ ListTypeOK /\ next_region # NULL
  BY <1>1, Nodes DEF SysInfoTypeOK, NULL
<1>3. UsableApart(heap, List, {this_region})
  BY DEF Apart, Unrepaired
<1>4. pc' = "e820" /\ Unrepaired' = {}
  <2>1. pc' = ret
    BY <1>1 DEF MergeRight, ExtendReserved, PadGap, NoPadding, Return
  <2>2. QED
    BY <2>1 DEF Unrepaired
<1>5. CASE MergeRight
  <2>1. List' = List \ {new_region}
    BY <1>5, LastMergeOrdered
  <2>2. \A m \in 1 .. Len(heap) :
           /\ heap'[m].type = heap[m].type
           /\ heap'[m].next = IF m = this_region THEN heap[next_region].next ELSE heap[m].next
    BY <1>2, <1>5, MergeWrites
  <2>3. QED
    BY <1>1, <1>2, <1>3, <1>4, <2>1, <2>2, ApartRepair
<1>6. CASE ExtendReserved
  <2>1. List' = List /\ heap[new_region].type = SYSINFO_MT_RESERVED
    BY <1>6, LastExtendOrdered
  <2>2. \A m \in 1 .. Len(heap) : heap'[m].type = heap[m].type /\ heap'[m].next = heap[m].next
    BY <1>2, <1>6, ExtendWrites
  <2>3. ~Free(heap', heap'[this_region].next)
    BY <1>1, <1>2, <2>1, <2>2 DEF Free, SYSINFO_MT_RESERVED, SYSINFO_MT_USABLE
  <2>4. QED
    BY <1>2, <1>3, <1>4, <2>1, <2>2, <2>3, ApartRepair
<1>7. CASE PadGap
  <2> DEFINE q == Len(heap) + 1
  <2>1. List' = List \cup {q} /\ heap'[q].type = SYSINFO_MT_RESERVED
    BY <1>7, LastPadOrdered
  <2>2. \A m \in 1 .. Len(heap) :
           /\ heap'[m].type = heap[m].type
           /\ heap'[m].next = IF m = this_region THEN q ELSE heap[m].next
    BY <1>2, <1>7, PadWrites
  <2>3. ~Free(heap', q) /\ heap'[this_region].next = q
    BY <1>2, <2>1, <2>2 DEF Free, SYSINFO_MT_RESERVED, SYSINFO_MT_USABLE
  <2> HIDE DEF q
  <2>4. QED
    BY <1>2, <1>3, <1>4, <2>1, <2>2, <2>3, ApartRepair
<1>8. CASE NoPadding
  <2>1. List' = List /\ heap' = heap
    BY <1>8, LastNoPaddingOrdered
  <2>2. heap[this_region].type # heap[next_region].type
    BY <1>2, <1>8 DEF NoPadding, SameType
  <2>3. ~Free(heap', this_region) \/ ~Free(heap', heap'[this_region].next)
    BY <1>1, <2>1, <2>2 DEF Free
  <2>4. QED
    BY <1>2, <1>3, <1>4, <2>1, <2>3, ApartRepair
<1>9. QED
  BY <1>5, <1>6, <1>7, <1>8

LEMMA ApartLow ==
  ASSUME SysInfoTypeOK, SysInfoTypeOK', OrderedInv, UNCHANGED sysinfoVars, Apart,
         pc = "fix", ret = "rsdp",
         DropNext \/ TrimNext \/ MergeRight \/ PadGap \/ NoPadding
  PROVE  Apart'
<1>1. /\ this_region = mem_regions /\ mem_regions \in 1 .. Len(heap)
      /\ heap[mem_regions].type = SYSINFO_MT_RESERVED
      /\ next_region # NULL => next_region \in 1 .. Len(heap)
  BY LowPlace
<1>2. Len(heap) \in Nat /\ ListTypeOK
  BY Nodes DEF SysInfoTypeOK
<1>3. UsableApart(heap, List, {this_region})
  BY DEF Apart, Unrepaired, UsableApart
<1>4. Unrepaired' = {}
  <2>1. ret' = ret
    BY DEF DropNext, TrimNext, MergeRight, PadGap, NoPadding, Return, FixUnchanged
  <2>2. QED
    BY <2>1 DEF Unrepaired
<1>5. ASSUME \A m \in 1 .. Len(heap) : heap'[m].type = heap[m].type
      PROVE  ~Free(heap', this_region)
  BY <1>1, <1>5 DEF Free, SYSINFO_MT_RESERVED, SYSINFO_MT_USABLE
<1>6. CASE DropNext
  <2>1. List' = List \ {next_region}
    BY <1>6, LowDropOrdered
  <2>2. \A m \in 1 .. Len(heap) :
           /\ heap'[m].type = heap[m].type
           /\ heap'[m].next = IF m = this_region THEN heap[next_region].next ELSE heap[m].next
    BY <1>1, <1>2, <1>6, DropWrites DEF DropNext, Overlapping
  <2>3. QED
    BY <1>3, <1>4, <1>5, <2>1, <2>2, ApartRepair
<1>7. CASE TrimNext
  <2>1. List' = List
    BY <1>7, LowTrimOrdered
  <2>2. \A m \in 1 .. Len(heap) : heap'[m].type = heap[m].type /\ heap'[m].next = heap[m].next
    BY <1>1, <1>2, <1>7, TrimWrites DEF TrimNext, Overlapping
  <2>3. QED
    BY <1>3, <1>4, <1>5, <2>1, <2>2, ApartRepair
<1>8. CASE MergeRight
  <2>1. List' = List \ {next_region}
    BY <1>8, LowMergeOrdered
  <2>2. \A m \in 1 .. Len(heap) :
           /\ heap'[m].type = heap[m].type
           /\ heap'[m].next = IF m = this_region THEN heap[next_region].next ELSE heap[m].next
    BY <1>1, <1>2, <1>8, MergeWrites DEF MergeRight
  <2>3. QED
    BY <1>3, <1>4, <1>5, <2>1, <2>2, ApartRepair
<1>9. CASE PadGap
  <2> DEFINE q == Len(heap) + 1
  <2>1. List' = List \cup {q} /\ heap'[q].type = SYSINFO_MT_RESERVED
    BY <1>9, LowPadOrdered
  <2>2. \A m \in 1 .. Len(heap) :
           /\ heap'[m].type = heap[m].type
           /\ heap'[m].next = IF m = this_region THEN q ELSE heap[m].next
    BY <1>1, <1>2, <1>9, PadWrites DEF PadGap, GapRight
  <2>3. ~Free(heap', q)
    BY <2>1 DEF Free, SYSINFO_MT_RESERVED, SYSINFO_MT_USABLE
  <2> HIDE DEF q
  <2>4. QED
    BY <1>3, <1>4, <1>5, <2>1, <2>2, <2>3, ApartRepair
<1>10. CASE NoPadding
  <2>1. List' = List /\ heap' = heap
    BY <1>10, LowNoPaddingOrdered
  <2>2. QED
    BY <1>3, <1>4, <1>5, <2>1, ApartRepair
<1>11. QED
  BY <1>6, <1>7, <1>8, <1>9, <1>10

LEMMA ApartFix ==
  ASSUME SysInfoTypeOK, SysInfoTypeOK', OrderedInv, UNCHANGED sysinfoVars, Apart, FixRight,
         pc' # "panic"
  PROVE  Apart'
<1>1. pc = "fix" /\ ret \in {"e820", "rsdp"}
  BY DEF FixRight, DropNext, TrimNext, CutThis, SplitThis, SplitPanic, MergeRight,
         ExtendReserved, PadGap, PadPanic, NoPadding, Overlapping, LoopOver, SysInfoTypeOK
<1>2. ~PadPanic
  BY DEF PadPanic, AllocPanic
<1>3. CASE ret = "e820"
  <2>1. ~Overlapping
    BY <1>1, <1>3, RepairPlace
  <2>2. MergeRight \/ ExtendReserved \/ PadGap \/ NoPadding
    BY <1>2, <2>1 DEF FixRight, DropNext, TrimNext, CutThis, SplitThis, SplitPanic
  <2>3. QED
    BY <1>1, <1>3, <2>2, ApartFirst, ApartLast
<1>4. CASE ret = "rsdp"
  <2>1. DropNext \/ TrimNext \/ MergeRight \/ PadGap \/ NoPadding
    BY <1>1, <1>2, <1>4, LowNever DEF FixRight
  <2>2. QED
    BY <1>1, <1>4, <2>1, ApartLow
<1>5. QED
  BY <1>1, <1>3, <1>4

\* Every step of get_sysinfo keeps usable regions apart.
LEMMA ApartNext ==
  ASSUME SysInfoTypeOK, SysInfoTypeOK', OrderedMap, OrderedInv, OrderedInv', Apart, SysInfoNext,
         pc' # "panic"
  PROVE  Apart'
<1>1. ASSUME List' = List, \A n \in List : heap'[n] = heap[n], pc # "fix", pc' # "fix"
      PROVE  Apart'
  <2>1. Unrepaired = {} /\ Unrepaired' = {}
    BY <1>1 DEF Unrepaired
  <2>2. \A n \in List : heap'[n].type = heap[n].type /\ heap'[n].next = heap[n].next
    BY <1>1
  <2>3. QED
    BY <1>1, <2>1, <2>2, ApartFrame DEF Apart
<1>2. ASSUME NEW r \in NextReports, NextRegion(r) PROVE Apart'
  <2>1. pc = "e820" /\ pc' # "fix"
    BY <1>2 DEF NextRegion, CallInsert
  <2>2. List' = List /\ \A n \in List : heap'[n] = heap[n]
    BY <1>2, NextRegionOrdered
  <2>3. QED
    BY <1>1, <2>1, <2>2
<1>3. ASSUME NEW r \in NextReports, NextRegionPanic(r) PROVE Apart'
  BY <1>3 DEF NextRegionPanic, AllocPanic
<1>4. ASSUME pc = "e820", AfterLoop, count' = count PROVE Apart'
  <2>1. pc' # "fix" /\ InOrder'
    BY <1>4 DEF AfterLoop, NoRegions, ReserveLow, ReserveLowPanic, CallInsert, AllocPanic,
                OrderedInv
  <2>2. List' = List /\ \A n \in List : heap'[n] = heap[n]
    BY <1>4, <2>1, AfterLoopOrdered
  <2>3. QED
    BY <1>1, <1>4, <2>1, <2>2
<1>5. CASE SearchRsdp
  <2>1. heap' = heap /\ mem_regions' = mem_regions /\ pc # "fix" /\ pc' # "fix"
    BY <1>5 DEF SearchRsdp, ListUnchanged
  <2>2. List' = List
    BY <2>1 DEF List
  <2>3. QED
    BY <1>1, <2>1, <2>2
<1>6. CASE ListStep
  <2>1. UNCHANGED sysinfoVars
    BY <1>6 DEF ListStep
  <2>2. CASE Walk
    <3>1. heap' = heap /\ mem_regions' = mem_regions /\ pc = "walk" /\ pc' = "walk"
      BY <2>2 DEF Walk
    <3>2. List' = List
      BY <3>1 DEF List
    <3>3. QED
      BY <1>1, <3>1, <3>2
  <2>3. CASE LinkFirst \/ LinkHead \/ LinkAfter
    BY <2>1, <2>3, ApartLink
  <2>4. CASE FixRight
    BY <2>1, <2>4, ApartFix
  <2>5. QED
    BY <1>6, <2>2, <2>3, <2>4 DEF ListStep, InsertSorted
<1>7. QED
  BY <1>2, <1>3, <1>4, <1>5, <1>6 DEF SysInfoNext, LastRegion, NoMoreRegions

\* A step of get_sysinfo before elf_load has been called.
LEMMA SysInfoNextMap ==
  ASSUME LoadInv, OrderedMap, MapPhase, SysInfoNext, UNCHANGED elfVars
  PROVE  LoadInv'
<1>1. ElfInv'
  BY SysInfoNextInv DEF LoadInv
<1>2. SysInfoTypeOK /\ OrderedInv /\ ContentsInv /\ Apart
  BY DEF LoadInv, MapInv, Neighbours, Apart, Unrepaired
<1>3. SysInfoTypeOK'
  BY <1>2, NextType
<1>4. OrderedInv'
  BY <1>2, <1>3, NextOrdered
<1>5. ContentsInv'
  BY <1>2, <1>3, <1>4, NextContents
<1>6. MapInv' /\ Neighbours'
  <2>1. MapPhase' => Apart'
    BY <1>2, <1>3, <1>4, ApartNext DEF MapPhase
  <2>2. QED
    BY <1>3, <1>4, <1>5, <2>1 DEF MapInv, Neighbours, Apart, Unrepaired
<1>7. /\ ~LoadPhase' /\ pc' \notin StackPcs \cup {"load"} /\ ret' # "load"
  BY <1>3 DEF SysInfoTypeOK, LoadPhase, StackPcs
<1>8. segments = <<>> /\ written = {} /\ segments' = segments /\ written' = written
  BY DEF LoadInv, MapControl, elfVars
<1>9. SegmentsAccepted'
  BY <1>8 DEF SegmentsAccepted
<1>10. LoadShape' /\ Held' /\ Scanned'
  BY <1>7 DEF LoadShape, Held, Scanned, StackPcs
<1>11. pc # "panic" /\ (result = "SYSINFO_SUCCESS" => pc = "done")
       /\ (pc = "rsdp" => ret = "rsdp")
  BY DEF LoadInv, MapControl, MapPhase
<1>12. (pc' = "rsdp" => ret' = "rsdp")
       /\ (result' = "SYSINFO_SUCCESS" => pc' \in {"done", "panic"} /\ ret' = "rsdp")
  <2>1. ASSUME NEW r \in NextReports, NextRegion(r) \/ NextRegionPanic(r)
        PROVE  pc' # "rsdp" /\ result' # "SYSINFO_SUCCESS"
    BY <1>11, <2>1 DEF NextRegion, NextRegionPanic, CallInsert, AllocPanic
  <2>2. ASSUME pc = "e820", AfterLoop
        PROVE  (pc' = "rsdp" => ret' = "rsdp") /\ result' # "SYSINFO_SUCCESS"
    BY <1>11, <2>2
    DEF AfterLoop, NoRegions, ReserveLow, ReserveLowPanic, CallInsert, AllocPanic
  <2>3. CASE SearchRsdp
    BY <1>11, <2>3 DEF SearchRsdp, ListUnchanged
  <2>4. CASE ListStep
    <3>1. pc \in {"walk", "fix"}
      BY <2>4 DEF ListStep, InsertSorted, Walk, LinkFirst, LinkHead, LinkAfter, FixRight,
         DropNext, TrimNext, CutThis, SplitThis, SplitPanic, MergeRight, ExtendReserved, PadGap,
         PadPanic, NoPadding, LoopOver, Overlapping
    <3>2. pc' \in {"walk", "fix", "panic", pc, ret} /\ ret' = ret /\ result' = result
      BY <2>4, ListStepControl DEF ListStep, sysinfoVars
    <3>3. QED
      BY <1>11, <3>1, <3>2
  <2>5. QED
    BY <2>1, <2>2, <2>3, <2>4 DEF SysInfoNext, LastRegion, NoMoreRegions
<1>13. MapControl'
  BY <1>7, <1>8, <1>12 DEF MapControl, MapPhase
<1>14. QED
  BY <1>1, <1>6, <1>9, <1>10, <1>13 DEF LoadInv

-----------------------------------------------------------------------------
\* main begins.
LEMMA LoadInit == ElfInit => LoadInv
<1> SUFFICES ASSUME ElfInit PROVE LoadInv
  OBVIOUS
<1>1. /\ SysInfoInit /\ segments = <<>> /\ written = {} /\ pc = "e820" /\ ret = "e820"
      /\ result = "none" /\ heap = <<>> /\ mem_regions = NULL
  BY DEF ElfInit, SysInfoInit, ListInit
<1>2. ElfInv
  BY ElfInitInv
<1>3. SysInfoTypeOK /\ OrderedInv /\ ContentsInv
  BY <1>1, InitType, InitOrdered, InitContents
<1>4. \A n \in List : FALSE
  <2>1. Len(heap) = 0 /\ List \subseteq 1 .. Len(heap)
    BY <1>1, <1>3, Nodes
  <2>2. QED
    BY <2>1
<1>5. ~LoadPhase /\ Scanned
  BY <1>1 DEF LoadPhase, Scanned, StackPcs
<1>6. MapInv /\ Neighbours
  BY <1>3, <1>4 DEF MapInv, Neighbours, UsableApart
<1>7. MapControl
  BY <1>1 DEF MapControl, StackPcs
<1>8. SegmentsAccepted
  BY <1>1 DEF SegmentsAccepted
<1>9. QED
  BY <1>2, <1>5, <1>6, <1>7, <1>8 DEF LoadInv, LoadShape, Held

\* Every step of the boot keeps the invariant.
LEMMA LoadNext ==
  ASSUME LoadInv, OrderedMap, SegmentsFit, [BootNext]_bootVars
  PROVE  LoadInv'
<1>1. CASE SysInfoNext /\ UNCHANGED elfVars
  <2>1. pc # "panic"
    BY <1>1 DEF SysInfoNext, NextRegion, NextRegionPanic, LastRegion, NoMoreRegions, SearchRsdp,
       ListStep, InsertSorted, Walk, LinkFirst, LinkHead, LinkAfter, FixRight, DropNext, TrimNext,
       CutThis, SplitThis, SplitPanic, MergeRight, ExtendReserved, PadGap, PadPanic, NoPadding,
       LoopOver, Overlapping
  <2>2. QED
    BY <1>1, <2>1, SysInfoNextLoad, SysInfoNextMap DEF MapPhase
<1>2. CASE ElfNext
  BY <1>2, ElfNextLoad
<1>3. CASE UNCHANGED bootVars
  <2>1. UNCHANGED <<heap, mem_regions, pc, ret, new_region, prev2, prev, current, this_region,
                    limit_right, pending, reported, count, result, segments, written, elf_result,
                    largest, scan, stack_pointer>>
    BY <1>3 DEF bootVars, vars, listVars, sysinfoVars, elfVars
  <2>2. ElfInv'
    BY <1>3, BootNextInv DEF LoadInv
  <2>3. LoadPhase' = LoadPhase /\ MapPhase' = MapPhase /\ List' = List
    BY <2>1 DEF LoadPhase, MapPhase, List
  <2>4. MapInv'
    <3>1. CASE MapPhase
      <4>1. SysInfoTypeOK /\ OrderedInv /\ ContentsInv /\ [SysInfoNext]_vars
        BY <1>3, <3>1 DEF LoadInv, MapInv, bootVars
      <4>2. SysInfoTypeOK'
        BY <4>1, NextType
      <4>3. OrderedInv'
        BY <4>1, <4>2, NextOrdered
      <4>4. QED
        BY <4>1, <4>2, <4>3, NextContents DEF MapInv
    <3>2. QED
      BY <2>3, <3>1 DEF MapInv
  <2>5. Neighbours' /\ MapControl' /\ SegmentsAccepted'
    BY <2>1, <2>3
    DEF LoadInv, Neighbours, MapControl, SegmentsAccepted, Usable
  <2>6. LoadShape'
    <3>1. Sound' = Sound
      BY <2>1, <2>3 DEF Sound
    <3>2. WalkingElf => WalkingElf'
      BY <2>1, <2>3, <3>1 DEF WalkingElf, ElfNode, Clear, Left, Segment
    <3>3. RepairingElf => RepairingElf'
      BY <2>1, <2>3
      DEF RepairingElf, ElfNode, Second, SecondDropped, First, FirstDropped, AfterSplit, Caught,
          Before
    <3>4. QED
      BY <2>1, <2>3, <3>1, <3>2, <3>3 DEF LoadInv, LoadShape
  <2>7. Held'
    <3>1. OccupiedHeld => OccupiedHeld'
      BY <2>1, <2>3 DEF OccupiedHeld, Occupied, ListedSegments, Usable
    <3>2. QED
      BY <2>3, <3>1 DEF LoadInv, Held
  <2>8. Scanned'
    BY <2>1, <2>3 DEF LoadInv, Scanned, HasSpace
  <2>9. QED
    BY <2>2, <2>4, <2>5, <2>6, <2>7, <2>8 DEF LoadInv
<1>4. QED
  BY <1>1, <1>2, <1>3 DEF BootNext

-----------------------------------------------------------------------------
(* What the binary is loaded into and starts on *)

\* elf_load writes only at or above REAL_MODE_LIMIT, and to no address of a region that
\* was inserted as anything but usable: of a map in order, whatever the segments of the
\* binary and wherever a read fails.  Memory that is not in the list is not excluded.
THEOREM BinarySparesRestricted ==
  ASSUME OrderedMap, SegmentsFit
  PROVE  BootSpec => []SparesRestricted
<1>1. ElfInit => LoadInv
  BY LoadInit
<1>2. LoadInv /\ [BootNext]_bootVars => LoadInv'
  BY LoadNext
<1>3. LoadInv => SparesRestricted
  <2>1. SUFFICES ASSUME LoadInv, NEW a \in written
                 PROVE  /\ a >= REAL_MODE_LIMIT
                        /\ \A r \in Inserted : Covers(r, a) =>
                              convert_type(r.type) = SYSINFO_MT_USABLE
    BY DEF SparesRestricted
  <2>2. PICK i \in 1 .. Len(segments) : In(segments[i], a)
    BY <2>1 DEF LoadInv, SegmentsAccepted
  <2>3. /\ segments[i].p_vaddr >= REAL_MODE_LIMIT
        /\ \A b \in Addresses, k \in 1 .. count :
              (In(segments[i], b) /\ Covers(reported[k], b)) => Usable(k)
    BY <2>1 DEF LoadInv, SegmentsAccepted
  <2>4. a \in Addresses /\ a \in Nat
    BY <2>1, PtrModAssumption, AddrModAssumption
    DEF LoadInv, ElfInv, ElfTypeOK, PtrAddresses, Addresses
  <2>5. segments[i].p_vaddr \in Nat /\ REAL_MODE_LIMIT \in Nat
    BY <2>1, HistoryNumbers, SegmentNumbers, RealModeLimitAssumption, AddrModAssumption
    DEF LoadInv, Addresses
  <2>6. a >= REAL_MODE_LIMIT
    BY <2>2, <2>3, <2>4, <2>5 DEF In
  <2>7. ASSUME NEW r \in Inserted, Covers(r, a) PROVE convert_type(r.type) = SYSINFO_MT_USABLE
    <3>1. PICK k \in 1 .. count : r = reported[k]
      BY <2>7 DEF Inserted
    <3>2. Usable(k)
      BY <2>2, <2>3, <2>4, <2>7, <3>1
    <3>3. QED
      BY <3>1, <3>2 DEF Usable
  <2>8. QED
    BY <2>6, <2>7
<1>4. QED
  BY <1>1, <1>2, <1>3, PTL DEF BootSpec

\* No two segments that are accepted share a byte.
THEOREM SegmentsAreApart ==
  ASSUME OrderedMap, SegmentsFit
  PROVE  BootSpec => []SegmentsApart
<1>1. ElfInit => LoadInv
  BY LoadInit
<1>2. LoadInv /\ [BootNext]_bootVars => LoadInv'
  BY LoadNext
<1>3. LoadInv => SegmentsApart
  <2>1. SUFFICES ASSUME LoadInv, NEW i \in 1 .. Len(segments), NEW j \in 1 .. Len(segments),
                        i # j, NEW a \in SegmentBytes(i), a \in SegmentBytes(j)
                 PROVE  FALSE
    BY DEF SegmentsApart
  <2>2. segments[i] \in SEGMENTS /\ segments[j] \in SEGMENTS
    BY <2>1, HistoryNumbers DEF LoadInv
  <2>3. /\ segments[i].p_vaddr \in Nat /\ segments[i].p_memsz \in Nat
        /\ segments[j].p_vaddr \in Nat /\ segments[j].p_memsz \in Nat
    BY <2>2, SegmentNumbers
  <2>4. In(segments[i], a)
    BY <2>1, <2>2, <2>3, BytesAreIn DEF SegmentBytes
  <2>5. In(segments[j], a)
    BY <2>1, <2>2, <2>3, BytesAreIn DEF SegmentBytes
  <2>6. a \in Nat
    <3>1. Bytes(segments[i], segments[i].p_memsz) \subseteq PtrAddresses
      BY <2>2, <2>3, BytesType, SegmentsAssumption
    <3>2. QED
      BY <2>1, <3>1, PtrModAssumption, AddrModAssumption DEF SegmentBytes, PtrAddresses
  <2>7. \/ segments[i].p_vaddr + segments[i].p_memsz <= segments[j].p_vaddr
        \/ segments[j].p_vaddr + segments[j].p_memsz <= segments[i].p_vaddr
    BY <2>1 DEF LoadInv, SegmentsAccepted
  <2>8. QED
    BY <2>3, <2>4, <2>5, <2>6, <2>7 DEF In
<1>4. QED
  BY <1>1, <1>2, <1>3, PTL DEF BootSpec

\* What is assumed of the constants of transfer_control: the end of the 32-bit addresses is
\* aligned, and what is pushed is smaller than the alignment and than the low memory (8,
\* 2^4 and 0x100000).
StackFits ==
  /\ (PTR_MOD % STACK_ALIGN) = 0
  /\ STACK_RESERVE < STACK_ALIGN /\ STACK_RESERVE < REAL_MODE_LIMIT

\* Quotient and remainder.
LEMMA DivMod ==
  ASSUME NEW x \in Nat, NEW d \in Nat \ {0}
  PROVE  /\ (x % d) \in Nat /\ (x % d) <= x
         /\ \E q \in Nat : x - (x % d) = d * q
<1>1. (x % d) \in Nat /\ x \div d \in Nat
  OBVIOUS
<1>2. x = d * (x \div d) + (x % d)
  OBVIOUS
<1>3. PICK q \in Nat, r \in Nat : q = x \div d /\ r = (x % d)
  BY <1>1
<1>4. x = d * q + r
  BY <1>2, <1>3
<1>5. d * q \in Nat
  OBVIOUS
<1>6. r <= x /\ x - r = d * q
  <2>1. ASSUME NEW m \in Nat, x = m + r PROVE r <= x /\ x - r = m
    BY <2>1
  <2>2. QED
    BY <1>4, <1>5, <2>1
<1>7. QED
  BY <1>1, <1>3, <1>6

\* A multiple of d below another one leaves room for d.
LEMMA Multiples ==
  ASSUME NEW d \in Nat \ {0}, NEW p \in Nat, NEW q \in Nat, d * p < d * q
  PROVE  d * p + d <= d * q
<1>1. p < q
  <2>1. SUFFICES ASSUME q <= p PROVE FALSE
    OBVIOUS
  <2>2. PICK e \in Nat : p = q + e
    <3>1. p - q \in Nat /\ p = q + (p - q)
      BY <2>1
    <3>2. QED
      BY <3>1
  <2>3. d * p = d * q + d * e /\ d * e \in Nat /\ d * q \in Nat
    BY <2>2
  <2>4. QED
    BY <2>3
<1>2. PICK e \in Nat : q = p + 1 + e
  <2>1. q - p - 1 \in Nat /\ q = p + 1 + (q - p - 1)
    BY <1>1
  <2>2. QED
    BY <2>1
<1>3. d * q = d * p + d + d * e /\ d * e \in Nat /\ d * p \in Nat
  BY <1>2
<1>4. QED
  BY <1>3

\* The address AlignDown leaves is an address below the end of the 32-bit addresses, with
\* room for one alignment more.
LEMMA AlignedDown ==
  ASSUME StackFits, NEW x \in Nat, x < PTR_MOD
  PROVE  /\ AlignDown(x) \in Nat /\ AlignDown(x) <= x
         /\ AlignDown(x) + STACK_ALIGN <= PTR_MOD
<1>1. PTR_MOD \in Nat /\ STACK_ALIGN \in Nat \ {0}
  BY PtrModAssumption, AddrModAssumption, StackAssumption
<1>2. PICK q \in Nat : PTR_MOD = STACK_ALIGN * q
  <2>1. PICK q \in Nat : PTR_MOD - (PTR_MOD % STACK_ALIGN) = STACK_ALIGN * q
    BY <1>1, DivMod
  <2>2. QED
    BY <1>1, <2>1 DEF StackFits
<1>3. (x % STACK_ALIGN) \in Nat /\ (x % STACK_ALIGN) <= x
  BY <1>1, DivMod
<1>4. PICK p \in Nat : AlignDown(x) = STACK_ALIGN * p
  BY <1>1, DivMod DEF AlignDown
<1>5. AlignDown(x) \in Nat /\ AlignDown(x) <= x
  BY <1>3 DEF AlignDown
<1>6. STACK_ALIGN * p < STACK_ALIGN * q
  BY <1>1, <1>2, <1>4, <1>5
<1>7. STACK_ALIGN * p + STACK_ALIGN <= STACK_ALIGN * q
  BY <1>1, <1>6, Multiples
<1>8. QED
  BY <1>2, <1>4, <1>5, <1>7

\* The stack the binary starts on lies in one region of the list, none of which is larger:
\* neither the cast to uint32_t nor the alignment takes it out of it.
THEOREM StackIsInLargestRegion ==
  ASSUME OrderedMap, SegmentsFit, StackFits
  PROVE  BootSpec => []StackInLargestRegion
<1>1. ElfInit => LoadInv
  BY LoadInit
<1>2. LoadInv /\ [BootNext]_bootVars => LoadInv'
  BY LoadNext
<1>3. LoadInv => StackInLargestRegion
  <2>1. SUFFICES ASSUME LoadInv, pc = "running"
                 PROVE  \E n \in InList : /\ Pushed \subseteq Extent(n)
                                          /\ \A m \in InList : heap[m].size <= heap[n].size
    BY DEF StackInLargestRegion
  <2>2. InList = List
    BY InListIsLive DEF List
  <2>3. /\ largest \in List /\ HasSpace
        /\ \A m \in List : heap[m].size <= heap[largest].size
        /\ stack_pointer = (StackBottom(heap[largest]) + STACK_RESERVE) % PTR_MOD
    BY <2>1 DEF LoadInv, Scanned
  <2>4. Sound /\ ListTypeOK
    BY <2>1 DEF LoadInv, LoadShape, LoadPhase, StackPcs, ElfInv, ElfTypeOK
  <2> DEFINE base == heap[largest].base_addr
             size == heap[largest].size
             at == base + size - 1 - STACK_RESERVE
             low == at % PTR_MOD
             down == AlignDown(low)
  <2>5. /\ base \in Nat /\ size \in Nat /\ base + size < ADDR_MOD
        /\ RightOf(heap, largest) = base + size
    <3>1. largest \in 1 .. Len(heap) /\ End(heap, largest) < ADDR_MOD
      BY <2>3, <2>4, ListNumbers DEF Sound, Shape, Sized
    <3>2. QED
      BY <2>4, <3>1, ListNumbers DEF End
  <2>6. size > STACK_RESERVE /\ STACK_RESERVE \in Nat
    <3>1. mem_regions \in List /\ heap[mem_regions].size >= REAL_MODE_LIMIT
      BY <2>4 DEF Sound, Shape, Line, LowHead
    <3>2. heap[mem_regions].size <= size /\ heap[mem_regions].size \in Nat
      BY <2>3, <2>4, <3>1, ListNumbers
    <3>3. REAL_MODE_LIMIT \in Nat /\ STACK_RESERVE \in Nat /\ STACK_RESERVE < REAL_MODE_LIMIT
      BY RealModeLimitAssumption, AddrModAssumption, StackAssumption DEF StackFits, Addresses
    <3>4. QED
      BY <2>5, <3>1, <3>2, <3>3
  <2> HIDE DEF base, size
  <2>7. at \in Nat /\ at < ADDR_MOD /\ at = base + size - 1 - STACK_RESERVE
    <3>1. size - 1 - STACK_RESERVE \in Nat
      BY <2>5, <2>6
    <3>2. at = base + (size - 1 - STACK_RESERVE)
      BY <2>5, <2>6
    <3>3. QED
      BY <2>5, <2>6, <3>1, <3>2, AddrModAssumption
  <2>8. (at % ADDR_MOD) = at
    <3>1. \A x \in 0 .. ADDR_MOD - 1 : (x % ADDR_MOD) = x
      BY AddrModAssumption
    <3>2. at \in 0 .. ADDR_MOD - 1
      BY <2>7, AddrModAssumption
    <3>3. QED
      BY <3>1, <3>2
  <2>9. StackBottom(heap[largest]) = down
    BY <2>8 DEF StackBottom, base, size
  <2> HIDE DEF at
  <2>10. PTR_MOD \in Nat \ {0}
    BY PtrModAssumption, AddrModAssumption
  <2>11. low \in Nat /\ low < PTR_MOD /\ low <= at
    <3>1. low \in Nat /\ low <= at
      BY <2>7, <2>10, DivMod
    <3>2. low < PTR_MOD
      BY <2>7, <2>10
    <3>3. QED
      BY <3>1, <3>2
  <2> HIDE DEF low
  <2>12. down \in Nat /\ down <= low /\ down + STACK_ALIGN <= PTR_MOD
    BY <2>11, AlignedDown
  <2>13. base <= down
    BY <2>3, <2>9 DEF HasSpace, base
  <2> HIDE DEF down
  <2>14. STACK_RESERVE < STACK_ALIGN /\ STACK_ALIGN \in Nat
    BY StackAssumption DEF StackFits
  <2>15. stack_pointer = down + STACK_RESERVE
    <3>1. down + STACK_RESERVE \in 0 .. PTR_MOD - 1
      BY <2>6, <2>10, <2>12, <2>14
    <3>2. \A x \in 0 .. PTR_MOD - 1 : (x % PTR_MOD) = x
      BY <2>10
    <3>3. QED
      BY <2>3, <2>9, <3>1, <3>2
  <2>16. ASSUME NEW k \in 1 .. STACK_RESERVE
         PROVE  stack_pointer - k \in base .. base + size - 1
    <3>1. stack_pointer - k \in Nat /\ down <= stack_pointer - k
          /\ stack_pointer - k < down + STACK_RESERVE
      BY <2>6, <2>12, <2>15
    <3>2. QED
      BY <2>5, <2>6, <2>7, <2>11, <2>12, <2>13, <3>1
  <2>17. Pushed \subseteq Extent(largest)
    BY <2>5, <2>16 DEF Pushed, Extent, base
  <2>18. QED
    BY <2>2, <2>3, <2>17 DEF size
<1>4. QED
  BY <1>1, <1>2, <1>3, PTL DEF BootSpec
-----------------------------------------------------------------------------
(* What is not usable is listed once *)

\* Node m lies behind address e, as far as the order of the list goes.
Past(e, m) ==
  IF Free(heap, m) THEN heap[m].next # NULL => e <= End(heap, m)
  ELSE e <= heap[m].base_addr

\* A node that is not usable ends before its successor, ...
LEMMA EdgeAfter ==
  ASSUME ListTypeOK, NEW n \in 1 .. Len(heap), NEW q \in 1 .. Len(heap),
         ~Free(heap, n), Edge(heap, n, q)
  PROVE  Past(End(heap, n), q)
<1>1. /\ End(heap, n) \in Nat /\ End(heap, q) \in Nat
      /\ heap[q].base_addr \in Nat /\ heap[q].size \in Nat
  BY ListNumbers
<1>2. heap[q].base_addr <= End(heap, q)
  BY <1>1 DEF End
<1>3. \/ End(heap, n) <= heap[q].base_addr
      \/ Free(heap, q) /\ (heap[q].next # NULL => End(heap, n) <= End(heap, q))
  BY DEF Edge
<1>4. QED
  BY <1>1, <1>2, <1>3 DEF Past

\* ... so that what lies before a node lies before its successor, ...
LEMMA EdgePasses ==
  ASSUME ListTypeOK, NEW m \in 1 .. Len(heap), heap[m].next # NULL,
         Edge(heap, m, heap[m].next), heap[m].next \in 1 .. Len(heap),
         NEW e \in Nat, Past(e, m)
  PROVE  Past(e, heap[m].next)
<1> DEFINE q == heap[m].next
<1>1. /\ End(heap, m) \in Nat /\ heap[m].base_addr \in Nat /\ heap[m].size \in Nat
      /\ End(heap, q) \in Nat /\ heap[q].base_addr \in Nat
  BY ListNumbers
<1>2. CASE Free(heap, m)
  <2>1. e <= End(heap, m) /\ ~Free(heap, q) /\ End(heap, m) = heap[q].base_addr
    BY <1>2 DEF Past, Edge
  <2> HIDE DEF q
  <2>2. Past(e, q)
    BY <2>1 DEF Past
  <2>3. QED
    BY <2>2 DEF q
<1>3. CASE ~Free(heap, m)
  <2>1. Past(End(heap, m), q)
    BY <1>3, EdgeAfter
  <2>2. e <= End(heap, m)
    <3>1. e <= heap[m].base_addr
      BY <1>3 DEF Past
    <3>2. heap[m].base_addr <= End(heap, m)
      BY <1>1 DEF End
    <3>3. QED
      BY <1>1, <3>1, <3>2
  <2> HIDE DEF q
  <2>3. Past(e, q)
    BY <1>1, <2>1, <2>2 DEF Past
  <2>4. QED
    BY <2>3 DEF q
<1>4. QED
  BY <1>2, <1>3

\* ... and every node that follows.
LEMMA FollowersArePast ==
  ASSUME ListTypeOK, Sound, NEW n \in List, ~Free(heap, n), heap[n].next # NULL
  PROVE  \A m \in Live(heap, heap[n].next) : Past(End(heap, n), m)
<1> DEFINE S == {m \in List : Past(End(heap, n), m)}
<1>1. /\ HeapOK(heap) /\ List \subseteq 1 .. Len(heap) /\ Closed(heap, List)
      /\ EdgesBut(heap, List, {}) /\ End(heap, n) \in Nat
  BY ListNumbers DEF Sound, Shape, Line
<1>2. heap[n].next \in List /\ Edge(heap, n, heap[n].next)
  BY <1>1 DEF Closed, EdgesBut
<1>3. heap[n].next \in S
  BY <1>1, <1>2, EdgeAfter
<1>4. Closed(heap, S)
  <2>1. SUFFICES ASSUME NEW m \in S, heap[m].next # NULL PROVE heap[m].next \in S
    BY DEF Closed
  <2>2. heap[m].next \in List /\ Edge(heap, m, heap[m].next)
    BY <1>1, <2>1 DEF Closed, EdgesBut
  <2>3. QED
    BY <1>1, <2>1, <2>2, EdgePasses
<1>5. Live(heap, heap[n].next) \subseteq S
  <2>1. heap[n].next \in 0 .. Len(heap)
    BY <1>1 DEF HeapOK
  <2> HIDE DEF S
  <2>2. QED
    BY <1>1, <1>3, <1>4, <2>1, LiveLeast
<1>6. QED
  BY <1>5

\* Of two nodes of a list one follows the other.
LEMMA OneFollows ==
  ASSUME ListTypeOK, mem_regions \in 1 .. Len(heap), NEW m \in List, NEW n \in List, m # n
  PROVE  m \in Live(heap, heap[n].next) \/ n \in Live(heap, heap[m].next)
<1> DEFINE S == {k \in List : n \in Live(heap, k)} \cup Live(heap, heap[n].next)
<1>1. /\ HeapOK(heap) /\ List \subseteq 1 .. Len(heap) /\ Closed(heap, List)
      /\ mem_regions \in 0 .. Len(heap) /\ List = Live(heap, mem_regions)
      /\ mem_regions # NULL /\ mem_regions \in List
  <2>1. HeapOK(heap) /\ List \subseteq 1 .. Len(heap) /\ mem_regions \in 0 .. Len(heap)
    BY ListNumbers
  <2>2. mem_regions # NULL
    BY DEF NULL
  <2>3. QED
    BY <2>1, <2>2, LiveClosed DEF List
<1>2. /\ heap[n].next \in 0 .. Len(heap) /\ Closed(heap, Live(heap, heap[n].next))
      /\ heap[n].next # NULL => heap[n].next \in Live(heap, heap[n].next)
  BY <1>1, LiveClosed DEF HeapOK
<1>3. \A k \in List : Live(heap, k) = {k} \cup Live(heap, heap[k].next)
  BY <1>1, LiveCons
<1>4. Closed(heap, S)
  <2>1. SUFFICES ASSUME NEW k \in S, heap[k].next # NULL PROVE heap[k].next \in S
    BY DEF Closed
  <2>2. CASE k \in Live(heap, heap[n].next)
    BY <1>2, <2>1, <2>2 DEF Closed
  <2>3. CASE k \in List /\ n \in Live(heap, k)
    <3>1. CASE k = n
      BY <1>2, <2>1, <3>1
    <3>2. CASE k # n
      BY <1>1, <1>3, <2>1, <2>3, <3>2 DEF Closed
    <3>3. QED
      BY <3>1, <3>2
  <2>4. QED
    BY <2>2, <2>3
<1>5. mem_regions \in S
  BY <1>1
<1>6. List \subseteq S
  <2> HIDE DEF S
  <2>1. QED
    BY <1>1, <1>4, <1>5, LiveLeast
<1>7. m \in Live(heap, heap[n].next) \/ n \in Live(heap, m)
  BY <1>6
<1>8. QED
  BY <1>3, <1>7

\* The nodes of a sound list that are not usable share no address, whatever lies between
\* them and overlaps them.
LEMMA HeldOnce ==
  ASSUME ListTypeOK, Sound, NEW m \in List, NEW n \in List, m # n,
         ~Free(heap, m), ~Free(heap, n)
  PROVE  End(heap, m) <= heap[n].base_addr \/ End(heap, n) <= heap[m].base_addr
<1>1. mem_regions \in 1 .. Len(heap) /\ HeapOK(heap) /\ List \subseteq 1 .. Len(heap)
  BY ListNumbers DEF Sound, Shape, Line
<1>2. ASSUME NEW a \in List, NEW b \in List, ~Free(heap, a), ~Free(heap, b),
             b \in Live(heap, heap[a].next)
      PROVE  End(heap, a) <= heap[b].base_addr
  <2>1. heap[a].next # NULL
    <3>1. SUFFICES ASSUME heap[a].next = NULL PROVE FALSE
      OBVIOUS
    <3>2. Closed(heap, {}) /\ NULL \in 0 .. Len(heap)
      BY <1>1, ListNumbers DEF Closed, NULL
    <3>3. Live(heap, NULL) \subseteq {}
      BY <1>1, <3>2, LiveLeast
    <3>4. QED
      BY <1>2, <3>1, <3>3
  <2>2. Past(End(heap, a), b)
    BY <1>2, <2>1, FollowersArePast
  <2>3. QED
    BY <1>2, <2>2 DEF Past
<1>3. QED
  BY <1>1, <1>2, OneFollows

\* The list says of an address what the node that is not usable says of it.
LEMMA HeldIsSaid ==
  ASSUME ListTypeOK, Sound, NEW a \in Addresses, NEW t \in MemTypes, HeldAt(heap, List, a, t)
  PROVE  Restrictions[a] = t
<1> DEFINE types == {heap[n].type : n \in {m \in List : a \in Extent(m)}}
<1>1. PICK n \in List : ~Free(heap, n) /\ heap[n].type = t /\ heap[n].base_addr <= a
                        /\ a < End(heap, n)
  BY DEF HeldAt
<1>2. \A m \in List : /\ heap[m].base_addr \in Nat /\ End(heap, m) \in Nat
                      /\ RightOf(heap, m) = End(heap, m) /\ heap[m].type \in MemTypes
  BY ListNumbers DEF Sound, Shape, Sized
<1>3. a \in Nat
  BY AddrModAssumption DEF Addresses
<1>4. \A m \in List : a \in Extent(m) <=> heap[m].base_addr <= a /\ a < End(heap, m)
  <2>1. SUFFICES ASSUME NEW m \in List
                 PROVE  a \in Extent(m) <=> heap[m].base_addr <= a /\ a < End(heap, m)
    OBVIOUS
  <2>2. Extent(m) = heap[m].base_addr .. End(heap, m) - 1
    BY <1>2 DEF Extent
  <2>3. heap[m].base_addr \in Nat /\ End(heap, m) \in Nat
    BY <1>2
  <2>4. QED
    BY <1>3, <2>2, <2>3
<1>5. t \in types
  BY <1>1, <1>4
<1>6. \A u \in types : u = t \/ u = SYSINFO_MT_USABLE
  <2>1. SUFFICES ASSUME NEW m \in List, a \in Extent(m), ~Free(heap, m), m # n PROVE FALSE
    BY <1>1 DEF Free
  <2>2. End(heap, m) <= heap[n].base_addr \/ End(heap, n) <= heap[m].base_addr
    BY <1>1, <2>1, HeldOnce
  <2>3. heap[m].base_addr <= a /\ a < End(heap, m)
    BY <1>4, <2>1
  <2>4. QED
    BY <1>1, <1>2, <1>3, <2>2, <2>3
<1> HIDE DEF types
<1>7. t \in Nat /\ SYSINFO_MT_USABLE < t
  BY <1>1 DEF MemTypes, Free, SYSINFO_MT_USABLE, SYSINFO_MT_RESERVED
<1>8. \A u \in types : u <= t
  BY <1>6, <1>7 DEF SYSINFO_MT_USABLE
<1>9. \A v \in types : (\A u \in types : u <= v) => v = t
  <2>1. SUFFICES ASSUME NEW v \in types, t <= v PROVE v = t
    BY <1>5
  <2>2. QED
    BY <1>6, <1>7, <2>1 DEF SYSINFO_MT_USABLE
<1>10. Restrictions[a] = CHOOSE v \in types : \A u \in types : u <= v
  <2>1. InList = List
    BY InListIsLive DEF List
  <2>2. Restrictions[a] = IF types = {} THEN -1 ELSE CHOOSE v \in types : \A u \in types : u <= v
    BY <2>1 DEF Restrictions, types
  <2>3. QED
    BY <1>5, <2>2
<1>11. QED
  BY <1>5, <1>8, <1>9, <1>10

\* Of every byte of the binary the list main hands to it says that it is executable, when
\* the segments after it have been inserted as well.
THEOREM BinaryIsInList ==
  ASSUME OrderedMap, SegmentsFit
  PROVE  BootSpec => []BinaryIsListed
<1>1. ElfInit => LoadInv
  BY LoadInit
<1>2. LoadInv /\ [BootNext]_bootVars => LoadInv'
  BY LoadNext
<1>3. LoadInv => BinaryIsListed
  <2>1. SUFFICES ASSUME LoadInv, Loaded, NEW i \in 1 .. Len(segments), NEW a \in SegmentBytes(i)
                 PROVE  Restrictions[a] = SYSINFO_MT_ELF_EXECUTABLE
    BY DEF BinaryIsListed
  <2>2. ListTypeOK /\ segments[i] \in SEGMENTS /\ Len(segments) \in Nat
    BY <2>1, HistoryNumbers DEF LoadInv, ElfInv, ElfTypeOK
  <2>3. LoadPhase /\ pc \notin {"walk", "fix"}
    <3>1. pc \in {"done", "load", "stack", "running"}
      BY <2>1 DEF Loaded
    <3>2. ~MapPhase
      <4>1. SUFFICES ASSUME MapPhase PROVE FALSE
        OBVIOUS
      <4>2. segments = <<>>
        BY <2>1, <4>1 DEF LoadInv, MapControl
      <4>3. QED
        BY <2>1, <4>2
    <3>3. QED
      BY <3>1, <3>2 DEF MapPhase
  <2>4. Sound /\ OccupiedHeld
    BY <2>1, <2>3 DEF LoadInv, LoadShape, Held
  <2>5. ListedSegments = Len(segments)
    BY <2>3 DEF ListedSegments
  <2>6. /\ segments[i].p_vaddr \in Nat /\ segments[i].p_memsz \in Nat
        /\ segments[i].p_vaddr + segments[i].p_memsz < ADDR_MOD
    BY <2>2, SegmentNumbers
  <2>7. In(segments[i], a)
    BY <2>1, <2>2, <2>6, BytesAreIn DEF SegmentBytes
  <2>8. a \in Addresses
    <3>1. Bytes(segments[i], segments[i].p_memsz) \subseteq PtrAddresses
      BY <2>2, <2>6, BytesType, SegmentsAssumption
    <3>2. QED
      BY <2>1, <3>1, PtrModAssumption, AddrModAssumption
      DEF SegmentBytes, PtrAddresses, Addresses
  <2>9. Occupied(a, SYSINFO_MT_ELF_EXECUTABLE)
    BY <2>5, <2>7 DEF Occupied
  <2>10. HeldAt(heap, List, a, SYSINFO_MT_ELF_EXECUTABLE)
    BY <2>4, <2>8, <2>9, TypeOfReport DEF OccupiedHeld
  <2>11. QED
    BY <2>2, <2>4, <2>8, <2>10, TypeOfReport, HeldIsSaid
<1>4. QED
  BY <1>1, <1>2, <1>3, PTL DEF BootSpec
\* Of what get_mem_regions inserted as anything but usable the list says the same after
\* every segment of the binary as it did before the first.
THEOREM InsertedOutlivesLoading ==
  ASSUME OrderedMap, SegmentsFit
  PROVE  BootSpec => []InsertedSurvivesLoading
<1>1. ElfInit => LoadInv
  BY LoadInit
<1>2. LoadInv /\ [BootNext]_bootVars => LoadInv'
  BY LoadNext
<1>3. LoadInv => InsertedSurvivesLoading
  <2>1. SUFFICES ASSUME LoadInv, Loaded, result = "SYSINFO_SUCCESS", NEW r \in Inserted,
                        NEW a \in Addresses, Covers(r, a), a >= REAL_MODE_LIMIT,
                        convert_type(r.type) # SYSINFO_MT_USABLE
                 PROVE  Restrictions[a] = convert_type(r.type)
    BY DEF InsertedSurvivesLoading
  <2>2. ListTypeOK /\ convert_type(r.type) \in MemTypes
    BY <2>1, TypeOfReport DEF LoadInv, ElfInv, ElfTypeOK
  <2>3. Sound /\ OccupiedHeld
    <3>1. pc \in {"done", "load", "stack", "running"}
      BY <2>1 DEF Loaded
    <3>2. CASE LoadPhase
      BY <2>1, <3>1, <3>2 DEF LoadInv, LoadShape, Held
    <3>3. CASE ~LoadPhase
      <4>1. MapPhase
        BY <3>1, <3>3 DEF MapPhase
      <4>2. pc = "done"
        BY <2>1, <4>1 DEF LoadInv, MapControl
      <4>3. QED
        BY <2>1, <4>1, <4>2, MapIsReady
    <3>4. QED
      BY <3>2, <3>3
  <2>4. PICK k \in 1 .. count : r = reported[k]
    BY DEF Inserted
  <2>5. Occupied(a, convert_type(r.type))
    BY <2>1, <2>4 DEF Occupied, Usable
  <2>6. HeldAt(heap, List, a, convert_type(r.type))
    BY <2>2, <2>3, <2>5 DEF OccupiedHeld
  <2>7. QED
    BY <2>2, <2>3, <2>6, HeldIsSaid
<1>4. QED
  BY <1>1, <1>2, <1>3, PTL DEF BootSpec

-----------------------------------------------------------------------------
(* Which usable regions overlap the binary *)

\* From b up to e is where a segment has been accepted.
IsSegment(b, e) ==
  \E j \in 1 .. Len(segments) :
    segments[j].p_vaddr = b /\ segments[j].p_vaddr + segments[j].p_memsz = e

\* A usable node begins where the node before it ends, or what the two share is a segment.
Tight(h, n, q) ==
  (~Free(h, n) /\ Free(h, q)) => \/ End(h, n) = h[q].base_addr
                                 \/ IsSegment(h[q].base_addr, End(h, n))

\* so with every node of S and its successor
AllTight(h, S) == \A n \in S : h[n].next # NULL => Tight(h, n, h[n].next)

\* invariant of the list elf_load works on, beside LoadInv
TightInv == LoadPhase => AllTight(heap, List)

\* Node q begins where it did, and node n ends there.
LEMMA TightFrame ==
  ASSUME NEW h, NEW g, NEW n, NEW q, Tight(h, n, q),
         g[n].type = h[n].type, g[q].type = h[q].type,
         End(g, n) = End(h, n), g[q].base_addr = h[q].base_addr
  PROVE  Tight(g, n, q)
BY DEF Tight, Free

\* The loop of fix_right: the usable prev is dropped ...
LEMMA TightDrop ==
  ASSUME ListTypeOK, ListTypeOK', pc = "fix", RepairingElf, DropNext, AllTight(heap, List)
  PROVE  AllTight(heap', List')
<1> DEFINE t == this_region
           p == prev
           s == new_region
<1>1. Overlapping /\ ~NextWins /\ mem_regions' = mem_regions
  BY DEF DropNext, FixUnchanged
<1>2. Second /\ ~Free(heap, t) /\ Free(heap, p)
  BY <1>1, ElfOverlaps
<1>3. /\ t \in List /\ p \in List /\ s \in List /\ heap[t].next = p /\ heap[p].next = s
      /\ next_region = p
  BY <1>2, ElfRepairFacts DEF Second
<1>4. /\ mem_regions \in 1 .. Len(heap) /\ List \subseteq 1 .. Len(heap)
      /\ Line(heap, mem_regions, List) /\ ~Free(heap, s) /\ s \in 1 .. Len(heap)
      /\ Len(heap) \in Nat
  BY ElfRepairFacts, ListNumbers
<1>5. t \in 1 .. Len(heap) /\ p \in 1 .. Len(heap) /\ p # NULL
  BY <1>3, <1>4 DEF NULL
<1>6. /\ Len(heap') = Len(heap)
      /\ \A m \in 1 .. Len(heap) :
            /\ Same(heap, heap', m)
            /\ heap'[m].next = IF m = t THEN s ELSE heap[m].next
  BY <1>3, <1>5, DropWrites DEF Same
<1>7. List' = List \ {p}
  <2>1. heap'[t].next = heap[p].next
    BY <1>3, <1>5, <1>6
  <2>2. \A n \in List : n # t => heap'[n].next = heap[n].next
    BY <1>4, <1>6
  <2>3. Len(heap) <= Len(heap') /\ p = heap[t].next
    BY <1>3, <1>4, <1>6
  <2>4. QED
    BY <1>1, <1>3, <1>4, <1>5, <2>1, <2>2, <2>3, ListRemove
<1>8. SUFFICES ASSUME NEW n \in List, heap'[n].next # NULL PROVE Tight(heap', n, heap'[n].next)
  BY <1>7 DEF AllTight
<1>9. CASE n = t
  BY <1>4, <1>5, <1>6, <1>9 DEF Tight, Free, Same
<1>10. CASE n # t
  <2>1. heap'[n].next = heap[n].next /\ heap[n].next \in List
    BY <1>4, <1>6, <1>8, <1>10, ListNumbers
  <2>2. Tight(heap, n, heap[n].next)
    BY <1>8, <2>1 DEF AllTight
  <2>3. Same(heap, heap', n) /\ Same(heap, heap', heap[n].next)
    BY <1>4, <1>6, <2>1
  <2>4. QED
    BY <2>1, <2>2, <2>3, TightFrame DEF Same, End
<1>11. QED
  BY <1>9, <1>10

\* ... or begins where the node before it ends; ...
LEMMA TightTrim ==
  ASSUME ListTypeOK, ListTypeOK', pc = "fix", RepairingElf, TrimNext, AllTight(heap, List)
  PROVE  AllTight(heap', List')
<1> DEFINE t == this_region
           p == prev
           s == new_region
<1>1. Overlapping /\ ~NextWins /\ mem_regions' = mem_regions
  BY DEF TrimNext, FixUnchanged
<1>2. Second /\ ~Free(heap, t) /\ Free(heap, p)
  BY <1>1, ElfOverlaps
<1>3. /\ t \in List /\ p \in List /\ s \in List /\ heap[t].next = p /\ heap[p].next = s
      /\ next_region = p /\ limit_right = End(heap, t)
  BY <1>2, ElfRepairFacts DEF Second
<1>4. /\ mem_regions \in 1 .. Len(heap) /\ List \subseteq 1 .. Len(heap)
      /\ Line(heap, mem_regions, List) /\ Len(heap) \in Nat
  BY ElfRepairFacts, ListNumbers
<1>5. t \in 1 .. Len(heap) /\ p \in 1 .. Len(heap) /\ p # NULL /\ p # t
  BY <1>2, <1>3, <1>4 DEF NULL
<1>6. /\ Len(heap') = Len(heap)
      /\ \A m \in 1 .. Len(heap) : heap'[m].next = heap[m].next /\ (m # p => Same(heap, heap', m))
      /\ heap'[p].type = heap[p].type /\ heap'[p].base_addr = limit_right
  BY <1>3, <1>5, TrimWrites DEF Same
<1>7. List' = List
  BY <1>1, <1>4, <1>6, ListFrame
<1>8. SUFFICES ASSUME NEW n \in List, heap'[n].next # NULL PROVE Tight(heap', n, heap'[n].next)
  BY <1>7 DEF AllTight
<1>9. heap'[n].next = heap[n].next /\ heap[n].next \in List /\ Tight(heap, n, heap[n].next)
  BY <1>4, <1>6, <1>8, ListNumbers DEF AllTight
<1>10. CASE n = p
  BY <1>2, <1>6, <1>10 DEF Tight, Free
<1>11. CASE n = t
  <2>1. End(heap', t) = End(heap, t) /\ heap'[n].next = p
    BY <1>3, <1>5, <1>6, <1>9, <1>11 DEF Same, End
  <2>2. QED
    BY <1>3, <1>6, <1>11, <2>1 DEF Tight
<1>12. CASE n # p /\ n # t
  <2>1. heap[n].next # p
    BY <1>3, <1>4, <1>5, <1>8, <1>12 DEF Line
  <2>2. Same(heap, heap', n) /\ Same(heap, heap', heap[n].next)
    BY <1>4, <1>6, <1>9, <1>12, <2>1
  <2>3. QED
    BY <1>9, <2>2, TightFrame DEF Same, End
<1>13. QED
  BY <1>10, <1>11, <1>12

\* ... the usable region before the segment is cut, ...
LEMMA TightCut ==
  ASSUME ListTypeOK, ListTypeOK', pc = "fix", RepairingElf, CutThis, AllTight(heap, List)
  PROVE  AllTight(heap', List')
<1> DEFINE t == this_region
<1>1. Overlapping /\ NextWins /\ mem_regions' = mem_regions /\ heap' = CutHeap
  BY DEF CutThis, FixUnchanged
<1>2. Free(heap, t) /\ t \in List
  BY <1>1, ElfOverlaps DEF First, Caught
<1>3. /\ mem_regions \in 1 .. Len(heap) /\ List \subseteq 1 .. Len(heap)
      /\ Line(heap, mem_regions, List) /\ Len(heap) \in Nat
      /\ t \in 1 .. Len(heap) /\ next_region \in 1 .. Len(heap)
  BY <1>1, ElfRepairFacts, ListNumbers DEF Overlapping
<1>4. /\ Len(heap') = Len(heap)
      /\ \A m \in 1 .. Len(heap) :
            /\ heap'[m].next = heap[m].next /\ heap'[m].type = heap[m].type
            /\ heap'[m].base_addr = heap[m].base_addr
            /\ m # t => heap'[m].size = heap[m].size
  BY <1>1, <1>3, CutWrites
<1>5. List' = List
  BY <1>1, <1>3, <1>4, ListFrame
<1>6. SUFFICES ASSUME NEW n \in List, heap'[n].next # NULL PROVE Tight(heap', n, heap'[n].next)
  BY <1>5 DEF AllTight
<1>7. /\ heap'[n].next = heap[n].next /\ heap[n].next \in List /\ Tight(heap, n, heap[n].next)
      /\ n \in 1 .. Len(heap) /\ heap[n].next \in 1 .. Len(heap)
  BY <1>3, <1>4, <1>6, ListNumbers DEF AllTight
<1>8. CASE n = t
  BY <1>2, <1>3, <1>4, <1>8 DEF Tight, Free
<1>9. CASE n # t
  BY <1>4, <1>7, <1>9, TightFrame DEF End
<1>10. QED
  BY <1>8, <1>9

\* ... or split, and its second part begins where the segment ends.
LEMMA TightSplit ==
  ASSUME ListTypeOK, ListTypeOK', pc = "fix", RepairingElf, SplitThis, AllTight(heap, List)
  PROVE  AllTight(heap', List')
<1> DEFINE t == this_region
           s == new_region
<1> PICK q \in Nat : q = Len(heap) + 1
  BY DEF ListTypeOK, HeapOK
<1>1. /\ Overlapping /\ NextWins /\ mem_regions' = mem_regions
      /\ limit_right > RightOf(heap, next_region)
  BY DEF SplitThis, FixUnchanged
<1>2. First /\ Free(heap, t)
  <2>1. limit_right \in Nat /\ next_region \in 1 .. Len(heap)
    BY <1>1, ElfRepairFacts DEF Overlapping
  <2>2. RightOf(heap, next_region) \in Nat
    BY <2>1, ListNodes, AddrModAssumption DEF Addresses
  <2>3. ~ (limit_right <= RightOf(heap, next_region))
    BY <1>1, <2>1, <2>2
  <2>4. QED
    BY <1>1, <2>3, ElfOverlaps
<1>3. t \in List /\ s \in List /\ next_region = s /\ heap[t].next = s
  BY <1>2, ElfRepairFacts DEF First
<1>4. /\ mem_regions \in 1 .. Len(heap) /\ List \subseteq 1 .. Len(heap)
      /\ Line(heap, mem_regions, List) /\ Len(heap) \in Nat
      /\ t \in 1 .. Len(heap) /\ s \in 1 .. Len(heap) /\ ~Free(heap, s)
      /\ RightOf(heap, s) = End(heap, s)
  BY ElfRepairFacts, ListNumbers
<1>5. q \notin List /\ q \notin 1 .. Len(heap) /\ t # s
  BY <1>2, <1>4
<1>6. /\ Len(heap') = Len(heap) + 1
      /\ \A m \in 1 .. Len(heap) :
            /\ m # s => heap'[m].next = heap[m].next
            /\ heap'[m].type = heap[m].type /\ heap'[m].base_addr = heap[m].base_addr
            /\ m # t => heap'[m].size = heap[m].size
      /\ heap'[s].next = q /\ heap'[q].next = heap[s].next
      /\ heap'[q].type = heap[t].type /\ heap'[q].base_addr = End(heap, s)
  <2>1. \A m \in 1 .. Len(heap) : m # t => CutHeap[m].size = heap[m].size
    BY <1>3, <1>4, CutWrites
  <2>2. QED
    BY <1>3, <1>4, <2>1, SplitWrites
<1>7. List' = List \cup {q}
  <2>1. q \in 1 .. Len(heap') /\ Len(heap) <= Len(heap')
    BY <1>4, <1>6
  <2>2. \A n \in List : n # s => heap'[n].next = heap[n].next
    BY <1>4, <1>6
  <2>3. QED
    BY <1>1, <1>3, <1>4, <1>5, <1>6, <2>1, <2>2, ListInsert
<1>8. SUFFICES ASSUME NEW n \in List \cup {q}, heap'[n].next # NULL
               PROVE  Tight(heap', n, heap'[n].next)
  BY <1>7 DEF AllTight
<1>9. CASE n = q \/ n = t
  <2>1. Free(heap', n)
    BY <1>2, <1>4, <1>6, <1>9 DEF Free
  <2>2. QED
    BY <2>1 DEF Tight
<1>10. CASE n = s
  <2>1. End(heap', s) = End(heap, s)
    BY <1>4, <1>5, <1>6 DEF End
  <2>2. QED
    BY <1>6, <1>10, <2>1 DEF Tight
<1>11. CASE n \in List /\ n # t /\ n # s
  <2>1. /\ heap'[n].next = heap[n].next /\ n \in 1 .. Len(heap)
    BY <1>4, <1>6, <1>11
  <2>2. heap[n].next \in 1 .. Len(heap) /\ Tight(heap, n, heap[n].next)
    BY <1>4, <1>8, <1>11, <2>1, ListNumbers DEF AllTight
  <2>3. QED
    BY <1>6, <1>11, <2>1, <2>2, TightFrame DEF End
<1>12. QED
  BY <1>9, <1>10, <1>11

\* add_padding_right: the node being repaired ends where the one it takes in ended, ...
LEMMA TightMerge ==
  ASSUME ListTypeOK, ListTypeOK', RepairingElf, MergeRight, AllTight(heap, List)
  PROVE  AllTight(heap', List')
<1> DEFINE t == this_region
           u == next_region
<1>1. LoopOver /\ u # NULL /\ SameType /\ mem_regions' = mem_regions
  BY ElfReturns DEF MergeRight
<1>2. /\ List \subseteq 1 .. Len(heap) /\ Len(heap) \in Nat
      /\ mem_regions \in 1 .. Len(heap) /\ Line(heap, mem_regions, List)
      /\ t \in 1 .. Len(heap) /\ u = heap[t].next /\ u \in 1 .. Len(heap)
      /\ End(heap, t) <= heap[u].base_addr
  BY <1>1, ElfEnds
<1>3. /\ Len(heap') = Len(heap)
      /\ \A m \in 1 .. Len(heap) :
            /\ heap'[m].base_addr = heap[m].base_addr /\ heap'[m].type = heap[m].type
            /\ m # t => heap'[m].size = heap[m].size /\ heap'[m].next = heap[m].next
      /\ heap'[t].next = heap[u].next
      /\ heap'[t].size = (RightOf(heap, u) - heap[t].base_addr) % ADDR_MOD
  BY <1>2, MergeWrites
<1>4. ASSUME NEW n \in List, n # t, heap'[n].next # NULL
      PROVE  Tight(heap', n, heap'[n].next)
  <2>1. /\ heap'[n].next = heap[n].next /\ n \in 1 .. Len(heap)
    BY <1>2, <1>3, <1>4
  <2>2. heap[n].next \in 1 .. Len(heap) /\ Tight(heap, n, heap[n].next)
    BY <1>2, <1>4, <2>1, ListNumbers DEF AllTight
  <2>3. QED
    BY <1>3, <1>4, <2>1, <2>2, TightFrame DEF End
<1>5. CASE t \notin List
  <2>1. List' = List
    <3>1. \A n \in List : heap'[n].next = heap[n].next
      BY <1>2, <1>3, <1>5
    <3>2. QED
      BY <1>1, <1>2, <1>3, <3>1, ListFrame
  <2>2. QED
    BY <1>4, <1>5, <2>1 DEF AllTight
<1>6. CASE t \in List
  <2>1. List' = List \ {u} /\ u \in List
    <3>1. \A n \in List : n # t => heap'[n].next = heap[n].next
      BY <1>2, <1>3
    <3>2. Len(heap) <= Len(heap')
      BY <1>2, <1>3
    <3> HIDE DEF t, u
    <3>3. QED
      BY <1>1, <1>2, <1>3, <1>6, <3>1, <3>2, ListRemove
  <2>2. ASSUME heap'[t].next # NULL, ~Free(heap', t)
        PROVE  Tight(heap', t, heap'[t].next)
    <3>1. heap[u].next \in 1 .. Len(heap) /\ Tight(heap, u, heap[u].next)
      BY <1>2, <1>3, <2>1, <2>2, ListNumbers DEF AllTight
    <3>2. heap[u].type = heap[t].type
      BY <1>1 DEF SameType
    <3>3. End(heap', t) = End(heap, u)
      <4>1. /\ heap[t].base_addr \in Nat /\ heap[t].size \in Nat /\ heap[u].size \in Nat
            /\ heap[u].base_addr \in Nat /\ End(heap, u) \in Nat
            /\ End(heap, u) < ADDR_MOD /\ RightOf(heap, u) = End(heap, u)
        BY <1>1, <1>2, <2>1, ElfEnds, ListNumbers DEF Shape, Sized
      <4>2. End(heap, u) - heap[t].base_addr \in 0 .. ADDR_MOD - 1
        <5>1. heap[t].base_addr <= End(heap, t) /\ End(heap, t) \in Nat
          BY <4>1 DEF End
        <5>2. heap[u].base_addr <= End(heap, u)
          BY <4>1 DEF End
        <5>3. End(heap, t) <= heap[u].base_addr
          BY <1>2
        <5> HIDE DEF t, u
        <5>4. ADDR_MOD \in Nat
          BY AddrModAssumption
        <5>5. QED
          BY <4>1, <5>1, <5>2, <5>3, <5>4
      <4>3. \A x \in 0 .. ADDR_MOD - 1 : x % ADDR_MOD = x
        BY AddrModAssumption
      <4>4. heap'[t].size = End(heap, u) - heap[t].base_addr
        BY <1>3, <4>1, <4>2, <4>3
      <4>5. heap'[t].base_addr = heap[t].base_addr
        BY <1>2, <1>3
      <4>6. QED
        BY <4>1, <4>4, <4>5 DEF End
    <3>4. Free(heap', heap[u].next) <=> Free(heap, heap[u].next)
      BY <1>3, <3>1 DEF Free
    <3>5. ~Free(heap, u)
      BY <1>2, <1>3, <2>2, <3>2 DEF Free
    <3>6. heap'[heap[u].next].base_addr = heap[heap[u].next].base_addr
      BY <1>3, <3>1
    <3>7. QED
      BY <1>3, <3>1, <3>3, <3>4, <3>5, <3>6 DEF Tight
  <2>3. ASSUME NEW n \in List, heap'[n].next # NULL PROVE Tight(heap', n, heap'[n].next)
    BY <1>4, <2>2, <2>3 DEF Tight
  <2>4. QED
    BY <2>1, <2>3 DEF AllTight
<1>7. QED
  BY <1>5, <1>6

\* ... the reserved node behind it ends where it did, ...
LEMMA TightExtend ==
  ASSUME ListTypeOK, ListTypeOK', RepairingElf, ExtendReserved, AllTight(heap, List)
  PROVE  AllTight(heap', List')
<1> DEFINE t == this_region
           u == next_region
<1>1. /\ LoopOver /\ u # NULL /\ heap[u].type = SYSINFO_MT_RESERVED /\ mem_regions' = mem_regions
      /\ ~Free(heap, u)
  BY ElfReturns DEF ExtendReserved, Free, SYSINFO_MT_RESERVED, SYSINFO_MT_USABLE
<1>2. /\ List \subseteq 1 .. Len(heap) /\ Len(heap) \in Nat
      /\ mem_regions \in 1 .. Len(heap) /\ Line(heap, mem_regions, List)
      /\ t \in 1 .. Len(heap) /\ u = heap[t].next /\ u \in 1 .. Len(heap)
      /\ End(heap, t) <= heap[u].base_addr /\ RightOf(heap, t) = End(heap, t)
  BY <1>1, ElfEnds
<1>3. /\ Len(heap') = Len(heap)
      /\ \A m \in 1 .. Len(heap) :
            /\ heap'[m].next = heap[m].next /\ heap'[m].type = heap[m].type
            /\ m # u => heap'[m].size = heap[m].size /\ heap'[m].base_addr = heap[m].base_addr
      /\ heap'[u].base_addr = End(heap, t)
      /\ heap'[u].size = (heap[u].size + heap[u].base_addr - RightOf(heap, t)) % ADDR_MOD
  BY <1>2, ExtendWrites
<1>4. List' = List
  BY <1>1, <1>2, <1>3, ListFrame
<1>5. SUFFICES ASSUME NEW n \in List, heap'[n].next # NULL, Free(heap', heap'[n].next)
               PROVE  Tight(heap', n, heap'[n].next)
  BY <1>4 DEF AllTight, Tight
<1>6. /\ heap'[n].next = heap[n].next /\ n \in 1 .. Len(heap)
  BY <1>2, <1>3
<1>7. /\ heap[n].next \in 1 .. Len(heap) /\ Tight(heap, n, heap[n].next)
  BY <1>2, <1>5, <1>6, ListNumbers DEF AllTight
<1>8. heap[n].next # u
  BY <1>1, <1>2, <1>3, <1>5, <1>6 DEF Free
<1>9. n \in List /\ n = u => End(heap', u) = End(heap, u)
  <2>1. SUFFICES ASSUME u \in List PROVE End(heap', u) = End(heap, u)
    OBVIOUS
  <2>2. /\ heap[u].base_addr \in Nat /\ heap[u].size \in Nat /\ End(heap, t) \in Nat
        /\ End(heap, u) < ADDR_MOD
    BY <1>1, <1>2, <2>1, ElfEnds, ListNumbers DEF Shape, Sized
  <2>3. heap[u].size + heap[u].base_addr - RightOf(heap, t) \in 0 .. ADDR_MOD - 1
    <3>1. /\ End(heap, t) <= heap[u].base_addr /\ RightOf(heap, t) = End(heap, t)
          /\ End(heap, u) = heap[u].base_addr + heap[u].size
      BY <1>2 DEF End
    <3> HIDE DEF t, u
    <3>2. QED
      BY ONLY <2>2, <3>1, AddrModAssumption
  <2>4. \A x \in 0 .. ADDR_MOD - 1 : x % ADDR_MOD = x
    BY AddrModAssumption
  <2>5. heap'[u].size = heap[u].size + heap[u].base_addr - RightOf(heap, t)
    BY <1>3, <2>3, <2>4
  <2>6. QED
    BY <1>2, <1>3, <2>2, <2>5 DEF End
<1>10. End(heap', n) = End(heap, n)
  BY <1>3, <1>6, <1>9 DEF End
<1>11. QED
  BY <1>3, <1>6, <1>7, <1>8, <1>10, TightFrame

\* ... or the node put between them ends where the next begins.
LEMMA TightPad ==
  ASSUME ListTypeOK, ListTypeOK', RepairingElf, PadGap, AllTight(heap, List)
  PROVE  AllTight(heap', List')
<1> DEFINE t == this_region
           u == next_region
<1> PICK q \in Nat : q = Len(heap) + 1
  BY DEF ListTypeOK, HeapOK
<1>1. /\ LoopOver /\ u # NULL /\ RightOf(heap, t) < heap[u].base_addr
      /\ mem_regions' = mem_regions
  BY ElfReturns DEF PadGap, GapRight
<1>2. /\ List \subseteq 1 .. Len(heap) /\ Len(heap) \in Nat
      /\ mem_regions \in 1 .. Len(heap) /\ Line(heap, mem_regions, List)
      /\ t \in 1 .. Len(heap) /\ u = heap[t].next /\ u \in 1 .. Len(heap)
      /\ RightOf(heap, t) = End(heap, t)
  BY <1>1, ElfEnds
<1>3. /\ Len(heap') = Len(heap) + 1
      /\ \A m \in 1 .. Len(heap) :
            /\ Same(heap, heap', m)
            /\ heap'[m].next = IF m = t THEN q ELSE heap[m].next
      /\ heap'[q].next = u /\ ~Free(heap', q)
      /\ heap'[q].base_addr = End(heap, t)
      /\ heap'[q].size = heap[u].base_addr - End(heap, t)
  BY <1>2, PadWrites DEF Same, Free, SYSINFO_MT_RESERVED, SYSINFO_MT_USABLE
<1>4. q \notin List /\ q \notin 1 .. Len(heap) /\ q \in 1 .. Len(heap')
  BY <1>2, <1>3
<1>5. ASSUME NEW n \in List, heap'[n].next # NULL PROVE Tight(heap', n, heap'[n].next)
  <2>1. CASE n = t
    BY <1>2, <1>3, <2>1 DEF Tight
  <2>2. CASE n # t
    <3>1. heap'[n].next = heap[n].next /\ n \in 1 .. Len(heap)
      BY <1>2, <1>3, <2>2
    <3>2. heap[n].next \in 1 .. Len(heap) /\ Tight(heap, n, heap[n].next)
      BY <1>2, <1>5, <3>1, ListNumbers DEF AllTight
    <3>3. QED
      BY <1>3, <3>1, <3>2, TightFrame DEF Same, End
  <2>3. QED
    BY <2>1, <2>2
<1>6. CASE t \notin List
  <2>1. \A n \in List : heap'[n].next = heap[n].next
    BY <1>2, <1>3, <1>6
  <2>2. List' = List
    BY <1>1, <1>2, <1>3, <2>1, ListFrame
  <2>3. QED
    BY <1>5, <2>2 DEF AllTight
<1>7. CASE t \in List
  <2>1. \A n \in List : n # t => heap'[n].next = heap[n].next
    BY <1>2, <1>3
  <2>2. heap'[t].next = q /\ heap'[q].next = heap[t].next /\ Len(heap) <= Len(heap')
    BY <1>2, <1>3
  <2>3. List' = List \cup {q}
    BY <1>1, <1>2, <1>4, <1>7, <2>1, <2>2, ListInsert
  <2>4. Tight(heap', q, heap'[q].next)
    <3>1. /\ heap[u].base_addr \in Nat /\ End(heap, t) \in Nat
          /\ heap'[u].base_addr = heap[u].base_addr
      BY <1>2, <1>3, ListNumbers DEF Same
    <3>2. End(heap', q) = heap[u].base_addr
      BY <1>3, <3>1 DEF End
    <3>3. QED
      BY <1>3, <3>1, <3>2 DEF Tight
  <2>5. QED
    BY <1>5, <2>3, <2>4 DEF AllTight
<1>8. QED
  BY <1>6, <1>7

\* No step of a repair makes a usable region overlap what it did not.
LEMMA TightFix ==
  ASSUME ListTypeOK, ListTypeOK', pc = "fix", RepairingElf, FixRight, pc' # "panic",
         AllTight(heap, List)
  PROVE  AllTight(heap', List')
<1>1. ~SplitPanic /\ ~PadPanic
  BY DEF SplitPanic, PadPanic, AllocPanic
<1>2. CASE NoPadding
  <2>1. heap' = heap /\ List' = List
    BY <1>2, ElfReturns DEF NoPadding, List
  <2>2. QED
    BY <2>1
<1>3. QED
  BY <1>1, <1>2, TightDrop, TightTrim, TightCut, TightSplit, TightMerge, TightExtend, TightPad
  DEF FixRight

\* No segment ends before it begins.
LEMMA TightBegins ==
  ASSUME segments \in Seq(SEGMENTS), NEW b, NEW e, IsSegment(b, e)
  PROVE  b <= e
<1>1. PICK j \in 1 .. Len(segments) :
        segments[j].p_vaddr = b /\ segments[j].p_vaddr + segments[j].p_memsz = e
  BY DEF IsSegment
<1>2. segments[j] \in Segments
  BY ElementOfSeq, SegmentsAssumption
<1>3. segments[j].p_vaddr \in Nat /\ segments[j].p_memsz \in Nat
  BY <1>2, PtrModAssumption, AddrModAssumption DEF Segments, PtrAddresses
<1>4. QED
  BY <1>1, <1>3

\* The segment is linked before a usable region only where both begin at the same address.
LEMMA TightLink ==
  ASSUME ListTypeOK, ListTypeOK', WalkingElf, LinkAfter, AllTight(heap, List),
         segments \in Seq(SEGMENTS), Len(segments) \in 1 .. Len(segments)
  PROVE  AllTight(heap', List')
<1> DEFINE p == prev
           c == current
           s == new_region
<1>1. mem_regions' = mem_regions /\ p # NULL /\ ~BeforeNew
  BY DEF LinkAfter, EnterFix
<1>2. /\ Sound /\ ElfNode /\ Clear /\ s \notin List
      /\ heap[s].base_addr = Segment.p_vaddr /\ heap[s].size = Segment.p_memsz
      /\ p \in List /\ heap[p].base_addr < heap[s].base_addr /\ heap[p].next = c
  BY <1>1 DEF WalkingElf, Left
<1>3. /\ Len(heap) \in Nat /\ List \subseteq 1 .. Len(heap)
      /\ mem_regions \in 1 .. Len(heap) /\ Line(heap, mem_regions, List)
      /\ Closed(heap, List) /\ EdgesBut(heap, List, {})
      /\ s \in 1 .. Len(heap) /\ ~Free(heap, s)
      /\ p \in 1 .. Len(heap) /\ p # s /\ s # NULL
  BY <1>2, ListNumbers
  DEF Sound, Shape, Line, ElfNode, Free, NULL, SYSINFO_MT_ELF_EXECUTABLE, SYSINFO_MT_USABLE
<1>4. \A n \in 1 .. Len(heap) :
         heap[n].base_addr \in Nat /\ heap[n].size \in Nat /\ End(heap, n) \in Nat
  BY ListNumbers
<1>5. /\ Len(heap') = Len(heap)
      /\ \A m \in 1 .. Len(heap) :
            /\ Same(heap, heap', m)
            /\ heap'[m].next = IF m = p THEN s ELSE IF m = s THEN c ELSE heap[m].next
  BY <1>3, LinkWrites
<1>6. List' = List \cup {s}
  <2>1. \A n \in List : n # p => heap'[n].next = heap[n].next
    BY <1>2, <1>3, <1>5
  <2>2. heap'[p].next = s /\ heap'[s].next = heap[p].next /\ Len(heap) <= Len(heap')
        /\ s \in 1 .. Len(heap')
    BY <1>2, <1>3, <1>5
  <2>3. QED
    BY <1>1, <1>2, <1>3, <2>1, <2>2, ListInsert
<1>7. SUFFICES ASSUME NEW n \in List \cup {s}, heap'[n].next # NULL
               PROVE  Tight(heap', n, heap'[n].next)
  BY <1>6 DEF AllTight
<1>8. CASE n = p
  <2>1. heap'[n].next = s /\ ~Free(heap', s)
    BY <1>3, <1>5, <1>8 DEF Free, Same
  <2>2. QED
    BY <2>1 DEF Tight
<1>9. CASE n \in List /\ n # p
  <2>1. heap'[n].next = heap[n].next /\ n \in 1 .. Len(heap)
    BY <1>2, <1>3, <1>5, <1>9
  <2>2. heap[n].next \in 1 .. Len(heap) /\ Tight(heap, n, heap[n].next)
    BY <1>3, <1>7, <1>9, <2>1 DEF AllTight, Closed
  <2>3. QED
    BY <1>5, <2>1, <2>2, TightFrame DEF End, Same
<1>10. CASE n = s
  <2>1. heap'[n].next = c /\ c # NULL
    BY <1>3, <1>5, <1>7, <1>10
  <2>2. c \in List /\ c \in 1 .. Len(heap) /\ Tight(heap, p, c) /\ Edge(heap, p, c)
    BY <1>2, <1>3, <2>1 DEF AllTight, Closed, EdgesBut
  <2>3. SUFFICES ASSUME Free(heap, c) PROVE IsSegment(heap[c].base_addr, End(heap, s))
    BY <1>3, <1>5, <1>10, <2>1, <2>2 DEF Tight, Same, Free, End
  <2>4. ~Free(heap, p)
    BY <2>2, <2>3 DEF Edge
  <2>5. End(heap, p) <= heap[s].base_addr
    <3>1. End(heap, p) <= heap[s].base_addr \/ End(heap, s) <= heap[p].base_addr
      BY <1>2, <2>4 DEF Clear
    <3>2. heap[s].base_addr <= End(heap, s)
      BY <1>3, <1>4 DEF End
    <3>3. /\ heap[s].base_addr \in Nat /\ End(heap, s) \in Nat
          /\ heap[p].base_addr \in Nat /\ heap[p].base_addr < heap[s].base_addr
      BY <1>2, <1>3, <1>4
    <3>4. QED
      BY <3>1, <3>2, <3>3
  <2>6. heap[c].base_addr <= End(heap, p)
    <3>1. CASE End(heap, p) = heap[c].base_addr
      BY <1>3, <1>4, <3>1
    <3>2. CASE IsSegment(heap[c].base_addr, End(heap, p))
      BY ONLY <3>2, TightBegins, segments \in Seq(SEGMENTS)
    <3>3. QED
      BY <2>2, <2>3, <2>4, <3>1, <3>2 DEF Tight
  <2>7. heap[c].base_addr >= heap[s].base_addr
    <3>1. ~ (heap[c].base_addr < heap[s].base_addr)
      BY <1>1, <2>1 DEF BeforeNew
    <3>2. heap[c].base_addr \in Nat /\ heap[s].base_addr \in Nat
      BY <1>3, <1>4, <2>2
    <3>3. QED
      BY ONLY <3>1, <3>2
  <2>8. heap[c].base_addr = heap[s].base_addr
    BY <1>3, <1>4, <2>2, <2>5, <2>6, <2>7
  <2>9. QED
    BY <1>2, <2>8 DEF IsSegment, Segment, End
<1>11. QED
  BY <1>8, <1>9, <1>10

\* A segment more takes nothing back.
LEMMA TightStays ==
  ASSUME ListTypeOK, Sound, AllTight(heap, List), List' = List,
         \A n \in 1 .. Len(heap) : heap'[n] = heap[n],
         Len(segments) \in Nat, Len(segments') \in Nat, Len(segments) <= Len(segments'),
         \A i \in 1 .. Len(segments) : segments'[i] = segments[i]
  PROVE  AllTight(heap, List)'
<1>1. \A b, e : IsSegment(b, e) => IsSegment(b, e)'
  <2>1. SUFFICES ASSUME NEW b, NEW e, IsSegment(b, e) PROVE IsSegment(b, e)'
    OBVIOUS
  <2>2. PICK j \in 1 .. Len(segments) :
          segments[j].p_vaddr = b /\ segments[j].p_vaddr + segments[j].p_memsz = e
    BY <2>1 DEF IsSegment
  <2>3. j \in 1 .. Len(segments') /\ segments'[j] = segments[j]
    OBVIOUS
  <2>4. QED
    BY <2>2, <2>3 DEF IsSegment
<1>2. SUFFICES ASSUME NEW n \in List, heap'[n].next # NULL
               PROVE  Tight(heap, n, heap[n].next)'
  BY DEF AllTight
<1> DEFINE q == heap[n].next
<1>3. List \subseteq 1 .. Len(heap) /\ Closed(heap, List)
  BY ListNumbers DEF Sound, Shape, Line
<1>4. heap'[n] = heap[n]
  BY <1>3
<1>5. q \in 1 .. Len(heap) /\ Tight(heap, n, q)
  BY <1>2, <1>3, <1>4 DEF AllTight, Closed
<1>6. heap'[q] = heap[q]
  BY <1>5
<1>7. QED
  BY <1>1, <1>4, <1>5, <1>6 DEF Tight, Free, End

\* The map get_sysinfo hands over has no overlap at all.
LEMMA TightReady ==
  ASSUME LoadInv, TightInv, InElfLoad
  PROVE  AllTight(heap, List)
<1>1. pc = "done" /\ result = "SYSINFO_SUCCESS"
  BY DEF InElfLoad
<1>2. CASE LoadPhase
  BY <1>2 DEF TightInv
<1>3. CASE ~LoadPhase
  <2>1. MapPhase
    BY <1>1, <1>3 DEF MapPhase
  <2>2. Contiguous(heap, List)
    BY <1>1, <2>1 DEF LoadInv, MapInv, OrderedInv, MapControl, Complete
  <2>3. QED
    BY <2>2 DEF Contiguous, AllTight, Tight
<1>4. QED
  BY <1>2, <1>3

\* A step of elf_load or of get_stack_pointer.
LEMMA ElfNextTight ==
  ASSUME LoadInv, OrderedMap, SegmentsFit, TightInv, ElfNext
  PROVE  TightInv'
<1>1. /\ ListTypeOK /\ ListTypeOK' /\ segments \in Seq(SEGMENTS) /\ Len(segments) \in Nat
      /\ heap \in Seq(Regions) /\ Len(heap) \in Nat
  <2>1. ElfInv /\ ElfInv'
    BY ElfNextInv DEF LoadInv
  <2>2. ListTypeOK /\ ListTypeOK' /\ segments \in Seq(SEGMENTS)
    BY <2>1 DEF ElfInv, ElfTypeOK
  <2>3. QED
    BY <2>2, ListNumbers, LenProperties DEF HeapOK
<1>2. ASSUME NEW s \in SEGMENTS, AcceptSegment(s) PROVE TightInv'
  <2>1. InElfLoad
    BY <1>2 DEF AcceptSegment
  <2>2. Sound /\ AllTight(heap, List)
    BY <2>1, ElfLoadIsReady, TightReady
  <2>3. /\ Len(segments') = Len(segments) + 1 /\ List' = List
        /\ \A i \in 1 .. Len(segments) : segments'[i] = segments[i]
    BY <1>1, <1>2, <2>2, ElfCalled
  <2>4. \A n \in 1 .. Len(heap) : heap'[n] = heap[n]
    <3>1. heap' = Append(heap, Region(s.p_vaddr, s.p_memsz, SYSINFO_MT_ELF_EXECUTABLE))
      BY <1>2 DEF AcceptSegment, CallInsert
    <3>2. QED
      BY <1>1, <3>1
  <2>5. QED
    BY <1>1, <2>2, <2>3, <2>4, TightStays DEF TightInv
<1>3. ASSUME pc' = "panic" PROVE TightInv'
  BY <1>3 DEF TightInv, LoadPhase
<1>4. ASSUME Sound, AllTight(heap, List), UNCHANGED <<heap, mem_regions, segments>>
      PROVE  TightInv'
  <2>1. List' = List
    BY <1>4 DEF List
  <2>2. QED
    BY <1>1, <1>4, <2>1, TightStays DEF TightInv
<1>5. ASSUME InElfLoad, UNCHANGED <<heap, mem_regions, segments>> PROVE TightInv'
  BY <1>4, <1>5, ElfLoadIsReady, TightReady
<1>6. ASSUME pc \in {"load", "stack"}, UNCHANGED <<heap, mem_regions, segments>>
      PROVE  TightInv'
  <2>1. LoadPhase
    BY <1>6 DEF LoadInv, ElfInv, LoadPhase, StackPcs
  <2>2. Sound /\ AllTight(heap, List)
    BY <1>6, <2>1 DEF LoadInv, LoadShape, TightInv
  <2>3. QED
    BY <1>4, <1>6, <2>2
<1>7. ASSUME NEW s \in SEGMENTS, AcceptSegmentPanic(s) PROVE TightInv'
  BY <1>3, <1>7 DEF AcceptSegmentPanic, AllocPanic
<1>8. ASSUME \/ \E s \in SEGMENTS : RejectSegment(s)
             \/ ReadHeaderFails \/ LoadDone
      PROVE  TightInv'
  BY <1>5, <1>8 DEF RejectSegment, ReadHeaderFails, LoadDone, listVars, ListUnchanged
<1>9. CASE ReadSegment \/ ReadSegmentFails \/ ScanRegion \/ Transfer \/ NoSpaceForStack
  BY <1>6, <1>9
  DEF ReadSegment, ReadSegmentFails, ScanRegion, Transfer, NoSpaceForStack, listVars,
      ListUnchanged, elfVars
<1>10. QED
  BY <1>2, <1>7, <1>8, <1>9 DEF ElfNext

\* A step of insert_sorted for elf_load.
LEMMA ListStepTight ==
  ASSUME LoadInv, LoadPhase, TightInv, ListStep, UNCHANGED elfVars, ElfInv'
  PROVE  TightInv'
<1>1. InsertSorted /\ segments' = segments
  BY DEF ListStep, elfVars
<1>2. ListTypeOK /\ ListTypeOK' /\ segments \in Seq(SEGMENTS) /\ AllTight(heap, List)
  BY DEF LoadInv, ElfInv, ElfTypeOK, TightInv
<1>3. SUFFICES ASSUME pc' # "panic" PROVE AllTight(heap', List')
  <2>1. ASSUME AllTight(heap', List') PROVE AllTight(heap, List)'
    BY <1>1, <2>1 DEF AllTight, Tight, IsSegment, Free, End
  <2>2. QED
    BY <1>3, <2>1 DEF TightInv, LoadPhase
<1>4. pc \in {"walk", "fix"}
  BY <1>1 DEF InsertSorted, Walk, LinkFirst, LinkHead, LinkAfter, FixRight, DropNext,
     TrimNext, CutThis, SplitThis, SplitPanic, MergeRight, ExtendReserved, PadGap, PadPanic,
     NoPadding, LoopOver, Overlapping
<1>5. CASE pc = "walk"
  <2>1. WalkingElf
    BY <1>5 DEF LoadInv, LoadShape
  <2>2. CASE Walk
    <3>1. List' = List /\ heap' = heap
      BY <1>1, <1>2, <1>5, <2>1, <2>2, ElfWalk
    <3>2. QED
      BY <1>2, <3>1
  <2>3. CASE LinkAfter
    <3>1. ret = "load"
      BY <1>5 DEF LoadPhase, StackPcs
    <3>2. segments # <<>>
      BY <3>1 DEF LoadInv, ElfInv
    <3>3. Len(segments) \in 1 .. Len(segments)
      BY <1>2, <3>2, EmptySeq
    <3>4. QED
      BY <1>2, <2>1, <2>3, <3>3, TightLink
  <2>4. QED
    BY <1>1, <1>2, <1>5, <2>1, <2>2, <2>3, ElfNeverFirst
    DEF InsertSorted, FixRight, DropNext, TrimNext, CutThis, SplitThis, SplitPanic, MergeRight,
        ExtendReserved, PadGap, PadPanic, NoPadding, LoopOver, Overlapping
<1>6. CASE pc = "fix"
  <2>1. RepairingElf
    BY <1>6 DEF LoadInv, LoadShape
  <2>2. FixRight
    BY <1>1, <1>6 DEF InsertSorted, Walk, LinkFirst, LinkHead, LinkAfter
  <2>3. QED
    BY <1>2, <1>3, <1>6, <2>1, <2>2, TightFix
<1>7. QED
  BY <1>4, <1>5, <1>6

\* Every step of the boot.
LEMMA TightNext ==
  ASSUME LoadInv, TightInv, OrderedMap, SegmentsFit, [BootNext]_bootVars
  PROVE  TightInv'
<1>1. CASE SysInfoNext /\ UNCHANGED elfVars
  <2>1. ElfInv'
    BY <1>1, SysInfoNextInv DEF LoadInv
  <2>2. CASE LoadPhase
    <3>1. pc \notin {"e820", "rsdp"}
      BY <2>2 DEF LoadPhase, StackPcs, LoadInv, MapControl
    <3>2. ListStep
      BY <1>1, <3>1
      DEF SysInfoNext, NextRegion, NextRegionPanic, LastRegion, NoMoreRegions, SearchRsdp
    <3>3. QED
      BY <1>1, <2>1, <2>2, <3>2, ListStepTight
  <2>3. CASE MapPhase
    <3>1. SysInfoTypeOK
      BY <2>3 DEF LoadInv, MapInv
    <3>2. SysInfoTypeOK'
      BY <1>1, <3>1, NextType
    <3>3. ~LoadPhase'
      BY <3>2 DEF SysInfoTypeOK, LoadPhase, StackPcs
    <3>4. QED
      BY <3>3 DEF TightInv
  <2>4. pc # "panic"
    BY <1>1 DEF SysInfoNext, NextRegion, NextRegionPanic, LastRegion, NoMoreRegions, SearchRsdp,
       ListStep, InsertSorted, Walk, LinkFirst, LinkHead, LinkAfter, FixRight, DropNext, TrimNext,
       CutThis, SplitThis, SplitPanic, MergeRight, ExtendReserved, PadGap, PadPanic, NoPadding,
       LoopOver, Overlapping
  <2>5. QED
    BY <2>2, <2>3, <2>4 DEF MapPhase
<1>2. CASE ElfNext
  BY <1>2, ElfNextTight
<1>3. CASE UNCHANGED bootVars
  <2>1. UNCHANGED <<heap, mem_regions, pc, ret, segments>>
    BY <1>3 DEF bootVars, vars, listVars, elfVars
  <2>2. LoadPhase' = LoadPhase /\ List' = List
    BY <2>1 DEF LoadPhase, List
  <2>3. AllTight(heap, List) => AllTight(heap, List)'
    BY <2>1, <2>2 DEF AllTight, Tight, IsSegment, Free, End
  <2>4. QED
    BY <2>2, <2>3 DEF TightInv
<1>4. QED
  BY <1>1, <1>2, <1>3 DEF BootNext

\* Nothing follows the last node.
LEMMA NothingFollows ==
  ASSUME HeapOK(heap), NEW m, NEW p, m \in Live(heap, p)
  PROVE  p # NULL
<1>1. SUFFICES ASSUME p = NULL PROVE FALSE
  OBVIOUS
<1>2. Closed(heap, {}) /\ NULL \in 0 .. Len(heap)
  BY DEF Closed, NULL, HeapOK
<1>3. Live(heap, NULL) \subseteq {}
  BY <1>2, LiveLeast
<1>4. QED
  BY <1>1, <1>3

\* Every node but the head of the list has one before it.
LEMMA HasBefore ==
  ASSUME ListTypeOK, Sound, NEW x \in List, x # mem_regions
  PROVE  \E n \in List : heap[n].next = x
<1>1. SUFFICES ASSUME \A n \in List : heap[n].next # x PROVE FALSE
  OBVIOUS
<1> DEFINE S == List \ {x}
<1>2. /\ HeapOK(heap) /\ mem_regions \in 0 .. Len(heap) /\ mem_regions \in List
      /\ Closed(heap, List)
  BY ListNumbers DEF Sound, Shape, Line
<1>3. Closed(heap, S) /\ mem_regions \in S
  BY <1>1, <1>2 DEF Closed
<1>4. List \subseteq S
  <2> HIDE DEF S
  <2>1. Live(heap, mem_regions) \subseteq S
    BY <1>2, <1>3, LiveLeast
  <2>2. QED
    BY <2>1 DEF List
<1>5. QED
  BY <1>4

\* What is not usable at an address of a usable node x belongs to the node before x, or that
\* one reaches beyond the address.
LEMMA BeforeReaches ==
  ASSUME ListTypeOK, Sound, NEW n \in List, NEW x \in List, heap[n].next = x, x # NULL,
         Free(heap, x), NEW m \in List, ~Free(heap, m), NEW a \in Nat,
         heap[m].base_addr <= a, a < End(heap, m), a < End(heap, x)
  PROVE  ~Free(heap, n) /\ a < End(heap, n)
<1>1. /\ List \subseteq 1 .. Len(heap) /\ HeapOK(heap) /\ mem_regions \in 1 .. Len(heap)
      /\ Closed(heap, List) /\ EdgesBut(heap, List, {})
      /\ \A k \in List : /\ heap[k].base_addr \in Nat /\ heap[k].size \in Nat
                         /\ End(heap, k) \in Nat /\ heap[k].base_addr <= End(heap, k)
  <2>1. \A k \in List : heap[k].base_addr \in Nat /\ heap[k].size \in Nat /\ End(heap, k) \in Nat
    BY ListNumbers
  <2>2. \A k \in List : heap[k].base_addr <= End(heap, k)
    BY <2>1 DEF End
  <2>3. QED
    BY <2>1, <2>2, ListNumbers DEF Sound, Shape, Line
<1>2. Edge(heap, n, x) /\ ~Free(heap, n)
  BY <1>1 DEF EdgesBut, Edge
<1>3. CASE m = n
  BY <1>2, <1>3
<1>4. CASE n \in Live(heap, heap[m].next)
  <2>1. End(heap, m) <= heap[n].base_addr
    <3>1. heap[m].next # NULL
      BY <1>1, <1>4, NothingFollows
    <3>2. Past(End(heap, m), n)
      BY <1>4, <3>1, FollowersArePast
    <3>3. QED
      BY <1>2, <3>2 DEF Past
  <2>2. QED
    BY <1>1, <1>2, <2>1
<1>5. CASE m \in Live(heap, x) /\ m # n
  <2> DEFINE y == heap[x].next
  <2>1. Live(heap, x) = {x} \cup Live(heap, y)
    BY <1>1, LiveCons
  <2>2. m \in Live(heap, y)
    BY <1>5, <2>1 DEF Free
  <2>3. y # NULL
    BY <1>1, <2>2, NothingFollows
  <2>4. y \in List /\ Edge(heap, x, y)
    BY <1>1, <2>3 DEF Closed, EdgesBut
  <2>5. ~Free(heap, y) /\ End(heap, x) = heap[y].base_addr
    BY <2>4 DEF Edge
  <2>6. heap[y].base_addr <= heap[m].base_addr
    <3>1. CASE m = y
      BY <1>1, <2>4, <3>1
    <3>2. CASE m # y
      <4>1. m \in Live(heap, heap[y].next)
        <5>1. y \in 1 .. Len(heap) /\ HeapOK(heap)
          BY <1>1, <2>4
        <5> HIDE DEF y
        <5>2. Live(heap, y) = {y} \cup Live(heap, heap[y].next)
          BY <5>1, LiveCons
        <5>3. m \in Live(heap, y)
          BY <2>2 DEF y
        <5>4. QED
          BY <3>2, <5>2, <5>3
      <4>2. heap[y].next # NULL
        BY <1>1, <2>4, <4>1, NothingFollows
      <4>3. Past(End(heap, y), m)
        BY <2>4, <2>5, <4>1, <4>2, FollowersArePast
      <4>4. End(heap, y) <= heap[m].base_addr
        BY <4>3 DEF Past
      <4> HIDE DEF y
      <4>5. QED
        <5>1. /\ heap[y].base_addr \in Nat /\ End(heap, y) \in Nat
              /\ heap[m].base_addr \in Nat /\ heap[y].base_addr <= End(heap, y)
          BY <1>1, <2>4
        <5>2. QED
          BY ONLY <4>4, <5>1
    <3>3. QED
      BY <3>1, <3>2
  <2> HIDE DEF y
  <2>7. QED
    BY <1>1, <2>4, <2>5, <2>6
<1>6. QED
  BY <1>1, <1>3, <1>4, <1>5, OneFollows

\* No byte of the binary is in a usable region of the list main hands to it, but where a
\* segment begins at the address a usable region begins at: those two overlap, and nothing
\* else does.
THEOREM BinaryIsNotUsable ==
  ASSUME OrderedMap, SegmentsFit
  PROVE  BootSpec => []BinaryNotUsable
<1>1. ElfInit => LoadInv /\ TightInv
  BY LoadInit DEF TightInv, LoadPhase, StackPcs, ElfInit, SysInfoInit, ListInit
<1>2. LoadInv /\ TightInv /\ [BootNext]_bootVars => (LoadInv /\ TightInv)'
  BY LoadNext, TightNext
<1>3. LoadInv /\ TightInv => BinaryNotUsable
  <2>1. SUFFICES ASSUME LoadInv, TightInv, Loaded, NEW x \in InList, Free(heap, x),
                        NEW i \in 1 .. Len(segments), NEW a \in Extent(x), a \in SegmentBytes(i)
                 PROVE  heap[x].base_addr = segments[i].p_vaddr
    BY DEF BinaryNotUsable, Free
  <2>2. ListTypeOK /\ segments[i] \in SEGMENTS /\ Len(segments) \in Nat
    BY <2>1, HistoryNumbers DEF LoadInv, ElfInv, ElfTypeOK
  <2>3. LoadPhase /\ pc \notin {"walk", "fix"}
    <3>1. pc \in {"done", "load", "stack", "running"}
      BY <2>1 DEF Loaded
    <3>2. ~MapPhase
      <4>1. SUFFICES ASSUME MapPhase PROVE FALSE
        OBVIOUS
      <4>2. segments = <<>>
        BY <2>1, <4>1 DEF LoadInv, MapControl
      <4>3. QED
        BY <2>1, <4>2
    <3>3. QED
      BY <3>1, <3>2 DEF MapPhase
  <2>4. Sound /\ OccupiedHeld /\ AllTight(heap, List)
    BY <2>1, <2>3 DEF LoadInv, LoadShape, Held, TightInv
  <2>5. ListedSegments = Len(segments)
    BY <2>3 DEF ListedSegments
  <2>6. \A j \in 1 .. Len(segments) : segments[j].p_vaddr \in Nat /\ segments[j].p_memsz \in Nat
    BY <2>1, HistoryNumbers, SegmentNumbers DEF LoadInv
  <2>7. In(segments[i], a)
    BY <2>1, <2>2, <2>6, BytesAreIn DEF SegmentBytes
  <2>8. a \in Addresses /\ a \in Nat
    <3>1. Bytes(segments[i], segments[i].p_memsz) \subseteq PtrAddresses
      BY <2>2, <2>6, BytesType, SegmentsAssumption
    <3>2. QED
      BY <2>1, <3>1, PtrModAssumption, AddrModAssumption
      DEF SegmentBytes, PtrAddresses, Addresses
  <2>9. HeldAt(heap, List, a, SYSINFO_MT_ELF_EXECUTABLE)
    BY <2>4, <2>5, <2>7, <2>8, TypeOfReport DEF OccupiedHeld, Occupied
  <2>10. PICK m \in List : ~Free(heap, m) /\ heap[m].base_addr <= a /\ a < End(heap, m)
    BY <2>9 DEF HeldAt
  <2>11. /\ x \in List /\ x \in 1 .. Len(heap) /\ x # NULL
         /\ heap[x].base_addr \in Nat /\ heap[x].base_addr <= a /\ a < End(heap, x)
    <3>1. x \in List
      BY InListIsLive DEF List
    <3>2. /\ x \in 1 .. Len(heap) /\ heap[x].base_addr \in Nat /\ End(heap, x) \in Nat
          /\ RightOf(heap, x) = End(heap, x)
      BY <2>2, <2>4, <3>1, ListNumbers DEF Sound, Shape, Sized
    <3>3. Extent(x) = heap[x].base_addr .. End(heap, x) - 1
      BY <3>2 DEF Extent
    <3>4. QED
      BY <2>8, <3>1, <3>2, <3>3 DEF NULL
  <2>12. x # mem_regions
    BY <2>1, <2>4 DEF Sound, Shape, LowHead, Free, SYSINFO_MT_RESERVED, SYSINFO_MT_USABLE
  <2>13. PICK n \in List : heap[n].next = x
    BY <2>2, <2>4, <2>11, <2>12, HasBefore
  <2>14. ~Free(heap, n) /\ a < End(heap, n) /\ End(heap, n) \in Nat
    BY <2>1, <2>2, <2>4, <2>8, <2>10, <2>11, <2>13, BeforeReaches, ListNumbers
  <2>15. IsSegment(heap[x].base_addr, End(heap, n))
    BY <2>1, <2>4, <2>8, <2>11, <2>13, <2>14 DEF AllTight, Tight
  <2>16. PICK j \in 1 .. Len(segments) :
            /\ segments[j].p_vaddr = heap[x].base_addr
            /\ segments[j].p_vaddr + segments[j].p_memsz = End(heap, n)
    BY <2>15 DEF IsSegment
  <2>17. j = i
    <3>1. SUFFICES ASSUME j # i PROVE FALSE
      OBVIOUS
    <3>2. \/ segments[i].p_vaddr + segments[i].p_memsz <= segments[j].p_vaddr
          \/ segments[j].p_vaddr + segments[j].p_memsz <= segments[i].p_vaddr
      BY <2>1, <3>1 DEF LoadInv, SegmentsAccepted
    <3>3. /\ segments[i].p_vaddr \in Nat /\ segments[i].p_memsz \in Nat
          /\ segments[j].p_vaddr \in Nat /\ segments[j].p_memsz \in Nat
      BY <2>6
    <3>4. segments[i].p_vaddr <= a /\ a < segments[i].p_vaddr + segments[i].p_memsz
      BY <2>7 DEF In
    <3>5. segments[j].p_vaddr <= a /\ a < segments[j].p_vaddr + segments[j].p_memsz
      BY <2>11, <2>14, <2>16
    <3>6. QED
      BY <2>8, <3>2, <3>3, <3>4, <3>5
  <2>18. QED
    BY <2>16, <2>17
<1>4. QED
  BY <1>1, <1>2, <1>3, PTL DEF BootSpec
=============================================================================
