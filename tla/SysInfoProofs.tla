--------------------------- MODULE SysInfoProofs ---------------------------
(***************************************************************************)
(* What holds of get_sysinfo for every set of regions the firmware may     *)
(* report, in any order and however they overlap, for every address width, *)
(* size of the static stack and REAL_MODE_LIMIT: type correctness, and     *)
(* that the memory of real mode ends up reserved.                          *)
(***************************************************************************)
EXTENDS SysInfo, RegionListProofs

\* Whatever the firmware says, the list gets a well-formed node.
LEMMA ConvertType ==
  ASSUME NEW r \in E820Regions
  PROVE  convert_region(r) \in Regions /\ convert_region(r).next = NULL
<1>1. convert_type(r.type) \in MemTypes
  BY DEF convert_type, MemTypes, SYSINFO_MT_USABLE, SYSINFO_MT_RECLAIMABLE,
         SYSINFO_MT_ELF_EXECUTABLE, SYSINFO_MT_ACPI_NVS, SYSINFO_MT_BAD, SYSINFO_MT_RESERVED
<1>2. QED
  BY <1>1 DEF convert_region, Region, Regions, E820Regions, NULL

LEMMA ReservedType == Reserved \in Regions /\ Reserved.next = NULL
BY RealModeLimitAssumption, AddrModAssumption
   DEF Reserved, Region, Regions, Addresses, MemTypes, NULL, SYSINFO_MT_USABLE, SYSINFO_MT_RESERVED

LEMMA InitType == SysInfoInit => SysInfoTypeOK
<1> SUFFICES ASSUME SysInfoInit PROVE SysInfoTypeOK
  OBVIOUS
<1>1. HeapOK(heap)
  BY MaxRegionsAssumption DEF SysInfoInit, ListInit, HeapOK
<1>2. 0 \in Addresses /\ Len(heap) = 0
  BY AddrModAssumption DEF Addresses, SysInfoInit, ListInit
<1>3. QED
  BY <1>1, <1>2 DEF SysInfoInit, ListInit, SysInfoTypeOK, ListTypeOK, Pointers, NULL, Results

\* A region the firmware reports is appended to the history.
LEMMA ReportType ==
  ASSUME SysInfoTypeOK, NEW r \in NextReports, reported' = Append(reported, r)
  PROVE  /\ r \in E820Regions
         /\ reported' \in Seq(E820Regions)
         /\ Len(reported') = Len(reported) + 1
         /\ Len(reported) \in Nat
<1>1. r \in E820Regions
  BY BiosRegionsAssumption DEF NextReports
<1>2. QED
  BY <1>1, AppendProperties DEF SysInfoTypeOK

LEMMA AfterLoopType ==
  ASSUME SysInfoTypeOK, AfterLoop
  PROVE  /\ ListTypeOK'
         /\ pc' \in {"walk", "rsdp", "done", "panic"}
         /\ ret' \in {"e820", "rsdp"}
         /\ result' \in Results
<1>1. CASE NoRegions
  BY <1>1 DEF NoRegions, SysInfoTypeOK, ListTypeOK, ListUnchanged, Pointers, Results
<1>2. CASE ReserveLow
  <2>1. ListTypeOK'
    BY <1>2, ReservedType, CallInsertType DEF ReserveLow, SysInfoTypeOK
  <2>2. QED
    BY <1>2, <2>1 DEF ReserveLow, CallInsert, SysInfoTypeOK
<1>3. CASE ReserveLowPanic
  BY <1>3, AllocPanicType DEF ReserveLowPanic, AllocPanic, SysInfoTypeOK
<1>4. QED
  BY <1>1, <1>2, <1>3 DEF AfterLoop

\* Where insert_sorted may leave the control.
LEMMA ListStepControl ==
  InsertSorted => pc' \in {"walk", "fix", "panic", pc, ret} /\ ret' = ret
BY DEF InsertSorted, FixRight, Walk, LinkFirst, LinkHead, LinkAfter, EnterFix, DropNext, TrimNext,
       CutThis, SplitThis, SplitPanic, MergeRight, ExtendReserved, PadGap, PadPanic, NoPadding,
       Return, FixUnchanged, AllocPanic

LEMMA NextType == SysInfoTypeOK /\ [SysInfoNext]_vars => SysInfoTypeOK'
<1> SUFFICES ASSUME SysInfoTypeOK, [SysInfoNext]_vars PROVE SysInfoTypeOK'
  OBVIOUS
<1>1. ASSUME NEW r \in NextReports, NextRegion(r) PROVE SysInfoTypeOK'
  <2>1. ListTypeOK'
    BY <1>1, ReportType, ConvertType, CallInsertType DEF NextRegion, SysInfoTypeOK
  <2>2. QED
    BY <1>1, <2>1, ReportType DEF NextRegion, CallInsert, SysInfoTypeOK
<1>2. ASSUME NEW r \in NextReports, NextRegionPanic(r) PROVE SysInfoTypeOK'
  BY <1>2, ReportType, AllocPanicType DEF NextRegionPanic, AllocPanic, SysInfoTypeOK
<1>3. ASSUME NEW r \in NextReports, LastRegion(r) PROVE SysInfoTypeOK'
  BY <1>3, ReportType, AfterLoopType DEF LastRegion, SysInfoTypeOK
<1>4. CASE NoMoreRegions
  BY <1>4, AfterLoopType DEF NoMoreRegions, SysInfoTypeOK
<1>5. CASE SearchRsdp
  BY <1>5 DEF SearchRsdp, SysInfoTypeOK, ListTypeOK, ListUnchanged, Pointers, Results
<1>6. CASE ListStep
  <2>1. ListTypeOK'
    BY <1>6, InsertSortedType DEF ListStep, SysInfoTypeOK
  <2>2. pc' \in {"walk", "fix", "panic", pc, ret} /\ ret' = ret
    BY <1>6, ListStepControl DEF ListStep
  <2>3. UNCHANGED <<reported, count, result>>
    BY <1>6 DEF ListStep, sysinfoVars
  <2>4. pc' \in {"e820", "walk", "fix", "rsdp", "done", "panic"}
    BY <1>6, <2>2 DEF ListStep, SysInfoTypeOK, ListTypeOK
  <2>5. QED
    BY <2>1, <2>2, <2>3, <2>4 DEF SysInfoTypeOK
<1>7. CASE UNCHANGED vars
  BY <1>7 DEF vars, listVars, sysinfoVars, SysInfoTypeOK, ListTypeOK, Pointers
<1>8. QED
  BY <1>1, <1>2, <1>3, <1>4, <1>5, <1>6, <1>7 DEF SysInfoNext

\* Throughout get_sysinfo every pointer of the list is null or points at an allocated
\* node, nothing but the walk of an inserted node and the repair of a node goes on,
\* and the static stack is never overrun.
THEOREM SysInfoTypeCorrect == Spec => []SysInfoTypeOK
BY InitType, NextType, PTL DEF Spec

-----------------------------------------------------------------------------
(* The low memory, for any map *)

\* What is assumed of the firmware's map: its reserved regions end before 2^64.  A
\* reserved region that borders on the low memory and ends at 2^64 would make the merged
\* node an empty one.
ReservedFits ==
  \A r \in BIOS_REGIONS :
    convert_type(r.type) = SYSINFO_MT_RESERVED => r.base_addr + r.size < ADDR_MOD

\* a reserved node does not wrap
Fits(h, n) == h[n].type = SYSINFO_MT_RESERVED => End(h, n) < ADDR_MOD

NodesFit == \A n \in 1 .. Len(heap) : Fits(heap, n)

\* what CutThis leaves behind: the loop goes on for ever
Stuck == Overlapping /\ NextWins /\ limit_right <= RightOf(heap, next_region)

\* The limit computed before the loop stays the end of the node being repaired.
LimitIsRight == pc = "fix" => limit_right = RightOf(heap, this_region) \/ Stuck

\* The head of the list is the reserved low memory.
LowHead(h, n) ==
  /\ n # NULL
  /\ h[n].base_addr = 0
  /\ h[n].size >= REAL_MODE_LIMIT
  /\ h[n].type = SYSINFO_MT_RESERVED

LowWalk ==
  (pc = "walk" /\ ret = "rsdp") =>
    /\ prev = NULL /\ current = mem_regions
    /\ new_region \in 1 .. Len(heap)
    /\ heap[new_region].base_addr = 0
    /\ heap[new_region].size = REAL_MODE_LIMIT
    /\ heap[new_region].type = SYSINFO_MT_RESERVED

LowRepair ==
  (pc = "fix" /\ ret = "rsdp") =>
    /\ this_region = mem_regions /\ pending = NULL
    /\ limit_right = REAL_MODE_LIMIT
    /\ LowHead(heap, mem_regions)

LowDone == (pc \in {"rsdp", "done"} /\ count > 0) => LowHead(heap, mem_regions)

LowParts == NodesFit /\ LimitIsRight /\ LowWalk /\ LowRepair /\ LowDone

LowInv == pc # "panic" => LowParts

\* While a node is repaired, it and its successor are nodes.
LEMMA RepairNodes ==
  ASSUME ListTypeOK, pc = "fix"
  PROVE  /\ this_region \in 1 .. Len(heap)
         /\ next_region # NULL => next_region \in 1 .. Len(heap)
<1>1. heap \in Seq(Regions) /\ Len(heap) \in Nat
      /\ \A n \in 1 .. Len(heap) : heap[n].next \in 0 .. Len(heap)
  BY ListNodes
<1>2. this_region \in 0 .. Len(heap) /\ this_region # 0
  BY DEF ListTypeOK, Pointers, NULL
<1>3. this_region \in 1 .. Len(heap)
  BY <1>1, <1>2
<1>4. QED
  BY <1>1, <1>3 DEF NULL, next_region, NextOf

\* The end of a node that does not wrap.
LEMMA EndIsRight ==
  ASSUME NEW h, HeapOK(h), NEW n \in 1 .. Len(h), End(h, n) < ADDR_MOD
  PROVE  RightOf(h, n) = End(h, n) /\ h[n].base_addr <= RightOf(h, n)
BY NodeNumbers DEF End

\* Nothing is inserted yet.
LEMMA InitLow == SysInfoInit => LowInv
<1> SUFFICES ASSUME SysInfoInit PROVE LowInv
  OBVIOUS
<1>1. Len(heap) = 0 /\ count = 0 /\ pc = "e820" /\ ret = "e820"
  BY DEF SysInfoInit, ListInit
<1>2. QED
  BY <1>1 DEF LowInv, LowParts, NodesFit, LimitIsRight, LowWalk, LowRepair, LowDone

\* A node is added to the heap.
LEMMA InsertFits ==
  ASSUME ListTypeOK, NodesFit, NEW r \in Regions, heap' = Append(heap, r),
         r.type = SYSINFO_MT_RESERVED => r.base_addr + r.size < ADDR_MOD
  PROVE  NodesFit' /\ heap'[Len(heap) + 1] = r /\ Len(heap) + 1 \in 1 .. Len(heap')
<1>1. heap \in Seq(Regions) /\ Len(heap) \in Nat
  BY ListNodes
<1>2. /\ Len(heap') = Len(heap) + 1
      /\ \A m \in 1 .. Len(heap) : heap'[m] = heap[m]
      /\ heap'[Len(heap) + 1] = r
  BY <1>1, Grown
<1>3. ASSUME NEW n \in 1 .. Len(heap') PROVE Fits(heap', n)
  <2>1. CASE n \in 1 .. Len(heap)
    BY <1>2, <2>1 DEF NodesFit, Fits, End
  <2>2. CASE n = Len(heap) + 1
    BY <1>2, <2>2 DEF Fits, End
  <2>3. QED
    BY <1>1, <1>2, <2>1, <2>2
<1>4. QED
  BY <1>1, <1>2, <1>3 DEF NodesFit

\* A reported region is allocated.
LEMMA NextRegionLow ==
  ASSUME SysInfoTypeOK, LowInv, ReservedFits, NEW r \in NextReports, NextRegion(r)
  PROVE  LowInv'
<1>1. /\ heap' = Append(heap, convert_region(r)) /\ pc = "e820" /\ ret' = "e820"
      /\ pc' \in {"e820", "walk"}
  BY DEF NextRegion, CallInsert
<1>2. r \in BIOS_REGIONS /\ r \in E820Regions
  BY BiosRegionsAssumption DEF NextReports
<1>3. convert_region(r) \in Regions
  BY <1>2, ConvertType
<1>4. convert_region(r).type = SYSINFO_MT_RESERVED =>
        convert_region(r).base_addr + convert_region(r).size < ADDR_MOD
  BY <1>2 DEF ReservedFits, convert_region, Region
<1>5. ListTypeOK /\ NodesFit
  BY <1>1 DEF SysInfoTypeOK, LowInv, LowParts
<1>6. NodesFit'
  BY <1>1, <1>3, <1>4, <1>5, InsertFits
<1>7. QED
  BY <1>1, <1>6 DEF LowInv, LowParts, LimitIsRight, LowWalk, LowRepair, LowDone

\* The map is over: the low memory is allocated.
LEMMA AfterLoopLow ==
  ASSUME SysInfoTypeOK, LowInv, pc = "e820", AfterLoop, count' = count
  PROVE  LowInv'
<1>1. ListTypeOK /\ NodesFit
  BY DEF SysInfoTypeOK, LowInv, LowParts
<1>2. CASE NoRegions
  <2>1. heap' = heap /\ pc' = "done" /\ count' = 0
    BY <1>2 DEF NoRegions, ListUnchanged
  <2>2. NodesFit'
    BY <1>1, <2>1 DEF NodesFit
  <2>3. QED
    BY <2>1, <2>2 DEF LowInv, LowParts, LimitIsRight, LowWalk, LowRepair, LowDone
<1>3. CASE ReserveLow
  <2>1. /\ heap' = Append(heap, Reserved) /\ ret' = "rsdp" /\ prev' = NULL
        /\ current' = mem_regions /\ mem_regions' = mem_regions /\ new_region' = Len(heap) + 1
        /\ pc' = IF Reserved.size = 0 THEN "rsdp" ELSE "walk"
    BY <1>3 DEF ReserveLow, CallInsert
  <2>2. /\ Reserved \in Regions /\ Reserved.base_addr = 0 /\ Reserved.size = REAL_MODE_LIMIT
        /\ Reserved.type = SYSINFO_MT_RESERVED
    BY ReservedType DEF Reserved, Region
  <2>3. REAL_MODE_LIMIT # 0 /\ 0 + REAL_MODE_LIMIT < ADDR_MOD
    BY RealModeLimitAssumption, AddrModAssumption DEF Addresses
  <2>4. pc' = "walk"
    BY <2>1, <2>2, <2>3
  <2>5. Reserved.base_addr + Reserved.size < ADDR_MOD
    BY <2>2, <2>3
  <2>6. NodesFit' /\ heap'[Len(heap) + 1] = Reserved /\ Len(heap) + 1 \in 1 .. Len(heap')
    BY <1>1, <2>1, <2>2, <2>5, InsertFits
  <2>7. LowWalk'
    BY <2>1, <2>2, <2>6 DEF LowWalk
  <2>8. QED
    BY <2>4, <2>6, <2>7 DEF LowInv, LowParts, LimitIsRight, LowRepair, LowDone
<1>4. CASE ReserveLowPanic
  BY <1>4 DEF ReserveLowPanic, AllocPanic, LowInv
<1>5. QED
  BY <1>2, <1>3, <1>4 DEF AfterLoop

\* A step that leaves the nodes and the control of a repair alone.
LEMMA QuietLow ==
  ASSUME LowInv, heap' = heap, mem_regions' = mem_regions, ret' = ret, count' = count,
         this_region' = this_region, limit_right' = limit_right, pending' = pending,
         new_region' = new_region, prev' = prev, current' = current, pc' = pc
  PROVE  LowInv'
<1> SUFFICES ASSUME pc # "panic" PROVE LowParts'
  BY DEF LowInv
<1>1. LowParts
  BY DEF LowInv
<1>2. NodesFit'
  BY <1>1 DEF LowParts, NodesFit
<1>3. LimitIsRight'
  BY <1>1 DEF LowParts, LimitIsRight, Stuck, Overlapping, NextWins, next_region, NextOf
<1>4. LowWalk' /\ LowRepair' /\ LowDone'
  BY <1>1 DEF LowParts, LowWalk, LowRepair, LowDone
<1>5. QED
  BY <1>2, <1>3, <1>4 DEF LowParts

\* A step that changes the links of the nodes only.
LEMMA SameFits ==
  ASSUME NodesFit, Len(heap') = Len(heap),
         \A n \in 1 .. Len(heap) : /\ heap'[n].base_addr = heap[n].base_addr
                                   /\ heap'[n].size = heap[n].size
                                   /\ heap'[n].type = heap[n].type
  PROVE  NodesFit' /\ \A n \in 1 .. Len(heap) : LowHead(heap, n) => LowHead(heap', n)
BY DEF NodesFit, Fits, End, LowHead

\* The walk for the low memory never starts: its node is the first.
LEMMA WalkLow ==
  ASSUME SysInfoTypeOK, LowInv, Walk, UNCHANGED sysinfoVars
  PROVE  LowInv'
<1>1. /\ heap' = heap /\ mem_regions' = mem_regions /\ ret' = ret /\ pc' = pc /\ pc = "walk"
      /\ new_region' = new_region /\ count' = count
  BY DEF Walk, sysinfoVars
<1>2. LowParts
  BY <1>1 DEF LowInv
<1>3. NodesFit'
  BY <1>1, <1>2 DEF LowParts, NodesFit
<1>4. CASE ret = "rsdp"
  <2>1. BeforeNew
    BY DEF Walk
  <2>2. heap[new_region].base_addr = 0 /\ current # NULL /\ heap[current].base_addr < 0
    BY <1>1, <1>2, <1>4, <2>1 DEF LowParts, LowWalk, BeforeNew
  <2>3. current \in 1 .. Len(heap)
    BY <2>2, ListNodes DEF SysInfoTypeOK, ListTypeOK, Pointers, NULL
  <2>4. heap[current].base_addr \in Nat
    BY <2>3, ListNodes DEF SysInfoTypeOK
  <2>5. QED
    BY <2>2, <2>4
<1>5. CASE ret # "rsdp"
  BY <1>1, <1>3, <1>5 DEF LowInv, LowParts, LimitIsRight, LowWalk, LowRepair, LowDone
<1>6. QED
  BY <1>4, <1>5

-----------------------------------------------------------------------------
\* The low memory is the only node.
LEMMA LinkFirstLow ==
  ASSUME SysInfoTypeOK, LowInv, LinkFirst, UNCHANGED sysinfoVars
  PROVE  LowInv'
<1>1. /\ heap' = SetNextOf(heap, new_region, NULL) /\ mem_regions' = new_region
      /\ pc = "walk" /\ pc' = ret
  BY DEF LinkFirst, SetNextOf
<1>2. new_region \in 1 .. Len(heap) /\ heap \in Seq(Regions) /\ NULL \in Nat
  BY <1>1, ListNodes DEF SysInfoTypeOK, ListTypeOK, Pointers, NULL
<1>3. LowParts /\ ret \in {"e820", "rsdp"}
  BY <1>1 DEF LowInv, SysInfoTypeOK
<1>4. /\ Len(heap') = Len(heap)
      /\ \A n \in 1 .. Len(heap) : /\ heap'[n].base_addr = heap[n].base_addr
                                   /\ heap'[n].size = heap[n].size
                                   /\ heap'[n].type = heap[n].type
  BY <1>1, <1>2, SetNextOfWrites
<1>5. NodesFit' /\ \A n \in 1 .. Len(heap) : LowHead(heap, n) => LowHead(heap', n)
  BY <1>3, <1>4, SameFits DEF LowParts
<1>6. LowDone'
  <2>1. CASE ret = "rsdp"
    <3>1. LowHead(heap, new_region)
      BY <1>1, <1>2, <1>3, <2>1, RealModeLimitAssumption
         DEF LowParts, LowWalk, LowHead, NULL, Addresses
    <3>2. QED
      BY <1>1, <1>2, <1>5, <3>1 DEF LowDone
  <2>2. QED
    BY <1>1, <1>3, <2>1 DEF LowDone
<1>7. QED
  BY <1>1, <1>3, <1>5, <1>6 DEF LowInv, LowParts, LimitIsRight, LowWalk, LowRepair

\* The low memory is put before the others.
LEMMA LinkHeadLow ==
  ASSUME SysInfoTypeOK, LowInv, LinkHead, UNCHANGED sysinfoVars
  PROVE  LowInv'
<1>1. /\ heap' = SetNextOf(heap, new_region, mem_regions) /\ mem_regions' = new_region
      /\ pc = "walk" /\ pc' = "fix" /\ ret' = ret
      /\ this_region' = new_region /\ limit_right' = RightOf(heap', new_region) /\ pending' = NULL
  BY DEF LinkHead, EnterFix, SetNextOf
<1>2. new_region \in 1 .. Len(heap) /\ heap \in Seq(Regions) /\ mem_regions \in Nat
  BY <1>1, ListNodes DEF SysInfoTypeOK, ListTypeOK, Pointers, NULL
<1>3. LowParts
  BY <1>1 DEF LowInv
<1>4. /\ Len(heap') = Len(heap)
      /\ \A n \in 1 .. Len(heap) : /\ heap'[n].base_addr = heap[n].base_addr
                                   /\ heap'[n].size = heap[n].size
                                   /\ heap'[n].type = heap[n].type
  BY <1>1, <1>2, SetNextOfWrites
<1>5. NodesFit' /\ \A n \in 1 .. Len(heap) : LowHead(heap, n) => LowHead(heap', n)
  BY <1>3, <1>4, SameFits DEF LowParts
<1>6. LowRepair'
  <2>1. CASE ret = "rsdp"
    <3>1. /\ heap[new_region].base_addr = 0 /\ heap[new_region].size = REAL_MODE_LIMIT
          /\ heap[new_region].type = SYSINFO_MT_RESERVED
      BY <1>1, <1>3, <2>1 DEF LowParts, LowWalk
    <3>2. REAL_MODE_LIMIT \in Nat /\ REAL_MODE_LIMIT % ADDR_MOD = REAL_MODE_LIMIT
      BY RealModeLimitAssumption, AddrModAssumption DEF Addresses
    <3>3. LowHead(heap', new_region)
      BY <1>2, <1>5, <3>1, <3>2 DEF LowHead, NULL
    <3>4. RightOf(heap', new_region) = REAL_MODE_LIMIT
      BY <1>2, <1>4, <3>1, <3>2 DEF RightOf
    <3>5. QED
      BY <1>1, <3>3, <3>4 DEF LowRepair
  <2>2. QED
    BY <1>1, <2>1 DEF LowRepair
<1>7. LimitIsRight'
  BY <1>1 DEF LimitIsRight
<1>8. QED
  BY <1>1, <1>5, <1>6, <1>7 DEF LowInv, LowParts, LowWalk, LowDone

\* A reported region is linked behind prev.
LEMMA LinkAfterLow ==
  ASSUME SysInfoTypeOK, LowInv, LinkAfter, UNCHANGED sysinfoVars
  PROVE  LowInv'
<1> DEFINE f == SetNextOf(heap, new_region, current)
<1>1. /\ heap' = SetNextOf(f, prev, new_region)
      /\ pc = "walk" /\ pc' = "fix" /\ ret' = ret /\ prev # NULL
      /\ limit_right' = RightOf(heap', this_region')
  BY DEF LinkAfter, EnterFix, SetNextOf
<1>2. /\ new_region \in 1 .. Len(heap) /\ heap \in Seq(Regions) /\ current \in Nat
      /\ new_region \in Nat /\ prev \in 1 .. Len(heap)
  BY <1>1, ListNodes DEF SysInfoTypeOK, ListTypeOK, Pointers, NULL
<1>3. LowParts
  BY <1>1 DEF LowInv
<1>4. /\ f \in Seq(Regions) /\ Len(f) = Len(heap)
      /\ \A n \in 1 .. Len(heap) : /\ f[n].base_addr = heap[n].base_addr
                                   /\ f[n].size = heap[n].size
                                   /\ f[n].type = heap[n].type
  <2>1. new_region \in 1 .. Len(heap) /\ heap \in Seq(Regions) /\ current \in Nat
    BY <1>2
  <2>2. QED
    BY <2>1, SetNextOfWrites
<1> HIDE DEF f
<1>5. prev \in 1 .. Len(f)
  BY <1>2, <1>4
<1>6. /\ Len(heap') = Len(f)
      /\ \A n \in 1 .. Len(f) : /\ heap'[n].base_addr = f[n].base_addr
                                /\ heap'[n].size = f[n].size
                                /\ heap'[n].type = f[n].type
  BY <1>1, <1>2, <1>4, <1>5, SetNextOfWrites
<1>7. NodesFit'
  BY <1>3, <1>4, <1>6, SameFits DEF LowParts
<1>8. ret # "rsdp"
  BY <1>1, <1>3 DEF LowParts, LowWalk
<1>9. LimitIsRight'
  BY <1>1 DEF LimitIsRight
<1>10. QED
  BY <1>1, <1>7, <1>8, <1>9 DEF LowInv, LowParts, LowWalk, LowRepair, LowDone

-----------------------------------------------------------------------------
(* The repairs *)

\* What a step of the loop has to show.
LEMMA LoopLow ==
  ASSUME pc' = "fix", ret' = ret, mem_regions' = mem_regions, pending' = pending, NodesFit', LimitIsRight',
         ret = "rsdp" => /\ this_region' = mem_regions /\ pending = NULL
                         /\ limit_right' = REAL_MODE_LIMIT /\ LowHead(heap', mem_regions)
  PROVE  LowInv'
BY DEF LowInv, LowParts, LowWalk, LowRepair, LowDone

\* What is known of a repair that is going on.
LEMMA RepairLow ==
  ASSUME SysInfoTypeOK, LowInv, pc = "fix"
  PROVE  /\ ListTypeOK /\ NodesFit /\ this_region \in 1 .. Len(heap)
         /\ next_region # NULL => next_region \in 1 .. Len(heap)
         /\ limit_right \in Nat /\ limit_right < ADDR_MOD
         /\ limit_right = RightOf(heap, this_region) \/ Stuck
         /\ ret = "rsdp" => /\ this_region = mem_regions /\ pending = NULL
                            /\ limit_right = REAL_MODE_LIMIT /\ LowHead(heap, mem_regions)
<1>1. ListTypeOK /\ LowParts
  BY DEF SysInfoTypeOK, LowInv
<1>2. limit_right \in Nat /\ limit_right < ADDR_MOD
  BY <1>1, AddrModAssumption DEF ListTypeOK, Addresses
<1>3. QED
  BY <1>1, <1>2, RepairNodes DEF LowParts, LimitIsRight, LowRepair

\* The type a reserved node competes with never wins over it.
LEMMA WinsOverOther ==
  ASSUME ListTypeOK, pc = "fix", next_region # NULL, NextWins
  PROVE  /\ heap[this_region].type # SYSINFO_MT_RESERVED
         /\ next_region # this_region
         /\ heap[next_region].type > heap[this_region].type
<1>1. this_region \in 1 .. Len(heap) /\ next_region \in 1 .. Len(heap)
  BY RepairNodes
<1>2. heap[this_region].type \in MemTypes /\ heap[next_region].type \in MemTypes
  BY <1>1, ListNodes
<1>3. heap[next_region].type > heap[this_region].type
  BY DEF NextWins, is_left_more_restrictive
<1>4. QED
  BY <1>2, <1>3 DEF MemTypes, SYSINFO_MT_USABLE, SYSINFO_MT_RESERVED

\* The steps of the loop of fix_right: the next node is dropped,
LEMMA DropLow ==
  ASSUME SysInfoTypeOK, LowInv, DropNext
  PROVE  LowInv'
<1>1. /\ pc = "fix" /\ next_region # NULL /\ ~NextWins
      /\ pc' = pc /\ ret' = ret /\ mem_regions' = mem_regions /\ pending' = pending
      /\ this_region' = this_region /\ limit_right' = limit_right
  BY DEF DropNext, Overlapping, FixUnchanged
<1>2. /\ ListTypeOK /\ NodesFit /\ this_region \in 1 .. Len(heap) /\ next_region \in 1 .. Len(heap)
      /\ limit_right = RightOf(heap, this_region)
      /\ ret = "rsdp" => /\ this_region = mem_regions /\ pending = NULL
                         /\ limit_right = REAL_MODE_LIMIT /\ LowHead(heap, mem_regions)
  BY <1>1, RepairLow DEF Stuck
<1>3. /\ Len(heap') = Len(heap)
      /\ \A n \in 1 .. Len(heap) : /\ heap'[n].base_addr = heap[n].base_addr
                                   /\ heap'[n].size = heap[n].size
                                   /\ heap'[n].type = heap[n].type
  BY <1>2, DropWrites
<1>4. NodesFit' /\ \A n \in 1 .. Len(heap) : LowHead(heap, n) => LowHead(heap', n)
  BY <1>2, <1>3, SameFits
<1>5. LimitIsRight'
  BY <1>1, <1>2, <1>3 DEF LimitIsRight, RightOf
<1>6. QED
  BY <1>1, <1>2, <1>4, <1>5, LoopLow

\* ... or loses its beginning,
LEMMA TrimLow ==
  ASSUME SysInfoTypeOK, LowInv, TrimNext
  PROVE  LowInv'
<1>1. /\ pc = "fix" /\ next_region # NULL /\ ~NextWins
      /\ limit_right > heap[next_region].base_addr
      /\ RightOf(heap, next_region) > limit_right
      /\ pc' = pc /\ ret' = ret /\ mem_regions' = mem_regions /\ pending' = pending
      /\ this_region' = this_region /\ limit_right' = limit_right
  BY DEF TrimNext, Overlapping, FixUnchanged
<1>2. /\ ListTypeOK /\ NodesFit /\ this_region \in 1 .. Len(heap) /\ next_region \in 1 .. Len(heap)
      /\ limit_right \in Nat
      /\ limit_right = RightOf(heap, this_region)
      /\ ret = "rsdp" => /\ this_region = mem_regions /\ pending = NULL
                         /\ limit_right = REAL_MODE_LIMIT /\ LowHead(heap, mem_regions)
  BY <1>1, RepairLow DEF Stuck
<1>3. this_region # next_region
  BY <1>1, <1>2
<1>4. /\ Len(heap') = Len(heap)
      /\ heap'[next_region].type = heap[next_region].type
      /\ heap'[next_region].size = (heap[next_region].size
                                      - (limit_right - heap[next_region].base_addr)) % ADDR_MOD
      /\ heap'[next_region].base_addr = limit_right
      /\ \A m \in 1 .. Len(heap) : m # next_region => heap'[m] = heap[m]
  BY <1>2, TrimWrites
<1>5. Fits(heap', next_region)
  <2>1. SUFFICES ASSUME heap[next_region].type = SYSINFO_MT_RESERVED
                 PROVE  End(heap', next_region) < ADDR_MOD
    BY <1>4 DEF Fits
  <2>2. End(heap, next_region) < ADDR_MOD
    BY <1>2, <2>1 DEF NodesFit, Fits
  <2>3. RightOf(heap, next_region) = End(heap, next_region)
    BY <1>2, <2>2, ListNodes, EndIsRight
  <2>4. heap[next_region].base_addr \in Nat /\ heap[next_region].size \in Nat
    BY <1>2, ListNodes
  <2> DEFINE v == heap[next_region].size - (limit_right - heap[next_region].base_addr)
  <2>5. v \in 0 .. ADDR_MOD - 1 /\ limit_right + v = End(heap, next_region)
    BY <1>1, <1>2, <2>2, <2>3, <2>4, AddrModAssumption DEF End
  <2>6. \A x \in 0 .. ADDR_MOD - 1 : x % ADDR_MOD = x
    BY AddrModAssumption
  <2>7. heap'[next_region].size = v % ADDR_MOD
    BY <1>4
  <2> HIDE DEF v
  <2>8. heap'[next_region].size = v
    BY <2>5, <2>6, <2>7
  <2>9. QED
    BY <1>4, <2>2, <2>5, <2>8 DEF End
<1>6. NodesFit'
  BY <1>2, <1>4, <1>5 DEF NodesFit, Fits, End
<1>7. heap'[this_region] = heap[this_region]
  BY <1>2, <1>3, <1>4
<1>8. LimitIsRight'
  BY <1>1, <1>2, <1>7 DEF LimitIsRight, RightOf
<1>9. ret = "rsdp" => LowHead(heap', mem_regions)
  BY <1>2, <1>7 DEF LowHead
<1>10. QED
  BY <1>1, <1>2, <1>6, <1>8, <1>9, LoopLow

\* ... or this_region is cut at it,
LEMMA CutLow ==
  ASSUME SysInfoTypeOK, LowInv, CutThis
  PROVE  LowInv'
<1>1. /\ pc = "fix" /\ next_region # NULL /\ NextWins
      /\ limit_right > heap[next_region].base_addr
      /\ limit_right <= RightOf(heap, next_region)
      /\ heap' = CutHeap
      /\ pc' = pc /\ ret' = ret /\ mem_regions' = mem_regions /\ pending' = pending
      /\ this_region' = this_region /\ limit_right' = limit_right
  BY DEF CutThis, Overlapping, FixUnchanged
<1>2. /\ ListTypeOK /\ NodesFit /\ this_region \in 1 .. Len(heap) /\ next_region \in 1 .. Len(heap)
      /\ ret = "rsdp" => this_region = mem_regions /\ LowHead(heap, mem_regions)
  BY <1>1, RepairLow
<1>3. /\ heap[this_region].type # SYSINFO_MT_RESERVED /\ next_region # this_region
      /\ heap[next_region].type > heap[this_region].type
  BY <1>1, <1>2, WinsOverOther
<1>4. /\ Len(heap') = Len(heap)
      /\ heap'[this_region].type = heap[this_region].type
      /\ heap'[this_region].next = heap[this_region].next
      /\ \A m \in 1 .. Len(heap) : m # this_region => heap'[m] = heap[m]
  BY <1>1, <1>2, CutWrites
<1>5. NodesFit'
  BY <1>2, <1>3, <1>4 DEF NodesFit, Fits, End
<1>6. ret # "rsdp"
  BY <1>2, <1>3 DEF LowHead
<1>7. LimitIsRight'
  <2>1. next_region' = next_region
    BY <1>1, <1>4 DEF next_region, NextOf
  <2>2. heap'[next_region] = heap[next_region]
    BY <1>2, <1>3, <1>4
  <2>3. Overlapping'
    BY <1>1, <2>1, <2>2 DEF Overlapping
  <2>4. NextWins'
    BY <1>1, <1>3, <1>4, <2>1, <2>2 DEF NextWins, is_left_more_restrictive
  <2>5. limit_right' <= RightOf(heap', next_region')
    BY <1>1, <2>1, <2>2 DEF RightOf
  <2>6. QED
    BY <2>3, <2>4, <2>5 DEF LimitIsRight, Stuck
<1>8. QED
  BY <1>1, <1>5, <1>6, <1>7, LoopLow

\* ... and continued behind it.
LEMMA SplitLow ==
  ASSUME SysInfoTypeOK, LowInv, SplitThis
  PROVE  LowInv'
<1> DEFINE q == Len(heap) + 1
<1>1. /\ pc = "fix" /\ next_region # NULL /\ NextWins
      /\ limit_right > RightOf(heap, next_region)
      /\ pc' = pc /\ ret' = ret /\ mem_regions' = mem_regions /\ pending' = pending
      /\ this_region' = q /\ limit_right' = limit_right
  BY DEF SplitThis, Overlapping, FixUnchanged
<1>2. /\ ListTypeOK /\ NodesFit /\ this_region \in 1 .. Len(heap) /\ next_region \in 1 .. Len(heap)
      /\ ret = "rsdp" => this_region = mem_regions /\ LowHead(heap, mem_regions)
      /\ limit_right \in Nat /\ limit_right < ADDR_MOD /\ Len(heap) \in Nat
  BY <1>1, RepairLow, ListNodes
<1>3. heap[this_region].type # SYSINFO_MT_RESERVED
  BY <1>1, <1>2, WinsOverOther
<1>4. /\ Len(heap') = Len(heap) + 1
      /\ \A m \in 1 .. Len(heap) : /\ heap'[m].base_addr = heap[m].base_addr
                                   /\ heap'[m].type = heap[m].type
                                   /\ heap'[m].size = CutHeap[m].size
      /\ heap'[q].type = heap[this_region].type
      /\ heap'[q].base_addr = RightOf(heap, next_region)
      /\ heap'[q].size = limit_right - RightOf(heap, next_region)
  BY <1>2, SplitWrites
<1>5. \A m \in 1 .. Len(heap) : m # this_region => CutHeap[m].size = heap[m].size
  BY <1>2, CutWrites
<1> HIDE DEF q
<1>6. ASSUME NEW n \in 1 .. Len(heap'), heap'[n].type = SYSINFO_MT_RESERVED
      PROVE  End(heap', n) < ADDR_MOD
  <2>1. n # q /\ n # this_region
    BY <1>2, <1>3, <1>4, <1>6
  <2>2. n \in 1 .. Len(heap)
    <3>1. n \in 1 .. Len(heap) + 1 /\ n # Len(heap) + 1
      BY <1>4, <2>1 DEF q
    <3>2. QED
      BY <1>2, <3>1
  <2>3. /\ heap'[n].base_addr = heap[n].base_addr /\ heap'[n].type = heap[n].type
        /\ heap'[n].size = heap[n].size
    BY <1>4, <1>5, <2>1, <2>2
  <2>4. End(heap, n) < ADDR_MOD
    BY <1>2, <1>6, <2>2, <2>3 DEF NodesFit, Fits
  <2>5. QED
    BY <2>3, <2>4 DEF End
<1>7. NodesFit'
  BY <1>6 DEF NodesFit, Fits
<1>8. ret # "rsdp"
  BY <1>2, <1>3 DEF LowHead
<1>9. LimitIsRight'
  <2>1. RightOf(heap, next_region) \in Nat
    BY <1>2, ListNodes DEF Addresses
  <2>2. heap'[q].base_addr + heap'[q].size = limit_right
    BY <1>2, <1>4, <2>1
  <2>3. limit_right % ADDR_MOD = limit_right
    BY <1>2, AddrModAssumption
  <2>4. RightOf(heap', q) = limit_right
    BY <2>2, <2>3 DEF RightOf
  <2>5. QED
    BY <1>1, <2>4 DEF LimitIsRight
<1>10. QED
  BY <1>1, <1>7, <1>8, <1>9, LoopLow

\* What the end of a repair has to show.
LEMMA ReturnLow ==
  ASSUME SysInfoTypeOK, pc = "fix", Return, NodesFit',
         ret = "rsdp" => pending = NULL /\ LowHead(heap', mem_regions)
  PROVE  LowInv'
<1>1. ret \in {"e820", "rsdp"} /\ ret' = ret /\ mem_regions' = mem_regions
  BY DEF SysInfoTypeOK, Return, FixUnchanged
<1>2. CASE pending # NULL
  <2>1. pc' = "fix" /\ limit_right' = RightOf(heap', this_region')
    BY <1>2 DEF Return, EnterFix
  <2>2. QED
    BY <1>1, <1>2, <2>1 DEF LowInv, LowParts, LimitIsRight, LowWalk, LowRepair, LowDone
<1>3. CASE pending = NULL
  <2>1. pc' = ret
    BY <1>3 DEF Return
  <2>2. QED
    BY <1>1, <2>1 DEF LowInv, LowParts, LimitIsRight, LowWalk, LowRepair, LowDone
<1>4. QED
  BY <1>2, <1>3

\* The loop is over, so nothing has been cut and the next node begins at the limit or later.
LEMMA LoopOverLow ==
  ASSUME SysInfoTypeOK, LowInv, LoopOver
  PROVE  /\ pc = "fix" /\ ListTypeOK /\ NodesFit /\ this_region \in 1 .. Len(heap)
         /\ limit_right = RightOf(heap, this_region)
         /\ next_region # NULL => /\ next_region \in 1 .. Len(heap)
                                  /\ limit_right <= heap[next_region].base_addr
         /\ ret = "rsdp" => /\ this_region = mem_regions /\ pending = NULL
                            /\ limit_right = REAL_MODE_LIMIT /\ LowHead(heap, mem_regions)
<1>1. pc = "fix" /\ ~Overlapping
  BY DEF LoopOver
<1>2. ~Stuck
  BY <1>1 DEF Stuck
<1>3. /\ ListTypeOK /\ NodesFit /\ this_region \in 1 .. Len(heap)
      /\ next_region # NULL => next_region \in 1 .. Len(heap)
      /\ limit_right \in Nat /\ limit_right = RightOf(heap, this_region)
      /\ ret = "rsdp" => /\ this_region = mem_regions /\ pending = NULL
                         /\ limit_right = REAL_MODE_LIMIT /\ LowHead(heap, mem_regions)
  BY <1>1, <1>2, RepairLow
<1>4. ASSUME next_region # NULL PROVE limit_right <= heap[next_region].base_addr
  <2>1. ~(limit_right > heap[next_region].base_addr)
    BY <1>1, <1>4 DEF Overlapping
  <2>2. heap[next_region].base_addr \in Nat
    BY <1>3, <1>4, ListNodes
  <2>3. QED
    BY <1>3, <2>1, <2>2
<1>5. QED
  BY <1>1, <1>3, <1>4

\* The ways out of fix_right: the next node is merged,
LEMMA MergeLow ==
  ASSUME SysInfoTypeOK, LowInv, MergeRight
  PROVE  LowInv'
<1>1. LoopOver /\ next_region # NULL /\ SameType /\ Return
  BY DEF MergeRight
<1>2. /\ pc = "fix" /\ ListTypeOK /\ NodesFit /\ this_region \in 1 .. Len(heap)
      /\ next_region \in 1 .. Len(heap)
      /\ RightOf(heap, this_region) <= heap[next_region].base_addr
      /\ ret = "rsdp" => /\ this_region = mem_regions /\ pending = NULL
                         /\ RightOf(heap, this_region) = REAL_MODE_LIMIT /\ LowHead(heap, mem_regions)
  BY <1>1, LoopOverLow
<1>3. /\ Len(heap') = Len(heap)
      /\ heap'[this_region].base_addr = heap[this_region].base_addr
      /\ heap'[this_region].type = heap[this_region].type
      /\ heap'[this_region].size =
           (RightOf(heap, next_region) - heap[this_region].base_addr) % ADDR_MOD
      /\ \A m \in 1 .. Len(heap) : m # this_region => heap'[m] = heap[m]
  BY <1>2, MergeWrites
<1>4. ASSUME heap[this_region].type = SYSINFO_MT_RESERVED
      PROVE  /\ End(heap', this_region) = RightOf(heap, next_region)
             /\ heap'[this_region].size = RightOf(heap, next_region) - heap[this_region].base_addr
             /\ heap[next_region].base_addr <= RightOf(heap, next_region)
             /\ RightOf(heap, next_region) \in Nat /\ RightOf(heap, next_region) < ADDR_MOD
  <2>1. heap[next_region].type = SYSINFO_MT_RESERVED
    BY <1>1, <1>4 DEF SameType
  <2>2. End(heap, this_region) < ADDR_MOD /\ End(heap, next_region) < ADDR_MOD
    BY <1>2, <1>4, <2>1 DEF NodesFit, Fits
  <2>3. /\ heap[this_region].base_addr <= RightOf(heap, this_region)
        /\ heap[next_region].base_addr <= RightOf(heap, next_region)
        /\ RightOf(heap, next_region) = End(heap, next_region)
    BY <1>2, <2>2, EndIsRight, ListNodes
  <2>4. /\ RightOf(heap, this_region) \in Nat /\ RightOf(heap, next_region) \in Nat
        /\ heap[this_region].base_addr \in Nat /\ heap[next_region].base_addr \in Nat
    BY <1>2, ListNodes DEF Addresses
  <2> DEFINE v == RightOf(heap, next_region) - heap[this_region].base_addr
  <2>5. v \in 0 .. ADDR_MOD - 1
        /\ heap[this_region].base_addr + v = RightOf(heap, next_region)
    BY <1>2, <2>2, <2>3, <2>4, AddrModAssumption
  <2>6. \A x \in 0 .. ADDR_MOD - 1 : x % ADDR_MOD = x
    BY AddrModAssumption
  <2>7. heap'[this_region].size = v % ADDR_MOD
    BY <1>3
  <2> HIDE DEF v
  <2>8. heap'[this_region].size = v
    BY <2>5, <2>6, <2>7
  <2>9. End(heap', this_region) = RightOf(heap, next_region)
    BY <1>3, <2>5, <2>8 DEF End
  <2>10. QED
    BY <2>2, <2>3, <2>4, <2>8, <2>9 DEF v
<1>5. Fits(heap', this_region)
  BY <1>3, <1>4 DEF Fits
<1>6. NodesFit'
  BY <1>2, <1>3, <1>5 DEF NodesFit, Fits, End
<1>7. ASSUME ret = "rsdp" PROVE pending = NULL /\ LowHead(heap', mem_regions)
  <2>1. /\ this_region = mem_regions /\ pending = NULL
        /\ RightOf(heap, this_region) = REAL_MODE_LIMIT /\ LowHead(heap, mem_regions)
    BY <1>2, <1>7
  <2>2. /\ heap'[mem_regions].base_addr = 0 /\ heap[mem_regions].base_addr = 0
        /\ heap'[mem_regions].type = SYSINFO_MT_RESERVED /\ mem_regions # NULL
        /\ heap[this_region].type = SYSINFO_MT_RESERVED
    BY <1>3, <2>1 DEF LowHead
  <2>3. heap'[mem_regions].size = RightOf(heap, next_region)
    BY <1>4, <2>1, <2>2
  <2>4. REAL_MODE_LIMIT <= RightOf(heap, next_region)
    <3>1. heap[next_region].base_addr \in Nat /\ REAL_MODE_LIMIT \in Nat
      BY <1>2, ListNodes, RealModeLimitAssumption DEF Addresses
    <3>2. QED
      BY <1>2, <1>4, <2>1, <2>2, <3>1
  <2>5. heap'[mem_regions].size >= REAL_MODE_LIMIT
    <3>1. REAL_MODE_LIMIT \in Nat
      BY RealModeLimitAssumption DEF Addresses
    <3>2. QED
      BY <1>4, <2>2, <2>3, <2>4, <3>1
  <2>6. QED
    BY <2>1, <2>2, <2>5 DEF LowHead
<1>8. QED
  BY <1>1, <1>2, <1>6, <1>7, ReturnLow

\* ... or extended to the left,
LEMMA ExtendLow ==
  ASSUME SysInfoTypeOK, LowInv, ExtendReserved
  PROVE  LowInv'
<1>1. LoopOver /\ next_region # NULL /\ ~SameType /\ Return
      /\ heap[next_region].type = SYSINFO_MT_RESERVED
  BY DEF ExtendReserved
<1>2. /\ pc = "fix" /\ ListTypeOK /\ NodesFit /\ this_region \in 1 .. Len(heap)
      /\ next_region \in 1 .. Len(heap)
      /\ RightOf(heap, this_region) <= heap[next_region].base_addr
      /\ ret = "rsdp" => this_region = mem_regions /\ LowHead(heap, mem_regions)
  BY <1>1, LoopOverLow
<1>3. ret # "rsdp"
  BY <1>1, <1>2 DEF LowHead, SameType
<1>4. /\ Len(heap') = Len(heap)
      /\ \A m \in 1 .. Len(heap) :
            /\ heap'[m].type = heap[m].type
            /\ heap'[m].size = IF m = next_region
                               THEN (heap[next_region].size + heap[next_region].base_addr
                                       - RightOf(heap, this_region)) % ADDR_MOD
                               ELSE heap[m].size
            /\ heap'[m].base_addr = IF m = next_region THEN RightOf(heap, this_region)
                                    ELSE heap[m].base_addr
  BY <1>2, ExtendWrites
<1>5. Fits(heap', next_region)
  <2>1. End(heap, next_region) < ADDR_MOD
    BY <1>1, <1>2 DEF NodesFit, Fits
  <2>2. /\ RightOf(heap, this_region) \in Nat
        /\ heap[next_region].base_addr \in Nat /\ heap[next_region].size \in Nat
    BY <1>2, ListNodes DEF Addresses
  <2> DEFINE v == heap[next_region].size + heap[next_region].base_addr - RightOf(heap, this_region)
  <2>3. v \in 0 .. ADDR_MOD - 1 /\ RightOf(heap, this_region) + v = End(heap, next_region)
    BY <1>2, <2>1, <2>2, AddrModAssumption DEF End
  <2>4. \A x \in 0 .. ADDR_MOD - 1 : x % ADDR_MOD = x
    BY AddrModAssumption
  <2>5. heap'[next_region].size = v % ADDR_MOD /\ heap'[next_region].base_addr = RightOf(heap, this_region)
    BY <1>2, <1>4
  <2> HIDE DEF v
  <2>6. heap'[next_region].size = v
    BY <2>3, <2>4, <2>5
  <2>7. QED
    BY <2>1, <2>3, <2>5, <2>6 DEF Fits, End
<1>6. ASSUME NEW n \in 1 .. Len(heap'), n # next_region PROVE Fits(heap', n)
  <2>1. /\ n \in 1 .. Len(heap) /\ heap'[n].type = heap[n].type
        /\ heap'[n].size = heap[n].size /\ heap'[n].base_addr = heap[n].base_addr
    BY <1>4, <1>6
  <2>2. Fits(heap, n)
    BY <1>2, <2>1 DEF NodesFit
  <2>3. QED
    BY <2>1, <2>2 DEF Fits, End
<1>7. NodesFit'
  BY <1>5, <1>6 DEF NodesFit
<1>8. QED
  BY <1>1, <1>2, <1>3, <1>7, ReturnLow

\* ... or the gap before it is filled,
LEMMA PadLow ==
  ASSUME SysInfoTypeOK, LowInv, PadGap
  PROVE  LowInv'
<1> DEFINE q == Len(heap) + 1
<1>1. LoopOver /\ next_region # NULL /\ Return
      /\ RightOf(heap, this_region) < heap[next_region].base_addr
  BY DEF PadGap, GapRight
<1>2. /\ pc = "fix" /\ ListTypeOK /\ NodesFit /\ this_region \in 1 .. Len(heap)
      /\ next_region \in 1 .. Len(heap) /\ Len(heap) \in Nat
      /\ ret = "rsdp" => /\ this_region = mem_regions /\ pending = NULL /\ LowHead(heap, mem_regions)
  BY <1>1, LoopOverLow, ListNodes
<1>3. /\ Len(heap') = Len(heap) + 1
      /\ \A m \in 1 .. Len(heap) :
            /\ heap'[m].base_addr = heap[m].base_addr /\ heap'[m].size = heap[m].size
            /\ heap'[m].type = heap[m].type
      /\ heap'[q].base_addr = RightOf(heap, this_region)
      /\ heap'[q].size = heap[next_region].base_addr - RightOf(heap, this_region)
  BY <1>2, PadWrites
<1>4. Fits(heap', q)
  <2>1. /\ RightOf(heap, this_region) \in Nat /\ heap[next_region].base_addr \in Nat
        /\ heap[next_region].base_addr < ADDR_MOD
    <3>1. /\ RightOf(heap, this_region) \in Addresses /\ heap[next_region].base_addr \in Addresses
      BY <1>2, ListNodes
    <3>2. QED
      BY ONLY <3>1, AddrModAssumption DEF Addresses
  <2> HIDE DEF q
  <2>2. QED
    BY <1>3, <2>1 DEF Fits, End
<1>5. ASSUME NEW n \in 1 .. Len(heap) PROVE Fits(heap', n)
  BY <1>2, <1>3 DEF NodesFit, Fits, End
<1>6. NodesFit'
  <2>1. \A n \in 1 .. Len(heap') : n \in 1 .. Len(heap) \/ n = q
    BY <1>2, <1>3
  <2>2. QED
    BY <1>4, <1>5, <2>1 DEF NodesFit
<1>7. ret = "rsdp" => pending = NULL /\ LowHead(heap', mem_regions)
  BY <1>2, <1>3 DEF LowHead
<1>8. QED
  BY <1>1, <1>2, <1>6, <1>7, ReturnLow

\* ... or nothing is to be done.
LEMMA NoPaddingLow ==
  ASSUME SysInfoTypeOK, LowInv, NoPadding
  PROVE  LowInv'
<1>1. LoopOver /\ Return /\ heap' = heap
  BY DEF NoPadding
<1>2. /\ pc = "fix" /\ NodesFit
      /\ ret = "rsdp" => pending = NULL /\ LowHead(heap, mem_regions)
  BY <1>1, LoopOverLow
<1>3. NodesFit' /\ (ret = "rsdp" => pending = NULL /\ LowHead(heap', mem_regions))
  BY <1>1, <1>2 DEF NodesFit
<1>4. QED
  BY <1>1, <1>2, <1>3, ReturnLow

-----------------------------------------------------------------------------
\* Every step preserves the invariant.
LEMMA NextLow ==
  ASSUME SysInfoTypeOK, LowInv, ReservedFits, [SysInfoNext]_vars
  PROVE  LowInv'
<1>1. ASSUME NEW r \in NextReports, NextRegion(r) PROVE LowInv'
  BY <1>1, NextRegionLow
<1>2. ASSUME NEW r \in NextReports, NextRegionPanic(r) PROVE LowInv'
  BY <1>2 DEF NextRegionPanic, AllocPanic, LowInv
<1>3. ASSUME NEW r \in NextReports, LastRegion(r) PROVE LowInv'
  BY <1>3, AfterLoopLow DEF LastRegion
<1>4. CASE NoMoreRegions
  BY <1>4, AfterLoopLow DEF NoMoreRegions
<1>5. CASE SearchRsdp
  <2>1. /\ heap' = heap /\ mem_regions' = mem_regions /\ count' = count
        /\ pc = "rsdp" /\ pc' = "done"
    BY <1>5 DEF SearchRsdp, ListUnchanged
  <2>2. LowParts
    BY <2>1 DEF LowInv
  <2>3. NodesFit' /\ LowDone'
    BY <2>1, <2>2 DEF LowParts, NodesFit, LowDone
  <2>4. QED
    BY <2>1, <2>3 DEF LowInv, LowParts, LimitIsRight, LowWalk, LowRepair
<1>6. CASE ListStep
  <2>1. InsertSorted /\ UNCHANGED sysinfoVars
    BY <1>6 DEF ListStep
  <2>2. CASE FixRight
    <3>1. CASE SplitPanic \/ PadPanic
      BY <3>1 DEF SplitPanic, PadPanic, AllocPanic, LowInv
    <3>2. QED
      BY <2>2, <3>1, DropLow, TrimLow, CutLow, SplitLow, MergeLow, ExtendLow, PadLow, NoPaddingLow
         DEF FixRight
  <2>3. QED
    BY <2>1, <2>2, WalkLow, LinkFirstLow, LinkHeadLow, LinkAfterLow DEF InsertSorted
<1>7. CASE UNCHANGED vars
  BY <1>7, QuietLow DEF vars, listVars, sysinfoVars
<1>8. QED
  BY <1>1, <1>2, <1>3, <1>4, <1>5, <1>6, <1>7 DEF SysInfoNext

\* The head covers the low memory, and nothing is more restricted than a reserved node.
LEMMA LowIsReserved == SysInfoTypeOK /\ LowInv => LowMemoryReserved
<1> SUFFICES ASSUME SysInfoTypeOK, LowInv, pc \in {"rsdp", "done"}, count > 0,
                    NEW a \in 0 .. REAL_MODE_LIMIT - 1
             PROVE  Restrictions[a] = SYSINFO_MT_RESERVED
  BY DEF LowMemoryReserved
<1> DEFINE types == {heap[n].type : n \in {m \in InList : a \in Extent(m)}}
<1>1. LowHead(heap, mem_regions) /\ ListTypeOK
  BY DEF LowInv, LowParts, LowDone, SysInfoTypeOK
<1>2. HeapOK(heap) /\ mem_regions \in 1 .. Len(heap)
  BY <1>1, ListNodes DEF LowHead, ListTypeOK, Pointers, NULL
<1>3. a \in Addresses /\ a \in Nat /\ a < REAL_MODE_LIMIT /\ REAL_MODE_LIMIT \in Nat
  BY RealModeLimitAssumption, AddrModAssumption DEF Addresses
<1>4. /\ InList \subseteq 1 .. Len(heap) /\ mem_regions \in InList
  <2>1. mem_regions \in 0 .. Len(heap) /\ mem_regions # NULL
    BY <1>1, <1>2, ListNodes DEF LowHead
  <2>2. QED
    BY <1>2, <2>1, LiveClosed, InListIsLive
<1>5. mem_regions \in {m \in InList : a \in Extent(m)}
  <2>1. heap[mem_regions].size \in Addresses /\ heap[mem_regions].size \in Nat
    BY <1>1, <1>2, ListNodes
  <2>2. RightOf(heap, mem_regions) = heap[mem_regions].size
    <3>1. heap[mem_regions].size % ADDR_MOD = heap[mem_regions].size
      BY <2>1, AddrModAssumption DEF Addresses
    <3>2. QED
      BY <1>1, <2>1, <3>1 DEF RightOf, LowHead
  <2>3. a \in Extent(mem_regions)
    BY <1>1, <1>3, <2>1, <2>2 DEF Extent, LowHead
  <2>4. QED
    BY <1>4, <2>3
<1>6. SYSINFO_MT_RESERVED \in types
  BY <1>1, <1>5 DEF LowHead
<1>7. \A u \in types : u \in MemTypes
  BY <1>1, <1>4, ListNodes
<1>8. Restrictions[a] = IF types = {} THEN -1 ELSE CHOOSE t \in types : \A u \in types : u <= t
  BY <1>3 DEF Restrictions
<1> HIDE DEF types
<1>9. \A u \in types : u <= SYSINFO_MT_RESERVED
  BY <1>7 DEF MemTypes, SYSINFO_MT_USABLE, SYSINFO_MT_RESERVED
<1>10. \A t \in types : (\A u \in types : u <= t) => t = SYSINFO_MT_RESERVED
  BY <1>6, <1>7, <1>9 DEF MemTypes, SYSINFO_MT_USABLE, SYSINFO_MT_RESERVED
<1>11. (CHOOSE t \in types : \A u \in types : u <= t) = SYSINFO_MT_RESERVED
  BY <1>6, <1>9, <1>10
<1>12. QED
  BY <1>6, <1>8, <1>11

\* Whatever the firmware says, in any order and however its regions overlap: once
\* get_mem_regions is done, all memory below REAL_MODE_LIMIT is reserved.
THEOREM LowMemoryIsReserved ==
  ASSUME ReservedFits
  PROVE  Spec => []LowMemoryReserved
<1>1. SysInfoInit => LowInv
  BY InitLow
<1>2. SysInfoTypeOK /\ LowInv /\ [SysInfoNext]_vars => LowInv'
  BY NextLow
<1>3. QED
  BY <1>1, <1>2, LowIsReserved, SysInfoTypeCorrect, PTL DEF Spec
=============================================================================
