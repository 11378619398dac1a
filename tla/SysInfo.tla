------------------------------ MODULE SysInfo ------------------------------
(***************************************************************************)
(* get_sysinfo of stage1/sysinfo_impl.c: the memory map is read from the   *)
(* firmware one region at a time (int 15h, E820h), every region is put     *)
(* into the list of RegionList, the memory real mode can address is        *)
(* reserved, and the RSDP is searched for.                                 *)
(*                                                                         *)
(* The firmware is not part of the repository.  It answers call after call *)
(* with a region of its map, in any order and possibly overlapping, and    *)
(* marks the end of the map in one of two ways: ebx = 0 together with the  *)
(* last region, or the carry flag on the call after it.  The carry flag    *)
(* also says that a call failed.  get_mem_regions takes ebx = 0 for the    *)
(* end as well and drops the region that comes with it: what the list is   *)
(* said to keep below is what was inserted, which is the whole map but for *)
(* that region.                                                            *)
(***************************************************************************)
EXTENDS RegionList

CONSTANTS
  BIOS_REGIONS,     \* the regions the firmware may report
  MAX_REPORTS,      \* bound: length of the firmware's map
  ORDERED_BIOS,     \* TRUE: the map is in address order, without overlaps
  REAL_MODE_LIMIT   \* include/memory_map.h

E820Regions == [base_addr : Addresses, size : Addresses, type : Nat]

ASSUME BiosRegionsAssumption == BIOS_REGIONS \subseteq E820Regions
ASSUME MaxReportsAssumption == MAX_REPORTS \in Nat
ASSUME OrderedBiosAssumption == ORDERED_BIOS \in BOOLEAN
ASSUME RealModeLimitAssumption == REAL_MODE_LIMIT \in Addresses \ {0}

VARIABLES
  reported,     \* history: the regions the firmware has reported
  count,        \* get_mem_regions: how many of them it has inserted
  result        \* what get_sysinfo returned

sysinfoVars == <<reported, count, result>>
vars == <<listVars, sysinfoVars>>

Results == {"none", "SYSINFO_SUCCESS", "SYSINFO_EMPTY_MEMORY_LAYOUT",
            "SYSINFO_RSDP_NOT_FOUND"}

\* convert_region: the E820 type of a region as a sysinfo_mem_type_t
convert_type(e820) ==
  CASE e820 = 1 -> SYSINFO_MT_USABLE
    [] e820 = 3 -> SYSINFO_MT_RECLAIMABLE
    [] e820 = 4 -> SYSINFO_MT_ACPI_NVS
    [] e820 = 5 -> SYSINFO_MT_BAD
    [] OTHER -> SYSINFO_MT_RESERVED

convert_region(r) == Region(r.base_addr, r.size, convert_type(r.type))

\* the regions the firmware may report next
NextReports ==
  {r \in BIOS_REGIONS :
     /\ Len(reported) < MAX_REPORTS
     /\ ORDERED_BIOS =>
          \A k \in 1 .. Len(reported) :
             reported[k].base_addr + reported[k].size <= r.base_addr}

SysInfoInit ==
  /\ ListInit
  /\ pc = "e820"
  /\ ret = "e820"
  /\ reported = <<>>
  /\ count = 0
  /\ result = "none"

\* get_next_mregion returns true: no carry, the signature is there, ebx # 0
NextRegion(r) ==
  /\ pc = "e820"
  /\ CallInsert(convert_region(r), "e820")
  /\ reported' = Append(reported, r)
  /\ count' = count + 1
  /\ UNCHANGED result

NextRegionPanic(r) ==
  /\ pc = "e820"
  /\ AllocPanic
  /\ reported' = Append(reported, r)
  /\ UNCHANGED <<count, result>>

ListUnchanged == UNCHANGED <<heap, mem_regions, ret, new_region, prev2, prev,
                             current, this_region, limit_right, pending>>

Reserved_M == Region(0, REAL_MODE_LIMIT - 1, SYSINFO_MT_RESERVED)
Reserved == Region(0, REAL_MODE_LIMIT, SYSINFO_MT_RESERVED)

\* The loop of get_mem_regions is over: either nothing was inserted, or the
\* memory below REAL_MODE_LIMIT is reserved.
NoRegions ==
  /\ count = 0
  /\ result' = "SYSINFO_EMPTY_MEMORY_LAYOUT"
  /\ pc' = "done"
  /\ ListUnchanged

ReserveLow ==
  /\ count > 0
  /\ CallInsert(Reserved, "rsdp")
  /\ UNCHANGED result

ReserveLowPanic ==
  /\ count > 0
  /\ AllocPanic
  /\ UNCHANGED result

AfterLoop == NoRegions \/ ReserveLow \/ ReserveLowPanic

\* the firmware marks region r as the last with ebx = 0: the loop ends before
\* the region is used
LastRegion(r) ==
  /\ pc = "e820"
  /\ reported' = Append(reported, r)
  /\ AfterLoop
  /\ UNCHANGED count

\* carry flag, or no signature in eax: the map is over, or the call failed
NoMoreRegions ==
  /\ pc = "e820"
  /\ AfterLoop
  /\ UNCHANGED <<reported, count>>

\* get_rsdp, by its outcome
SearchRsdp ==
  /\ pc = "rsdp"
  /\ result' \in {"SYSINFO_SUCCESS", "SYSINFO_RSDP_NOT_FOUND"}
  /\ pc' = "done"
  /\ ListUnchanged
  /\ UNCHANGED <<reported, count>>

ListStep == InsertSorted /\ UNCHANGED sysinfoVars

SysInfoNext ==
  \/ \E r \in NextReports : NextRegion(r) \/ NextRegionPanic(r) \/ LastRegion(r)
  \/ NoMoreRegions
  \/ SearchRsdp
  \/ ListStep

Spec == SysInfoInit /\ [][SysInfoNext]_vars
FairSpec == Spec /\ WF_vars(SysInfoNext)

-----------------------------------------------------------------------------
SysInfoTypeOK ==
  /\ ListTypeOK
  /\ pc \in {"e820", "walk", "fix", "rsdp", "done", "panic"}
  /\ ret \in {"e820", "rsdp"}
  /\ reported \in Seq(E820Regions)
  /\ count \in Nat
  /\ count <= Len(reported)
  /\ result \in Results

\* insert_sorted is not at work
AtRest == pc \in {"e820", "rsdp", "done"}

Covers(r, a) == a \in r.base_addr .. r.base_addr + r.size - 1

\* The regions get_mem_regions has inserted: insert_sorted ignores an empty one.  A
\* region reported with ebx = 0 (LastRegion) is not among them, nor in the list.
Inserted == {r \in {reported[k] : k \in 1 .. count} : r.size > 0}

\* No step of an insertion or of a repair makes an address less restricted than
\* the list says it is: fix_right and add_padding_right drop, trim and split only
\* where a region that stays in the list is at least as restrictive.  (The one
\* exception ends in panic: static_alloc fails after this_region has been cut.)
NeverLessRestricted ==
  [][pc' # "panic" =>
       LET before == Restrictions
       IN  LET after == Restrictions'
           IN  \A a \in Addresses : after[a] >= before[a]]_heap

\* Between two insertions every address is at least as restricted as each region
\* inserted for it says, whatever the order of the insertions and however the regions
\* overlap.  Of the region that get_mem_regions drops it says nothing.
InsertedIsKept ==
  AtRest =>
    LET restriction == Restrictions
    IN  \A r \in Inserted : \A a \in Addresses :
          Covers(r, a) => restriction[a] >= convert_type(r.type)

\* Once get_mem_regions is done, all memory below REAL_MODE_LIMIT is reserved,
\* whatever the firmware said of it.
LowMemoryReserved ==
  (pc \in {"rsdp", "done"} /\ count > 0) =>
    LET restriction == Restrictions
    IN  \A a \in 0 .. REAL_MODE_LIMIT - 1 : restriction[a] = SYSINFO_MT_RESERVED

\* The list is ordered by base address whenever insert_sorted is not at work.
\* (With four reports that overlap it is not: prev can be a node that the repair
\* of prev2 has taken out of the list.)
Sorted ==
  AtRest =>
    \A n \in InList :
      NextOf(n) # NULL => heap[n].base_addr <= heap[NextOf(n)].base_addr

\* Of a map in order and without overlaps no address is listed twice.
Disjoint ==
  AtRest =>
    LET live == InList
    IN  \A m, n \in live : m # n => Extent(m) \cap Extent(n) = {}

\* Of a map in order and without overlaps every address of a region that was inserted
\* keeps the type the firmware gave it; only the memory below REAL_MODE_LIMIT becomes
\* reserved.  The region that comes with ebx = 0 is not inserted and not listed.
TypesAreKept ==
  AtRest =>
    LET restriction == Restrictions
    IN  \A r \in Inserted : \A a \in Addresses :
          (Covers(r, a) /\ (pc = "e820" \/ a >= REAL_MODE_LIMIT))
             => restriction[a] = convert_type(r.type)

\* An address the list calls usable was reported as usable, or lies in a gap that
\* add_padding_right closed between two usable regions, with no region of another type
\* inserted between them.
UsableIsReported ==
  AtRest =>
    LET restriction == Restrictions
        usable == {r \in Inserted : convert_type(r.type) = SYSINFO_MT_USABLE}
    IN  \A a \in Addresses :
          restriction[a] = SYSINFO_MT_USABLE =>
            \E left, right \in usable :
              /\ left.base_addr <= a
              /\ a < right.base_addr + right.size
              /\ \A r \in Inserted \ usable :
                   ~(left.base_addr <= r.base_addr /\ r.base_addr < right.base_addr)

\* get_sysinfo comes to an end: with a result, or in panic.
Terminates == <>(pc \in {"done", "panic"})
=============================================================================
