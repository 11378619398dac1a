-------------------------- MODULE OrderedMapProofs --------------------------
(***************************************************************************)
(* What get_sysinfo makes of a memory map in address order and without     *)
(* overlaps, the map a PC's firmware gives: for every such map, of any     *)
(* length, with or without gaps, for every address width, static stack and *)
(* REAL_MODE_LIMIT.                                                        *)
(*                                                                         *)
(* OrderedInv describes the list: a chain of regions that border each      *)
(* other, with an exception for each place insert_sorted can be at.        *)
(* ContentsInv describes what it says: every address of an inserted report *)
(* has a node of its type, and a usable node lies between two usable       *)
(* reports.  The properties of SysInfo are read off the two.  None of them *)
(* is about the report that comes with ebx = 0, which is not inserted.     *)
(***************************************************************************)
EXTENDS SysInfoProofs

\* What is assumed of the firmware's map: regions in order that do not overlap, none
\* of which ends at or beyond 2^64.
OrderedMap ==
  /\ ORDERED_BIOS
  /\ \A r \in BIOS_REGIONS : r.base_addr + r.size < ADDR_MOD

List == Live(heap, mem_regions)

Top(r) == r.base_addr + r.size

InOrder ==
  /\ \A i \in 1 .. Len(reported) : Top(reported[i]) < ADDR_MOD
  /\ \A i, j \in 1 .. Len(reported) : i < j => Top(reported[i]) <= reported[j].base_addr

\* how many of the inserted regions are in the list: the one being walked is not
Linked == IF pc = "walk" /\ ret = "e820" THEN count - 1 ELSE count

\* The list is a chain and ends where a region that is in it ends.
Appending ==
  /\ count = Len(reported)
  /\ Chain(heap, mem_regions, List)
  /\ \A n \in List : \E k \in 1 .. Linked : End(heap, n) <= Top(reported[k])

\* The last node is of another type than the one before it.
LastDiffers(h, S) ==
  \A n \in S : (h[n].next # NULL /\ h[h[n].next].next = NULL) => h[n].type # h[h[n].next].type

BetweenReports ==
  pc = "e820" =>
    /\ ret = "e820"
    /\ Appending
    /\ Contiguous(heap, List)
    /\ LastDiffers(heap, List)

Walking ==
  (pc = "walk" /\ ret = "e820") =>
    /\ Appending
    /\ Contiguous(heap, List)
    /\ LastDiffers(heap, List)
    /\ count > 0
    /\ new_region \in 1 .. Len(heap) /\ new_region \notin List
    /\ heap[new_region].base_addr = reported[count].base_addr
    /\ heap[new_region].size = reported[count].size
    /\ heap[new_region].size > 0
    /\ heap[new_region].type = convert_type(reported[count].type)
    /\ IF prev = NULL THEN prev2 = NULL /\ current = mem_regions
       ELSE prev \in List /\ heap[prev].next = current
    /\ prev2 # NULL => prev2 \in List /\ heap[prev2].next = prev

\* The new region is the last of the list and prev the one before it; only these two
\* need not border.
Repairing ==
  (pc = "fix" /\ ret = "e820") =>
    /\ Appending
    /\ count > 0
    /\ new_region \in List /\ prev \in List
    /\ heap[prev].next = new_region /\ heap[new_region].next = NULL
    /\ heap[new_region].base_addr = reported[count].base_addr
    /\ End(heap, new_region) = Top(reported[count])
    /\ heap[new_region].type = convert_type(reported[count].type)
    /\ \A n \in List : n # prev =>
          (heap[n].next # NULL => End(heap, n) = heap[heap[n].next].base_addr)
    /\ \A n \in List : heap[n].next = prev => heap[n].type # heap[prev].type
    /\ limit_right = RightOf(heap, this_region)
    /\ \/ this_region = prev /\ pending = NULL
       \/ this_region \in List /\ heap[this_region].next = prev /\ pending = prev

WalkingLow ==
  (pc = "walk" /\ ret = "rsdp") =>
    /\ Chain(heap, mem_regions, List)
    /\ Contiguous(heap, List)
    /\ prev = NULL /\ prev2 = NULL /\ current = mem_regions
    /\ new_region \in 1 .. Len(heap) /\ new_region \notin List
    /\ heap[new_region] = Reserved

\* the list behind its head
Rest == Live(heap, heap[mem_regions].next)

RepairingLow ==
  (pc = "fix" /\ ret = "rsdp") =>
    /\ mem_regions # NULL
    /\ this_region = mem_regions /\ pending = NULL
    /\ heap[mem_regions].base_addr = 0
    /\ heap[mem_regions].size = REAL_MODE_LIMIT
    /\ heap[mem_regions].type = SYSINFO_MT_RESERVED
    /\ limit_right = REAL_MODE_LIMIT
    /\ mem_regions \notin Rest
    /\ Chain(heap, heap[mem_regions].next, Rest)
    /\ Contiguous(heap, Rest)

Complete ==
  (pc \in {"rsdp", "done"}) =>
    /\ Chain(heap, mem_regions, List)
    /\ Contiguous(heap, List)
    /\ ret = "e820" => count = 0
    /\ ret = "rsdp" =>
         /\ mem_regions # NULL
         /\ heap[mem_regions].base_addr = 0
         /\ heap[mem_regions].size >= REAL_MODE_LIMIT
         /\ heap[mem_regions].type = SYSINFO_MT_RESERVED

OrderedInv ==
  /\ InOrder
  /\ BetweenReports
  /\ Walking
  /\ Repairing
  /\ WalkingLow
  /\ RepairingLow
  /\ Complete

-----------------------------------------------------------------------------
\* The empty list.
LEMMA InitOrdered == SysInfoInit => OrderedInv
<1> SUFFICES ASSUME SysInfoInit PROVE OrderedInv
  OBVIOUS
<1>1. HeapOK(heap) /\ Len(heap) = 0 /\ mem_regions \in 0 .. Len(heap)
  BY MaxRegionsAssumption DEF SysInfoInit, ListInit, HeapOK, NULL
<1>2. List \subseteq 1 .. 0
  BY <1>1, LiveClosed DEF List
<1>3. \A n \in List : FALSE
  BY <1>2
<1>4. Chain(heap, mem_regions, List) /\ Contiguous(heap, List) /\ LastDiffers(heap, List)
  BY <1>2, <1>3 DEF Chain, Contiguous, LastDiffers, SysInfoInit, ListInit
<1>5. Len(reported) = 0 /\ count = 0 /\ pc = "e820" /\ ret = "e820"
  BY DEF SysInfoInit
<1>6. QED
  BY <1>3, <1>4, <1>5 DEF OrderedInv, InOrder, BetweenReports, Walking, Repairing, WalkingLow,
     RepairingLow, Complete, Appending

\* The list of a heap to which a node is added that nothing points at.
LEMMA GrowLive ==
  ASSUME NEW h, HeapOK(h), NEW head \in 0 .. Len(h), Chain(h, head, Live(h, head)),
         NEW r \in Regions, HeapOK(Append(h, r))
  PROVE  /\ Len(Append(h, r)) = Len(h) + 1
         /\ \A n \in 1 .. Len(h) : Append(h, r)[n] = h[n]
         /\ Append(h, r)[Len(h) + 1] = r
         /\ Live(Append(h, r), head) = Live(h, head)
         /\ Chain(Append(h, r), head, Live(h, head))
<1> DEFINE g == Append(h, r)
           S == Live(h, head)
<1>1. h \in Seq(Regions) /\ Len(h) \in Nat
  BY DEF HeapOK
<1>2. /\ Len(g) = Len(h) + 1
      /\ \A n \in 1 .. Len(h) : g[n] = h[n]
      /\ g[Len(h) + 1] = r
  BY <1>1, AppendProperties
<1>3. S \subseteq 1 .. Len(h)
  BY LiveClosed
<1> HIDE DEF g, S
<1>4. Chain(g, head, S)
  <2>1. Len(g) \in Nat /\ Len(h) <= Len(g) /\ \A n \in S : g[n] = h[n]
    BY <1>1, <1>2, <1>3
  <2>2. Chain(h, head, S)
    BY DEF S
  <2>3. QED
    BY <1>1, <2>1, <2>2, ChainFrame
<1>5. Live(g, head) = S
  <2>1. HeapOK(g) /\ head \in 0 .. Len(g)
    BY <1>1, <1>2 DEF g
  <2>2. QED
    BY <1>4, <2>1, ChainIsLive
<1>6. QED
  BY <1>2, <1>4, <1>5 DEF g, S

-----------------------------------------------------------------------------
(* The reports and the walk *)

\* The nodes of the heap and the pointers of the list, as numbers.
LEMMA Nodes ==
  ASSUME SysInfoTypeOK
  PROVE  /\ HeapOK(heap) /\ Len(heap) \in Nat /\ mem_regions \in 0 .. Len(heap)
         /\ List \subseteq 1 .. Len(heap)
         /\ \A n \in 1 .. Len(heap) :
               /\ heap[n].base_addr \in Nat /\ heap[n].size \in Nat
               /\ heap[n].base_addr < ADDR_MOD /\ heap[n].size < ADDR_MOD
               /\ heap[n].next \in 0 .. Len(heap) /\ heap[n].type \in MemTypes
               /\ End(heap, n) \in Nat
               /\ End(heap, n) < ADDR_MOD => RightOf(heap, n) = End(heap, n)
         /\ \A n \in List : heap[n].next # NULL => heap[n].next \in List
<1>1. HeapOK(heap) /\ Len(heap) \in Nat /\ mem_regions \in 0 .. Len(heap)
  BY DEF SysInfoTypeOK, ListTypeOK, HeapOK, Pointers
<1>2. List \subseteq 1 .. Len(heap) /\ \A n \in List : heap[n].next # NULL => heap[n].next \in List
  BY <1>1, LiveClosed DEF List, Closed
<1>3. ASSUME NEW n \in 1 .. Len(heap)
      PROVE  heap[n].base_addr < ADDR_MOD /\ heap[n].size < ADDR_MOD
  BY <1>1, NodeType, AddrModAssumption DEF Addresses
<1>4. QED
  BY <1>1, <1>2, <1>3, NodeNumbers

\* The same after a step.
LEMMA NodesNext ==
  ASSUME SysInfoTypeOK'
  PROVE  /\ HeapOK(heap') /\ Len(heap') \in Nat /\ mem_regions' \in 0 .. Len(heap')
         /\ \A n \in 1 .. Len(heap') :
               /\ heap'[n].base_addr \in Nat /\ heap'[n].size \in Nat
               /\ heap'[n].next \in 0 .. Len(heap') /\ heap'[n].type \in MemTypes
               /\ End(heap', n) \in Nat
               /\ End(heap', n) < ADDR_MOD => RightOf(heap', n) = End(heap', n)
<1>1. HeapOK(heap') /\ Len(heap') \in Nat /\ mem_regions' \in 0 .. Len(heap')
  BY DEF SysInfoTypeOK, ListTypeOK, HeapOK, Pointers
<1>2. QED
  BY <1>1, NodeNumbers

\* A chain from the new head is the new list.
LEMMA NewList ==
  ASSUME SysInfoTypeOK', NEW S, Chain(heap', mem_regions', S)
  PROVE  List' = S
BY NodesNext, ChainIsLive DEF List

\* The history stays in order.
LEMMA ReportInOrder ==
  ASSUME SysInfoTypeOK, OrderedMap, InOrder, NEW r \in NextReports,
         reported' = Append(reported, r)
  PROVE  /\ Len(reported) \in Nat /\ Len(reported') = Len(reported) + 1
         /\ \A k \in 1 .. Len(reported) : reported'[k] = reported[k]
         /\ reported'[Len(reported) + 1] = r
         /\ r.base_addr \in Nat /\ r.size \in Nat /\ r \in E820Regions
         /\ InOrder'
<1>1. reported \in Seq(E820Regions)
  BY DEF SysInfoTypeOK
<1>2. r \in E820Regions /\ r \in BIOS_REGIONS
  BY BiosRegionsAssumption DEF NextReports
<1>3. /\ Len(reported) \in Nat /\ Len(reported') = Len(reported) + 1
      /\ \A k \in 1 .. Len(reported) : reported'[k] = reported[k]
      /\ reported'[Len(reported) + 1] = r
  BY <1>1, <1>2, AppendProperties
<1>4. r.base_addr \in Nat /\ r.size \in Nat
  BY <1>2, AddrModAssumption DEF E820Regions, Addresses
<1>5. /\ Top(r) < ADDR_MOD
      /\ \A k \in 1 .. Len(reported) : Top(reported[k]) <= r.base_addr
  BY <1>2 DEF OrderedMap, NextReports, Top
<1>6. ASSUME NEW i \in 1 .. Len(reported') PROVE Top(reported'[i]) < ADDR_MOD
  <2>1. CASE i = Len(reported) + 1
    BY <1>3, <1>5, <2>1
  <2>2. CASE i # Len(reported) + 1
    <3>1. i \in 1 .. Len(reported)
      BY <1>3, <2>2
    <3>2. QED
      BY <1>3, <3>1 DEF InOrder
  <2>3. QED
    BY <2>1, <2>2
<1>7. ASSUME NEW i \in 1 .. Len(reported'), NEW j \in 1 .. Len(reported'), i < j
      PROVE  Top(reported'[i]) <= reported'[j].base_addr
  <2>1. i \in 1 .. Len(reported)
    BY <1>3, <1>7
  <2>2. CASE j = Len(reported) + 1
    BY <1>3, <1>5, <2>1, <2>2
  <2>3. CASE j # Len(reported) + 1
    <3>1. j \in 1 .. Len(reported)
      BY <1>3, <2>3
    <3>2. QED
      BY <1>3, <1>7, <2>1, <3>1 DEF InOrder
  <2>4. QED
    BY <2>2, <2>3
<1>8. QED
  BY <1>2, <1>3, <1>4, <1>6, <1>7 DEF InOrder

\* At each label one part of the invariant says something.
LEMMA OnePart ==
  ASSUME InOrder'
  PROVE  /\ pc' = "panic" => OrderedInv'
         /\ pc' = "e820" /\ BetweenReports' => OrderedInv'
         /\ pc' = "walk" /\ ret' = "e820" /\ Walking' => OrderedInv'
         /\ pc' = "fix" /\ ret' = "e820" /\ Repairing' => OrderedInv'
         /\ pc' = "walk" /\ ret' = "rsdp" /\ WalkingLow' => OrderedInv'
         /\ pc' = "fix" /\ ret' = "rsdp" /\ RepairingLow' => OrderedInv'
         /\ pc' \in {"rsdp", "done"} /\ Complete' => OrderedInv'
<1>1. ASSUME pc' # "e820" PROVE BetweenReports'
  BY <1>1 DEF BetweenReports
<1>2. ASSUME ~ (pc' = "walk" /\ ret' = "e820") PROVE Walking'
  BY <1>2 DEF Walking
<1>3. ASSUME ~ (pc' = "fix" /\ ret' = "e820") PROVE Repairing'
  BY <1>3 DEF Repairing
<1>4. ASSUME ~ (pc' = "walk" /\ ret' = "rsdp") PROVE WalkingLow'
  BY <1>4 DEF WalkingLow
<1>5. ASSUME ~ (pc' = "fix" /\ ret' = "rsdp") PROVE RepairingLow'
  BY <1>5 DEF RepairingLow
<1>6. ASSUME pc' \notin {"rsdp", "done"} PROVE Complete'
  BY <1>6 DEF Complete
<1>7. QED
  BY <1>1, <1>2, <1>3, <1>4, <1>5, <1>6 DEF OrderedInv

-----------------------------------------------------------------------------
\* A reported region is allocated: the list stays what it is.
LEMMA NextRegionOrdered ==
  ASSUME SysInfoTypeOK, SysInfoTypeOK', OrderedMap, OrderedInv,
         NEW r \in NextReports, NextRegion(r)
  PROVE  /\ OrderedInv' /\ List' = List
         /\ \A n \in List : heap'[n] = heap[n]
<1> DEFINE node == convert_region(r)
<1>1. /\ heap' = Append(heap, node) /\ mem_regions' = mem_regions
      /\ reported' = Append(reported, r) /\ count' = count + 1
      /\ pc' = (IF node.size = 0 THEN "e820" ELSE "walk") /\ ret' = "e820"
      /\ new_region' = Len(heap) + 1
      /\ prev2' = NULL /\ prev' = NULL /\ current' = mem_regions
  BY DEF NextRegion, CallInsert
<1>2. /\ count = Len(reported) /\ Chain(heap, mem_regions, List)
      /\ \A n \in List : \E k \in 1 .. count : End(heap, n) <= Top(reported[k])
      /\ Contiguous(heap, List) /\ LastDiffers(heap, List)
  BY DEF NextRegion, OrderedInv, BetweenReports, Appending, Linked
<1>3. InOrder
  BY DEF OrderedInv
<1>4. /\ Len(reported) \in Nat /\ Len(reported') = Len(reported) + 1
      /\ \A k \in 1 .. Len(reported) : reported'[k] = reported[k]
      /\ reported'[Len(reported) + 1] = r
      /\ r.base_addr \in Nat /\ r.size \in Nat /\ r \in E820Regions
      /\ InOrder'
  BY <1>1, <1>3, ReportInOrder
<1>5. node \in Regions /\ node.base_addr = r.base_addr /\ node.size = r.size
      /\ node.type = convert_type(r.type)
  BY <1>4, ConvertType DEF convert_region, Region
<1> HIDE DEF node
<1>6. HeapOK(heap) /\ Len(heap) \in Nat /\ mem_regions \in 0 .. Len(heap) /\ List \subseteq 1 .. Len(heap)
  BY Nodes
<1>7. /\ Len(heap') = Len(heap) + 1
      /\ \A n \in 1 .. Len(heap) : heap'[n] = heap[n]
      /\ heap'[Len(heap) + 1] = node
      /\ List' = List
      /\ Chain(heap', mem_regions', List')
  <2>1. HeapOK(Append(heap, node))
    BY <1>1, NodesNext
  <2>2. QED
    BY <1>1, <1>2, <1>5, <1>6, <2>1, GrowLive DEF List
<1>8. \A n \in List : heap'[n] = heap[n] /\ (heap[n].next # NULL => heap'[heap[n].next] = heap[heap[n].next])
  BY <1>6, <1>7, Nodes
<1>9. Contiguous(heap', List') /\ LastDiffers(heap', List')
  <2>1. Contiguous(heap', List')
    BY <1>2, <1>7, <1>8 DEF Contiguous, End
  <2>2. ASSUME NEW n \in List', heap'[n].next # NULL, heap'[heap'[n].next].next = NULL
        PROVE  heap'[n].type # heap'[heap'[n].next].type
    <3>1. n \in List /\ heap'[n] = heap[n]
      BY <1>7, <1>8
    <3>2. heap'[heap'[n].next] = heap[heap[n].next]
      BY <1>8, <2>2, <3>1
    <3>3. QED
      BY <1>2, <2>2, <3>1, <3>2 DEF LastDiffers
  <2>3. QED
    BY <2>1, <2>2 DEF LastDiffers
<1>10. Appending'
  <2>1. Linked' \in {count, count + 1}
    BY <1>1, <1>2, <1>4 DEF Linked
  <2>2. ASSUME NEW n \in List' PROVE \E k \in 1 .. Linked' : End(heap', n) <= Top(reported'[k])
    <3>1. PICK k \in 1 .. count : End(heap, n) <= Top(reported[k])
      BY <1>2, <1>7
    <3>2. k \in 1 .. Linked' /\ reported'[k] = reported[k]
      BY <1>2, <1>4, <2>1, <3>1
    <3>3. End(heap', n) = End(heap, n)
      BY <1>7, <1>8 DEF End
    <3>4. QED
      BY <3>1, <3>2, <3>3
  <2>3. QED
    BY <1>1, <1>2, <1>4, <1>7, <2>2 DEF Appending
<1>11. CASE node.size = 0
  <2>1. BetweenReports'
    BY <1>1, <1>9, <1>10 DEF BetweenReports
  <2>2. QED
    BY <1>1, <1>4, <1>7, <1>8, <1>11, <2>1, OnePart
<1>12. CASE node.size # 0
  <2>1. Walking'
    <3>1. new_region' \in 1 .. Len(heap') /\ new_region' \notin List'
      BY <1>1, <1>6, <1>7
    <3>2. count' > 0 /\ reported'[count'] = r /\ heap'[new_region'] = node /\ node.size > 0
      BY <1>1, <1>2, <1>4, <1>5, <1>7, <1>12
    <3>3. QED
      BY <1>1, <1>5, <1>9, <1>10, <3>1, <3>2 DEF Walking
  <2>2. QED
    BY <1>1, <1>4, <1>7, <1>8, <1>12, <2>1, OnePart
<1>13. QED
  BY <1>7, <1>8, <1>11, <1>12

\* ReserveLow and the end of an empty map
LEMMA AfterLoopOrdered ==
  ASSUME SysInfoTypeOK, SysInfoTypeOK', OrderedInv, InOrder', pc = "e820", AfterLoop,
         count' = count
  PROVE  /\ OrderedInv'
         /\ pc' # "panic" => List' = List /\ \A n \in List : heap'[n] = heap[n]
<1>1. /\ ret = "e820" /\ Chain(heap, mem_regions, List) /\ Contiguous(heap, List)
  BY DEF OrderedInv, BetweenReports, Appending
<1>2. CASE NoRegions
  <2>1. heap' = heap /\ mem_regions' = mem_regions /\ ret' = ret /\ pc' = "done" /\ count = 0
    BY <1>2 DEF NoRegions, ListUnchanged
  <2>2. List' = List
    BY <2>1 DEF List
  <2>3. Complete'
    BY <1>1, <2>1, <2>2 DEF Complete
  <2>4. QED
    BY <2>1, <2>2, <2>3, OnePart
<1>3. CASE ReserveLow
  <2>1. /\ heap' = Append(heap, Reserved) /\ mem_regions' = mem_regions
        /\ pc' = "walk" /\ ret' = "rsdp"
        /\ new_region' = Len(heap) + 1
        /\ prev2' = NULL /\ prev' = NULL /\ current' = mem_regions
    <3>1. Reserved.size # 0
      BY RealModeLimitAssumption DEF Reserved, Region, Addresses
    <3>2. QED
      BY <1>3, <3>1 DEF ReserveLow, CallInsert
  <2>2. HeapOK(heap) /\ Len(heap) \in Nat /\ mem_regions \in 0 .. Len(heap) /\ List \subseteq 1 .. Len(heap)
    BY Nodes
  <2>3. /\ Len(heap') = Len(heap) + 1
        /\ \A n \in 1 .. Len(heap) : heap'[n] = heap[n]
        /\ heap'[Len(heap) + 1] = Reserved
        /\ List' = List
        /\ Chain(heap', mem_regions', List')
    <3>1. HeapOK(Append(heap, Reserved)) /\ Reserved \in Regions
      BY <2>1, NodesNext, ReservedType
    <3>2. QED
      BY <1>1, <2>1, <2>2, <3>1, GrowLive DEF List
  <2>4. \A n \in List : heap'[n] = heap[n] /\ (heap[n].next # NULL => heap'[heap[n].next] = heap[heap[n].next])
    BY <2>2, <2>3, Nodes
  <2>5. Contiguous(heap', List')
    BY <1>1, <2>3, <2>4 DEF Contiguous, End
  <2>6. WalkingLow'
    <3>1. new_region' \in 1 .. Len(heap') /\ new_region' \notin List' /\ heap'[new_region'] = Reserved
      BY <2>1, <2>2, <2>3
    <3>2. Reserved' = Reserved
      BY DEF Reserved, Region
    <3>3. QED
      BY <2>1, <2>3, <2>5, <3>1, <3>2 DEF WalkingLow
  <2>7. QED
    BY <2>1, <2>3, <2>4, <2>6, OnePart
<1>4. CASE ReserveLowPanic
  <2>1. pc' = "panic"
    BY <1>4 DEF ReserveLowPanic, AllocPanic
  <2>2. QED
    BY <2>1, OnePart
<1>5. QED
  BY <1>2, <1>3, <1>4 DEF AfterLoop

\* The search of the RSDP leaves the list alone.
LEMMA SearchOrdered ==
  ASSUME OrderedInv, SearchRsdp
  PROVE  OrderedInv'
<1>1. /\ pc = "rsdp" /\ pc' = "done" /\ heap' = heap /\ mem_regions' = mem_regions /\ ret' = ret
      /\ reported' = reported /\ count' = count
  BY DEF SearchRsdp, ListUnchanged
<1>2. InOrder' /\ List' = List
  BY <1>1 DEF OrderedInv, InOrder, List
<1>3. Complete'
  BY <1>1, <1>2 DEF OrderedInv, Complete
<1>4. QED
  BY <1>1, <1>2, <1>3, OnePart

-----------------------------------------------------------------------------
(* The walk *)

\* One iteration of the walk.
LEMMA WalkOrdered ==
  ASSUME SysInfoTypeOK, OrderedInv, Walk, UNCHANGED sysinfoVars
  PROVE  OrderedInv'
<1>1. /\ pc = "walk" /\ BeforeNew /\ prev2' = prev /\ prev' = current /\ current' = NextOf(current)
      /\ heap' = heap /\ mem_regions' = mem_regions /\ pc' = pc /\ ret' = ret
      /\ new_region' = new_region /\ reported' = reported /\ count' = count
  BY DEF Walk, sysinfoVars
<1>2. InOrder' /\ List' = List /\ Linked' = Linked
  BY <1>1 DEF OrderedInv, InOrder, List, Linked
<1>3. ret = "e820"
  <2>1. ret = "e820" \/ ret = "rsdp"
    BY DEF SysInfoTypeOK
  <2>2. SUFFICES ASSUME ret = "rsdp" PROVE FALSE
    BY <2>1
  <2>3. heap[new_region].base_addr = 0 /\ current = mem_regions
    BY <1>1, <2>2 DEF OrderedInv, WalkingLow, Reserved, Region
  <2>4. current \in 1 .. Len(heap)
    BY <1>1, <2>3, Nodes DEF BeforeNew, NULL
  <2>5. QED
    BY <1>1, <2>3, <2>4, Nodes DEF BeforeNew
<1>4. Walking
  BY DEF OrderedInv
<1>5. current # NULL /\ current \in List
  <2>1. current # NULL
    BY <1>1 DEF BeforeNew
  <2>2. CASE prev = NULL
    BY <1>1, <1>3, <1>4, <2>1, <2>2 DEF Walking, Appending, Chain
  <2>3. CASE prev # NULL
    <3>1. prev \in List /\ heap[prev].next = current
      BY <1>1, <1>3, <1>4, <2>3 DEF Walking
    <3>2. QED
      BY <2>1, <3>1, Nodes
  <2>4. QED
    BY <2>2, <2>3
<1>6. Walking'
  <2>1. prev # NULL => prev \in List /\ heap[prev].next = current
    BY <1>1, <1>3, <1>4 DEF Walking
  <2>2. Appending'
    BY <1>1, <1>2, <1>3, <1>4 DEF Walking, Appending
  <2>3. QED
    BY <1>1, <1>2, <1>3, <1>4, <1>5, <2>1, <2>2 DEF Walking, NextOf
<1>7. QED
  BY <1>1, <1>2, <1>3, <1>6, OnePart

\* No two nodes of a chain have the same successor, and only one has none.
LEMMA NextInjective ==
  ASSUME NEW h, NEW head, NEW S, Chain(h, head, S),
         \A n \in S : h[n].base_addr \in Nat /\ h[n].size \in Nat,
         NEW m \in S, NEW n \in S, h[m].next = h[n].next
  PROVE  m = n
<1>1. ASSUME NEW x \in S, NEW y \in S, h[x].next = h[y].next,
             h[x].base_addr < h[y].base_addr
      PROVE  FALSE
  <2> DEFINE z == h[x].next
  <2>1. z # NULL /\ h[z].base_addr <= h[y].base_addr
    BY <1>1 DEF Chain
  <2>2. z \in S /\ End(h, y) <= h[z].base_addr /\ h[y].size > 0
    BY <1>1, <2>1 DEF Chain, Whole
  <2>3. h[y].base_addr \in Nat /\ h[y].size \in Nat /\ h[z].base_addr \in Nat
    BY <2>2
  <2> HIDE DEF z
  <2>4. QED
    BY <2>1, <2>2, <2>3 DEF End
<1>2. h[m].base_addr = h[n].base_addr
  <2>1. h[m].base_addr \in Nat /\ h[n].base_addr \in Nat
    OBVIOUS
  <2>2. ~ (h[m].base_addr < h[n].base_addr) /\ ~ (h[n].base_addr < h[m].base_addr)
    BY <1>1
  <2>3. QED
    BY <2>1, <2>2
<1>3. QED
  BY <1>2 DEF Chain

-----------------------------------------------------------------------------
(* The new node is linked *)

\* While the map is read, every node ends before the new one begins.
LEMMA NewIsLast ==
  ASSUME SysInfoTypeOK, OrderedInv, pc = "walk", ret = "e820"
  PROVE  /\ \A n \in List : End(heap, n) <= heap[new_region].base_addr
         /\ ~BeforeNew => current = NULL
         /\ Whole(heap, new_region)
         /\ new_region \in 1 .. Len(heap) /\ new_region \notin List
<1>1. /\ Appending /\ count > 0
      /\ new_region \in 1 .. Len(heap) /\ new_region \notin List
      /\ heap[new_region].base_addr = reported[count].base_addr
      /\ heap[new_region].size = reported[count].size
      /\ heap[new_region].size > 0
      /\ IF prev = NULL THEN prev2 = NULL /\ current = mem_regions
         ELSE prev \in List /\ heap[prev].next = current
  BY DEF OrderedInv, Walking
<1>2. Linked = count - 1 /\ count = Len(reported) /\ count \in Nat
  BY <1>1 DEF Appending, Linked, SysInfoTypeOK
<1>3. ASSUME NEW n \in List PROVE End(heap, n) <= heap[new_region].base_addr
  <2>1. PICK k \in 1 .. Linked : End(heap, n) <= Top(reported[k])
    BY <1>1 DEF Appending
  <2>2. k \in 1 .. Len(reported) /\ count \in 1 .. Len(reported) /\ k < count
    BY <1>1, <1>2, <2>1
  <2>3. Top(reported[k]) <= reported[count].base_addr
    BY <2>2 DEF OrderedInv, InOrder
  <2>4. End(heap, n) \in Nat /\ heap[new_region].base_addr \in Nat
    BY <1>1, Nodes
  <2>5. Top(reported[k]) \in Int
    <3>1. reported[k] \in E820Regions
      BY <2>2 DEF SysInfoTypeOK
    <3>2. QED
      BY <3>1 DEF E820Regions, Addresses, Top
  <2>6. QED
    BY <1>1, <2>1, <2>3, <2>4, <2>5
<1>4. ASSUME ~BeforeNew, current # NULL PROVE FALSE
  <2>1. current \in List
    <3>1. CASE prev = NULL
      BY <1>1, <1>4, <3>1 DEF Appending, Chain
    <3>2. CASE prev # NULL
      BY <1>1, <1>4, <3>2, Nodes
    <3>3. QED
      BY <3>1, <3>2
  <2>2. End(heap, current) <= heap[new_region].base_addr /\ heap[current].size > 0
    BY <1>1, <1>3, <2>1 DEF Appending, Chain, Whole
  <2>3. heap[current].base_addr \in Nat /\ heap[current].size \in Nat /\ heap[new_region].base_addr \in Nat
    BY <1>1, <2>1, Nodes
  <2>4. ~ (heap[current].base_addr < heap[new_region].base_addr)
    BY <1>4 DEF BeforeNew
  <2>5. QED
    BY <2>2, <2>3, <2>4 DEF End
<1>5. Whole(heap, new_region)
  <2>1. Top(reported[count]) < ADDR_MOD
    BY <1>1, <1>2 DEF OrderedInv, InOrder
  <2>2. QED
    BY <1>1, <2>1 DEF Whole, End, Top
<1>6. QED
  BY <1>1, <1>3, <1>4, <1>5

\* The first region of the list.
LEMMA LinkFirstOrdered ==
  ASSUME SysInfoTypeOK, SysInfoTypeOK', OrderedInv, LinkFirst, UNCHANGED sysinfoVars
  PROVE  /\ OrderedInv'
         /\ List = {} /\ List' = {new_region}
         /\ heap'[new_region].base_addr = heap[new_region].base_addr
         /\ heap'[new_region].size = heap[new_region].size
         /\ heap'[new_region].type = heap[new_region].type
<1>1. /\ pc = "walk" /\ ~BeforeNew /\ mem_regions = NULL /\ mem_regions' = new_region
      /\ heap' = [heap EXCEPT ![new_region].next = NULL]
      /\ pc' = ret /\ ret' = ret
      /\ reported' = reported /\ count' = count
  BY DEF LinkFirst, sysinfoVars
<1>2. ret \in {"e820", "rsdp"}
  BY DEF SysInfoTypeOK
<1>3. InOrder'
  BY <1>1 DEF OrderedInv, InOrder
<1>4. new_region \in 1 .. Len(heap)
  BY <1>1, <1>2 DEF OrderedInv, Walking, WalkingLow
<1>5. HeapOK(heap) /\ Len(heap) \in Nat
  BY Nodes
<1>6. /\ Len(heap') = Len(heap)
      /\ heap'[new_region].base_addr = heap[new_region].base_addr
      /\ heap'[new_region].size = heap[new_region].size
      /\ heap'[new_region].type = heap[new_region].type
      /\ heap'[new_region].next = NULL
  <2>1. heap' = SetNextOf(heap, new_region, NULL)
    BY <1>1 DEF SetNextOf
  <2>2. heap \in Seq(Regions) /\ NULL \in Nat
    BY <1>5 DEF HeapOK, NULL
  <2>3. QED
    BY <1>4, <2>1, <2>2, SetNextOfWrites
<1>7. ASSUME Whole(heap, new_region)
      PROVE  /\ List' = {new_region} /\ Chain(heap', mem_regions', List')
             /\ Contiguous(heap', List') /\ LastDiffers(heap', List')
  <2>1. Whole(heap', new_region)
    BY <1>6, <1>7 DEF Whole, End
  <2>2. Chain(heap', mem_regions', {new_region})
    BY <1>1, <1>4, <1>6, <2>1, NodesNext, ChainOfOne
  <2>3. List' = {new_region}
    BY <2>2, NewList
  <2>4. QED
    BY <1>6, <2>2, <2>3 DEF Contiguous, LastDiffers
<1>7a. List = {}
  <2>1. Chain(heap, mem_regions, List)
    BY <1>1, <1>2 DEF OrderedInv, Walking, WalkingLow, Appending
  <2>2. \A n \in List : NULL \in List
    BY <1>1, <2>1 DEF Chain
  <2>3. QED
    BY <2>2, Nodes DEF NULL
<1>8. CASE ret = "e820"
  <2>1. /\ heap[new_region].base_addr = reported[count].base_addr
        /\ heap[new_region].size = reported[count].size
        /\ count > 0 /\ count = Len(reported)
    BY <1>1, <1>8 DEF OrderedInv, Walking, Appending
  <2>2. Whole(heap, new_region)
    BY <1>1, <1>8, NewIsLast
  <2>3. Linked' = count
    BY <1>1, <1>8 DEF Linked
  <2>4. End(heap', new_region) = Top(reported[count]) /\ count \in 1 .. count
    BY <1>6, <2>1 DEF End, Top, SysInfoTypeOK
  <2>5. Appending'
    <3>1. End(heap', new_region) \in Nat
      BY <1>4, <1>6, NodesNext
    <3>2. End(heap', new_region) <= Top(reported'[count])
      BY <1>1, <2>4, <3>1
    <3>3. QED
      BY <1>1, <1>7, <2>1, <2>2, <2>3, <2>4, <3>2 DEF Appending
  <2>6. BetweenReports'
    BY <1>1, <1>7, <1>8, <2>2, <2>5 DEF BetweenReports
  <2>7. QED
    BY <1>1, <1>3, <1>6, <1>7, <1>8, <1>7a, <2>2, <2>6, OnePart
<1>9. CASE ret = "rsdp"
  <2>1. heap[new_region] = Reserved
    BY <1>1, <1>9 DEF OrderedInv, WalkingLow
  <2>2. /\ heap[new_region].base_addr = 0 /\ heap[new_region].size = REAL_MODE_LIMIT
        /\ heap[new_region].type = SYSINFO_MT_RESERVED
    BY <2>1 DEF Reserved, Region
  <2>3. REAL_MODE_LIMIT \in Nat /\ REAL_MODE_LIMIT > 0 /\ REAL_MODE_LIMIT < ADDR_MOD
    BY RealModeLimitAssumption, AddrModAssumption DEF Addresses
  <2>4. Whole(heap, new_region)
    BY <2>2, <2>3 DEF Whole, End
  <2>5. new_region # NULL
    BY <1>4 DEF NULL
  <2>6. Complete'
    BY <1>1, <1>6, <1>7, <1>9, <2>2, <2>3, <2>4, <2>5 DEF Complete
  <2>7. QED
    BY <1>1, <1>3, <1>6, <1>7, <1>9, <1>7a, <2>4, <2>6, OnePart
<1>10. QED
  BY <1>2, <1>8, <1>9

\* Only the low memory is put before the others.
LEMMA LinkHeadOrdered ==
  ASSUME SysInfoTypeOK, SysInfoTypeOK', OrderedInv, LinkHead, UNCHANGED sysinfoVars
  PROVE  /\ OrderedInv' /\ ret = "rsdp"
         /\ List' = List \cup {new_region} /\ heap'[new_region].type = SYSINFO_MT_RESERVED
         /\ \A n \in List : heap'[n] = heap[n]
<1>1. /\ pc = "walk" /\ ~BeforeNew /\ prev = NULL /\ mem_regions # NULL
      /\ mem_regions' = new_region
      /\ heap' = [heap EXCEPT ![new_region].next = mem_regions]
      /\ pc' = "fix" /\ ret' = ret /\ this_region' = new_region
      /\ limit_right' = RightOf(heap', new_region) /\ pending' = NULL
      /\ reported' = reported /\ count' = count
  BY DEF LinkHead, EnterFix, sysinfoVars
<1>2. ret = "rsdp"
  <2>1. SUFFICES ASSUME ret = "e820" PROVE FALSE
    BY DEF SysInfoTypeOK
  <2>2. current = mem_regions
    BY <1>1, <2>1 DEF OrderedInv, Walking
  <2>3. QED
    BY <1>1, <2>1, <2>2, NewIsLast
<1>3. InOrder'
  BY <1>1 DEF OrderedInv, InOrder
<1>4. /\ Chain(heap, mem_regions, List) /\ Contiguous(heap, List)
      /\ new_region \in 1 .. Len(heap) /\ new_region \notin List
      /\ heap[new_region] = Reserved
  BY <1>1, <1>2 DEF OrderedInv, WalkingLow
<1>5. HeapOK(heap) /\ Len(heap) \in Nat /\ mem_regions \in 0 .. Len(heap) /\ List \subseteq 1 .. Len(heap)
  BY Nodes
<1>6. /\ Len(heap') = Len(heap)
      /\ heap'[new_region].base_addr = heap[new_region].base_addr
      /\ heap'[new_region].size = heap[new_region].size
      /\ heap'[new_region].type = heap[new_region].type
      /\ heap'[new_region].next = mem_regions
      /\ \A n \in 1 .. Len(heap) : n # new_region => heap'[n] = heap[n]
  <2>1. heap' = SetNextOf(heap, new_region, mem_regions)
    BY <1>1 DEF SetNextOf
  <2>2. heap \in Seq(Regions) /\ mem_regions \in Nat
    BY <1>5 DEF HeapOK
  <2>3. QED
    BY <1>4, <2>1, <2>2, SetNextOfWrites
<1>7. \A n \in List : heap'[n] = heap[n]
  BY <1>4, <1>5, <1>6
<1>8. Chain(heap', mem_regions, List)
  <2>1. Len(heap') \in Nat /\ Len(heap) <= Len(heap')
    BY <1>5, <1>6
  <2>2. Chain(heap, mem_regions, List)
    BY <1>4
  <2>3. QED
    BY <1>5, <1>7, <2>1, <2>2, ChainFrame
<1>9. Rest' = List
  <2>1. HeapOK(heap') /\ mem_regions \in 0 .. Len(heap')
    BY <1>5, <1>6, NodesNext
  <2>2. Live(heap', mem_regions) = List
    BY <1>8, <2>1, ChainIsLive
  <2>3. heap'[mem_regions'].next = mem_regions
    BY <1>1, <1>6
  <2>4. QED
    BY <2>2, <2>3 DEF Rest
<1>10. Contiguous(heap', Rest')
  <2>1. \A n \in List : heap[n].next # NULL => heap'[heap[n].next] = heap[heap[n].next]
    BY <1>7, Nodes
  <2>2. QED
    BY <1>4, <1>7, <1>9, <2>1 DEF Contiguous, End
<1>11. /\ heap'[new_region].base_addr = 0 /\ heap'[new_region].size = REAL_MODE_LIMIT
       /\ heap'[new_region].type = SYSINFO_MT_RESERVED
  BY <1>4, <1>6 DEF Reserved, Region
<1>12. REAL_MODE_LIMIT \in Nat /\ REAL_MODE_LIMIT > 0 /\ REAL_MODE_LIMIT < ADDR_MOD
  BY RealModeLimitAssumption, AddrModAssumption DEF Addresses
<1>13. limit_right' = REAL_MODE_LIMIT
  <2>1. End(heap', new_region) = REAL_MODE_LIMIT
    BY <1>11, <1>12 DEF End
  <2>2. QED
    BY <1>1, <1>4, <1>6, <1>12, <2>1, NodesNext
<1>14. RepairingLow'
  <2>1. new_region # NULL
    BY <1>4 DEF NULL
  <2>2. QED
    BY <1>1, <1>4, <1>6, <1>8, <1>9, <1>10, <1>11, <1>13, <2>1 DEF RepairingLow
<1>15. List' = List \cup {new_region}
  <2>1. new_region \in 1 .. Len(heap')
    BY <1>4, <1>6
  <2>2. Live(heap', new_region) = {new_region} \cup Live(heap', heap'[new_region].next)
    BY <2>1, NodesNext, LiveCons
  <2>3. QED
    BY <1>1, <1>9, <2>2 DEF List, Rest
<1>16. QED
  BY <1>1, <1>2, <1>3, <1>7, <1>11, <1>14, <1>15, OnePart

\* A reported region becomes the last of the list.
LEMMA LinkAfterOrdered ==
  ASSUME SysInfoTypeOK, SysInfoTypeOK', OrderedInv, LinkAfter, UNCHANGED sysinfoVars
  PROVE  /\ OrderedInv' /\ ret = "e820"
         /\ List' = List \cup {new_region}
         /\ \A n \in List' : /\ heap'[n].base_addr = heap[n].base_addr
                             /\ heap'[n].size = heap[n].size /\ heap'[n].type = heap[n].type
<1>1. /\ pc = "walk" /\ ~BeforeNew /\ prev # NULL
      /\ mem_regions' = mem_regions /\ pc' = "fix" /\ ret' = ret
      /\ new_region' = new_region /\ prev' = prev
      /\ this_region' = (IF prev2 = NULL THEN prev ELSE prev2)
      /\ pending' = (IF prev2 = NULL THEN NULL ELSE prev)
      /\ limit_right' = RightOf(heap', this_region')
      /\ reported' = reported /\ count' = count
  BY DEF LinkAfter, EnterFix, sysinfoVars
<1>2. ret = "e820"
  BY <1>1 DEF OrderedInv, WalkingLow, SysInfoTypeOK
<1>3. InOrder'
  BY <1>1 DEF OrderedInv, InOrder
<1>4. /\ Appending /\ Contiguous(heap, List) /\ LastDiffers(heap, List)
      /\ count > 0
      /\ heap[new_region].base_addr = reported[count].base_addr
      /\ heap[new_region].size = reported[count].size
      /\ heap[new_region].type = convert_type(reported[count].type)
      /\ prev \in List /\ heap[prev].next = current
      /\ prev2 # NULL => prev2 \in List /\ heap[prev2].next = prev
  BY <1>1, <1>2 DEF OrderedInv, Walking
<1>5. /\ \A n \in List : End(heap, n) <= heap[new_region].base_addr
      /\ current = NULL /\ Whole(heap, new_region)
      /\ new_region \in 1 .. Len(heap) /\ new_region \notin List
  BY <1>1, <1>2, NewIsLast
<1>6. HeapOK(heap) /\ Len(heap) \in Nat /\ mem_regions \in 0 .. Len(heap) /\ List \subseteq 1 .. Len(heap)
  BY Nodes
<1>7. /\ Len(heap') = Len(heap)
      /\ \A m \in 1 .. Len(heap) :
            /\ heap'[m].base_addr = heap[m].base_addr /\ heap'[m].size = heap[m].size
            /\ heap'[m].type = heap[m].type
            /\ heap'[m].next = IF m = prev THEN new_region
                               ELSE IF m = new_region THEN NULL ELSE heap[m].next
  <2> DEFINE f == SetNextOf(heap, new_region, current)
  <2>1. heap' = SetNextOf(f, prev, new_region)
    BY DEF LinkAfter, SetNextOf
  <2>2. prev \in 1 .. Len(heap) /\ prev # new_region /\ current \in Nat /\ current = NULL
    BY <1>4, <1>5, <1>6 DEF NULL
  <2>3. /\ f \in Seq(Regions) /\ Len(f) = Len(heap)
        /\ \A m \in 1 .. Len(heap) :
              /\ f[m].base_addr = heap[m].base_addr /\ f[m].size = heap[m].size
              /\ f[m].type = heap[m].type
              /\ f[m].next = IF m = new_region THEN current ELSE heap[m].next
    BY <1>5, <1>6, <2>2, SetNextOfWrites DEF HeapOK
  <2> HIDE DEF f
  <2>4. new_region \in Nat /\ prev \in 1 .. Len(f)
    BY <1>5, <2>2, <2>3
  <2>5. /\ Len(heap') = Len(f)
        /\ \A m \in 1 .. Len(f) :
              /\ heap'[m].base_addr = f[m].base_addr /\ heap'[m].size = f[m].size
              /\ heap'[m].type = f[m].type
              /\ heap'[m].next = IF m = prev THEN new_region ELSE f[m].next
    BY <2>1, <2>3, <2>4, SetNextOfWrites
  <2>6. QED
    BY <2>2, <2>3, <2>5
<1> DEFINE S == List \cup {new_region}
<1>8. Chain(heap, mem_regions, List) /\ count = Len(reported) /\ count \in Nat
  BY <1>4 DEF Appending, SysInfoTypeOK
<1>9. Chain(heap', mem_regions, S)
  <2>1. new_region # NULL /\ S \subseteq 1 .. Len(heap')
    <3>1. new_region \in 1 .. Len(heap) /\ List \subseteq 1 .. Len(heap) /\ Len(heap') = Len(heap)
      BY <1>5, <1>6, <1>7
    <3>2. QED
      BY <3>1 DEF NULL
  <2>2. \A n \in S : /\ heap[n].base_addr \in Nat /\ heap[n].size \in Nat
                     /\ heap'[n].base_addr = heap[n].base_addr /\ heap'[n].size = heap[n].size
    BY <1>5, <1>6, <1>7, Nodes
  <2>3. heap[prev].next = NULL /\ heap'[prev].next = new_region /\ heap'[new_region].next = NULL
    BY <1>4, <1>5, <1>6, <1>7
  <2>4. \A n \in List : n # prev => heap'[n].next = heap[n].next
    BY <1>5, <1>6, <1>7
  <2>5. QED
    <3>1. /\ prev \in List /\ new_region \notin List /\ Whole(heap, new_region)
          /\ Chain(heap, mem_regions, List)
          /\ \A n \in List : End(heap, n) <= heap[new_region].base_addr
      BY <1>4, <1>5, <1>8
    <3>2. QED
      BY ONLY <2>1, <2>2, <2>3, <2>4, <3>1, ChainLinkLast DEF S
<1>10. List' = S
  BY <1>1, <1>9, NewList
<1>11. \A n \in List : End(heap', n) = End(heap, n)
  BY <1>6, <1>7 DEF End
<1>12. /\ End(heap', new_region) = Top(reported'[count'])
       /\ heap'[new_region].base_addr = reported'[count'].base_addr
       /\ heap'[new_region].type = convert_type(reported'[count'].type)
       /\ heap'[new_region].next = NULL
       /\ heap'[prev].next = new_region
  <2>1. prev \in 1 .. Len(heap) /\ prev # new_region
    BY <1>4, <1>5, <1>6
  <2>2. QED
    BY <1>1, <1>4, <1>5, <1>7, <2>1 DEF End, Top
<1>13. Appending'
  <2>1. Linked = count - 1 /\ Linked' = count
    BY <1>1, <1>2 DEF Linked
  <2>2. ASSUME NEW n \in List' PROVE \E k \in 1 .. Linked' : End(heap', n) <= Top(reported'[k])
    <3>1. CASE n \in List
      <4>1. PICK k \in 1 .. Linked : End(heap, n) <= Top(reported[k])
        BY <1>4, <3>1 DEF Appending
      <4>2. k \in 1 .. Linked' /\ reported'[k] = reported[k] /\ End(heap', n) = End(heap, n)
        BY <1>1, <1>8, <1>11, <2>1, <3>1, <4>1
      <4>3. QED
        BY <4>1, <4>2
    <3>2. CASE n = new_region
      <4>1. count \in 1 .. Linked' /\ count' = count
        BY <1>1, <1>4, <1>8, <2>1
      <4>2. End(heap', n) \in Nat
        BY <1>5, <1>7, <3>2, NodesNext
      <4>3. End(heap', n) <= Top(reported'[count])
        BY <1>12, <3>2, <4>1, <4>2
      <4>4. QED
        BY <4>1, <4>3
    <3>3. QED
      BY <1>10, <3>1, <3>2
  <2>3. QED
    BY <1>1, <1>8, <1>9, <1>10, <2>2 DEF Appending
<1>14. ASSUME NEW n \in List', n # prev, heap'[n].next # NULL
       PROVE  End(heap', n) = heap'[heap'[n].next].base_addr
  <2>1. n \in List /\ n # new_region
    BY <1>10, <1>12, <1>14
  <2>2. heap'[n].next = heap[n].next /\ heap[n].next \in List
    BY <1>6, <1>7, <1>14, <2>1, Nodes
  <2>3. heap'[heap[n].next].base_addr = heap[heap[n].next].base_addr
    BY <1>6, <1>7, <2>2
  <2>4. QED
    BY <1>4, <1>11, <1>14, <2>1, <2>2, <2>3 DEF Contiguous
<1>15. ASSUME NEW n \in List', heap'[n].next = prev PROVE heap'[n].type # heap'[prev].type
  <2>1. prev \in 1 .. Len(heap) /\ prev # new_region
    BY <1>4, <1>5, <1>6
  <2>2. n \in List /\ n # prev
    BY <1>1, <1>10, <1>12, <1>15, <2>1
  <2>3. heap[n].next = prev
    BY <1>5, <1>6, <1>7, <1>15, <2>2
  <2>4. heap[n].type # heap[prev].type
    BY <1>1, <1>4, <1>5, <2>2, <2>3 DEF LastDiffers
  <2>5. QED
    BY <1>6, <1>7, <2>1, <2>2, <2>4
<1>16. \/ this_region' = prev /\ pending' = NULL
       \/ this_region' \in List' /\ heap'[this_region'].next = prev /\ pending' = prev
  <2>1. CASE prev2 = NULL
    BY <1>1, <2>1
  <2>2. CASE prev2 # NULL
    <3>1. prev2 \in List /\ heap[prev2].next = prev /\ prev2 # prev /\ prev2 # new_region
      BY <1>1, <1>4, <1>5, <2>2
    <3>2. heap'[prev2].next = prev
      BY <1>6, <1>7, <3>1
    <3>3. QED
      BY <1>1, <1>10, <2>2, <3>1, <3>2
  <2>3. QED
    BY <2>1, <2>2
<1>17. Repairing'
  <2>1. new_region' \in List' /\ prev' \in List'
    BY <1>1, <1>4, <1>10
  <2>2. QED
    BY <1>1, <1>4, <1>12, <1>13, <1>14, <1>15, <1>16, <2>1 DEF Repairing
<1>18. \A n \in List' : /\ heap'[n].base_addr = heap[n].base_addr
                       /\ heap'[n].size = heap[n].size /\ heap'[n].type = heap[n].type
  BY <1>5, <1>6, <1>7, <1>10
<1>19. QED
  BY <1>1, <1>2, <1>3, <1>10, <1>17, <1>18, OnePart

-----------------------------------------------------------------------------
(* The repairs while the map is read *)

\* Where fix_right finds the list: it has nothing to cut.
LEMMA RepairPlace ==
  ASSUME SysInfoTypeOK, OrderedInv, pc = "fix", ret = "e820"
  PROVE  /\ Appending /\ Chain(heap, mem_regions, List) /\ Linked = count
         /\ count > 0 /\ count = Len(reported) /\ count \in Nat
         /\ this_region \in List /\ prev \in List /\ new_region \in List
         /\ prev # new_region
         /\ next_region \in List /\ next_region # NULL
         /\ End(heap, this_region) <= heap[next_region].base_addr
         /\ RightOf(heap, this_region) = End(heap, this_region)
         /\ RightOf(heap, next_region) = End(heap, next_region)
         /\ ~Overlapping
<1>1. /\ Appending /\ count > 0
      /\ new_region \in List /\ prev \in List
      /\ heap[prev].next = new_region /\ heap[new_region].next = NULL
      /\ limit_right = RightOf(heap, this_region)
      /\ \/ this_region = prev /\ pending = NULL
         \/ this_region \in List /\ heap[this_region].next = prev /\ pending = prev
  BY DEF OrderedInv, Repairing
<1>2. Chain(heap, mem_regions, List) /\ Linked = count /\ count = Len(reported) /\ count \in Nat
  BY <1>1 DEF Appending, Linked, SysInfoTypeOK
<1>3. this_region \in List /\ next_region \in List
  BY <1>1 DEF next_region, NextOf
<1>4. next_region # NULL /\ prev # new_region
  <2>1. \A n \in List : n # NULL
    BY Nodes DEF NULL
  <2>2. QED
    BY <1>1, <1>3, <2>1
<1>5. End(heap, this_region) <= heap[next_region].base_addr
  BY <1>2, <1>3, <1>4 DEF Chain, next_region, NextOf
<1>6. /\ RightOf(heap, this_region) = End(heap, this_region)
      /\ RightOf(heap, next_region) = End(heap, next_region)
  BY <1>2, <1>3, Nodes DEF Chain, Whole
<1>7. ~Overlapping
  <2>1. End(heap, this_region) \in Nat /\ heap[next_region].base_addr \in Nat
    BY <1>3, Nodes
  <2>2. QED
    BY <1>1, <1>5, <1>6, <2>1 DEF Overlapping
<1>8. QED
  BY <1>1, <1>2, <1>3, <1>4, <1>5, <1>6, <1>7

\* The node before prev borders on it and is of another type: its repair changes nothing.
LEMMA FirstRepairOrdered ==
  ASSUME SysInfoTypeOK, SysInfoTypeOK', OrderedInv, UNCHANGED sysinfoVars,
         pc = "fix", ret = "e820", this_region # prev,
         heap' = heap, Return
  PROVE  OrderedInv' /\ List' = List
<1>1. /\ Appending /\ count > 0
      /\ new_region \in List /\ prev \in List
      /\ heap[prev].next = new_region /\ heap[new_region].next = NULL
      /\ heap[new_region].base_addr = reported[count].base_addr
      /\ End(heap, new_region) = Top(reported[count])
      /\ heap[new_region].type = convert_type(reported[count].type)
      /\ \A n \in List : n # prev =>
            (heap[n].next # NULL => End(heap, n) = heap[heap[n].next].base_addr)
      /\ \A n \in List : heap[n].next = prev => heap[n].type # heap[prev].type
      /\ pending = prev
  BY DEF OrderedInv, Repairing
<1>2. prev # NULL
  BY <1>1, Nodes DEF NULL
<1>3. /\ pc' = "fix" /\ this_region' = prev /\ pending' = NULL
      /\ limit_right' = RightOf(heap', prev)
      /\ mem_regions' = mem_regions /\ ret' = ret /\ new_region' = new_region /\ prev' = prev
      /\ reported' = reported /\ count' = count
  BY <1>1, <1>2 DEF Return, EnterFix, FixUnchanged, sysinfoVars
<1>4. List' = List /\ Linked' = Linked /\ InOrder'
  BY <1>3 DEF List, Linked, OrderedInv, InOrder
<1>5. Appending'
  BY <1>1, <1>3, <1>4 DEF Appending
<1>6. Repairing'
  BY <1>1, <1>3, <1>4, <1>5 DEF Repairing
<1>7. QED
  BY <1>3, <1>4, <1>6, OnePart

-----------------------------------------------------------------------------
(* The end of the first repair, and the last one *)

\* The node before prev borders on prev.
LEMMA FirstRepairBorders ==
  ASSUME SysInfoTypeOK, OrderedInv, pc = "fix", ret = "e820", this_region # prev
  PROVE  /\ next_region = prev
         /\ End(heap, this_region) = heap[next_region].base_addr
         /\ heap[this_region].type # heap[next_region].type
<1>1. /\ \A n \in List : n # prev =>
            (heap[n].next # NULL => End(heap, n) = heap[heap[n].next].base_addr)
      /\ \A n \in List : heap[n].next = prev => heap[n].type # heap[prev].type
      /\ this_region \in List /\ heap[this_region].next = prev
  BY DEF OrderedInv, Repairing
<1>2. prev # NULL
  BY RepairPlace, Nodes DEF NULL
<1>3. QED
  BY <1>1, <1>2 DEF next_region, NextOf

\* fix_right(prev2) extends nothing: prev borders on the node before it.
LEMMA FirstExtendNothing ==
  ASSUME SysInfoTypeOK, SysInfoTypeOK', OrderedInv, pc = "fix", ret = "e820", this_region # prev,
         ExtendReserved
  PROVE  heap' = heap
<1> DEFINE t == this_region
           n == next_region
<1>1. t \in 1 .. Len(heap) /\ n \in 1 .. Len(heap)
  BY RepairPlace, Nodes
<1>2. RightOf(heap, t) = heap[n].base_addr
  BY RepairPlace, FirstRepairBorders
<1>3. (heap[n].size + heap[n].base_addr - RightOf(heap, t)) % ADDR_MOD = heap[n].size
  <2>1. heap[n].size \in Nat /\ heap[n].base_addr \in Nat /\ heap[n].size < ADDR_MOD
    BY <1>1, Nodes
  <2>2. heap[n].size + heap[n].base_addr - RightOf(heap, t) = heap[n].size
    BY <1>2, <2>1
  <2>3. heap[n].size % ADDR_MOD = heap[n].size
    BY <2>1, AddrModAssumption
  <2>4. QED
    BY <2>2, <2>3
<1>4. /\ Len(heap') = Len(heap)
      /\ \A m \in 1 .. Len(heap) :
            /\ heap'[m].next = heap[m].next /\ heap'[m].type = heap[m].type
            /\ heap'[m].size = heap[m].size /\ heap'[m].base_addr = heap[m].base_addr
  BY <1>1, <1>2, <1>3, ExtendWrites DEF SysInfoTypeOK
<1>5. heap \in Seq(Regions) /\ heap' \in Seq(Regions)
  BY Nodes, NodesNext DEF HeapOK
<1>6. ASSUME NEW m \in 1 .. Len(heap) PROVE heap'[m] = heap[m]
  <2>1. heap[m] \in Regions /\ heap'[m] \in Regions
    BY <1>4, <1>5
  <2>2. QED
    BY <1>4, <2>1 DEF Regions
<1>7. QED
  BY <1>4, <1>5, <1>6, SeqEqual

\* fix_right(prev2) changes nothing, and fix_right(prev) follows.
LEMMA FirstRepair ==
  ASSUME SysInfoTypeOK, SysInfoTypeOK', OrderedInv, UNCHANGED sysinfoVars,
         pc = "fix", ret = "e820", this_region # prev,
         MergeRight \/ ExtendReserved \/ PadGap \/ NoPadding
  PROVE  OrderedInv' /\ List' = List /\ heap' = heap
<1>1. /\ next_region # NULL
      /\ RightOf(heap, this_region) = heap[next_region].base_addr
      /\ heap[this_region].type # heap[next_region].type
  BY RepairPlace, FirstRepairBorders
<1>2. ~ MergeRight
  BY <1>1 DEF MergeRight, SameType
<1>3. ~ PadGap
  <2>1. heap[next_region].base_addr \in Nat
    BY RepairPlace, Nodes
  <2>2. QED
    BY <1>1, <2>1 DEF PadGap, GapRight
<1>4. CASE ExtendReserved
  <2>1. heap' = heap /\ Return
    BY <1>4, FirstExtendNothing DEF ExtendReserved
  <2>2. QED
    BY <2>1, FirstRepairOrdered
<1>5. CASE NoPadding
  BY <1>5, FirstRepairOrdered DEF NoPadding
<1>6. QED
  BY <1>2, <1>3, <1>4, <1>5

-----------------------------------------------------------------------------
\* The place of the last repair: behind prev only the new region.
LEMMA LastRepairPlace ==
  ASSUME SysInfoTypeOK, OrderedInv, pc = "fix", ret = "e820", this_region = prev
  PROVE  /\ next_region = new_region /\ heap[prev].next = new_region
         /\ heap[new_region].next = NULL /\ pending = NULL
         /\ prev \in List /\ new_region \in List /\ prev # new_region
         /\ End(heap, prev) <= heap[new_region].base_addr
         /\ RightOf(heap, prev) = End(heap, prev)
         /\ RightOf(heap, new_region) = End(heap, new_region)
         /\ End(heap, new_region) = Top(reported[count])
         /\ \A n \in List : n # prev =>
               (heap[n].next # NULL => End(heap, n) = heap[heap[n].next].base_addr)
         /\ \A n \in List : heap[n].next = prev => heap[n].type # heap[prev].type
<1>1. /\ heap[prev].next = new_region /\ heap[new_region].next = NULL
      /\ End(heap, new_region) = Top(reported[count])
      /\ \A n \in List : n # prev =>
            (heap[n].next # NULL => End(heap, n) = heap[heap[n].next].base_addr)
      /\ \A n \in List : heap[n].next = prev => heap[n].type # heap[prev].type
      /\ \/ this_region = prev /\ pending = NULL
         \/ this_region \in List /\ heap[this_region].next = prev /\ pending = prev
  BY DEF OrderedInv, Repairing
<1>2. next_region = new_region
  BY <1>1 DEF next_region, NextOf
<1>3. pending = NULL
  BY <1>1, <1>2, RepairPlace
<1>4. QED
  BY <1>1, <1>2, <1>3, RepairPlace

\* What leaves fix_right for the next region of the map.
LEMMA RepairedOrdered ==
  ASSUME SysInfoTypeOK, SysInfoTypeOK', OrderedInv, UNCHANGED sysinfoVars,
         pc = "fix", ret = "e820", this_region = prev, Return,
         NEW S, Chain(heap', mem_regions, S), Contiguous(heap', S), LastDiffers(heap', S),
         \A n \in S : \/ n \in List /\ End(heap', n) <= End(heap, n)
                      \/ End(heap', n) <= End(heap, new_region)
  PROVE  OrderedInv'
<1>1. pending = NULL
  BY LastRepairPlace
<1>2. /\ pc' = "e820" /\ mem_regions' = mem_regions /\ ret' = "e820"
      /\ reported' = reported /\ count' = count
  BY <1>1 DEF Return, FixUnchanged, sysinfoVars
<1>3. List' = S
  BY <1>2, NewList
<1>4. InOrder'
  BY <1>2 DEF OrderedInv, InOrder
<1>5. S \subseteq 1 .. Len(heap')
  BY DEF Chain
<1>6. Appending'
  <2>1. Linked = count /\ count \in Nat /\ count > 0 /\ Appending
    BY RepairPlace
  <2>2. Linked' = count
    BY <1>2 DEF Linked
  <2>3. \A k \in 1 .. count : Top(reported[k]) \in Int
    <3>1. ASSUME NEW k \in 1 .. count PROVE Top(reported[k]) \in Int
      <4>1. reported[k] \in E820Regions
        BY <2>1 DEF SysInfoTypeOK
      <4>2. QED
        BY <4>1 DEF E820Regions, Addresses, Top
    <3>2. QED
      BY <3>1
  <2>4. ASSUME NEW n \in S PROVE \E k \in 1 .. count : End(heap', n) <= Top(reported[k])
    <3>1. End(heap', n) \in Nat
      BY <1>5, NodesNext
    <3>2. CASE n \in List /\ End(heap', n) <= End(heap, n)
      <4>1. PICK k \in 1 .. count : End(heap, n) <= Top(reported[k])
        BY <2>1, <3>2 DEF Appending
      <4>2. End(heap, n) \in Nat
        BY <3>2, Nodes
      <4>3. QED
        BY <2>3, <3>1, <3>2, <4>1, <4>2
    <3>3. CASE End(heap', n) <= End(heap, new_region)
      <4>1. End(heap, new_region) = Top(reported[count]) /\ count \in 1 .. count
        BY <2>1, LastRepairPlace
      <4>2. QED
        BY <3>3, <4>1
    <3>4. QED
      BY <3>2, <3>3
  <2>5. QED
    BY <1>2, <1>3, <2>1, <2>2, <2>4 DEF Appending
<1>7. BetweenReports'
  BY <1>2, <1>3, <1>6 DEF BetweenReports
<1>8. QED
  BY <1>2, <1>4, <1>7, OnePart

\* fix_right(prev) merges the new region into prev,
LEMMA LastMergeOrdered ==
  ASSUME SysInfoTypeOK, SysInfoTypeOK', OrderedInv, UNCHANGED sysinfoVars,
         pc = "fix", ret = "e820", this_region = prev, MergeRight
  PROVE  /\ OrderedInv'
         /\ List' = List \ {new_region} /\ End(heap', prev) = End(heap, new_region)
         /\ \A n \in List' : heap'[n].base_addr = heap[n].base_addr /\ heap'[n].type = heap[n].type
         /\ \A n \in List' : n # prev => heap'[n].size = heap[n].size
         /\ heap[prev].type = heap[new_region].type
<1> DEFINE S == List \ {new_region}
<1>1. /\ next_region = new_region /\ heap[prev].next = new_region
      /\ heap[new_region].next = NULL
      /\ prev \in List /\ new_region \in List /\ prev # new_region
      /\ End(heap, prev) <= heap[new_region].base_addr
      /\ RightOf(heap, new_region) = End(heap, new_region)
  BY LastRepairPlace
<1>2. List \subseteq 1 .. Len(heap) /\ prev \in 1 .. Len(heap) /\ new_region \in 1 .. Len(heap)
  BY <1>1, Nodes
<1>3. /\ heap[prev].base_addr \in Nat /\ End(heap, new_region) \in Nat /\ End(heap, prev) \in Nat
      /\ heap[new_region].base_addr \in Nat /\ heap[new_region].size \in Nat /\ heap[prev].size \in Nat
  BY <1>2, Nodes
<1>4. Chain(heap, mem_regions, List) /\ Whole(heap, prev) /\ Whole(heap, new_region)
  BY <1>1, RepairPlace DEF Chain
<1>5. (RightOf(heap, new_region) - heap[prev].base_addr) % ADDR_MOD
        = End(heap, new_region) - heap[prev].base_addr
  <2>1. /\ heap[prev].base_addr <= End(heap, new_region)
        /\ End(heap, new_region) - heap[prev].base_addr < ADDR_MOD
    BY <1>1, <1>3, <1>4, AddrModAssumption DEF End, Whole
  <2>2. End(heap, new_region) - heap[prev].base_addr \in 0 .. ADDR_MOD - 1
    BY <1>3, <2>1, AddrModAssumption
  <2>3. \A x \in 0 .. ADDR_MOD - 1 : x % ADDR_MOD = x
    BY AddrModAssumption
  <2>4. QED
    BY <1>1, <2>2, <2>3
<1>6. /\ Len(heap') = Len(heap)
      /\ \A m \in 1 .. Len(heap) :
            /\ heap'[m].base_addr = heap[m].base_addr /\ heap'[m].type = heap[m].type
            /\ heap'[m].size = IF m = prev THEN End(heap, new_region) - heap[prev].base_addr
                               ELSE heap[m].size
            /\ heap'[m].next = IF m = prev THEN NULL ELSE heap[m].next
  <2>1. this_region \in 1 .. Len(heap) /\ next_region \in 1 .. Len(heap)
    BY <1>1, <1>2
  <2>2. QED
    BY <1>1, <1>5, <2>1, MergeWrites DEF SysInfoTypeOK
<1>7. Chain(heap', mem_regions, S)
  <2>1. List \subseteq 1 .. Len(heap')
    BY <1>2, <1>6
  <2>2. \A n \in List : /\ heap[n].base_addr \in Nat /\ heap[n].size \in Nat
                        /\ heap'[n].base_addr = heap[n].base_addr
    BY <1>2, <1>6, Nodes
  <2>3. \A n \in List : n # prev => heap'[n].size = heap[n].size /\ heap'[n].next = heap[n].next
    BY <1>2, <1>6
  <2>4. /\ heap'[prev].size = End(heap, new_region) - heap[prev].base_addr
        /\ heap'[prev].next = heap[new_region].next
    BY <1>1, <1>2, <1>6
  <2>5. new_region # NULL
    BY <1>2 DEF NULL
  <2>6. /\ Chain(heap, mem_regions, List) /\ prev \in List /\ new_region \in List
        /\ heap[prev].next = new_region
    BY <1>1, <1>4
  <2>7. QED
    <3>1. Merged(heap, heap', List, prev, new_region)
      BY <2>1, <2>2, <2>3, <2>4, <2>5, <2>6 DEF Merged
    <3>2. QED
      BY <1>4, <3>1, ChainMerge
<1>8. ASSUME NEW n \in S, n # prev
      PROVE  n \in List /\ n \in 1 .. Len(heap) /\ End(heap', n) = End(heap, n) /\ heap'[n].next = heap[n].next
             /\ heap'[n].type = heap[n].type
  BY <1>2, <1>6, <1>8 DEF End
<1>9. End(heap', prev) = End(heap, new_region)
  BY <1>2, <1>3, <1>6 DEF End
<1>10. heap'[prev].next = NULL
  BY <1>2, <1>6
<1>11. Contiguous(heap', S)
  <2>1. SUFFICES ASSUME NEW n \in S, heap'[n].next # NULL
                 PROVE  End(heap', n) = heap'[heap'[n].next].base_addr
    BY DEF Contiguous
  <2>2. n # prev
    BY <1>10, <2>1
  <2>3. heap[n].next \in List /\ heap[n].next \in 1 .. Len(heap)
    BY <1>2, <1>8, <2>1, <2>2, Nodes
  <2>4. heap'[heap[n].next].base_addr = heap[heap[n].next].base_addr
    BY <1>6, <2>3
  <2>5. End(heap, n) = heap[heap[n].next].base_addr
    BY <1>8, <2>1, <2>2, LastRepairPlace
  <2>6. QED
    BY <1>8, <2>2, <2>4, <2>5
<1>12. LastDiffers(heap', S)
  <2>1. SUFFICES ASSUME NEW n \in S, heap'[n].next # NULL, heap'[heap'[n].next].next = NULL
                 PROVE  heap'[n].type # heap'[heap'[n].next].type
    BY DEF LastDiffers
  <2>2. n # prev
    BY <1>10, <2>1
  <2>3. heap'[n].next \in S
    BY <1>7, <2>1 DEF Chain
  <2>4. heap'[n].next = prev
    <3>1. SUFFICES ASSUME heap'[n].next # prev PROVE FALSE
      OBVIOUS
    <3>2. heap[heap'[n].next].next = NULL /\ heap'[n].next \in List
      BY <1>8, <2>1, <2>3, <3>1
    <3>3. \A m \in List : heap[m].base_addr \in Nat /\ heap[m].size \in Nat
      BY Nodes
    <3>4. heap'[n].next = new_region
      BY <1>1, <1>4, <3>2, <3>3, NextInjective
    <3>5. QED
      BY <2>3, <3>4
  <2>5. heap[n].type # heap[prev].type
    BY <1>8, <2>2, <2>4, LastRepairPlace
  <2>6. QED
    BY <1>2, <1>6, <1>8, <2>2, <2>4, <2>5
<1>13. ASSUME NEW n \in S
       PROVE  \/ n \in List /\ End(heap', n) <= End(heap, n)
              \/ End(heap', n) <= End(heap, new_region)
  <2>1. CASE n = prev
    BY <1>3, <1>9, <2>1
  <2>2. CASE n # prev
    <3>1. End(heap, n) \in Nat /\ End(heap', n) = End(heap, n) /\ n \in List
      BY <1>2, <1>8, <2>2, Nodes
    <3>2. QED
      BY <3>1
  <2>3. QED
    BY <2>1, <2>2
<1>14. Return
  BY DEF MergeRight
<1>15. OrderedInv'
  <2> HIDE DEF S
  <2>1. QED
    BY <1>7, <1>11, <1>12, <1>13, <1>14, RepairedOrdered
<1>16. List' = S
  <2>1. mem_regions' = mem_regions
    BY <1>14 DEF Return, FixUnchanged
  <2>2. QED
    BY <1>7, <2>1, NewList
<1>17. heap[prev].type = heap[new_region].type
  BY <1>1 DEF MergeRight, SameType
<1>18. /\ \A n \in List' : heap'[n].base_addr = heap[n].base_addr /\ heap'[n].type = heap[n].type
       /\ \A n \in List' : n # prev => heap'[n].size = heap[n].size
  BY <1>2, <1>6, <1>16
<1>19. QED
  BY <1>9, <1>15, <1>16, <1>17, <1>18

\* ... or extends it to the left,
LEMMA LastExtendOrdered ==
  ASSUME SysInfoTypeOK, SysInfoTypeOK', OrderedInv, UNCHANGED sysinfoVars,
         pc = "fix", ret = "e820", this_region = prev, ExtendReserved
  PROVE  /\ OrderedInv' /\ List' = List
         /\ heap[new_region].type = SYSINFO_MT_RESERVED
         /\ heap'[new_region].base_addr <= heap[new_region].base_addr
         /\ \A n \in List : End(heap', n) = End(heap, n) /\ heap'[n].type = heap[n].type
         /\ \A n \in List : n # new_region => heap'[n].base_addr = heap[n].base_addr
<1>1. /\ next_region = new_region /\ heap[prev].next = new_region
      /\ heap[new_region].next = NULL
      /\ prev \in List /\ new_region \in List /\ prev # new_region
      /\ End(heap, prev) <= heap[new_region].base_addr
      /\ RightOf(heap, prev) = End(heap, prev)
      /\ RightOf(heap, new_region) = End(heap, new_region)
  BY LastRepairPlace
<1>2. List \subseteq 1 .. Len(heap) /\ prev \in 1 .. Len(heap) /\ new_region \in 1 .. Len(heap)
  BY <1>1, Nodes
<1>3. /\ heap[prev].base_addr \in Nat /\ End(heap, new_region) \in Nat /\ End(heap, prev) \in Nat
      /\ heap[new_region].base_addr \in Nat /\ heap[new_region].size \in Nat /\ heap[prev].size \in Nat
  BY <1>2, Nodes
<1>4. Chain(heap, mem_regions, List) /\ Whole(heap, prev) /\ Whole(heap, new_region)
  BY <1>1, RepairPlace DEF Chain
<1>5. (heap[new_region].size + heap[new_region].base_addr - RightOf(heap, prev)) % ADDR_MOD
        = End(heap, new_region) - End(heap, prev)
  <2>1. End(heap, new_region) = heap[new_region].base_addr + heap[new_region].size
    BY DEF End
  <2>2. End(heap, new_region) < ADDR_MOD
    BY <1>4 DEF Whole
  <2>3. End(heap, new_region) - End(heap, prev) \in 0 .. ADDR_MOD - 1
    BY <1>1, <1>3, <2>1, <2>2, AddrModAssumption
  <2>4. \A x \in 0 .. ADDR_MOD - 1 : x % ADDR_MOD = x
    BY AddrModAssumption
  <2>5. heap[new_region].size + heap[new_region].base_addr - RightOf(heap, prev)
          = End(heap, new_region) - End(heap, prev)
    BY <1>1, <1>3, <2>1
  <2>6. QED
    BY <2>3, <2>4, <2>5
<1>6. /\ Len(heap') = Len(heap)
      /\ \A m \in 1 .. Len(heap) :
            /\ heap'[m].next = heap[m].next /\ heap'[m].type = heap[m].type
            /\ heap'[m].size = IF m = new_region THEN End(heap, new_region) - End(heap, prev)
                               ELSE heap[m].size
            /\ heap'[m].base_addr = IF m = new_region THEN End(heap, prev) ELSE heap[m].base_addr
  <2>1. this_region \in 1 .. Len(heap) /\ next_region \in 1 .. Len(heap)
    BY <1>1, <1>2
  <2>2. QED
    BY <1>1, <1>5, <2>1, ExtendWrites DEF SysInfoTypeOK
<1>7. Chain(heap', mem_regions, List)
  <2>1. Extended(heap, heap', List, prev, new_region)
    <3>1. \A n \in List : /\ heap[n].base_addr \in Nat /\ heap[n].size \in Nat
                          /\ heap'[n].next = heap[n].next
      BY <1>2, <1>6, Nodes
    <3>2. \A n \in List : n # new_region =>
             heap'[n].size = heap[n].size /\ heap'[n].base_addr = heap[n].base_addr
      BY <1>2, <1>6
    <3>3. /\ heap'[new_region].base_addr = End(heap, prev)
          /\ heap'[new_region].size = End(heap, new_region) - End(heap, prev)
      BY <1>2, <1>6
    <3>4. new_region # NULL /\ List \subseteq 1 .. Len(heap')
      BY <1>2, <1>6 DEF NULL
    <3>5. QED
      BY <1>1, <3>1, <3>2, <3>3, <3>4 DEF Extended
  <2>2. QED
    BY <1>4, <2>1, ChainExtend
<1>8. ASSUME NEW n \in List
      PROVE  /\ End(heap', n) = End(heap, n) /\ heap'[n].next = heap[n].next
             /\ heap'[n].type = heap[n].type
             /\ n # new_region => heap'[n].base_addr = heap[n].base_addr
  <2>1. CASE n = new_region
    BY <1>2, <1>3, <1>6, <2>1 DEF End
  <2>2. CASE n # new_region
    BY <1>2, <1>6, <2>2 DEF End
  <2>3. QED
    BY <2>1, <2>2
<1>9. ASSUME NEW n \in List, heap[n].next = new_region PROVE n = prev
  <2>1. \A m \in List : heap[m].base_addr \in Nat /\ heap[m].size \in Nat
    BY Nodes
  <2>2. QED
    BY <1>1, <1>4, <1>9, <2>1, NextInjective
<1>10. Contiguous(heap', List)
  <2>1. SUFFICES ASSUME NEW n \in List, heap'[n].next # NULL
                 PROVE  End(heap', n) = heap'[heap'[n].next].base_addr
    BY DEF Contiguous
  <2>2. heap[n].next # NULL /\ heap[n].next \in List
    BY <1>8, <2>1, Nodes
  <2>3. CASE heap[n].next = new_region
    BY <1>2, <1>6, <1>8, <1>9, <2>3
  <2>4. CASE heap[n].next # new_region
    <3>1. n # prev
      BY <1>1, <2>4
    <3>2. End(heap, n) = heap[heap[n].next].base_addr
      BY <2>2, <3>1, LastRepairPlace
    <3>3. heap'[heap[n].next].base_addr = heap[heap[n].next].base_addr
      BY <1>8, <2>2, <2>4
    <3>4. QED
      BY <1>8, <3>2, <3>3
  <2>5. QED
    BY <2>3, <2>4
<1>11. LastDiffers(heap', List)
  <2>1. SUFFICES ASSUME NEW n \in List, heap'[n].next # NULL, heap'[heap'[n].next].next = NULL
                 PROVE  heap'[n].type # heap'[heap'[n].next].type
    BY DEF LastDiffers
  <2>2. heap[n].next \in List /\ heap'[n].next = heap[n].next
    BY <1>8, <2>1, Nodes
  <2>3. heap[heap[n].next].next = NULL
    BY <1>8, <2>1, <2>2
  <2>4. heap[n].next = new_region
    <3>1. \A m \in List : heap[m].base_addr \in Nat /\ heap[m].size \in Nat
      BY Nodes
    <3>2. QED
      BY <1>1, <1>4, <2>2, <2>3, <3>1, NextInjective
  <2>5. n = prev
    BY <1>9, <2>4
  <2>6. heap[prev].type # heap[new_region].type
    BY <1>1 DEF ExtendReserved, SameType
  <2>7. QED
    BY <1>1, <1>8, <2>2, <2>4, <2>5, <2>6
<1>12. ASSUME NEW n \in List
       PROVE  \/ n \in List /\ End(heap', n) <= End(heap, n)
              \/ End(heap', n) <= End(heap, new_region)
  <2>1. End(heap, n) \in Nat
    BY <1>2, Nodes
  <2>2. QED
    BY <1>8, <2>1
<1>13. Return
  BY DEF ExtendReserved
<1>14. OrderedInv'
  BY <1>7, <1>10, <1>11, <1>12, <1>13, RepairedOrdered
<1>15. List' = List
  <2>1. mem_regions' = mem_regions
    BY <1>13 DEF Return, FixUnchanged
  <2>2. QED
    BY <1>7, <2>1, NewList
<1>16. heap'[new_region].base_addr <= heap[new_region].base_addr
  BY <1>1, <1>2, <1>6
<1>17. heap[new_region].type = SYSINFO_MT_RESERVED
  BY <1>1 DEF ExtendReserved
<1>18. QED
  BY <1>8, <1>14, <1>15, <1>16, <1>17

\* ... or fills the gap between them,
LEMMA LastPadOrdered ==
  ASSUME SysInfoTypeOK, SysInfoTypeOK', OrderedInv, UNCHANGED sysinfoVars,
         pc = "fix", ret = "e820", this_region = prev, PadGap,
         NEW q, q = Len(heap) + 1
  PROVE  /\ OrderedInv'
         /\ List' = List \cup {q}
         /\ \A n \in List : /\ heap'[n].base_addr = heap[n].base_addr /\ heap'[n].size = heap[n].size
                            /\ heap'[n].type = heap[n].type
         /\ heap'[q].type = SYSINFO_MT_RESERVED
<1> DEFINE S == List \cup {q}
<1>1. /\ next_region = new_region /\ heap[prev].next = new_region
      /\ heap[new_region].next = NULL
      /\ prev \in List /\ new_region \in List /\ prev # new_region
      /\ RightOf(heap, prev) = End(heap, prev)
  BY LastRepairPlace
<1>2. /\ List \subseteq 1 .. Len(heap) /\ prev \in 1 .. Len(heap) /\ new_region \in 1 .. Len(heap)
      /\ Len(heap) \in Nat
  BY <1>1, Nodes
<1>3. /\ heap[prev].base_addr \in Nat /\ End(heap, new_region) \in Nat /\ End(heap, prev) \in Nat
      /\ heap[new_region].base_addr \in Nat /\ heap[new_region].size \in Nat /\ heap[prev].size \in Nat
  BY <1>2, Nodes
<1>4. Chain(heap, mem_regions, List) /\ Whole(heap, new_region)
  BY <1>1, RepairPlace DEF Chain
<1>5. End(heap, prev) < heap[new_region].base_addr /\ heap[new_region].type # SYSINFO_MT_RESERVED
  BY <1>1 DEF PadGap, GapRight
<1>6. /\ Len(heap') = Len(heap) + 1
      /\ \A m \in 1 .. Len(heap) :
            /\ heap'[m].base_addr = heap[m].base_addr /\ heap'[m].size = heap[m].size
            /\ heap'[m].type = heap[m].type
            /\ heap'[m].next = IF m = prev THEN q ELSE heap[m].next
      /\ heap'[q].next = new_region /\ heap'[q].type = SYSINFO_MT_RESERVED
      /\ heap'[q].base_addr = End(heap, prev)
      /\ heap'[q].size = heap[new_region].base_addr - End(heap, prev)
  <2>1. this_region \in 1 .. Len(heap) /\ next_region \in 1 .. Len(heap)
    BY <1>1, <1>2
  <2>2. QED
    BY <1>1, <2>1, PadWrites DEF SysInfoTypeOK
<1>7. q \notin List /\ q # NULL /\ q # prev /\ q # new_region
  BY <1>2 DEF NULL
<1>8. ASSUME NEW n \in List
      PROVE  /\ End(heap', n) = End(heap, n)
             /\ heap'[n].base_addr = heap[n].base_addr /\ heap'[n].size = heap[n].size
             /\ heap'[n].type = heap[n].type
             /\ n # prev => heap'[n].next = heap[n].next
             /\ heap[n].base_addr \in Nat /\ heap[n].size \in Nat
  BY <1>2, <1>6, Nodes DEF End
<1>9. heap'[prev].next = q
  BY <1>2, <1>6
<1>10. Chain(heap', mem_regions, S)
  <2>1. Filled(heap, heap', List, prev, q)
    <3>1. List \cup {q} \subseteq 1 .. Len(heap')
      <4>1. Len(heap') = Len(heap) + 1
        BY <1>6
      <4>2. \A n \in List : n \in 1 .. Len(heap')
        BY <1>2, <4>1
      <4>3. q \in 1 .. Len(heap')
        BY <1>2, <4>1
      <4>4. QED
        BY <4>2, <4>3
    <3>2. heap[prev].next = new_region /\ new_region # NULL
      BY <1>1, <1>2 DEF NULL
    <3>3. \A n \in List : /\ heap[n].base_addr \in Nat /\ heap[n].size \in Nat
                          /\ heap'[n].base_addr = heap[n].base_addr /\ heap'[n].size = heap[n].size
      BY <1>8
    <3>4. \A n \in List : n # prev => heap'[n].next = heap[n].next
      BY <1>8
    <3>5. QED
      BY <1>1, <1>5, <1>6, <1>7, <1>9, <3>1, <3>2, <3>3, <3>4 DEF Filled
  <2>2. QED
    BY <1>4, <2>1, ChainFill
<1>11. End(heap', q) = heap[new_region].base_addr
  BY <1>3, <1>6 DEF End
<1>12. Contiguous(heap', S)
  <2>1. SUFFICES ASSUME NEW n \in S, heap'[n].next # NULL
                 PROVE  End(heap', n) = heap'[heap'[n].next].base_addr
    BY DEF Contiguous
  <2>2. CASE n = q
    BY <1>2, <1>6, <1>11, <2>2
  <2>3. CASE n = prev
    BY <1>1, <1>6, <1>8, <1>9, <2>3
  <2>4. CASE n # q /\ n # prev
    <3>1. n \in List /\ heap'[n].next = heap[n].next /\ heap[n].next \in List
      BY <1>8, <2>1, <2>4, Nodes
    <3>2. End(heap, n) = heap[heap[n].next].base_addr
      BY <2>1, <2>4, <3>1, LastRepairPlace
    <3>3. QED
      BY <1>8, <3>1, <3>2
  <2>5. QED
    BY <2>2, <2>3, <2>4
<1>13. LastDiffers(heap', S)
  <2>1. SUFFICES ASSUME NEW n \in S, heap'[n].next # NULL, heap'[heap'[n].next].next = NULL
                 PROVE  heap'[n].type # heap'[heap'[n].next].type
    BY DEF LastDiffers
  <2>2. heap'[n].next \in S /\ heap'[new_region].next = NULL
    BY <1>1, <1>8, <1>10, <2>1 DEF Chain
  <2>3. \A m \in S : heap'[m].base_addr \in Nat /\ heap'[m].size \in Nat
    <3>1. S \subseteq 1 .. Len(heap')
      BY <1>10 DEF Chain
    <3>2. QED
      BY <3>1, NodesNext
  <2>4. heap'[n].next = new_region
    <3>1. new_region \in S
      BY <1>1
    <3> HIDE DEF S
    <3>2. QED
      BY <1>10, <2>1, <2>2, <2>3, <3>1, NextInjective
  <2>5. n = q
    <3>1. q \in S /\ heap'[q].next = new_region
      BY <1>6
    <3> HIDE DEF S
    <3>2. QED
      BY <1>10, <2>1, <2>3, <2>4, <3>1, NextInjective
  <2>6. QED
    BY <1>1, <1>5, <1>6, <1>8, <2>4, <2>5
<1>14. ASSUME NEW n \in S
       PROVE  \/ n \in List /\ End(heap', n) <= End(heap, n)
              \/ End(heap', n) <= End(heap, new_region)
  <2>1. CASE n \in List
    <3>1. End(heap, n) \in Nat
      BY <1>2, <2>1, Nodes
    <3>2. QED
      BY <1>8, <2>1, <3>1
  <2>2. CASE n = q
    BY <1>3, <1>11, <2>2 DEF End
  <2>3. QED
    BY <2>1, <2>2
<1>15. Return
  BY DEF PadGap
<1>16. OrderedInv'
  <2> HIDE DEF S
  <2>1. QED
    BY <1>10, <1>12, <1>13, <1>14, <1>15, RepairedOrdered
<1>17. List' = S
  <2>1. mem_regions' = mem_regions
    BY <1>15 DEF Return, FixUnchanged
  <2>2. QED
    BY <1>10, <2>1, NewList
<1>18. QED
  BY <1>6, <1>8, <1>16, <1>17

\* ... or finds that they border.
LEMMA LastNoPaddingOrdered ==
  ASSUME SysInfoTypeOK, SysInfoTypeOK', OrderedInv, UNCHANGED sysinfoVars,
         pc = "fix", ret = "e820", this_region = prev, NoPadding
  PROVE  OrderedInv' /\ List' = List /\ heap' = heap
<1>1. /\ next_region = new_region /\ heap[prev].next = new_region
      /\ heap[new_region].next = NULL
      /\ prev \in List /\ new_region \in List /\ prev # new_region
      /\ End(heap, prev) <= heap[new_region].base_addr
      /\ RightOf(heap, prev) = End(heap, prev)
  BY LastRepairPlace
<1>2. End(heap, prev) \in Nat /\ heap[new_region].base_addr \in Nat
  BY <1>1, Nodes
<1>3. next_region # NULL
  BY RepairPlace
<1>4. Chain(heap, mem_regions, List)
  BY RepairPlace
<1>5. /\ heap' = heap /\ Return
      /\ heap[prev].type # heap[new_region].type
      /\ ~ (RightOf(heap, prev) < heap[new_region].base_addr)
  BY <1>1, <1>3 DEF NoPadding, SameType, GapRight
<1>6. End(heap, prev) = heap[new_region].base_addr
  BY <1>1, <1>2, <1>5
<1>7. Contiguous(heap, List)
  BY <1>1, <1>6, LastRepairPlace DEF Contiguous
<1>8. \A m \in List : heap[m].base_addr \in Nat /\ heap[m].size \in Nat /\ End(heap, m) \in Nat
  BY Nodes
<1>9. LastDiffers(heap, List)
  <2>1. SUFFICES ASSUME NEW n \in List, heap[n].next # NULL, heap[heap[n].next].next = NULL
                 PROVE  heap[n].type # heap[heap[n].next].type
    BY DEF LastDiffers
  <2>2. heap[n].next \in List
    BY <2>1, Nodes
  <2>3. heap[n].next = new_region
    BY <1>1, <1>4, <1>8, <2>1, <2>2, NextInjective
  <2>4. n = prev
    BY <1>1, <1>4, <1>8, <2>3, NextInjective
  <2>5. QED
    BY <1>5, <2>3, <2>4
<1>10. \A n \in List : \/ n \in List /\ End(heap', n) <= End(heap, n)
                       \/ End(heap', n) <= End(heap, new_region)
  BY <1>5, <1>8
<1>11. OrderedInv'
  BY <1>4, <1>5, <1>7, <1>9, <1>10, RepairedOrdered
<1>12. List' = List
  <2>1. mem_regions' = mem_regions
    BY <1>5 DEF Return, FixUnchanged
  <2>2. QED
    BY <1>5, <2>1 DEF List
<1>13. QED
  BY <1>5, <1>11, <1>12

-----------------------------------------------------------------------------
(* The repairs behind the reserved memory *)

\* Where the repair of the low memory works.
LEMMA LowPlace ==
  ASSUME SysInfoTypeOK, OrderedInv, pc = "fix", ret = "rsdp"
  PROVE  /\ this_region = mem_regions /\ pending = NULL /\ limit_right = REAL_MODE_LIMIT
         /\ mem_regions \in 1 .. Len(heap) /\ mem_regions # NULL
         /\ heap[mem_regions].base_addr = 0 /\ heap[mem_regions].size = REAL_MODE_LIMIT
         /\ heap[mem_regions].type = SYSINFO_MT_RESERVED
         /\ REAL_MODE_LIMIT \in Nat /\ REAL_MODE_LIMIT > 0 /\ REAL_MODE_LIMIT < ADDR_MOD
         /\ Whole(heap, mem_regions) /\ End(heap, mem_regions) = REAL_MODE_LIMIT
         /\ RightOf(heap, mem_regions) = REAL_MODE_LIMIT
         /\ next_region = heap[mem_regions].next
         /\ Rest \subseteq 1 .. Len(heap) /\ mem_regions \notin Rest
         /\ Chain(heap, next_region, Rest) /\ Contiguous(heap, Rest)
         /\ next_region \in 0 .. Len(heap)
         /\ next_region # NULL => next_region \in Rest /\ next_region \in 1 .. Len(heap) /\ ~NextWins
         /\ next_region = NULL => Rest = {}
         /\ List = {mem_regions} \cup Rest
<1>1. /\ this_region = mem_regions /\ pending = NULL /\ limit_right = REAL_MODE_LIMIT
      /\ mem_regions # NULL
      /\ heap[mem_regions].base_addr = 0 /\ heap[mem_regions].size = REAL_MODE_LIMIT
      /\ heap[mem_regions].type = SYSINFO_MT_RESERVED
      /\ mem_regions \notin Rest
      /\ Chain(heap, heap[mem_regions].next, Rest) /\ Contiguous(heap, Rest)
  BY DEF OrderedInv, RepairingLow
<1>2. mem_regions \in 1 .. Len(heap)
  BY <1>1, Nodes DEF NULL
<1>3. REAL_MODE_LIMIT \in Nat /\ REAL_MODE_LIMIT > 0 /\ REAL_MODE_LIMIT < ADDR_MOD
  BY RealModeLimitAssumption, AddrModAssumption DEF Addresses
<1>4. Whole(heap, mem_regions) /\ End(heap, mem_regions) = REAL_MODE_LIMIT
  BY <1>1, <1>3 DEF Whole, End
<1>5. RightOf(heap, mem_regions) = REAL_MODE_LIMIT
  BY <1>2, <1>3, <1>4, Nodes
<1>6. next_region = heap[mem_regions].next
  BY <1>1 DEF next_region, NextOf
<1>7. Rest \subseteq 1 .. Len(heap) /\ next_region \in 0 .. Len(heap)
  BY <1>1, <1>2, <1>6, Nodes DEF Chain
<1>8. ASSUME next_region # NULL
      PROVE  next_region \in Rest /\ next_region \in 1 .. Len(heap) /\ ~NextWins
  <2>1. next_region \in Rest /\ next_region \in 1 .. Len(heap)
    BY <1>1, <1>6, <1>7, <1>8 DEF Chain
  <2>2. heap[next_region].type \in MemTypes
    BY <2>1, Nodes
  <2>3. QED
    BY <1>1, <2>1, <2>2 DEF NextWins, is_left_more_restrictive, MemTypes, SYSINFO_MT_RESERVED,
       SYSINFO_MT_USABLE
<1>9. ASSUME next_region = NULL PROVE Rest = {}
  <2>1. \A n \in Rest : NULL \in Rest
    BY <1>1, <1>6, <1>9 DEF Chain
  <2>2. QED
    BY <1>7, <2>1 DEF NULL
<1>10. List = {mem_regions} \cup Rest
  BY <1>2, Nodes, LiveCons DEF List, Rest
<1>11. QED
  BY <1>1, <1>2, <1>3, <1>4, <1>5, <1>6, <1>7, <1>8, <1>9, <1>10

\* The loop goes on: the head stays as it is, and a list of whole nodes stays behind it.
LEMMA LowLoopOrdered ==
  ASSUME SysInfoTypeOK, SysInfoTypeOK', OrderedInv, pc = "fix", ret = "rsdp",
         UNCHANGED sysinfoVars, FixUnchanged, UNCHANGED <<pc, this_region, limit_right, pending>>,
         NEW S, NEW x, Chain(heap', x, S), Contiguous(heap', S), mem_regions \notin S,
         heap'[mem_regions].next = x,
         heap'[mem_regions].base_addr = heap[mem_regions].base_addr,
         heap'[mem_regions].size = heap[mem_regions].size,
         heap'[mem_regions].type = heap[mem_regions].type,
         Len(heap') = Len(heap)
  PROVE  OrderedInv' /\ Rest' = S /\ List' = {mem_regions} \cup S
<1>1. /\ pc' = "fix" /\ ret' = "rsdp" /\ mem_regions' = mem_regions
      /\ this_region' = this_region /\ limit_right' = limit_right /\ pending' = pending
      /\ reported' = reported /\ count' = count
  BY DEF FixUnchanged, sysinfoVars
<1>2. mem_regions \in 1 .. Len(heap')
  BY LowPlace
<1>3. x \in 0 .. Len(heap')
  BY <1>2, NodesNext
<1>4. Rest' = S
  <2>1. Live(heap', x) = S
    BY <1>3, NodesNext, ChainIsLive
  <2>2. QED
    BY <1>1, <2>1 DEF Rest
<1>5. InOrder'
  BY <1>1 DEF OrderedInv, InOrder
<1>6. RepairingLow'
  BY <1>1, <1>4, LowPlace DEF RepairingLow
<1>7. OrderedInv'
  BY <1>1, <1>5, <1>6, OnePart
<1>8. List' = {mem_regions} \cup S
  <2>1. Live(heap', mem_regions) = {mem_regions} \cup Live(heap', heap'[mem_regions].next)
    BY <1>2, NodesNext, LiveCons
  <2>2. QED
    BY <1>1, <1>4, <2>1 DEF List, Rest
<1>9. QED
  BY <1>4, <1>7, <1>8

\* A region within the low memory is dropped,
LEMMA LowDropOrdered ==
  ASSUME SysInfoTypeOK, SysInfoTypeOK', OrderedInv, pc = "fix", ret = "rsdp",
         UNCHANGED sysinfoVars, DropNext
  PROVE  /\ OrderedInv' /\ next_region \in Rest
         /\ End(heap, next_region) <= REAL_MODE_LIMIT
         /\ List' = List \ {next_region}
         /\ \A n \in List : /\ heap'[n].base_addr = heap[n].base_addr
                            /\ heap'[n].size = heap[n].size /\ heap'[n].type = heap[n].type
<1> DEFINE n == next_region
           S == Rest \ {n}
<1>1. next_region # NULL /\ RightOf(heap, next_region) <= limit_right
  BY DEF DropNext, Overlapping
<1>2. /\ n \in Rest /\ n \in 1 .. Len(heap) /\ mem_regions \in 1 .. Len(heap)
      /\ Rest \subseteq 1 .. Len(heap) /\ mem_regions \notin Rest /\ this_region = mem_regions
      /\ Chain(heap, n, Rest) /\ Contiguous(heap, Rest)
      /\ limit_right = REAL_MODE_LIMIT /\ List = {mem_regions} \cup Rest
  BY <1>1, LowPlace
<1>3. /\ Len(heap') = Len(heap)
      /\ \A m \in 1 .. Len(heap) :
            /\ heap'[m].base_addr = heap[m].base_addr /\ heap'[m].size = heap[m].size
            /\ heap'[m].type = heap[m].type
            /\ heap'[m].next = IF m = mem_regions THEN heap[n].next ELSE heap[m].next
      /\ \A m \in 1 .. Len(heap) : m # mem_regions => heap'[m] = heap[m]
  BY <1>2, DropWrites DEF SysInfoTypeOK
<1>4. \A m \in Rest : heap[m].base_addr \in Nat /\ heap[m].size \in Nat
  BY <1>2, Nodes
<1>5. Chain(heap, heap[n].next, S)
  BY <1>1, <1>2, <1>4, ChainTail
<1>6. \A m \in Rest : heap'[m] = heap[m]
  BY <1>2, <1>3
<1>7. Chain(heap', heap[n].next, S)
  <2>1. Len(heap) \in Nat /\ Len(heap') \in Nat /\ Len(heap) <= Len(heap')
    BY <1>3, Nodes
  <2>2. \A m \in S : heap'[m] = heap[m]
    BY <1>6
  <2> HIDE DEF S, n
  <2>3. QED
    BY <1>5, <2>1, <2>2, ChainFrame
<1>8. Contiguous(heap', S)
  <2>1. SUFFICES ASSUME NEW m \in S, heap'[m].next # NULL
                 PROVE  End(heap', m) = heap'[heap'[m].next].base_addr
    BY DEF Contiguous
  <2>2. heap[m].next \in S /\ heap'[m] = heap[m]
    BY <1>5, <1>6, <2>1 DEF Chain
  <2>3. QED
    BY <1>2, <1>6, <2>1, <2>2 DEF Contiguous, End
<1>9. OrderedInv' /\ List' = {mem_regions} \cup S
  <2>1. heap'[mem_regions].next = heap[n].next
    BY <1>2, <1>3
  <2>2. FixUnchanged /\ UNCHANGED <<pc, this_region, limit_right, pending>>
    BY DEF DropNext
  <2>3. /\ heap'[mem_regions].base_addr = heap[mem_regions].base_addr
        /\ heap'[mem_regions].size = heap[mem_regions].size
        /\ heap'[mem_regions].type = heap[mem_regions].type
    BY <1>2, <1>3
  <2>4. mem_regions \notin S
    BY <1>2
  <2> HIDE DEF S, n
  <2>5. QED
    BY <1>3, <1>7, <1>8, <2>1, <2>2, <2>3, <2>4, LowLoopOrdered
<1>10. List' = List \ {n}
  BY <1>2, <1>9
<1>11. End(heap, n) <= REAL_MODE_LIMIT
  <2>1. Whole(heap, n)
    BY <1>2 DEF Chain
  <2>2. RightOf(heap, n) = End(heap, n)
    BY <1>2, <2>1, Nodes DEF Whole
  <2>3. QED
    BY <1>1, <1>2, <2>2
<1>12. \A m \in List : /\ heap'[m].base_addr = heap[m].base_addr
                       /\ heap'[m].size = heap[m].size /\ heap'[m].type = heap[m].type
  BY <1>2, <1>3
<1>13. QED
  BY <1>2, <1>9, <1>10, <1>11, <1>12

\* ... one that reaches beyond it loses its beginning,
LEMMA LowTrimOrdered ==
  ASSUME SysInfoTypeOK, SysInfoTypeOK', OrderedInv, pc = "fix", ret = "rsdp",
         UNCHANGED sysinfoVars, TrimNext
  PROVE  /\ OrderedInv' /\ next_region \in Rest
         /\ List' = List
         /\ \A n \in List : heap'[n].type = heap[n].type /\ End(heap', n) = End(heap, n)
         /\ \A n \in List : n # next_region => heap'[n].base_addr = heap[n].base_addr
         /\ heap'[next_region].base_addr = REAL_MODE_LIMIT
         /\ heap[next_region].base_addr < REAL_MODE_LIMIT
         /\ REAL_MODE_LIMIT < End(heap, next_region)
<1> DEFINE n == next_region
<1>1. /\ next_region # NULL /\ RightOf(heap, next_region) > limit_right
      /\ limit_right > heap[next_region].base_addr
  BY DEF TrimNext, Overlapping
<1>2. /\ n \in Rest /\ n \in 1 .. Len(heap) /\ mem_regions \in 1 .. Len(heap)
      /\ Rest \subseteq 1 .. Len(heap) /\ mem_regions \notin Rest /\ this_region = mem_regions
      /\ Chain(heap, n, Rest) /\ Contiguous(heap, Rest)
      /\ limit_right = REAL_MODE_LIMIT /\ List = {mem_regions} \cup Rest
      /\ n = heap[mem_regions].next
      /\ REAL_MODE_LIMIT \in Nat /\ REAL_MODE_LIMIT < ADDR_MOD
  BY <1>1, LowPlace
<1>3. \A m \in Rest : heap[m].base_addr \in Nat /\ heap[m].size \in Nat /\ End(heap, m) \in Nat
  BY <1>2, Nodes
<1>4. Whole(heap, n) /\ RightOf(heap, n) = End(heap, n)
  <2>1. Whole(heap, n)
    BY <1>2 DEF Chain
  <2>2. QED
    BY <1>2, <2>1, Nodes DEF Whole
<1>5. heap[n].base_addr < REAL_MODE_LIMIT /\ REAL_MODE_LIMIT < End(heap, n)
  BY <1>1, <1>2, <1>3, <1>4
<1>6. (heap[n].size - (limit_right - heap[n].base_addr)) % ADDR_MOD = End(heap, n) - REAL_MODE_LIMIT
  <2>1. End(heap, n) = heap[n].base_addr + heap[n].size /\ End(heap, n) < ADDR_MOD
    BY <1>4 DEF End, Whole
  <2>2. heap[n].size - (limit_right - heap[n].base_addr) = End(heap, n) - REAL_MODE_LIMIT
    BY <1>2, <1>3, <2>1
  <2>3. End(heap, n) - REAL_MODE_LIMIT \in 0 .. ADDR_MOD - 1
    BY <1>2, <1>3, <1>5, <2>1, AddrModAssumption
  <2>4. \A x \in 0 .. ADDR_MOD - 1 : x % ADDR_MOD = x
    BY AddrModAssumption
  <2> HIDE DEF n
  <2>5. QED
    BY <2>2, <2>3, <2>4
<1>7. /\ Len(heap') = Len(heap)
      /\ \A m \in 1 .. Len(heap) :
            /\ heap'[m].next = heap[m].next /\ heap'[m].type = heap[m].type
            /\ heap'[m].size = IF m = n THEN End(heap, n) - REAL_MODE_LIMIT ELSE heap[m].size
            /\ heap'[m].base_addr = IF m = n THEN REAL_MODE_LIMIT ELSE heap[m].base_addr
  BY <1>2, <1>6, TrimWrites DEF SysInfoTypeOK
<1>8. /\ heap'[n].base_addr = REAL_MODE_LIMIT /\ heap'[n].size = End(heap, n) - REAL_MODE_LIMIT
      /\ heap'[mem_regions].next = n
      /\ heap'[mem_regions].base_addr = heap[mem_regions].base_addr
      /\ heap'[mem_regions].size = heap[mem_regions].size
      /\ heap'[mem_regions].type = heap[mem_regions].type
  BY <1>2, <1>7
<1>9. Chain(heap', n, Rest)
  <2>1. Trimmed(heap, heap', Rest, n, REAL_MODE_LIMIT)
    <3>1. \A m \in Rest : /\ heap[m].base_addr \in Nat /\ heap[m].size \in Nat
                          /\ heap'[m].next = heap[m].next
      BY <1>2, <1>3, <1>7
    <3>2. \A m \in Rest : m # n => heap'[m].size = heap[m].size /\ heap'[m].base_addr = heap[m].base_addr
      BY <1>2, <1>7
    <3>3. Rest \subseteq 1 .. Len(heap')
      BY <1>2, <1>7
    <3>4. QED
      BY <1>1, <1>2, <1>5, <1>8, <3>1, <3>2, <3>3 DEF Trimmed
  <2>2. QED
    BY <1>2, <2>1, ChainTrim
<1>10. ASSUME NEW m \in List
       PROVE  /\ heap'[m].type = heap[m].type /\ End(heap', m) = End(heap, m)
              /\ m # n => heap'[m].base_addr = heap[m].base_addr
              /\ heap'[m].next = heap[m].next
  <2>1. m \in 1 .. Len(heap)
    BY <1>2
  <2>2. CASE m = n
    <3>1. End(heap, n) \in Nat /\ REAL_MODE_LIMIT \in Nat
      BY <1>2, <1>3
    <3>2. End(heap', n) = REAL_MODE_LIMIT + (End(heap, n) - REAL_MODE_LIMIT)
      BY <1>8 DEF End
    <3>3. End(heap', n) = End(heap, n)
      <4> HIDE DEF n
      <4>1. QED
        BY <3>1, <3>2
    <3>4. QED
      BY <1>7, <2>1, <2>2, <3>3
  <2>3. CASE m # n
    BY <1>7, <2>1, <2>3 DEF End
  <2>4. QED
    BY <2>2, <2>3
<1>11. Contiguous(heap', Rest)
  <2>1. SUFFICES ASSUME NEW m \in Rest, heap'[m].next # NULL
                 PROVE  End(heap', m) = heap'[heap'[m].next].base_addr
    BY DEF Contiguous
  <2>2. m \in List /\ heap'[m].next = heap[m].next
    BY <1>2, <1>10
  <2>3. heap[m].next \in Rest /\ End(heap, m) = heap[heap[m].next].base_addr
    BY <1>2, <2>1, <2>2 DEF Chain, Contiguous
  <2>4. heap[m].next # n
    <3>1. End(heap, m) > heap[m].base_addr /\ heap[n].base_addr <= heap[m].base_addr
      <4>1. Whole(heap, m) /\ heap[n].base_addr <= heap[m].base_addr
        BY <1>2 DEF Chain
      <4>2. QED
        BY <1>3, <4>1 DEF Whole, End
    <3>2. QED
      BY <1>2, <1>3, <2>3, <3>1
  <2>5. heap'[heap[m].next].base_addr = heap[heap[m].next].base_addr
    BY <1>2, <1>10, <2>3, <2>4
  <2>6. QED
    BY <1>10, <2>2, <2>3, <2>5
<1>12. OrderedInv' /\ List' = {mem_regions} \cup Rest
  <2>1. FixUnchanged /\ UNCHANGED <<pc, this_region, limit_right, pending>>
    BY DEF TrimNext
  <2> HIDE DEF n
  <2>2. QED
    BY <1>2, <1>7, <1>8, <1>9, <1>11, <2>1, LowLoopOrdered
<1>13. QED
  BY <1>2, <1>5, <1>8, <1>10, <1>12

\* What leaves fix_right for the search of the RSDP.
LEMMA LowDoneOrdered ==
  ASSUME SysInfoTypeOK, SysInfoTypeOK', OrderedInv, pc = "fix", ret = "rsdp",
         UNCHANGED sysinfoVars, Return,
         NEW S, Chain(heap', mem_regions, S), Contiguous(heap', S),
         heap'[mem_regions].base_addr = 0, heap'[mem_regions].size >= REAL_MODE_LIMIT,
         heap'[mem_regions].type = SYSINFO_MT_RESERVED
  PROVE  OrderedInv' /\ List' = S
<1>1. /\ pc' = "rsdp" /\ ret' = "rsdp" /\ mem_regions' = mem_regions
      /\ reported' = reported /\ count' = count
  BY LowPlace DEF Return, FixUnchanged, sysinfoVars
<1>2. List' = S
  BY <1>1, NewList
<1>3. InOrder'
  BY <1>1 DEF OrderedInv, InOrder
<1>4. Complete'
  BY <1>1, <1>2, LowPlace DEF Complete
<1>5. QED
  BY <1>1, <1>2, <1>3, <1>4, OnePart

\* The head in front of a list that borders on it.
LEMMA LowJoin ==
  ASSUME NEW h, NEW q \in 1 .. Len(h), NEW head, NEW S, Chain(h, head, S), Contiguous(h, S),
         Len(h) \in Nat,
         q \notin S, Whole(h, q), h[q].next = head, head = NULL => S = {},
         head # NULL => End(h, q) = h[head].base_addr,
         \A n \in 1 .. Len(h) : h[n].base_addr \in Nat /\ h[n].size \in Nat
  PROVE  Chain(h, q, S \cup {q}) /\ Contiguous(h, S \cup {q})
<1>1. S \subseteq 1 .. Len(h) /\ q # NULL
  BY DEF Chain, NULL
<1>2. head # NULL => End(h, q) <= h[head].base_addr
  <2>1. head # NULL => head \in 1 .. Len(h)
    BY <1>1 DEF Chain
  <2>2. QED
    BY <2>1
<1>3. Chain(h, q, S \cup {q})
  <2>1. \A n \in S \cup {q} : h[n].base_addr \in Nat /\ h[n].size \in Nat
    BY <1>1
  <2>2. QED
    BY <1>1, <1>2, <2>1, ChainCons
<1>4. Contiguous(h, S \cup {q})
  BY DEF Contiguous
<1>5. QED
  BY <1>3, <1>4

\* ... a reserved one that borders on it is merged,
LEMMA LowMergeOrdered ==
  ASSUME SysInfoTypeOK, SysInfoTypeOK', OrderedInv, pc = "fix", ret = "rsdp",
         UNCHANGED sysinfoVars, MergeRight
  PROVE  /\ OrderedInv' /\ next_region \in Rest
         /\ List' = List \ {next_region}
         /\ heap[next_region].type = SYSINFO_MT_RESERVED
         /\ \A n \in List' : heap'[n].base_addr = heap[n].base_addr /\ heap'[n].type = heap[n].type
         /\ \A n \in List' : n # mem_regions => heap'[n].size = heap[n].size
         /\ End(heap', mem_regions) = End(heap, next_region)
<1> DEFINE q == mem_regions
           n == next_region
           S == Rest \ {n}
<1>1. next_region # NULL /\ heap[this_region].type = heap[next_region].type
      /\ ~ (limit_right > heap[next_region].base_addr) /\ Return
  BY DEF MergeRight, SameType, LoopOver, Overlapping
<1>2. /\ n \in Rest /\ n \in 1 .. Len(heap) /\ q \in 1 .. Len(heap)
      /\ Rest \subseteq 1 .. Len(heap) /\ q \notin Rest /\ this_region = q
      /\ Chain(heap, n, Rest) /\ Contiguous(heap, Rest)
      /\ limit_right = REAL_MODE_LIMIT /\ List = {q} \cup Rest
      /\ n = heap[q].next /\ heap[q].base_addr = 0 /\ heap[q].type = SYSINFO_MT_RESERVED
      /\ REAL_MODE_LIMIT \in Nat /\ REAL_MODE_LIMIT < ADDR_MOD /\ REAL_MODE_LIMIT > 0
  BY <1>1, LowPlace
<1>3. \A m \in Rest : heap[m].base_addr \in Nat /\ heap[m].size \in Nat /\ End(heap, m) \in Nat
  BY <1>2, Nodes
<1>4. Whole(heap, n) /\ RightOf(heap, n) = End(heap, n)
  <2>1. Whole(heap, n)
    BY <1>2 DEF Chain
  <2>2. QED
    BY <1>2, <2>1, Nodes DEF Whole
<1>5. (RightOf(heap, n) - heap[q].base_addr) % ADDR_MOD = End(heap, n)
  <2>1. End(heap, n) \in 0 .. ADDR_MOD - 1
    BY <1>2, <1>3, <1>4, AddrModAssumption DEF Whole
  <2>2. \A x \in 0 .. ADDR_MOD - 1 : x % ADDR_MOD = x
    BY AddrModAssumption
  <2>3. RightOf(heap, n) - heap[q].base_addr = End(heap, n)
    BY <1>2, <1>4, <2>1
  <2>4. QED
    BY <2>1, <2>2, <2>3
<1>6. /\ Len(heap') = Len(heap)
      /\ \A m \in 1 .. Len(heap) :
            /\ heap'[m].base_addr = heap[m].base_addr /\ heap'[m].type = heap[m].type
            /\ heap'[m].size = IF m = q THEN End(heap, n) ELSE heap[m].size
            /\ heap'[m].next = IF m = q THEN heap[n].next ELSE heap[m].next
      /\ \A m \in 1 .. Len(heap) : m # q => heap'[m] = heap[m]
  BY <1>2, <1>5, MergeWrites DEF SysInfoTypeOK
<1>7. Chain(heap, heap[n].next, S)
  BY <1>1, <1>2, <1>3, ChainTail
<1>8. \A m \in Rest : heap'[m] = heap[m]
  BY <1>2, <1>6
<1>9. Chain(heap', heap[n].next, S)
  <2>1. Len(heap) \in Nat /\ Len(heap') \in Nat /\ Len(heap) <= Len(heap')
    BY <1>6, Nodes
  <2>2. \A m \in S : heap'[m] = heap[m]
    BY <1>8
  <2> HIDE DEF S, n
  <2>3. QED
    BY <1>7, <2>1, <2>2, ChainFrame
<1>10. Contiguous(heap', S)
  <2>1. SUFFICES ASSUME NEW m \in S, heap'[m].next # NULL
                 PROVE  End(heap', m) = heap'[heap'[m].next].base_addr
    BY DEF Contiguous
  <2>2. heap[m].next \in S /\ heap'[m] = heap[m]
    BY <1>7, <1>8, <2>1 DEF Chain
  <2>3. QED
    BY <1>2, <1>8, <2>1, <2>2 DEF Contiguous, End
<1>11. /\ heap'[q].base_addr = 0 /\ heap'[q].size = End(heap, n) /\ heap'[q].next = heap[n].next
       /\ heap'[q].type = SYSINFO_MT_RESERVED
  BY <1>2, <1>6
<1>12. End(heap', q) = End(heap, n) /\ heap'[q].size >= REAL_MODE_LIMIT
  <2>1. End(heap', q) = End(heap, n)
    BY <1>2, <1>3, <1>11 DEF End
  <2>2. End(heap, n) = heap[n].base_addr + heap[n].size
    BY DEF End
  <2>3. heap[n].base_addr >= REAL_MODE_LIMIT
    BY <1>1, <1>2, <1>3
  <2> HIDE DEF n, q
  <2>4. QED
    BY <1>2, <1>3, <1>11, <2>1, <2>2, <2>3
<1>13. Whole(heap', q)
  BY <1>2, <1>4, <1>11, <1>12, <1>3 DEF Whole
<1>14. Chain(heap', q, S \cup {q}) /\ Contiguous(heap', S \cup {q})
  <2> DEFINE x == heap[n].next
  <2>1. x # NULL => x \in S /\ x \in Rest
    BY <1>7 DEF Chain
  <2>2. x # NULL => End(heap', q) = heap'[x].base_addr
    BY <1>2, <1>8, <1>12, <2>1 DEF Contiguous
  <2>3. x = NULL => S = {}
    <3>1. SUFFICES ASSUME x = NULL, NEW m \in S PROVE FALSE
      OBVIOUS
    <3>2. NULL \in S
      BY <1>7, <3>1 DEF Chain
    <3>3. QED
      BY <1>2, <3>2 DEF NULL
  <2>4. /\ q \in 1 .. Len(heap') /\ Len(heap') \in Nat /\ q \notin S
        /\ \A m \in 1 .. Len(heap') : heap'[m].base_addr \in Nat /\ heap'[m].size \in Nat
    BY <1>2, <1>6, NodesNext
  <2>5. heap'[q].next = x
    BY <1>11
  <2> HIDE DEF q, S, x, n
  <2>6. Chain(heap', x, S)
    BY <1>9 DEF x
  <2>7. QED
    BY <1>10, <1>13, <2>2, <2>3, <2>4, <2>5, <2>6, LowJoin
<1>15. OrderedInv' /\ List' = S \cup {q}
  <2> DEFINE T == S \cup {q}
  <2>1. Chain(heap', mem_regions, T) /\ Contiguous(heap', T)
    BY <1>14
  <2> HIDE DEF T
  <2>2. OrderedInv' /\ List' = T
    BY <1>1, <1>11, <1>12, <2>1, LowDoneOrdered
  <2>3. QED
    BY <2>2 DEF T
<1>16. List' = List \ {n} /\ List' \subseteq 1 .. Len(heap)
  BY <1>2, <1>15
<1>17. heap[n].type = SYSINFO_MT_RESERVED
  BY <1>1, <1>2
<1>18. QED
  BY <1>2, <1>6, <1>12, <1>15, <1>16, <1>17

\* ... a gap behind it is filled,
LEMMA LowPadOrdered ==
  ASSUME SysInfoTypeOK, SysInfoTypeOK', OrderedInv, pc = "fix", ret = "rsdp",
         UNCHANGED sysinfoVars, PadGap, NEW p, p = Len(heap) + 1
  PROVE  /\ OrderedInv'
         /\ List' = List \cup {p}
         /\ \A n \in List : /\ heap'[n].base_addr = heap[n].base_addr /\ heap'[n].size = heap[n].size
                            /\ heap'[n].type = heap[n].type
         /\ heap'[p].type = SYSINFO_MT_RESERVED
<1> DEFINE q == mem_regions
           n == next_region
<1>1. next_region # NULL /\ RightOf(heap, this_region) < heap[next_region].base_addr /\ Return
  BY DEF PadGap, GapRight
<1>2. /\ n \in Rest /\ n \in 1 .. Len(heap) /\ q \in 1 .. Len(heap)
      /\ Rest \subseteq 1 .. Len(heap) /\ q \notin Rest /\ this_region = q
      /\ Chain(heap, n, Rest) /\ Contiguous(heap, Rest)
      /\ List = {q} \cup Rest
      /\ n = heap[q].next /\ heap[q].base_addr = 0 /\ heap[q].type = SYSINFO_MT_RESERVED
      /\ heap[q].size = REAL_MODE_LIMIT
      /\ RightOf(heap, q) = REAL_MODE_LIMIT /\ End(heap, q) = REAL_MODE_LIMIT /\ Whole(heap, q)
      /\ REAL_MODE_LIMIT \in Nat /\ REAL_MODE_LIMIT < ADDR_MOD /\ REAL_MODE_LIMIT > 0
  BY <1>1, LowPlace
<1>3. heap[n].base_addr \in Nat /\ heap[n].base_addr < ADDR_MOD /\ Len(heap) \in Nat
  BY <1>2, Nodes
<1>4. /\ Len(heap') = Len(heap) + 1
      /\ \A m \in 1 .. Len(heap) :
            /\ heap'[m].base_addr = heap[m].base_addr /\ heap'[m].size = heap[m].size
            /\ heap'[m].type = heap[m].type
            /\ heap'[m].next = IF m = q THEN p ELSE heap[m].next
      /\ \A m \in 1 .. Len(heap) : m # q => heap'[m] = heap[m]
      /\ heap'[p].next = n /\ heap'[p].type = SYSINFO_MT_RESERVED
      /\ heap'[p].base_addr = REAL_MODE_LIMIT
      /\ heap'[p].size = heap[n].base_addr - REAL_MODE_LIMIT
  BY <1>2, PadWrites DEF SysInfoTypeOK
<1>5. \A m \in Rest : heap'[m] = heap[m]
  BY <1>2, <1>4
<1>6. Chain(heap', n, Rest)
  <2>1. Len(heap) \in Nat /\ Len(heap') \in Nat /\ Len(heap) <= Len(heap')
    BY <1>3, <1>4
  <2> HIDE DEF n
  <2>2. QED
    BY <1>2, <1>5, <2>1, ChainFrame
<1>7. Contiguous(heap', Rest)
  <2>1. SUFFICES ASSUME NEW m \in Rest, heap'[m].next # NULL
                 PROVE  End(heap', m) = heap'[heap'[m].next].base_addr
    BY DEF Contiguous
  <2>2. heap[m].next \in Rest /\ heap'[m] = heap[m]
    BY <1>2, <1>5, <2>1 DEF Chain
  <2>3. QED
    BY <1>2, <1>5, <2>1, <2>2 DEF Contiguous, End
<1>8. /\ p \in 1 .. Len(heap') /\ q \in 1 .. Len(heap') /\ Len(heap') \in Nat
      /\ p \notin Rest /\ q \notin Rest /\ p # q /\ p # NULL
      /\ \A m \in 1 .. Len(heap') : heap'[m].base_addr \in Nat /\ heap'[m].size \in Nat
  <2>1. \A m \in 1 .. Len(heap') : heap'[m].base_addr \in Nat /\ heap'[m].size \in Nat
    BY NodesNext
  <2>2. p \in 1 .. Len(heap') /\ q \in 1 .. Len(heap') /\ Len(heap') \in Nat /\ p # NULL
    BY <1>2, <1>3, <1>4 DEF NULL
  <2>3. p \notin 1 .. Len(heap)
    BY <1>3
  <2>4. QED
    BY <1>2, <2>1, <2>2, <2>3
<1>9. End(heap', p) = heap'[n].base_addr /\ Whole(heap', p)
  <2>1. End(heap', p) = heap[n].base_addr /\ heap'[n].base_addr = heap[n].base_addr
    BY <1>2, <1>3, <1>4 DEF End
  <2>2. heap'[p].size > 0
    BY <1>1, <1>2, <1>3, <1>4
  <2>3. QED
    BY <1>3, <2>1, <2>2 DEF Whole
<1> DEFINE U == Rest \cup {p}
<1>10. Chain(heap', p, U) /\ Contiguous(heap', U)
  <2>1. heap'[p].next = n /\ n # NULL
    BY <1>1, <1>4
  <2> HIDE DEF n
  <2>2. QED
    BY <1>6, <1>7, <1>8, <1>9, <2>1, LowJoin
<1>11. /\ heap'[q].base_addr = 0 /\ heap'[q].size = REAL_MODE_LIMIT /\ heap'[q].next = p
       /\ heap'[q].type = SYSINFO_MT_RESERVED
  BY <1>2, <1>4
<1>12. Whole(heap', q) /\ End(heap', q) = heap'[p].base_addr
  BY <1>2, <1>4, <1>11 DEF Whole, End
<1>13. Chain(heap', q, U \cup {q}) /\ Contiguous(heap', U \cup {q})
  <2>1. q \notin U
    BY <1>8
  <2> HIDE DEF U, q
  <2>2. QED
    BY <1>8, <1>10, <1>11, <1>12, <2>1, LowJoin
<1>14. OrderedInv' /\ List' = U \cup {q}
  <2> DEFINE T == U \cup {q}
  <2>1. Chain(heap', mem_regions, T) /\ Contiguous(heap', T)
    BY <1>13
  <2>2. heap'[mem_regions].size >= REAL_MODE_LIMIT
    BY <1>2, <1>11
  <2> HIDE DEF T
  <2>3. OrderedInv' /\ List' = T
    BY <1>1, <1>11, <2>1, <2>2, LowDoneOrdered
  <2>4. QED
    BY <2>3 DEF T
<1>15. List' = List \cup {p} /\ List \subseteq 1 .. Len(heap)
  BY <1>2, <1>14
<1>16. QED
  BY <1>4, <1>14, <1>15

\* ... or nothing is to be done.
LEMMA LowNoPaddingOrdered ==
  ASSUME SysInfoTypeOK, SysInfoTypeOK', OrderedInv, pc = "fix", ret = "rsdp",
         UNCHANGED sysinfoVars, NoPadding
  PROVE  OrderedInv' /\ List' = List /\ heap' = heap
<1> DEFINE q == mem_regions
           n == next_region
<1>1. /\ heap' = heap /\ Return /\ ~Overlapping
      /\ n # NULL => /\ ~SameType /\ heap[n].type # SYSINFO_MT_RESERVED
                     /\ ~ (RightOf(heap, this_region) < heap[n].base_addr)
  BY DEF NoPadding, GapRight, LoopOver
<1>2. /\ q \in 1 .. Len(heap) /\ q \notin Rest /\ this_region = q
      /\ Chain(heap, n, Rest) /\ Contiguous(heap, Rest)
      /\ List = {q} \cup Rest
      /\ n = heap[q].next /\ heap[q].base_addr = 0 /\ heap[q].type = SYSINFO_MT_RESERVED
      /\ heap[q].size = REAL_MODE_LIMIT /\ limit_right = REAL_MODE_LIMIT
      /\ RightOf(heap, q) = REAL_MODE_LIMIT /\ End(heap, q) = REAL_MODE_LIMIT /\ Whole(heap, q)
      /\ n = NULL => Rest = {}
      /\ n # NULL => n \in 1 .. Len(heap)
      /\ REAL_MODE_LIMIT \in Nat
  BY LowPlace
<1>3. n # NULL => End(heap, q) = heap[n].base_addr
  <2>1. SUFFICES ASSUME n # NULL PROVE End(heap, q) = heap[n].base_addr
    OBVIOUS
  <2>2. heap[n].base_addr \in Nat
    BY <1>2, <2>1, Nodes
  <2>3. ~ (limit_right > heap[n].base_addr)
    BY <1>1, <2>1 DEF Overlapping, NoPadding, LoopOver
  <2>4. QED
    BY <1>1, <1>2, <2>1, <2>2, <2>3
<1>4. Chain(heap, q, Rest \cup {q}) /\ Contiguous(heap, Rest \cup {q})
  <2>1. Len(heap) \in Nat /\ \A m \in 1 .. Len(heap) : heap[m].base_addr \in Nat /\ heap[m].size \in Nat
    BY Nodes
  <2> HIDE DEF n, q
  <2>2. QED
    BY <1>2, <1>3, <2>1, LowJoin
<1>5. OrderedInv' /\ List' = List
  <2>1. Chain(heap', mem_regions, List) /\ Contiguous(heap', List)
    <3>1. List = Rest \cup {q}
      BY <1>2
    <3>2. QED
      BY <1>1, <1>4, <3>1
  <2>2. heap'[mem_regions].size >= REAL_MODE_LIMIT
    BY <1>1, <1>2
  <2>3. QED
    BY <1>1, <1>2, <2>1, <2>2, LowDoneOrdered
<1>6. QED
  BY <1>1, <1>5

\* The reserved region wins over every other, and is of the type of a reserved one.
LEMMA LowNever ==
  ASSUME SysInfoTypeOK, OrderedInv, pc = "fix", ret = "rsdp"
  PROVE  ~CutThis /\ ~SplitThis /\ ~SplitPanic /\ ~ExtendReserved
<1>1. next_region # NULL => ~NextWins
  BY LowPlace
<1>2. heap[this_region].type = SYSINFO_MT_RESERVED
  BY LowPlace
<1>3. QED
  BY <1>1, <1>2 DEF CutThis, SplitThis, SplitPanic, ExtendReserved, Overlapping, SameType

-----------------------------------------------------------------------------
\* Every step of fix_right preserves the invariant.
LEMMA FixOrdered ==
  ASSUME SysInfoTypeOK, SysInfoTypeOK', OrderedInv, UNCHANGED sysinfoVars, FixRight
  PROVE  OrderedInv'
<1>1. pc = "fix"
  BY DEF FixRight, DropNext, TrimNext, CutThis, SplitThis, SplitPanic, MergeRight,
         ExtendReserved, PadGap, PadPanic, NoPadding, Overlapping, LoopOver
<1>2. CASE PadPanic
  <2>1. pc' = "panic" /\ reported' = reported
    BY <1>2 DEF PadPanic, AllocPanic, sysinfoVars
  <2>2. InOrder'
    BY <2>1 DEF OrderedInv, InOrder
  <2>3. QED
    BY <2>1, <2>2, OnePart
<1>3. ret \in {"e820", "rsdp"}
  BY DEF SysInfoTypeOK
<1>4. CASE ret = "e820" /\ ~PadPanic
  <2>1. ~Overlapping
    BY <1>1, <1>4, RepairPlace
  <2>2. MergeRight \/ ExtendReserved \/ PadGap \/ NoPadding
    BY <1>4, <2>1 DEF FixRight, DropNext, TrimNext, CutThis, SplitThis, SplitPanic
  <2>3. CASE this_region # prev
    BY <1>1, <1>4, <2>2, <2>3, FirstRepair
  <2>4. CASE this_region = prev
    BY <1>1, <1>4, <2>2, <2>4, LastMergeOrdered, LastExtendOrdered, LastPadOrdered,
       LastNoPaddingOrdered
  <2>5. QED
    BY <2>3, <2>4
<1>5. CASE ret = "rsdp" /\ ~PadPanic
  <2>1. DropNext \/ TrimNext \/ MergeRight \/ PadGap \/ NoPadding
    BY <1>1, <1>5, LowNever DEF FixRight
  <2>2. QED
    BY <1>1, <1>5, <2>1, LowDropOrdered, LowTrimOrdered, LowMergeOrdered, LowPadOrdered,
       LowNoPaddingOrdered
<1>6. QED
  BY <1>2, <1>3, <1>4, <1>5

\* Every step preserves the invariant.
LEMMA NextOrdered ==
  ASSUME SysInfoTypeOK, SysInfoTypeOK', OrderedMap, OrderedInv, [SysInfoNext]_vars
  PROVE  OrderedInv'
<1>1. ASSUME NEW r \in NextReports, NextRegion(r) PROVE OrderedInv'
  BY <1>1, NextRegionOrdered
<1>2. ASSUME NEW r \in NextReports, NextRegionPanic(r) PROVE OrderedInv'
  <2>1. reported' = Append(reported, r) /\ pc' = "panic"
    BY <1>2 DEF NextRegionPanic, AllocPanic
  <2>2. InOrder'
    BY <2>1, ReportInOrder DEF OrderedInv
  <2>3. QED
    BY <2>1, <2>2, OnePart
<1>3. ASSUME NEW r \in NextReports, LastRegion(r) PROVE OrderedInv'
  <2>1. reported' = Append(reported, r) /\ pc = "e820" /\ AfterLoop /\ count' = count
    BY <1>3 DEF LastRegion
  <2>2. InOrder'
    BY <2>1, ReportInOrder DEF OrderedInv
  <2>3. QED
    BY <2>1, <2>2, AfterLoopOrdered
<1>4. CASE NoMoreRegions
  <2>1. reported' = reported /\ pc = "e820" /\ AfterLoop /\ count' = count
    BY <1>4 DEF NoMoreRegions
  <2>2. InOrder'
    BY <2>1 DEF OrderedInv, InOrder
  <2>3. QED
    BY <2>1, <2>2, AfterLoopOrdered
<1>5. CASE SearchRsdp
  BY <1>5, SearchOrdered
<1>6. CASE ListStep
  <2>1. InsertSorted /\ UNCHANGED sysinfoVars
    BY <1>6 DEF ListStep
  <2>2. QED
    BY <2>1, WalkOrdered, LinkFirstOrdered, LinkHeadOrdered, LinkAfterOrdered, FixOrdered
       DEF InsertSorted
<1>7. CASE UNCHANGED vars
  <2>1. /\ heap' = heap /\ mem_regions' = mem_regions /\ pc' = pc /\ ret' = ret
        /\ new_region' = new_region /\ prev2' = prev2 /\ prev' = prev /\ current' = current
        /\ this_region' = this_region /\ limit_right' = limit_right /\ pending' = pending
        /\ reported' = reported /\ count' = count
    BY <1>7 DEF vars, listVars, sysinfoVars
  <2>2. List' = List /\ Rest' = Rest /\ Linked' = Linked
    BY <2>1 DEF List, Rest, Linked
  <2>3. InOrder'
    BY <2>1 DEF OrderedInv, InOrder
  <2>4. Appending => Appending'
    BY <2>1, <2>2 DEF Appending
  <2>5. BetweenReports'
    BY <2>1, <2>2, <2>4 DEF OrderedInv, BetweenReports
  <2>6. Walking'
    BY <2>1, <2>2, <2>4 DEF OrderedInv, Walking
  <2>7. Repairing'
    BY <2>1, <2>2, <2>4 DEF OrderedInv, Repairing
  <2>8. WalkingLow'
    <3>1. Reserved' = Reserved
      BY DEF Reserved, Region
    <3>2. QED
      BY <2>1, <2>2, <3>1 DEF OrderedInv, WalkingLow
  <2>9. RepairingLow'
    BY <2>1, <2>2 DEF OrderedInv, RepairingLow
  <2>10. Complete'
    BY <2>1, <2>2 DEF OrderedInv, Complete
  <2>11. QED
    BY <2>3, <2>5, <2>6, <2>7, <2>8, <2>9, <2>10 DEF OrderedInv
<1>8. QED
  BY <1>1, <1>2, <1>3, <1>4, <1>5, <1>6, <1>7 DEF SysInfoNext

-----------------------------------------------------------------------------
(* The contents of the list *)

\* Some node of the list covers address a and is of type t.
Listed(a, t) ==
  \E n \in List : heap[n].base_addr <= a /\ a < End(heap, n) /\ heap[n].type = t

\* The list says of every address of the k-th report what the firmware said of it; once
\* the low memory is being reserved, of those beyond it.
KeptAt(k) ==
  \A a \in Addresses :
    (Covers(reported[k], a) /\ (ret = "rsdp" => a >= REAL_MODE_LIMIT))
       => Listed(a, convert_type(reported[k].type))

Kept == pc # "panic" => \A k \in 1 .. Linked : KeptAt(k)

\* Node n lies between two usable reports with nothing else inserted between them.
Usable(k) == convert_type(reported[k].type) = SYSINFO_MT_USABLE

Spanned(n) ==
  \E i, j \in 1 .. Linked :
    /\ Usable(i) /\ reported[i].size > 0 /\ reported[i].base_addr <= heap[n].base_addr
    /\ Usable(j) /\ reported[j].size > 0 /\ End(heap, n) <= Top(reported[j])
    /\ \A k \in 1 .. Linked :
         (~Usable(k) /\ reported[k].size > 0) =>
           ~(reported[i].base_addr <= reported[k].base_addr
               /\ reported[k].base_addr < reported[j].base_addr)

UsableSpanned ==
  pc # "panic" => \A n \in List : heap[n].type = SYSINFO_MT_USABLE => Spanned(n)

ContentsInv == Kept /\ UsableSpanned

\* The next list has all that node n covers, but perhaps what lies in the low memory
\* that is being reserved.
Carried(n) ==
  \/ ret' = "rsdp" /\ pc' # "walk" /\ End(heap, n) <= REAL_MODE_LIMIT
  \/ \E m \in List' :
       /\ heap'[m].type = heap[n].type
       /\ End(heap, n) <= End(heap', m)
       /\ \/ heap'[m].base_addr <= heap[n].base_addr
          \/ ret' = "rsdp" /\ pc' # "walk" /\ heap'[m].base_addr <= REAL_MODE_LIMIT

Carries == pc' # "panic" => \A n \in List : Carried(n)

\* The linked reports stay what they are, and none of the new ones begins before them.
ReportsGrow ==
  /\ Linked \in Nat /\ Linked' \in Nat /\ Linked <= Linked'
  /\ ret = "rsdp" => ret' = "rsdp"
  /\ \A k \in 1 .. Linked : reported'[k] = reported[k]
  /\ \A k \in 1 .. Linked' : reported'[k].base_addr \in Nat /\ reported'[k].size \in Nat
  /\ \A k \in 1 .. Linked', j \in 1 .. Linked :
        (k > Linked /\ reported'[k].size > 0) => reported[j].base_addr <= reported'[k].base_addr

\* What is carried is kept.
LEMMA KeptCarries ==
  ASSUME SysInfoTypeOK, SysInfoTypeOK', ReportsGrow,
         \A k \in 1 .. Linked : KeptAt(k),
         \A n \in List : Carried(n),
         \A k \in 1 .. Linked' : (k > Linked /\ reported'[k].size > 0) => KeptAt(k)'
  PROVE  \A k \in 1 .. Linked' : KeptAt(k)'
<1> SUFFICES ASSUME NEW k \in 1 .. Linked' PROVE KeptAt(k)'
  OBVIOUS
<1>0. /\ Linked \in Nat /\ Linked' \in Nat
      /\ reported'[k].base_addr \in Nat /\ reported'[k].size \in Nat
  BY DEF ReportsGrow
<1>1. CASE k > Linked /\ reported'[k].size > 0
  BY <1>1
<1>2. CASE reported'[k].size = 0
  <2>1. \A a \in Addresses : ~Covers(reported'[k], a)
    BY <1>0, <1>2 DEF Covers, Addresses
  <2>2. QED
    BY <2>1 DEF KeptAt
<1>3. CASE k \in 1 .. Linked
  <2>1. reported'[k] = reported[k] /\ KeptAt(k)
    BY <1>3 DEF ReportsGrow
  <2>2. SUFFICES ASSUME NEW a \in Addresses, Covers(reported'[k], a), ret' = "rsdp" => a >= REAL_MODE_LIMIT
                 PROVE  Listed(a, convert_type(reported[k].type))'
    BY DEF KeptAt
  <2>3. Covers(reported[k], a) /\ (ret = "rsdp" => a >= REAL_MODE_LIMIT)
    BY <2>1, <2>2 DEF ReportsGrow
  <2>4. PICK n \in List : /\ heap[n].base_addr <= a /\ a < End(heap, n)
                          /\ heap[n].type = convert_type(reported[k].type)
    BY <2>1, <2>3 DEF KeptAt, Listed
  <2>5. /\ n \in 1 .. Len(heap) /\ heap[n].base_addr \in Nat /\ End(heap, n) \in Nat
        /\ a \in Nat /\ REAL_MODE_LIMIT \in Nat
    BY Nodes, RealModeLimitAssumption DEF Addresses
  <2>6. ~(ret' = "rsdp" /\ End(heap, n) <= REAL_MODE_LIMIT)
    BY <2>2, <2>4, <2>5
  <2>7. PICK m \in List' :
             /\ heap'[m].type = heap[n].type
             /\ End(heap, n) <= End(heap', m)
             /\ \/ heap'[m].base_addr <= heap[n].base_addr
                \/ ret' = "rsdp" /\ heap'[m].base_addr <= REAL_MODE_LIMIT
    BY <2>6 DEF Carried
  <2>8. heap'[m].base_addr \in Nat /\ End(heap', m) \in Nat
    BY <2>7, NodesNext, Nodes, LiveClosed DEF List
  <2>9. heap'[m].base_addr <= a /\ a < End(heap', m)
    BY <2>2, <2>4, <2>5, <2>7, <2>8
  <2>10. heap'[m].type = convert_type(reported'[k].type)
    BY <2>1, <2>4, <2>7
  <2>11. \E n1 \in List' : heap'[n1].base_addr <= a /\ a < End(heap', n1)
                         /\ heap'[n1].type = convert_type(reported'[k].type)
    BY <2>9, <2>10
  <2>12. QED
    BY <2>11 DEF Listed
<1>4. QED
  BY <1>0, <1>1, <1>2, <1>3

\* A usable node of the next list that was one of the list before and has lost at most
\* its beginning.
Remains(m) ==
  /\ m \in List /\ heap[m].type = SYSINFO_MT_USABLE
  /\ heap[m].base_addr <= heap'[m].base_addr
  /\ End(heap', m) <= End(heap, m)

\* A usable node that remains is spanned by the reports that spanned it.
LEMMA UsableCarries ==
  ASSUME SysInfoTypeOK, SysInfoTypeOK', ReportsGrow,
         \A n \in List : heap[n].type = SYSINFO_MT_USABLE => Spanned(n),
         \A m \in List' : heap'[m].type = SYSINFO_MT_USABLE => Remains(m) \/ Spanned(m)'
  PROVE  \A m \in List' : heap'[m].type = SYSINFO_MT_USABLE => Spanned(m)'
<1> SUFFICES ASSUME NEW m \in List', heap'[m].type = SYSINFO_MT_USABLE, Remains(m)
             PROVE  Spanned(m)'
  OBVIOUS
<1>1. PICK i \in 1 .. Linked, j \in 1 .. Linked :
        /\ Usable(i) /\ reported[i].size > 0 /\ reported[i].base_addr <= heap[m].base_addr
        /\ Usable(j) /\ reported[j].size > 0 /\ End(heap, m) <= Top(reported[j])
        /\ \A k \in 1 .. Linked :
             (~Usable(k) /\ reported[k].size > 0) =>
               ~(reported[i].base_addr <= reported[k].base_addr
                   /\ reported[k].base_addr < reported[j].base_addr)
  BY DEF Remains, Spanned
<1>2. /\ Linked \in Nat /\ Linked' \in Nat /\ Linked <= Linked'
      /\ \A k \in 1 .. Linked : reported'[k] = reported[k]
      /\ \A k \in 1 .. Linked' : reported'[k].base_addr \in Nat /\ reported'[k].size \in Nat
  BY DEF ReportsGrow
<1>3. /\ i \in 1 .. Linked' /\ j \in 1 .. Linked'
      /\ reported'[i] = reported[i] /\ reported'[j] = reported[j]
      /\ reported'[i].base_addr \in Nat /\ reported'[j].base_addr \in Nat
      /\ reported'[j].size \in Nat
  BY <1>2
<1>4. \A k \in 1 .. Linked : Usable(k)' <=> Usable(k)
  BY <1>2 DEF Usable, convert_type
<1>5. /\ m \in List /\ heap[m].base_addr \in Nat /\ End(heap, m) \in Nat
      /\ heap'[m].base_addr \in Nat /\ End(heap', m) \in Nat
      /\ heap[m].base_addr <= heap'[m].base_addr /\ End(heap', m) <= End(heap, m)
  BY Nodes, NodesNext, LiveClosed DEF Remains, List
<1>6. /\ reported'[i].base_addr <= heap'[m].base_addr
      /\ End(heap', m) <= Top(reported'[j])
  BY <1>1, <1>3, <1>5 DEF Top
<1>7. ASSUME NEW k \in 1 .. Linked', ~(Usable(k)'), reported'[k].size > 0,
             reported'[i].base_addr <= reported'[k].base_addr,
             reported'[k].base_addr < reported'[j].base_addr
      PROVE  FALSE
  <2>1. reported'[k].base_addr \in Nat
    BY <1>2
  <2>2. CASE k > Linked
    <3>1. reported[j].base_addr <= reported'[k].base_addr
      BY <1>7, <2>2 DEF ReportsGrow
    <3>2. QED
      BY <1>3, <1>7, <2>1, <3>1
  <2>3. CASE k \in 1 .. Linked
    <3>1. ~Usable(k) /\ reported'[k] = reported[k]
      BY <1>2, <1>4, <1>7, <2>3
    <3>2. QED
      BY <1>1, <1>3, <1>7, <2>3, <3>1
  <2>4. QED
    BY <1>2, <2>2, <2>3
<1>8. Usable(i)' /\ Usable(j)'
  BY <1>1, <1>4
<1>9. QED
  BY <1>1, <1>3, <1>6, <1>7, <1>8 DEF Spanned

\* What a step has to show to keep the contents of the list.
LEMMA ContentsCarries ==
  ASSUME SysInfoTypeOK, SysInfoTypeOK', ContentsInv, pc # "panic", ReportsGrow,
         \A n \in List : Carried(n),
         \A k \in 1 .. Linked' : (k > Linked /\ reported'[k].size > 0) => KeptAt(k)',
         \A m \in List' : heap'[m].type = SYSINFO_MT_USABLE => Remains(m) \/ Spanned(m)'
  PROVE  ContentsInv' /\ Carries
<1>1. \A k \in 1 .. Linked : KeptAt(k)
  BY DEF ContentsInv, Kept
<1>2. \A n \in List : heap[n].type = SYSINFO_MT_USABLE => Spanned(n)
  BY DEF ContentsInv, UsableSpanned
<1>3. \A k \in 1 .. Linked' : KeptAt(k)'
  BY <1>1, KeptCarries
<1>4. \A m \in List' : heap'[m].type = SYSINFO_MT_USABLE => Spanned(m)'
  BY <1>2, UsableCarries
<1>5. Kept'
  BY <1>3 DEF Kept
<1>6. UsableSpanned'
  BY <1>4 DEF UsableSpanned
<1>7. QED
  BY <1>5, <1>6 DEF ContentsInv, Carries

\* What the fields of a report are.
LEMMA ReportNumbers ==
  ASSUME SysInfoTypeOK
  PROVE  /\ Len(reported) \in Nat /\ count \in Nat /\ count <= Len(reported)
         /\ \A k \in 1 .. Len(reported) :
               reported[k].base_addr \in Nat /\ reported[k].size \in Nat
<1>1. reported \in Seq(E820Regions) /\ count \in Nat /\ count <= Len(reported)
  BY DEF SysInfoTypeOK
<1>2. \A r \in E820Regions : r.base_addr \in Nat /\ r.size \in Nat
  BY DEF E820Regions, Addresses
<1>3. \A k \in 1 .. Len(reported) : reported[k] \in E820Regions
  BY <1>1
<1>4. Len(reported) \in Nat
  BY <1>1
<1>5. QED
  BY <1>1, <1>2, <1>3, <1>4

\* The same after a step.
LEMMA ReportNumbersNext ==
  ASSUME SysInfoTypeOK'
  PROVE  /\ Len(reported') \in Nat /\ count' \in Nat /\ count' <= Len(reported')
         /\ \A k \in 1 .. Len(reported') :
               reported'[k].base_addr \in Nat /\ reported'[k].size \in Nat
<1>1. reported' \in Seq(E820Regions) /\ count' \in Nat /\ count' <= Len(reported')
  BY DEF SysInfoTypeOK
<1>2. \A r \in E820Regions : r.base_addr \in Nat /\ r.size \in Nat
  BY DEF E820Regions, Addresses
<1>3. \A k \in 1 .. Len(reported') : reported'[k] \in E820Regions
  BY <1>1
<1>4. Len(reported') \in Nat
  BY <1>1
<1>5. QED
  BY <1>1, <1>2, <1>3, <1>4

\* The reports are in order, so none begins before the ones that are in the list.
LEMMA InOrderGrows ==
  ASSUME SysInfoTypeOK, SysInfoTypeOK', InOrder', Linked \in Nat, Linked' \in Nat,
         Linked <= Linked', Linked' <= count', ret = "rsdp" => ret' = "rsdp",
         \A k \in 1 .. Linked : reported'[k] = reported[k]
  PROVE  ReportsGrow
<1>1. /\ Len(reported') \in Nat /\ count' \in Nat /\ count' <= Len(reported')
      /\ \A k \in 1 .. Len(reported') :
            reported'[k].base_addr \in Nat /\ reported'[k].size \in Nat
  BY ReportNumbersNext
<1>2. \A k \in 1 .. Linked' : k \in 1 .. Len(reported')
  BY <1>1
<1>3. ASSUME NEW k \in 1 .. Linked', NEW j \in 1 .. Linked, k > Linked
      PROVE  reported[j].base_addr <= reported'[k].base_addr
  <2>1. j \in 1 .. Len(reported') /\ k \in 1 .. Len(reported') /\ j < k
    BY <1>2, <1>3
  <2>2. Top(reported'[j]) <= reported'[k].base_addr
    BY <2>1 DEF InOrder
  <2>3. reported'[j].base_addr <= reported'[k].base_addr
    BY <1>1, <2>1, <2>2 DEF Top
  <2>4. QED
    BY <2>3
<1>4. QED
  BY <1>1, <1>2, <1>3 DEF ReportsGrow

\* A node that keeps its place and type carries what it covers.
LEMMA SameCarries ==
  ASSUME SysInfoTypeOK, NEW n \in List, n \in List', heap'[n].base_addr = heap[n].base_addr,
         heap'[n].size = heap[n].size, heap'[n].type = heap[n].type
  PROVE  Carried(n) /\ (heap'[n].type = SYSINFO_MT_USABLE => Remains(n))
<1>1. End(heap', n) = End(heap, n) /\ End(heap, n) \in Nat /\ heap[n].base_addr \in Nat
  BY Nodes DEF End
<1>2. QED
  BY <1>1 DEF Carried, Remains

-----------------------------------------------------------------------------
\* A step of the list while the map is read links the region that is being walked;
\* any other links none.
LEMMA ListStepGrows ==
  ASSUME SysInfoTypeOK, SysInfoTypeOK', OrderedInv, UNCHANGED sysinfoVars, ret' = ret,
         pc \in {"walk", "fix"}, pc = pc' \/ pc' # "walk"
  PROVE  /\ ReportsGrow
         /\ \A k \in 1 .. Linked' : k > Linked =>
               /\ k = count /\ count > 0 /\ pc = "walk" /\ ret = "e820"
               /\ Linked' = count /\ Linked = count - 1
<1>1. reported' = reported /\ count' = count
  BY DEF sysinfoVars
<1>2. InOrder'
  BY <1>1 DEF OrderedInv, InOrder
<1>3. count \in Nat /\ (pc = "walk" /\ ret = "e820" => count > 0)
  BY ReportNumbers DEF OrderedInv, Walking
<1>4. Linked = (IF pc = "walk" /\ ret = "e820" THEN count - 1 ELSE count)
  BY DEF Linked
<1>5. Linked' = (IF pc' = "walk" /\ ret = "e820" THEN count - 1 ELSE count)
  BY <1>1 DEF Linked
<1>6. Linked \in Nat /\ Linked' \in Nat /\ Linked <= Linked' /\ Linked' <= count'
  BY <1>1, <1>3, <1>4, <1>5
<1>7. ReportsGrow
  BY <1>1, <1>2, <1>6, InOrderGrows
<1>8. QED
  BY <1>3, <1>4, <1>5, <1>7

\* The region being linked says what the firmware said.
LEMMA NewNodeContents ==
  ASSUME SysInfoTypeOK, SysInfoTypeOK', OrderedInv, UNCHANGED sysinfoVars, ret' = ret,
         pc = "walk", ret = "e820", pc' # "walk", new_region \in List', new_region' = new_region,
         heap'[new_region].base_addr = heap[new_region].base_addr,
         heap'[new_region].size = heap[new_region].size,
         heap'[new_region].type = heap[new_region].type
  PROVE  /\ KeptAt(count)'
         /\ heap'[new_region].type = SYSINFO_MT_USABLE => Spanned(new_region)'
<1> DEFINE q == new_region
<1>1. reported' = reported /\ count' = count
  BY DEF sysinfoVars
<1>2. /\ count > 0 /\ heap[q].base_addr = reported[count].base_addr
      /\ heap[q].size = reported[count].size /\ heap[q].size > 0
      /\ heap[q].type = convert_type(reported[count].type)
  BY DEF OrderedInv, Walking
<1>3. count \in 1 .. Len(reported) /\ count \in Nat
  BY <1>2, ReportNumbers
<1>4. reported[count].base_addr \in Nat /\ reported[count].size \in Nat
  BY <1>3, ReportNumbers
<1>5. /\ heap'[q].base_addr = reported[count].base_addr
      /\ End(heap', q) = Top(reported[count])
  BY <1>2 DEF End, Top
<1>6. new_region' = new_region
  OBVIOUS
<1>7. KeptAt(count)'
  <2>1. SUFFICES ASSUME NEW a \in Addresses, Covers(reported[count], a)
                 PROVE  Listed(a, convert_type(reported[count].type))'
    BY <1>1 DEF KeptAt
  <2>2. a \in Nat /\ reported[count].base_addr <= a /\ a < Top(reported[count])
    BY <1>4, <2>1 DEF Covers, Top, Addresses
  <2>3. heap'[q].type = convert_type(reported'[count'].type)
    BY <1>1, <1>2
  <2>4. QED
    BY <1>5, <2>2, <2>3 DEF Listed
<1>8. ASSUME heap'[q].type = SYSINFO_MT_USABLE PROVE Spanned(q)'
  <2>1. Linked' = count /\ count \in 1 .. count
    BY <1>1, <1>3 DEF Linked
  <2>2. Usable(count)'
    BY <1>1, <1>2, <1>8 DEF Usable, convert_type
  <2>3. ASSUME NEW k \in 1 .. count,
               reported[count].base_addr <= reported[k].base_addr,
               reported[k].base_addr < reported[count].base_addr
        PROVE  FALSE
    <3>1. k \in 1 .. Len(reported)
      BY <1>3, ReportNumbers
    <3>2. reported[k].base_addr \in Nat
      BY <3>1, ReportNumbers
    <3>3. QED
      BY <1>4, <2>3, <3>2
  <2>4. \E i, j \in 1 .. Linked' :
          /\ Usable(i)' /\ reported'[i].size > 0 /\ reported'[i].base_addr <= heap'[q].base_addr
          /\ Usable(j)' /\ reported'[j].size > 0 /\ End(heap', q) <= Top(reported'[j])
          /\ \A k \in 1 .. Linked' :
               (~(Usable(k)') /\ reported'[k].size > 0) =>
                 ~(reported'[i].base_addr <= reported'[k].base_addr
                     /\ reported'[k].base_addr < reported'[j].base_addr)
    <3>1. reported'[count].size > 0 /\ reported'[count].base_addr <= heap'[q].base_addr
      BY <1>1, <1>2, <1>4, <1>5
    <3>2. End(heap', q) <= Top(reported'[count])
      <4>1. Top(reported[count]) \in Nat
        BY <1>4 DEF Top
      <4>2. QED
        BY <1>1, <1>5, <4>1
    <3>3. count \in 1 .. Linked'
      BY <2>1
    <3>4. QED
      BY <1>1, <2>1, <2>2, <2>3, <3>1, <3>2, <3>3
  <2>5. QED
    BY <1>6, <2>4 DEF Spanned
<1>9. QED
  BY <1>7, <1>8

\* A reported region is allocated: no node changes.
LEMMA NextRegionContents ==
  ASSUME SysInfoTypeOK, SysInfoTypeOK', OrderedMap, OrderedInv, ContentsInv,
         NEW r \in NextReports, NextRegion(r)
  PROVE  ContentsInv' /\ Carries
<1>1. /\ OrderedInv' /\ List' = List
      /\ \A n \in List : heap'[n] = heap[n]
  BY NextRegionOrdered
<1>2. /\ pc = "e820" /\ ret' = "e820" /\ count' = count + 1
      /\ reported' = Append(reported, r)
      /\ pc' = (IF convert_region(r).size = 0 THEN "e820" ELSE "walk")
  BY DEF NextRegion, CallInsert
<1>3. InOrder /\ InOrder' /\ ret = "e820" /\ count = Len(reported)
  BY <1>1, <1>2 DEF OrderedInv, BetweenReports, Appending
<1>4. /\ Len(reported) \in Nat /\ Len(reported') = Len(reported) + 1
      /\ \A k \in 1 .. Len(reported) : reported'[k] = reported[k]
      /\ reported'[Len(reported) + 1] = r
  BY <1>2, <1>3, ReportInOrder
<1>5. Linked = count /\ Linked' = (IF pc' = "walk" THEN count ELSE count + 1) /\ count \in Nat
  BY <1>2, <1>3, <1>4 DEF Linked
<1>6. ReportsGrow
  <2>1. Linked \in Nat /\ Linked' \in Nat /\ Linked <= Linked' /\ Linked' <= count'
    BY <1>2, <1>5
  <2>2. \A k \in 1 .. Linked : reported'[k] = reported[k]
    BY <1>3, <1>4, <1>5
  <2>3. QED
    BY <1>2, <1>3, <2>1, <2>2, InOrderGrows
<1>7. ASSUME NEW k \in 1 .. Linked', k > Linked PROVE ~(reported'[k].size > 0)
  <2>1. pc' # "walk" /\ k = Len(reported) + 1
    BY <1>3, <1>5, <1>7
  <2>2. r.size = 0
    BY <1>2, <2>1 DEF convert_region, Region
  <2>3. QED
    BY <1>4, <2>1, <2>2
<1>8. ASSUME NEW n \in List
      PROVE  Carried(n) /\ (heap'[n].type = SYSINFO_MT_USABLE => Remains(n))
  BY <1>1, SameCarries
<1>9. pc # "panic"
  BY <1>2
<1>10. QED
  BY <1>1, <1>6, <1>7, <1>8, <1>9, ContentsCarries

\* The walk to reserve the low memory begins, or the map was empty.
LEMMA AfterLoopContents ==
  ASSUME SysInfoTypeOK, SysInfoTypeOK', OrderedInv, InOrder', ContentsInv, pc = "e820", AfterLoop,
         count' = count, \A k \in 1 .. Len(reported) : reported'[k] = reported[k]
  PROVE  ContentsInv' /\ Carries
<1>1. CASE pc' = "panic"
  BY <1>1 DEF ContentsInv, Kept, UsableSpanned, Carries
<1>2. CASE pc' # "panic"
  <2>1. List' = List /\ \A n \in List : heap'[n] = heap[n]
    BY <1>2, AfterLoopOrdered
  <2>2. ret = "e820" /\ Linked = count /\ count \in Nat /\ count <= Len(reported)
    BY ReportNumbers DEF OrderedInv, BetweenReports, Linked
  <2>3. ret' = "rsdp" \/ pc' = "done"
    BY <1>2 DEF AfterLoop, NoRegions, ReserveLow, ReserveLowPanic, AllocPanic, CallInsert
  <2>4. Linked' = count
    BY <2>3 DEF Linked
  <2>5. ReportsGrow
    <3>1. Len(reported) \in Nat
      BY ReportNumbers
    <3>2. \A k \in 1 .. Linked : reported'[k] = reported[k]
      BY <2>2, <3>1
    <3>3. ret # "rsdp"
      BY <2>2
    <3>4. Linked \in Nat /\ Linked' \in Nat /\ Linked <= Linked' /\ Linked' <= count'
      BY <2>2, <2>4
    <3>5. QED
      BY <3>2, <3>3, <3>4, InOrderGrows
  <2>6. \A k \in 1 .. Linked' : ~(k > Linked)
    BY <2>2, <2>4
  <2>7. ASSUME NEW n \in List
        PROVE  Carried(n) /\ (heap'[n].type = SYSINFO_MT_USABLE => Remains(n))
    BY <2>1, SameCarries
  <2>8. pc # "panic"
    OBVIOUS
  <2>9. QED
    BY <2>1, <2>5, <2>6, <2>7, <2>8, ContentsCarries
<1>3. QED
  BY <1>1, <1>2

\* A step that leaves the list and the history alone.
LEMMA QuietContents ==
  ASSUME SysInfoTypeOK, SysInfoTypeOK', OrderedInv, ContentsInv, heap' = heap,
         mem_regions' = mem_regions, ret' = ret, reported' = reported, count' = count,
         pc # "panic", pc' = "walk" <=> pc = "walk"
  PROVE  ContentsInv' /\ Carries
<1>1. List' = List
  BY DEF List
<1>2. Linked' = Linked
  BY DEF Linked
<1>3. Linked \in Nat /\ Linked <= count
  BY ReportNumbers DEF OrderedInv, Walking, Linked
<1>4. InOrder'
  BY DEF OrderedInv, InOrder
<1>5. ReportsGrow
  BY <1>2, <1>3, <1>4, InOrderGrows
<1>6. ASSUME NEW n \in List
      PROVE  Carried(n) /\ (heap'[n].type = SYSINFO_MT_USABLE => Remains(n))
  BY <1>1, SameCarries
<1>7. \A k \in 1 .. Linked' : ~(k > Linked)
  BY <1>2, <1>3
<1>8. QED
  BY <1>1, <1>5, <1>6, <1>7, ContentsCarries

\* The first region of the list, or the low memory of an empty one.
LEMMA LinkFirstContents ==
  ASSUME SysInfoTypeOK, SysInfoTypeOK', OrderedInv, ContentsInv, LinkFirst, UNCHANGED sysinfoVars
  PROVE  ContentsInv' /\ Carries
<1>1. /\ List = {} /\ List' = {new_region}
      /\ heap'[new_region].base_addr = heap[new_region].base_addr
      /\ heap'[new_region].size = heap[new_region].size
      /\ heap'[new_region].type = heap[new_region].type
  BY LinkFirstOrdered
<1>2. pc = "walk" /\ pc' = ret /\ ret' = ret /\ new_region' = new_region
  BY DEF LinkFirst
<1>3. ret \in {"e820", "rsdp"}
  BY DEF SysInfoTypeOK
<1>4. /\ ReportsGrow
      /\ \A k \in 1 .. Linked' : k > Linked => k = count /\ ret = "e820"
  BY <1>2, <1>3, ListStepGrows
<1>5. CASE ret = "e820"
  <2>1. /\ KeptAt(count)'
        /\ heap'[new_region].type = SYSINFO_MT_USABLE => Spanned(new_region)'
    BY <1>1, <1>2, <1>5, NewNodeContents
  <2>2. count' = count
    BY DEF sysinfoVars
  <2>3. ASSUME NEW k \in 1 .. Linked', k > Linked PROVE KeptAt(k)'
    BY <1>4, <2>1, <2>2, <2>3
  <2>4. ASSUME NEW m \in List', heap'[m].type = SYSINFO_MT_USABLE PROVE Spanned(m)'
    <3>1. m = new_region'
      BY <1>1, <1>2
    <3>2. QED
      BY <1>1, <1>2, <2>1, <2>4, <3>1
  <2>5. QED
    BY <1>1, <1>2, <1>4, <2>3, <2>4, ContentsCarries
<1>6. CASE ret = "rsdp"
  <2>1. heap'[new_region].type # SYSINFO_MT_USABLE
    BY <1>1, <1>2, <1>6 DEF OrderedInv, WalkingLow, Reserved, Region, SYSINFO_MT_USABLE,
       SYSINFO_MT_RESERVED
  <2>2. QED
    BY <1>1, <1>2, <1>4, <1>6, <2>1, ContentsCarries
<1>7. QED
  BY <1>3, <1>5, <1>6

\* The low memory is put before the others.
LEMMA LinkHeadContents ==
  ASSUME SysInfoTypeOK, SysInfoTypeOK', OrderedInv, ContentsInv, LinkHead, UNCHANGED sysinfoVars
  PROVE  ContentsInv' /\ Carries
<1>1. /\ ret = "rsdp"
      /\ List' = List \cup {new_region} /\ heap'[new_region].type = SYSINFO_MT_RESERVED
      /\ \A n \in List : heap'[n] = heap[n]
  BY LinkHeadOrdered
<1>2. pc = "walk" /\ pc' = "fix" /\ ret' = ret
  BY DEF LinkHead, EnterFix
<1>3. /\ ReportsGrow
      /\ \A k \in 1 .. Linked' : ~(k > Linked)
  BY <1>1, <1>2, ListStepGrows
<1>4. ASSUME NEW n \in List
      PROVE  Carried(n) /\ (heap'[n].type = SYSINFO_MT_USABLE => Remains(n))
  BY <1>1, SameCarries
<1>5. SYSINFO_MT_USABLE # SYSINFO_MT_RESERVED
  BY DEF SYSINFO_MT_USABLE, SYSINFO_MT_RESERVED
<1>6. \A m \in List' : heap'[m].type = SYSINFO_MT_USABLE => Remains(m)
  BY <1>1, <1>4, <1>5
<1>7. QED
  BY <1>2, <1>3, <1>4, <1>6, ContentsCarries

\* The new region says what the firmware said.
LEMMA LinkAfterContents ==
  ASSUME SysInfoTypeOK, SysInfoTypeOK', OrderedInv, ContentsInv, LinkAfter, UNCHANGED sysinfoVars
  PROVE  ContentsInv' /\ Carries
<1>1. /\ ret = "e820" /\ List' = List \cup {new_region}
      /\ \A n \in List' : /\ heap'[n].base_addr = heap[n].base_addr
                          /\ heap'[n].size = heap[n].size /\ heap'[n].type = heap[n].type
  BY LinkAfterOrdered
<1>2. pc = "walk" /\ pc' = "fix" /\ ret' = ret /\ new_region' = new_region
  BY DEF LinkAfter, EnterFix
<1>3. /\ ReportsGrow
      /\ \A k \in 1 .. Linked' : k > Linked => k = count
  BY <1>2, ListStepGrows
<1>4. /\ KeptAt(count)'
      /\ heap'[new_region].type = SYSINFO_MT_USABLE => Spanned(new_region)'
  BY <1>1, <1>2, NewNodeContents
<1>5. count' = count
  BY DEF sysinfoVars
<1>6. ASSUME NEW k \in 1 .. Linked', k > Linked PROVE KeptAt(k)'
  BY <1>3, <1>4, <1>5, <1>6
<1>7. ASSUME NEW n \in List
      PROVE  Carried(n) /\ (heap'[n].type = SYSINFO_MT_USABLE => Remains(n))
  BY <1>1, SameCarries
<1>8. ASSUME NEW m \in List', heap'[m].type = SYSINFO_MT_USABLE PROVE Remains(m) \/ Spanned(m)'
  <2>1. CASE m \in List
    BY <1>7, <1>8, <2>1
  <2>2. CASE m = new_region'
    BY <1>2, <1>4, <1>8, <2>2
  <2>3. QED
    BY <1>1, <1>2, <2>1, <2>2
<1>9. QED
  BY <1>2, <1>3, <1>6, <1>7, <1>8, ContentsCarries

-----------------------------------------------------------------------------
(* The contents while a node is repaired *)

\* A step of fix_right links no report.
LEMMA FixGrows ==
  ASSUME SysInfoTypeOK, SysInfoTypeOK', OrderedInv, UNCHANGED sysinfoVars, ret' = ret,
         pc = "fix", pc' # "walk"
  PROVE  ReportsGrow /\ \A k \in 1 .. Linked' : ~(k > Linked)
BY ListStepGrows

\* What a repair has to show of the nodes.
LEMMA RepairContents ==
  ASSUME SysInfoTypeOK, SysInfoTypeOK', OrderedInv, ContentsInv, UNCHANGED sysinfoVars,
         ret' = ret, pc = "fix", pc' # "walk",
         \A n \in List : Carried(n),
         \A m \in List' : heap'[m].type = SYSINFO_MT_USABLE => Remains(m) \/ Spanned(m)'
  PROVE  ContentsInv' /\ Carries
BY FixGrows, ContentsCarries

\* The end of a repair.
LEMMA ReturnControl ==
  ASSUME SysInfoTypeOK, pc = "fix", Return
  PROVE  /\ ret' = ret /\ pc' # "walk" /\ mem_regions' = mem_regions
         /\ new_region' = new_region
BY DEF Return, EnterFix, FixUnchanged, SysInfoTypeOK

\* A reserved region is extended to the left.
LEMMA LastExtendContents ==
  ASSUME SysInfoTypeOK, SysInfoTypeOK', OrderedInv, ContentsInv, UNCHANGED sysinfoVars,
         pc = "fix", ret = "e820", this_region = prev, ExtendReserved
  PROVE  ContentsInv' /\ Carries
<1>1. /\ List' = List
      /\ heap[new_region].type = SYSINFO_MT_RESERVED
      /\ heap'[new_region].base_addr <= heap[new_region].base_addr
      /\ \A n \in List : End(heap', n) = End(heap, n) /\ heap'[n].type = heap[n].type
      /\ \A n \in List : n # new_region => heap'[n].base_addr = heap[n].base_addr
  BY LastExtendOrdered
<1>2. Return
  BY DEF ExtendReserved
<1>3. ASSUME NEW n \in List PROVE Carried(n)
  <2>1. End(heap, n) \in Nat /\ heap[n].base_addr \in Nat
    BY Nodes
  <2>2. heap'[n].base_addr <= heap[n].base_addr
    BY <1>1, <2>1
  <2>3. QED
    BY <1>1, <2>1, <2>2 DEF Carried
<1>4. ASSUME NEW m \in List', heap'[m].type = SYSINFO_MT_USABLE PROVE Remains(m)
  <2>1. m \in List /\ heap[m].type = SYSINFO_MT_USABLE
    BY <1>1, <1>4
  <2>2. m # new_region
    BY <1>1, <2>1 DEF SYSINFO_MT_USABLE, SYSINFO_MT_RESERVED
  <2>3. End(heap, m) \in Nat /\ heap[m].base_addr \in Nat
    BY <2>1, Nodes
  <2>4. QED
    BY <1>1, <2>1, <2>2, <2>3 DEF Remains
<1>5. QED
  BY <1>2, <1>3, <1>4, ReturnControl, RepairContents

\* A padding node is added and the others stay.
LEMMA PadContents ==
  ASSUME SysInfoTypeOK, SysInfoTypeOK', OrderedInv, ContentsInv, UNCHANGED sysinfoVars,
         pc = "fix", Return, NEW q,
         List' = List \cup {q}, heap'[q].type = SYSINFO_MT_RESERVED,
         \A n \in List : /\ heap'[n].base_addr = heap[n].base_addr /\ heap'[n].size = heap[n].size
                         /\ heap'[n].type = heap[n].type
  PROVE  ContentsInv' /\ Carries
<1>1. ASSUME NEW n \in List
      PROVE  Carried(n) /\ (heap'[n].type = SYSINFO_MT_USABLE => Remains(n))
  BY SameCarries
<1>2. \A m \in List' : heap'[m].type = SYSINFO_MT_USABLE => Remains(m)
  BY <1>1 DEF SYSINFO_MT_USABLE, SYSINFO_MT_RESERVED
<1>3. QED
  BY <1>1, <1>2, ReturnControl, RepairContents

\* Nothing was reported between the two regions that are merged.
LEMMA MergedIsSpanned ==
  ASSUME SysInfoTypeOK, OrderedInv, ContentsInv,
         pc = "fix", ret = "e820", this_region = prev,
         heap[prev].type = SYSINFO_MT_USABLE, heap[new_region].type = SYSINFO_MT_USABLE
  PROVE  \E i \in 1 .. Linked :
           /\ Usable(i) /\ reported[i].size > 0 /\ reported[i].base_addr <= heap[prev].base_addr
           /\ \A k \in 1 .. Linked :
                (~Usable(k) /\ reported[k].size > 0) =>
                  ~(reported[i].base_addr <= reported[k].base_addr
                      /\ reported[k].base_addr < reported[count].base_addr)
<1>1. /\ heap[prev].next = new_region /\ heap[new_region].next = NULL
      /\ prev \in List /\ new_region \in List /\ prev # new_region
      /\ End(heap, prev) <= heap[new_region].base_addr
  BY LastRepairPlace
<1>2. /\ Linked = count /\ count > 0 /\ count = Len(reported) /\ count \in Nat
      /\ Chain(heap, mem_regions, List)
  BY <1>1, RepairPlace
<1>3. heap[new_region].base_addr = reported[count].base_addr
  BY DEF OrderedInv, Repairing
<1>4. PICK i \in 1 .. Linked, j \in 1 .. Linked :
        /\ Usable(i) /\ reported[i].size > 0 /\ reported[i].base_addr <= heap[prev].base_addr
        /\ Usable(j) /\ reported[j].size > 0 /\ End(heap, prev) <= Top(reported[j])
        /\ \A k \in 1 .. Linked :
             (~Usable(k) /\ reported[k].size > 0) =>
               ~(reported[i].base_addr <= reported[k].base_addr
                   /\ reported[k].base_addr < reported[j].base_addr)
  BY <1>1 DEF ContentsInv, UsableSpanned, Spanned
<1>5. SUFFICES ASSUME NEW k \in 1 .. Linked, ~Usable(k), reported[k].size > 0,
                      reported[i].base_addr <= reported[k].base_addr,
                      reported[k].base_addr < reported[count].base_addr
               PROVE  FALSE
  BY <1>4
<1>6. \A x \in 1 .. count : /\ reported[x].base_addr \in Nat /\ reported[x].size \in Nat
                            /\ Top(reported[x]) \in Nat
                            /\ Top(reported[x]) = reported[x].base_addr + reported[x].size
  BY <1>2, ReportNumbers DEF Top
<1>7. /\ i \in 1 .. count /\ j \in 1 .. count /\ k \in 1 .. count /\ count \in 1 .. count
  BY <1>2
<1>8. \A x, y \in 1 .. count : x < y => Top(reported[x]) <= reported[y].base_addr
  BY <1>2 DEF OrderedInv, InOrder
<1>9. Top(reported[j]) <= reported[k].base_addr
  <2>1. ~(reported[k].base_addr < reported[j].base_addr)
    BY <1>4, <1>5
  <2>2. j # k
    BY <1>4, <1>5
  <2>3. ~(k < j)
    BY <1>5, <1>6, <1>7, <1>8, <2>1
  <2>4. j < k
    BY <1>2, <1>7, <2>2, <2>3
  <2>5. QED
    BY <1>7, <1>8, <2>4
<1>10. PICK n \in List : /\ heap[n].base_addr <= reported[k].base_addr
                         /\ reported[k].base_addr < End(heap, n)
                         /\ heap[n].type = convert_type(reported[k].type)
  <2>1. KeptAt(k)
    BY DEF ContentsInv, Kept
  <2>2. Top(reported[k]) < ADDR_MOD
    BY <1>2, <1>7 DEF OrderedInv, InOrder
  <2>3. reported[k].base_addr \in Addresses /\ Covers(reported[k], reported[k].base_addr)
    BY <1>5, <1>6, <1>7, <2>2, AddrModAssumption DEF Addresses, Covers
  <2>4. QED
    BY <2>1, <2>3 DEF KeptAt, Listed
<1>11. /\ heap[n].base_addr \in Nat /\ End(heap, n) \in Nat /\ End(heap, prev) \in Nat
       /\ heap[prev].base_addr \in Nat /\ heap[new_region].base_addr \in Nat
       /\ heap[prev].base_addr <= End(heap, prev)
  <2>1. \A m \in List : heap[m].base_addr \in Nat /\ heap[m].size \in Nat /\ End(heap, m) \in Nat
    BY Nodes
  <2>2. QED
    BY <1>1, <2>1 DEF End
<1>12. n # prev
  BY <1>4, <1>6, <1>7, <1>9, <1>10, <1>11
<1>13. n # new_region
  BY <1>3, <1>5, <1>6, <1>7, <1>10, <1>11
<1>14. heap[n].next # NULL
  <2>1. heap[n].next # heap[new_region].next
    <3>1. \A x \in List : heap[x].base_addr \in Nat /\ heap[x].size \in Nat
      BY Nodes
    <3>2. Chain(heap, mem_regions, List) /\ n \in List /\ new_region \in List
      BY <1>1, <1>2
    <3>3. SUFFICES ASSUME heap[n].next = heap[new_region].next PROVE n = new_region
      BY <1>13
    <3>4. QED
      BY <3>1, <3>2, <3>3, NextInjective
  <2>2. QED
    BY <1>1, <2>1
<1>15. End(heap, n) <= heap[prev].base_addr
  <2>1. CASE heap[n].base_addr < heap[prev].base_addr
    <3>1. /\ heap[n].next \in List /\ End(heap, n) <= heap[heap[n].next].base_addr
          /\ heap[heap[n].next].base_addr <= heap[prev].base_addr
      BY <1>1, <1>2, <1>14, <2>1 DEF Chain
    <3>2. heap[heap[n].next].base_addr \in Nat
      BY <3>1, Nodes
    <3>3. QED
      BY <1>11, <3>1, <3>2
  <2>2. CASE heap[prev].base_addr < heap[n].base_addr
    <3>1. heap[heap[prev].next].base_addr <= heap[n].base_addr
      BY <1>1, <1>2, <2>2 DEF Chain
    <3>2. heap[new_region].base_addr <= reported[k].base_addr
      BY <1>1, <1>6, <1>7, <1>10, <1>11, <3>1
    <3>3. QED
      BY <1>3, <1>5, <1>6, <1>7, <3>2
  <2>3. CASE heap[prev].base_addr = heap[n].base_addr
    BY <1>1, <1>2, <1>12, <2>3 DEF Chain
  <2>4. QED
    BY <1>11, <2>1, <2>2, <2>3
<1>16. End(heap, prev) <= reported[k].base_addr
  BY <1>4, <1>6, <1>7, <1>9, <1>11
<1>17. QED
  BY <1>6, <1>7, <1>10, <1>11, <1>15, <1>16

\* The merged node covers both regions, and what lies between them.
LEMMA LastMergeContents ==
  ASSUME SysInfoTypeOK, SysInfoTypeOK', OrderedInv, ContentsInv, UNCHANGED sysinfoVars,
         pc = "fix", ret = "e820", this_region = prev, MergeRight
  PROVE  ContentsInv' /\ Carries
<1>1. /\ List' = List \ {new_region} /\ End(heap', prev) = End(heap, new_region)
      /\ \A n \in List' : heap'[n].base_addr = heap[n].base_addr /\ heap'[n].type = heap[n].type
      /\ \A n \in List' : n # prev => heap'[n].size = heap[n].size
      /\ heap[prev].type = heap[new_region].type
  BY LastMergeOrdered
<1>2. /\ prev \in List /\ new_region \in List /\ prev # new_region
      /\ End(heap, prev) <= heap[new_region].base_addr
      /\ End(heap, new_region) = Top(reported[count])
  BY LastRepairPlace
<1>3. Return
  BY DEF MergeRight
<1>4. /\ ret' = ret /\ pc' # "walk" /\ reported' = reported /\ count' = count
      /\ prev' = prev
  BY <1>3, ReturnControl DEF sysinfoVars, Return, FixUnchanged
<1>5. \A n \in List : /\ heap[n].base_addr \in Nat /\ heap[n].size \in Nat
                       /\ End(heap, n) \in Nat /\ heap[n].base_addr <= End(heap, n)
  <2>1. \A n \in List : /\ heap[n].base_addr \in Nat /\ heap[n].size \in Nat
    BY Nodes
  <2>2. QED
    BY <2>1 DEF End
<1>6. prev \in List' /\ heap'[prev].base_addr = heap[prev].base_addr
      /\ heap'[prev].type = heap[prev].type
  BY <1>1, <1>2
<1>7. End(heap, prev) <= End(heap, new_region) /\ heap[prev].base_addr <= heap[new_region].base_addr
  BY <1>2, <1>5
<1>8. ASSUME NEW n \in List PROVE Carried(n)
  <2>1. CASE n = prev
    BY <1>1, <1>2, <1>5, <1>6, <1>7, <2>1 DEF Carried
  <2>2. CASE n = new_region
    BY <1>1, <1>2, <1>5, <1>6, <1>7, <2>2 DEF Carried
  <2>3. CASE n # prev /\ n # new_region
    <3>1. n \in List' /\ heap'[n].base_addr = heap[n].base_addr /\ heap'[n].size = heap[n].size
          /\ heap'[n].type = heap[n].type
      BY <1>1, <2>3
    <3>2. QED
      BY <3>1, SameCarries
  <2>4. QED
    BY <2>1, <2>2, <2>3
<1>9. ASSUME heap'[prev].type = SYSINFO_MT_USABLE
      PROVE  \A p \in {prev} : Spanned(p)'
  <2>1. heap[prev].type = SYSINFO_MT_USABLE /\ heap[new_region].type = SYSINFO_MT_USABLE
    BY <1>1, <1>6, <1>9
  <2>2. PICK i \in 1 .. Linked :
           /\ Usable(i) /\ reported[i].size > 0 /\ reported[i].base_addr <= heap[prev].base_addr
           /\ \A k \in 1 .. Linked :
                (~Usable(k) /\ reported[k].size > 0) =>
                  ~(reported[i].base_addr <= reported[k].base_addr
                      /\ reported[k].base_addr < reported[count].base_addr)
    BY <2>1, MergedIsSpanned
  <2>3. /\ Linked = count /\ count > 0 /\ count \in Nat /\ count = Len(reported)
        /\ Linked' = count
    BY <1>4, RepairPlace DEF Linked
  <2>4. heap[new_region].type = convert_type(reported[count].type)
        /\ heap[new_region].base_addr = reported[count].base_addr
    BY DEF OrderedInv, Repairing
  <2>5. \A k \in 1 .. Linked : Usable(k)' <=> Usable(k)
    BY <1>4 DEF Usable, convert_type
  <2>6. count \in 1 .. Linked' /\ Usable(count)
    BY <2>1, <2>3, <2>4 DEF Usable
  <2>7. reported[count].size > 0
    <3>1. Whole(heap, new_region)
      BY <1>2, RepairPlace DEF Chain
    <3>2. reported[count].size \in Nat /\ reported[count].base_addr \in Nat
      BY <2>3, ReportNumbers
    <3>3. QED
      BY <1>2, <1>5, <2>4, <3>1, <3>2 DEF Whole, End, Top
  <2>8. End(heap', prev) <= Top(reported[count])
    BY <1>1, <1>2, <1>5
  <2>9. reported[i].base_addr <= heap'[prev].base_addr
    BY <1>6, <2>2
  <2>10. \A p \in {prev} :
          \E x, y \in 1 .. Linked' :
          /\ Usable(x)' /\ reported'[x].size > 0 /\ reported'[x].base_addr <= heap'[p].base_addr
          /\ Usable(y)' /\ reported'[y].size > 0 /\ End(heap', p) <= Top(reported'[y])
          /\ \A k \in 1 .. Linked' :
               (~(Usable(k)') /\ reported'[k].size > 0) =>
                 ~(reported'[x].base_addr <= reported'[k].base_addr
                     /\ reported'[k].base_addr < reported'[y].base_addr)
    <3>1. i \in 1 .. Linked' /\ Usable(i)' /\ \A y \in {count} : Usable(y)'
      BY <2>2, <2>3, <2>5, <2>6
    <3>2. QED
      BY <1>4, <2>2, <2>3, <2>5, <2>6, <2>7, <2>8, <2>9, <3>1
  <2>11. QED
    BY <2>10 DEF Spanned
<1>10. ASSUME NEW m \in List', heap'[m].type = SYSINFO_MT_USABLE PROVE Remains(m) \/ Spanned(m)'
  <2>1. CASE m = prev
    BY <1>9, <1>10, <2>1
  <2>2. CASE m # prev
    <3>1. m \in List /\ heap'[m].base_addr = heap[m].base_addr /\ heap'[m].size = heap[m].size
          /\ heap'[m].type = heap[m].type
      BY <1>1, <2>2
    <3>2. QED
      BY <1>10, <3>1, SameCarries
  <2>3. QED
    BY <2>1, <2>2
<1>11. QED
  BY <1>3, <1>8, <1>10, ReturnControl, RepairContents

-----------------------------------------------------------------------------
(* The low memory *)

\* What is dropped lay in the low memory.
LEMMA LowDropContents ==
  ASSUME SysInfoTypeOK, SysInfoTypeOK', OrderedInv, ContentsInv, UNCHANGED sysinfoVars,
         pc = "fix", ret = "rsdp", DropNext
  PROVE  ContentsInv' /\ Carries
<1>1. /\ next_region \in Rest /\ End(heap, next_region) <= REAL_MODE_LIMIT
      /\ List' = List \ {next_region}
      /\ \A n \in List : /\ heap'[n].base_addr = heap[n].base_addr
                          /\ heap'[n].size = heap[n].size /\ heap'[n].type = heap[n].type
  BY LowDropOrdered
<1>2. ret' = ret /\ pc' = pc
  BY DEF DropNext, FixUnchanged
<1>3. ASSUME NEW n \in List PROVE Carried(n)
  <2>1. CASE n = next_region
    BY <1>1, <1>2, <2>1 DEF Carried
  <2>2. CASE n # next_region
    BY <1>1, <2>2, SameCarries
  <2>3. QED
    BY <2>1, <2>2
<1>4. \A m \in List' : heap'[m].type = SYSINFO_MT_USABLE => Remains(m)
  BY <1>1, SameCarries
<1>5. QED
  BY <1>2, <1>3, <1>4, RepairContents

\* What is trimmed lies in the low memory.
LEMMA LowTrimContents ==
  ASSUME SysInfoTypeOK, SysInfoTypeOK', OrderedInv, ContentsInv, UNCHANGED sysinfoVars,
         pc = "fix", ret = "rsdp", TrimNext
  PROVE  ContentsInv' /\ Carries
<1>1. /\ List' = List
      /\ \A n \in List : heap'[n].type = heap[n].type /\ End(heap', n) = End(heap, n)
      /\ \A n \in List : n # next_region => heap'[n].base_addr = heap[n].base_addr
      /\ heap'[next_region].base_addr = REAL_MODE_LIMIT
      /\ heap[next_region].base_addr < REAL_MODE_LIMIT
  BY LowTrimOrdered
<1>2. ret' = ret /\ pc' = pc
  BY DEF TrimNext, FixUnchanged
<1>3. \A n \in List : End(heap, n) \in Nat /\ heap[n].base_addr \in Nat
  BY Nodes
<1>4. REAL_MODE_LIMIT \in Nat
  BY LowPlace
<1>5. ASSUME NEW n \in List PROVE Carried(n) /\ (heap'[n].type = SYSINFO_MT_USABLE => Remains(n))
  <2>1. CASE n = next_region
    BY <1>1, <1>2, <1>3, <1>4, <2>1 DEF Carried, Remains
  <2>2. CASE n # next_region
    BY <1>1, <1>3, <2>2 DEF Carried, Remains
  <2>3. QED
    BY <2>1, <2>2
<1>6. QED
  BY <1>1, <1>2, <1>5, RepairContents

\* The merged node covers the low memory and the reserved region.
LEMMA LowMergeContents ==
  ASSUME SysInfoTypeOK, SysInfoTypeOK', OrderedInv, ContentsInv, UNCHANGED sysinfoVars,
         pc = "fix", ret = "rsdp", MergeRight
  PROVE  ContentsInv' /\ Carries
<1>1. /\ next_region \in Rest
      /\ List' = List \ {next_region}
      /\ heap[next_region].type = SYSINFO_MT_RESERVED
      /\ \A n \in List' : heap'[n].base_addr = heap[n].base_addr /\ heap'[n].type = heap[n].type
      /\ \A n \in List' : n # mem_regions => heap'[n].size = heap[n].size
      /\ End(heap', mem_regions) = End(heap, next_region)
  BY LowMergeOrdered
<1>2. /\ mem_regions \in List /\ mem_regions # next_region /\ next_region \in List
      /\ heap[mem_regions].base_addr = 0 /\ heap[mem_regions].type = SYSINFO_MT_RESERVED
      /\ End(heap, mem_regions) = REAL_MODE_LIMIT /\ REAL_MODE_LIMIT \in Nat
      /\ limit_right = REAL_MODE_LIMIT
  BY <1>1, LowPlace
<1>3. Return
  BY DEF MergeRight
<1>4. /\ heap[next_region].base_addr \in Nat /\ heap[next_region].size \in Nat
      /\ End(heap, next_region) \in Nat /\ heap[next_region].base_addr <= End(heap, next_region)
  <2>1. heap[next_region].base_addr \in Nat /\ heap[next_region].size \in Nat
    BY <1>2, Nodes
  <2>2. QED
    BY <2>1 DEF End
<1>5. REAL_MODE_LIMIT <= End(heap, next_region)
  <2>1. ~(limit_right > heap[next_region].base_addr)
    BY DEF MergeRight, LoopOver, Overlapping
  <2>2. QED
    BY <1>2, <1>4, <2>1
<1>6. /\ mem_regions \in List' /\ heap'[mem_regions].base_addr = 0
      /\ heap'[mem_regions].type = SYSINFO_MT_RESERVED
  BY <1>1, <1>2
<1>7. ASSUME NEW n \in List PROVE Carried(n)
  <2>1. CASE n = next_region
    BY <1>1, <1>4, <1>6, <2>1 DEF Carried
  <2>2. CASE n = mem_regions
    BY <1>1, <1>2, <1>4, <1>5, <1>6, <2>2 DEF Carried
  <2>3. CASE n # next_region /\ n # mem_regions
    <3>1. n \in List' /\ heap'[n].base_addr = heap[n].base_addr /\ heap'[n].size = heap[n].size
          /\ heap'[n].type = heap[n].type
      BY <1>1, <2>3
    <3>2. QED
      BY <3>1, SameCarries
  <2>4. QED
    BY <2>1, <2>2, <2>3
<1>8. ASSUME NEW m \in List', heap'[m].type = SYSINFO_MT_USABLE PROVE Remains(m)
  <2>1. m # mem_regions
    BY <1>6, <1>8 DEF SYSINFO_MT_USABLE, SYSINFO_MT_RESERVED
  <2>2. m \in List /\ heap'[m].base_addr = heap[m].base_addr /\ heap'[m].size = heap[m].size
        /\ heap'[m].type = heap[m].type
    BY <1>1, <2>1
  <2>3. QED
    BY <1>8, <2>2, SameCarries
<1>9. QED
  BY <1>3, <1>7, <1>8, ReturnControl, RepairContents

-----------------------------------------------------------------------------
\* Every step of fix_right keeps the contents.
LEMMA FixContents ==
  ASSUME SysInfoTypeOK, SysInfoTypeOK', OrderedInv, ContentsInv, UNCHANGED sysinfoVars, FixRight
  PROVE  ContentsInv' /\ Carries
<1>1. pc = "fix"
  BY DEF FixRight, DropNext, TrimNext, CutThis, SplitThis, SplitPanic, MergeRight,
         ExtendReserved, PadGap, PadPanic, NoPadding, Overlapping, LoopOver
<1>2. CASE PadPanic
  BY <1>2 DEF PadPanic, AllocPanic, ContentsInv, Kept, UsableSpanned, Carries
<1>3. ret \in {"e820", "rsdp"}
  BY DEF SysInfoTypeOK
<1>4. MergeRight \/ ExtendReserved \/ PadGap \/ NoPadding => Return
  BY DEF MergeRight, ExtendReserved, PadGap, NoPadding
<1>5. ASSUME heap' = heap, Return PROVE ContentsInv' /\ Carries
  <2>1. /\ ret' = ret /\ pc' # "walk" /\ mem_regions' = mem_regions
    BY <1>1, <1>5, ReturnControl
  <2>2. reported' = reported /\ count' = count
    BY DEF sysinfoVars
  <2>3. QED
    BY <1>1, <1>5, <2>1, <2>2, QuietContents
<1>6. CASE ret = "e820" /\ ~PadPanic
  <2>1. ~Overlapping
    BY <1>1, <1>6, RepairPlace
  <2>2. MergeRight \/ ExtendReserved \/ PadGap \/ NoPadding
    BY <1>6, <2>1 DEF FixRight, DropNext, TrimNext, CutThis, SplitThis, SplitPanic
  <2>3. CASE this_region # prev
    BY <1>1, <1>4, <1>5, <1>6, <2>2, <2>3, FirstRepair
  <2>4. CASE this_region = prev /\ PadGap
    <3>1. PICK q : q = Len(heap) + 1
      OBVIOUS
    <3>2. QED
      BY <1>1, <1>4, <1>6, <2>4, <3>1, LastPadOrdered, PadContents
  <2>5. CASE this_region = prev /\ NoPadding
    BY <1>1, <1>4, <1>5, <1>6, <2>5, LastNoPaddingOrdered
  <2>6. CASE this_region = prev /\ (MergeRight \/ ExtendReserved)
    BY <1>1, <1>6, <2>6, LastMergeContents, LastExtendContents
  <2>7. QED
    BY <2>2, <2>3, <2>4, <2>5, <2>6
<1>7. CASE ret = "rsdp" /\ ~PadPanic
  <2>1. DropNext \/ TrimNext \/ MergeRight \/ PadGap \/ NoPadding
    BY <1>1, <1>7, LowNever DEF FixRight
  <2>2. CASE PadGap
    <3>1. PICK q : q = Len(heap) + 1
      OBVIOUS
    <3>2. QED
      BY <1>1, <1>4, <1>7, <2>2, <3>1, LowPadOrdered, PadContents
  <2>3. CASE NoPadding
    BY <1>1, <1>4, <1>5, <1>7, <2>3, LowNoPaddingOrdered
  <2>4. CASE DropNext \/ TrimNext \/ MergeRight
    BY <1>1, <1>7, <2>4, LowDropContents, LowTrimContents, LowMergeContents
  <2>5. QED
    BY <2>1, <2>2, <2>3, <2>4
<1>8. QED
  BY <1>2, <1>3, <1>6, <1>7

\* Nothing is reported yet.
LEMMA InitContents == SysInfoInit => ContentsInv
<1> SUFFICES ASSUME SysInfoInit PROVE ContentsInv
  OBVIOUS
<1>1. HeapOK(heap) /\ Len(heap) = 0 /\ mem_regions \in 0 .. Len(heap)
  BY MaxRegionsAssumption DEF SysInfoInit, ListInit, HeapOK, NULL
<1>2. List \subseteq 1 .. 0
  BY <1>1, LiveClosed DEF List
<1>3. \A n \in List : FALSE
  BY <1>2
<1>4. Linked = 0
  BY DEF SysInfoInit, Linked
<1>5. QED
  BY <1>3, <1>4 DEF ContentsInv, Kept, UsableSpanned

\* Every step keeps the contents, and carries what the list says.
LEMMA NextContents ==
  ASSUME SysInfoTypeOK, SysInfoTypeOK', OrderedMap, OrderedInv, OrderedInv', ContentsInv,
         [SysInfoNext]_vars
  PROVE  ContentsInv' /\ Carries
<1>0. InOrder'
  BY DEF OrderedInv
<1>1. ASSUME NEW r \in NextReports, NextRegion(r) PROVE ContentsInv' /\ Carries
  BY <1>1, NextRegionContents
<1>2. ASSUME NEW r \in NextReports, NextRegionPanic(r) PROVE ContentsInv' /\ Carries
  BY <1>2 DEF NextRegionPanic, AllocPanic, ContentsInv, Kept, UsableSpanned, Carries
<1>3. ASSUME NEW r \in NextReports, LastRegion(r) PROVE ContentsInv' /\ Carries
  <2>1. reported' = Append(reported, r) /\ pc = "e820" /\ AfterLoop /\ count' = count
    BY <1>3 DEF LastRegion
  <2>2. \A k \in 1 .. Len(reported) : reported'[k] = reported[k]
    BY <2>1, ReportInOrder DEF OrderedInv
  <2>3. QED
    BY <1>0, <2>1, <2>2, AfterLoopContents
<1>4. CASE NoMoreRegions
  <2>1. reported' = reported /\ pc = "e820" /\ AfterLoop /\ count' = count
    BY <1>4 DEF NoMoreRegions
  <2>2. QED
    BY <1>0, <2>1, AfterLoopContents
<1>5. CASE SearchRsdp
  <2>1. /\ heap' = heap /\ mem_regions' = mem_regions /\ ret' = ret /\ reported' = reported
        /\ count' = count /\ pc = "rsdp" /\ pc' = "done"
    BY <1>5 DEF SearchRsdp, ListUnchanged
  <2>2. QED
    BY <2>1, QuietContents
<1>6. CASE ListStep
  <2>1. InsertSorted /\ UNCHANGED sysinfoVars
    BY <1>6 DEF ListStep
  <2>2. CASE Walk
    <3>1. /\ heap' = heap /\ mem_regions' = mem_regions /\ ret' = ret /\ reported' = reported
          /\ count' = count /\ pc = "walk" /\ pc' = "walk"
      BY <2>1, <2>2 DEF Walk, sysinfoVars
    <3>2. QED
      BY <3>1, QuietContents
  <2>3. QED
    BY <2>1, <2>2, LinkFirstContents, LinkHeadContents, LinkAfterContents, FixContents
       DEF InsertSorted
<1>7. CASE UNCHANGED vars
  <2>1. /\ heap' = heap /\ mem_regions' = mem_regions /\ pc' = pc /\ ret' = ret
        /\ reported' = reported /\ count' = count
    BY <1>7 DEF vars, listVars, sysinfoVars
  <2>2. CASE pc = "panic"
    BY <2>1, <2>2 DEF ContentsInv, Kept, UsableSpanned, Carries
  <2>3. CASE pc # "panic"
    BY <2>1, <2>3, QuietContents
  <2>4. QED
    BY <2>2, <2>3
<1>8. QED
  BY <1>1, <1>2, <1>3, <1>4, <1>5, <1>6, <1>7 DEF SysInfoNext

\* The inductive invariant: of a map in order and without overlaps insert_sorted makes a
\* chain of bordering regions that says what the firmware said.
THEOREM OrderedMapInvariant ==
  ASSUME OrderedMap
  PROVE  Spec => [](OrderedInv /\ ContentsInv)
<1>1. SysInfoInit => OrderedInv /\ ContentsInv
  BY InitOrdered, InitContents
<1>2. SysInfoTypeOK /\ SysInfoTypeOK' /\ (OrderedInv /\ ContentsInv) /\ [SysInfoNext]_vars
        => (OrderedInv /\ ContentsInv)'
  BY NextOrdered, NextContents
<1>3. QED
  BY <1>1, <1>2, SysInfoTypeCorrect, PTL DEF Spec

-----------------------------------------------------------------------------
(* What the invariant says of the list *)

\* Between two insertions the list is a chain.
LEMMA RestIsChain ==
  ASSUME SysInfoTypeOK, OrderedInv, AtRest
  PROVE  /\ Chain(heap, mem_regions, List) /\ InList = List
         /\ \A n \in List : /\ heap[n].base_addr \in Nat /\ heap[n].size \in Nat
                            /\ End(heap, n) \in Nat /\ End(heap, n) < ADDR_MOD
                            /\ heap[n].size > 0 /\ heap[n].type \in MemTypes
                            /\ Extent(n) = heap[n].base_addr .. End(heap, n) - 1
<1>1. Chain(heap, mem_regions, List)
  BY DEF AtRest, OrderedInv, BetweenReports, Appending, Complete
<1>2. InList = List
  BY InListIsLive DEF List
<1>3. ASSUME NEW n \in List
      PROVE  /\ heap[n].base_addr \in Nat /\ heap[n].size \in Nat
             /\ End(heap, n) \in Nat /\ End(heap, n) < ADDR_MOD
             /\ heap[n].size > 0 /\ heap[n].type \in MemTypes
             /\ Extent(n) = heap[n].base_addr .. End(heap, n) - 1
  <2>1. Whole(heap, n)
    BY <1>1 DEF Chain
  <2>2. n \in 1 .. Len(heap)
    BY Nodes
  <2>3. /\ heap[n].base_addr \in Nat /\ heap[n].size \in Nat
        /\ End(heap, n) \in Nat /\ heap[n].type \in MemTypes
    BY <2>2, Nodes
  <2>4. RightOf(heap, n) = End(heap, n)
    BY <2>1, <2>2, Nodes DEF Whole
  <2>5. QED
    BY <2>1, <2>3, <2>4 DEF Whole, Extent
<1>4. QED
  BY <1>1, <1>2, <1>3

\* Of two nodes of a chain one ends before the other begins.
LEMMA ChainApart ==
  ASSUME NEW h, NEW head, NEW S, Chain(h, head, S), NEW m \in S, NEW n \in S,
         h[m].base_addr < h[n].base_addr,
         \A x \in S : h[x].base_addr \in Nat /\ h[x].size \in Nat
  PROVE  End(h, m) <= h[n].base_addr
<1>1. /\ h[m].next # NULL /\ h[h[m].next].base_addr <= h[n].base_addr
      /\ h[m].next \in S /\ End(h, m) <= h[h[m].next].base_addr
  BY DEF Chain
<1>2. h[m].base_addr \in Nat /\ h[m].size \in Nat /\ h[h[m].next].base_addr \in Nat
      /\ h[n].base_addr \in Nat /\ End(h, m) \in Nat
  BY <1>1 DEF End
<1>3. QED
  BY <1>1, <1>2

\* Two nodes of the list do not overlap.
LEMMA RestDisjoint ==
  ASSUME SysInfoTypeOK, OrderedInv, AtRest, NEW m \in List, NEW n \in List, m # n
  PROVE  Extent(m) \cap Extent(n) = {}
<1>1. /\ Chain(heap, mem_regions, List)
      /\ \A x \in List : heap[x].base_addr \in Nat /\ heap[x].size \in Nat
      /\ heap[m].base_addr \in Nat /\ heap[n].base_addr \in Nat
      /\ End(heap, m) \in Nat /\ End(heap, n) \in Nat
      /\ Extent(m) = heap[m].base_addr .. End(heap, m) - 1
      /\ Extent(n) = heap[n].base_addr .. End(heap, n) - 1
  BY RestIsChain
<1>2. heap[m].base_addr # heap[n].base_addr
  BY <1>1 DEF Chain
<1>3. CASE heap[m].base_addr < heap[n].base_addr
  <2>1. End(heap, m) <= heap[n].base_addr
    BY <1>1, <1>3, ChainApart
  <2>2. QED
    BY <1>1, <2>1
<1>4. CASE heap[n].base_addr < heap[m].base_addr
  <2>1. End(heap, n) <= heap[m].base_addr
    BY <1>1, <1>4, ChainApart
  <2>2. QED
    BY <1>1, <2>1
<1>5. QED
  BY <1>1, <1>2, <1>3, <1>4

\* What the list says of an address is the type of the node that covers it.
LEMMA RestSays ==
  ASSUME SysInfoTypeOK, OrderedInv, AtRest, NEW a \in Addresses
  PROVE  /\ \A n \in List : a \in Extent(n) => Restrictions[a] = heap[n].type
         /\ Restrictions[a] # -1 =>
              \E n \in List : a \in Extent(n) /\ Restrictions[a] = heap[n].type
<1> DEFINE types == {heap[n].type : n \in {m \in List : a \in Extent(m)}}
<1>1. Restrictions[a] = IF types = {} THEN -1 ELSE CHOOSE t \in types : \A u \in types : u <= t
  BY RestIsChain DEF Restrictions
<1>2. ASSUME NEW n \in List, a \in Extent(n) PROVE Restrictions[a] = heap[n].type
  <2>1. \A m \in List : a \in Extent(m) => m = n
    BY <1>2, RestDisjoint
  <2>2. types = {heap[n].type}
    BY <1>2, <2>1
  <2>3. heap[n].type \in MemTypes /\ heap[n].type <= heap[n].type
    BY RestIsChain DEF MemTypes, SYSINFO_MT_USABLE, SYSINFO_MT_RESERVED
  <2> HIDE DEF types
  <2>4. \A t \in types : t = heap[n].type
    BY <2>2
  <2>5. \E t \in types : \A u \in types : u <= t
    BY <2>2, <2>3
  <2>6. (CHOOSE t \in types : \A u \in types : u <= t) \in types
    BY <2>5
  <2>7. QED
    BY <1>1, <2>2, <2>4, <2>6
<1>3. CASE types = {}
  BY <1>1, <1>2, <1>3
<1>4. CASE types # {}
  <2>1. PICK n \in List : a \in Extent(n)
    BY <1>4
  <2>2. QED
    BY <1>2, <2>1
<1>5. QED
  BY <1>2, <1>3, <1>4

-----------------------------------------------------------------------------
\* The properties of SysInfo follow.
LEMMA RestSorted == SysInfoTypeOK /\ OrderedInv => Sorted
<1> SUFFICES ASSUME SysInfoTypeOK, OrderedInv, AtRest, NEW n \in InList, NextOf(n) # NULL
             PROVE  heap[n].base_addr <= heap[NextOf(n)].base_addr
  BY DEF Sorted
<1>1. /\ Chain(heap, mem_regions, List) /\ n \in List
      /\ \A x \in List : heap[x].base_addr \in Nat /\ heap[x].size \in Nat
  BY RestIsChain
<1>2. heap[n].next \in List /\ End(heap, n) <= heap[heap[n].next].base_addr
  BY <1>1 DEF Chain, NextOf
<1>3. heap[n].base_addr \in Nat /\ heap[n].size \in Nat /\ heap[heap[n].next].base_addr \in Nat
  BY <1>1, <1>2
<1>4. QED
  BY <1>2, <1>3 DEF End, NextOf

\* (Disjoint)
LEMMA RestNotTwice == SysInfoTypeOK /\ OrderedInv => Disjoint
BY RestIsChain, RestDisjoint DEF Disjoint

\* (TypesAreKept)
LEMMA RestKeepsTypes == SysInfoTypeOK /\ OrderedInv /\ ContentsInv => TypesAreKept
<1> SUFFICES ASSUME SysInfoTypeOK, OrderedInv, ContentsInv, AtRest,
                    NEW r \in Inserted, NEW a \in Addresses,
                    Covers(r, a), pc = "e820" \/ a >= REAL_MODE_LIMIT
             PROVE  Restrictions[a] = convert_type(r.type)
  BY DEF TypesAreKept
<1>1. PICK k \in 1 .. count : r = reported[k]
  BY DEF Inserted
<1>2. Linked = count
  BY DEF Linked, AtRest
<1>3. pc = "e820" => ret = "e820"
  BY DEF OrderedInv, BetweenReports
<1>4. Listed(a, convert_type(reported[k].type))
  BY <1>1, <1>2, <1>3 DEF ContentsInv, Kept, KeptAt, AtRest
<1>5. PICK n \in List : /\ heap[n].base_addr <= a /\ a < End(heap, n)
                        /\ heap[n].type = convert_type(reported[k].type)
  BY <1>4 DEF Listed
<1>6. a \in Extent(n)
  BY <1>5, RestIsChain DEF Addresses
<1>7. QED
  BY <1>1, <1>5, <1>6, RestSays

\* (UsableIsReported)
LEMMA RestReportsKept == SysInfoTypeOK /\ OrderedInv /\ ContentsInv => UsableIsReported
<1> DEFINE usable == {r \in Inserted : convert_type(r.type) = SYSINFO_MT_USABLE}
<1> SUFFICES ASSUME SysInfoTypeOK, OrderedInv, ContentsInv, AtRest, NEW a \in Addresses,
                    Restrictions[a] = SYSINFO_MT_USABLE
             PROVE  \E left, right \in usable :
                      /\ left.base_addr <= a
                      /\ a < right.base_addr + right.size
                      /\ \A r \in Inserted \ usable :
                           ~(left.base_addr <= r.base_addr /\ r.base_addr < right.base_addr)
  BY DEF UsableIsReported
<1>1. Linked = count
  BY DEF Linked, AtRest
<1>2. PICK n \in List : a \in Extent(n) /\ heap[n].type = SYSINFO_MT_USABLE
  BY RestSays DEF SYSINFO_MT_USABLE
<1>3. PICK i \in 1 .. Linked, j \in 1 .. Linked :
        /\ Usable(i) /\ reported[i].size > 0 /\ reported[i].base_addr <= heap[n].base_addr
        /\ Usable(j) /\ reported[j].size > 0 /\ End(heap, n) <= Top(reported[j])
        /\ \A k \in 1 .. Linked :
             (~Usable(k) /\ reported[k].size > 0) =>
               ~(reported[i].base_addr <= reported[k].base_addr
                   /\ reported[k].base_addr < reported[j].base_addr)
  BY <1>2 DEF ContentsInv, UsableSpanned, Spanned, AtRest
<1>4. reported[i] \in usable /\ reported[j] \in usable
  BY <1>1, <1>3 DEF Inserted, Usable
<1>5. \A r \in Inserted \ usable :
        ~(reported[i].base_addr <= r.base_addr /\ r.base_addr < reported[j].base_addr)
  BY <1>1, <1>3 DEF Inserted, Usable
<1>6. reported[i].base_addr <= a /\ a < reported[j].base_addr + reported[j].size
  <2>1. /\ heap[n].base_addr <= a /\ a < End(heap, n) /\ a \in Nat
        /\ heap[n].base_addr \in Nat /\ End(heap, n) \in Nat
    BY <1>2, RestIsChain DEF Addresses
  <2>2. i \in 1 .. Len(reported) /\ j \in 1 .. Len(reported)
    BY <1>1, ReportNumbers
  <2>3. /\ reported[i].base_addr \in Nat /\ reported[j].base_addr \in Nat
        /\ reported[j].size \in Nat
    BY <2>2, ReportNumbers
  <2>4. QED
    BY <1>3, <2>1, <2>3 DEF Top
<1> HIDE DEF usable
<1>7. QED
  BY <1>4, <1>5, <1>6

\* Of a map in order and without overlaps insert_sorted makes a list in address order.
THEOREM ListIsSorted ==
  ASSUME OrderedMap
  PROVE  Spec => []Sorted
<1>1. SysInfoTypeOK /\ (OrderedInv /\ ContentsInv) => Sorted
  BY RestSorted
<1>2. QED
  BY <1>1, SysInfoTypeCorrect, OrderedMapInvariant, PTL

\* Of such a map no address is listed twice.
THEOREM ListIsDisjoint ==
  ASSUME OrderedMap
  PROVE  Spec => []Disjoint
<1>1. SysInfoTypeOK /\ (OrderedInv /\ ContentsInv) => Disjoint
  BY RestNotTwice
<1>2. QED
  BY <1>1, SysInfoTypeCorrect, OrderedMapInvariant, PTL

\* Every address of the regions inserted from such a map keeps the type the firmware gave
\* it: padding, merging and trimming change nothing of them but the memory of real mode.
\* Of the region that is dropped for coming with ebx = 0 nothing is claimed.
THEOREM InsertedTypesAreKept ==
  ASSUME OrderedMap
  PROVE  Spec => []TypesAreKept
<1>1. SysInfoTypeOK /\ (OrderedInv /\ ContentsInv) => TypesAreKept
  BY RestKeepsTypes
<1>2. QED
  BY <1>1, SysInfoTypeCorrect, OrderedMapInvariant, PTL

\* What the list calls usable was reported as usable, or lies in a gap between two
\* usable regions.
THEOREM UsableWasReported ==
  ASSUME OrderedMap
  PROVE  Spec => []UsableIsReported
<1>1. SysInfoTypeOK /\ (OrderedInv /\ ContentsInv) => UsableIsReported
  BY RestReportsKept
<1>2. QED
  BY <1>1, SysInfoTypeCorrect, OrderedMapInvariant, PTL

-----------------------------------------------------------------------------
(* Nothing becomes less restricted *)

\* The nodes of the list end within 64 bits, and while the low memory is being reserved
\* a node that covers it says so.
Covered ==
  pc # "panic" =>
    /\ \A n \in List : End(heap, n) < ADDR_MOD
    /\ (ret = "rsdp" /\ pc # "walk") =>
         /\ mem_regions \in List
         /\ heap[mem_regions].base_addr = 0
         /\ heap[mem_regions].type = SYSINFO_MT_RESERVED
         /\ End(heap, mem_regions) >= REAL_MODE_LIMIT

\* The invariant says so.
LEMMA OrderedIsCovered == SysInfoTypeOK /\ OrderedInv => Covered
<1> SUFFICES ASSUME SysInfoTypeOK, OrderedInv, pc # "panic" PROVE Covered
  BY DEF Covered
<1>1. pc \in {"e820", "walk", "fix", "rsdp", "done"} /\ ret \in {"e820", "rsdp"}
  BY DEF SysInfoTypeOK
<1>2. CASE pc = "fix" /\ ret = "rsdp"
  <2>1. /\ List = {mem_regions} \cup Rest /\ Chain(heap, next_region, Rest)
        /\ Whole(heap, mem_regions) /\ heap[mem_regions].base_addr = 0
        /\ heap[mem_regions].type = SYSINFO_MT_RESERVED
        /\ End(heap, mem_regions) = REAL_MODE_LIMIT /\ REAL_MODE_LIMIT \in Nat
    BY <1>2, LowPlace
  <2>2. \A n \in List : End(heap, n) < ADDR_MOD
    BY <2>1 DEF Chain, Whole
  <2>3. QED
    BY <2>1, <2>2 DEF Covered
<1>3. CASE ~(pc = "fix" /\ ret = "rsdp")
  <2>1. Chain(heap, mem_regions, List)
    BY <1>1, <1>3 DEF OrderedInv, BetweenReports, Walking, Repairing, WalkingLow, Complete, Appending
  <2>2. \A n \in List : End(heap, n) < ADDR_MOD
    BY <2>1 DEF Chain, Whole
  <2>3. SUFFICES ASSUME ret = "rsdp", pc # "walk"
                 PROVE  /\ mem_regions \in List
                        /\ heap[mem_regions].base_addr = 0
                        /\ heap[mem_regions].type = SYSINFO_MT_RESERVED
                        /\ End(heap, mem_regions) >= REAL_MODE_LIMIT
    BY <2>2 DEF Covered
  <2>4. pc \in {"rsdp", "done"}
    BY <1>1, <1>3, <2>3 DEF OrderedInv, BetweenReports
  <2>5. /\ mem_regions # NULL /\ heap[mem_regions].base_addr = 0
        /\ heap[mem_regions].size >= REAL_MODE_LIMIT
        /\ heap[mem_regions].type = SYSINFO_MT_RESERVED
    BY <2>3, <2>4 DEF OrderedInv, Complete
  <2>6. mem_regions \in List
    BY <2>1, <2>5 DEF Chain
  <2>7. heap[mem_regions].size \in Nat
    BY <2>6, Nodes
  <2>8. QED
    BY <2>5, <2>6, <2>7 DEF End
<1>4. QED
  BY <1>2, <1>3

\* A non-empty set of types has a most restrictive one.
LEMMA HighestType ==
  ASSUME NEW types \in SUBSET MemTypes, types # {}
  PROVE  \E t \in types : \A u \in types : u <= t
<1> DEFINE T == {5 - t : t \in types}
<1>1. \A t \in types : t \in Int /\ 5 - t \in Nat
  BY DEF MemTypes, SYSINFO_MT_USABLE, SYSINFO_MT_RESERVED
<1>2. T \in SUBSET Nat /\ T # {}
  BY <1>1
<1>3. PICK x \in T : \A y \in T : x <= y
  <2> HIDE DEF T
  <2>1. QED
    BY <1>2, LeastNumber
<1>4. PICK t \in types : x = 5 - t
  BY <1>3
<1>5. \A u \in types : u <= t
  BY <1>1, <1>3, <1>4
<1>6. QED
  BY <1>5

\* What the list says of an address is what one of the nodes that cover it says ...
LEMMA SaidByNode ==
  ASSUME SysInfoTypeOK, NEW a \in Addresses
  PROVE  \/ Restrictions[a] = -1
         \/ \E n \in List : a \in Extent(n) /\ Restrictions[a] = heap[n].type
<1> DEFINE types == {heap[n].type : n \in {m \in List : a \in Extent(m)}}
<1>1. InList = List
  BY InListIsLive, Nodes DEF List
<1>2. Restrictions[a] = IF types = {} THEN -1 ELSE CHOOSE t \in types : \A u \in types : u <= t
  BY <1>1 DEF Restrictions
<1>3. types \in SUBSET MemTypes
  BY Nodes
<1>4. CASE types # {}
  <2>1. Restrictions[a] \in types
    <3> HIDE DEF types
    <3>1. \E t \in types : \A u \in types : u <= t
      BY <1>3, <1>4, HighestType
    <3>2. QED
      BY <1>2, <1>4, <3>1
  <2>2. QED
    BY <2>1
<1>5. QED
  BY <1>2, <1>4

\* ... and is at least what each of them says.  (Stated of the next state.)
LEMMA SaidAtLeast ==
  ASSUME SysInfoTypeOK', NEW a \in Addresses, NEW m \in List', a \in Extent(m)'
  PROVE  /\ Restrictions'[a] >= heap'[m].type
         /\ Restrictions'[a] \in Int /\ heap'[m].type \in Int /\ heap'[m].type > -1
<1> DEFINE types == {heap'[n].type : n \in {k \in List' : a \in Extent(k)'}}
<1>1. InList' = List'
  BY InListIsLiveNext DEF List
<1>2. Restrictions'[a] = IF types = {} THEN -1 ELSE CHOOSE t \in types : \A u \in types : u <= t
  BY <1>1 DEF Restrictions
<1>3. types \in SUBSET MemTypes
  BY NodesNext, LiveClosed DEF List
<1>4. heap'[m].type \in types
  OBVIOUS
<1> HIDE DEF types
<1>5. PICK t \in types : \A u \in types : u <= t
  BY <1>3, <1>4, HighestType
<1>6. Restrictions'[a] \in types /\ \A u \in types : u <= Restrictions'[a]
  BY <1>2, <1>4, <1>5
<1>7. \A u \in types : u \in Int /\ u > -1
  <2>1. \A u \in MemTypes : u \in Int /\ u > -1
    BY DEF MemTypes, SYSINFO_MT_USABLE, SYSINFO_MT_RESERVED
  <2>2. QED
    BY <1>3, <2>1
<1>8. QED
  BY <1>4, <1>6, <1>7

\* What a step carries is said of no address less.
LEMMA CarriedIsSaid ==
  ASSUME SysInfoTypeOK, SysInfoTypeOK', Covered', Carries, pc' # "panic",
         NEW a \in Addresses
  PROVE  Restrictions'[a] >= Restrictions[a]
<1>1. CASE \E n \in List : a \in Extent(n) /\ Restrictions[a] = heap[n].type
  <2>1. PICK n \in List : a \in Extent(n) /\ Restrictions[a] = heap[n].type
    BY <1>1
  <2>2. /\ heap[n].base_addr \in Nat /\ heap[n].size \in Nat /\ heap[n].type \in MemTypes
        /\ End(heap, n) \in Nat /\ n \in 1 .. Len(heap)
    BY Nodes
  <2>3. RightOf(heap, n) <= End(heap, n)
    <3>1. \A x \in Nat : (x % ADDR_MOD) <= x
      BY AddrModAssumption
    <3>2. QED
      BY <2>2, <3>1 DEF RightOf, End
  <2>4. RightOf(heap, n) \in Nat /\ a \in Nat
    BY <2>2, AddrModAssumption DEF RightOf, Addresses
  <2>5. heap[n].base_addr <= a /\ a < End(heap, n)
    BY <2>1, <2>2, <2>3, <2>4 DEF Extent
  <2>6. \A m \in List' : /\ heap'[m].base_addr \in Nat /\ End(heap', m) \in Nat
                         /\ RightOf(heap', m) = End(heap', m) /\ heap'[m].type \in MemTypes
    <3>1. \A m \in List' : m \in 1 .. Len(heap') /\ End(heap', m) < ADDR_MOD
      BY NodesNext, LiveClosed DEF List, Covered
    <3>2. QED
      BY <3>1, NodesNext
  <2>7. ASSUME NEW m \in List', heap'[m].base_addr <= a, a < End(heap', m),
               heap'[m].type >= heap[n].type
        PROVE  Restrictions'[a] >= Restrictions[a]
    <3>1. a \in Extent(m)'
      BY <2>4, <2>6, <2>7 DEF Extent
    <3>2. /\ Restrictions'[a] >= heap'[m].type
          /\ Restrictions'[a] \in Int /\ heap'[m].type \in Int
      BY <3>1, SaidAtLeast
    <3>3. heap[n].type \in Int
      BY <2>2 DEF MemTypes, SYSINFO_MT_USABLE, SYSINFO_MT_RESERVED
    <3>4. QED
      BY <2>1, <2>7, <3>2, <3>3
  <2>8. CASE ret' = "rsdp" /\ pc' # "walk" /\ a < REAL_MODE_LIMIT
    <3>1. /\ mem_regions' \in List'
          /\ heap'[mem_regions'].base_addr = 0
          /\ heap'[mem_regions'].type = SYSINFO_MT_RESERVED
          /\ End(heap', mem_regions') >= REAL_MODE_LIMIT
      BY <2>8 DEF Covered
    <3>2. heap'[mem_regions'].type >= heap[n].type
      BY <2>2, <3>1 DEF MemTypes, SYSINFO_MT_USABLE, SYSINFO_MT_RESERVED
    <3>3. a < End(heap', mem_regions')
      BY <2>4, <2>6, <2>8, <3>1, RealModeLimitAssumption DEF Addresses
    <3>4. QED
      BY <2>4, <2>7, <3>1, <3>2, <3>3
  <2>9. CASE ~(ret' = "rsdp" /\ pc' # "walk" /\ a < REAL_MODE_LIMIT)
    <3>1. REAL_MODE_LIMIT \in Nat
      BY RealModeLimitAssumption DEF Addresses
    <3>2. PICK m \in List' :
             /\ heap'[m].type = heap[n].type
             /\ End(heap, n) <= End(heap', m)
             /\ \/ heap'[m].base_addr <= heap[n].base_addr
                \/ ret' = "rsdp" /\ pc' # "walk" /\ heap'[m].base_addr <= REAL_MODE_LIMIT
      <4>1. Carried(n)
        BY DEF Carries
      <4>2. ~(ret' = "rsdp" /\ pc' # "walk" /\ End(heap, n) <= REAL_MODE_LIMIT)
        BY <2>2, <2>4, <2>5, <2>9, <3>1
      <4>3. QED
        BY <4>1, <4>2 DEF Carried
    <3>3. heap'[m].base_addr <= a /\ a < End(heap', m)
      BY <2>2, <2>4, <2>5, <2>6, <2>9, <3>1, <3>2
    <3>4. heap'[m].type >= heap[n].type
      BY <2>2, <3>2 DEF MemTypes, SYSINFO_MT_USABLE, SYSINFO_MT_RESERVED
    <3>5. QED
      BY <2>7, <3>3, <3>4
  <2>10. QED
    BY <2>8, <2>9
<1>2. CASE Restrictions[a] = -1
  <2>1. CASE \E m \in List' : a \in Extent(m)'
    <3>1. PICK m \in List' : a \in Extent(m)'
      BY <2>1
    <3>2. /\ Restrictions'[a] >= heap'[m].type
          /\ Restrictions'[a] \in Int /\ heap'[m].type \in Int /\ heap'[m].type > -1
      BY <3>1, SaidAtLeast
    <3>3. QED
      BY <1>2, <3>2
  <2>2. CASE ~ \E m \in List' : a \in Extent(m)'
    <3>1. InList' = List'
      BY InListIsLiveNext DEF List
    <3>2. Restrictions'[a] = -1
      BY <2>2, <3>1 DEF Restrictions
    <3>3. QED
      BY <1>2, <3>2
  <2>3. QED
    BY <2>1, <2>2
<1>3. QED
  BY <1>1, <1>2, SaidByNode

\* Of a map in order and without overlaps no step of an insertion or of a repair makes
\* an address less restricted than the list says it is.
THEOREM ListOnlyRestricts ==
  ASSUME OrderedMap
  PROVE  Spec => NeverLessRestricted
<1>1. /\ SysInfoTypeOK /\ SysInfoTypeOK' /\ OrderedInv /\ OrderedInv' /\ ContentsInv
      /\ Covered' /\ [SysInfoNext]_vars
      => [pc' # "panic" =>
            LET before == Restrictions
            IN  LET after == Restrictions'
                IN  \A a \in Addresses : after[a] >= before[a]]_heap
  BY NextContents, CarriedIsSaid
<1>2. QED
  BY <1>1, OrderedIsCovered, SysInfoTypeCorrect, OrderedMapInvariant, PTL
     DEF Spec, NeverLessRestricted

\* Of such a map every address stays at least as restricted as each region inserted for
\* it says.
THEOREM InsertedRegionsAreKept ==
  ASSUME OrderedMap
  PROVE  Spec => []InsertedIsKept
<1>1. SysInfoTypeOK /\ (OrderedInv /\ ContentsInv) => InsertedIsKept
  <2> SUFFICES ASSUME SysInfoTypeOK, OrderedInv, ContentsInv, AtRest,
                      NEW r \in Inserted, NEW a \in Addresses, Covers(r, a)
               PROVE  Restrictions[a] >= convert_type(r.type)
    BY DEF InsertedIsKept
  <2>1. convert_type(r.type) \in MemTypes
    BY DEF convert_type, MemTypes, SYSINFO_MT_USABLE, SYSINFO_MT_RECLAIMABLE,
       SYSINFO_MT_ELF_EXECUTABLE, SYSINFO_MT_ACPI_NVS, SYSINFO_MT_BAD, SYSINFO_MT_RESERVED
  <2>2. CASE pc = "e820" \/ a >= REAL_MODE_LIMIT
    <3>1. Restrictions[a] = convert_type(r.type)
      BY <2>2, RestKeepsTypes DEF TypesAreKept
    <3>2. QED
      BY <2>1, <3>1 DEF MemTypes, SYSINFO_MT_USABLE, SYSINFO_MT_RESERVED
  <2>3. CASE ~(pc = "e820" \/ a >= REAL_MODE_LIMIT)
    <3>1. pc \in {"rsdp", "done"} /\ ret \in {"e820", "rsdp"}
      BY <2>3 DEF AtRest, SysInfoTypeOK
    <3>2. count # 0
      BY DEF Inserted
    <3>3. /\ mem_regions # NULL /\ heap[mem_regions].base_addr = 0
          /\ heap[mem_regions].size >= REAL_MODE_LIMIT
          /\ heap[mem_regions].type = SYSINFO_MT_RESERVED
      BY <3>1, <3>2 DEF OrderedInv, Complete
    <3>4. /\ mem_regions \in List
          /\ heap[mem_regions].size \in Nat
          /\ Extent(mem_regions) = heap[mem_regions].base_addr .. End(heap, mem_regions) - 1
      BY <3>3, RestIsChain DEF Chain
    <3>5. a \in Nat /\ REAL_MODE_LIMIT \in Nat
      BY RealModeLimitAssumption DEF Addresses
    <3>6. a \in Extent(mem_regions)
      BY <2>3, <3>3, <3>4, <3>5 DEF End
    <3>7. Restrictions[a] = SYSINFO_MT_RESERVED
      BY <3>3, <3>4, <3>6, RestSays
    <3>8. QED
      BY <2>1, <3>7 DEF MemTypes, SYSINFO_MT_USABLE, SYSINFO_MT_RESERVED
  <2>4. QED
    BY <2>2, <2>3
<1>2. QED
  BY <1>1, SysInfoTypeCorrect, OrderedMapInvariant, PTL
=============================================================================
