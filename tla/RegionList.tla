----------------------------- MODULE RegionList -----------------------------
(***************************************************************************)
(* The list of memory regions of stage1/sysinfo_impl.c: insert_sorted and  *)
(* the two helpers that repair the list to the right of a node, fix_right  *)
(* and add_padding_right.                                                  *)
(*                                                                         *)
(* The list is modelled with its pointers, because insert_sorted keeps     *)
(* prev2, prev and current across the repairs: `heap' is the sequence of   *)
(* nodes static_alloc has handed out (nothing is ever freed), a pointer is *)
(* an index into it and NULL is nullptr.  Each iteration of a loop is one  *)
(* step, so a loop that never ends is a behaviour that never leaves "fix". *)
(* A client allocates a node and calls insert_sorted with CallInsert; the  *)
(* list hands control back by setting pc to `ret'.                         *)
(*                                                                         *)
(* is_volatile is copied and never read by any decision: it is left out.   *)
(*                                                                         *)
(* An operator whose name ends in _M, here and in the other modules, is    *)
(* not part of the specification: it is the definition that follows it     *)
(* with a mistake in it, which a run must notice (mutants, README).        *)
(***************************************************************************)
EXTENDS Integers, Sequences

CONSTANTS
  ADDR_MOD,     \* addresses and sizes are uint64_t: 2^64
  MAX_REGIONS   \* nodes that fit between STATIC_STACK_LIMIT and STATIC_STACK_BASE

ASSUME AddrModAssumption == ADDR_MOD \in Nat \ {0}
ASSUME MaxRegionsAssumption == MAX_REGIONS \in Nat

VARIABLES
  heap,         \* the nodes allocated so far
  mem_regions,  \* the head of the list
  pc,           \* where the code is: "walk", "fix", "panic" or a label of the client
  ret,          \* the client's label insert_sorted returns to
  new_region,   \* insert_sorted: the node being inserted
  prev2, prev, current,
  this_region,  \* fix_right: the node being repaired
  limit_right,  \* fix_right: its right limit, computed once before the loop
  pending       \* the node of the second fix_right call, NULL when none is left

listVars == <<heap, mem_regions, pc, ret, new_region, prev2, prev, current,
              this_region, limit_right, pending>>

-----------------------------------------------------------------------------
(* sysinfo_mem_type_t, in the order the code compares *)
SYSINFO_MT_USABLE         == 0
SYSINFO_MT_RECLAIMABLE    == 1
SYSINFO_MT_ELF_EXECUTABLE == 2
SYSINFO_MT_ACPI_NVS       == 3
SYSINFO_MT_BAD            == 4
SYSINFO_MT_RESERVED       == 5
MemTypes == SYSINFO_MT_USABLE .. SYSINFO_MT_RESERVED

NULL == 0
Addresses == 0 .. ADDR_MOD - 1
Pointers == 0 .. Len(heap)
Regions == [next : Nat, base_addr : Addresses, size : Addresses, type : MemTypes]

Region(base, size, type) ==
  [next |-> NULL, base_addr |-> base, size |-> size, type |-> type]

\* base_addr + size of node n of heap h, in uint64_t
RightOf(h, n) == (h[n].base_addr + h[n].size) % ADDR_MOD

is_left_more_restrictive_M(left, right) == left < right
is_left_more_restrictive(left, right) == left > right

CanAlloc_M == Len(heap) <= MAX_REGIONS
CanAlloc == Len(heap) < MAX_REGIONS

NextOf(n) == heap[n].next

-----------------------------------------------------------------------------
(* insert_sorted *)

\* static_alloc a node, fill it with r and call insert_sorted on it; an empty
\* region is ignored.  Control comes back at `caller'.
CallInsert(r, caller) ==
  /\ CanAlloc
  /\ heap' = Append(heap, r)
  /\ new_region' = Len(heap) + 1
  /\ ret' = caller
  /\ pc' = IF r.size = 0 THEN caller ELSE "walk"
  /\ prev2' = NULL
  /\ prev' = NULL
  /\ current' = mem_regions
  /\ UNCHANGED <<mem_regions, this_region, limit_right, pending>>

\* static_alloc on a full static stack: panic stops the machine
AllocPanic ==
  /\ ~CanAlloc
  /\ pc' = "panic"
  /\ UNCHANGED <<heap, mem_regions, ret, new_region, prev2, prev, current,
                 this_region, limit_right, pending>>

BeforeNew_M ==
  /\ current # NULL
  /\ heap[current].base_addr > heap[new_region].base_addr

BeforeNew ==
  /\ current # NULL
  /\ heap[current].base_addr < heap[new_region].base_addr

Walk_M ==
  /\ pc = "walk"
  /\ BeforeNew
  /\ prev2' = prev
  /\ prev' = current
  /\ UNCHANGED <<heap, mem_regions, pc, ret, new_region, current, this_region,
                 limit_right, pending>>

Walk ==
  /\ pc = "walk"
  /\ BeforeNew
  /\ prev2' = prev
  /\ prev' = current
  /\ current' = NextOf(current)
  /\ UNCHANGED <<heap, mem_regions, pc, ret, new_region, this_region,
                 limit_right, pending>>

LinkFirst ==
  /\ pc = "walk"
  /\ ~BeforeNew
  /\ mem_regions = NULL
  /\ mem_regions' = new_region
  /\ heap' = [heap EXCEPT ![new_region].next = NULL]
  /\ pc' = ret
  /\ UNCHANGED <<ret, new_region, prev2, prev, current, this_region,
                 limit_right, pending>>

\* entering fix_right(first); fix_right(second) is called after it, if any
EnterFix(first, second) ==
  /\ pc' = "fix"
  /\ this_region' = first
  /\ limit_right' = RightOf(heap', first)
  /\ pending' = second

LinkHead ==
  /\ pc = "walk"
  /\ ~BeforeNew
  /\ prev = NULL
  /\ mem_regions # NULL
  /\ heap' = [heap EXCEPT ![new_region].next = mem_regions]
  /\ mem_regions' = new_region
  /\ EnterFix(new_region, NULL)
  /\ UNCHANGED <<ret, new_region, prev2, prev, current>>

\* fix_right(prev2) returns at once when prev2 is nullptr
LinkAfter ==
  /\ pc = "walk"
  /\ ~BeforeNew
  /\ prev # NULL
  /\ heap' = [heap EXCEPT ![new_region].next = current,
                          ![prev].next = new_region]
  /\ IF prev2 = NULL THEN EnterFix(prev, NULL) ELSE EnterFix(prev2, prev)
  /\ UNCHANGED <<mem_regions, ret, new_region, prev2, prev, current>>

-----------------------------------------------------------------------------
(* fix_right: the loop *)

FixUnchanged == UNCHANGED <<mem_regions, ret, new_region, prev2, prev, current>>

next_region == NextOf(this_region)

Overlapping ==
  /\ pc = "fix"
  /\ next_region # NULL
  /\ limit_right > heap[next_region].base_addr

NextWins == is_left_more_restrictive(heap[next_region].type, heap[this_region].type)

DropNext_M ==
  /\ Overlapping
  /\ ~NextWins
  /\ heap' = [heap EXCEPT ![this_region].next = NextOf(next_region)]
  /\ FixUnchanged
  /\ UNCHANGED <<pc, this_region, limit_right, pending>>

DropNext ==
  /\ Overlapping
  /\ ~NextWins
  /\ RightOf(heap, next_region) <= limit_right
  /\ heap' = [heap EXCEPT ![this_region].next = NextOf(next_region)]
  /\ FixUnchanged
  /\ UNCHANGED <<pc, this_region, limit_right, pending>>

TrimNext ==
  /\ Overlapping
  /\ ~NextWins
  /\ RightOf(heap, next_region) > limit_right
  /\ heap' = [heap EXCEPT
                ![next_region].size = (@ - (limit_right - heap[next_region].base_addr)) % ADDR_MOD,
                ![next_region].base_addr = limit_right]
  /\ FixUnchanged
  /\ UNCHANGED <<pc, this_region, limit_right, pending>>

CutHeap_M == heap

\* this_region up to the start of the next node
CutHeap ==
  [heap EXCEPT ![this_region].size =
     (heap[next_region].base_addr - heap[this_region].base_addr) % ADDR_MOD]

\* Neither this_region, its next nor limit_right changes: the loop condition
\* still holds, and the second iteration changes nothing at all.
CutThis ==
  /\ Overlapping
  /\ NextWins
  /\ limit_right <= RightOf(heap, next_region)
  /\ heap' = CutHeap
  /\ FixUnchanged
  /\ UNCHANGED <<pc, this_region, limit_right, pending>>

SplitThis_M ==
  /\ Overlapping
  /\ NextWins
  /\ limit_right > RightOf(heap, next_region)
  /\ CanAlloc
  /\ LET split_region == Len(heap) + 1
     IN  /\ heap' = Append([CutHeap EXCEPT ![next_region].next = split_region],
                           [next      |-> NULL,
                            base_addr |-> RightOf(heap, next_region),
                            size      |-> limit_right - RightOf(heap, next_region),
                            type      |-> heap[this_region].type])
         /\ this_region' = split_region
  /\ FixUnchanged
  /\ UNCHANGED <<pc, limit_right, pending>>

SplitThis ==
  /\ Overlapping
  /\ NextWins
  /\ limit_right > RightOf(heap, next_region)
  /\ CanAlloc
  /\ LET split_region == Len(heap) + 1
     IN  /\ heap' = Append([CutHeap EXCEPT ![next_region].next = split_region],
                           [next      |-> NextOf(next_region),
                            base_addr |-> RightOf(heap, next_region),
                            size      |-> limit_right - RightOf(heap, next_region),
                            type      |-> heap[this_region].type])
         /\ this_region' = split_region
  /\ FixUnchanged
  /\ UNCHANGED <<pc, limit_right, pending>>

SplitPanic ==
  /\ Overlapping
  /\ NextWins
  /\ limit_right > RightOf(heap, next_region)
  /\ ~CanAlloc
  /\ heap' = CutHeap
  /\ pc' = "panic"
  /\ FixUnchanged
  /\ UNCHANGED <<this_region, limit_right, pending>>

-----------------------------------------------------------------------------
(* add_padding_right, called once the loop of fix_right is over, and the     *)
(* return of fix_right: to the second call or out of insert_sorted           *)

LoopOver ==
  /\ pc = "fix"
  /\ ~Overlapping

SameType_M == heap[this_region].type >= heap[next_region].type
SameType == heap[this_region].type = heap[next_region].type

Return ==
  /\ IF pending # NULL
     THEN EnterFix(pending, NULL)
     ELSE pc' = ret /\ UNCHANGED <<this_region, limit_right, pending>>
  /\ FixUnchanged

MergeRight_M ==
  /\ LoopOver
  /\ next_region # NULL
  /\ SameType
  /\ heap' = [heap EXCEPT
                ![this_region].size =
                   (RightOf(heap, next_region) - heap[this_region].base_addr) % ADDR_MOD]
  /\ Return

MergeRight ==
  /\ LoopOver
  /\ next_region # NULL
  /\ SameType
  /\ heap' = [heap EXCEPT
                ![this_region].size =
                   (RightOf(heap, next_region) - heap[this_region].base_addr) % ADDR_MOD,
                ![this_region].next = NextOf(next_region)]
  /\ Return

ExtendReserved ==
  /\ LoopOver
  /\ next_region # NULL
  /\ ~SameType
  /\ heap[next_region].type = SYSINFO_MT_RESERVED
  /\ heap' = [heap EXCEPT
                ![next_region].size = (@ + heap[next_region].base_addr - RightOf(heap, this_region)) % ADDR_MOD,
                ![next_region].base_addr = RightOf(heap, this_region)]
  /\ Return

GapRight ==
  /\ next_region # NULL
  /\ ~SameType
  /\ heap[next_region].type # SYSINFO_MT_RESERVED
  /\ RightOf(heap, this_region) < heap[next_region].base_addr

PadGap_M ==
  /\ LoopOver
  /\ GapRight
  /\ CanAlloc
  /\ heap' = Append([heap EXCEPT ![this_region].next = Len(heap) + 1],
                    [next      |-> next_region,
                     base_addr |-> RightOf(heap, this_region),
                     size      |-> heap[next_region].base_addr - RightOf(heap, this_region),
                     type      |-> heap[this_region].type])
  /\ Return

PadGap ==
  /\ LoopOver
  /\ GapRight
  /\ CanAlloc
  /\ heap' = Append([heap EXCEPT ![this_region].next = Len(heap) + 1],
                    [next      |-> next_region,
                     base_addr |-> RightOf(heap, this_region),
                     size      |-> heap[next_region].base_addr - RightOf(heap, this_region),
                     type      |-> SYSINFO_MT_RESERVED])
  /\ Return

PadPanic ==
  /\ LoopOver
  /\ GapRight
  /\ AllocPanic

NoPadding ==
  /\ LoopOver
  /\ next_region # NULL => /\ ~SameType
                   /\ heap[next_region].type # SYSINFO_MT_RESERVED
                   /\ ~GapRight
  /\ UNCHANGED heap
  /\ Return

-----------------------------------------------------------------------------
ListInit ==
  /\ heap = <<>>
  /\ mem_regions = NULL
  /\ new_region = NULL
  /\ prev2 = NULL
  /\ prev = NULL
  /\ current = NULL
  /\ this_region = NULL
  /\ limit_right = 0
  /\ pending = NULL

FixRight ==
  \/ DropNext \/ TrimNext \/ CutThis \/ SplitThis \/ SplitPanic
  \/ MergeRight \/ ExtendReserved \/ PadGap \/ PadPanic \/ NoPadding

InsertSorted ==
  \/ Walk \/ LinkFirst \/ LinkHead \/ LinkAfter
  \/ FixRight

-----------------------------------------------------------------------------
(* What the list says of an address *)

Extent(n) == heap[n].base_addr .. RightOf(heap, n) - 1

\* the nodes reachable from the head
InList ==
  LET reach[k \in 0 .. Len(heap)] ==
        IF k = 0 THEN {mem_regions} \ {NULL}
        ELSE LET r == reach[k - 1]
             IN  r \cup ({NextOf(n) : n \in r} \ {NULL})
  IN  reach[Len(heap)]

\* how restricted the list says each address is; -1 where no region covers it
Restrictions ==
  LET live == InList
  IN  [a \in Addresses |->
         LET types == {heap[n].type : n \in {m \in live : a \in Extent(m)}}
         IN  IF types = {} THEN -1 ELSE CHOOSE t \in types : \A u \in types : u <= t]

\* a sequence of nodes that point at nodes
HeapOK(h) ==
  /\ h \in Seq(Regions)
  /\ Len(h) <= MAX_REGIONS
  /\ \A n \in 1 .. Len(h) : h[n].next \in 0 .. Len(h)

\* The type invariant of the list: pointers point at nodes, and insert_sorted and
\* fix_right never work on a null pointer.
ListTypeOK ==
  /\ HeapOK(heap)
  /\ mem_regions \in Pointers
  /\ new_region \in Pointers
  /\ prev2 \in Pointers /\ prev \in Pointers /\ current \in Pointers
  /\ this_region \in Pointers /\ pending \in Pointers
  /\ limit_right \in Addresses
  /\ ret \notin {"walk", "fix"}
  /\ pc = "walk" => new_region # NULL
  /\ pc = "fix" => this_region # NULL
=============================================================================
