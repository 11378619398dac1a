-------------------------- MODULE RegionListProofs --------------------------
(***************************************************************************)
(* Type correctness of the region list: no step of insert_sorted and its   *)
(* helpers makes a pointer dangle outside the allocated nodes, works on a  *)
(* null pointer, or leaves 64 bits.  The clients of the list add their own *)
(* variables.                                                              *)
(*                                                                         *)
(* Then what the proofs about its clients need: which nodes are in the     *)
(* list, when a list is a chain in address order, what the writes of       *)
(* insert_sorted and fix_right make of such a chain, and what each step of *)
(* fix_right writes.                                                       *)
(***************************************************************************)
EXTENDS RegionList, Induction, SequenceTheorems, FiniteSetTheorems

LEMMA ModIsAddress == \A x \in Int : x % ADDR_MOD \in Addresses
BY AddrModAssumption DEF Addresses

\* Writing a well-formed node over another keeps the heap well-formed.
LEMMA UpdateHeap ==
  ASSUME NEW h, HeapOK(h), NEW n \in 1 .. Len(h), NEW r \in Regions, r.next \in 0 .. Len(h)
  PROVE  HeapOK([h EXCEPT ![n] = r]) /\ Len([h EXCEPT ![n] = r]) = Len(h)
BY ExceptSeq DEF HeapOK

\* Allocating a well-formed node, while there is room, keeps the heap well-formed.
LEMMA GrowHeap ==
  ASSUME NEW h, HeapOK(h), NEW r \in Regions, r.next \in 0 .. Len(h) + 1, Len(h) < MAX_REGIONS
  PROVE  HeapOK(Append(h, r)) /\ Len(Append(h, r)) = Len(h) + 1
<1> h \in Seq(Regions) /\ Len(h) \in Nat
  BY DEF HeapOK
<1>1. /\ Append(h, r) \in Seq(Regions)
      /\ Len(Append(h, r)) = Len(h) + 1
      /\ \A i \in 1 .. Len(h) : Append(h, r)[i] = h[i]
      /\ Append(h, r)[Len(h) + 1] = r
  BY AppendProperties
<1>2. ASSUME NEW n \in 1 .. Len(h) + 1
      PROVE  Append(h, r)[n].next \in 0 .. Len(h) + 1
  <2>1. CASE n = Len(h) + 1
    BY <1>1, <2>1
  <2>2. CASE n # Len(h) + 1
    <3>1. n \in 1 .. Len(h)
      BY <2>2
    <3>2. QED
      BY <1>1, <3>1 DEF HeapOK
  <2>3. QED
    BY <2>1, <2>2
<1>3. QED
  BY <1>1, <1>2, MaxRegionsAssumption DEF HeapOK

\* What a node holds.
LEMMA NodeType ==
  ASSUME NEW h, HeapOK(h), NEW n \in 1 .. Len(h)
  PROVE  /\ h[n] \in Regions
         /\ h[n].base_addr \in Addresses /\ h[n].size \in Addresses
         /\ h[n].type \in MemTypes /\ h[n].next \in 0 .. Len(h)
         /\ RightOf(h, n) \in Addresses
<1>1. h[n] \in Regions /\ h[n].next \in 0 .. Len(h)
  BY DEF HeapOK
<1>2. /\ h[n].base_addr \in Addresses /\ h[n].size \in Addresses
      /\ h[n].type \in MemTypes
  BY <1>1 DEF Regions
<1>3. RightOf(h, n) \in Addresses
  <2>1. h[n].base_addr + h[n].size \in Int
    BY <1>2 DEF Addresses
  <2>2. QED
    BY <2>1, ModIsAddress DEF RightOf
<1>4. QED
  BY <1>1, <1>2, <1>3

\* A node whose next is set to a node stays well-formed.
LEMMA SetNext ==
  ASSUME NEW h, HeapOK(h), NEW n \in 1 .. Len(h), NEW p \in 0 .. Len(h)
  PROVE  /\ HeapOK([h EXCEPT ![n].next = p])
         /\ Len([h EXCEPT ![n].next = p]) = Len(h)
<1>1. h[n] \in Regions
  BY NodeType
<1>2. [h[n] EXCEPT !.next = p] \in Regions /\ [h[n] EXCEPT !.next = p].next \in 0 .. Len(h)
  BY <1>1 DEF Regions
<1>3. [h EXCEPT ![n].next = p] = [h EXCEPT ![n] = [h[n] EXCEPT !.next = p]]
  OBVIOUS
<1>4. QED
  BY <1>2, <1>3, UpdateHeap

\* So does one whose size is written, if what is written is an address ...
LEMMA SetSize ==
  ASSUME NEW h, HeapOK(h), NEW n \in 1 .. Len(h), NEW v \in Addresses
  PROVE  /\ HeapOK([h EXCEPT ![n].size = v])
         /\ Len([h EXCEPT ![n].size = v]) = Len(h)
<1>1. h[n] \in Regions /\ h[n].next \in 0 .. Len(h)
  BY NodeType
<1>2. [h[n] EXCEPT !.size = v] \in Regions /\ [h[n] EXCEPT !.size = v].next \in 0 .. Len(h)
  BY <1>1 DEF Regions
<1>3. [h EXCEPT ![n].size = v] = [h EXCEPT ![n] = [h[n] EXCEPT !.size = v]]
  OBVIOUS
<1>4. QED
  BY <1>2, <1>3, UpdateHeap

\* ... and one whose base address is.
LEMMA SetBase ==
  ASSUME NEW h, HeapOK(h), NEW n \in 1 .. Len(h), NEW v \in Addresses
  PROVE  /\ HeapOK([h EXCEPT ![n].base_addr = v])
         /\ Len([h EXCEPT ![n].base_addr = v]) = Len(h)
<1>1. h[n] \in Regions /\ h[n].next \in 0 .. Len(h)
  BY NodeType
<1>2. [h[n] EXCEPT !.base_addr = v] \in Regions /\ [h[n] EXCEPT !.base_addr = v].next \in 0 .. Len(h)
  BY <1>1 DEF Regions
<1>3. [h EXCEPT ![n].base_addr = v] = [h EXCEPT ![n] = [h[n] EXCEPT !.base_addr = v]]
  OBVIOUS
<1>4. QED
  BY <1>2, <1>3, UpdateHeap

\* A node can be allocated and linked behind another in one step.
LEMMA LinkNewNode ==
  ASSUME NEW h, HeapOK(h), NEW n \in 1 .. Len(h), NEW r \in Regions, r.next \in 0 .. Len(h),
         Len(h) < MAX_REGIONS
  PROVE  /\ HeapOK(Append([h EXCEPT ![n].next = Len(h) + 1], r))
         /\ Len(Append([h EXCEPT ![n].next = Len(h) + 1], r)) = Len(h) + 1
<1> DEFINE node == [h[n] EXCEPT !.next = Len(h) + 1]
           g == [h EXCEPT ![n] = node]
<1>1. h \in Seq(Regions) /\ Len(h) \in Nat /\ h[n] \in Regions
  BY NodeType DEF HeapOK
<1>2. node \in Regions /\ node.next = Len(h) + 1
  BY <1>1 DEF Regions
<1>3. /\ g \in Seq(Regions) /\ Len(g) = Len(h)
      /\ \A i \in 1 .. Len(h) : g[i] = IF i = n THEN node ELSE h[i]
  <2> HIDE DEF node
  <2>1. QED
    BY <1>1, <1>2, ExceptSeq
<1>4. \A i \in 1 .. Len(g) : g[i].next \in 0 .. Len(g) + 1
  <2> HIDE DEF node, g
  <2>1. QED
    BY <1>1, <1>2, <1>3 DEF HeapOK
<1>5. HeapOK(Append(g, r)) /\ Len(Append(g, r)) = Len(g) + 1
  <2> HIDE DEF g
  <2>1. /\ Append(g, r) \in Seq(Regions)
        /\ Len(Append(g, r)) = Len(g) + 1
        /\ \A i \in 1 .. Len(g) : Append(g, r)[i] = g[i]
        /\ Append(g, r)[Len(g) + 1] = r
    BY <1>3, AppendProperties
  <2>2. ASSUME NEW i \in 1 .. Len(g) + 1 PROVE Append(g, r)[i].next \in 0 .. Len(g) + 1
    <3>1. CASE i = Len(g) + 1
      BY <1>1, <1>3, <2>1, <3>1
    <3>2. CASE i # Len(g) + 1
      <4>1. i \in 1 .. Len(g)
        BY <1>1, <1>3, <3>2
      <4>2. QED
        BY <1>4, <2>1, <4>1
    <3>3. QED
      BY <3>1, <3>2
  <2>3. QED
    BY <1>1, <1>3, <2>1, <2>2, MaxRegionsAssumption DEF HeapOK
<1>6. [h EXCEPT ![n].next = Len(h) + 1] = g
  OBVIOUS
<1>7. QED
  <2> HIDE DEF g
  <2>1. QED
    BY <1>3, <1>5, <1>6

-----------------------------------------------------------------------------
(* The steps of insert_sorted *)

LEMMA WalkType == ListTypeOK /\ Walk => ListTypeOK'
<1> SUFFICES ASSUME ListTypeOK, Walk PROVE ListTypeOK'
  OBVIOUS
<1>1. current \in 1 .. Len(heap)
  BY DEF ListTypeOK, Walk, BeforeNew, Pointers, NULL, HeapOK
<1>2. NextOf(current) \in Pointers
  BY <1>1, NodeType DEF ListTypeOK, NextOf, Pointers
<1>3. QED
  BY <1>2 DEF ListTypeOK, Walk, Pointers

LEMMA EnterFixType ==
  ASSUME HeapOK(heap'),
         NEW first, first \in 1 .. Len(heap'), NEW second, second \in 0 .. Len(heap'),
         EnterFix(first, second)
  PROVE  /\ this_region' \in Pointers' /\ this_region' # NULL
         /\ limit_right' \in Addresses /\ pending' \in Pointers'
         /\ pc' = "fix"
<1>1. RightOf(heap', first) \in Addresses
  BY NodeType
<1>2. QED
  BY <1>1 DEF EnterFix, Pointers, NULL

LEMMA LinkType == ListTypeOK /\ (LinkFirst \/ LinkHead \/ LinkAfter) => ListTypeOK'
<1> SUFFICES ASSUME ListTypeOK, LinkFirst \/ LinkHead \/ LinkAfter PROVE ListTypeOK'
  OBVIOUS
<1> Len(heap) \in Nat
  BY DEF ListTypeOK, HeapOK
<1>0. new_region \in 1 .. Len(heap)
  BY DEF ListTypeOK, LinkFirst, LinkHead, LinkAfter, Pointers, NULL
<1>1. CASE LinkFirst
  <2>1. HeapOK(heap') /\ Len(heap') = Len(heap)
    <3>1. NULL \in 0 .. Len(heap)
      BY DEF NULL
    <3>2. QED
      BY <1>0, <1>1, <3>1, SetNext DEF LinkFirst, ListTypeOK
  <2>2. QED
    BY <1>0, <1>1, <2>1 DEF LinkFirst, ListTypeOK, Pointers, NULL
<1>2. CASE LinkHead
  <2>1. HeapOK(heap') /\ Len(heap') = Len(heap)
    BY <1>0, <1>2, SetNext DEF LinkHead, ListTypeOK, Pointers
  <2>2. NULL \in Pointers
    BY DEF Pointers, NULL
  <2>3. QED
    BY <1>0, <1>2, <2>1, <2>2, EnterFixType DEF LinkHead, ListTypeOK, Pointers
<1>3. CASE LinkAfter
  <2>1. prev \in 1 .. Len(heap)
    BY <1>3 DEF LinkAfter, ListTypeOK, Pointers, NULL
  <2> DEFINE h == [heap EXCEPT ![new_region].next = current]
  <2>2. HeapOK(h) /\ Len(h) = Len(heap)
    BY <1>0, SetNext DEF ListTypeOK, Pointers
  <2>3. heap' = [h EXCEPT ![prev].next = new_region]
    BY <1>3 DEF LinkAfter
  <2>4. HeapOK(heap') /\ Len(heap') = Len(heap)
    <3> HIDE DEF h
    <3>1. new_region \in 0 .. Len(h)
      BY <1>0, <2>2
    <3>2. QED
      <4>1. /\ HeapOK([h EXCEPT ![prev].next = new_region])
            /\ Len([h EXCEPT ![prev].next = new_region]) = Len(h)
        <5>1. prev \in 1 .. Len(h) /\ HeapOK(h)
          BY <2>1, <2>2
        <5>2. QED
          BY ONLY <5>1, <3>1, SetNext
      <4>2. QED
        BY ONLY <4>1, <2>2, <2>3
  <2>6. /\ this_region' \in Pointers' /\ this_region' # NULL
        /\ limit_right' \in Addresses /\ pending' \in Pointers'
        /\ pc' = "fix"
    <3>1. CASE prev2 = NULL
      <4>1. EnterFix(prev, NULL)
        BY <1>3, <3>1 DEF LinkAfter
      <4>2. prev \in 1 .. Len(heap') /\ NULL \in 0 .. Len(heap')
        BY <2>1, <2>4 DEF NULL
      <4>3. QED
        BY <2>4, <4>1, <4>2, EnterFixType
    <3>2. CASE prev2 # NULL
      <4>1. EnterFix(prev2, prev)
        BY <1>3, <3>2 DEF LinkAfter
      <4>2. prev2 \in 1 .. Len(heap') /\ prev \in 0 .. Len(heap')
        BY <2>1, <2>4, <3>2 DEF ListTypeOK, Pointers, NULL
      <4>3. QED
        BY <2>4, <4>1, <4>2, EnterFixType
    <3>3. QED
      BY <3>1, <3>2
  <2>7. QED
    BY <1>3, <2>4, <2>6 DEF LinkAfter, ListTypeOK, Pointers
<1>4. QED
  BY <1>1, <1>2, <1>3

-----------------------------------------------------------------------------
(* The steps of fix_right *)

\* What fix_right works on, in the loop and in add_padding_right.
LEMMA FixNodes ==
  ASSUME ListTypeOK, pc = "fix"
  PROVE  /\ Len(heap) \in Nat
         /\ this_region \in 1 .. Len(heap)
         /\ next_region \in Pointers
         /\ next_region # NULL => next_region \in 1 .. Len(heap)
<1>1. this_region \in 1 .. Len(heap) /\ Len(heap) \in Nat
  BY DEF ListTypeOK, HeapOK, Pointers, NULL
<1>2. next_region \in Pointers
  BY <1>1, NodeType DEF ListTypeOK, next_region, NextOf, Pointers
<1>3. QED
  BY <1>1, <1>2 DEF Pointers, NULL

\* A step of fix_right's loop changes the heap and little else.
LEMMA LoopStep ==
  ASSUME ListTypeOK, pc = "fix", FixUnchanged, HeapOK(heap'), Len(heap') >= Len(heap),
         pc' \in {"fix", "panic"}, this_region' \in Pointers' \ {NULL},
         UNCHANGED <<limit_right, pending>>
  PROVE  ListTypeOK'
<1> Len(heap) \in Nat /\ Len(heap') \in Nat
  BY DEF ListTypeOK, HeapOK
<1>1. \A p \in Pointers : p \in Pointers'
  BY DEF Pointers
<1>2. QED
  BY <1>1 DEF ListTypeOK, FixUnchanged

LEMMA DropNextType == ListTypeOK /\ DropNext => ListTypeOK'
<1> SUFFICES ASSUME ListTypeOK, DropNext PROVE ListTypeOK'
  OBVIOUS
<1>1. pc = "fix" /\ next_region # NULL
  BY DEF DropNext, Overlapping
<1>2. NextOf(next_region) \in 0 .. Len(heap)
  BY <1>1, FixNodes, NodeType DEF ListTypeOK, NextOf
<1>3. HeapOK(heap') /\ Len(heap') = Len(heap)
  BY <1>1, <1>2, FixNodes, SetNext DEF DropNext, ListTypeOK
<1>4. this_region' \in Pointers' \ {NULL}
  BY <1>1, <1>3, FixNodes DEF DropNext, Pointers, NULL
<1>5. QED
  BY <1>1, <1>3, <1>4, FixNodes, LoopStep DEF DropNext

LEMMA TrimNextType == ListTypeOK /\ TrimNext => ListTypeOK'
<1> SUFFICES ASSUME ListTypeOK, TrimNext PROVE ListTypeOK'
  OBVIOUS
<1>1. pc = "fix" /\ next_region # NULL
  BY DEF TrimNext, Overlapping
<1> DEFINE size == (heap[next_region].size - (limit_right - heap[next_region].base_addr)) % ADDR_MOD
           h == [heap EXCEPT ![next_region].size = size]
<1>2. size \in Addresses /\ limit_right \in Addresses
  <2>1. heap[next_region].size - (limit_right - heap[next_region].base_addr) \in Int
    BY <1>1, FixNodes, NodeType DEF ListTypeOK, Addresses
  <2>2. QED
    BY <2>1, ModIsAddress DEF ListTypeOK
<1>3. heap' = [h EXCEPT ![next_region].base_addr = limit_right]
  BY DEF TrimNext
<1>0. HeapOK(heap) /\ next_region \in 1 .. Len(heap)
  BY <1>1, FixNodes DEF ListTypeOK
<1>4. HeapOK(h) /\ Len(h) = Len(heap)
  <2> HIDE DEF size
  <2>1. QED
    BY <1>0, <1>2, SetSize
<1>5. HeapOK(heap') /\ Len(heap') = Len(heap)
  <2> HIDE DEF h, size
  <2>1. next_region \in 1 .. Len(h)
    BY <1>0, <1>4
  <2>2. QED
    BY <1>2, <1>3, <1>4, <2>1, SetBase
<1>6. this_region' \in Pointers' \ {NULL}
  BY <1>1, <1>5, FixNodes DEF TrimNext, Pointers, NULL
<1>7. QED
  BY <1>1, <1>5, <1>6, FixNodes, LoopStep DEF TrimNext

LEMMA CutType ==
  ASSUME ListTypeOK, pc = "fix", next_region # NULL
  PROVE  HeapOK(CutHeap) /\ Len(CutHeap) = Len(heap)
<1> DEFINE size == (heap[next_region].base_addr - heap[this_region].base_addr) % ADDR_MOD
<1>1. size \in Addresses
  <2>1. heap[next_region].base_addr - heap[this_region].base_addr \in Int
    BY FixNodes, NodeType DEF ListTypeOK, Addresses
  <2>2. QED
    BY <2>1, ModIsAddress
<1>2. CutHeap = [heap EXCEPT ![this_region].size = size]
  BY DEF CutHeap
<1>3. HeapOK(heap) /\ this_region \in 1 .. Len(heap)
  BY FixNodes DEF ListTypeOK
<1> HIDE DEF size
<1>4. QED
  BY <1>1, <1>2, <1>3, SetSize

LEMMA CutThisType == ListTypeOK /\ CutThis => ListTypeOK'
<1> SUFFICES ASSUME ListTypeOK, CutThis PROVE ListTypeOK'
  OBVIOUS
<1>1. pc = "fix" /\ next_region # NULL
  BY DEF CutThis, Overlapping
<1>2. HeapOK(heap') /\ Len(heap') = Len(heap)
  BY <1>1, CutType DEF CutThis
<1>3. this_region' \in Pointers' \ {NULL}
  BY <1>1, <1>2, FixNodes DEF CutThis, Pointers, NULL
<1>4. QED
  BY <1>1, <1>2, <1>3, FixNodes, LoopStep DEF CutThis

LEMMA SplitPanicType == ListTypeOK /\ SplitPanic => ListTypeOK'
<1> SUFFICES ASSUME ListTypeOK, SplitPanic PROVE ListTypeOK'
  OBVIOUS
<1>1. pc = "fix" /\ next_region # NULL
  BY DEF SplitPanic, Overlapping
<1>2. HeapOK(heap') /\ Len(heap') = Len(heap)
  BY <1>1, CutType DEF SplitPanic
<1>3. this_region' \in Pointers' \ {NULL}
  BY <1>1, <1>2, FixNodes DEF SplitPanic, Pointers, NULL
<1>4. QED
  BY <1>1, <1>2, <1>3, FixNodes, LoopStep DEF SplitPanic

\* The node a split allocates: what is left of this_region beyond its next.
LEMMA SplitThisType == ListTypeOK /\ SplitThis => ListTypeOK'
<1> SUFFICES ASSUME ListTypeOK, SplitThis PROVE ListTypeOK'
  OBVIOUS
<1>1. pc = "fix" /\ next_region # NULL
  BY DEF SplitThis, Overlapping
<1>2. /\ HeapOK(heap) /\ Len(heap) \in Nat
      /\ this_region \in 1 .. Len(heap) /\ next_region \in 1 .. Len(heap)
  BY <1>1, FixNodes DEF ListTypeOK
<1> DEFINE split == [next      |-> NextOf(next_region),
                     base_addr |-> RightOf(heap, next_region),
                     size      |-> limit_right - RightOf(heap, next_region),
                     type      |-> heap[this_region].type]
<1>3. split \in Regions /\ split.next \in 0 .. Len(heap)
  <2>1. /\ RightOf(heap, next_region) \in Addresses
        /\ heap[this_region].type \in MemTypes
        /\ NextOf(next_region) \in 0 .. Len(heap)
    BY <1>2, NodeType DEF NextOf
  <2>2. limit_right - RightOf(heap, next_region) \in Addresses
    BY <2>1, AddrModAssumption DEF SplitThis, ListTypeOK, Addresses
  <2>3. QED
    BY <1>2, <2>1, <2>2 DEF Regions
<1>4. HeapOK(CutHeap) /\ Len(CutHeap) = Len(heap) /\ Len(CutHeap) < MAX_REGIONS
  BY <1>1, CutType DEF SplitThis, CanAlloc
<1>5. heap' = Append([CutHeap EXCEPT ![next_region].next = Len(CutHeap) + 1], split)
  BY <1>4 DEF SplitThis
<1>6. HeapOK(heap') /\ Len(heap') = Len(heap) + 1
  <2> HIDE DEF split
  <2>1. split.next \in 0 .. Len(CutHeap) /\ next_region \in 1 .. Len(CutHeap)
    BY <1>2, <1>3, <1>4
  <2>2. QED
    BY <1>3, <1>4, <1>5, <2>1, LinkNewNode
<1>7. this_region' \in Pointers' \ {NULL}
  BY <1>2, <1>6 DEF SplitThis, Pointers, NULL
<1>8. QED
  BY <1>1, <1>2, <1>6, <1>7, LoopStep DEF SplitThis

-----------------------------------------------------------------------------
(* The steps of add_padding_right *)

\* fix_right returns: to its second call, or out of insert_sorted.
LEMMA ReturnType ==
  ASSUME ListTypeOK, pc = "fix", HeapOK(heap'), Len(heap') >= Len(heap), Return
  PROVE  ListTypeOK'
<1> Len(heap) \in Nat /\ Len(heap') \in Nat
  BY DEF ListTypeOK, HeapOK
<1>1. \A p \in Pointers : p \in Pointers'
  BY DEF Pointers
<1>2. CASE pending # NULL
  <2>1. pending \in 1 .. Len(heap') /\ NULL \in 0 .. Len(heap')
    BY <1>2 DEF ListTypeOK, Pointers, NULL
  <2>2. EnterFix(pending, NULL)
    BY <1>2 DEF Return
  <2>3. /\ this_region' \in Pointers' /\ this_region' # NULL
        /\ limit_right' \in Addresses /\ pending' \in Pointers'
        /\ pc' = "fix"
    BY <2>1, <2>2, EnterFixType
  <2>4. QED
    BY <1>1, <2>3 DEF ListTypeOK, Return, FixUnchanged
<1>3. CASE pending = NULL
  BY <1>1, <1>3 DEF ListTypeOK, Return, FixUnchanged
<1>4. QED
  BY <1>2, <1>3

LEMMA MergeRightType == ListTypeOK /\ MergeRight => ListTypeOK'
<1> SUFFICES ASSUME ListTypeOK, MergeRight PROVE ListTypeOK'
  OBVIOUS
<1>1. pc = "fix" /\ next_region # NULL
  BY DEF MergeRight, LoopOver
<1>2. /\ HeapOK(heap) /\ Len(heap) \in Nat
      /\ this_region \in 1 .. Len(heap) /\ next_region \in 1 .. Len(heap)
  BY <1>1, FixNodes DEF ListTypeOK
<1> DEFINE size == (RightOf(heap, next_region) - heap[this_region].base_addr) % ADDR_MOD
           h == [heap EXCEPT ![this_region].size = size]
<1>3. size \in Addresses
  <2>1. RightOf(heap, next_region) - heap[this_region].base_addr \in Int
    BY <1>2, NodeType DEF Addresses
  <2>2. QED
    BY <2>1, ModIsAddress
<1>4. HeapOK(h) /\ Len(h) = Len(heap)
  <2> HIDE DEF size
  <2>1. QED
    BY <1>2, <1>3, SetSize
<1>5. heap' = [h EXCEPT ![this_region].next = NextOf(next_region)]
  BY DEF MergeRight
<1>6. HeapOK(heap') /\ Len(heap') = Len(heap)
  <2> HIDE DEF h
  <2>1. NextOf(next_region) \in 0 .. Len(h) /\ this_region \in 1 .. Len(h)
    BY <1>2, <1>4, NodeType DEF NextOf
  <2>2. QED
    BY <1>4, <1>5, <2>1, SetNext
<1>7. QED
  BY <1>1, <1>2, <1>6, ReturnType DEF MergeRight

LEMMA ExtendReservedType == ListTypeOK /\ ExtendReserved => ListTypeOK'
<1> SUFFICES ASSUME ListTypeOK, ExtendReserved PROVE ListTypeOK'
  OBVIOUS
<1>1. pc = "fix" /\ next_region # NULL
  BY DEF ExtendReserved, LoopOver
<1>2. /\ HeapOK(heap) /\ Len(heap) \in Nat
      /\ this_region \in 1 .. Len(heap) /\ next_region \in 1 .. Len(heap)
  BY <1>1, FixNodes DEF ListTypeOK
<1> DEFINE size == (heap[next_region].size + heap[next_region].base_addr - RightOf(heap, this_region)) % ADDR_MOD
           h == [heap EXCEPT ![next_region].size = size]
<1>3. size \in Addresses /\ RightOf(heap, this_region) \in Addresses
  <2>1. heap[next_region].size + heap[next_region].base_addr - RightOf(heap, this_region) \in Int
    BY <1>2, NodeType DEF Addresses
  <2>2. QED
    BY <1>2, <2>1, ModIsAddress, NodeType
<1>4. HeapOK(h) /\ Len(h) = Len(heap)
  <2> HIDE DEF size
  <2>1. QED
    BY <1>2, <1>3, SetSize
<1>5. heap' = [h EXCEPT ![next_region].base_addr = RightOf(heap, this_region)]
  BY DEF ExtendReserved
<1>6. HeapOK(heap') /\ Len(heap') = Len(heap)
  <2> HIDE DEF h, size
  <2>1. next_region \in 1 .. Len(h)
    BY <1>2, <1>4
  <2>2. QED
    BY <1>3, <1>4, <1>5, <2>1, SetBase
<1>7. QED
  BY <1>1, <1>2, <1>6, ReturnType DEF ExtendReserved

\* The node add_padding_right allocates: the gap before next.
LEMMA PadGapType == ListTypeOK /\ PadGap => ListTypeOK'
<1> SUFFICES ASSUME ListTypeOK, PadGap PROVE ListTypeOK'
  OBVIOUS
<1>1. pc = "fix" /\ next_region # NULL
  BY DEF PadGap, LoopOver, GapRight
<1>2. /\ HeapOK(heap) /\ Len(heap) \in Nat
      /\ this_region \in 1 .. Len(heap) /\ next_region \in 1 .. Len(heap)
  BY <1>1, FixNodes DEF ListTypeOK
<1> DEFINE padding == [next      |-> next_region,
                       base_addr |-> RightOf(heap, this_region),
                       size      |-> heap[next_region].base_addr - RightOf(heap, this_region),
                       type      |-> SYSINFO_MT_RESERVED]
<1>3. padding \in Regions /\ padding.next \in 0 .. Len(heap)
  <2>1. /\ RightOf(heap, this_region) \in Addresses
        /\ heap[next_region].base_addr \in Addresses
        /\ SYSINFO_MT_RESERVED \in MemTypes
    BY <1>2, NodeType DEF MemTypes, SYSINFO_MT_USABLE, SYSINFO_MT_RESERVED
  <2>2. heap[next_region].base_addr - RightOf(heap, this_region) \in Addresses
    BY <2>1, AddrModAssumption DEF PadGap, GapRight, Addresses
  <2>3. QED
    BY <1>2, <2>1, <2>2 DEF Regions
<1>4. heap' = Append([heap EXCEPT ![this_region].next = Len(heap) + 1], padding)
  BY DEF PadGap
<1>5. HeapOK(heap') /\ Len(heap') = Len(heap) + 1
  <2> HIDE DEF padding
  <2>1. Len(heap) < MAX_REGIONS
    BY DEF PadGap, CanAlloc
  <2>2. QED
    BY <1>2, <1>3, <1>4, <2>1, LinkNewNode
<1>6. QED
  BY <1>1, <1>2, <1>5, ReturnType DEF PadGap

LEMMA AllocPanicType == ListTypeOK /\ AllocPanic => ListTypeOK'
BY DEF ListTypeOK, AllocPanic, Pointers

LEMMA NoPaddingType == ListTypeOK /\ NoPadding => ListTypeOK'
<1> SUFFICES ASSUME ListTypeOK, NoPadding PROVE ListTypeOK'
  OBVIOUS
<1>1. pc = "fix" /\ heap' = heap /\ Len(heap) \in Nat /\ HeapOK(heap)
  BY DEF NoPadding, LoopOver, ListTypeOK, HeapOK
<1>2. QED
  BY <1>1, ReturnType DEF NoPadding

-----------------------------------------------------------------------------
\* Every step of insert_sorted, the helpers included, preserves the type invariant.
LEMMA InsertSortedType == ListTypeOK /\ InsertSorted => ListTypeOK'
<1>1. ListTypeOK /\ PadPanic => ListTypeOK'
  BY AllocPanicType DEF PadPanic
<1>2. QED
  BY <1>1, WalkType, LinkType, DropNextType, TrimNextType, CutThisType, SplitThisType,
     SplitPanicType, MergeRightType, ExtendReservedType, PadGapType, NoPaddingType
     DEF InsertSorted, FixRight

\* So does the allocation of a new region and the call that inserts it.
LEMMA CallInsertType ==
  ASSUME ListTypeOK, NEW r \in Regions, r.next = NULL,
         NEW caller, caller \notin {"walk", "fix"}, CallInsert(r, caller)
  PROVE  ListTypeOK'
<1>1. HeapOK(heap) /\ Len(heap) \in Nat /\ Len(heap) < MAX_REGIONS
  BY DEF ListTypeOK, HeapOK, CallInsert, CanAlloc
<1>2. HeapOK(heap') /\ Len(heap') = Len(heap) + 1
  BY <1>1, GrowHeap DEF CallInsert, NULL
<1>3. QED
  BY <1>1, <1>2 DEF ListTypeOK, CallInsert, Pointers, NULL

-----------------------------------------------------------------------------
(* The nodes of the list *)

\* The nodes of heap h reachable from node head, as InList computes them: heap and
\* head are parameters so that the list before and after a step can be compared.
Follow(h, S) == S \cup ({h[n].next : n \in S} \ {NULL})

Live(h, head) ==
  LET reach[k \in 0 .. Len(h)] ==
        IF k = 0 THEN {head} \ {NULL}
        ELSE LET r == reach[k - 1]
             IN  r \cup ({h[n].next : n \in r} \ {NULL})
  IN  reach[Len(h)]

\* The list of the model is that set ...
LEMMA InListIsLive == InList = Live(heap, mem_regions)
BY DEF InList, Live, NextOf

\* ... and so it is after a step.
LEMMA InListIsLiveNext == InList' = Live(heap', mem_regions')
BY DEF InList, Live, NextOf

\* Closed: with a node its successor.
Closed(h, S) == \A n \in S : h[n].next # NULL => h[n].next \in S

\* Live is the fixed point of as many applications of Follow as there are nodes.
LEMMA LiveReach ==
  ASSUME NEW h, HeapOK(h), NEW head \in 0 .. Len(h)
  PROVE  \E g \in [0 .. Len(h) -> SUBSET (1 .. Len(h))] :
            /\ g[0] = {head} \ {NULL}
            /\ \A k \in 1 .. Len(h) : g[k] = Follow(h, g[k - 1])
            /\ Live(h, head) = g[Len(h)]
<1> DEFINE N == Len(h)
           X == SUBSET (1 .. N)
           F == [S \in X |-> Follow(h, S)]
           x0 == {head} \ {NULL}
           Body(f) == [k \in 0 .. N |-> IF k = 0 THEN x0
                                        ELSE LET r == f[k - 1]
                                             IN  r \cup ({h[n].next : n \in r} \ {NULL})]
<1>1. N \in Nat /\ \A n \in 1 .. N : h[n].next \in 0 .. N
  BY DEF HeapOK
<1>2. x0 \in X
  BY <1>1 DEF NULL
<1>3. ASSUME NEW S \in X PROVE Follow(h, S) \in X
  <2>1. \A n \in S : h[n].next # NULL => h[n].next \in 1 .. N
    BY <1>1 DEF NULL
  <2>2. QED
    BY <2>1 DEF Follow
<1>4. F \in [X -> X]
  BY <1>3
<1>5. PICK g \in [0 .. N -> X] : g[0] = x0 /\ \A k \in 1 .. N : g[k] = F[g[k - 1]]
  <2>1. N \in Nat
    BY <1>1
  <2>2. Iterates(X, x0, F, N) # {}
    <3> HIDE DEF X, x0, F, N
    <3>1. QED
      BY <2>1, <1>2, <1>4, Recursion
  <2>3. PICK g \in Iterates(X, x0, F, N) : TRUE
    BY <2>2
  <2> HIDE DEF X, x0, F, N
  <2>4. QED
    BY <2>3 DEF Iterates
<1>6. ASSUME NEW k \in 1 .. N PROVE g[k] = Follow(h, g[k - 1])
  <2>1. k - 1 \in 0 .. N
    BY <1>1
  <2>2. g[k - 1] \in X
    BY <1>5, <2>1
  <2>3. QED
    BY <1>5, <2>2
<1>7. g = Body(g)
  <2>1. \A k \in 0 .. N : g[k] = Body(g)[k]
    BY <1>1, <1>5, <1>6 DEF Follow
  <2>2. QED
    BY <1>5, <2>1
<1>8. \E f : f = Body(f)
  BY <1>7
<1> DEFINE reach == CHOOSE f : f = Body(f)
<1>9. reach = Body(reach)
  <2> HIDE DEF Body
  <2>1. QED
    BY <1>8, Zenon
<1>10. Live(h, head) = reach[N]
  BY DEF Live
<1> HIDE DEF reach
<1>11. reach[0] = x0
  BY <1>1, <1>9
<1>12. ASSUME NEW k \in 1 .. N PROVE reach[k] = Follow(h, reach[k - 1])
  <2>1. k \in 0 .. N /\ k # 0
    BY <1>1
  <2>2. reach[k] = Body(reach)[k]
    BY <1>9
  <2>3. QED
    BY <2>1, <2>2 DEF Follow
<1>13. \A k \in Nat : k \in {m \in Nat : m <= N => reach[m] = g[m]}
  <2> DEFINE S == {m \in Nat : m <= N => reach[m] = g[m]}
  <2>1. 0 \in S
    BY <1>5, <1>11
  <2>2. ASSUME NEW m \in Nat, m \in S PROVE m + 1 \in S
    <3>1. SUFFICES ASSUME m + 1 <= N PROVE reach[m + 1] = g[m + 1]
      OBVIOUS
    <3>2. m + 1 \in 1 .. N /\ (m + 1) - 1 = m /\ m <= N
      BY <1>1, <3>1
    <3>3. reach[m] = g[m]
      BY <2>2, <3>2
    <3>4. QED
      BY <1>6, <1>12, <3>2, <3>3
  <2>3. QED
    <3> HIDE DEF S
    <3>1. \A n \in Nat : n \in S
      BY <2>1, <2>2, SetInduction
    <3>2. QED
      BY <3>1 DEF S
<1>14. reach[N] = g[N]
  BY <1>1, <1>13
<1>15. QED
  BY <1>5, <1>6, <1>10, <1>14

\* The list is the least set of nodes that has the head and is closed.
LEMMA LiveClosed ==
  ASSUME NEW h, HeapOK(h), NEW head \in 0 .. Len(h)
  PROVE  /\ Live(h, head) \subseteq 1 .. Len(h)
         /\ head # NULL => head \in Live(h, head)
         /\ Closed(h, Live(h, head))
<1> DEFINE N == Len(h)
<1>1. N \in Nat /\ \A n \in 1 .. N : h[n].next \in 0 .. N
  BY DEF HeapOK
<1>2. PICK g \in [0 .. N -> SUBSET (1 .. N)] :
            /\ g[0] = {head} \ {NULL}
            /\ \A k \in 1 .. N : g[k] = Follow(h, g[k - 1])
            /\ Live(h, head) = g[N]
  BY LiveReach
<1>3. \A k \in 0 .. N : IsFiniteSet(g[k]) /\ Cardinality(g[k]) \in Nat
  <2>1. IsFiniteSet(1 .. N)
    BY <1>1, FS_Interval
  <2>2. QED
    BY <1>2, <2>1, FS_Subset, FS_CardinalityType
<1> DEFINE Big(m) == Cardinality(g[m]) >= m + 1
           S == {m \in Nat : m <= N => (head # NULL => head \in g[m]) /\ (Closed(h, g[m]) \/ Big(m))}
<1>4. 0 \in S
  <2>1. CASE head = NULL
    BY <1>2, <2>1 DEF Closed
  <2>2. CASE head # NULL
    <3>1. g[0] = {head}
      BY <1>2, <2>2
    <3>2. Cardinality(g[0]) = 1
      BY <3>1, FS_Singleton
    <3>3. QED
      BY <3>1, <3>2
  <2>3. QED
    BY <2>1, <2>2
<1>5. ASSUME NEW m \in Nat, m \in S PROVE m + 1 \in S
  <2>1. SUFFICES ASSUME m + 1 <= N
                 PROVE  (head # NULL => head \in g[m + 1]) /\ (Closed(h, g[m + 1]) \/ Big(m + 1))
    OBVIOUS
  <2>2. m + 1 \in 1 .. N /\ (m + 1) - 1 = m /\ m \in 0 .. N /\ m + 1 \in 0 .. N
    BY <1>1, <2>1
  <2>3. g[m + 1] = Follow(h, g[m])
    BY <1>2, <2>2
  <2>4. (head # NULL => head \in g[m]) /\ (Closed(h, g[m]) \/ Big(m))
    BY <1>5, <2>2
  <2>5. CASE Closed(h, g[m])
    <3>1. g[m + 1] = g[m]
      BY <2>3, <2>5 DEF Follow, Closed
    <3>2. QED
      BY <2>4, <2>5, <3>1
  <2>6. CASE ~ Closed(h, g[m]) /\ Big(m)
    <3>1. PICK n \in g[m] : h[n].next # NULL /\ h[n].next \notin g[m]
      BY <2>6 DEF Closed
    <3> DEFINE T == g[m] \cup {h[n].next}
    <3> HIDE DEF Big, S
    <3>2. T \subseteq g[m + 1]
      BY <2>3, <3>1 DEF Follow
    <3>3. IsFiniteSet(T) /\ Cardinality(T) = Cardinality(g[m]) + 1
      BY <1>3, <2>2, <3>1, FS_AddElement
    <3>4. Cardinality(T) <= Cardinality(g[m + 1])
      BY <1>3, <2>2, <3>2, FS_Subset
    <3>5. Big(m + 1)
      BY <1>3, <2>2, <2>6, <3>3, <3>4 DEF Big
    <3>6. QED
      BY <2>3, <2>4, <3>5 DEF Follow
  <2>7. QED
    BY <2>4, <2>5, <2>6
<1>6. (head # NULL => head \in g[N]) /\ (Closed(h, g[N]) \/ Big(N))
  <2>1. N \in S
    <3> HIDE DEF S
    <3>1. \A n \in Nat : n \in S
      BY <1>4, <1>5, SetInduction
    <3>2. QED
      BY <1>1, <3>1
  <2>2. QED
    BY <1>1, <2>1
<1>7. ~ Big(N)
  <2>1. Cardinality(1 .. N) = N /\ IsFiniteSet(1 .. N)
    <3>1. N \in Nat
      BY <1>1
    <3> HIDE DEF N
    <3>2. QED
      BY <3>1, FS_Interval
  <2>2. Cardinality(g[N]) <= N
    BY <1>1, <1>2, <2>1, FS_Subset
  <2>3. QED
    BY <1>1, <1>3, <2>2
<1>8. QED
  BY <1>1, <1>2, <1>6, <1>7

\* A closed set that has the head has all of the list.
LEMMA LiveLeast ==
  ASSUME NEW h, HeapOK(h), NEW head \in 0 .. Len(h),
         NEW S, head # NULL => head \in S, Closed(h, S)
  PROVE  Live(h, head) \subseteq S
<1> DEFINE N == Len(h)
<1>1. N \in Nat
  BY DEF HeapOK
<1>2. PICK g \in [0 .. N -> SUBSET (1 .. N)] :
            /\ g[0] = {head} \ {NULL}
            /\ \A k \in 1 .. N : g[k] = Follow(h, g[k - 1])
            /\ Live(h, head) = g[N]
  BY LiveReach
<1> DEFINE T == {m \in Nat : m <= N => g[m] \subseteq S}
<1>3. 0 \in T
  BY <1>2
<1>4. ASSUME NEW m \in Nat, m \in T PROVE m + 1 \in T
  <2>1. SUFFICES ASSUME m + 1 <= N PROVE g[m + 1] \subseteq S
    OBVIOUS
  <2>2. m + 1 \in 1 .. N /\ (m + 1) - 1 = m /\ m <= N
    BY <1>1, <2>1
  <2>3. g[m + 1] = Follow(h, g[m]) /\ g[m] \subseteq S
    BY <1>2, <1>4, <2>2
  <2>4. QED
    BY <2>3 DEF Follow, Closed
<1>5. N \in T
  <2> HIDE DEF T
  <2>1. \A n \in Nat : n \in T
    BY <1>3, <1>4, SetInduction
  <2>2. QED
    BY <1>1, <2>1
<1>6. QED
  BY <1>1, <1>2, <1>5

-----------------------------------------------------------------------------
(* Lists in address order *)

\* where node n ends, as a number and not in uint64_t
End(h, n) == h[n].base_addr + h[n].size

\* a node that is not empty and does not wrap
Whole(h, n) == h[n].size > 0 /\ End(h, n) < ADDR_MOD

\* S is a list of whole nodes that do not overlap, linked by ascending address.
Chain(h, head, S) ==
  /\ S \subseteq 1 .. Len(h)
  /\ \A n \in S : Whole(h, n)
  /\ head # NULL => head \in S
  /\ \A n \in S : head \in S /\ h[head].base_addr <= h[n].base_addr
  /\ \A n \in S : h[n].next # NULL =>
        h[n].next \in S /\ End(h, n) <= h[h[n].next].base_addr
  /\ \A m, n \in S : h[m].base_addr = h[n].base_addr => m = n
  /\ \A m, n \in S : h[m].base_addr < h[n].base_addr =>
        h[m].next # NULL /\ h[h[m].next].base_addr <= h[n].base_addr

\* Every node begins where the one before it ends.
Contiguous(h, S) ==
  \A n \in S : h[n].next # NULL => End(h, n) = h[h[n].next].base_addr

\* What a node holds, as numbers.
LEMMA NodeNumbers ==
  ASSUME NEW h, HeapOK(h), NEW n \in 1 .. Len(h)
  PROVE  /\ h[n].base_addr \in Nat /\ h[n].size \in Nat /\ h[n].next \in 0 .. Len(h)
         /\ h[n].type \in MemTypes /\ End(h, n) \in Nat
         /\ End(h, n) < ADDR_MOD => RightOf(h, n) = End(h, n)
<1>1. /\ h[n].base_addr \in Addresses /\ h[n].size \in Addresses
      /\ h[n].type \in MemTypes /\ h[n].next \in 0 .. Len(h)
  BY NodeType
<1>2. h[n].base_addr \in Nat /\ h[n].size \in Nat
  BY <1>1, AddrModAssumption DEF Addresses
<1>3. ASSUME NEW x \in Nat, x < ADDR_MOD PROVE x % ADDR_MOD = x
  BY <1>3, AddrModAssumption
<1>4. QED
  BY <1>1, <1>2, <1>3 DEF End, RightOf

\* A chain that starts at the head is the list.
LEMMA ChainIsLive ==
  ASSUME NEW h, HeapOK(h), NEW head \in 0 .. Len(h), NEW S, Chain(h, head, S)
  PROVE  Live(h, head) = S
<1>1. Live(h, head) \subseteq S
  <2>1. Closed(h, S)
    BY DEF Chain, Closed
  <2>2. head # NULL => head \in S
    BY DEF Chain
  <2>3. QED
    BY <2>1, <2>2, LiveLeast
<1> DEFINE L == Live(h, head)
<1>2. /\ L \subseteq 1 .. Len(h) /\ (head # NULL => head \in L)
      /\ \A n \in L : h[n].next # NULL => h[n].next \in L
  BY LiveClosed DEF Closed
<1>3. \A n \in S : h[n].base_addr \in Nat /\ h[n].size \in Nat
  BY NodeNumbers DEF Chain
<1> HIDE DEF L
<1>4. ASSUME NEW n \in S PROVE n \in L
  <2> DEFINE Before == {m \in L : h[m].base_addr <= h[n].base_addr}
             T == {h[n].base_addr - h[m].base_addr : m \in Before}
  <2>1. head \in Before
    BY <1>2 DEF Chain, NULL
  <2>2. T \in SUBSET Nat /\ T # {}
    BY <1>1, <1>3, <2>1 DEF L
  <2>3. PICK x \in T : \A y \in T : x <= y
    <3> HIDE DEF T
    <3>1. QED
      BY <2>2, LeastNumber
  <2>4. PICK m \in Before : x = h[n].base_addr - h[m].base_addr
    BY <2>3
  <2>5. m \in L /\ m \in S /\ h[m].base_addr <= h[n].base_addr
    BY <1>1, <2>4 DEF L
  <2>6. ~ (h[m].base_addr < h[n].base_addr)
    <3>1. SUFFICES ASSUME h[m].base_addr < h[n].base_addr PROVE FALSE
      OBVIOUS
    <3> DEFINE k == h[m].next
    <3>2. k # NULL /\ h[k].base_addr <= h[n].base_addr
      BY <2>5, <3>1 DEF Chain
    <3>3. k \in S /\ k \in L /\ End(h, m) <= h[k].base_addr /\ h[m].size > 0
      BY <1>2, <2>5, <3>2 DEF Chain, Whole
    <3>4. h[k].base_addr > h[m].base_addr
      BY <1>3, <2>5, <3>3 DEF End
    <3>5. h[n].base_addr - h[k].base_addr \in T
      BY <3>2, <3>3
    <3>6. x <= h[n].base_addr - h[k].base_addr
      <4> HIDE DEF T
      <4>1. QED
        BY <2>3, <3>5
    <3>7. QED
      <4> HIDE DEF T, k
      <4>1. QED
        BY <1>3, <2>4, <2>5, <3>3, <3>4, <3>6
  <2>7. h[m].base_addr = h[n].base_addr
    BY <1>3, <2>5, <2>6
  <2>8. QED
    BY <2>5, <2>7 DEF Chain
<1>5. QED
  BY <1>1, <1>4 DEF L

\* What changes nothing on a chain leaves it one.
LEMMA ChainFrame ==
  ASSUME NEW h, NEW g, NEW head, NEW S, Chain(h, head, S), Len(g) \in Nat, Len(h) \in Nat,
         Len(h) <= Len(g), \A n \in S : g[n] = h[n]
  PROVE  Chain(g, head, S)
<1>1. S \subseteq 1 .. Len(g)
  BY DEF Chain
<1>2. \A n \in S : h[n].next # NULL => h[n].next \in S
  BY DEF Chain
<1>3. QED
  BY <1>1, <1>2 DEF Chain, Whole, End

\* One node is a chain.
LEMMA ChainOfOne ==
  ASSUME NEW h, HeapOK(h), NEW q \in 1 .. Len(h), h[q].next = NULL, Whole(h, q)
  PROVE  Chain(h, q, {q})
BY NodeNumbers DEF Chain, NULL

\* A node can be linked behind the last one.
LEMMA ChainLinkLast ==
  ASSUME NEW h, NEW g, NEW head, NEW S, NEW p \in S, NEW q, q \notin S, q # NULL,
         S \cup {q} \subseteq 1 .. Len(g),
         Chain(h, head, S), h[p].next = NULL,
         \A n \in S \cup {q} : /\ h[n].base_addr \in Nat /\ h[n].size \in Nat
                               /\ g[n].base_addr = h[n].base_addr /\ g[n].size = h[n].size,
         Whole(h, q),
         \A n \in S : End(h, n) <= h[q].base_addr,
         \A n \in S : n # p => g[n].next = h[n].next,
         g[p].next = q, g[q].next = NULL
  PROVE  Chain(g, head, S \cup {q})
<1> DEFINE U == S \cup {q}
<1>1. /\ \A n \in S : Whole(h, n)
      /\ head # NULL => head \in S
      /\ \A n \in S : head \in S /\ h[head].base_addr <= h[n].base_addr
      /\ \A n \in S : h[n].next # NULL =>
            h[n].next \in S /\ End(h, n) <= h[h[n].next].base_addr
      /\ \A m, n \in S : h[m].base_addr = h[n].base_addr => m = n
      /\ \A m, n \in S : h[m].base_addr < h[n].base_addr =>
            h[m].next # NULL /\ h[h[m].next].base_addr <= h[n].base_addr
  BY DEF Chain
<1>5. \A n \in S : h[n].base_addr < h[q].base_addr
  <2>1. SUFFICES ASSUME NEW n \in S PROVE h[n].base_addr < h[q].base_addr
    OBVIOUS
  <2>2. /\ h[n].base_addr \in Nat /\ h[n].size \in Nat /\ h[q].base_addr \in Nat
        /\ h[n].size > 0 /\ End(h, n) <= h[q].base_addr
    BY <1>1 DEF Whole
  <2>3. QED
    BY ONLY <2>2 DEF End
<1>7. \A n \in U : Whole(g, n) /\ End(g, n) = End(h, n)
  BY <1>1 DEF Whole, End
<1>8. (head # NULL => head \in U) /\ \A n \in U : head \in U /\ g[head].base_addr <= g[n].base_addr
  BY <1>1, <1>5
<1>9. ASSUME NEW n \in U, g[n].next # NULL
      PROVE g[n].next \in U /\ End(g, n) <= g[g[n].next].base_addr
  <2>1. CASE n = p
    BY <1>7, <2>1
  <2>2. CASE n # p
    <3>1. n \in S /\ g[n].next = h[n].next
      BY <1>9, <2>2
    <3>2. h[n].next \in S /\ End(h, n) <= h[h[n].next].base_addr
      BY <1>1, <1>9, <3>1
    <3>3. QED
      BY <1>7, <3>1, <3>2
  <2>3. QED
    BY <2>1, <2>2
<1>10. ASSUME NEW m \in U, NEW n \in U, g[m].base_addr = g[n].base_addr PROVE m = n
  BY <1>1, <1>5, <1>10
<1>11. ASSUME NEW m \in U, NEW n \in U, g[m].base_addr < g[n].base_addr
       PROVE  g[m].next # NULL /\ g[g[m].next].base_addr <= g[n].base_addr
  <2>1. m # q
    BY <1>5, <1>11
  <2>2. CASE m = p
    <3>1. n = q
      BY <1>1, <1>11, <2>2
    <3>2. QED
      BY <2>2, <3>1
  <2>3. CASE m # p
    <3>1. g[m].next = h[m].next /\ m \in S
      BY <2>1, <2>3
    <3>2. h[m].base_addr < h[p].base_addr \/ h[p].base_addr < h[m].base_addr
      BY <1>1, <2>3, <3>1
    <3>3. h[m].next # NULL /\ h[m].next \in S
      BY <1>1, <3>1, <3>2
    <3>4. CASE n = q
      BY <1>5, <3>1, <3>3, <3>4
    <3>5. CASE n # q
      <4>1. n \in S /\ g[m].base_addr = h[m].base_addr /\ g[n].base_addr = h[n].base_addr
        BY <3>1, <3>5
      <4>2. h[m].base_addr < h[n].base_addr
        BY ONLY <1>11, <4>1
      <4>3. h[h[m].next].base_addr <= h[n].base_addr
        BY ONLY <1>1, <3>1, <4>1, <4>2
      <4>4. g[h[m].next].base_addr = h[h[m].next].base_addr
        BY <3>3
      <4>5. QED
        BY ONLY <3>1, <3>3, <4>1, <4>3, <4>4
    <3>6. QED
      BY <3>4, <3>5
  <2>4. QED
    BY <2>2, <2>3
<1>12. QED
  BY <1>7, <1>8, <1>9, <1>10, <1>11 DEF Chain

\* A node can take the place of itself and the next one.
Merged(h, g, S, p, q) ==
  /\ p \in S /\ q \in S /\ q # NULL /\ S \subseteq 1 .. Len(g)
  /\ h[p].next = q
  /\ \A n \in S : /\ h[n].base_addr \in Nat /\ h[n].size \in Nat
                 /\ g[n].base_addr = h[n].base_addr
  /\ \A n \in S : n # p => g[n].size = h[n].size /\ g[n].next = h[n].next
  /\ g[p].size = End(h, q) - h[p].base_addr /\ g[p].next = h[q].next

\* A node of a chain takes its successor in (MergeRight, where the successor reaches as far).
LEMMA ChainMerge ==
  ASSUME NEW h, NEW g, NEW head, NEW S, NEW p, NEW q, Chain(h, head, S), Merged(h, g, S, p, q)
  PROVE  Chain(g, head, S \ {q})
<1> /\ p \in S /\ q \in S /\ q # NULL /\ S \subseteq 1 .. Len(g)
    /\ h[p].next = q
    /\ \A n \in S : /\ h[n].base_addr \in Nat /\ h[n].size \in Nat
                   /\ g[n].base_addr = h[n].base_addr
    /\ \A n \in S : n # p => g[n].size = h[n].size /\ g[n].next = h[n].next
    /\ g[p].size = End(h, q) - h[p].base_addr /\ g[p].next = h[q].next
  BY DEF Merged
<1> DEFINE U == S \ {q}
<1>1. /\ \A n \in S : Whole(h, n)
      /\ head # NULL => head \in S
      /\ \A n \in S : head \in S /\ h[head].base_addr <= h[n].base_addr
      /\ \A n \in S : h[n].next # NULL =>
            h[n].next \in S /\ End(h, n) <= h[h[n].next].base_addr
      /\ \A m, n \in S : h[m].base_addr = h[n].base_addr => m = n
      /\ \A m, n \in S : h[m].base_addr < h[n].base_addr =>
            h[m].next # NULL /\ h[h[m].next].base_addr <= h[n].base_addr
  BY DEF Chain
<1>2. h[p].base_addr < h[q].base_addr /\ p # q /\ h[p].base_addr < End(h, q)
  <2>1. h[p].size > 0 /\ h[q].size > 0 /\ End(h, p) <= h[q].base_addr
    BY <1>1 DEF Whole
  <2>2. QED
    BY <2>1 DEF End
<1>3. \A n \in S : h[n].base_addr <= h[p].base_addr \/ h[q].base_addr <= h[n].base_addr
  BY <1>1
<1>4. \A n \in U : n # p => g[n].next # q
  <2>1. SUFFICES ASSUME NEW n \in U, n # p, h[n].next = q PROVE FALSE
    OBVIOUS
  <2>2. End(h, n) <= h[q].base_addr /\ h[n].base_addr < h[q].base_addr
    BY <1>1, <2>1 DEF Whole, End
  <2>3. CASE h[n].base_addr < h[p].base_addr
    BY <1>1, <1>2, <2>1, <2>3
  <2>4. CASE h[p].base_addr < h[n].base_addr
    BY <1>1, <2>1, <2>2, <2>4
  <2>5. QED
    BY <1>1, <2>1, <2>3, <2>4
<1>5. \A n \in U : n # p => Whole(g, n) /\ End(g, n) = End(h, n)
  BY <1>1 DEF Whole, End
<1>6. Whole(g, p) /\ End(g, p) = End(h, q)
  BY <1>1, <1>2 DEF Whole, End
<1>7. (head # NULL => head \in U) /\ \A n \in U : head \in U /\ g[head].base_addr <= g[n].base_addr
  <2>1. head # q
    BY <1>1, <1>2
  <2>2. QED
    BY <1>1, <2>1
<1>8. ASSUME NEW n \in U, g[n].next # NULL
      PROVE  g[n].next \in U /\ End(g, n) <= g[g[n].next].base_addr
  <2>1. CASE n = p
    <3>1. h[q].next \in S /\ End(h, q) <= h[h[q].next].base_addr /\ h[q].next # q
      BY <1>1, <1>8, <2>1 DEF Whole, End
    <3>2. QED
      BY <1>6, <2>1, <3>1
  <2>2. CASE n # p
    <3>1. n \in S /\ g[n].next = h[n].next /\ h[n].next # q
      BY <1>4, <2>2
    <3>2. h[n].next \in S /\ End(h, n) <= h[h[n].next].base_addr
      BY <1>1, <1>8, <3>1
    <3>3. QED
      BY <1>5, <2>2, <3>1, <3>2
  <2>3. QED
    BY <2>1, <2>2
<1>9. ASSUME NEW m \in U, NEW n \in U, g[m].base_addr < g[n].base_addr
      PROVE  g[m].next # NULL /\ g[g[m].next].base_addr <= g[n].base_addr
  <2>1. CASE m = p
    <3>1. h[q].base_addr < h[n].base_addr
      BY <1>1, <1>3, <1>9, <2>1
    <3>2. h[q].next # NULL /\ h[h[q].next].base_addr <= h[n].base_addr /\ h[q].next \in S
      BY <1>1, <3>1
    <3>3. QED
      BY <2>1, <3>2
  <2>2. CASE m # p
    <3>1. h[m].next # NULL /\ h[h[m].next].base_addr <= h[n].base_addr /\ h[m].next \in S
      BY <1>1, <1>9
    <3>2. QED
      BY <2>2, <3>1
  <2>3. QED
    BY <2>1, <2>2
<1>10. \A m, n \in U : g[m].base_addr = g[n].base_addr => m = n
  BY <1>1
<1>11. QED
  BY <1>5, <1>6, <1>7, <1>8, <1>9, <1>10 DEF Chain

\* A node can be put into the gap between two.
Filled(h, g, S, p, q) ==
  /\ p \in S /\ q \notin S /\ q # NULL /\ S \cup {q} \subseteq 1 .. Len(g)
  /\ h[p].next # NULL /\ End(h, p) < h[h[p].next].base_addr
  /\ \A n \in S : /\ h[n].base_addr \in Nat /\ h[n].size \in Nat
                 /\ g[n].base_addr = h[n].base_addr /\ g[n].size = h[n].size
  /\ \A n \in S : n # p => g[n].next = h[n].next
  /\ g[p].next = q /\ g[q].next = h[p].next /\ g[q].base_addr = End(h, p)
  /\ g[q].size = h[h[p].next].base_addr - End(h, p)

\* A new node fills the gap behind a node of a chain (PadGap).
LEMMA ChainFill ==
  ASSUME NEW h, NEW g, NEW head, NEW S, NEW p, NEW q, Chain(h, head, S), Filled(h, g, S, p, q)
  PROVE  Chain(g, head, S \cup {q})
<1> p \in S
  BY DEF Filled
<1> q \notin S
  BY DEF Filled
<1> q # NULL
  BY DEF Filled
<1> S \cup {q} \subseteq 1 .. Len(g)
  BY DEF Filled
<1> h[p].next # NULL
  BY DEF Filled
<1> End(h, p) < h[h[p].next].base_addr
  BY DEF Filled
<1> \A n \in S : /\ h[n].base_addr \in Nat /\ h[n].size \in Nat
               /\ g[n].base_addr = h[n].base_addr /\ g[n].size = h[n].size
  BY DEF Filled
<1> \A n \in S : n # p => g[n].next = h[n].next
  BY DEF Filled
<1> g[p].next = q
  BY DEF Filled
<1> g[q].next = h[p].next
  BY DEF Filled
<1> g[q].base_addr = End(h, p)
  BY DEF Filled
<1> g[q].size = h[h[p].next].base_addr - End(h, p)
  BY DEF Filled
<1> DEFINE U == S \cup {q}
           r == h[p].next
<1>1. /\ \A n \in S : Whole(h, n)
      /\ head # NULL => head \in S
      /\ \A n \in S : head \in S /\ h[head].base_addr <= h[n].base_addr
      /\ \A n \in S : h[n].next # NULL =>
            h[n].next \in S /\ End(h, n) <= h[h[n].next].base_addr
      /\ \A m, n \in S : h[m].base_addr = h[n].base_addr => m = n
      /\ \A m, n \in S : h[m].base_addr < h[n].base_addr =>
            h[m].next # NULL /\ h[h[m].next].base_addr <= h[n].base_addr
  BY DEF Chain
<1>2. r \in S /\ r # NULL /\ g[q].base_addr \in Nat /\ g[q].size \in Nat
  <2>1. r \in S /\ r # NULL /\ End(h, p) < h[r].base_addr
    BY <1>1
  <2>2. h[p].base_addr \in Nat /\ h[p].size \in Nat /\ h[r].base_addr \in Nat
    BY <2>1
  <2>3. End(h, p) \in Nat
    BY <2>2 DEF End
  <2>4. g[q].base_addr = End(h, p) /\ g[q].size = h[r].base_addr - End(h, p)
    OBVIOUS
  <2>5. QED
    BY ONLY <2>1, <2>2, <2>3, <2>4
<1>3. Whole(g, q) /\ End(g, q) = h[r].base_addr
  <2>1. h[r].base_addr \in Nat /\ h[r].size \in Nat /\ h[r].base_addr + h[r].size < ADDR_MOD
    BY <1>1, <1>2 DEF Whole, End
  <2>2. g[q].size > 0 /\ g[q].base_addr + g[q].size = h[r].base_addr
    BY <1>2, <2>1 DEF End
  <2>3. QED
    BY <2>1, <2>2, AddrModAssumption DEF Whole, End
<1>4. \A n \in S : Whole(g, n) /\ End(g, n) = End(h, n)
  BY <1>1 DEF Whole, End
<1>5. \A n \in S : \/ h[n].base_addr < g[q].base_addr /\ h[n].base_addr <= h[p].base_addr
                   \/ g[q].base_addr < h[n].base_addr /\ h[r].base_addr <= h[n].base_addr
  <2>1. SUFFICES ASSUME NEW n \in S
                 PROVE  \/ h[n].base_addr < g[q].base_addr /\ h[n].base_addr <= h[p].base_addr
                        \/ g[q].base_addr < h[n].base_addr /\ h[r].base_addr <= h[n].base_addr
    OBVIOUS
  <2>2. CASE h[n].base_addr <= h[p].base_addr
    <3>1. /\ h[p].base_addr \in Nat /\ h[p].size \in Nat /\ h[p].size > 0
          /\ h[n].base_addr \in Nat /\ g[q].base_addr = h[p].base_addr + h[p].size
      BY <1>1 DEF Whole, End
    <3>2. QED
      BY ONLY <2>2, <3>1
  <2>3. CASE h[p].base_addr < h[n].base_addr
    <3>1. h[r].base_addr <= h[n].base_addr
      BY <1>1, <2>3
    <3>2. QED
      BY <1>2, <3>1
  <2>4. QED
    BY <2>2, <2>3
<1>6. (head # NULL => head \in U) /\ \A n \in U : head \in U /\ g[head].base_addr <= g[n].base_addr
  <2>1. g[head].base_addr <= g[q].base_addr
    <3>1. /\ head \in S /\ h[head].base_addr <= h[p].base_addr /\ g[head].base_addr = h[head].base_addr
          /\ h[head].base_addr \in Nat /\ h[p].base_addr \in Nat /\ h[p].size \in Nat
          /\ g[q].base_addr = End(h, p)
      BY <1>1
    <3>2. QED
      BY ONLY <3>1 DEF End
  <2>2. QED
    BY <1>1, <2>1
<1>7. ASSUME NEW n \in U, g[n].next # NULL
      PROVE  g[n].next \in U /\ End(g, n) <= g[g[n].next].base_addr
  <2>1. CASE n = p
    BY <1>2, <1>4, <2>1
  <2>2. CASE n = q
    BY <1>2, <1>3, <2>2
  <2>3. CASE n # p /\ n # q
    <3>1. n \in S /\ g[n].next = h[n].next
      BY <2>3
    <3>2. h[n].next \in S /\ End(h, n) <= h[h[n].next].base_addr
      BY <1>1, <1>7, <3>1
    <3>3. QED
      BY <1>4, <3>1, <3>2
  <2>4. QED
    BY <2>1, <2>2, <2>3
<1>8. ASSUME NEW m \in U, NEW n \in U, g[m].base_addr = g[n].base_addr PROVE m = n
  <2>1. ASSUME NEW k \in S PROVE g[k].base_addr # g[q].base_addr
    <3>1. g[k].base_addr = h[k].base_addr /\ h[k].base_addr \in Nat /\ g[q].base_addr \in Nat
      BY <1>2
    <3>2. h[k].base_addr < g[q].base_addr \/ g[q].base_addr < h[k].base_addr
      BY <1>5
    <3>3. QED
      BY <3>1, <3>2
  <2>2. QED
    <3>1. CASE m \in S /\ n \in S
      <4>1. h[m].base_addr = h[n].base_addr
        BY <1>8, <3>1
      <4>2. QED
        BY ONLY <1>1, <3>1, <4>1
    <3>2. CASE m = q \/ n = q
      BY ONLY <1>8, <2>1, <3>2, m \in U, n \in U DEF U
    <3>3. QED
      BY <3>1, <3>2
<1>9. ASSUME NEW m \in U, NEW n \in U, g[m].base_addr < g[n].base_addr
      PROVE  g[m].next # NULL /\ g[g[m].next].base_addr <= g[n].base_addr
  <2>1. CASE m = p
    <3>1. CASE n = q
      BY <1>2, <2>1, <3>1
    <3>2. CASE n # q
      <4>1. n \in S /\ h[p].base_addr < h[n].base_addr
        BY <1>9, <2>1, <3>2
      <4>2. g[q].base_addr < h[n].base_addr
        BY <1>5, <4>1
      <4>3. QED
        BY <1>2, <2>1, <4>1, <4>2
    <3>3. QED
      BY <3>1, <3>2
  <2>2. CASE m = q
    <3>1. n \in S /\ g[q].base_addr < h[n].base_addr
      BY <1>2, <1>9, <2>2
    <3>2. h[r].base_addr <= h[n].base_addr
      <4>1. ~ (h[n].base_addr < g[q].base_addr)
        BY <1>2, <3>1
      <4>2. QED
        BY <1>5, <3>1, <4>1
    <3>3. QED
      BY <1>2, <2>2, <3>1, <3>2
  <2>3. CASE m # p /\ m # q
    <3>1. m \in S /\ g[m].next = h[m].next
      BY <2>3
    <3>2. CASE n \in S
      BY <1>1, <1>9, <3>1, <3>2
    <3>3. CASE n = q
      <4>1. h[m].base_addr < h[p].base_addr
        <5>1. h[m].base_addr \in Nat /\ h[p].base_addr \in Nat /\ g[q].base_addr \in Nat
          BY <1>2, <3>1
        <5>2. h[m].base_addr < g[q].base_addr
          BY <1>9, <3>1, <3>3
        <5>3. h[m].base_addr <= h[p].base_addr
          BY <1>5, <3>1, <5>1, <5>2
        <5>4. h[m].base_addr # h[p].base_addr
          BY <1>1, <2>3, <3>1
        <5>5. QED
          BY <5>1, <5>3, <5>4
      <4>2. h[m].next # NULL /\ h[m].next \in S /\ h[h[m].next].base_addr <= h[p].base_addr
        BY <1>1, <3>1, <4>1
      <4>3. h[p].base_addr <= g[q].base_addr
        BY DEF End
      <4>4. QED
        <5>1. /\ g[h[m].next].base_addr = h[h[m].next].base_addr /\ h[h[m].next].base_addr \in Nat
              /\ h[p].base_addr \in Nat /\ g[q].base_addr \in Nat
          BY <1>2, <4>2
        <5>2. h[h[m].next].base_addr <= g[q].base_addr
          BY ONLY <4>2, <4>3, <5>1
        <5>3. QED
          BY ONLY <3>1, <3>3, <4>2, <5>1, <5>2
    <3>4. QED
      BY <3>2, <3>3
  <2>4. QED
    BY <2>1, <2>2, <2>3
<1>10. QED
  BY <1>3, <1>4, <1>6, <1>7, <1>8, <1>9 DEF Chain

\* A node can be extended down to the end of the one before it.
Extended(h, g, S, p, q) ==
  /\ p \in S /\ q \in S /\ q # NULL /\ S \subseteq 1 .. Len(g)
  /\ h[p].next = q
  /\ \A n \in S : /\ h[n].base_addr \in Nat /\ h[n].size \in Nat
                 /\ g[n].next = h[n].next
  /\ \A n \in S : n # q => g[n].size = h[n].size /\ g[n].base_addr = h[n].base_addr
  /\ g[q].base_addr = End(h, p) /\ g[q].size = End(h, q) - End(h, p)

\* A node of a chain is extended to the left, up to the node before it (ExtendReserved).
LEMMA ChainExtend ==
  ASSUME NEW h, NEW g, NEW head, NEW S, NEW p, NEW q, Chain(h, head, S), Extended(h, g, S, p, q)
  PROVE  Chain(g, head, S)
<1>2. /\ h[p].base_addr < h[q].base_addr /\ p # q /\ h[p].base_addr < End(h, p)
      /\ End(h, p) <= h[q].base_addr /\ h[q].base_addr < End(h, q)
      /\ End(h, p) \in Nat /\ End(h, q) \in Nat /\ End(h, q) < ADDR_MOD
  <2>1. p \in S /\ q \in S /\ h[p].next = q /\ q # NULL
    BY DEF Extended
  <2>2. Whole(h, p) /\ Whole(h, q) /\ End(h, p) <= h[q].base_addr
    BY <2>1 DEF Chain
  <2>3. /\ h[p].base_addr \in Nat /\ h[p].size \in Nat
        /\ h[q].base_addr \in Nat /\ h[q].size \in Nat
    BY <2>1 DEF Extended
  <2>4. h[p].base_addr < h[q].base_addr
    BY <2>2, <2>3 DEF Whole, End
  <2>5. QED
    BY <2>2, <2>3, <2>4 DEF Whole, End
<1> p \in S
  BY DEF Extended
<1> q \in S
  BY DEF Extended
<1> q # NULL
  BY DEF Extended
<1> S \subseteq 1 .. Len(g)
  BY DEF Extended
<1> h[p].next = q
  BY DEF Extended
<1> \A n \in S : /\ h[n].base_addr \in Nat /\ h[n].size \in Nat
               /\ g[n].next = h[n].next
  BY DEF Extended
<1> \A n \in S : n # q => g[n].size = h[n].size /\ g[n].base_addr = h[n].base_addr
  BY DEF Extended
<1> g[q].base_addr = End(h, p)
  BY DEF Extended
<1> g[q].size = End(h, q) - End(h, p)
  BY DEF Extended
<1>1. /\ \A n \in S : Whole(h, n)
      /\ head # NULL => head \in S
      /\ \A n \in S : head \in S /\ h[head].base_addr <= h[n].base_addr
      /\ \A n \in S : h[n].next # NULL =>
            h[n].next \in S /\ End(h, n) <= h[h[n].next].base_addr
      /\ \A m, n \in S : h[m].base_addr = h[n].base_addr => m = n
      /\ \A m, n \in S : h[m].base_addr < h[n].base_addr =>
            h[m].next # NULL /\ h[h[m].next].base_addr <= h[n].base_addr
  BY DEF Chain
<1>3. \A n \in S : n # q => \/ h[n].base_addr <= h[p].base_addr
                            \/ h[q].base_addr < h[n].base_addr
  <2>1. SUFFICES ASSUME NEW n \in S, n # q, h[p].base_addr < h[n].base_addr
                 PROVE  h[q].base_addr < h[n].base_addr
    OBVIOUS
  <2>2. h[q].base_addr <= h[n].base_addr /\ h[q].base_addr # h[n].base_addr
    BY <1>1, <2>1
  <2>3. QED
    BY <2>2
<1>4. \A n \in S : n # q => Whole(g, n) /\ End(g, n) = End(h, n)
  BY <1>1 DEF Whole, End
<1>5. Whole(g, q) /\ End(g, q) = End(h, q) /\ g[q].base_addr \in Nat /\ g[q].base_addr <= h[q].base_addr
  <2>1. g[q].size > 0 /\ g[q].base_addr + g[q].size = End(h, q)
    BY <1>2
  <2>2. QED
    BY <1>2, <2>1 DEF Whole, End
<1>6. \A n \in S : n # q => \/ h[n].base_addr < g[q].base_addr /\ h[n].base_addr <= h[p].base_addr
                            \/ g[q].base_addr < h[n].base_addr /\ h[q].base_addr < h[n].base_addr
  BY <1>2, <1>3
<1>7. \A n \in S : head \in S /\ g[head].base_addr <= g[n].base_addr
  <2>1. head \in S /\ head # q /\ g[head].base_addr = h[head].base_addr
    <3>1. head \in S /\ h[head].base_addr <= h[p].base_addr
      BY <1>1
    <3>2. head # q
      BY <1>2, <3>1
    <3>3. QED
      BY <3>1, <3>2
  <2>2. h[head].base_addr <= g[q].base_addr
    BY <1>1, <1>2, <2>1
  <2>3. QED
    BY <1>1, <2>1, <2>2
<1>8. ASSUME NEW n \in S, g[n].next # NULL
      PROVE  g[n].next \in S /\ End(g, n) <= g[g[n].next].base_addr
  <2>1. g[n].next = h[n].next /\ h[n].next \in S /\ End(h, n) <= h[h[n].next].base_addr
    BY <1>1, <1>8
  <2>2. CASE h[n].next # q
    BY <1>4, <1>5, <2>1, <2>2
  <2>3. CASE h[n].next = q
    <3>1. n = p
      <4>1. h[n].base_addr < h[q].base_addr
        <5>1. h[n].size > 0 /\ End(h, n) <= h[q].base_addr
          BY <1>1, <2>1, <2>3 DEF Whole
        <5>2. QED
          BY <5>1 DEF End
      <4>2. ~ (h[n].base_addr < h[p].base_addr)
        BY <1>1, <1>2, <2>3
      <4>3. ~ (h[p].base_addr < h[n].base_addr)
        BY <1>3, <4>1
      <4>4. QED
        BY <1>1, <4>2, <4>3
    <3>2. QED
      BY <1>2, <1>4, <2>1, <2>3, <3>1
  <2>4. QED
    BY <2>2, <2>3
<1>9. ASSUME NEW m \in S, NEW n \in S, g[m].base_addr = g[n].base_addr PROVE m = n
  <2>1. \A k \in S : k # q => g[k].base_addr # g[q].base_addr
    BY <1>5, <1>6
  <2>2. QED
    BY <1>1, <1>9, <2>1
<1>10. ASSUME NEW m \in S, NEW n \in S, g[m].base_addr < g[n].base_addr
       PROVE  g[m].next # NULL /\ g[g[m].next].base_addr <= g[n].base_addr
  <2>1. CASE m = q
    <3>1. n # q /\ h[q].base_addr < h[n].base_addr
      <4>1. n # q
        BY <1>5, <1>10, <2>1
      <4>2. ~ (h[n].base_addr < g[q].base_addr)
        BY <1>5, <1>10, <2>1, <4>1
      <4>3. QED
        BY <1>6, <4>1, <4>2
    <3>2. h[q].next # NULL /\ h[q].next \in S /\ h[h[q].next].base_addr <= h[n].base_addr
      BY <1>1, <3>1
    <3>3. h[q].next # q
      <4>1. End(h, q) <= h[h[q].next].base_addr
        BY <1>1, <3>2
      <4>2. QED
        BY <1>2, <4>1
    <3>4. QED
      BY <2>1, <3>1, <3>2, <3>3
  <2>2. CASE n = q
    <3>1. m # q /\ h[m].base_addr < g[q].base_addr
      BY <1>5, <1>10, <2>2
    <3>2. h[m].base_addr <= h[p].base_addr
      BY <1>2, <1>5, <1>6, <3>1
    <3>3. CASE m = p
      BY <1>2, <1>5, <2>2, <3>3
    <3>4. CASE m # p
      <4>1. h[m].base_addr < h[p].base_addr
        BY <1>1, <3>2, <3>4
      <4>2. h[m].next # NULL /\ h[m].next \in S /\ h[h[m].next].base_addr <= h[p].base_addr
        BY <1>1, <4>1
      <4>3. h[m].next # q
        <5>1. h[p].base_addr \in Nat /\ h[q].base_addr \in Nat /\ h[p].base_addr < h[q].base_addr
          BY <1>2
        <5>2. QED
          BY ONLY <4>2, <5>1
      <4>4. h[h[m].next].base_addr <= g[q].base_addr
        <5>1. h[h[m].next].base_addr \in Nat
          BY <4>2
        <5>2. QED
          BY <1>2, <4>2, <5>1
      <4>5. QED
        BY <2>2, <4>2, <4>3, <4>4
    <3>5. QED
      BY <3>3, <3>4
  <2>3. CASE m # q /\ n # q
    <3>1. h[m].next # NULL /\ h[m].next \in S /\ h[h[m].next].base_addr <= h[n].base_addr
      BY <1>1, <1>10, <2>3
    <3>2. g[h[m].next].base_addr <= h[h[m].next].base_addr /\ g[h[m].next].base_addr \in Nat
      <4>1. CASE h[m].next = q
        BY <1>5, <4>1
      <4>2. CASE h[m].next # q
        <5>1. /\ g[h[m].next].base_addr = h[h[m].next].base_addr
              /\ h[h[m].next].base_addr \in Nat
          BY <3>1, <4>2
        <5>2. QED
          BY ONLY <5>1
      <4>3. QED
        BY <4>1, <4>2
    <3>3. g[n].base_addr = h[n].base_addr /\ h[n].base_addr \in Nat
      BY <2>3
    <3>4. h[h[m].next].base_addr \in Nat /\ g[m].next = h[m].next
      BY <3>1
    <3>5. QED
      BY <3>1, <3>2, <3>3, <3>4
  <2>4. QED
    BY <2>1, <2>2, <2>3
<1>11. QED
  BY <1>1, <1>4, <1>5, <1>7, <1>8, <1>9, <1>10 DEF Chain

\* A node that ends before the first one begins can be put in front of it.
LEMMA ChainCons ==
  ASSUME NEW h, NEW head, NEW S, NEW q \in 1 .. Len(h), q \notin S, q # NULL, Whole(h, q),
         Chain(h, head, S), h[q].next = head,
         head # NULL => End(h, q) <= h[head].base_addr,
         \A n \in S \cup {q} : h[n].base_addr \in Nat /\ h[n].size \in Nat,
         head = NULL => S = {}
  PROVE  Chain(h, q, S \cup {q})
<1> DEFINE U == S \cup {q}
<1>0. S \subseteq 1 .. Len(h)
  BY DEF Chain
<1>1. /\ \A n \in S : Whole(h, n)
      /\ head # NULL => head \in S
      /\ \A n \in S : head \in S /\ h[head].base_addr <= h[n].base_addr
      /\ \A n \in S : h[n].next # NULL =>
            h[n].next \in S /\ End(h, n) <= h[h[n].next].base_addr
      /\ \A m, n \in S : h[m].base_addr = h[n].base_addr => m = n
      /\ \A m, n \in S : h[m].base_addr < h[n].base_addr =>
            h[m].next # NULL /\ h[h[m].next].base_addr <= h[n].base_addr
  BY DEF Chain
<1>2. \A n \in S : h[q].base_addr < h[n].base_addr
  <2>1. SUFFICES ASSUME NEW n \in S PROVE h[q].base_addr < h[n].base_addr
    OBVIOUS
  <2>2. head # NULL /\ head \in S /\ h[head].base_addr <= h[n].base_addr
    BY <1>1
  <2>3. QED
    BY <2>2 DEF Whole, End
<1>3. \A n \in U : q \in U /\ h[q].base_addr <= h[n].base_addr
  BY <1>2
<1>4. \A n \in U : h[n].next # NULL =>
         h[n].next \in U /\ End(h, n) <= h[h[n].next].base_addr
  BY <1>1
<1>5. \A m, n \in U : h[m].base_addr = h[n].base_addr => m = n
  BY <1>1, <1>2
<1>6. \A m, n \in U : h[m].base_addr < h[n].base_addr =>
            h[m].next # NULL /\ h[h[m].next].base_addr <= h[n].base_addr
  BY <1>1, <1>2
<1>7. QED
  BY <1>0, <1>1, <1>3, <1>4, <1>5, <1>6 DEF Chain

\* The first node can be taken away.
LEMMA ChainTail ==
  ASSUME NEW h, NEW head, NEW S, Chain(h, head, S), head # NULL,
         \A n \in S : h[n].base_addr \in Nat /\ h[n].size \in Nat
  PROVE  Chain(h, h[head].next, S \ {head})
<1> DEFINE U == S \ {head}
           q == h[head].next
<1>0. S \subseteq 1 .. Len(h)
  BY DEF Chain
<1>1. /\ \A n \in S : Whole(h, n)
      /\ head # NULL => head \in S
      /\ \A n \in S : head \in S /\ h[head].base_addr <= h[n].base_addr
      /\ \A n \in S : h[n].next # NULL =>
            h[n].next \in S /\ End(h, n) <= h[h[n].next].base_addr
      /\ \A m, n \in S : h[m].base_addr = h[n].base_addr => m = n
      /\ \A m, n \in S : h[m].base_addr < h[n].base_addr =>
            h[m].next # NULL /\ h[h[m].next].base_addr <= h[n].base_addr
  BY DEF Chain
<1>2. \A n \in U : h[head].base_addr < h[n].base_addr
  BY <1>1
<1>3. \A n \in S : h[n].next # NULL => h[n].next \in U
  <2>1. SUFFICES ASSUME NEW n \in S, h[n].next # NULL PROVE h[n].next # head
    BY <1>1
  <2>2. End(h, n) <= h[h[n].next].base_addr /\ h[head].base_addr <= h[n].base_addr /\ h[n].size > 0
    BY <1>1, <2>1 DEF Whole
  <2>3. QED
    BY <1>1, <2>1, <2>2 DEF End
<1>4. \A n \in U : q \in U /\ h[q].base_addr <= h[n].base_addr
  BY <1>1, <1>2, <1>3
<1>5. QED
  BY <1>0, <1>1, <1>3, <1>4 DEF Chain

\* The first node can lose its beginning.
Trimmed(h, g, S, head, x) ==
  /\ head # NULL /\ x \in Nat /\ S \subseteq 1 .. Len(g)
  /\ h[head].base_addr < x /\ x < End(h, head)
  /\ \A n \in S : /\ h[n].base_addr \in Nat /\ h[n].size \in Nat
                 /\ g[n].next = h[n].next
  /\ \A n \in S : n # head => g[n].size = h[n].size /\ g[n].base_addr = h[n].base_addr
  /\ g[head].base_addr = x /\ g[head].size = End(h, head) - x

\* The first node of a chain loses its beginning (TrimNext).
LEMMA ChainTrim ==
  ASSUME NEW h, NEW g, NEW head, NEW S, NEW x, Chain(h, head, S), Trimmed(h, g, S, head, x)
  PROVE  Chain(g, head, S)
<1> head # NULL
  BY DEF Trimmed
<1> x \in Nat
  BY DEF Trimmed
<1> S \subseteq 1 .. Len(g)
  BY DEF Trimmed
<1> h[head].base_addr < x
  BY DEF Trimmed
<1> x < End(h, head)
  BY DEF Trimmed
<1> \A n \in S : /\ h[n].base_addr \in Nat /\ h[n].size \in Nat
               /\ g[n].next = h[n].next
  BY DEF Trimmed
<1> \A n \in S : n # head => g[n].size = h[n].size /\ g[n].base_addr = h[n].base_addr
  BY DEF Trimmed
<1> g[head].base_addr = x
  BY DEF Trimmed
<1> g[head].size = End(h, head) - x
  BY DEF Trimmed
<1>1. /\ \A n \in S : Whole(h, n)
      /\ head # NULL => head \in S
      /\ \A n \in S : head \in S /\ h[head].base_addr <= h[n].base_addr
      /\ \A n \in S : h[n].next # NULL =>
            h[n].next \in S /\ End(h, n) <= h[h[n].next].base_addr
      /\ \A m, n \in S : h[m].base_addr = h[n].base_addr => m = n
      /\ \A m, n \in S : h[m].base_addr < h[n].base_addr =>
            h[m].next # NULL /\ h[h[m].next].base_addr <= h[n].base_addr
  BY DEF Chain
<1>2. \A n \in S : n # head => End(h, head) <= h[n].base_addr
  <2>1. SUFFICES ASSUME NEW n \in S, n # head PROVE End(h, head) <= h[n].base_addr
    OBVIOUS
  <2>2. h[head].base_addr <= h[n].base_addr /\ h[head].base_addr # h[n].base_addr /\ head \in S
    BY <1>1, <2>1
  <2>3. h[head].base_addr < h[n].base_addr
    BY <2>2
  <2>4. h[head].next # NULL /\ h[h[head].next].base_addr <= h[n].base_addr
    BY <1>1, <2>2, <2>3
  <2>5. h[head].next \in S /\ End(h, head) <= h[h[head].next].base_addr
    BY <1>1, <2>2, <2>4
  <2>6. QED
    BY <2>2, <2>4, <2>5 DEF End
<1>3. End(h, head) \in Nat /\ End(h, head) < ADDR_MOD
  BY <1>1 DEF Whole, End
<1>4. Whole(g, head) /\ End(g, head) = End(h, head)
  <2>1. g[head].size > 0 /\ g[head].base_addr + g[head].size = End(h, head)
    BY <1>3
  <2>2. QED
    BY <1>3, <2>1 DEF Whole, End
<1>5. \A n \in S : n # head => Whole(g, n) /\ End(g, n) = End(h, n) /\ x < h[n].base_addr
  <2>1. SUFFICES ASSUME NEW n \in S, n # head
                 PROVE Whole(g, n) /\ End(g, n) = End(h, n) /\ x < h[n].base_addr
    OBVIOUS
  <2>2. Whole(g, n) /\ End(g, n) = End(h, n)
    BY <1>1, <2>1 DEF Whole, End
  <2>3. QED
    BY <1>2, <1>3, <2>1, <2>2
<1>6. \A n \in S : head \in S /\ g[head].base_addr <= g[n].base_addr
  BY <1>1, <1>5
<1>7. ASSUME NEW n \in S, g[n].next # NULL
      PROVE  g[n].next \in S /\ End(g, n) <= g[g[n].next].base_addr
  <2>1. h[n].next # NULL /\ h[n].next \in S /\ End(h, n) <= h[h[n].next].base_addr
    BY <1>1, <1>7
  <2>2. h[n].next # head
    <3>1. h[head].base_addr <= h[n].base_addr /\ h[n].size > 0
      BY <1>1 DEF Whole
    <3>2. QED
      <4>1. /\ h[n].base_addr \in Nat /\ h[n].size \in Nat /\ h[head].base_addr \in Nat
        BY <1>6
      <4>2. h[n].base_addr < End(h, n)
        BY ONLY <3>1, <4>1 DEF End
      <4>3. End(h, n) \in Nat
        BY ONLY <4>1 DEF End
      <4>4. h[n].next = head => FALSE
        BY ONLY <2>1, <3>1, <4>1, <4>2, <4>3
      <4>5. QED
        BY <4>4
  <2>3. QED
    BY <1>4, <1>5, <2>1, <2>2
<1>8. \A m, n \in S : g[m].base_addr = g[n].base_addr => m = n
  BY <1>1, <1>5
<1>9. ASSUME NEW m \in S, NEW n \in S, g[m].base_addr < g[n].base_addr
      PROVE  g[m].next # NULL /\ g[g[m].next].base_addr <= g[n].base_addr
  <2>1. n # head
    BY <1>6, <1>9, <1>5
  <2>2. h[m].base_addr < h[n].base_addr
    <3>1. CASE m = head
      BY <1>5, <2>1, <3>1
    <3>2. CASE m # head
      BY <1>9, <2>1, <3>2
    <3>3. QED
      BY <3>1, <3>2
  <2>3. h[m].next # NULL /\ h[m].next \in S /\ h[h[m].next].base_addr <= h[n].base_addr
    BY <1>1, <2>2
  <2>4. h[m].next # head
    <3>1. h[head].base_addr <= h[m].base_addr /\ h[m].size > 0 /\ End(h, m) <= h[h[m].next].base_addr
      BY <1>1, <2>3 DEF Whole
    <3>2. head \in S
      BY <1>1
    <3>3. /\ h[head].base_addr \in Nat /\ h[m].base_addr \in Nat /\ h[m].size \in Nat
          /\ End(h, m) = h[m].base_addr + h[m].size
      BY <3>2 DEF End
    <3>4. End(h, m) \in Nat /\ h[head].base_addr < End(h, m)
      BY <3>1, <3>3
    <3>5. SUFFICES ASSUME h[m].next = head PROVE FALSE
      OBVIOUS
    <3>6. QED
      BY <3>1, <3>3, <3>4, <3>5
  <2>5. QED
    BY <2>1, <2>3, <2>4
<1>10. QED
  BY <1>1, <1>4, <1>5, <1>6, <1>7, <1>8, <1>9 DEF Chain

\* A list is its head and the list behind it.
LEMMA LiveCons ==
  ASSUME NEW h, HeapOK(h), NEW head \in 1 .. Len(h)
  PROVE  Live(h, head) = {head} \cup Live(h, h[head].next)
<1> DEFINE L == Live(h, head)
           M == Live(h, h[head].next)
           U == {head} \cup M
<1>1. head # NULL /\ h[head].next \in 0 .. Len(h) /\ head \in 0 .. Len(h)
  BY DEF HeapOK, NULL
<1>2. head \in L /\ Closed(h, L)
  BY <1>1, LiveClosed
<1>3. (h[head].next # NULL => h[head].next \in M) /\ Closed(h, M)
  BY <1>1, LiveClosed
<1>4. Closed(h, U)
  BY <1>3 DEF Closed
<1>5. L \subseteq U
  <2> HIDE DEF M
  <2>1. head \in U
    OBVIOUS
  <2> HIDE DEF U
  <2>2. QED
    BY <1>1, <1>4, <2>1, LiveLeast
<1>6. M \subseteq L
  <2>1. h[head].next # NULL => h[head].next \in L
    BY <1>2 DEF Closed
  <2> HIDE DEF L
  <2>2. QED
    BY <1>1, <1>2, <2>1, LiveLeast
<1>7. QED
  BY <1>2, <1>5, <1>6

-----------------------------------------------------------------------------
(* What the steps of fix_right write *)

\* The nodes of a well-formed list, as numbers.
LEMMA ListNodes ==
  ASSUME ListTypeOK
  PROVE  /\ HeapOK(heap) /\ heap \in Seq(Regions) /\ Len(heap) \in Nat
         /\ \A n \in 1 .. Len(heap) :
               /\ heap[n].base_addr \in Addresses /\ heap[n].size \in Addresses
               /\ heap[n].base_addr \in Nat /\ heap[n].size \in Nat
               /\ heap[n].next \in 0 .. Len(heap) /\ heap[n].next \in Nat
               /\ heap[n].type \in MemTypes /\ RightOf(heap, n) \in Addresses
<1>1. HeapOK(heap) /\ heap \in Seq(Regions) /\ Len(heap) \in Nat
  BY DEF ListTypeOK, HeapOK
<1>2. QED
  BY <1>1, NodeType, NodeNumbers DEF Addresses

\* The heap with one field of one node written ...
SetNextOf(h, n, v) == [h EXCEPT ![n].next = v]
SetSizeOf(h, n, v) == [h EXCEPT ![n].size = v]
SetBaseOf(h, n, v) == [h EXCEPT ![n].base_addr = v]

\* ... and what the fields of all nodes are then.
LEMMA SetNextOfWrites ==
  ASSUME NEW h \in Seq(Regions), NEW n \in 1 .. Len(h), NEW v \in Nat
  PROVE  /\ SetNextOf(h, n, v) \in Seq(Regions) /\ Len(SetNextOf(h, n, v)) = Len(h)
         /\ \A m \in 1 .. Len(h) :
                  /\ SetNextOf(h, n, v)[m].base_addr = h[m].base_addr
                  /\ SetNextOf(h, n, v)[m].size = h[m].size
                  /\ SetNextOf(h, n, v)[m].type = h[m].type
                  /\ SetNextOf(h, n, v)[m].next = IF m = n THEN v ELSE h[m].next
         /\ \A m \in 1 .. Len(h) : m # n => SetNextOf(h, n, v)[m] = h[m]
<1> DEFINE r == [h[n] EXCEPT !.next = v]
<1>1. h[n] \in Regions
  OBVIOUS
<1>2. /\ r.base_addr = h[n].base_addr
      /\ r.size = h[n].size
      /\ r.type = h[n].type
      /\ r.next = v
      /\ r \in Regions
  BY <1>1 DEF Regions
<1>3. SetNextOf(h, n, v) = [h EXCEPT ![n] = r]
  BY DEF SetNextOf
<1> HIDE DEF r
<1>4. /\ [h EXCEPT ![n] = r] \in Seq(Regions) /\ Len([h EXCEPT ![n] = r]) = Len(h)
      /\ \A m \in 1 .. Len(h) : [h EXCEPT ![n] = r][m] = IF m = n THEN r ELSE h[m]
  BY <1>2, ExceptSeq
<1>5. QED
  BY <1>2, <1>3, <1>4

\* The same for the size ...
LEMMA SetSizeOfWrites ==
  ASSUME NEW h \in Seq(Regions), NEW n \in 1 .. Len(h), NEW v \in Addresses
  PROVE  /\ SetSizeOf(h, n, v) \in Seq(Regions) /\ Len(SetSizeOf(h, n, v)) = Len(h)
         /\ \A m \in 1 .. Len(h) :
                  /\ SetSizeOf(h, n, v)[m].base_addr = h[m].base_addr
                  /\ SetSizeOf(h, n, v)[m].size = IF m = n THEN v ELSE h[m].size
                  /\ SetSizeOf(h, n, v)[m].type = h[m].type
                  /\ SetSizeOf(h, n, v)[m].next = h[m].next
         /\ \A m \in 1 .. Len(h) : m # n => SetSizeOf(h, n, v)[m] = h[m]
<1> DEFINE r == [h[n] EXCEPT !.size = v]
<1>1. h[n] \in Regions
  OBVIOUS
<1>2. /\ r.base_addr = h[n].base_addr
      /\ r.size = v
      /\ r.type = h[n].type
      /\ r.next = h[n].next
      /\ r \in Regions
  BY <1>1 DEF Regions
<1>3. SetSizeOf(h, n, v) = [h EXCEPT ![n] = r]
  BY DEF SetSizeOf
<1> HIDE DEF r
<1>4. /\ [h EXCEPT ![n] = r] \in Seq(Regions) /\ Len([h EXCEPT ![n] = r]) = Len(h)
      /\ \A m \in 1 .. Len(h) : [h EXCEPT ![n] = r][m] = IF m = n THEN r ELSE h[m]
  BY <1>2, ExceptSeq
<1>5. QED
  BY <1>2, <1>3, <1>4

\* ... and the base address.
LEMMA SetBaseOfWrites ==
  ASSUME NEW h \in Seq(Regions), NEW n \in 1 .. Len(h), NEW v \in Addresses
  PROVE  /\ SetBaseOf(h, n, v) \in Seq(Regions) /\ Len(SetBaseOf(h, n, v)) = Len(h)
         /\ \A m \in 1 .. Len(h) :
                  /\ SetBaseOf(h, n, v)[m].base_addr = IF m = n THEN v ELSE h[m].base_addr
                  /\ SetBaseOf(h, n, v)[m].size = h[m].size
                  /\ SetBaseOf(h, n, v)[m].type = h[m].type
                  /\ SetBaseOf(h, n, v)[m].next = h[m].next
         /\ \A m \in 1 .. Len(h) : m # n => SetBaseOf(h, n, v)[m] = h[m]
<1> DEFINE r == [h[n] EXCEPT !.base_addr = v]
<1>1. h[n] \in Regions
  OBVIOUS
<1>2. /\ r.base_addr = v
      /\ r.size = h[n].size
      /\ r.type = h[n].type
      /\ r.next = h[n].next
      /\ r \in Regions
  BY <1>1 DEF Regions
<1>3. SetBaseOf(h, n, v) = [h EXCEPT ![n] = r]
  BY DEF SetBaseOf
<1> HIDE DEF r
<1>4. /\ [h EXCEPT ![n] = r] \in Seq(Regions) /\ Len([h EXCEPT ![n] = r]) = Len(h)
      /\ \A m \in 1 .. Len(h) : [h EXCEPT ![n] = r][m] = IF m = n THEN r ELSE h[m]
  BY <1>2, ExceptSeq
<1>5. QED
  BY <1>2, <1>3, <1>4

\* The nodes of a heap with one more.
LEMMA Grown ==
  ASSUME NEW h \in Seq(Regions), NEW r \in Regions
  PROVE  /\ Len(Append(h, r)) = Len(h) + 1
         /\ \A m \in 1 .. Len(h) : Append(h, r)[m] = h[m]
         /\ Append(h, r)[Len(h) + 1] = r
BY AppendProperties

-----------------------------------------------------------------------------
(* What the repairs write *)

\* What MergeRight writes.
LEMMA MergeWrites ==
  ASSUME ListTypeOK, MergeRight, this_region \in 1 .. Len(heap),
         next_region \in 1 .. Len(heap)
  PROVE  /\ Len(heap') = Len(heap)
         /\ \A m \in 1 .. Len(heap) :
               /\ heap'[m].base_addr = heap[m].base_addr /\ heap'[m].type = heap[m].type
               /\ heap'[m].size = IF m = this_region
                                  THEN (RightOf(heap, next_region) - heap[this_region].base_addr) % ADDR_MOD
                                  ELSE heap[m].size
               /\ heap'[m].next = IF m = this_region THEN heap[next_region].next ELSE heap[m].next
         /\ \A m \in 1 .. Len(heap) : m # this_region => heap'[m] = heap[m]
<1> DEFINE v == (RightOf(heap, next_region) - heap[this_region].base_addr) % ADDR_MOD
           f == SetSizeOf(heap, this_region, v)
<1>1. heap' = SetNextOf(f, this_region, heap[next_region].next)
  BY DEF MergeRight, SetNextOf, SetSizeOf, NextOf
<1>2. heap \in Seq(Regions) /\ heap[next_region].next \in Nat /\ HeapOK(heap)
  BY ListNodes DEF HeapOK
<1>3. v \in Addresses
  <2>1. RightOf(heap, next_region) - heap[this_region].base_addr \in Int
    <3>1. RightOf(heap, next_region) \in Addresses /\ heap[this_region].base_addr \in Addresses
      BY <1>2, NodeType
    <3>2. QED
      BY <3>1 DEF Addresses
  <2>2. QED
    BY <2>1, ModIsAddress
<1> HIDE DEF v
<1>4. /\ f \in Seq(Regions) /\ Len(f) = Len(heap)
      /\ \A m \in 1 .. Len(heap) :
            /\ f[m].base_addr = heap[m].base_addr
            /\ f[m].size = IF m = this_region THEN v ELSE heap[m].size
            /\ f[m].type = heap[m].type /\ f[m].next = heap[m].next
      /\ \A m \in 1 .. Len(heap) : m # this_region => f[m] = heap[m]
  BY <1>2, <1>3, SetSizeOfWrites
<1> HIDE DEF f
<1>5. this_region \in 1 .. Len(f)
  BY <1>4
<1>6. /\ Len(heap') = Len(f)
      /\ \A m \in 1 .. Len(f) :
            /\ heap'[m].base_addr = f[m].base_addr /\ heap'[m].size = f[m].size
            /\ heap'[m].type = f[m].type
            /\ heap'[m].next = IF m = this_region THEN heap[next_region].next ELSE f[m].next
      /\ \A m \in 1 .. Len(f) : m # this_region => heap'[m] = f[m]
  BY <1>1, <1>2, <1>4, <1>5, SetNextOfWrites
<1>7. QED
  BY <1>4, <1>6 DEF v

\* What ExtendReserved writes.
LEMMA ExtendWrites ==
  ASSUME ListTypeOK, ExtendReserved, this_region \in 1 .. Len(heap),
         next_region \in 1 .. Len(heap)
  PROVE  /\ Len(heap') = Len(heap)
         /\ \A m \in 1 .. Len(heap) :
               /\ heap'[m].next = heap[m].next /\ heap'[m].type = heap[m].type
               /\ heap'[m].size = IF m = next_region
                                  THEN (heap[next_region].size + heap[next_region].base_addr
                                          - RightOf(heap, this_region)) % ADDR_MOD
                                  ELSE heap[m].size
               /\ heap'[m].base_addr = IF m = next_region THEN RightOf(heap, this_region)
                                       ELSE heap[m].base_addr
<1> DEFINE v == (heap[next_region].size + heap[next_region].base_addr
                   - RightOf(heap, this_region)) % ADDR_MOD
           w == RightOf(heap, this_region)
           f == SetSizeOf(heap, next_region, v)
<1>1. heap' = SetBaseOf(f, next_region, w)
  BY DEF ExtendReserved, SetBaseOf, SetSizeOf
<1>2. heap \in Seq(Regions) /\ w \in Addresses /\ HeapOK(heap)
  BY ListNodes, NodeType DEF HeapOK
<1>3. v \in Addresses
  <2>1. heap[next_region].size + heap[next_region].base_addr - RightOf(heap, this_region) \in Int
    BY <1>2, ListNodes DEF Addresses
  <2>2. QED
    BY <2>1, ModIsAddress
<1> HIDE DEF v, w
<1>4. /\ f \in Seq(Regions) /\ Len(f) = Len(heap)
      /\ \A m \in 1 .. Len(heap) :
            /\ f[m].base_addr = heap[m].base_addr
            /\ f[m].size = IF m = next_region THEN v ELSE heap[m].size
            /\ f[m].type = heap[m].type /\ f[m].next = heap[m].next
  BY <1>2, <1>3, SetSizeOfWrites
<1> HIDE DEF f
<1>5. next_region \in 1 .. Len(f)
  BY <1>4
<1>6. /\ Len(SetBaseOf(f, next_region, w)) = Len(f)
      /\ \A m \in 1 .. Len(f) :
            /\ SetBaseOf(f, next_region, w)[m].size = f[m].size
            /\ SetBaseOf(f, next_region, w)[m].base_addr =
                 IF m = next_region THEN w ELSE f[m].base_addr
            /\ SetBaseOf(f, next_region, w)[m].type = f[m].type
            /\ SetBaseOf(f, next_region, w)[m].next = f[m].next
  BY <1>2, <1>4, <1>5, SetBaseOfWrites
<1>7. /\ Len(heap') = Len(f)
      /\ \A m \in 1 .. Len(f) :
            /\ heap'[m].size = f[m].size
            /\ heap'[m].base_addr = IF m = next_region THEN w ELSE f[m].base_addr
            /\ heap'[m].type = f[m].type /\ heap'[m].next = f[m].next
  BY <1>1, <1>6
<1>8. QED
  BY <1>4, <1>7 DEF v, w

\* What TrimNext writes.
LEMMA TrimWrites ==
  ASSUME ListTypeOK, TrimNext, next_region \in 1 .. Len(heap)
  PROVE  /\ Len(heap') = Len(heap)
         /\ \A m \in 1 .. Len(heap) :
               /\ heap'[m].next = heap[m].next /\ heap'[m].type = heap[m].type
               /\ heap'[m].size = IF m = next_region
                                  THEN (heap[next_region].size
                                          - (limit_right - heap[next_region].base_addr)) % ADDR_MOD
                                  ELSE heap[m].size
               /\ heap'[m].base_addr = IF m = next_region THEN limit_right
                                       ELSE heap[m].base_addr
         /\ \A m \in 1 .. Len(heap) : m # next_region => heap'[m] = heap[m]
<1> DEFINE v == (heap[next_region].size - (limit_right - heap[next_region].base_addr)) % ADDR_MOD
           f == SetSizeOf(heap, next_region, v)
<1>1. heap' = SetBaseOf(f, next_region, limit_right)
  BY DEF TrimNext, SetBaseOf, SetSizeOf
<1>2. heap \in Seq(Regions) /\ limit_right \in Addresses /\ HeapOK(heap)
  BY DEF ListTypeOK, HeapOK
<1>3. v \in Addresses
  <2>1. heap[next_region].size - (limit_right - heap[next_region].base_addr) \in Int
    <3>1. heap[next_region].size \in Addresses /\ heap[next_region].base_addr \in Addresses
      BY <1>2, NodeType
    <3>2. QED
      BY <1>2, <3>1 DEF Addresses
  <2>2. QED
    BY <2>1, ModIsAddress
<1> HIDE DEF v
<1>4. /\ f \in Seq(Regions) /\ Len(f) = Len(heap)
      /\ \A m \in 1 .. Len(heap) :
            /\ f[m].base_addr = heap[m].base_addr
            /\ f[m].size = IF m = next_region THEN v ELSE heap[m].size
            /\ f[m].type = heap[m].type /\ f[m].next = heap[m].next
      /\ \A m \in 1 .. Len(heap) : m # next_region => f[m] = heap[m]
  BY <1>2, <1>3, SetSizeOfWrites
<1> HIDE DEF f
<1>5. next_region \in 1 .. Len(f)
  BY <1>4
<1>6. /\ Len(heap') = Len(f)
      /\ \A m \in 1 .. Len(f) :
            /\ heap'[m].size = f[m].size
            /\ heap'[m].base_addr = IF m = next_region THEN limit_right
                                    ELSE f[m].base_addr
            /\ heap'[m].type = f[m].type /\ heap'[m].next = f[m].next
      /\ \A m \in 1 .. Len(f) : m # next_region => heap'[m] = f[m]
  BY <1>1, <1>2, <1>4, <1>5, SetBaseOfWrites
<1>7. QED
  BY <1>4, <1>6 DEF v

\* What DropNext writes.
LEMMA DropWrites ==
  ASSUME ListTypeOK, DropNext, this_region \in 1 .. Len(heap), next_region \in 1 .. Len(heap)
  PROVE  /\ Len(heap') = Len(heap)
         /\ \A m \in 1 .. Len(heap) :
               /\ heap'[m].base_addr = heap[m].base_addr /\ heap'[m].size = heap[m].size
               /\ heap'[m].type = heap[m].type
               /\ heap'[m].next = IF m = this_region THEN heap[next_region].next ELSE heap[m].next
         /\ \A m \in 1 .. Len(heap) : m # this_region => heap'[m] = heap[m]
<1> DEFINE v == heap[next_region].next
<1>1. heap' = SetNextOf(heap, this_region, v)
  BY DEF DropNext, SetNextOf, NextOf
<1>2. heap \in Seq(Regions) /\ v \in Nat
  BY ListNodes DEF HeapOK
<1>3. /\ Len(heap') = Len(heap)
      /\ \A m \in 1 .. Len(heap) :
            /\ heap'[m].base_addr = heap[m].base_addr /\ heap'[m].size = heap[m].size
            /\ heap'[m].type = heap[m].type
            /\ heap'[m].next = IF m = this_region THEN v ELSE heap[m].next
      /\ \A m \in 1 .. Len(heap) : m # this_region => heap'[m] = heap[m]
  <2> HIDE DEF v
  <2>1. QED
    BY <1>1, <1>2, SetNextOfWrites
<1>4. QED
  BY <1>3

\* What PadGap writes.
LEMMA PadWrites ==
  ASSUME ListTypeOK, PadGap, this_region \in 1 .. Len(heap), next_region \in 1 .. Len(heap),
         NEW q, q = Len(heap) + 1
  PROVE  /\ Len(heap') = Len(heap) + 1
         /\ \A m \in 1 .. Len(heap) :
               /\ heap'[m].base_addr = heap[m].base_addr /\ heap'[m].size = heap[m].size
               /\ heap'[m].type = heap[m].type
               /\ heap'[m].next = IF m = this_region THEN q ELSE heap[m].next
         /\ \A m \in 1 .. Len(heap) : m # this_region => heap'[m] = heap[m]
         /\ heap'[q].next = next_region /\ heap'[q].type = SYSINFO_MT_RESERVED
         /\ heap'[q].base_addr = RightOf(heap, this_region)
         /\ heap'[q].size = heap[next_region].base_addr - RightOf(heap, this_region)
<1> DEFINE r == [next      |-> next_region,
                 base_addr |-> RightOf(heap, this_region),
                 size      |-> heap[next_region].base_addr - RightOf(heap, this_region),
                 type      |-> SYSINFO_MT_RESERVED]
           f == SetNextOf(heap, this_region, q)
<1>1. heap' = Append(f, r)
  BY DEF PadGap, SetNextOf
<1>2. heap \in Seq(Regions) /\ q \in Nat /\ HeapOK(heap)
  BY ListNodes DEF HeapOK
<1>3. RightOf(heap, this_region) < heap[next_region].base_addr
  BY DEF PadGap, GapRight
<1>4. r \in Regions
  <2>1. RightOf(heap, this_region) \in Addresses /\ heap[next_region].base_addr \in Addresses
    BY <1>2, NodeType
  <2>2. heap[next_region].base_addr - RightOf(heap, this_region) \in Addresses
    BY <1>3, <2>1, AddrModAssumption DEF Addresses
  <2>3. next_region \in Nat /\ SYSINFO_MT_RESERVED \in MemTypes
    BY DEF SYSINFO_MT_RESERVED, MemTypes, SYSINFO_MT_USABLE
  <2>4. QED
    BY <2>1, <2>2, <2>3 DEF Regions
<1>5. /\ r.next = next_region /\ r.type = SYSINFO_MT_RESERVED
      /\ r.base_addr = RightOf(heap, this_region)
      /\ r.size = heap[next_region].base_addr - RightOf(heap, this_region)
  OBVIOUS
<1> HIDE DEF r
<1>6. /\ f \in Seq(Regions) /\ Len(f) = Len(heap)
      /\ \A m \in 1 .. Len(heap) :
               /\ f[m].base_addr = heap[m].base_addr /\ f[m].size = heap[m].size
               /\ f[m].type = heap[m].type
               /\ f[m].next = IF m = this_region THEN q ELSE heap[m].next
      /\ \A m \in 1 .. Len(heap) : m # this_region => f[m] = heap[m]
  BY <1>2, SetNextOfWrites
<1> HIDE DEF f
<1>7. /\ Len(heap') = Len(f) + 1
      /\ \A m \in 1 .. Len(f) : heap'[m] = f[m]
      /\ heap'[Len(f) + 1] = r
  BY <1>1, <1>4, <1>6, Grown
<1>8. QED
  BY <1>5, <1>6, <1>7

\* What CutThis writes.
LEMMA CutWrites ==
  ASSUME ListTypeOK, this_region \in 1 .. Len(heap), next_region \in 1 .. Len(heap)
  PROVE  /\ CutHeap \in Seq(Regions) /\ Len(CutHeap) = Len(heap)
         /\ \A m \in 1 .. Len(heap) :
               /\ CutHeap[m].base_addr = heap[m].base_addr
               /\ CutHeap[m].size = IF m = this_region
                                    THEN (heap[next_region].base_addr
                                            - heap[this_region].base_addr) % ADDR_MOD
                                    ELSE heap[m].size
               /\ CutHeap[m].type = heap[m].type
               /\ CutHeap[m].next = heap[m].next
         /\ \A m \in 1 .. Len(heap) : m # this_region => CutHeap[m] = heap[m]
<1> DEFINE v == (heap[next_region].base_addr - heap[this_region].base_addr) % ADDR_MOD
<1>1. CutHeap = SetSizeOf(heap, this_region, v)
  BY DEF CutHeap, SetSizeOf
<1>2. v \in Addresses
  <2>1. heap[next_region].base_addr - heap[this_region].base_addr \in Int
    BY ListNodes DEF Addresses
  <2>2. QED
    BY <2>1, ModIsAddress
<1>3. heap \in Seq(Regions)
  BY ListNodes
<1> HIDE DEF v
<1> DEFINE c == SetSizeOf(heap, this_region, v)
<1>4. /\ c \in Seq(Regions) /\ Len(c) = Len(heap)
      /\ \A m \in 1 .. Len(heap) :
            /\ c[m].base_addr = heap[m].base_addr
            /\ c[m].size = IF m = this_region THEN v ELSE heap[m].size
            /\ c[m].type = heap[m].type
            /\ c[m].next = heap[m].next
      /\ \A m \in 1 .. Len(heap) : m # this_region => c[m] = heap[m]
  BY <1>2, <1>3, SetSizeOfWrites
<1>5. CutHeap = c
  BY <1>1
<1> HIDE DEF c
<1>6. QED
  BY <1>4, <1>5 DEF v

\* What SplitThis writes.
LEMMA SplitWrites ==
  ASSUME ListTypeOK, SplitThis, this_region \in 1 .. Len(heap), next_region \in 1 .. Len(heap),
         NEW q, q = Len(heap) + 1
  PROVE  /\ Len(heap') = Len(heap) + 1
         /\ \A m \in 1 .. Len(heap) :
               /\ heap'[m].base_addr = heap[m].base_addr /\ heap'[m].type = heap[m].type
               /\ heap'[m].size = CutHeap[m].size
               /\ heap'[m].next = IF m = next_region THEN q ELSE heap[m].next
         /\ heap'[q].next = heap[next_region].next /\ heap'[q].type = heap[this_region].type
         /\ heap'[q].base_addr = RightOf(heap, next_region)
         /\ heap'[q].size = limit_right - RightOf(heap, next_region)
<1> DEFINE r == [next      |-> heap[next_region].next,
                 base_addr |-> RightOf(heap, next_region),
                 size      |-> limit_right - RightOf(heap, next_region),
                 type      |-> heap[this_region].type]
           c == CutHeap
           f == SetNextOf(c, next_region, q)
<1>1. heap' = Append(f, r)
  BY DEF SplitThis, SetNextOf, NextOf
<1>2. limit_right > RightOf(heap, next_region) /\ limit_right \in Addresses
  BY DEF SplitThis, ListTypeOK
<1>3. r \in Regions
  <2>1. RightOf(heap, next_region) \in Addresses /\ heap[next_region].next \in Nat
        /\ heap[this_region].type \in MemTypes
    BY ListNodes
  <2>2. limit_right - RightOf(heap, next_region) \in Addresses
    BY <1>2, <2>1, AddrModAssumption DEF Addresses
  <2>3. QED
    BY <2>1, <2>2 DEF Regions
<1>4. /\ r.next = heap[next_region].next /\ r.type = heap[this_region].type
      /\ r.base_addr = RightOf(heap, next_region)
      /\ r.size = limit_right - RightOf(heap, next_region)
  OBVIOUS
<1> HIDE DEF r
<1>5. /\ c \in Seq(Regions) /\ Len(c) = Len(heap)
      /\ \A m \in 1 .. Len(heap) : /\ c[m].base_addr = heap[m].base_addr
                                   /\ c[m].type = heap[m].type /\ c[m].next = heap[m].next
                                   /\ c[m].size = CutHeap[m].size
  BY CutWrites
<1>6. q \in Nat /\ Len(heap) \in Nat /\ next_region \in 1 .. Len(c)
  BY <1>5, ListNodes
<1> HIDE DEF c
<1>7. /\ f \in Seq(Regions) /\ Len(f) = Len(c)
      /\ \A m \in 1 .. Len(c) :
               /\ f[m].base_addr = c[m].base_addr /\ f[m].size = c[m].size
               /\ f[m].type = c[m].type
               /\ f[m].next = IF m = next_region THEN q ELSE c[m].next
  BY <1>5, <1>6, SetNextOfWrites
<1> HIDE DEF f
<1>8. /\ Len(heap') = Len(f) + 1
      /\ \A m \in 1 .. Len(f) : heap'[m] = f[m]
      /\ heap'[Len(f) + 1] = r
  BY <1>1, <1>3, <1>7, Grown
<1>9. QED
  BY <1>4, <1>5, <1>6, <1>7, <1>8
=============================================================================
