---------------------------- MODULE Stage0Proofs ----------------------------
(***************************************************************************)
(* Proofs about stage0 for every set of values BPB_RsvdSecCnt may have.    *)
(***************************************************************************)
EXTENDS Stage0, TLAPS

\* What the type invariant needs of the history to be inductive is in TypeOK.
LEMMA InitTypeOK == Init => TypeOK
BY RsvdCountsAssumption DEF Init, TypeOK, Words, WORD, STAGE1_OFFSET

\* A chunk is copied to addresses, and names sectors.
LEMMA ChunkLoadsType ==
  ASSUME TypeOK, NEW n \in Nat, NEW wraps \in BOOLEAN
  PROVE  ChunkLoads(n, wraps) \subseteq [sector : Nat, address : Nat]
<1>1. dap_lba \in Nat
  BY DEF TypeOK, dap_lba, Words, WORD
<1>2. \A i \in 0 .. n - 1 : Address(i, wraps) \in Nat
  BY DEF TypeOK, Address, Words, WORD, SECTOR
<1>3. QED
  BY <1>1, <1>2 DEF ChunkLoads, Load

LEMMA ChunkType ==
  ASSUME TypeOK
  PROVE  Chunk \in Nat /\ Chunk <= MAX_CHUNK /\ cx - Chunk \in Words
BY DEF TypeOK, Chunk, Words, WORD, MAX_CHUNK

\* The two 16-bit additions stay 16-bit words.
LEMMA PacketType ==
  ASSUME TypeOK, NEW n \in Nat, AdvanceLba(n), AdvanceDestination(n)
  PROVE  /\ dap_off' \in Words /\ dap_seg' \in Words
         /\ lba_low' \in Words /\ lba_high' \in Words
<1>1. Shifted(n) \in Words
  BY DEF Shifted, Words, WORD, SECTOR
<1>2. QED
  BY <1>1 DEF TypeOK, AdvanceLba, AdvanceDestination, Words, WORD

LEMMA NextTypeOK == TypeOK /\ [Next]_vars => TypeOK'
<1> SUFFICES ASSUME TypeOK, [Next]_vars PROVE TypeOK'
  OBVIOUS
<1> rsvd \in Words
  BY RsvdCountsAssumption DEF TypeOK
<1>1. CASE StartReading
  BY <1>1 DEF StartReading, TypeOK, dapVars
<1>2. CASE NothingToDo
  BY <1>2 DEF NothingToDo, TypeOK, dapVars, Words, WORD
<1>3. CASE NoExtensions
  BY <1>3 DEF NoExtensions, TypeOK, dapVars
<1>4. CASE ReadFails
  BY <1>4 DEF ReadFails, TypeOK, dapVars
<1>5. ASSUME NEW wraps \in BOOLEAN, ReadChunk(wraps) PROVE TypeOK'
  <2>1. loads' \subseteq [sector : Nat, address : Nat]
    BY <1>5, ChunkType, ChunkLoadsType DEF ReadChunk, TypeOK, MAX_CHUNK
  <2>2. /\ dap_off' \in Words /\ dap_seg' \in Words
         /\ lba_low' \in Words /\ lba_high' \in Words
    BY <1>5, ChunkType, PacketType DEF ReadChunk, MAX_CHUNK
  <2>3. cx' \in Words
    BY <1>5, ChunkType DEF ReadChunk
  <2>4. QED
    BY <1>5, <2>1, <2>2, <2>3 DEF ReadChunk, TypeOK
<1>6. ASSUME NEW wraps \in BOOLEAN, ReadLastChunk(wraps) PROVE TypeOK'
  <2>1. loads' \subseteq [sector : Nat, address : Nat]
    BY <1>6, ChunkType, ChunkLoadsType DEF ReadLastChunk, TypeOK, MAX_CHUNK
  <2>2. cx' \in Words
    BY <1>6, ChunkType DEF ReadLastChunk
  <2>3. sp' \in Words
    BY <1>6 DEF ReadLastChunk, TypeOK, Words, WORD
  <2>4. QED
    BY <1>6, <2>1, <2>2, <2>3 DEF ReadLastChunk, TypeOK, dapVars
<1>7. CASE UNCHANGED vars
  BY <1>7 DEF vars, TypeOK
<1>8. QED
  BY <1>1, <1>2, <1>3, <1>4, <1>5, <1>6, <1>7 DEF Next

\* Registers, packet and history keep their types: no addition of the code leaves
\* the width it is done in.
THEOREM TypeCorrect == Spec => []TypeOK
BY InitTypeOK, NextTypeOK, PTL DEF Spec

-----------------------------------------------------------------------------
(* The order of the sectors *)

\* ReadsInOrder, with what it needs of the state before the first chunk
OrderInv ==
  /\ pc = "start" => loads = {} /\ lba_low = 1 /\ lba_high = 0
  /\ pc = "read" => cx \in 1 .. rsvd /\ lba_high = 0
  /\ ReadsInOrder

\* What a chunk that starts at sector s adds to the sectors 1 .. s - 1.
LEMMA ChunkSectors ==
  ASSUME NEW n \in Nat, NEW wraps \in BOOLEAN, dap_lba \in Nat \ {0},
         SectorsRead = 1 .. dap_lba - 1, loads' = loads \cup ChunkLoads(n, wraps)
  PROVE  SectorsRead' = 1 .. dap_lba - 1 + n
<1>1. ASSUME NEW x
      PROVE  x \in SectorsRead' <=> x \in SectorsRead \/ \E i \in 0 .. n - 1 : x = dap_lba + i
  <2>1. x \in SectorsRead' <=> \E l \in loads \cup ChunkLoads(n, wraps) : x = l.sector
    BY DEF SectorsRead
  <2>2. x \in SectorsRead <=> \E l \in loads : x = l.sector
    BY DEF SectorsRead
  <2>3. (\E l \in ChunkLoads(n, wraps) : x = l.sector) <=> \E i \in 0 .. n - 1 : x = dap_lba + i
    <3>1. ASSUME NEW l \in ChunkLoads(n, wraps)
          PROVE  \E i \in 0 .. n - 1 : l.sector = dap_lba + i
      <4>1. PICK i \in 0 .. n - 1 : l = Load(dap_lba + i, Address(i, wraps))
        BY DEF ChunkLoads
      <4>2. QED
        BY <4>1 DEF Load
    <3>2. ASSUME NEW i \in 0 .. n - 1
          PROVE  \E l \in ChunkLoads(n, wraps) : l.sector = dap_lba + i
      <4>1. Load(dap_lba + i, Address(i, wraps)) \in ChunkLoads(n, wraps)
        BY DEF ChunkLoads
      <4>2. QED
        BY <4>1 DEF Load
    <3>3. QED
      BY <3>1, <3>2
  <2>4. QED
    BY <2>1, <2>2, <2>3
<1>2. ASSUME NEW x
      PROVE  x \in dap_lba .. dap_lba - 1 + n <=> \E i \in 0 .. n - 1 : x = dap_lba + i
  <2>1. ASSUME x \in dap_lba .. dap_lba - 1 + n
        PROVE  x - dap_lba \in 0 .. n - 1 /\ x = dap_lba + (x - dap_lba)
    BY <2>1
  <2>2. ASSUME NEW i \in 0 .. n - 1, x = dap_lba + i
        PROVE  x \in dap_lba .. dap_lba - 1 + n
    BY <2>2
  <2>3. QED
    BY <2>1, <2>2
<1>3. ASSUME NEW x
      PROVE  x \in 1 .. dap_lba - 1 + n <=> x \in 1 .. dap_lba - 1 \/ x \in dap_lba .. dap_lba - 1 + n
  OBVIOUS
<1>4. \A x : x \in SectorsRead' <=> x \in 1 .. dap_lba - 1 + n
  BY <1>1, <1>2, <1>3
<1>5. QED
  BY <1>4

LEMMA NextOrder == TypeOK /\ OrderInv /\ [Next]_vars => OrderInv'
<1> SUFFICES ASSUME TypeOK, OrderInv, [Next]_vars PROVE OrderInv'
  OBVIOUS
<1> rsvd \in Words
  BY RsvdCountsAssumption DEF TypeOK
<1>1. CASE StartReading
  <2>1. SectorsRead' = {}
    BY <1>1 DEF StartReading, OrderInv, SectorsRead
  <2>2. QED
    BY <1>1, <2>1 DEF StartReading, OrderInv, ReadsInOrder, dapVars, dap_lba, Words, WORD
<1>2. CASE NothingToDo
  BY <1>2 DEF NothingToDo, OrderInv, ReadsInOrder
<1>3. CASE NoExtensions
  BY <1>3 DEF NoExtensions, OrderInv, ReadsInOrder
<1>4. CASE ReadFails
  BY <1>4 DEF ReadFails, OrderInv, ReadsInOrder
<1>5. ASSUME NEW wraps \in BOOLEAN, ReadChunk(wraps) PROVE OrderInv'
  <2>1. /\ Chunk \in Nat /\ dap_lba \in Nat \ {0}
        /\ dap_lba = rsvd - cx + 1
        /\ dap_lba + Chunk \in 1 .. rsvd
        /\ SectorsRead = 1 .. dap_lba - 1
    BY <1>5 DEF ReadChunk, OrderInv, ReadsInOrder, Chunk, MAX_CHUNK, TypeOK, Words, WORD
  <2>2. SectorsRead' = 1 .. dap_lba - 1 + Chunk
    BY <1>5, <2>1, ChunkSectors DEF ReadChunk
  <2>3. lba_low' = dap_lba + Chunk /\ lba_high' = 0
    BY <1>5, <2>1 DEF ReadChunk, OrderInv, AdvanceLba, dap_lba, TypeOK, Words, WORD
  <2>4. QED
    BY <1>5, <2>1, <2>2, <2>3
       DEF ReadChunk, OrderInv, ReadsInOrder, dap_lba, TypeOK, Words, WORD
<1>6. ASSUME NEW wraps \in BOOLEAN, ReadLastChunk(wraps) PROVE OrderInv'
  <2>1. /\ Chunk = cx
        /\ dap_lba = rsvd - cx + 1
        /\ SectorsRead = 1 .. dap_lba - 1
        /\ Chunk \in Nat /\ dap_lba \in Nat \ {0}
    BY <1>6 DEF ReadLastChunk, OrderInv, ReadsInOrder, Chunk, MAX_CHUNK, TypeOK, Words, WORD
  <2>2. SectorsRead' = 1 .. dap_lba - 1 + Chunk
    BY <1>6, <2>1, ChunkSectors DEF ReadLastChunk
  <2>3. SectorsRead' = 1 .. rsvd
    BY <2>1, <2>2 DEF TypeOK, Words, WORD
  <2>4. QED
    BY <1>6, <2>3 DEF ReadLastChunk, OrderInv, ReadsInOrder
<1>7. CASE UNCHANGED vars
  BY <1>7 DEF vars, OrderInv, ReadsInOrder, SectorsRead, dap_lba
<1>8. QED
  BY <1>1, <1>2, <1>3, <1>4, <1>5, <1>6, <1>7 DEF Next

\* For every count the reserved sectors are read once each and in order, and all
\* of them before stage0 jumps.
THEOREM ReadsInOrderAlways == Spec => []ReadsInOrder
<1>1. Init => OrderInv
  BY DEF Init, OrderInv, ReadsInOrder
<1>2. OrderInv => ReadsInOrder
  BY DEF OrderInv
<1>3. QED
  BY <1>1, <1>2, NextOrder, TypeCorrect, PTL DEF Spec

-----------------------------------------------------------------------------
(* The place of the sectors *)

\* Up to 126 sectors there is only one chunk, read with the packet as assembled.
FirstChunk ==
  /\ pc \in {"start", "read"} =>
       /\ loads = {}
       /\ sp = 0
       /\ dap_off = STAGE1_OFFSET /\ dap_seg = 0
       /\ lba_low = 1 /\ lba_high = 0
  /\ pc = "read" => cx = rsvd

PlaceInv ==
  /\ rsvd < MAX_CHUNK => FirstChunk
  /\ Stage1InPlace
  /\ Stage0Survives

\* Sector by sector, the only chunk of up to 64 goes home, whatever the firmware
\* does at the end of the segment, which it does not reach.
LEMMA ChunkGoesHome ==
  ASSUME TypeOK, FirstChunk, pc = "read", rsvd <= 64, NEW wraps \in BOOLEAN
  PROVE  ChunkLoads(rsvd, wraps) = {Load(k, Home(k)) : k \in 1 .. rsvd}
<1> rsvd \in Nat
  BY RsvdCountsAssumption DEF TypeOK, Words
<1>1. \A i \in 0 .. rsvd - 1 : Address(i, wraps) = Home(i + 1) /\ dap_lba + i = i + 1
  BY DEF FirstChunk, Address, Home, dap_lba, STAGE1_OFFSET, SECTOR, WORD
<1>2. ASSUME NEW l \in ChunkLoads(rsvd, wraps)
      PROVE  l \in {Load(k, Home(k)) : k \in 1 .. rsvd}
  <2>1. PICK i \in 0 .. rsvd - 1 : l = Load(dap_lba + i, Address(i, wraps))
    BY DEF ChunkLoads
  <2>2. l = Load(i + 1, Home(i + 1)) /\ i + 1 \in 1 .. rsvd
    BY <1>1, <2>1
  <2>3. QED
    BY <2>2
<1>3. ASSUME NEW k \in 1 .. rsvd
      PROVE  Load(k, Home(k)) \in ChunkLoads(rsvd, wraps)
  <2>1. k - 1 \in 0 .. rsvd - 1 /\ (k - 1) + 1 = k
    OBVIOUS
  <2>2. Load(k, Home(k)) = Load(dap_lba + (k - 1), Address(k - 1, wraps))
    BY <1>1, <2>1
  <2>3. QED
    BY <2>1, <2>2 DEF ChunkLoads
<1>4. QED
  BY <1>2, <1>3

\* Two sectors at home do not lie on each other, nor does the pushed word on one of
\* the first 63.
LEMMA HomesApart ==
  /\ \A k, m \in Nat : k # m => ~Overlaps(Home(m), Home(k), SECTOR)
  /\ \A k \in 1 .. 63 : ~Overlaps(Home(k), 65534, 2)
BY DEF Overlaps, Home, SECTOR, STAGE1_OFFSET

\* Nor does that chunk reach stage0.
LEMMA ChunkMissesStage0 ==
  ASSUME TypeOK, FirstChunk, pc = "read", rsvd < MAX_CHUNK, NEW wraps \in BOOLEAN
  PROVE  ~OverwritesStage0(ChunkLoads(rsvd, wraps))
<1> rsvd \in Nat
  BY RsvdCountsAssumption DEF TypeOK, Words
<1>1. \A i \in 0 .. rsvd - 1 : ~Overlaps(Address(i, wraps), STAGE0_PHY_ADDR, SECTOR)
  BY DEF FirstChunk, Address, Overlaps, STAGE0_PHY_ADDR, STAGE1_OFFSET, SECTOR, WORD, MAX_CHUNK
<1>2. ASSUME NEW l \in ChunkLoads(rsvd, wraps)
      PROVE  \E i \in 0 .. rsvd - 1 : l.address = Address(i, wraps)
  <2>1. PICK i \in 0 .. rsvd - 1 : l = Load(dap_lba + i, Address(i, wraps))
    BY DEF ChunkLoads
  <2>2. QED
    BY <2>1 DEF Load
<1>3. QED
  BY <1>1, <1>2 DEF OverwritesStage0

LEMMA NextPlace == TypeOK /\ PlaceInv /\ [Next]_vars => PlaceInv'
<1> SUFFICES ASSUME TypeOK, PlaceInv, [Next]_vars PROVE PlaceInv'
  OBVIOUS
<1> USE DEF FirstChunk, Stage0Survives
<1> rsvd \in Nat
  BY RsvdCountsAssumption DEF TypeOK, Words
<1>1. CASE StartReading
  BY <1>1 DEF StartReading, PlaceInv, Stage1InPlace, dapVars
<1>2. CASE NothingToDo
  BY <1>2 DEF NothingToDo, PlaceInv, Stage1InPlace
<1>3. CASE NoExtensions
  BY <1>3 DEF NoExtensions, PlaceInv, Stage1InPlace
<1>4. CASE ReadFails
  BY <1>4 DEF ReadFails, PlaceInv, Stage1InPlace
<1>5. ASSUME NEW wraps \in BOOLEAN, ReadChunk(wraps) PROVE PlaceInv'
  <2>1. rsvd >= MAX_CHUNK
    BY <1>5 DEF ReadChunk, PlaceInv, Chunk, MAX_CHUNK
  <2>2. rsvd' = rsvd /\ pc' # "stage1"
    BY <1>5 DEF ReadChunk
  <2>3. QED
    BY <2>1, <2>2 DEF PlaceInv, Stage1InPlace, MAX_CHUNK
<1>6. ASSUME NEW wraps \in BOOLEAN, ReadLastChunk(wraps) PROVE PlaceInv'
  <2> rsvd' = rsvd /\ pc = "read" /\ pc' \in {"stage1", "overwritten"}
    BY <1>6 DEF ReadLastChunk
  <2>6. rsvd < MAX_CHUNK => FirstChunk' /\ Stage0Survives'
    <3>1. SUFFICES ASSUME rsvd < MAX_CHUNK PROVE Stage0Survives'
      OBVIOUS
    <3>2. Chunk = rsvd
      BY <3>1 DEF PlaceInv, Chunk, MAX_CHUNK
    <3>3. QED
      BY <1>6, <3>1, <3>2, ChunkMissesStage0 DEF ReadLastChunk, PlaceInv
  <2>1. SUFFICES ASSUME pc' = "stage1", rsvd <= 64 PROVE Stage1InPlace'
    BY <2>6 DEF PlaceInv, Stage1InPlace
  <2>2. pc = "read" /\ Chunk = rsvd /\ rsvd' = rsvd /\ sp' = 65534
    BY <1>6, <2>1 DEF ReadLastChunk, PlaceInv, Chunk, MAX_CHUNK, WORD
  <2>3. loads' = {Load(k, Home(k)) : k \in 1 .. rsvd}
    BY <1>6, <2>1, <2>2, ChunkGoesHome DEF ReadLastChunk, PlaceInv, MAX_CHUNK
  <2>4. ASSUME NEW k \in 1 .. rsvd - 1
        PROVE  /\ Load(k, Home(k)) \in loads'
               /\ \A l \in loads' : l.sector # k => ~Overlaps(l.address, Home(k), SECTOR)
               /\ ~Overlaps(Home(k), sp', 2)
    <3>1. Load(k, Home(k)) \in loads'
      BY <2>3
    <3>2. ASSUME NEW l \in loads', l.sector # k
          PROVE  ~Overlaps(l.address, Home(k), SECTOR)
      <4>1. PICK m \in 1 .. rsvd : l = Load(m, Home(m))
        BY <2>3
      <4>2. l.address = Home(m) /\ m # k
        BY <3>2, <4>1 DEF Load
      <4>3. QED
        BY <4>2, HomesApart
    <3>3. ~Overlaps(Home(k), sp', 2)
      BY <2>1, <2>2, HomesApart
    <3>4. QED
      BY <3>1, <3>2, <3>3
  <2>5. QED
    BY <2>2, <2>4 DEF Stage1InPlace, Stage1Sectors, Home
<1>7. CASE UNCHANGED vars
  BY <1>7 DEF vars, PlaceInv, Stage1InPlace, Stage1Sectors
<1>8. QED
  BY <1>1, <1>2, <1>3, <1>4, <1>5, <1>6, <1>7 DEF Next

LEMMA InitPlace == Init => PlaceInv
BY DEF Init, PlaceInv, FirstChunk, Stage1InPlace, Stage0Survives

\* A stage1 of up to 63 sectors is entered with every sector in its place and
\* nothing on it, whatever the firmware does at the end of a segment.
THEOREM Stage1InPlaceAlways == Spec => []Stage1InPlace
<1>1. PlaceInv => Stage1InPlace
  BY DEF PlaceInv
<1>2. QED
  BY <1>1, InitPlace, NextPlace, TypeCorrect, PTL DEF Spec

\* With fewer than 127 reserved sectors stage0 is not overwritten while it runs.
THEOREM Stage0SurvivesAlways == Spec => []Stage0Survives
<1>1. PlaceInv => Stage0Survives
  BY DEF PlaceInv
<1>2. QED
  BY <1>1, InitPlace, NextPlace, TypeCorrect, PTL DEF Spec
=============================================================================
