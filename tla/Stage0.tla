------------------------------- MODULE Stage0 -------------------------------
(***************************************************************************)
(* The boot sector, stage0/main.S: it asks the firmware to read the        *)
(* reserved sectors of the disk to STAGE1_OFFSET, 127 at a time at most,   *)
(* and jumps there.                                                        *)
(*                                                                         *)
(* The registers and the disk address packet have the widths they have in  *)
(* the code.  int 13h is not part of the repository: it fails, or it       *)
(* copies the sectors to segment * 16 + offset and up; where the transfer  *)
(* passes the end of the segment it either goes on or wraps to the         *)
(* segment's start (the case the FIXME at the call is about).              *)
(***************************************************************************)
EXTENDS Integers

CONSTANT RSVD_COUNTS   \* values of BPB_RsvdSecCnt, a 16-bit word

WORD == 65536
SECTOR == 512
MAX_CHUNK == 127
STAGE1_OFFSET == 32768     \* 0x8000
STAGE0_PHY_ADDR == 31744   \* 0x7c00

Words == {w \in Nat : w < WORD}

ASSUME RsvdCountsAssumption == RSVD_COUNTS \subseteq Words

VARIABLES
  pc,        \* "start", "read", "stage1" (jumped there), "halted", "overwritten"
  rsvd,      \* BPB_RsvdSecCnt
  cx,        \* sectors still to read
  sp,        \* the stack pointer
  dap_off, dap_seg,
  lba_low, lba_high,  \* the words dap_lba+0 and dap_lba+2
  loads      \* history: which sector was copied to which address

vars == <<pc, rsvd, cx, sp, dap_off, dap_seg, lba_low, lba_high, loads>>

Load(sector, address) == [sector |-> sector, address |-> address]

\* the packet names the boot sector first
Init_BootSectorFirst ==
  /\ pc = "start" /\ rsvd \in RSVD_COUNTS /\ cx = 0 /\ sp = 0
  /\ dap_off = STAGE1_OFFSET /\ dap_seg = 0
  /\ lba_low = 0 /\ lba_high = 0 /\ loads = {}

\* the packet points below stage0
Init_BelowStage0 ==
  /\ pc = "start" /\ rsvd \in RSVD_COUNTS /\ cx = 0 /\ sp = 0
  /\ dap_off = STAGE0_PHY_ADDR - 4 * SECTOR /\ dap_seg = 0
  /\ lba_low = 1 /\ lba_high = 0 /\ loads = {}

\* %sp is loaded from the word AT stack_bottom, which the linker fills with 0
Init ==
  /\ pc = "start"
  /\ rsvd \in RSVD_COUNTS
  /\ cx = 0
  /\ sp = 0
  /\ dap_off = STAGE1_OFFSET
  /\ dap_seg = 0
  /\ lba_low = 1
  /\ lba_high = 0
  /\ loads = {}

dapVars == <<dap_off, dap_seg, lba_low, lba_high>>

\* int 13h extensions are there, and there is something to read
StartReading ==
  /\ pc = "start"
  /\ rsvd # 0
  /\ cx' = rsvd
  /\ pc' = "read"
  /\ UNCHANGED <<rsvd, sp, dapVars, loads>>

NothingToDo ==
  /\ pc = "start"
  /\ rsvd = 0
  /\ cx' = 0
  /\ pc' = "halted"
  /\ UNCHANGED <<rsvd, sp, dapVars, loads>>

NoExtensions ==
  /\ pc = "start"
  /\ pc' = "halted"
  /\ UNCHANGED <<rsvd, cx, sp, dapVars, loads>>

Chunk == IF cx <= MAX_CHUNK THEN cx ELSE MAX_CHUNK

dap_lba == lba_low + lba_high * WORD

\* where the firmware puts the i-th sector of the chunk
Address(i, wraps) ==
  IF wraps THEN dap_seg * 16 + ((dap_off + i * SECTOR) % WORD)
           ELSE dap_seg * 16 + dap_off + i * SECTOR

ChunkLoads(n, wraps) == {Load(dap_lba + i, Address(i, wraps)) : i \in 0 .. n - 1}

Overlaps(a, b, size) == a < b + size /\ b < a + SECTOR

OverwritesStage0(new) ==
  \E l \in new : Overlaps(l.address, STAGE0_PHY_ADDR, SECTOR)

AdvanceLba_M(n) == UNCHANGED <<lba_low, lba_high>>

\* the packet for the next chunk: two 16-bit additions with carry
AdvanceLba(n) ==
  /\ lba_low' = (lba_low + n) % WORD
  /\ lba_high' = (lba_high + (lba_low + n) \div WORD) % WORD

\* %bx shifted left by 9
Shifted(n) == (n * SECTOR) % WORD

AdvanceDestination_M(n) ==
  /\ dap_off' = dap_off + n * SECTOR
  /\ dap_seg' = dap_seg

AdvanceDestination(n) ==
  /\ dap_off' = (dap_off + Shifted(n)) % WORD
  /\ dap_seg' = (dap_seg + (dap_off + Shifted(n)) \div WORD) % WORD

ReadFails ==
  /\ pc = "read"
  /\ pc' = "halted"
  /\ UNCHANGED <<rsvd, cx, sp, dapVars, loads>>

ReadChunk(wraps) ==
  /\ pc = "read"
  /\ cx > Chunk
  /\ loads' = loads \cup ChunkLoads(Chunk, wraps)
  /\ cx' = cx - Chunk
  /\ AdvanceLba(Chunk)
  /\ AdvanceDestination(Chunk)
  /\ pc' = IF OverwritesStage0(ChunkLoads(Chunk, wraps)) THEN "overwritten" ELSE "read"
  /\ UNCHANGED <<rsvd, sp>>

\* the last chunk; the drive number is pushed and stage1 entered
ReadLastChunk(wraps) ==
  /\ pc = "read"
  /\ cx <= Chunk
  /\ loads' = loads \cup ChunkLoads(Chunk, wraps)
  /\ cx' = cx - Chunk
  /\ IF OverwritesStage0(ChunkLoads(Chunk, wraps))
     THEN pc' = "overwritten" /\ sp' = sp
     ELSE pc' = "stage1" /\ sp' = (sp - 2) % WORD
  /\ UNCHANGED <<rsvd, dapVars>>

Next ==
  \/ StartReading \/ NothingToDo \/ NoExtensions \/ ReadFails
  \/ \E wraps \in BOOLEAN : ReadChunk(wraps) \/ ReadLastChunk(wraps)

Spec == Init /\ [][Next]_vars

-----------------------------------------------------------------------------
TypeOK ==
  /\ pc \in {"start", "read", "stage1", "halted", "overwritten"}
  /\ rsvd \in RSVD_COUNTS
  /\ cx \in Words /\ sp \in Words
  /\ dap_off \in Words /\ dap_seg \in Words
  /\ lba_low \in Words /\ lba_high \in Words
  /\ loads \subseteq [sector : Nat, address : Nat]

SectorsRead == {l.sector : l \in loads}

\* Whatever the count, the sectors are read from the first on, without a gap and
\* without reading one twice: the two-word LBA follows the count down.
ReadsInOrder ==
  /\ pc = "read" => SectorsRead = 1 .. rsvd - cx /\ dap_lba = rsvd - cx + 1
  /\ pc = "stage1" => SectorsRead = 1 .. rsvd

\* where stage1 is linked to have its k-th sector
Home(k) == STAGE1_OFFSET + (k - 1) * SECTOR

\* stage1 and stage0 are rsvd sectors
Stage1Sectors == 1 .. rsvd - 1

\* When stage0 jumps, every sector of stage1 is where stage1 is linked to be, and
\* neither another sector nor the word pushed last lies on it: up to 64 sectors,
\* which end where the first segment ends.  The 65th takes stage1 to the stack.
Stage1InPlace ==
  (pc = "stage1" /\ rsvd <= 64) =>
    \A k \in Stage1Sectors :
      /\ Load(k, Home(k)) \in loads
      /\ \A l \in loads : l.sector # k => ~Overlaps(l.address, Home(k), SECTOR)
      /\ ~Overlaps(Home(k), sp, 2)

\* "advance destination pointer by %bx * 512": the packet points at the home of
\* the sector that is read next.
DestinationAdvances ==
  pc = "read" => dap_seg * 16 + dap_off = Home(rsvd - cx + 1)

\* The code that reads is not overwritten by what it reads, up to 126 sectors;
\* the 127th reaches it where the firmware wraps.
Stage0Survives == rsvd < MAX_CHUNK => pc # "overwritten"
=============================================================================
