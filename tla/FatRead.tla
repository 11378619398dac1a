------------------------------ MODULE FatRead ------------------------------
(***************************************************************************)
(* fat_read of stage1/fat.c, with fat_next and fat_next_not_bad that it    *)
(* follows a chain of clusters with.  It reads a file cluster by cluster,  *)
(* straight into the caller's buffer where whole sectors go into low       *)
(* memory, and otherwise through a buffer on the extended stack.           *)
(***************************************************************************)
EXTENDS FatVolume

CONSTANT REQUESTS   \* the calls: first cluster of the file, offset, length, buffer

Requests == [cluster : Clusters, offset : Nat, length : Nat, buffer : Nat]

ASSUME RequestsAssumption == REQUESTS \subseteq Requests

VARIABLES
  pc,           \* "skip", "read", "next", "done", or how mem.c panicked
  request,      \* the arguments; offset, length and buffer advance
  skipped,      \* clusters left behind on the way to offset
  cluster,      \* start_cluster, then current_cluster
  offset, length, buffer,
  use_temp_buffer, buffer_size,
  result,
  stack_at_call \* history: ext_stack_top when fat_read was called

callVars == <<request, stack_at_call>>
partVars == <<offset, length, buffer, use_temp_buffer, buffer_size>>
vars == <<volumeVars, pc, callVars, skipped, cluster, partVars, result>>

Results == {"none", "FAT_SUCCESS", "FAT_DISK_ERROR", "FAT_OUT_OF_FILE_BOUNDS"}

\* a buffer on the extended stack was pushed by the caller: the stack ends there
OnStack(r) == r.buffer \in EXTENDED_STACK_LIMIT .. EXTENDED_STACK_BASE - 1

Init ==
  /\ fat \in FATS
  /\ request \in REQUESTS
  /\ memory = [a \in Memory |-> OtherByte]
  /\ ext_stack_top = IF OnStack(request) THEN request.buffer ELSE EXTENDED_STACK_BASE
  /\ stack_at_call = ext_stack_top
  /\ pc = "skip"
  /\ skipped = 0
  /\ cluster = request.cluster
  /\ offset = request.offset
  /\ length = request.length
  /\ buffer = request.buffer
  /\ use_temp_buffer = FALSE
  /\ buffer_size = 0
  /\ result = "none"

-----------------------------------------------------------------------------
(* fat_next_not_bad: to the cluster of offset, and from part to part *)

cluster_offset == request.offset \div bytes_per_cluster

SkipDone ==
  /\ pc = "skip"
  /\ skipped = cluster_offset
  /\ pc' = "read"
  /\ UNCHANGED <<volumeVars, callVars, skipped, cluster, partVars, result>>

Following == pc = "next" \/ (pc = "skip" /\ skipped < cluster_offset)

PopAndReturn_M(n, error) ==
  /\ ext_stack_top' = ext_stack_top + n
  /\ result' = error
  /\ pc' = "done"

\* the pop every error path ends with, whether or not something was pushed
PopAndReturn(n, error) ==
  IF CanPop(n)
  THEN /\ ext_stack_top' = ext_stack_top + n
       /\ result' = error
       /\ pc' = "done"
  ELSE /\ pc' = "overflow"
       /\ UNCHANGED <<ext_stack_top, result>>

FollowPanic ==
  /\ Following
  /\ ~CanPush(fat_buffer_size)
  /\ pc' = "overgrown"
  /\ UNCHANGED <<volumeVars, callVars, skipped, cluster, partVars, result>>

OutOfBounds ==
  /\ PopAndReturn(IF pc = "next" THEN buffer_size ELSE 0, "FAT_OUT_OF_FILE_BOUNDS")
  /\ UNCHANGED <<fat, callVars, skipped, cluster, partVars>>

\* the sectors of the table are transferred, or not, before the disk reports an error
FollowFails ==
  /\ Following
  /\ CanPush(fat_buffer_size)
  /\ memory' \in {memory, TableRead}
  /\ OutOfBounds

FollowEnd ==
  /\ Following
  /\ CanPush(fat_buffer_size)
  /\ fat[cluster] = FAT_END
  /\ memory' = TableRead
  /\ OutOfBounds

FollowBad_M ==
  /\ Following
  /\ CanPush(fat_buffer_size)
  /\ fat[cluster] = FAT_BAD
  /\ memory' = TableRead
  /\ UNCHANGED <<fat, ext_stack_top, pc, callVars, skipped, cluster, partVars, result>>

\* the entry says bad: the value itself is looked up next
FollowBad ==
  /\ Following
  /\ CanPush(fat_buffer_size)
  /\ fat[cluster] = FAT_BAD
  /\ memory' = TableRead
  /\ cluster' = FAT_BAD
  /\ UNCHANGED <<fat, ext_stack_top, pc, callVars, skipped, partVars, result>>

StackAfterNext_M == ext_stack_top
StackAfterNext == IF use_temp_buffer THEN ext_stack_top + buffer_size ELSE ext_stack_top

FollowValid ==
  /\ Following
  /\ CanPush(fat_buffer_size)
  /\ fat[cluster] < FAT_BAD
  /\ memory' = TableRead
  /\ cluster' = fat[cluster]
  /\ IF pc = "skip"
     THEN /\ skipped' = skipped + 1
          /\ UNCHANGED <<pc, ext_stack_top>>
     ELSE /\ pc' = "read"
          /\ ext_stack_top' = StackAfterNext
          /\ UNCHANGED skipped
  /\ UNCHANGED <<fat, callVars, partVars, result>>

-----------------------------------------------------------------------------
(* the loop of fat_read: one part, at most a cluster, per iteration *)

InCluster(o) == o % bytes_per_cluster

\* how much of the len bytes from o on lies in o's cluster
LengthToRead(o, len) == min(len + InCluster(o), bytes_per_cluster) - InCluster(o)
length_to_read == LengthToRead(offset, length)

SectorsToRead(o, len) ==
  (LengthToRead(o, len) + BYTES_PER_SECTOR - 1) \div BYTES_PER_SECTOR
PartSize == SectorsToRead(offset, length) * BYTES_PER_SECTOR

sector_offset == InCluster(offset) \div BYTES_PER_SECTOR
byte_offset == offset % BYTES_PER_SECTOR

UsesTemp_M ==
  \/ byte_offset # 0
  \/ buffer + length_to_read > REAL_MODE_LIMIT

UsesTemp ==
  \/ byte_offset # 0
  \/ length_to_read % BYTES_PER_SECTOR # 0
  \/ buffer + length_to_read > REAL_MODE_LIMIT

temp_buffer == IF UsesTemp THEN ext_stack_top - PartSize ELSE buffer

Panics == UsesTemp /\ ~CanPush(PartSize)

PushPanic ==
  /\ pc = "read"
  /\ length # 0
  /\ Panics
  /\ pc' = "overgrown"
  /\ UNCHANGED <<volumeVars, callVars, skipped, cluster, partVars, result>>

FirstSector_M == cluster_to_lba(cluster)
FirstSector == cluster_to_lba(cluster) + sector_offset

\* memory after disk_read and memcpy
Copied ==
  LET read == DiskRead(FirstSector, temp_buffer, SectorsToRead(offset, length))
  IN  IF UsesTemp
      THEN [a \in Memory |->
              IF a \in buffer .. buffer + length_to_read - 1
              THEN read[temp_buffer + byte_offset + (a - buffer)]
              ELSE read[a]]
      ELSE read

StackAfterPart_M == IF UsesTemp THEN temp_buffer ELSE ext_stack_top

\* the temporary buffer of the last part is popped at once, that of another
\* part when the next cluster is known
StackAfterPart == IF UsesTemp /\ length' # 0 THEN temp_buffer ELSE ext_stack_top

ReadPart ==
  /\ pc = "read"
  /\ length # 0
  /\ ~Panics
  /\ temp_buffer <= REAL_MODE_LIMIT
  /\ memory' = Copied
  /\ buffer' = buffer + length_to_read
  /\ length' = length - length_to_read
  /\ offset' = 0
  /\ use_temp_buffer' = UsesTemp
  /\ buffer_size' = PartSize
  /\ pc' = IF length' = 0 THEN "read" ELSE "next"
  /\ ext_stack_top' = StackAfterPart
  /\ UNCHANGED <<fat, callVars, skipped, cluster, result>>

\* disk_read refuses the address, or the firmware reports an error, before or
\* after it has transferred the sectors
ReadPartFails ==
  /\ pc = "read"
  /\ length # 0
  /\ ~Panics
  /\ \/ memory' = memory
     \/ /\ temp_buffer <= REAL_MODE_LIMIT
        /\ memory' = DiskRead(FirstSector, temp_buffer, SectorsToRead(offset, length))
  /\ PopAndReturn(IF UsesTemp THEN 0 ELSE PartSize, "FAT_DISK_ERROR")
  /\ UNCHANGED <<fat, callVars, skipped, cluster, partVars>>

Return ==
  /\ pc = "read"
  /\ length = 0
  /\ result' = "FAT_SUCCESS"
  /\ pc' = "done"
  /\ UNCHANGED <<volumeVars, callVars, skipped, cluster, partVars>>

\* what the code does while the disk works
Progress ==
  \/ SkipDone \/ FollowPanic \/ FollowEnd \/ FollowBad \/ FollowValid
  \/ PushPanic \/ ReadPart \/ Return

Next == Progress \/ FollowFails \/ ReadPartFails

Spec == Init /\ [][Next]_vars
FairSpec == Spec /\ WF_vars(Progress)

-----------------------------------------------------------------------------
FatReadTypeOK ==
  /\ VolumeTypeOK
  /\ pc \in {"skip", "read", "next", "done", "overgrown", "overflow"}
  /\ request \in REQUESTS
  /\ stack_at_call \in EXTENDED_STACK_LIMIT .. EXTENDED_STACK_BASE
  /\ skipped \in 0 .. cluster_offset
  /\ cluster \in Clusters
  /\ offset \in Nat
  /\ length \in 0 .. request.length
  /\ buffer = request.buffer + request.length - length
  /\ use_temp_buffer \in BOOLEAN
  /\ buffer_size \in Nat
  /\ result \in Results

-----------------------------------------------------------------------------
(* The file, as the chain of clusters in the table defines it *)

GoodClusters == FirstCluster .. FAT_BAD - 1

\* the cluster each byte of the file lies in, by its number in the chain; the
\* first link that is no cluster stays
Chain(r) ==
  LET last == (r.offset + r.length) \div bytes_per_cluster
      chain[n \in 0 .. last] ==
        IF n = 0 THEN r.cluster
        ELSE LET c == chain[n - 1] IN IF c \in GoodClusters THEN fat[c] ELSE c
  IN  chain

\* the chain holds clusters and ends, if it does, with an end mark
WellFormed(r) ==
  \A n \in DOMAIN Chain(r) : Chain(r)[n] \in GoodClusters \cup {FAT_END}

FileByte(r, k) ==
  Byte(cluster_to_lba(Chain(r)[k \div bytes_per_cluster]) + InCluster(k) \div BYTES_PER_SECTOR,
       k % BYTES_PER_SECTOR)

\* the bytes r asks for, as far as the chain goes
File(r) ==
  LET there == {k \in 0 .. r.length - 1 :
                  Chain(r)[(r.offset + k) \div bytes_per_cluster] \in GoodClusters}
  IN  [k \in 1 .. Cardinality(there) |-> FileByte(r, r.offset + k - 1)]

Delivered == [k \in 1 .. request.length - length |-> memory[request.buffer + k - 1]]

\* The first part does not reach into one sector more than its length fills:
\* fat_read leaves byte_offset out when it counts the sectors to read.
Covered(r) ==
  (r.offset % BYTES_PER_SECTOR) + LengthToRead(r.offset, r.length)
    <= SectorsToRead(r.offset, r.length) * BYTES_PER_SECTOR

\* The caller's buffer is in memory, and does not reach from below into the part of
\* the stack that is free at the call.
Placed(r) ==
  /\ r.buffer + r.length <= MEMORY_SIZE
  /\ r.buffer < EXTENDED_STACK_LIMIT => r.buffer + r.length <= EXTENDED_STACK_LIMIT

Status ==
  IF pc \in {"skip", "read", "next"} THEN "reading"
  ELSE IF result = "FAT_SUCCESS" THEN "success" ELSE "error"

FR == INSTANCE FileRead WITH
        file <- File(request),
        wanted <- request.length,
        got <- Delivered,
        status <- Status

\* Every step of fat_read is one FileRead allows: whatever the offset, the length
\* and the scattering of the file over the disk, the bytes that have arrived are
\* those of the file in order, and stay, and success is said with the last of them.
ImplementsFileRead ==
  [][(WellFormed(request) /\ Covered(request)) => FR!FileNext]_<<FR!fileVars>>

\* When fat_read says success the buffer holds what was asked for.  It does not
\* where the first part is not Covered.
ReadsWhatIsAsked ==
  (result = "FAT_SUCCESS" /\ WellFormed(request)) => Delivered = File(request)

\* fat_read writes to the caller's buffer, as far as it was asked to, and to the
\* part of the extended stack that was free at the call; a read that goes straight
\* to the buffer never runs past its end.
WritesOnlyBuffer ==
  \A a \in Memory :
    \/ memory[a] = OtherByte
    \/ a \in request.buffer .. request.buffer + request.length - 1
    \/ a \in EXTENDED_STACK_LIMIT .. stack_at_call - 1

\* fat_read leaves nothing on the extended stack, on any path, and on success the
\* stack is as it was.  (On an error after a part that needed no temporary buffer
\* it pops what it never pushed.)
StackBalanced ==
  pc = "done" => /\ ext_stack_top >= stack_at_call
                 /\ result = "FAT_SUCCESS" => ext_stack_top = stack_at_call

\* One cluster and two sectors of free stack are enough for a read of any length,
\* over any chain: no part leaves its buffer behind.
RoomForOnePartIsEnough ==
  stack_at_call - EXTENDED_STACK_LIMIT >= bytes_per_cluster + fat_buffer_size
    => pc # "overgrown"

\* While the disk works fat_read comes to an end, even over a chain that is a
\* cycle, except where the table says of the bad mark that it is bad:
\* fat_next_not_bad then looks it up forever.
ReadEndsOrStaysBad ==
  <>(pc \in {"done", "overgrown", "overflow"} \/ (cluster = FAT_BAD /\ fat[FAT_BAD] = FAT_BAD))
=============================================================================
