---------------------------- MODULE FatReadProofs ----------------------------
(***************************************************************************)
(* fat_read, for every geometry of the volume, table, call and place of    *)
(* the extended stack: where it writes, what it leaves on the stack, how   *)
(* much of the stack it needs, and that what it delivers is the file:      *)
(* FatRead implements FileRead.                                            *)
(***************************************************************************)
EXTENDS FatRead, Induction, FiniteSetTheorems, TLAPS

\* What \div and % answer, without a product of two unknowns.
LEMMA Quotient ==
  ASSUME NEW n \in Nat, NEW b \in Nat \ {0}
  PROVE  /\ n \div b \in Nat /\ n % b \in 0 .. b - 1
         /\ b * (n \div b) \in Nat
         /\ b * (n \div b) <= n /\ n < b * (n \div b) + b
OBVIOUS

\* There is one remainder.
LEMMA RemainderUnique ==
  ASSUME NEW n \in Nat, NEW b \in Nat \ {0}, NEW q \in Nat, NEW r \in 0 .. b - 1, n = b * q + r
  PROVE  n % b = r
OBVIOUS

\* A number is its quotient's multiple and its remainder.
LEMMA Remainder ==
  ASSUME NEW n \in Nat, NEW b \in Nat \ {0}
  PROVE  n = b * (n \div b) + (n % b)
<1>1. PICK q \in Nat : q = n \div b
  BY Quotient
<1>2. PICK p \in Nat : p = b * (n \div b)
  BY Quotient
<1>3. p <= n /\ n < p + b
  BY Quotient, <1>2
<1>4. PICK r \in 0 .. b - 1 : r = n - p
  BY <1>3
<1>5. n = b * q + r
  BY <1>1, <1>2, <1>4
<1>6. n % b = r
  BY <1>5, RemainderUnique
<1>7. QED
  BY <1>2, <1>4, <1>6

\* The provers take a product as it is written.
LEMMA Commutes ==
  ASSUME NEW a \in Int, NEW b \in Int
  PROVE  a * b = b * a
OBVIOUS

\* A product of numbers is a number.
LEMMA ProductType ==
  ASSUME NEW a \in Nat, NEW b \in Nat
  PROVE  a * b \in Nat
OBVIOUS

\* A multiple below the next one is at most this one.
LEMMA MultipleBelow ==
  ASSUME NEW b \in Nat \ {0}, NEW s \in Nat, NEW q \in Nat, b * q < b * s + b
  PROVE  b * q <= b * s
<1>1. q < s + 1
  OBVIOUS
<1>2. QED
  BY <1>1

\* Rounding up to whole units gives the least number of them that holds n.
LEMMA RoundUp ==
  ASSUME NEW n \in Nat, NEW b \in Nat \ {0}
  PROVE  LET q == (n + b - 1) \div b
         IN  /\ q \in Nat /\ q * b \in Nat
             /\ n <= q * b /\ q * b <= n + b - 1
<1>1. PICK m \in Nat : m = n + b - 1
  OBVIOUS
<1>2. PICK q \in Nat : q = m \div b
  BY Quotient
<1>3. PICK p \in Nat : p = b * q /\ p <= m /\ m < p + b
  BY <1>2, Quotient
<1>4. q * b = p
  BY <1>3, Commutes
<1>5. n <= p /\ p <= n + b - 1
  BY <1>1, <1>3
<1>6. QED
  BY <1>1, <1>2, <1>4, <1>5

\* What fits in s units still fits when it is rounded up.
LEMMA RoundUpBound ==
  ASSUME NEW n \in Nat, NEW b \in Nat \ {0}, NEW s \in Nat, n <= b * s
  PROVE  ((n + b - 1) \div b) * b <= b * s
<1>1. PICK q \in Nat : q = (n + b - 1) \div b
  BY RoundUp
<1>2. PICK p \in Nat : p = b * q /\ p = q * b
  BY Commutes, ProductType
<1>3. p <= n + b - 1
  BY <1>1, <1>2, RoundUp
<1>4. PICK t \in Nat : t = b * s
  BY ProductType
<1>5. p < t + b
  BY <1>3, <1>4
<1>6. b * q <= b * s
  BY <1>2, <1>4, <1>5, MultipleBelow
<1>7. QED
  BY <1>1, <1>2, <1>6

\* Rounding whole units up changes nothing.
LEMMA RoundUpExact ==
  ASSUME NEW n \in Nat, NEW b \in Nat \ {0}, n % b = 0
  PROVE  ((n + b - 1) \div b) * b = n
<1>1. PICK s \in Nat : s = n \div b
  BY Quotient
<1>2. PICK t \in Nat : t = b * (n \div b)
  BY Quotient
<1>3. n = t
  BY <1>2, Remainder
<1>4. n <= b * s
  BY <1>1, <1>2, <1>3
<1>5. ((n + b - 1) \div b) * b <= b * s
  BY <1>4, RoundUpBound
<1>6. PICK p \in Nat : p = ((n + b - 1) \div b) * b
  BY RoundUp
<1>7. n <= p
  BY <1>6, RoundUp
<1>8. QED
  BY <1>1, <1>2, <1>3, <1>5, <1>6, <1>7

-----------------------------------------------------------------------------
\* The volume: a cluster is a number of whole sectors, and starts at some sector.
LEMMA GeometryType ==
  /\ bytes_per_cluster \in Nat \ {0}
  /\ fat_buffer_size \in Nat
  /\ \A c \in Clusters : cluster_to_lba(c) \in Nat
<1>1. bytes_per_cluster \in Nat \ {0}
  BY GeometryAssumption DEF bytes_per_cluster
<1>2. fat_buffer_size \in Nat
  BY GeometryAssumption DEF fat_buffer_size
<1>3. ASSUME NEW c \in Clusters
      PROVE  cluster_to_lba(c) \in Nat
  <2>1. c \in Nat
    BY <1>3, GeometryAssumption DEF Clusters, FAT_BAD
  <2>2. PICK p \in Nat : p = c * SECTORS_PER_CLUSTER
    BY <2>1, GeometryAssumption, ProductType
  <2>3. (c - FirstCluster) * SECTORS_PER_CLUSTER = p - FirstCluster * SECTORS_PER_CLUSTER
    BY <2>1, <2>2, GeometryAssumption DEF FirstCluster
  <2>4. QED
    BY <2>2, <2>3, GeometryAssumption DEF cluster_to_lba, FirstCluster
<1>4. QED
  BY <1>1, <1>2, <1>3

\* Up to the limit of real mode the firmware puts a sector where disk_read was told to.
LEMMA TargetExact ==
  ASSUME NEW a \in Nat, a <= REAL_MODE_LIMIT
  PROVE  Target(a) = a
BY MemoryMapAssumption DEF Target, Segment, Offset, min, REAL_MODE_LIMIT

\* A part is not empty, lies in one cluster, and is read as whole sectors that hold it and
\* are no more than a cluster.
LEMMA PartFits ==
  ASSUME NEW o \in Nat, NEW len \in Nat \ {0}
  PROVE  LET n == LengthToRead(o, len)
             size == SectorsToRead(o, len) * BYTES_PER_SECTOR
         IN  /\ n \in 1 .. len /\ n <= bytes_per_cluster
             /\ SectorsToRead(o, len) \in Nat /\ size \in Nat
             /\ n <= size /\ size <= bytes_per_cluster
             /\ n % BYTES_PER_SECTOR = 0 => size = n
<1>1. PICK c \in Nat : c = bytes_per_cluster /\ c # 0
  BY GeometryType
<1>2. PICK i \in 0 .. c - 1 : i = o % bytes_per_cluster
  BY <1>1, Quotient
<1>3. LengthToRead(o, len) = min(len + i, c) - i
  BY <1>1, <1>2 DEF LengthToRead, InCluster
<1>4. PICK n \in 1 .. len : n = LengthToRead(o, len) /\ n <= c
  BY <1>2, <1>3 DEF min
<1>5. PICK b \in Nat \ {0} : b = BYTES_PER_SECTOR
  BY GeometryAssumption
<1>6. c = b * SECTORS_PER_CLUSTER
  BY <1>1, <1>5, Commutes, GeometryAssumption DEF bytes_per_cluster
<1>7. SectorsToRead(o, len) = (n + b - 1) \div b
  BY <1>4, <1>5 DEF SectorsToRead
<1>8. n <= b * SECTORS_PER_CLUSTER /\ n \in Nat /\ SECTORS_PER_CLUSTER \in Nat
  BY <1>4, <1>6, GeometryAssumption
<1>9. ((n + b - 1) \div b) * b <= c
  BY <1>6, <1>8, RoundUpBound
<1>10. n % b = 0 => ((n + b - 1) \div b) * b = n
  BY <1>8, RoundUpExact
<1>11. PICK q \in Nat : q = (n + b - 1) \div b
  BY <1>8, RoundUp
<1>12. PICK p \in Nat : p = q * b /\ n <= p
  BY <1>8, <1>11, RoundUp
<1>13. p <= c /\ (n % b = 0 => p = n)
  BY <1>9, <1>10, <1>11, <1>12
<1>14. QED
  BY <1>1, <1>4, <1>5, <1>7, <1>11, <1>12, <1>13

-----------------------------------------------------------------------------
\* What is on the stack during the call: nothing, but the temporary buffer of a part whose
\* next cluster is looked up; and how short the stack was when it was overgrown.
StackInCall ==
  /\ pc \in {"skip", "read"} => ext_stack_top = stack_at_call
  /\ pc = "next" => /\ buffer_size <= bytes_per_cluster
                    /\ ext_stack_top = stack_at_call - (IF use_temp_buffer THEN buffer_size ELSE 0)
  /\ pc = "overgrown" =>
       stack_at_call - EXTENDED_STACK_LIMIT < bytes_per_cluster + fat_buffer_size

\* the inductive invariant
FatReadInv == FatReadTypeOK /\ WritesOnlyBuffer /\ StackBalanced /\ StackInCall

\* where fat_read may write
Writable(a) ==
  \/ a \in request.buffer .. request.buffer + request.length - 1
  \/ a \in EXTENDED_STACK_LIMIT .. stack_at_call - 1

\* A memory that differs from the one before in nothing but what may be written.
WritesOnly(m) ==
  /\ m \in [Memory -> Bytes]
  /\ \A a \in Memory : m[a] = memory[a] \/ Writable(a)

\* The parts of the type invariant that are about numbers.
LEMMA NumbersOfInv ==
  ASSUME FatReadInv
  PROVE  /\ ext_stack_top \in Nat /\ stack_at_call \in Nat
         /\ EXTENDED_STACK_LIMIT \in Nat /\ EXTENDED_STACK_BASE \in Nat
         /\ EXTENDED_STACK_LIMIT <= ext_stack_top /\ ext_stack_top <= EXTENDED_STACK_BASE
         /\ EXTENDED_STACK_LIMIT <= stack_at_call /\ stack_at_call <= EXTENDED_STACK_BASE
         /\ request \in [cluster : Clusters, offset : Nat, length : Nat, buffer : Nat]
         /\ offset \in Nat /\ length \in Nat /\ buffer \in Nat /\ buffer_size \in Nat
         /\ length <= request.length /\ request.buffer <= buffer
         /\ buffer = request.buffer + request.length - length
         /\ cluster_offset \in Nat
<1>1. request \in [cluster : Clusters, offset : Nat, length : Nat, buffer : Nat]
  BY RequestsAssumption DEF FatReadInv, FatReadTypeOK, Requests
<1>2. cluster_offset \in Nat
  BY <1>1, GeometryType, Quotient DEF cluster_offset
<1>3. QED
  BY <1>1, <1>2, ExtendedStackAssumption
  DEF FatReadInv, FatReadTypeOK, VolumeTypeOK, StackTypeOK

\* Reading the table disturbs nothing but the free part of the stack.
LEMMA TableReadWrites ==
  ASSUME FatReadInv, CanPush(fat_buffer_size), ext_stack_top <= stack_at_call
  PROVE  WritesOnly(TableRead)
<1>1. OtherByte \in Bytes /\ memory \in [Memory -> Bytes]
  BY DEF FatReadInv, FatReadTypeOK, VolumeTypeOK, Bytes
<1>2. TableRead \in [Memory -> Bytes]
  BY <1>1 DEF TableRead
<1>3. ASSUME NEW a \in Memory, TableRead[a] # memory[a]
      PROVE  Writable(a)
  <2>1. a \in ext_stack_top - fat_buffer_size .. ext_stack_top - 1
    BY <1>3 DEF TableRead
  <2>2. QED
    BY <2>1, NumbersOfInv, GeometryType DEF CanPush, Writable
<1>4. QED
  BY <1>2, <1>3 DEF WritesOnly

\* disk_read fills the sectors at the address and nothing else.
LEMMA DiskReadWrites ==
  ASSUME memory \in [Memory -> Bytes],
         NEW lba \in Nat, NEW address \in Nat, address <= REAL_MODE_LIMIT, NEW n \in Nat
  PROVE  /\ DiskRead(lba, address, n) \in [Memory -> Bytes]
         /\ \A a \in Memory : \/ DiskRead(lba, address, n)[a] = memory[a]
                              \/ a \in address .. address + n * BYTES_PER_SECTOR - 1
<1>1. PICK b \in Nat \ {0} : b = BYTES_PER_SECTOR
  BY GeometryAssumption
<1>2. PICK size \in Nat : size = n * BYTES_PER_SECTOR
  BY <1>1, ProductType
<1>3. Target(address) = address
  BY TargetExact
<1>4. ASSUME NEW a \in Memory, a - address \in 0 .. size - 1
      PROVE  Byte(lba + ((a - address) \div BYTES_PER_SECTOR), (a - address) % BYTES_PER_SECTOR)
               \in Bytes
  <2>1. PICK i \in Nat : i = a - address
    BY <1>2, <1>4 DEF Memory
  <2>2. i \div b \in Nat /\ i % b \in 0 .. b - 1
    BY Quotient
  <2>3. QED
    BY <1>1, <2>1, <2>2 DEF Bytes, Byte
<1>5. DiskRead(lba, address, n) \in [Memory -> Bytes]
  BY <1>2, <1>3, <1>4 DEF DiskRead
<1>6. ASSUME NEW a \in Memory, DiskRead(lba, address, n)[a] # memory[a]
      PROVE  a \in address .. address + size - 1
  <2>1. a - address \in 0 .. size - 1
    BY <1>2, <1>3, <1>6 DEF DiskRead
  <2>2. QED
    BY <1>2, <2>1, MemoryMapAssumption DEF Memory
<1>7. QED
  BY <1>2, <1>5, <1>6

\* Where a part is read to: a whole buffer below the top of the stack, or the caller's
\* buffer, in which the sectors end where the part does.
LEMMA PartPlace ==
  ASSUME FatReadInv, pc = "read", length # 0, ~Panics
  PROVE  /\ length_to_read \in 1 .. length
         /\ PartSize \in Nat /\ length_to_read <= PartSize /\ PartSize <= bytes_per_cluster
         /\ temp_buffer \in Nat
         /\ UsesTemp => /\ EXTENDED_STACK_LIMIT <= temp_buffer
                        /\ temp_buffer + PartSize = stack_at_call
                        /\ temp_buffer = ext_stack_top - PartSize
         /\ ~UsesTemp => temp_buffer = buffer /\ PartSize = length_to_read
<1>1. length \in Nat \ {0} /\ ext_stack_top = stack_at_call
  BY NumbersOfInv DEF FatReadInv, StackInCall
<1>2. /\ length_to_read \in 1 .. length
      /\ PartSize \in Nat /\ length_to_read <= PartSize /\ PartSize <= bytes_per_cluster
      /\ length_to_read % BYTES_PER_SECTOR = 0 => PartSize = length_to_read
  BY <1>1, NumbersOfInv, PartFits DEF length_to_read, PartSize
<1>3. ASSUME UsesTemp
      PROVE  /\ EXTENDED_STACK_LIMIT <= temp_buffer
             /\ temp_buffer + PartSize = stack_at_call
             /\ temp_buffer = ext_stack_top - PartSize
             /\ temp_buffer \in Nat
  BY <1>1, <1>2, <1>3, NumbersOfInv DEF temp_buffer, Panics, CanPush
<1>4. ASSUME ~UsesTemp
      PROVE  temp_buffer = buffer /\ PartSize = length_to_read /\ temp_buffer \in Nat
  BY <1>2, <1>4, NumbersOfInv DEF temp_buffer, UsesTemp
<1>5. QED
  BY <1>2, <1>3, <1>4

\* The sector a part starts with is a number of a sector.
LEMMA FirstSectorType ==
  ASSUME FatReadInv
  PROVE  FirstSector \in Nat
<1>1. cluster \in Clusters
  BY DEF FatReadInv, FatReadTypeOK
<1>2. PICK i \in Nat : i = InCluster(offset)
  BY NumbersOfInv, GeometryType, Quotient DEF InCluster
<1>3. sector_offset \in Nat
  BY <1>2, Quotient, GeometryAssumption DEF sector_offset
<1>4. QED
  BY <1>1, <1>3, GeometryType DEF FirstSector

\* The sectors of a part are read to where fat_read may write.
LEMMA PartReadWrites ==
  ASSUME FatReadInv, pc = "read", length # 0, ~Panics, temp_buffer <= REAL_MODE_LIMIT
  PROVE  WritesOnly(DiskRead(FirstSector, temp_buffer, SectorsToRead(offset, length)))
<1>1. PICK n \in Nat : n = SectorsToRead(offset, length) /\ n * BYTES_PER_SECTOR = PartSize
  BY NumbersOfInv, PartFits DEF PartSize
<1>2. memory \in [Memory -> Bytes]
  BY DEF FatReadInv, FatReadTypeOK, VolumeTypeOK
<1>3. /\ DiskRead(FirstSector, temp_buffer, n) \in [Memory -> Bytes]
      /\ \A a \in Memory : \/ DiskRead(FirstSector, temp_buffer, n)[a] = memory[a]
                           \/ a \in temp_buffer .. temp_buffer + PartSize - 1
  BY <1>1, <1>2, PartPlace, FirstSectorType, DiskReadWrites
<1>4. ASSUME NEW a \in Memory, a \in temp_buffer .. temp_buffer + PartSize - 1
      PROVE  Writable(a)
  <2>1. CASE UsesTemp
    BY <1>4, <2>1, PartPlace, NumbersOfInv DEF Writable
  <2>2. CASE ~UsesTemp
    BY <1>4, <2>2, PartPlace, NumbersOfInv DEF Writable
  <2>3. QED
    BY <2>1, <2>2
<1>5. QED
  BY <1>1, <1>3, <1>4 DEF WritesOnly

\* So is what memcpy moves to the caller's buffer.
LEMMA PartCopyWrites ==
  ASSUME FatReadInv, pc = "read", length # 0, ~Panics, temp_buffer <= REAL_MODE_LIMIT
  PROVE  WritesOnly(Copied)
<1> DEFINE read == DiskRead(FirstSector, temp_buffer, SectorsToRead(offset, length))
<1>1. read \in [Memory -> Bytes] /\ \A a \in Memory : read[a] = memory[a] \/ Writable(a)
  BY PartReadWrites DEF WritesOnly
<1>2. CASE ~UsesTemp
  BY <1>2, PartReadWrites DEF Copied
<1>3. CASE UsesTemp
  <2> HIDE DEF read
  <2>1. ASSUME NEW a \in Memory, a \in buffer .. buffer + length_to_read - 1
        PROVE  /\ Writable(a)
               /\ read[temp_buffer + byte_offset + (a - buffer)] \in Bytes
    <3>1. Writable(a)
      BY <2>1, PartPlace, NumbersOfInv DEF Writable
    <3>2. byte_offset \in 0 .. BYTES_PER_SECTOR - 1
      BY NumbersOfInv, GeometryAssumption, Quotient DEF byte_offset
    <3>3. temp_buffer + byte_offset + (a - buffer) \in Memory
      BY <1>3, <2>1, <3>2, PartPlace, NumbersOfInv, GeometryAssumption, MemoryMapAssumption
      DEF Memory
    <3>4. QED
      BY <1>1, <3>1, <3>3
  <2>2. Copied = [a \in Memory |->
                    IF a \in buffer .. buffer + length_to_read - 1
                    THEN read[temp_buffer + byte_offset + (a - buffer)]
                    ELSE read[a]]
    BY <1>3 DEF Copied, read
  <2>3. QED
    BY <1>1, <2>1, <2>2 DEF WritesOnly
<1>4. QED
  BY <1>2, <1>3

-----------------------------------------------------------------------------
\* Whatever a step writes, it writes where fat_read may.
LEMMA KeepsWritesOnlyBuffer ==
  ASSUME FatReadInv, WritesOnly(memory'), UNCHANGED <<request, stack_at_call>>
  PROVE  WritesOnlyBuffer'
BY DEF FatReadInv, WritesOnlyBuffer, WritesOnly, Writable

\* A step that writes nothing writes nothing else.
LEMMA WritesNothing ==
  ASSUME FatReadInv, memory' = memory
  PROVE  WritesOnly(memory')
BY DEF FatReadInv, FatReadTypeOK, VolumeTypeOK, WritesOnly

\* The call: nothing is read, the stack ends where the caller left it.
LEMMA InitInv ==
  ASSUME Init
  PROVE  FatReadInv
<1>1. request \in [cluster : Clusters, offset : Nat, length : Nat, buffer : Nat]
  BY RequestsAssumption DEF Init, Requests
<1>2. cluster_offset \in Nat
  BY <1>1, GeometryType, Quotient DEF cluster_offset
<1>3. OtherByte \in Bytes
  BY DEF Bytes
<1>4. ext_stack_top \in EXTENDED_STACK_LIMIT .. EXTENDED_STACK_BASE
  BY ExtendedStackAssumption DEF Init, OnStack
<1>5. FatReadTypeOK
  <2>1. memory \in [Memory -> Bytes]
    BY <1>3 DEF Init
  <2>2. VolumeTypeOK
    BY <1>4, <2>1 DEF Init, VolumeTypeOK, StackTypeOK
  <2>3. /\ skipped \in 0 .. cluster_offset /\ cluster \in Clusters
        /\ offset \in Nat /\ length \in 0 .. request.length
        /\ buffer = request.buffer + request.length - length
        /\ buffer_size \in Nat
    BY <1>1, <1>2 DEF Init
  <2>4. QED
    BY <1>4, <2>2, <2>3 DEF Init, FatReadTypeOK, Results
<1>6. WritesOnlyBuffer
  BY DEF Init, WritesOnlyBuffer
<1>7. StackBalanced /\ StackInCall
  BY DEF Init, StackBalanced, StackInCall
<1>8. QED
  BY <1>5, <1>6, <1>7 DEF FatReadInv

\* What a step of fat_next_not_bad may rely on.
LEMMA WhileFollowing ==
  ASSUME FatReadInv, Following
  PROVE  /\ ext_stack_top <= stack_at_call
         /\ pc = "skip" => ext_stack_top = stack_at_call /\ skipped + 1 \in 0 .. cluster_offset
         /\ pc = "next" => ext_stack_top + buffer_size >= stack_at_call
         /\ cluster \in Clusters /\ fat \in [Clusters -> Links]
<1>1. cluster \in Clusters /\ fat \in [Clusters -> Links] /\ skipped \in 0 .. cluster_offset
  BY FatsAssumption DEF FatReadInv, FatReadTypeOK, VolumeTypeOK
<1>2. QED
  BY <1>1, NumbersOfInv DEF Following, FatReadInv, StackInCall

\* The pop at the end of an error path leaves the stack above where it was.
LEMMA AfterPopAndReturn ==
  ASSUME FatReadInv, NEW n \in Nat, NEW error \in Results \ {"FAT_SUCCESS"},
         PopAndReturn(n, error), WritesOnly(memory'), ext_stack_top + n >= stack_at_call,
         UNCHANGED <<fat, callVars, skipped, cluster, partVars>>
  PROVE  FatReadInv'
<1> USE DEF callVars, partVars
<1>1. ext_stack_top' \in EXTENDED_STACK_LIMIT .. EXTENDED_STACK_BASE
      /\ pc' \in {"done", "overflow"} /\ result' \in Results
      /\ (pc' = "done" => ext_stack_top' >= stack_at_call /\ result' # "FAT_SUCCESS")
  BY NumbersOfInv DEF PopAndReturn, CanPop, FatReadInv, FatReadTypeOK, VolumeTypeOK, StackTypeOK
<1>2. FatReadTypeOK'
  BY <1>1 DEF FatReadInv, FatReadTypeOK, VolumeTypeOK, StackTypeOK, cluster_offset,
          WritesOnly
<1>3. WritesOnlyBuffer'
  BY KeepsWritesOnlyBuffer
<1>4. StackBalanced' /\ StackInCall'
  BY <1>1 DEF StackBalanced, StackInCall
<1>5. QED
  BY <1>2, <1>3, <1>4 DEF FatReadInv

\* Every step of fat_read keeps the invariant.
LEMMA NextInv ==
  ASSUME FatReadInv, [Next]_vars
  PROVE  FatReadInv'
<1> USE DEF callVars, partVars, volumeVars
<1>1. CASE SkipDone
  <2>1. FatReadTypeOK'
    BY <1>1 DEF SkipDone, FatReadInv, FatReadTypeOK, VolumeTypeOK, StackTypeOK, cluster_offset
  <2>2. WritesOnlyBuffer'
    BY <1>1, WritesNothing, KeepsWritesOnlyBuffer DEF SkipDone
  <2>3. StackBalanced' /\ StackInCall'
    BY <1>1 DEF SkipDone, FatReadInv, StackBalanced, StackInCall
  <2>4. QED
    BY <2>1, <2>2, <2>3 DEF FatReadInv
<1>2. CASE FollowPanic
  <2>1. FatReadTypeOK'
    BY <1>2 DEF FollowPanic, FatReadInv, FatReadTypeOK, VolumeTypeOK, StackTypeOK, cluster_offset
  <2>2. WritesOnlyBuffer'
    BY <1>2, WritesNothing, KeepsWritesOnlyBuffer DEF FollowPanic
  <2>3. stack_at_call - EXTENDED_STACK_LIMIT < bytes_per_cluster + fat_buffer_size
    BY <1>2, NumbersOfInv, GeometryType
    DEF FollowPanic, Following, CanPush, FatReadInv, StackInCall
  <2>4. StackBalanced' /\ StackInCall'
    BY <1>2, <2>3 DEF FollowPanic, StackBalanced, StackInCall, bytes_per_cluster, fat_buffer_size
  <2>5. QED
    BY <2>1, <2>2, <2>4 DEF FatReadInv
<1>3. CASE FollowFails \/ FollowEnd
  <2>1. WritesOnly(memory')
    <3>1. memory' = TableRead \/ memory' = memory
      BY <1>3 DEF FollowFails, FollowEnd
    <3>2. QED
      BY <1>3, <3>1, WhileFollowing, TableReadWrites, WritesNothing DEF FollowFails, FollowEnd
  <2>2. PICK n \in Nat : n = IF pc = "next" THEN buffer_size ELSE 0
    BY NumbersOfInv
  <2>3. PopAndReturn(n, "FAT_OUT_OF_FILE_BOUNDS")
    BY <1>3, <2>2 DEF FollowFails, FollowEnd, OutOfBounds
  <2>4. ext_stack_top + n >= stack_at_call
    BY <1>3, <2>2, WhileFollowing, NumbersOfInv DEF FollowFails, FollowEnd, Following
  <2>5. QED
    BY <1>3, <2>1, <2>3, <2>4, AfterPopAndReturn
    DEF FollowFails, FollowEnd, OutOfBounds, Results
<1>4. CASE FollowBad
  <2>1. WritesOnly(memory')
    BY <1>4, WhileFollowing, TableReadWrites DEF FollowBad
  <2>2. FAT_BAD \in Clusters
    BY GeometryAssumption DEF FAT_BAD, Clusters, FirstCluster
  <2>3. FatReadTypeOK'
    BY <1>4, <2>1, <2>2
    DEF FollowBad, FatReadInv, FatReadTypeOK, VolumeTypeOK, StackTypeOK, cluster_offset,
          WritesOnly
  <2>4. WritesOnlyBuffer'
    BY <1>4, <2>1, KeepsWritesOnlyBuffer DEF FollowBad
  <2>5. StackBalanced' /\ StackInCall'
    BY <1>4 DEF FollowBad, FatReadInv, StackBalanced, StackInCall
  <2>6. QED
    BY <2>3, <2>4, <2>5 DEF FatReadInv
<1>5. CASE FollowValid
  <2>1. WritesOnly(memory')
    BY <1>5, WhileFollowing, TableReadWrites DEF FollowValid
  <2>2. fat[cluster] \in Clusters
    <3>1. fat[cluster] \in Links
      BY <1>5, WhileFollowing DEF FollowValid
    <3>2. QED
      BY <1>5, <3>1, GeometryAssumption DEF FollowValid, Links, Clusters, FAT_BAD
  <2>3. CASE pc = "skip"
    <3>1. skipped' \in 0 .. cluster_offset
      BY <1>5, <2>3, WhileFollowing DEF FollowValid
    <3>2. FatReadTypeOK'
      BY <1>5, <2>1, <2>2, <2>3, <3>1
      DEF FollowValid, FatReadInv, FatReadTypeOK, VolumeTypeOK, StackTypeOK, cluster_offset,
          WritesOnly
    <3>3. StackBalanced' /\ StackInCall'
      BY <1>5, <2>3 DEF FollowValid, FatReadInv, StackBalanced, StackInCall
    <3>4. QED
      BY <1>5, <2>1, <3>2, <3>3, KeepsWritesOnlyBuffer DEF FatReadInv, FollowValid
  <2>4. CASE pc # "skip"
    <3>1. pc = "next"
      BY <1>5, <2>4 DEF FollowValid, Following
    <3>2. ext_stack_top' = stack_at_call
      BY <1>5, <3>1, NumbersOfInv DEF FollowValid, StackAfterNext, FatReadInv, StackInCall
    <3>3. FatReadTypeOK'
      BY <1>5, <2>1, <2>2, <3>1, <3>2
      DEF FollowValid, FatReadInv, FatReadTypeOK, VolumeTypeOK, StackTypeOK, cluster_offset,
          WritesOnly
    <3>4. StackBalanced' /\ StackInCall'
      BY <1>5, <3>1, <3>2 DEF FollowValid, StackBalanced, StackInCall
    <3>5. QED
      BY <1>5, <2>1, <3>3, <3>4, KeepsWritesOnlyBuffer DEF FatReadInv, FollowValid
  <2>5. QED
    BY <2>3, <2>4
<1>6. CASE PushPanic
  <2>1. FatReadTypeOK'
    BY <1>6 DEF PushPanic, FatReadInv, FatReadTypeOK, VolumeTypeOK, StackTypeOK, cluster_offset
  <2>2. WritesOnlyBuffer'
    BY <1>6, WritesNothing, KeepsWritesOnlyBuffer DEF PushPanic
  <2>3. PartSize \in Nat /\ PartSize <= bytes_per_cluster
    BY <1>6, NumbersOfInv, PartFits DEF PushPanic, PartSize
  <2>4. stack_at_call - EXTENDED_STACK_LIMIT < bytes_per_cluster + fat_buffer_size
    BY <1>6, <2>3, NumbersOfInv, GeometryType
    DEF PushPanic, Panics, CanPush, FatReadInv, StackInCall
  <2>5. StackBalanced' /\ StackInCall'
    BY <1>6, <2>4 DEF PushPanic, StackBalanced, StackInCall, bytes_per_cluster, fat_buffer_size
  <2>6. QED
    BY <2>1, <2>2, <2>5 DEF FatReadInv
<1>7. CASE ReadPart
  <2>1. WritesOnly(memory')
    BY <1>7, PartCopyWrites DEF ReadPart
  <2>2. /\ length_to_read \in 1 .. length
        /\ PartSize \in Nat /\ PartSize <= bytes_per_cluster
        /\ UsesTemp => /\ EXTENDED_STACK_LIMIT <= temp_buffer
                       /\ temp_buffer = stack_at_call - PartSize
    BY <1>7, PartPlace, NumbersOfInv DEF ReadPart
  <2>3. ext_stack_top = stack_at_call
    BY <1>7 DEF ReadPart, FatReadInv, StackInCall
  <2>4. ext_stack_top' = IF UsesTemp /\ length' # 0 THEN stack_at_call - PartSize ELSE stack_at_call
    BY <1>7, <2>2, <2>3 DEF ReadPart, StackAfterPart
  <2>5. ext_stack_top' \in EXTENDED_STACK_LIMIT .. EXTENDED_STACK_BASE
    BY <2>2, <2>4, NumbersOfInv
  <2>6. buffer' = request.buffer + request.length - length' /\ length' \in 0 .. request.length
    BY <1>7, <2>2, NumbersOfInv DEF ReadPart
  <2>7. UsesTemp \in BOOLEAN
    BY DEF UsesTemp
  <2>8. FatReadTypeOK'
    BY <1>7, <2>1, <2>2, <2>5, <2>6, <2>7
    DEF ReadPart, FatReadInv, FatReadTypeOK, VolumeTypeOK, StackTypeOK, cluster_offset,
          WritesOnly
  <2>9. WritesOnlyBuffer'
    BY <1>7, <2>1, KeepsWritesOnlyBuffer DEF ReadPart
  <2>10. StackBalanced' /\ StackInCall'
    BY <1>7, <2>2, <2>4, NumbersOfInv DEF ReadPart, StackBalanced, StackInCall
  <2>11. QED
    BY <2>8, <2>9, <2>10 DEF FatReadInv
<1>8. CASE ReadPartFails
  <2>1. WritesOnly(memory')
    BY <1>8, WritesNothing, PartReadWrites DEF ReadPartFails
  <2>2. PICK n \in Nat : n = IF UsesTemp THEN 0 ELSE PartSize
    BY <1>8, PartPlace DEF ReadPartFails
  <2>3. ext_stack_top + n >= stack_at_call
    BY <1>8, <2>2, NumbersOfInv DEF ReadPartFails, FatReadInv, StackInCall
  <2>4. QED
    BY <1>8, <2>1, <2>2, <2>3, AfterPopAndReturn DEF ReadPartFails, Results
<1>9. CASE Return
  <2>1. FatReadTypeOK'
    BY <1>9
    DEF Return, FatReadInv, FatReadTypeOK, VolumeTypeOK, StackTypeOK, cluster_offset, Results
  <2>2. WritesOnlyBuffer'
    BY <1>9, WritesNothing, KeepsWritesOnlyBuffer DEF Return
  <2>3. StackBalanced' /\ StackInCall'
    BY <1>9, NumbersOfInv DEF Return, FatReadInv, StackBalanced, StackInCall
  <2>4. QED
    BY <2>1, <2>2, <2>3 DEF FatReadInv
<1>10. CASE UNCHANGED vars
  <2>1. FatReadTypeOK'
    BY <1>10
    DEF vars, FatReadInv, FatReadTypeOK, VolumeTypeOK, StackTypeOK, cluster_offset
  <2>2. WritesOnlyBuffer'
    BY <1>10, WritesNothing, KeepsWritesOnlyBuffer DEF vars
  <2>3. StackBalanced' /\ StackInCall'
    BY <1>10 DEF vars, FatReadInv, StackBalanced, StackInCall
  <2>4. QED
    BY <2>1, <2>2, <2>3 DEF FatReadInv
<1>11. QED
  BY <1>1, <1>2, <1>3, <1>4, <1>5, <1>6, <1>7, <1>8, <1>9, <1>10 DEF Next, Progress

\* The invariant holds throughout the call.
LEMMA InvAlways == Spec => []FatReadInv
<1>1. Init => FatReadInv
  BY InitInv
<1>2. FatReadInv /\ [Next]_vars => FatReadInv'
  BY NextInv
<1>3. QED
  BY <1>1, <1>2, PTL DEF Spec

-----------------------------------------------------------------------------
\* Every variable of fat_read keeps its range: the parts stay within the request, the
\* cluster within the table, the stack within its limits.
THEOREM FatReadTypeOKAlways == Spec => []FatReadTypeOK
<1>1. FatReadInv => FatReadTypeOK
  BY DEF FatReadInv
<1>2. QED
  BY <1>1, InvAlways, PTL

\* fat_read (fat.c) writes to the caller's buffer, as far as it was asked to, and below the
\* top the extended stack had at the call, whatever the table and the disk answer.
THEOREM WritesOnlyBufferAlways == Spec => []WritesOnlyBuffer
<1>1. FatReadInv => WritesOnlyBuffer
  BY DEF FatReadInv
<1>2. QED
  BY <1>1, InvAlways, PTL

\* fat_read leaves nothing on the extended stack, and on success the stack is as it was.
THEOREM StackBalancedAlways == Spec => []StackBalanced
<1>1. FatReadInv => StackBalanced
  BY DEF FatReadInv
<1>2. QED
  BY <1>1, InvAlways, PTL

\* One cluster and two sectors of free stack are enough for a read of any length.
THEOREM RoomForOnePartIsEnoughAlways == Spec => []RoomForOnePartIsEnough
<1>1. FatReadInv => RoomForOnePartIsEnough
  BY NumbersOfInv, GeometryType DEF FatReadInv, StackInCall, RoomForOnePartIsEnough
<1>2. QED
  BY <1>1, InvAlways, PTL

-----------------------------------------------------------------------------
\* The chain of a request, as the table links it: the first cluster is the file's, and
\* each but the last says which one is next.
LEMMA ChainLinks ==
  ASSUME FatReadInv
  PROVE  LET last == (request.offset + request.length) \div bytes_per_cluster
         IN  /\ last \in Nat /\ DOMAIN Chain(request) = 0 .. last
             /\ Chain(request)[0] = request.cluster
             /\ \A n \in 1 .. last :
                  Chain(request)[n - 1] \in GoodClusters =>
                    Chain(request)[n] = fat[Chain(request)[n - 1]]
<1> DEFINE last == (request.offset + request.length) \div bytes_per_cluster
           Follow(c) == IF c \in GoodClusters THEN fat[c] ELSE c
           F == [c \in Links |-> Follow(c)]
           Body(f) == [n \in 0 .. last |->
                         IF n = 0 THEN request.cluster
                         ELSE LET c == f[n - 1] IN IF c \in GoodClusters THEN fat[c] ELSE c]
<1>1. last \in Nat
  <2>1. PICK n \in Nat : n = request.offset + request.length
    BY NumbersOfInv
  <2>2. n \div bytes_per_cluster \in Nat
    BY GeometryType, Quotient
  <2>3. QED
    BY <2>1, <2>2
<1>2. request.cluster \in Links
  BY NumbersOfInv, GeometryAssumption DEF Links, Clusters, FAT_BAD
<1>3. F \in [Links -> Links]
  <2>1. fat \in [Clusters -> Links]
    BY FatsAssumption DEF FatReadInv, FatReadTypeOK, VolumeTypeOK
  <2>2. GoodClusters \subseteq Clusters
    BY GeometryAssumption DEF GoodClusters, Clusters, FirstCluster, FAT_BAD
  <2>3. QED
    BY <2>1, <2>2
<1>4. PICK g \in [0 .. last -> Links] :
         g[0] = request.cluster /\ \A n \in 1 .. last : g[n] = F[g[n - 1]]
  <2> HIDE DEF last, F
  <2>1. Iterates(Links, request.cluster, F, last) # {}
    BY <1>1, <1>2, <1>3, Recursion
  <2>2. QED
    BY <2>1 DEF Iterates
<1>5. g = Body(g)
  <2>1. \A n \in 1 .. last : g[n] = Follow(g[n - 1])
    <3>1. ASSUME NEW n \in 1 .. last PROVE g[n - 1] \in Links
      <4> HIDE DEF last
      <4>1. n - 1 \in 0 .. last
        BY <1>1
      <4>2. QED
        BY <4>1
    <3>2. QED
      BY <1>4, <3>1
  <2> HIDE DEF last
  <2>2. \A n \in 0 .. last : g[n] = Body(g)[n]
    BY <1>1, <1>4, <2>1
  <2>3. QED
    BY <2>2
<1> DEFINE chain == CHOOSE f : f = Body(f)
<1>6. chain = Body(chain)
  <2>1. \E f : f = Body(f)
    BY <1>5
  <2> HIDE DEF Body
  <2>2. QED
    BY <2>1, Zenon
<1>7. Chain(request) = chain
  BY DEF Chain
<1> HIDE DEF chain, last
<1>8. DOMAIN chain = 0 .. last /\ chain[0] = request.cluster
  BY <1>1, <1>6
<1>9. ASSUME NEW n \in 1 .. last, chain[n - 1] \in GoodClusters
      PROVE  chain[n] = fat[chain[n - 1]]
  <2>1. n \in 0 .. last /\ n # 0
    BY <1>1
  <2>2. chain[n] = Body(chain)[n]
    BY <1>6
  <2>3. QED
    BY <1>9, <2>1, <2>2
<1>10. QED
  BY <1>1, <1>7, <1>8, <1>9 DEF last

-----------------------------------------------------------------------------
\* There is one quotient.
LEMMA QuotientUnique ==
  ASSUME NEW n \in Nat, NEW b \in Nat \ {0}, NEW q \in Nat, NEW r \in 0 .. b - 1, n = b * q + r
  PROVE  n \div b = q
OBVIOUS

\* x units on within one unit of b ...
LEMMA Within ==
  ASSUME NEW n \in Nat, NEW b \in Nat \ {0}, NEW x \in Nat, (n % b) + x < b
  PROVE  (n + x) \div b = n \div b /\ (n + x) % b = (n % b) + x
<1>1. PICK q \in Nat : q = n \div b
  BY Quotient
<1>2. PICK r \in 0 .. b - 1 : r = n % b
  BY Quotient
<1>3. n + x = b * q + (r + x) /\ r + x \in 0 .. b - 1 /\ n + x \in Nat
  <2>1. n = b * q + r
    BY <1>1, <1>2, Remainder
  <2>2. PICK p \in Nat : p = b * q
    BY ProductType
  <2>3. QED
    BY <1>2, <2>1, <2>2
<1>4. (n + x) \div b = q
  BY <1>3, QuotientUnique
<1>5. (n + x) % b = r + x
  BY <1>1, <1>3, RemainderUnique
<1>6. QED
  BY <1>1, <1>2, <1>4, <1>5

\* ... and to the start of the next.
LEMMA ToTheNext ==
  ASSUME NEW n \in Nat, NEW b \in Nat \ {0}, NEW x \in Nat, (n % b) + x = b
  PROVE  (n + x) \div b = (n \div b) + 1 /\ (n + x) % b = 0
<1>1. PICK q \in Nat : q = n \div b
  BY Quotient
<1>2. PICK r \in 0 .. b - 1 : r = n % b
  BY Quotient
<1>3. n + x = b * (q + 1) + 0 /\ n + x \in Nat /\ 0 \in 0 .. b - 1 /\ q + 1 \in Nat
  <2>1. n = b * q + r
    BY <1>1, <1>2, Remainder
  <2>2. PICK p \in Nat : p = b * q
    BY ProductType
  <2>3. b * (q + 1) = p + b
    BY <2>2
  <2>4. QED
    BY <1>2, <2>1, <2>2, <2>3
<1>4. (n + x) \div b = q + 1
  BY <1>3, QuotientUnique
<1>5. (n + x) % b = 0
  BY <1>3, RemainderUnique
<1>6. QED
  BY <1>1, <1>4, <1>5

\* A number of x more, by whole units and the rest.
LEMMA Further ==
  ASSUME NEW n \in Nat, NEW b \in Nat \ {0}, NEW x \in Nat
  PROVE  /\ (n + x) \div b = (n \div b) + (((n % b) + x) \div b)
         /\ (n + x) % b = ((n % b) + x) % b
<1>1. PICK q \in Nat : q = n \div b
  BY Quotient
<1>2. PICK r \in 0 .. b - 1 : r = n % b
  BY Quotient
<1>3. PICK m \in Nat : m = r + x
  <2>1. r + x \in Nat
    BY <1>2
  <2>2. QED
    BY <2>1
<1>4. PICK s \in Nat : s = m \div b
  BY Quotient
<1>5. PICK t \in 0 .. b - 1 : t = m % b
  BY Quotient
<1>6. n + x = b * (q + s) + t /\ n + x \in Nat /\ q + s \in Nat
  <2>1. n = b * q + r
    BY <1>1, <1>2, Remainder
  <2>2. m = b * s + t
    BY <1>4, <1>5, Remainder
  <2>3. PICK p \in Nat : p = b * q
    BY ProductType
  <2>4. PICK u \in Nat : u = b * s
    BY ProductType
  <2>5. b * (q + s) = p + u
    BY <2>3, <2>4
  <2>6. QED
    BY <1>2, <1>3, <1>5, <2>1, <2>2, <2>3, <2>4, <2>5
<1>7. (n + x) \div b = q + s
  BY <1>6, QuotientUnique
<1>8. (n + x) % b = t
  BY <1>6, RemainderUnique
<1>9. QED
  BY <1>1, <1>2, <1>3, <1>4, <1>5, <1>7, <1>8

\* Where a byte lies in its cluster says where it lies in its sector.
LEMMA InSector ==
  ASSUME NEW n \in Nat
  PROVE  InCluster(n) % BYTES_PER_SECTOR = n % BYTES_PER_SECTOR
<1>1. PICK b \in Nat \ {0} : b = BYTES_PER_SECTOR
  BY GeometryAssumption
<1>2. PICK s \in Nat \ {0} : s = SECTORS_PER_CLUSTER
  BY GeometryAssumption
<1>3. PICK c \in Nat \ {0} : c = bytes_per_cluster
  BY GeometryType
<1>4. PICK q \in Nat : q = n \div c
  BY Quotient
<1>5. PICK i \in Nat : i = n % c
  <2>1. n % c \in 0 .. c - 1
    BY Quotient
  <2>2. QED
    BY <2>1
<1>6. PICK v \in Nat : v = i \div b
  BY Quotient
<1>7. PICK r \in 0 .. b - 1 : r = i % b
  BY Quotient
<1>8. n = c * q + i
  BY <1>4, <1>5, Remainder
<1>9. i = b * v + r
  BY <1>6, <1>7, Remainder
<1>10. PICK w \in Nat : w = s * q
  BY ProductType
<1>11. c * q = b * w
  <2>1. c = b * s
    BY <1>1, <1>2, <1>3, Commutes DEF bytes_per_cluster
  <2>2. QED
    BY <1>10, <2>1
<1>12. n = b * (w + v) + r /\ w + v \in Nat
  <2>1. PICK u \in Nat : u = b * w
    BY ProductType
  <2>2. PICK y \in Nat : y = b * v
    BY ProductType
  <2>3. b * (w + v) = u + y
    BY <2>1, <2>2
  <2>4. QED
    BY <1>7, <1>8, <1>9, <1>11, <2>1, <2>2, <2>3
<1>13. n % b = r
  BY <1>12, RemainderUnique
<1>14. QED
  BY <1>1, <1>3, <1>5, <1>7, <1>13 DEF InCluster

-----------------------------------------------------------------------------
\* Where the byte of the file lies that is x bytes behind byte p, in the same cluster.
LEMMA FileByteAt ==
  ASSUME NEW r, NEW p \in Nat, NEW x \in Nat, InCluster(p) + x < bytes_per_cluster
  PROVE  FileByte(r, p + x) =
           Byte(cluster_to_lba(Chain(r)[p \div bytes_per_cluster])
                  + ((InCluster(p) \div BYTES_PER_SECTOR)
                       + (((p % BYTES_PER_SECTOR) + x) \div BYTES_PER_SECTOR)),
                ((p % BYTES_PER_SECTOR) + x) % BYTES_PER_SECTOR)
<1>1. PICK c \in Nat \ {0} : c = bytes_per_cluster
  BY GeometryType
<1>2. PICK b \in Nat \ {0} : b = BYTES_PER_SECTOR
  BY GeometryAssumption
<1>3. PICK i \in Nat : i = p % c
  <2>1. p % c \in 0 .. c - 1
    BY Quotient
  <2>2. QED
    BY <2>1
<1>4. (p + x) \div c = p \div c /\ (p + x) % c = i + x
  BY <1>1, <1>3, Within DEF InCluster
<1>5. i % b = p % b
  BY <1>1, <1>2, <1>3, InSector DEF InCluster
<1>6. (i + x) \div b = (i \div b) + (((p % b) + x) \div b)
  <2>1. (i + x) \div b = (i \div b) + (((i % b) + x) \div b)
    BY Further
  <2>2. QED
    BY <1>5, <2>1
<1>7. (p + x) % b = ((p % b) + x) % b
  BY Further
<1>8. FileByte(r, p + x) =
        Byte(cluster_to_lba(Chain(r)[(p + x) \div c]) + (((p + x) % c) \div b), (p + x) % b)
  BY <1>1, <1>2 DEF FileByte, InCluster
<1>9. QED
  BY <1>1, <1>2, <1>3, <1>4, <1>6, <1>7, <1>8 DEF InCluster

\* What disk_read puts at its address, byte by byte.
LEMMA DiskReadBytes ==
  ASSUME NEW lba \in Nat, NEW address \in Nat, address <= REAL_MODE_LIMIT, NEW n \in Nat,
         NEW y \in 0 .. n * BYTES_PER_SECTOR - 1, address + y \in Memory
  PROVE  DiskRead(lba, address, n)[address + y] =
           Byte(lba + (y \div BYTES_PER_SECTOR), y % BYTES_PER_SECTOR)
<1>1. PICK size \in Nat : size = n * BYTES_PER_SECTOR
  BY ProductType, GeometryAssumption
<1>2. y \in Nat /\ y \in 0 .. size - 1
  BY <1>1
<1>3. PICK a \in Memory : a = address + y
  OBVIOUS
<1>4. a - address = y
  BY <1>2, <1>3
<1>5. DiskRead(lba, address, n)[a] =
        IF a - address \in 0 .. size - 1
        THEN Byte(lba + ((a - address) \div BYTES_PER_SECTOR), (a - address) % BYTES_PER_SECTOR)
        ELSE memory[a]
  BY <1>1, <1>3, TargetExact DEF DiskRead
<1>6. QED
  BY <1>2, <1>3, <1>4, <1>5

-----------------------------------------------------------------------------
\* What is asked of the requests: no buffer is written to as free stack.
Apart == \A r \in REQUESTS : Placed(r)

\* How many bytes have arrived, and which byte of the file is the next.
Arrived == request.length - length
Place == request.offset + Arrived

BufferApart ==
  /\ request.buffer + request.length <= MEMORY_SIZE
  /\ \/ request.buffer + request.length <= EXTENDED_STACK_LIMIT
     \/ stack_at_call <= request.buffer

ResultAtEnd ==
  /\ pc # "done" => result = "none"
  /\ result = "FAT_SUCCESS" => length = 0

\* offset says where in its cluster the next byte lies: as asked for the first part, and at
\* the start of a cluster for all others.
AtOffset ==
  /\ pc = "skip" => Arrived = 0
  /\ pc = "next" => Arrived # 0 /\ length # 0
  /\ pc \in {"skip", "read", "next"} =>
       IF Arrived = 0 THEN offset = request.offset
       ELSE offset = 0 /\ (length # 0 => InCluster(Place) = 0)

\* cluster is the one of the chain that the next byte lies in; the one before while that is
\* looked up.
OnChain ==
  /\ pc = "skip" => cluster = Chain(request)[skipped]
  /\ (pc = "read" /\ length # 0) => cluster = Chain(request)[Place \div bytes_per_cluster]
  /\ pc = "next" => /\ Place \div bytes_per_cluster >= 1
                    /\ cluster = Chain(request)[(Place \div bytes_per_cluster) - 1]

\* The bytes that have arrived are bytes of the file, and those asked for.
InOrder ==
  /\ \A k \in 0 .. Arrived - 1 :
       Chain(request)[(request.offset + k) \div bytes_per_cluster] \in GoodClusters
  /\ \A k \in 0 .. Arrived - 1 :
       memory[request.buffer + k] = FileByte(request, request.offset + k)

\* the inductive invariant of the refinement
FileInv ==
  /\ FatReadInv /\ BufferApart /\ ResultAtEnd /\ AtOffset
  /\ WellFormed(request) => OnChain
  /\ (WellFormed(request) /\ Covered(request)) => InOrder

\* A memory in which what has arrived is as it was.
Spares(m) == \A a \in request.buffer .. buffer - 1 : m[a] = memory[a]

\* Reading the table spares it, ...
LEMMA TableReadSpares ==
  ASSUME FatReadInv, BufferApart, CanPush(fat_buffer_size), ext_stack_top <= stack_at_call
  PROVE  Spares(TableRead)
<1>1. ASSUME NEW a \in request.buffer .. buffer - 1
      PROVE  a \in Memory /\ a \notin ext_stack_top - fat_buffer_size .. ext_stack_top - 1
  BY NumbersOfInv, GeometryType, MemoryMapAssumption DEF BufferApart, Memory, CanPush
<1>2. QED
  BY <1>1 DEF Spares, TableRead

\* ... so does reading a part, ...
LEMMA PartReadSpares ==
  ASSUME FatReadInv, BufferApart, pc = "read", length # 0, ~Panics,
         temp_buffer <= REAL_MODE_LIMIT
  PROVE  Spares(DiskRead(FirstSector, temp_buffer, SectorsToRead(offset, length)))
<1>1. PICK n \in Nat : n = SectorsToRead(offset, length) /\ n * BYTES_PER_SECTOR = PartSize
  BY NumbersOfInv, PartFits DEF PartSize
<1>2. memory \in [Memory -> Bytes]
  BY DEF FatReadInv, FatReadTypeOK, VolumeTypeOK
<1>3. \A a \in Memory : \/ DiskRead(FirstSector, temp_buffer, n)[a] = memory[a]
                        \/ a \in temp_buffer .. temp_buffer + PartSize - 1
  BY <1>1, <1>2, PartPlace, FirstSectorType, DiskReadWrites
<1>4. ASSUME NEW a \in request.buffer .. buffer - 1
      PROVE  a \in Memory /\ a \notin temp_buffer .. temp_buffer + PartSize - 1
  <2>1. a \in Memory
    BY NumbersOfInv, MemoryMapAssumption DEF BufferApart, Memory
  <2>2. CASE UsesTemp
    BY <2>1, <2>2, PartPlace, NumbersOfInv DEF BufferApart
  <2>3. CASE ~UsesTemp
    BY <2>1, <2>3, PartPlace, NumbersOfInv
  <2>4. QED
    BY <2>2, <2>3
<1>5. QED
  BY <1>1, <1>3, <1>4 DEF Spares

\* ... and copying it.
LEMMA PartCopySpares ==
  ASSUME FatReadInv, BufferApart, pc = "read", length # 0, ~Panics,
         temp_buffer <= REAL_MODE_LIMIT
  PROVE  Spares(Copied)
<1> DEFINE read == DiskRead(FirstSector, temp_buffer, SectorsToRead(offset, length))
<1>1. Spares(read)
  BY PartReadSpares
<1>2. Copied = IF UsesTemp
               THEN [a \in Memory |->
                       IF a \in buffer .. buffer + length_to_read - 1
                       THEN read[temp_buffer + byte_offset + (a - buffer)]
                       ELSE read[a]]
               ELSE read
  BY DEF Copied
<1> HIDE DEF read
<1>3. ASSUME NEW a \in request.buffer .. buffer - 1
      PROVE  a \in Memory /\ a \notin buffer .. buffer + length_to_read - 1
  BY NumbersOfInv, MemoryMapAssumption, PartPlace DEF BufferApart, Memory
<1>4. ASSUME NEW a \in request.buffer .. buffer - 1 PROVE Copied[a] = read[a]
  BY <1>2, <1>3
<1>5. QED
  BY <1>1, <1>4 DEF Spares

-----------------------------------------------------------------------------
\* Each byte of a part is in the buffer, once it is copied: the first is byte_offset behind
\* the start of the sectors that were read.
LEMMA PartBytes ==
  ASSUME FatReadInv, BufferApart, pc = "read", length # 0, ~Panics,
         temp_buffer <= REAL_MODE_LIMIT, byte_offset + length_to_read <= PartSize,
         NEW x \in 0 .. length_to_read - 1
  PROVE  Copied[buffer + x] = Byte(FirstSector + ((byte_offset + x) \div BYTES_PER_SECTOR),
                                   (byte_offset + x) % BYTES_PER_SECTOR)
<1> DEFINE read == DiskRead(FirstSector, temp_buffer, SectorsToRead(offset, length))
<1>1. PICK n \in Nat : n = SectorsToRead(offset, length) /\ n * BYTES_PER_SECTOR = PartSize
  BY NumbersOfInv, PartFits DEF PartSize
<1>2. byte_offset \in Nat
  <2>1. byte_offset \in 0 .. BYTES_PER_SECTOR - 1
    BY NumbersOfInv, GeometryAssumption, Quotient DEF byte_offset
  <2>2. QED
    BY <2>1
<1>3. PICK y \in Nat : y = byte_offset + x /\ y \in 0 .. PartSize - 1
  <2>1. byte_offset + x \in Nat /\ byte_offset + x <= PartSize - 1
    BY <1>2, PartPlace, NumbersOfInv
  <2>2. QED
    BY <2>1, PartPlace
<1>4. x \in Nat /\ buffer + x \in Memory /\ buffer + x \in buffer .. buffer + length_to_read - 1
  BY PartPlace, NumbersOfInv, MemoryMapAssumption DEF BufferApart, Memory
<1>5. temp_buffer + y \in Memory => 
        read[temp_buffer + y] = Byte(FirstSector + (y \div BYTES_PER_SECTOR), y % BYTES_PER_SECTOR)
  <2>1. SUFFICES ASSUME temp_buffer + y \in Memory
                 PROVE  read[temp_buffer + y] =
                          Byte(FirstSector + (y \div BYTES_PER_SECTOR), y % BYTES_PER_SECTOR)
    OBVIOUS
  <2>2. FirstSector \in Nat /\ temp_buffer \in Nat /\ y \in 0 .. n * BYTES_PER_SECTOR - 1
    BY <1>1, <1>3, PartPlace, FirstSectorType
  <2>3. read = DiskRead(FirstSector, temp_buffer, n)
    BY <1>1
  <2> HIDE DEF read
  <2>4. QED
    BY <2>1, <2>2, <2>3, DiskReadBytes
<1>6. CASE UsesTemp
  <2>1. temp_buffer + y \in Memory
    BY <1>3, <1>6, PartPlace, NumbersOfInv, MemoryMapAssumption, GeometryAssumption DEF Memory
  <2>2. Copied = [a \in Memory |->
                    IF a \in buffer .. buffer + length_to_read - 1
                    THEN read[temp_buffer + byte_offset + (a - buffer)]
                    ELSE read[a]]
    BY <1>6 DEF Copied
  <2> HIDE DEF read
  <2>3. Copied[buffer + x] = read[temp_buffer + byte_offset + ((buffer + x) - buffer)]
    BY <1>4, <2>2
  <2>4. temp_buffer + byte_offset + ((buffer + x) - buffer) = temp_buffer + y
    BY <1>2, <1>3, <1>4, PartPlace, NumbersOfInv
  <2>5. QED
    BY <1>3, <1>5, <2>1, <2>3, <2>4
<1>7. CASE ~UsesTemp
  <2>1. temp_buffer + y = buffer + x /\ y = byte_offset + x
    BY <1>2, <1>3, <1>4, <1>7, PartPlace, NumbersOfInv DEF UsesTemp
  <2>2. Copied = read
    BY <1>7 DEF Copied
  <2> HIDE DEF read
  <2>3. QED
    BY <1>4, <1>5, <2>1, <2>2
<1>8. QED
  BY <1>6, <1>7

\* The next byte of the file lies where offset says, in its cluster and in its sector.
LEMMA PlaceOfOffset ==
  ASSUME FatReadInv, AtOffset, pc = "read", length # 0
  PROVE  /\ Arrived \in Nat /\ Place \in Nat
         /\ InCluster(Place) = InCluster(offset)
         /\ Place % BYTES_PER_SECTOR = byte_offset
         /\ Covered(request) => byte_offset + length_to_read <= PartSize
<1>1. Arrived \in Nat /\ Place \in Nat
  BY NumbersOfInv DEF Arrived, Place
<1>2. CASE Arrived = 0
  <2>1. offset = request.offset /\ Place = offset /\ length = request.length
    BY <1>2, NumbersOfInv DEF AtOffset, Arrived, Place
  <2>2. QED
    BY <1>1, <2>1, NumbersOfInv DEF byte_offset, Covered, length_to_read, PartSize
<1>3. CASE Arrived # 0
  <2>1. offset = 0 /\ InCluster(Place) = 0
    BY <1>3 DEF AtOffset
  <2>2. 0 % bytes_per_cluster = 0 /\ 0 % BYTES_PER_SECTOR = 0
    <3>1. \A b \in Nat \ {0} : 0 % b = 0
      OBVIOUS
    <3>2. QED
      BY <3>1, GeometryType, GeometryAssumption
  <2>3. byte_offset = 0 /\ InCluster(offset) = 0
    BY <2>1, <2>2 DEF byte_offset, InCluster
  <2>4. Place % BYTES_PER_SECTOR = 0
    BY <1>1, <2>1, <2>2, InSector
  <2>5. length_to_read \in Nat /\ PartSize \in Nat /\ length_to_read <= PartSize
    BY NumbersOfInv, PartFits DEF length_to_read, PartSize
  <2>6. QED
    BY <1>1, <2>1, <2>3, <2>4, <2>5
<1>4. QED
  BY <1>2, <1>3

\* A part ends in its cluster, and where it is not the last one with it.
LEMMA PartInCluster ==
  ASSUME FatReadInv, length # 0
  PROVE  /\ InCluster(offset) \in Nat
         /\ InCluster(offset) + length_to_read <= bytes_per_cluster
         /\ length_to_read # length => InCluster(offset) + length_to_read = bytes_per_cluster
<1>1. PICK c \in Nat \ {0} : c = bytes_per_cluster
  BY GeometryType
<1>2. PICK i \in 0 .. c - 1 : i = InCluster(offset)
  BY <1>1, NumbersOfInv, Quotient DEF InCluster
<1>3. length_to_read = min(length + i, c) - i
  BY <1>1, <1>2 DEF length_to_read, LengthToRead
<1>4. QED
  BY <1>1, <1>2, <1>3, NumbersOfInv DEF min

\* What a part brings is what the file has next.
LEMMA PartIsOfFile ==
  ASSUME FatReadInv, BufferApart, AtOffset, OnChain, Covered(request),
         pc = "read", length # 0, ~Panics, temp_buffer <= REAL_MODE_LIMIT,
         NEW x \in 0 .. length_to_read - 1
  PROVE  /\ (Place + x) \div bytes_per_cluster = Place \div bytes_per_cluster
         /\ Copied[buffer + x] = FileByte(request, Place + x)
<1>1. x \in Nat /\ x < length_to_read
  BY PartPlace
<1>2. Place \in Nat /\ InCluster(Place) = InCluster(offset) /\ Place % BYTES_PER_SECTOR = byte_offset
  BY PlaceOfOffset
<1>3. InCluster(Place) + x < bytes_per_cluster
  BY <1>1, <1>2, PartInCluster, PartPlace, GeometryType
<1>4. (Place + x) \div bytes_per_cluster = Place \div bytes_per_cluster
  BY <1>1, <1>2, <1>3, Within, GeometryType DEF InCluster
<1>5. cluster = Chain(request)[Place \div bytes_per_cluster]
  BY DEF OnChain
<1>6. PICK s \in Nat : s = (byte_offset + x) \div BYTES_PER_SECTOR
  <2>1. byte_offset \in 0 .. BYTES_PER_SECTOR - 1
    BY NumbersOfInv, GeometryAssumption, Quotient DEF byte_offset
  <2>2. byte_offset + x \in Nat
    BY <1>1, <2>1
  <2>3. QED
    BY <2>2, GeometryAssumption, Quotient
<1>7. FileByte(request, Place + x) =
        Byte(cluster_to_lba(cluster) + (sector_offset + s), (byte_offset + x) % BYTES_PER_SECTOR)
  BY <1>1, <1>2, <1>3, <1>5, <1>6, FileByteAt DEF sector_offset
<1>8. Copied[buffer + x] = Byte(FirstSector + s, (byte_offset + x) % BYTES_PER_SECTOR)
  BY <1>6, PlaceOfOffset, PartBytes
<1>9. FirstSector + s = cluster_to_lba(cluster) + (sector_offset + s)
  <2>1. cluster_to_lba(cluster) \in Nat
    BY GeometryType DEF FatReadInv, FatReadTypeOK
  <2>2. sector_offset \in Nat
    BY PartInCluster, Quotient, GeometryAssumption DEF sector_offset
  <2>3. QED
    BY <1>6, <2>1, <2>2 DEF FirstSector
<1>10. QED
  BY <1>4, <1>7, <1>8, <1>9

-----------------------------------------------------------------------------
\* A smaller number has no larger quotient.
LEMMA QuotientMonotone ==
  ASSUME NEW m \in Nat, NEW n \in Nat, m <= n, NEW b \in Nat \ {0}
  PROVE  m \div b <= n \div b
<1>1. PICK q \in Nat : q = m \div b
  BY Quotient
<1>2. PICK s \in Nat : s = n \div b
  BY Quotient
<1>3. PICK p \in Nat : p = b * q /\ p <= m
  BY <1>1, Quotient
<1>4. PICK t \in Nat : t = b * s /\ n < t + b
  BY <1>2, Quotient
<1>5. b * q < b * s + b
  BY <1>3, <1>4
<1>6. q < s + 1
  BY <1>5
<1>7. QED
  BY <1>1, <1>2, <1>6

\* The link the table has for the cluster at hand is the next of the chain, and a cluster
\* or the end of the file.
LEMMA NextLink ==
  ASSUME FatReadInv, OnChain, AtOffset, WellFormed(request), Following
  PROVE  /\ fat[cluster] \in GoodClusters \cup {FAT_END}
         /\ pc = "skip" => fat[cluster] = Chain(request)[skipped + 1]
         /\ pc = "next" => fat[cluster] = Chain(request)[Place \div bytes_per_cluster]
<1>1. PICK last \in Nat : /\ last = (request.offset + request.length) \div bytes_per_cluster
                          /\ DOMAIN Chain(request) = 0 .. last
                          /\ \A n \in 1 .. last :
                               Chain(request)[n - 1] \in GoodClusters =>
                                 Chain(request)[n] = fat[Chain(request)[n - 1]]
  BY ChainLinks
<1>2. \A n \in 0 .. last : Chain(request)[n] \in GoodClusters \cup {FAT_END}
  BY <1>1 DEF WellFormed
<1>3. ASSUME NEW n \in 1 .. last, cluster = Chain(request)[n - 1]
      PROVE  fat[cluster] = Chain(request)[n] /\ fat[cluster] \in GoodClusters \cup {FAT_END}
  <2>1. n - 1 \in 0 .. last /\ n \in 0 .. last
    BY <1>1
  <2>2. cluster \in GoodClusters
    <3>1. cluster # FAT_END
      BY WhileFollowing, GeometryAssumption DEF Clusters, FAT_BAD
    <3>2. QED
      BY <1>2, <1>3, <2>1, <3>1
  <2>3. QED
    BY <1>1, <1>2, <1>3, <2>1, <2>2
<1> DEFINE end == request.offset + request.length
<1>4. end \in Nat /\ bytes_per_cluster \in Nat \ {0} /\ last = end \div bytes_per_cluster
  <2>1. request.offset \in Nat /\ request.length \in Nat
    BY NumbersOfInv
  <2>2. end \in Nat
    BY <2>1
  <2>3. QED
    BY <1>1, <2>2, GeometryType
<1>5. CASE pc = "skip"
  <2>1. skipped \in Nat /\ skipped + 1 <= cluster_offset
    BY <1>5, WhileFollowing DEF FatReadInv, FatReadTypeOK
  <2>2. cluster_offset <= last
    <3>1. request.offset \in Nat /\ request.offset <= end
      BY NumbersOfInv
    <3> HIDE DEF end
    <3>2. QED
      BY <1>4, <3>1, QuotientMonotone DEF cluster_offset
  <2>3. skipped + 1 \in 1 .. last /\ (skipped + 1) - 1 = skipped
    BY <1>1, <2>1, <2>2, NumbersOfInv
  <2>4. QED
    BY <1>3, <1>5, <2>3 DEF OnChain
<1>6. CASE pc = "next"
  <2>1. Place \in Nat /\ Place <= end
    BY NumbersOfInv DEF Place, Arrived
  <2>2. PICK q \in Nat : q = Place \div bytes_per_cluster
    BY <2>1, GeometryType, Quotient
  <2>3. q <= last
    <3> HIDE DEF end
    <3>1. QED
      BY <1>4, <2>1, <2>2, QuotientMonotone
  <2>4. q \in 1 .. last /\ cluster = Chain(request)[q - 1]
    BY <1>1, <1>6, <2>2, <2>3 DEF OnChain
  <2>5. QED
    BY <1>3, <1>6, <2>2, <2>4
<1>7. QED
  BY <1>5, <1>6 DEF Following

\* The table and the request stay, and with them the file.
LEMMA FileStays ==
  ASSUME UNCHANGED <<fat, request>>
  PROVE  /\ File(request)' = File(request) /\ Chain(request)' = Chain(request)
         /\ WellFormed(request)' <=> WellFormed(request)
         /\ Covered(request)' <=> Covered(request)
         /\ \A k \in Nat : FileByte(request, k)' = FileByte(request, k)
<1>1. Chain(request)' = Chain(request)
  BY DEF Chain
<1>2. ASSUME NEW k PROVE FileByte(request, k)' = FileByte(request, k)
  BY <1>1 DEF FileByte, bytes_per_cluster, cluster_to_lba, InCluster, Byte
<1>3. File(request)' = File(request)
  BY <1>1, <1>2 DEF File, bytes_per_cluster
<1>4. WellFormed(request)' <=> WellFormed(request)
  BY <1>1 DEF WellFormed
<1>5. Covered(request)' <=> Covered(request)
  BY DEF Covered, LengthToRead, SectorsToRead, InCluster, min, bytes_per_cluster
<1>6. QED
  BY <1>1, <1>2, <1>3, <1>4, <1>5

-----------------------------------------------------------------------------
\* What has arrived stays where a step spares it.
LEMMA KeepsInOrder ==
  ASSUME FatReadInv, InOrder, Spares(memory'), UNCHANGED <<fat, request, length>>
  PROVE  InOrder'
<1>1. Arrived' = Arrived /\ Arrived \in Nat /\ request.buffer + Arrived = buffer
  BY NumbersOfInv DEF Arrived
<1>2. ASSUME NEW k \in 0 .. Arrived - 1
      PROVE  memory'[request.buffer + k] = FileByte(request, request.offset + k)'
  <2>1. request.buffer + k \in request.buffer .. buffer - 1
    BY <1>1, NumbersOfInv
  <2>2. memory[request.buffer + k] = FileByte(request, request.offset + k)
    BY DEF InOrder
  <2>3. request.offset + k \in Nat
    BY <1>1, NumbersOfInv
  <2>4. FileByte(request, request.offset + k)' = FileByte(request, request.offset + k)
    <3>1. PICK n \in Nat : n = request.offset + k
      BY <2>3
    <3>2. FileByte(request, n)' = FileByte(request, n)
      BY FileStays
    <3>3. n = (request.offset + k)'
      BY <3>1
    <3>4. QED
      BY <3>1, <3>2, <3>3
  <2>5. QED
    BY <2>1, <2>2, <2>4 DEF Spares
<1>3. Chain(request)' = Chain(request)
  BY FileStays
<1>4. QED
  BY <1>1, <1>2, <1>3 DEF InOrder, bytes_per_cluster, GoodClusters, FAT_BAD, FirstCluster

\* A part continues the file.
LEMMA PartInOrder ==
  ASSUME FileInv, WellFormed(request), Covered(request), ReadPart
  PROVE  InOrder'
<1> DEFINE n == length_to_read
<1>1. FatReadInv /\ BufferApart /\ AtOffset /\ OnChain /\ InOrder
  BY DEF FileInv
<1>2. /\ pc = "read" /\ length # 0 /\ ~Panics /\ temp_buffer <= REAL_MODE_LIMIT
      /\ memory' = Copied /\ length' = length - n /\ UNCHANGED <<fat, request>>
  BY DEF ReadPart, callVars
<1>3. n \in 1 .. length /\ Arrived \in Nat /\ Place = request.offset + Arrived
      /\ request.buffer + Arrived = buffer
  BY <1>1, <1>2, PartPlace, NumbersOfInv DEF Arrived, Place
<1>4. Arrived' = Arrived + n
  BY <1>1, <1>2, <1>3, NumbersOfInv DEF Arrived
<1>5. Spares(memory')
  BY <1>1, <1>2, PartCopySpares
<1>6. Chain(request)[Place \div bytes_per_cluster] \in GoodClusters
  <2>1. PICK last \in Nat : /\ last = (request.offset + request.length) \div bytes_per_cluster
                            /\ DOMAIN Chain(request) = 0 .. last
    BY <1>1, ChainLinks
  <2> DEFINE end == request.offset + request.length
  <2>2. end \in Nat /\ Place \in Nat /\ Place <= end
    BY <1>1, <1>3, NumbersOfInv DEF Arrived
  <2>3. last = end \div bytes_per_cluster /\ bytes_per_cluster \in Nat \ {0}
    BY <2>1, GeometryType
  <2> HIDE DEF end
  <2>4. PICK q \in Nat : q = Place \div bytes_per_cluster
    BY <2>2, <2>3, Quotient
  <2>5. q <= last
    BY <2>2, <2>3, <2>4, QuotientMonotone
  <2>6. Chain(request)[q] \in GoodClusters \cup {FAT_END}
    BY <2>1, <2>4, <2>5 DEF WellFormed
  <2>7. Chain(request)[q] \in Clusters
    BY <1>1, <1>2, <2>4 DEF OnChain, FatReadInv, FatReadTypeOK
  <2>8. QED
    BY <2>4, <2>6, <2>7, GeometryAssumption DEF Clusters, FAT_BAD
<1> HIDE DEF n
<1>7. ASSUME NEW k \in 0 .. Arrived' - 1
      PROVE  /\ Chain(request)[(request.offset + k) \div bytes_per_cluster] \in GoodClusters
             /\ memory'[request.buffer + k] = FileByte(request, request.offset + k)
  <2>1. CASE k < Arrived
    <3>1. k \in 0 .. Arrived - 1
      BY <1>3, <1>4, <2>1
    <3>2. request.buffer + k \in request.buffer .. buffer - 1
      BY <1>1, <1>3, <3>1, NumbersOfInv
    <3>3. QED
      BY <1>1, <1>5, <3>1, <3>2 DEF InOrder, Spares
  <2>2. CASE ~(k < Arrived)
    <3>1. PICK x \in 0 .. n - 1 : x = k - Arrived
      BY <1>3, <1>4, <2>2
    <3>2. request.offset + k = Place + x /\ request.buffer + k = buffer + x
      BY <1>1, <1>3, <1>4, <3>1, NumbersOfInv
    <3>3. /\ (Place + x) \div bytes_per_cluster = Place \div bytes_per_cluster
          /\ Copied[buffer + x] = FileByte(request, Place + x)
      BY <1>1, <1>2, <3>1, PartIsOfFile DEF n
    <3>4. QED
      BY <1>2, <1>6, <3>2, <3>3
  <2>3. QED
    BY <2>1, <2>2
<1>8. Chain(request)' = Chain(request)
  BY <1>2, FileStays
<1>9. ASSUME NEW k \in 0 .. Arrived' - 1
      PROVE  FileByte(request, request.offset + k)' = FileByte(request, request.offset + k)
  <2>1. PICK j \in Nat : j = request.offset + k
    <3>1. request.offset + k \in Nat
      BY <1>1, <1>3, <1>4, NumbersOfInv
    <3>2. QED
      BY <3>1
  <2>2. FileByte(request, j)' = FileByte(request, j)
    BY <1>2, FileStays
  <2>3. j = (request.offset + k)'
    BY <1>2, <2>1
  <2>4. QED
    BY <2>1, <2>2, <2>3
<1>10. QED
  BY <1>2, <1>7, <1>8, <1>9 DEF InOrder, bytes_per_cluster, GoodClusters, FAT_BAD, FirstCluster

\* At the call nothing has arrived, and the file starts with its first cluster.
LEMMA InitFile ==
  ASSUME Apart, Init
  PROVE  FileInv
<1>1. FatReadInv
  BY InitInv
<1>2. /\ request \in REQUESTS /\ pc = "skip" /\ skipped = 0 /\ cluster = request.cluster
      /\ length = request.length /\ offset = request.offset /\ result = "none"
      /\ stack_at_call = IF OnStack(request) THEN request.buffer ELSE EXTENDED_STACK_BASE
  BY DEF Init
<1>3. Arrived = 0
  BY <1>1, <1>2, NumbersOfInv DEF Arrived
<1>4. BufferApart
  <2>1. Placed(request)
    BY <1>2 DEF Apart
  <2>2. QED
    BY <1>1, <1>2, <2>1, NumbersOfInv DEF Placed, OnStack, BufferApart
<1>5. ResultAtEnd /\ AtOffset
  BY <1>2, <1>3 DEF ResultAtEnd, AtOffset
<1>6. OnChain
  BY <1>1, <1>2, ChainLinks DEF OnChain
<1>7. InOrder
  BY <1>3 DEF InOrder
<1>8. QED
  BY <1>1, <1>4, <1>5, <1>6, <1>7 DEF FileInv

\* What a step has to show of itself, where it keeps the request and the table.
LEMMA KeepsFileInv ==
  ASSUME FileInv, FatReadInv', UNCHANGED <<fat, callVars>>,
         ResultAtEnd', AtOffset', WellFormed(request) => OnChain',
         (WellFormed(request) /\ Covered(request)) => InOrder'
  PROVE  FileInv'
<1>1. BufferApart'
  BY DEF FileInv, BufferApart, callVars
<1>2. (WellFormed(request)' <=> WellFormed(request)) /\ (Covered(request)' <=> Covered(request))
  BY FileStays DEF callVars
<1>3. QED
  BY <1>1, <1>2 DEF FileInv

\* A step that ends the call, in whatever way, and spares what has arrived.
LEMMA KeepsFileInvAtEnd ==
  ASSUME FileInv, FatReadInv', UNCHANGED <<fat, callVars, partVars>>, Spares(memory'),
         pc' \in {"done", "overgrown", "overflow"}, pc # "done",
         pc' # "done" => UNCHANGED result,
         result' = "FAT_SUCCESS" => length = 0
  PROVE  FileInv'
<1>1. ResultAtEnd' /\ AtOffset' /\ OnChain'
  BY DEF FileInv, ResultAtEnd, AtOffset, OnChain, Arrived, partVars, callVars
<1>2. (WellFormed(request) /\ Covered(request)) => InOrder'
  BY KeepsInOrder DEF FileInv, callVars, partVars
<1>3. QED
  BY <1>1, <1>2, KeepsFileInv

\* An error path returns, or panics at the pop.
LEMMA PopEnds ==
  ASSUME FileInv, pc # "done", NEW n, NEW error \in Results \ {"FAT_SUCCESS"},
         PopAndReturn(n, error)
  PROVE  /\ pc' \in {"done", "overflow"} /\ (pc' = "overflow" => UNCHANGED result)
         /\ result' # "FAT_SUCCESS"
BY DEF PopAndReturn, FileInv, ResultAtEnd

\* fat_next spares what has arrived.
LEMMA FollowSpares ==
  ASSUME FileInv, Following, CanPush(fat_buffer_size), memory' \in {memory, TableRead}
  PROVE  Spares(memory')
<1>1. Spares(memory)
  BY DEF Spares
<1>2. Spares(TableRead)
  BY WhileFollowing, TableReadSpares DEF FileInv
<1>3. QED
  BY <1>1, <1>2

\* Every step of fat_read keeps the invariant.
LEMMA NextFile ==
  ASSUME FileInv, [Next]_vars
  PROVE  FileInv'
<1>1. FatReadInv /\ BufferApart /\ ResultAtEnd /\ AtOffset
  BY DEF FileInv
<1>2. FatReadInv'
  BY <1>1, NextInv
<1>3. Spares(memory)
  BY DEF Spares
<1>4. CASE SkipDone
  <2>1. /\ pc = "skip" /\ pc' = "read" /\ skipped = cluster_offset
        /\ UNCHANGED <<volumeVars, callVars, skipped, cluster, partVars, result>>
    BY <1>4 DEF SkipDone
  <2>2. Arrived = 0 /\ Arrived' = Arrived /\ Place' = Place /\ Place = request.offset
    BY <1>1, <2>1, NumbersOfInv DEF AtOffset, Arrived, Place, partVars, callVars
  <2>3. ResultAtEnd' /\ AtOffset'
    BY <1>1, <2>1, <2>2 DEF ResultAtEnd, AtOffset, partVars, callVars
  <2>4. WellFormed(request) => OnChain'
    <3>1. Chain(request)' = Chain(request)
      BY <2>1, FileStays DEF volumeVars, callVars
    <3>2. QED
      BY <2>1, <2>2, <3>1 DEF FileInv, OnChain, cluster_offset, bytes_per_cluster
  <2>5. InOrder'
    BY <2>2 DEF InOrder
  <2>6. QED
    BY <1>2, <2>1, <2>3, <2>4, <2>5, KeepsFileInv DEF volumeVars
<1>5. CASE FollowPanic \/ PushPanic
  BY <1>1, <1>2, <1>3, <1>5, KeepsFileInvAtEnd
  DEF FollowPanic, PushPanic, Following, volumeVars, Spares, ResultAtEnd
<1>6. CASE FollowFails \/ FollowEnd
  <2>1. Spares(memory')
    BY <1>6, FollowSpares DEF FollowFails, FollowEnd
  <2>2. pc' \in {"done", "overflow"} /\ (pc' = "overflow" => UNCHANGED result)
        /\ result' # "FAT_SUCCESS"
    BY <1>6, PopEnds DEF FollowFails, FollowEnd, OutOfBounds, Following, Results
  <2>3. QED
    BY <1>2, <1>6, <2>1, <2>2, KeepsFileInvAtEnd
    DEF FollowFails, FollowEnd, OutOfBounds, Following
<1>7. CASE FollowBad
  <2>1. UNCHANGED <<fat, ext_stack_top, pc, callVars, skipped, partVars, result>>
    BY <1>7 DEF FollowBad
  <2>2. ResultAtEnd' /\ AtOffset'
    BY <1>1, <2>1
    DEF ResultAtEnd, AtOffset, Arrived, Place, partVars, callVars, InCluster, bytes_per_cluster
  <2>3. ~WellFormed(request)
    <3>1. fat[cluster] \notin GoodClusters \cup {FAT_END}
      BY <1>7, GeometryAssumption DEF FollowBad, GoodClusters, FAT_BAD, FirstCluster
    <3>2. QED
      BY <1>1, <1>7, <3>1, NextLink DEF FollowBad, FileInv
  <2>4. QED
    BY <1>2, <2>1, <2>2, <2>3, KeepsFileInv
<1>8. CASE FollowValid
  <2>1. /\ Following /\ CanPush(fat_buffer_size) /\ memory' = TableRead /\ cluster' = fat[cluster]
        /\ UNCHANGED <<fat, callVars, partVars, result>>
        /\ pc = "skip" => skipped' = skipped + 1 /\ pc' = pc
        /\ pc # "skip" => pc' = "read"
    BY <1>8 DEF FollowValid
  <2>2. Arrived' = Arrived /\ Place' = Place /\ length' = length /\ offset' = offset
    BY <2>1 DEF Arrived, Place, partVars, callVars
  <2>3. ResultAtEnd' /\ AtOffset'
    BY <1>1, <2>1, <2>2
    DEF Following, ResultAtEnd, AtOffset, partVars, callVars, InCluster, bytes_per_cluster
  <2>4. ASSUME WellFormed(request) PROVE OnChain'
    <3>1. Chain(request)' = Chain(request)
      BY <2>1, FileStays DEF callVars
    <3>2. /\ pc = "skip" => cluster' = Chain(request)[skipped + 1]
          /\ pc = "next" => cluster' = Chain(request)[Place \div bytes_per_cluster]
      BY <1>1, <2>1, <2>4, NextLink DEF FileInv
    <3>3. QED
      BY <2>1, <2>2, <3>1, <3>2 DEF Following, OnChain, bytes_per_cluster
  <2>5. Spares(memory')
    BY <2>1, FollowSpares
  <2>6. (WellFormed(request) /\ Covered(request)) => InOrder'
    BY <1>1, <2>1, <2>5, KeepsInOrder DEF FileInv, callVars, partVars
  <2>7. QED
    BY <1>2, <2>1, <2>3, <2>4, <2>6, KeepsFileInv
<1>9. CASE ReadPart
  <2>1. /\ pc = "read" /\ length # 0 /\ ~Panics /\ length' = length - length_to_read /\ offset' = 0
        /\ pc' = IF length' = 0 THEN "read" ELSE "next"
        /\ UNCHANGED <<fat, callVars, skipped, cluster, result>>
    BY <1>9 DEF ReadPart
  <2>2. PICK n \in 1 .. length : n = length_to_read
    BY <1>1, <2>1, PartPlace
  <2>3. Arrived' = Arrived + n /\ Place' = Place + n /\ Arrived' # 0
    BY <1>1, <2>1, <2>2, NumbersOfInv DEF Arrived, Place, callVars
  <2>4. Arrived \in Nat /\ Place \in Nat /\ InCluster(Place) = InCluster(offset)
    BY <1>1, <2>1, PlaceOfOffset
  <2>5. ASSUME length' # 0
        PROVE  /\ Place' \div bytes_per_cluster = (Place \div bytes_per_cluster) + 1
               /\ InCluster(Place') = 0
    <3>1. n # length /\ n \in Nat
      BY <1>1, <2>1, <2>2, <2>5, NumbersOfInv
    <3>2. InCluster(Place) + n = bytes_per_cluster
      BY <1>1, <2>1, <2>2, <2>4, <3>1, PartInCluster
    <3>3. QED
      BY <2>3, <2>4, <3>1, <3>2, ToTheNext, GeometryType DEF InCluster
  <2>6. ResultAtEnd'
    BY <1>1, <2>1 DEF ResultAtEnd
  <2>7. AtOffset'
    BY <2>1, <2>3, <2>5 DEF AtOffset, InCluster, bytes_per_cluster
  <2>8. ASSUME WellFormed(request) PROVE OnChain'
    <3>1. Chain(request)' = Chain(request)
      BY <2>1, FileStays DEF callVars
    <3>2. cluster = Chain(request)[Place \div bytes_per_cluster]
      BY <2>1, <2>8 DEF FileInv, OnChain
    <3>3. PICK q \in Nat : q = Place \div bytes_per_cluster
      BY <2>4, GeometryType, Quotient
    <3>4. length' # 0 => Place' \div bytes_per_cluster = q + 1 /\ (q + 1) - 1 = q
      BY <2>5, <3>3
    <3>5. QED
      BY <2>1, <3>1, <3>2, <3>3, <3>4 DEF OnChain, bytes_per_cluster
  <2>9. (WellFormed(request) /\ Covered(request)) => InOrder'
    BY <1>9, PartInOrder
  <2>10. QED
    BY <1>2, <2>1, <2>6, <2>7, <2>8, <2>9, KeepsFileInv
<1>10. CASE ReadPartFails
  <2>1. Spares(memory')
    BY <1>1, <1>3, <1>10, PartReadSpares DEF ReadPartFails
  <2>2. pc' \in {"done", "overflow"} /\ (pc' = "overflow" => UNCHANGED result)
        /\ result' # "FAT_SUCCESS"
    BY <1>10, PopEnds DEF ReadPartFails, Results
  <2>3. QED
    BY <1>2, <1>10, <2>1, <2>2, KeepsFileInvAtEnd DEF ReadPartFails
<1>11. CASE Return
  BY <1>2, <1>3, <1>11, KeepsFileInvAtEnd DEF Return, volumeVars, Spares
<1>12. CASE UNCHANGED vars
  <2>1. UNCHANGED <<volumeVars, pc, callVars, skipped, cluster, partVars, result>>
    BY <1>12 DEF vars
  <2>2. ResultAtEnd' /\ AtOffset'
    BY <1>1, <2>1
    DEF ResultAtEnd, AtOffset, Arrived, Place, partVars, callVars, InCluster, bytes_per_cluster
  <2>3. WellFormed(request) => OnChain'
    <3>1. Chain(request)' = Chain(request)
      BY <2>1, FileStays DEF volumeVars, callVars
    <3>2. Arrived' = Arrived /\ Place' = Place
      BY <2>1 DEF Arrived, Place, partVars, callVars
    <3>3. QED
      BY <2>1, <3>1, <3>2 DEF FileInv, OnChain, bytes_per_cluster, partVars
  <2>4. (WellFormed(request) /\ Covered(request)) => InOrder'
    BY <1>3, <2>1, KeepsInOrder DEF FileInv, volumeVars, callVars, partVars, Spares
  <2>5. QED
    BY <1>2, <2>1, <2>2, <2>3, <2>4, KeepsFileInv DEF volumeVars
<1>13. QED
  BY <1>4, <1>5, <1>6, <1>7, <1>8, <1>9, <1>10, <1>11, <1>12 DEF Next, Progress

-----------------------------------------------------------------------------
\* The file is as long as the bytes that have arrived, at least.
LEMMA FileLength ==
  ASSUME FatReadInv, InOrder
  PROVE  \E c \in Nat :
           /\ File(request) = [k \in 1 .. c |-> FileByte(request, request.offset + k - 1)]
           /\ Arrived \in 0 .. c
           /\ Arrived = request.length => c = Arrived
<1> DEFINE there == {k \in 0 .. request.length - 1 :
                       Chain(request)[(request.offset + k) \div bytes_per_cluster] \in GoodClusters}
<1>1. PICK n \in Nat : n = Arrived /\ n <= request.length
  BY NumbersOfInv DEF Arrived
<1>2. PICK m \in Nat : m = request.length
  BY NumbersOfInv
<1>3. there \subseteq 0 .. m - 1 /\ 0 .. n - 1 \subseteq there
  BY <1>1, <1>2 DEF InOrder
<1>4. File(request) = [k \in 1 .. Cardinality(there) |-> FileByte(request, request.offset + k - 1)]
  BY DEF File
<1> HIDE DEF there
<1>5. IsFiniteSet(0 .. m - 1) /\ Cardinality(0 .. m - 1) = m
  <2>1. 0 \in Int /\ m - 1 \in Int /\ (IF 0 > m - 1 THEN 0 ELSE (m - 1) - 0 + 1) = m
    OBVIOUS
  <2>2. QED
    BY <2>1, FS_Interval
<1>6. IsFiniteSet(0 .. n - 1) /\ Cardinality(0 .. n - 1) = n
  <2>1. 0 \in Int /\ n - 1 \in Int /\ (IF 0 > n - 1 THEN 0 ELSE (n - 1) - 0 + 1) = n
    OBVIOUS
  <2>2. QED
    BY <2>1, FS_Interval
<1>7. IsFiniteSet(there) /\ Cardinality(there) <= m
  BY <1>3, <1>5, FS_Subset
<1>8. n <= Cardinality(there)
  BY <1>3, <1>6, <1>7, FS_Subset
<1>9. PICK c \in Nat : c = Cardinality(there)
  BY <1>7, FS_CardinalityType
<1>10. Arrived \in 0 .. c /\ (Arrived = request.length => c = Arrived)
  BY <1>1, <1>2, <1>7, <1>8, <1>9
<1>11. QED
  BY <1>4, <1>9, <1>10

\* What has arrived is a beginning of the file; all of it, once nothing is missing.
LEMMA DeliveredOfFile ==
  ASSUME FatReadInv, InOrder
  PROVE  /\ Len(Delivered) = Arrived /\ Arrived \in 0 .. Len(File(request))
         /\ Delivered = SubSeq(File(request), 1, Arrived)
         /\ Arrived = request.length => Delivered = File(request)
<1>1. PICK c \in Nat :
         /\ File(request) = [k \in 1 .. c |-> FileByte(request, request.offset + k - 1)]
         /\ Arrived \in 0 .. c
         /\ Arrived = request.length => c = Arrived
  BY FileLength
<1>2. Delivered = [k \in 1 .. Arrived |-> memory[request.buffer + k - 1]]
  BY DEF Delivered, Arrived
<1>3. ASSUME NEW k \in 1 .. Arrived
      PROVE  memory[request.buffer + k - 1] = FileByte(request, request.offset + k - 1)
  <2>1. PICK j \in 0 .. Arrived - 1 : j = k - 1
    BY <1>1
  <2>2. request.buffer + k - 1 = request.buffer + j /\ request.offset + k - 1 = request.offset + j
    BY <1>1, <2>1, NumbersOfInv
  <2>3. QED
    BY <2>1, <2>2 DEF InOrder
<1>4. Delivered = [k \in 1 .. Arrived |-> FileByte(request, request.offset + k - 1)]
  BY <1>2, <1>3
<1>5. Len(File(request)) = c /\ Len(Delivered) = Arrived
  BY <1>1, <1>4
<1>6. SubSeq(File(request), 1, Arrived) = [k \in 1 .. Arrived |-> File(request)[k]]
  BY <1>1, <1>5
<1>7. [k \in 1 .. Arrived |-> File(request)[k]] = Delivered
  BY <1>1, <1>4
<1>8. QED
  BY <1>1, <1>4, <1>5, <1>6, <1>7

\* A step that brings no part leaves what has arrived.
LEMMA DeliveredStays ==
  ASSUME FatReadInv, Spares(memory'), UNCHANGED <<request, length>>
  PROVE  Delivered' = Delivered
<1>1. Arrived' = Arrived /\ Arrived \in Nat /\ request.buffer + Arrived = buffer
  BY NumbersOfInv DEF Arrived
<1>2. ASSUME NEW k \in 1 .. Arrived
      PROVE  memory'[request.buffer + k - 1] = memory[request.buffer + k - 1]
  <2>1. request.buffer + k - 1 \in request.buffer .. buffer - 1
    BY <1>1, NumbersOfInv
  <2>2. QED
    BY <2>1 DEF Spares
<1>3. Delivered = [k \in 1 .. Arrived |-> memory[request.buffer + k - 1]]
  BY DEF Delivered, Arrived
<1>4. Delivered' = [k \in 1 .. Arrived |-> memory'[request.buffer + k - 1]]
  BY <1>1 DEF Delivered, Arrived
<1>5. QED
  BY <1>2, <1>3, <1>4

\* A failing step is one of FileRead: nothing more arrives.
LEMMA FailIsAllowed ==
  ASSUME FileInv, UNCHANGED <<fat, callVars, partVars>>, Spares(memory'),
         pc \in {"skip", "read", "next"}, pc' \in {"done", "overgrown", "overflow"},
         result' # "FAT_SUCCESS"
  PROVE  FR!FileNext
<1>1. File(request)' = File(request)
  BY FileStays DEF callVars
<1>2. Delivered' = Delivered
  BY DeliveredStays DEF FileInv, callVars, partVars
<1>3. Status = "reading" /\ Status' = "error"
  BY DEF Status
<1>4. QED
  BY <1>1, <1>2, <1>3 DEF FR!FileNext, FR!Fail, callVars

\* Each step of fat_read is a step of FileRead, or none.
LEMMA StepIsAllowed ==
  ASSUME FileInv, FileInv', [Next]_vars, WellFormed(request), Covered(request)
  PROVE  FR!FileNext \/ UNCHANGED FR!fileVars
<1>1. FatReadInv /\ ResultAtEnd /\ AtOffset
  BY DEF FileInv
<1>2. Spares(memory)
  BY DEF Spares
<1>3. CASE SkipDone \/ FollowBad \/ FollowValid
  <2>1. Spares(memory')
    BY <1>2, <1>3, FollowSpares DEF SkipDone, FollowBad, FollowValid, volumeVars, Spares
  <2>2. UNCHANGED <<fat, callVars, partVars>>
    BY <1>3 DEF SkipDone, FollowBad, FollowValid, volumeVars
  <2>3. File(request)' = File(request) /\ Delivered' = Delivered
    BY <1>1, <2>1, <2>2, FileStays, DeliveredStays DEF callVars, partVars
  <2>4. Status' = Status
    BY <1>3 DEF SkipDone, FollowBad, FollowValid, Following, Status
  <2>5. QED
    BY <2>2, <2>3, <2>4 DEF FR!fileVars, callVars
<1>4. CASE FollowPanic \/ PushPanic
  <2>1. Spares(memory') /\ result' = result /\ result' # "FAT_SUCCESS"
    BY <1>1, <1>2, <1>4 
    DEF FollowPanic, PushPanic, Following, volumeVars, Spares, ResultAtEnd
  <2>2. QED
    BY <1>4, <2>1, FailIsAllowed DEF FollowPanic, PushPanic, Following, volumeVars
<1>5. CASE FollowFails \/ FollowEnd
  <2>1. Spares(memory')
    BY <1>5, FollowSpares DEF FollowFails, FollowEnd
  <2>2. pc' \in {"done", "overflow"} /\ result' # "FAT_SUCCESS"
    BY <1>1, <1>5
    DEF FollowFails, FollowEnd, Following, OutOfBounds, PopAndReturn, ResultAtEnd
  <2>3. QED
    BY <1>5, <2>1, <2>2, FailIsAllowed DEF FollowFails, FollowEnd, OutOfBounds, Following
<1>6. CASE ReadPart
  <2>1. /\ pc = "read" /\ length # 0 /\ ~Panics /\ length' = length - length_to_read
        /\ pc' \in {"read", "next"} /\ UNCHANGED <<fat, callVars>>
    BY <1>6 DEF ReadPart
  <2>2. PICK n \in 1 .. length : n = length_to_read
    BY <1>1, <2>1, PartPlace
  <2>3. Arrived' = Arrived + n
    BY <1>1, <2>1, <2>2, NumbersOfInv DEF Arrived, callVars
  <2>4. File(request)' = File(request) /\ WellFormed(request)' /\ Covered(request)'
    BY <2>1, FileStays DEF callVars
  <2>5. /\ Len(Delivered) = Arrived /\ Arrived \in Nat
        /\ Delivered' = SubSeq(File(request), 1, Arrived') /\ Arrived' <= Len(File(request))
        /\ Len(File(request)) \in Int
    <3>1. InOrder /\ InOrder' /\ FatReadInv'
      BY <2>4 DEF FileInv
    <3>2. Len(Delivered) = Arrived /\ Arrived \in 0 .. Len(File(request))
      BY <1>1, <3>1, DeliveredOfFile
    <3>3. (Delivered = SubSeq(File(request), 1, Arrived) /\ Arrived \in 0 .. Len(File(request)))'
      BY <3>1, DeliveredOfFile, PTL
    <3>4. QED
      BY <2>4, <3>2, <3>3
  <2>6. Arrived' \in Len(Delivered) + 1 .. Len(File(request))
    BY <2>2, <2>3, <2>5
  <2>7. Status = "reading" /\ Status' = "reading"
    BY <2>1 DEF Status
  <2>8. QED
    BY <2>1, <2>4, <2>5, <2>6, <2>7 DEF FR!FileNext, FR!Deliver, callVars
<1>7. CASE ReadPartFails
  <2>1. Spares(memory')
    BY <1>1, <1>2, <1>7, PartReadSpares DEF ReadPartFails, FileInv
  <2>2. pc' \in {"done", "overflow"} /\ result' # "FAT_SUCCESS"
    BY <1>1, <1>7 DEF ReadPartFails, PopAndReturn, ResultAtEnd
  <2>3. QED
    BY <1>7, <2>1, <2>2, FailIsAllowed DEF ReadPartFails
<1>8. CASE Return
  <2>1. /\ pc = "read" /\ length = 0 /\ pc' = "done" /\ result' = "FAT_SUCCESS"
        /\ UNCHANGED <<volumeVars, callVars, partVars>>
    BY <1>8 DEF Return
  <2>2. File(request)' = File(request) /\ Delivered' = Delivered
    BY <1>1, <1>2, <2>1, FileStays, DeliveredStays DEF volumeVars, callVars, partVars, Spares
  <2>3. Status = "reading" /\ Status' = "success"
    BY <2>1 DEF Status
  <2>4. Len(Delivered) = request.length
    <3>1. InOrder
      BY DEF FileInv
    <3>2. Len(Delivered) = Arrived
      BY <1>1, <3>1, DeliveredOfFile
    <3>3. QED
      BY <1>1, <2>1, <3>2, NumbersOfInv DEF Arrived
  <2>5. QED
    BY <2>1, <2>2, <2>3, <2>4 DEF FR!FileNext, FR!Succeed, callVars
<1>9. CASE UNCHANGED vars
  <2>1. /\ Spares(memory') /\ UNCHANGED <<fat, request, length, pc, result>>
    BY <1>2, <1>9 DEF vars, volumeVars, callVars, partVars, Spares
  <2>2. File(request)' = File(request) /\ Delivered' = Delivered /\ Status' = Status
    BY <1>1, <2>1, FileStays, DeliveredStays DEF Status
  <2>3. QED
    BY <2>1, <2>2 DEF FR!fileVars
<1>10. QED
  BY <1>3, <1>4, <1>5, <1>6, <1>7, <1>8, <1>9 DEF Next, Progress

\* The invariant of the refinement holds throughout the call.
LEMMA FileInvAlways ==
  ASSUME Apart
  PROVE  Spec => []FileInv
<1>1. Init => FileInv
  BY InitFile
<1>2. FileInv /\ [Next]_vars => FileInv'
  BY NextFile
<1>3. QED
  BY <1>1, <1>2, PTL DEF Spec

\* fat_read (fat.c) does what FileRead says, for every file whose chain is whole and every
\* request with no more in the first sector than is read: the bytes arrive in order, from
\* whatever clusters and through whatever buffer, and success is said with the last of them.
THEOREM FatReadImplementsFileRead ==
  ASSUME Apart
  PROVE  Spec => ImplementsFileRead
<1>1. FileInv /\ FileInv' /\ [Next]_vars
        => [(WellFormed(request) /\ Covered(request)) => FR!FileNext]_<<FR!fileVars>>
  BY StepIsAllowed
<1>2. QED
  BY <1>1, FileInvAlways, PTL DEF Spec, ImplementsFileRead

\* When fat_read says success the buffer holds what was asked for, wherever the sectors it
\* counts hold the first part.  (Where they do not, it may hold something else.)
THEOREM ReadsWhatIsAskedIfCovered ==
  ASSUME Apart
  PROVE  Spec => [](Covered(request) => ReadsWhatIsAsked)
<1>1. FileInv => (Covered(request) => ReadsWhatIsAsked)
  <2>1. SUFFICES ASSUME FileInv, Covered(request), WellFormed(request), result = "FAT_SUCCESS"
                 PROVE  Delivered = File(request)
    BY DEF ReadsWhatIsAsked
  <2>2. InOrder /\ FatReadInv
    BY <2>1 DEF FileInv
  <2>3. Arrived = request.length
    BY <2>1, <2>2, NumbersOfInv DEF FileInv, ResultAtEnd, Arrived
  <2>4. QED
    BY <2>2, <2>3, DeliveredOfFile
<1>2. QED
  BY <1>1, FileInvAlways, PTL
=============================================================================
