# Verification of the x86_64 bootloader

TLA+ models of the parts of this bootloader that decide something, TLC
configurations that check them on small instances, and TLAPS proofs of what
holds for every value of the constants.  `PROJECT.json` lists the components,
the runs, which lines of the source each definition stands for, the hazards of
the code and what was found.

    tlc -workers 2 -config SysInfoOrderedMap.cfg MCSysInfo.tla   # a run
    tlapm SysInfoProofs.tla                                      # the proofs of a module

## The system

One processor, interrupts served by the firmware, no concurrency of its own: the
bootloader is a sequence of stages that hand each other memory.  What makes it
hard is that everything it works on comes from outside (the firmware's memory
map, the volume, the program headers), that it works in 16 and 32 bits on
addresses of 64, that nothing is ever freed or retried, and that an overrun is
silent.

| Component | Source | State | Operations | What makes it correct | Module |
|---|---|---|---|---|---|
| stage0 | `stage0/main.S` | count of sectors left, disk address packet, `%sp` | read a chunk, advance, jump | every sector of stage1 arrives at its link address, nothing it runs from is overwritten | `Stage0` |
| entry, unreal mode | `stage1/entry.S` | descriptor caches | set up the stack, enlarge `%ds`, call `main` | the limits C code relies on | not modelled |
| disk | `stage1/disk.c` | none | `disk_read` | refuses what real mode cannot address | in `FatVolume`, `FatMount` |
| FAT: reading | `stage1/fat.c` | current cluster, part, buffers pushed | `fat_next`, `fat_next_not_bad`, `fat_read` | the bytes of the file, all of them, nowhere else | `FatVolume`, `FatRead`, `FileRead` |
| FAT: mounting, opening | `stage1/fat.c` | geometry, current directory | `fat_mount`, `fat_next`, `fat_open`, 8.3 names | finds what is there, ends, refuses directories | `FatMount`, `ShortNames`, `DirectoryTree`, `PathWalk`, `FatOpen` |
| memory | `stage1/mem.c` | tops of two stacks | `push`, `pop`, `static_alloc` | never outside the limits, balanced | `ExtendedStack`, in `RegionList` |
| options parser | `stage1/options_parser.c` | key, value, position | `parse` | takes each `key=value` line as written | `Options` |
| region list | `stage1/sysinfo_impl.c` | linked list in static memory | `insert_sorted`, `fix_right`, `add_padding_right` | sorted, disjoint, no restriction lost, ends | `RegionList` |
| system information | `stage1/sysinfo_impl.c` | list, count, result | `get_mem_regions`, `get_rsdp` | the list is a faithful account of what was inserted | `SysInfo` |
| ELF loader | `stage1/elf.c` | list, segments loaded | `elf_load` | spares what is listed as restricted, lists what it used | `ElfLoader` |
| transfer of control | `stage1/prot.c` | largest region | `get_stack_pointer`, `transfer_control` | the stack lies in free memory within reach | `ElfLoader` |
| boot sequence | `stage1/main.c` | result of each step | `main` | ends in the binary or in a message | `Boot`, then `ElfLoader` |
| image builder | `scripts/create_boot_img.py` | files | patch and copy | the count stage0 reads is stage1's size | not modelled |

They interact by calls and shared memory only.  `main` reads `/boot/options.txt`
with `fat_open` and `fat_read`, reads the header of the binary it names, calls
`get_sysinfo`, and passes the list of regions to `elf_load`, which inserts every
segment into it and reads it with `fat_read`; `transfer_control` picks a stack
from the same list and jumps.  There are no callbacks.  `static_alloc` feeds the
list, `push` and `pop` the buffers of the FAT code; both panic when full.

Hard to test, and what the properties aim at: long sequences of insertions whose
repairs meet one another; pointers of `insert_sorted` that outlive a repair; the
loop of `fix_right`; a full static stack in the middle of a repair; sums that
wrap in 16, 32 or 64 bits; a read that fails half-way; chains of clusters that
are torn, cyclic or marked bad; a read that starts inside a sector; a path that meets
free entries, labels and directories of several clusters; keys and values at the limits
of their buffers; what is left in a buffer from the line before.
`PROJECT.json` lists each hazard at its line with the properties that cover it.

## Modules

- `RegionList`: `insert_sorted` with its pointers. `heap` is the sequence of nodes
  `static_alloc` has handed out, a pointer an index into it. Each iteration of the
  walk and of the loop of `fix_right` is a step, each branch an action
  (`DropNext`, `TrimNext`, `CutThis`, `SplitThis`, then one of `MergeRight`,
  `ExtendReserved`, `PadGap`, `NoPadding`). `pending` is the second `fix_right` call
  of lines 149-150. `Restrictions` is what the list says of each address.
- `SysInfo` extends it with `get_mem_regions`: the firmware reports a region
  (`NextRegion`), reports one together with the end of the map (`LastRegion`, which
  the code drops), or ends the map or fails (`NoMoreRegions`).
- `ElfLoader` extends `SysInfo` with `elf_load` and `get_stack_pointer`, as `main` calls
  them: one system from the first E820 call to the jump.
- `Stage0` is the boot sector. `loads` remembers which sector went to which address.
- `ExtendedStack` is `ext_stack_top` between its limits, which all FAT code pushes on.
- `FatVolume` is the volume and memory as `fat_read` meets them; `FatRead` extends it with
  `fat_read`. A byte is named by its place on the disk, so that a byte that is copied
  to the wrong place, or not at all, can be told.
- `FileRead` is what `fat_read` promises; `FatRead` implements it (`ImplementsFileRead`),
  with `got` mapped to the bytes that lie in the buffer as far as `length` has been
  worked off, `file` to the bytes the chain of clusters defines.
- `FatMount` is the disk as it is laid out: the arithmetic of `fat_mount` in 32-bit words,
  and `fat_next` down to the two bytes or four it puts an entry together from. A disk is
  given by what it means (the link of each cluster, the entries of each directory);
  `LayOut` and `TableByte` say where the format puts that, so that a sector number or a
  shift that is wrong makes the code read something else.
- `ShortNames` is what `fat.c` does to a path: the segments, upper case, the padded name.
- `DirectoryTree` is what a path means on a disk, by the format and not by the code: the
  clusters of a directory, the entries in use, the entry each segment names.
- `PathWalk` is what `fat_open` promises: one segment after the other leads to the entry it
  names, a file is opened at the end of the path and nowhere else. `FatOpen` is
  `fat_open`, a step for each cluster read and each link followed; it implements
  `PathWalk` (`ImplementsPathWalk`) with `depth` mapped to the segments its `path` has lost
  and `at` to `current_directory`, over the directories `well_formed` allows: chains that
  end, names that occur once, nothing in use behind the last-entry mark, inner segments
  that are directories.
- `Options` is `parse`, a step for each character, with the arrays `key` and `value` and what
  was on the stack under them (`JUNK`). Leaving an array is the state `"overrun"`, after
  which nothing is said.
- `Boot` composes `FatOpen` and `Options` with `main` up to `elf_open`: the file of the
  options is found, pushed, read, parsed and popped, the offset is printed to its buffer,
  and the binary it names is found and its header looked at. `fat_read` is one step
  here, with the outcomes that `FatRead` has: all of the text, an error with up to a part
  popped that was not pushed, or a panic. `ElfLoader` continues at `"handed_over"`.
- `MCSysInfo`, `MCElfLoader`, `MCStage0`, `MCFatRead`, `MCBoot` give the constants that are
  sets.
- `RegionListProofs`, `SysInfoProofs`, `OrderedMapProofs`, `ElfProofs`, `Stage0Proofs`,
  `FatReadProofs` and `BootProofs` hold theorems and proofs, `Induction` the lemmas on
  numbers that stand for induction, and for recursive functions, in them.

The firmware is outside the repository.  `int 15h` answers with any region of a set,
or, with `ORDERED_BIOS`, with one that lies behind those it has reported; it may end
the map in both ways the interface allows.  `int 13h` fails at any call, before or
after it has transferred something, and in `Stage0` wraps at the end of a segment or
does not.

An operator whose name ends in `_M` is a mutant: the definition that follows it with
a mistake in it.  `PROJECT.json` names, for each property, the mutant under which its
run fails.  No specification uses one.

## Runs

| Run | Question | Bounds and why they are enough |
|---|---|---|
| `sysinfo_any_map` | does any order or overlap of inserted regions lose a restriction? | three reports over 8 addresses; sizes 0, 1, 4; three types of different rank. Three regions are enough for one to be split by a second and meet a third while `prev2` and `prev` are being repaired. |
| `sysinfo_ordered_map` | is the list exact, for maps in order, about what was inserted? | five reports, all combinations of bordering and gaps, and a static stack of 7 nodes, so that each of the four places that allocate finds it full. |
| `elf_load` | what do the segments and the stack do to the map? | two regions, one of which lies across the last 32-bit address (16 here), three segments that begin with a usable region, split one, border and touch, with and without bytes in the file. |
| `stage0` | does every count of sectors work? | counts 0 to 300, real widths and addresses: three chunks, past the stack, past stage0 and past 64 KiB. |
| `fat_read` | does every read deliver the file, over any chain? | sectors of 2 bytes, clusters of 2 sectors, three clusters; the chain ends, turns back, is bad or torn at each; reads of up to 8 bytes from each kind of offset, to buffers below, on and above the extended stack, with room for less and for more than one part. |
| `boot` | does `main` boot the file that `/boot/options.txt` names, on every disk, from every text, and give back its buffers? | below |
| `boot_hangs`, `segment_wraps`, `last_region`, `stack_space`, `stage0_destination`, `fat_read_unaligned` | findings, below | the smallest instance that shows each |

The disks of `boot` are four families (`MCDisks`), since a fault of the parser does not
need an odd disk nor the other way round. One disk holds every text of one or two lines
from eighteen, or of two behind a first pair: pairs, empty lines, keys and values one and
two characters too long, lines with no `=` or two, carriage returns, with and without the
last newline. Disks of three types with chains that end, turn back, are bad or run into
cluster 0, directories of one to three clusters with free entries, labels and last marks,
are asked for thirteen paths of every form. Disks with the least and the most clusters of
each type, clusters of 1 to 8 sectors and small and large root directories carry one text;
the last family has a text that fills the stack and one that is one longer. Names have two
characters and one, keys and values at most 2 and 7, so that every limit is reached;
sectors have 32 bytes, one entry each. The numbers that separate the FAT types and that
end a chain are the real ones, and cluster 21 is one whose 12-bit entry lies in two
sectors.

Bounds: `ADDR_MOD` and `PTR_MOD` stand for 2^64 and 2^32, `UINT32` for the 2^32 of the FAT
code and of `atoi` (2^20 in `boot`, beyond every sector number), `MAX_REGIONS` for the size of
the static stack, `MAX_REPORTS` and `MAX_SEGMENTS` cut the inputs off, `MEMORY_SIZE`
the part of memory a read touches.  Regions of the runs end below `ADDR_MOD`: a region
that ends at 2^64 has an end of 0 in the code, and no firmware reports one.  Reads end
below the last 32-bit address.  `CHECK_DEADLOCK` is off because every one of these
programs stops: in a jump, a message or a panic.

What the runs show beyond the findings. All that is said of the list is said of the
regions `get_mem_regions` has inserted (`Inserted`): that is the whole map of the firmware,
as far as it was reported, but for a region that comes with ebx = 0, which the code drops
(finding 3). No address is ever listed as less restricted than an inserted region says
(`InsertedIsKept`), and no step on the way loosens one (`NeverLessRestricted`), in
whatever order they come; of a map in order the inserted regions are listed exactly
(`TypesAreKept`, `UsableIsReported`, `Disjoint`, `Sorted`).  Maps out of order are not:
with three reports that overlap the list may hold an address twice, and with four it
may be out of order, because the node in the middle is never compared with the one
after it and because `prev` may already be out of the list.  That is why these four are
properties of the ordered runs.  No segment is accepted over
memory that was inserted as anything but usable, nor over another segment
(`SparesRestricted`, `SegmentsApart`); that the memory was reported as usable, or at all,
`elf_load` does not ask, and neither do these. The list handed
to the binary covers it (`BinaryIsListed`), and what was inserted as other than usable
is listed as it was before (`InsertedSurvivesLoading`).  It may call the same memory usable as well in
one case, which `BinaryNotUsable` excludes: when a segment begins where a usable region
begins, it is linked before that region, and only the nodes before the segment are
repaired (`sysinfo_impl.c:149-150`).  It is the common case: a kernel loaded
at 1 MiB, where the usable memory begins, gets a list that says of its own memory both
executable and usable.

Of the first half of the boot: over well-formed directories the file that is opened is
the one the text and the disk mean (`ParsesLines`, `ImplementsPathWalk`,
`BootsNamedBinary`), whatever is left in the buffers of the parser; lines that are pairs
never leave these buffers (`PairsStayInBuffers`), lines that are not may. The extended stack
holds what is in use (`StackHoldsWhatIsInUse`), and whether `main` panics does not depend
on how long a path or a chain is (`PanicsOnlyForRoom`).

Some things a reader of the code may not expect, and no finding names, most of them because no
document says otherwise or says it clearly: a last pair of `options.txt` that no newline follows
is dropped (`options_parser.c:49`; `ParsesLines` takes the lines that end in one, `readme.md:33`
has them separated by newlines), and where it was the only one `main` looks at a path nobody
wrote; a name too long for 8.3 is not found (`readme.md:36-37`
speaks of long names being truncated, without saying whether on the disk or in the text),
`//` in a path and a leading `.` name nothing, a path that goes through a file reads the
file as a directory, entries behind the last-entry mark are still found, memory that no region
of the firmware covers may be loaded to, and `load_offset` printed with a sign may need one
character more than its buffer has.

### Findings

1. `boot_hangs` (`sysinfo_impl.c:98`): a region to be cut at a next one that is more
   restrictive and reaches as far sends `fix_right` into an endless loop. A segment that
   ends where its usable region ends does this.
2. `segment_wraps` (`elf.c:44`): `p_vaddr + p_memsz` wraps, and a segment that passes the
   last 32-bit address is written below 1 MiB.
3. `last_region` (`sysinfo_impl.c:32`): the region that comes with ebx = 0 is dropped. It is
   in no list, and where it was reserved a segment is loaded over it.
4. `stack_space` (`prot.c:22`): only the largest region is looked at and its end is cast
   to 32 bits. Where it lies above 4 GiB as a whole, no stack is found, although
   a smaller usable region below has room.
5. `stage0_destination` (`main.S:100`): the carry moves the segment by 1, not 0x1000, from
   the second chunk on.
6. `fat_read_unaligned` (`fat.c:442`): a read from inside a sector may read one too few.

### Fairness

The code is sequential: while an action is enabled the processor takes it, which is
weak fairness of the whole next-state relation (`FairSpec`, `FairBootSpec`).  It covers
the firmware's answers too: an interrupt returns.  In `FatRead` weak fairness is of
`Progress` alone, the steps of a working disk: nothing may be concluded from the disk's
failing some time.  `Boot` has the same `Progress`: what the processor does while the disk works.
`ReadEndsOrStaysBad`, `BootEndsOrCutsForever` and `BootEndsOrSearchIsEndless` name the
one place in each component where the code does not end (a bad mark that is marked
bad, a cut that changes nothing, a directory whose chain does not end); they say there
is no other.  `fat_read` is assumed to return in `Boot`: that it does is what
`ReadEndsOrStaysBad` shows.

## Proofs

| Theorem | Statement | Argument |
|---|---|---|
| `Stage0Proofs!TypeCorrect` | `Spec => []TypeOK` | inductive as it stands |
| `Stage0Proofs!ReadsInOrderAlways` | `Spec => []ReadsInOrder` | with the invariant that the LBA, as one number, is one more than the sectors behind it, and that what is read is the interval up to it |
| `Stage0Proofs!Stage1InPlaceAlways` | `Spec => []Stage1InPlace` | up to 64 sectors there is one chunk, no wrap, and the load is the identity on addresses; the two bytes pushed last lie at the segment's end |
| `Stage0Proofs!Stage0SurvivesAlways` | `Spec => []Stage0Survives` | below 127 sectors there is one chunk, which, even where it wraps, ends below stage0 |
| `SysInfoProofs!SysInfoTypeCorrect` | `Spec => []SysInfoTypeOK` | `ListTypeOK` says more than types: pointers point at nodes, and in the walk and in the repair the node at work is not null. `RegionListProofs` has one lemma per action, from lemmas on updating and growing the heap |
| `SysInfoProofs!LowMemoryIsReserved` | `Spec => []LowMemoryReserved`, if `ReservedFits` | `LowInv`: while the low memory is inserted the node at work is the head, and `WinsOverOther` leaves a reserved node whole; for every map, in order or not |
| `OrderedMapProofs!OrderedMapInvariant` | `Spec => [](OrderedInv /\ ContentsInv)`, if `OrderedMap` | below |
| `OrderedMapProofs!ListIsSorted`, `ListIsDisjoint` | `Spec => []Sorted`, `Spec => []Disjoint`, if `OrderedMap` | at rest the list is a chain (`OrderedInv`) |
| `OrderedMapProofs!InsertedTypesAreKept`, `InsertedRegionsAreKept` | `Spec => []TypesAreKept`, `Spec => []InsertedIsKept`, if `OrderedMap` | some node covers each address of an inserted region with its type (`Kept`), and no other node does (disjoint) |
| `OrderedMapProofs!UsableWasReported` | `Spec => []UsableIsReported`, if `OrderedMap` | `UsableSpanned`: a usable node reaches from one usable report to another with nothing else inserted between |
| `OrderedMapProofs!ListOnlyRestricts` | `Spec => NeverLessRestricted`, if `OrderedMap` | each step takes each node of the list to one of the next list of its type that covers as much (`Carries`), the low memory excepted, which its reserved head covers |
| `ElfProofs!ElfTypeCorrect` | `BootSpec => []ElfTypeOK` | the lemmas of the list carry over; `ElfInv` adds that `insert_sorted` returns to `elf_load` only when a segment was inserted, without which `ReadSegment` would have none, and that `get_stack_pointer` holds no pointer before the list is complete |
| `ElfProofs!BinarySparesRestricted` | `BootSpec => []SparesRestricted`, if `OrderedMap` and `SegmentsFit` | below |
| `ElfProofs!SegmentsAreApart` | `BootSpec => []SegmentsApart`, if `OrderedMap` and `SegmentsFit` | the segments listed so far are held (`Held`), a new one is clear of all that is |
| `ElfProofs!BinaryIsInList`, `InsertedOutlivesLoading` | `BootSpec => []BinaryIsListed`, `BootSpec => []InsertedSurvivesLoading`, if `OrderedMap` and `SegmentsFit` | `Held` says of which type; nodes that are not usable are disjoint in a list of this shape (`HeldOnce`), so that no other node outranks it |
| `ElfProofs!StackIsInLargestRegion` | `BootSpec => []StackInLargestRegion`, if also `StackFits` | `Scanned`: the scan has seen what is not behind it; rounding down to 16 leaves the 8 bytes pushed inside the region |
| `ElfProofs!BinaryIsNotUsable` | `BootSpec => []BinaryNotUsable`, under the same hypotheses as `BinarySparesRestricted` | `TightInv`, beside `LoadInv`: what a node that is not usable shares with the usable one behind it is exactly one segment |
| `FatReadProofs!StackBalancedAlways` | `Spec => []StackBalanced` | `FatReadInv`, with `StackInCall`: outside `"next"` the stack is as at the call, in `"next"` it lacks the temporary buffer and no more. `StackBalanced` alone speaks of the end and is not inductive |
| `FatReadProofs!RoomForOnePartIsEnoughAlways` | `Spec => []RoomForOnePartIsEnough` | a part rounded up to sectors is no more than a cluster (`PartFits`, from lemmas on `\div`), and by `StackInCall` nothing else is on the stack |
| `FatReadProofs!WritesOnlyBufferAlways` | `Spec => []WritesOnlyBuffer` | a read that goes straight to the buffer is a number of whole sectors, so that rounding up changes nothing; any other goes below the top of the stack; up to `REAL_MODE_LIMIT` segment and offset are the address (`TargetExact`) |
| `FatReadProofs!FatReadTypeOKAlways` | `Spec => []FatReadTypeOK` | the same invariant |
| `FatReadProofs!FatReadImplementsFileRead` | `Spec => ImplementsFileRead`, if `Apart` | below |
| `FatReadProofs!ReadsWhatIsAskedIfCovered` | `Spec => [](Covered(request) => ReadsWhatIsAsked)`, if `Apart` | the same invariant at the end, where nothing is left to read |
| `BootProofs!StackHoldsWhatIsInUseAlways` | `Spec => []StackHoldsWhatIsInUse` | `BootInv`: with it, where `fat_open` is while `main` is elsewhere, and that the geometry is the disk's throughout, so that what is popped is what was pushed |
| `BootProofs!PanicsOnlyForRoomAlways` | `Spec => []PanicsOnlyForRoom` | each push that fails does so with the stack as `StackHoldsWhatIsInUse` describes it, so that the whole stack is too small |
| `BootProofs!MountedFromTheStartAlways` | `Spec => []MountedFromTheStart`, if `AllFormatted` | the quotients `fat_mount` computes are the numbers the format speaks of (`GeometryAsWritten`), since what it divides lies between two multiples; no intermediate result reaches `UINT32` |
| `BootProofs!BootTypeOKAlways` | `Spec => []BootTypeOK`, if `AllFormatted` and `AllHoldNumbers` | `TypeInv`: what `fat_next` puts together from two or four bytes is a number below 2^28 (`NextType`), what `atoi`, a recursive function, returns is a word (`AtoiType`), and `parse` starts once, on an array of characters |

They hold for all values of the constants under the assumptions the modules name:
`ADDR_MOD` positive, the reports regions of that width, `REAL_MODE_LIMIT` an address,
the counts 16-bit words, the fields of a boot record numbers, the links of a table ends or
clusters, the stack below `REAL_MODE_LIMIT`.  The bound on the number of reports is not one
of the proof's.  Seven more are hypotheses of the theorems that need them:

- `ReservedFits`: no reserved region ends at 2^64.  Its end is 0 in the code; where it
  borders on the low memory, the merged head of the list has size 0 and covers nothing.
- `OrderedMap`: the firmware reports regions in address order that do not overlap and end
  before 2^64 (`ORDERED_BIOS`, the map `sysinfo_ordered_map` draws from).  Without it the
  properties of the ordered run are false, as said above.
- `SegmentsFit`: `p_filesz` is at most `p_memsz`, which the ELF format demands, and no
  segment reaches the last 32-bit address. The code checks neither; without the second
  `SparesRestricted` is false (`segment_wraps`), so that this is the whole extent of that
  finding.
- `StackFits`: what `transfer_control` pushes is less than the alignment of the stack and
  less than the reserved low memory, and the alignment divides the 32-bit addresses. In the
  source these are 8, 16, 0x100000 and 2^32.
- `Apart`: the caller's buffer lies in memory and does not reach from below into the free part
  of the extended stack. In the source it is a buffer `main` pushed, a variable on the C stack
  or a segment above 1 MiB. Every request of the run `fat_read` satisfies it.
- `AllFormatted`: a disk is as the FAT format lays it out: a sector holds at least one entry, a
  cluster at least one sector, one of the two fields for each size is zero, the volume has fewer
  than 2^32 sectors, the root directory, the clusters and less than a cluster more fill what is
  behind the tables, and the number of clusters is the one of the type. `fat_mount` checks next
  to none of this, and finds another geometry where it is false.
- `AllHoldNumbers`: the links of a table and the fields of its entries are numbers. All 288 disks
  of the run `boot` satisfy both.

### What fat_read delivers

`ImplementsFileRead` is an action property; behind it is an invariant (`FileInv`) that ties four
things together which the code keeps apart: `cluster` is the link of the chain that the place
worked at lies in (`OnChain`), `offset` is 0 but for the first part, and the place is then the
beginning of a cluster (`AtOffset`), and what has been worked off is in the buffer, byte for byte
(`InOrder`). The last is the one that could fail: later parts read the table and whole sectors of
the disk to memory, and the temporary buffers they use begin where the stack is. That they spare
what has arrived (`Spares`) follows from where the buffers are pushed, from `Apart`, and, for a read
that goes straight to the caller's buffer, from its having no offset and filling its sectors.
`PartInOrder` then says that the part just copied is the next bytes of the file: the sector of each
byte is found by dividing its offset in the cluster, and the one division of the model agrees with
the two of the code. It needs `Covered`: where the first part reaches into a sector that
`fat_read` does not count, what is copied of it was never read (`fat_read_unaligned`).

### The list of an ordered map

The list is a recursive function of the heap (`InList`), which the provers cannot unfold.
`RegionListProofs` shows that it is the least set that holds the head and is closed under
`next` (`InListIsLive`, `LiveClosed`, `LiveLeast`, by the induction of `Induction`, where a
predicate is a set and a loop a function).  From there on nodes are reasoned about as a
set: `Chain(h, head, S)` says that following `next` from `head` goes through `S` in
address order without overlap, and there is one lemma for each thing the code does to a
chain (`ChainLinkLast`, `ChainMerge`, `ChainFill`, `ChainExtend`, `ChainTrim`, `ChainCons`).

None of the properties is inductive.  A list of an ordered map is more than sorted and
disjoint: its nodes border each other, since `add_padding_right` closes every gap, and
this is why a repair meets one neighbour only.  `OrderedInv` says this with an exception
for each place `insert_sorted` can be at:

- between reports the list is a chain of bordering nodes, the last of which differs in
  type from the one before (`BetweenReports`); in the walk the new region lies behind all
  of them (`Walking`);
- in the first repair (of `prev2`) and in the second (of `prev`) the new region is the
  last node, and only it and `prev` need not border (`Repairing`); the first repair
  therefore finds nothing to do, so that `prev` is still in the list at the second;
- while the low memory is being reserved its node is the head, and the chain is the list
  behind the head, which the head may overlap in any number of nodes (`RepairingLow`).

`ContentsInv` says what the list means in all of these places.  That the steps preserve it
follows from `Carries`, a statement about one step which is proved action by action, and
from which `NeverLessRestricted` follows again.

### The list elf_load works on

`elf_load` inserts anywhere in the list, and the chain does not survive it: a segment that
begins where a usable region begins is linked before that region, which is not cut, and a
merged region may overlap the usable one behind it. Sorted and disjoint are therefore not
what `LoadInv` says of this list. What is left (`LoadShape`) is an order on neighbours:

- no node is reached twice (`Line`), each ends below 2^64, and one that is not usable is
  not empty (`Sized`);
- after a usable node comes one that is not, exactly at its end; after one that is not
  usable comes one that begins behind it, or a usable one that at least ends behind it
  (`Edge`).

Where the list is being repaired this holds of all edges but one or two, and there is one
case for each place `fix_right` can be called at: for `prev2` (`Second`, or
`SecondDropped` when that repair removed `prev`) and for `prev` (`First`, `FirstDropped`
when the node is no longer in the list, `AfterSplit`, and `Caught`, the endless loop of
finding 1, in which nothing happens any more). That the map phase hands over a list of this
kind needs one thing `OrderedInv` does not say: that two usable nodes are never neighbours
(`Neighbours`), since `add_padding_right` and the merge would have joined them.

`Held` is the property that matters: every address that is occupied, by an inserted report that is
not usable or by a segment listed so far, lies in a node of that type. Every step
of the repairs keeps it (`KeepsHeld`, proved action by action). A segment that `elf_load`
accepts shares nothing with such a node, so nothing with what is occupied, and
`SegmentsAccepted`, from which the first two theorems follow, is inductive with it. What the
list says of an address is what the most restrictive node there says: the order of
neighbours carries over to all that follow (`FollowersArePast`), and puts nodes that are
not usable apart, however many usable ones lie between or over them. TLC
checked `LoadInv` on the instance of `elf_load` before it was proved.

How far a usable node and the one before it overlap `Edge` leaves open. `TightInv` says
it: they border, or what they share is one segment, from its first byte to its last
(`Tight`). The overlap arises in one step, when a segment is linked before the usable region
that begins at its address (`TightLink`: were the two addresses different, the node before
would have to reach into the segment, which was checked against it). After that a merge moves
the beginning of the one node and a cut the end of the other, neither of which is part of
the overlap, and a repair that removes or trims a usable node leaves it bordering; there is
one lemma for each branch of `fix_right`. That a byte of the binary lies in a usable node
implies that the node before it reaches beyond that byte (`BeforeReaches`), so that the
overlap is the segment of the byte. Neither half is enough by itself: `LoadInv` lets
the two overlap anywhere, and `TightInv` says nothing of nodes further apart. TLC checked
`TightInv` first, with four segments of up to three bytes; the property had an exception for
segments that touch, which the proof showed to be superfluous.

Model-checked only: `InsertedIsKept` and `NeverLessRestricted` of maps out of order
(`sysinfo_any_map`), whose lists need not be sorted; what the parser and the walk over a path find
(`ParsesLines`, `PairsStayInBuffers`, `ImplementsPathWalk`, `BootsNamedBinary`), whose
reference definitions are folds and selections on sequences, about which a proof would have to
argue by induction over data; and all liveness, which is out of reach of the provers.

## Not modelled

- Printing and the text of messages, except the buffer of the load offset.
- `entry.S` and the switches of processor mode: straight-line assembly whose effect is in
  the descriptor caches. That the limits of unreal mode survive calls of the firmware is
  an assumption on the machine which nothing in the repository decides.
- `is_volatile` (copied, never read) and the search for the RSDP with its checksum: changes
  nothing but the result, which is free in `SysInfo`.
- Alignment and the fields of ELF headers that nothing is decided by.
- What `elf_load` does to its own stack where the file's size of a program header is not the
  32 bytes of the structure it is read into (`elf.c:83`): `AcceptSegment` begins with a header
  that was read as a whole.
- A failed `int 13h` that leaves 0 in `ah`, which `disk_read` takes for success (`disk.c:40`): the
  firmware is assumed to give an error a code. In `FatVolume` a transfer does not wrap at
  the end of a segment either; `disk_read` gives the firmware an offset below 16, but for the
  last 64 KiB of real-mode memory, and a part of `fat_read` is no more than a
  cluster, which FAT keeps to 32 KiB.
- Entries of long names, which `fat_open` passes over by their attributes like labels.
- `create_boot_img.py` and the build files: a sequential script; the one number it patches
  is a free parameter of `Stage0`.
- `fat_next` and `fat_read` on a disk whose `bytes_per_sector` is 0: `fat_mount` accepts one,
  the division faults, and what a fault does this early is up to the firmware.

## Plan

The modules above are what the plan of the project named. What would add to it:

1. `Boot` with the steps of `FatRead` in place of its outcomes.
