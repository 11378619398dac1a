-------------------------------- MODULE Boot --------------------------------
(***************************************************************************)
(* The first half of main in stage1/main.c: from the mounted volume to the *)
(* header of the binary that /boot/options.txt names.  fat_open and parse  *)
(* are the machines of FatOpen and Options, run to their ends; fat_read is *)
(* one step here, with the outcomes FatRead has.  ElfLoader takes over     *)
(* where boot_pc is "handed_over".                                         *)
(***************************************************************************)
EXTENDS FatOpen, Options

CONSTANTS
  BOOT_OPTIONS_TXT,
  TEXTS,               \* what the file of a disk may hold, by disk.texts
  HEADERS,             \* what a file may begin with
  LOAD_OFFSET_STR      \* 9: the size of the buffer the offset is printed to

ASSUME BootAssumption == LOAD_OFFSET_STR \in Nat
ASSUME TextsAssumption == \A d \in DISKS : \A t \in TEXTS[d.texts] : Len(t) \in Nat

VARIABLES
  boot_pc,
  options_txt,         \* the entry of the file
  options_txt_length,  \* what was pushed for its text
  contents             \* the text in the file; known once it is opened

bootVars == <<boot_pc, options_txt, options_txt_length, contents>>
fatVars == <<disk, mounted, ext_stack_top, failed>>
vars == <<bootVars, fatVars, openVars, parseVars>>

Running == {"mount", "open_options", "read_options", "parse", "print", "open_binary", "open_elf"}
Halted == {"stopped", "panicked", "overrun", "handed_over"}

Init ==
  /\ boot_pc = "mount"
  /\ disk \in DISKS
  /\ mounted = Geometry(disk.bpb)   \* not read before it is written
  /\ ext_stack_top = EXTENDED_STACK_BASE
  /\ failed = FALSE
  /\ options_txt = <<>> /\ options_txt_length = 0 /\ contents = <<>>
  /\ OpenInit
  /\ ParseInit

Becomes(pc) ==
  /\ boot_pc' = pc
  /\ UNCHANGED <<options_txt, options_txt_length, contents>>

\* main prints a message and returns
Stop == Becomes("stopped") /\ UNCHANGED <<openVars, parseVars>>
BootPanics == Becomes("panicked") /\ UNCHANGED <<fatVars, openVars, parseVars>>
BufferOverrun == Becomes("overrun") /\ UNCHANGED <<fatVars, openVars, parseVars>>

MountVolume ==
  /\ boot_pc = "mount"
  /\ Mount
  /\ CallOpen(BOOT_OPTIONS_TXT)
  /\ Becomes("open_options")
  /\ UNCHANGED parseVars

MountFails ==
  /\ boot_pc = "mount"
  /\ CanPush(MOUNT_BUFFER)
  /\ failed' = TRUE
  /\ Stop
  /\ UNCHANGED <<disk, mounted, ext_stack_top>>

Opening == boot_pc \in {"open_options", "open_binary"}

\* fat_open at work
OpenStep == Opening /\ OpenProgress /\ UNCHANGED <<bootVars, parseVars>>
OpenDiskFails ==
  /\ Opening
  /\ OpenFails
  /\ UNCHANGED <<bootVars, parseVars>>

OpenPanics == Opening /\ open_pc = "panic" /\ BootPanics

NotOpened ==
  /\ Opening
  /\ open_pc = "done" /\ open_result # "FAT_SUCCESS"
  /\ Stop
  /\ UNCHANGED fatVars

Opened(pc) == boot_pc = pc /\ open_pc = "done" /\ open_result = "FAT_SUCCESS"

\* the size of the file, and room for a NUL; the file may hold any of the texts
TextLength(text_) == U32(Len(text_) + 1)

PushOptionsPanic ==
  /\ Opened("open_options")
  /\ \E t \in TEXTS[disk.texts] : ~CanPush(TextLength(t))
  /\ BootPanics

PushOptions ==
  /\ Opened("open_options")
  /\ \E t \in TEXTS[disk.texts] :
       /\ CanPush(TextLength(t))
       /\ contents' = t
       /\ options_txt_length' = TextLength(t)
       /\ ext_stack_top' = ext_stack_top - TextLength(t)
  /\ options_txt' = current_directory
  /\ boot_pc' = "read_options"
  /\ UNCHANGED <<disk, mounted, failed, openVars, parseVars>>

\* fat_read: a part and a step in the table are the most it pushes; where it fails, it
\* may pop up to a part that it had not pushed
ReadMayPanic == ~CanPush(bytes_per_cluster + fat_buffer_size)
ReadFailed ==
  /\ \E sectors \in 0 .. mounted.bpb.sectors_per_cluster :
       /\ CanPop(sectors * bytes_per_sector)
       /\ ext_stack_top' = ext_stack_top + sectors * bytes_per_sector
  /\ UNCHANGED <<disk, mounted>>
  /\ failed' \in {failed, TRUE}

ReadPanics ==
  /\ boot_pc \in {"read_options", "open_elf"}
  /\ ReadMayPanic
  /\ BootPanics

ReadFails ==
  /\ boot_pc \in {"read_options", "open_elf"}
  /\ ReadFailed
  /\ Stop

ReadOptions ==
  /\ boot_pc = "read_options"
  /\ CallParse(contents)
  /\ Becomes("parse")
  /\ UNCHANGED <<fatVars, openVars>>

ParseStep == boot_pc = "parse" /\ ParseNext /\ UNCHANGED <<bootVars, fatVars, openVars>>

ParseOverruns == boot_pc = "parse" /\ parse_pc = "overrun" /\ BufferOverrun

NotParsed ==
  /\ boot_pc = "parse"
  /\ parse_pc = "done" /\ parse_result # "PARSER_SUCCESS"
  /\ Stop
  /\ UNCHANGED fatVars

PopOptions_M ==
  /\ boot_pc = "parse"
  /\ parse_pc = "done" /\ parse_result = "PARSER_SUCCESS"
  /\ ext_stack_top' = ext_stack_top + options_txt_length - 1
  /\ Becomes("print")
  /\ UNCHANGED <<disk, mounted, failed, openVars, parseVars>>

PopOptions ==
  /\ boot_pc = "parse"
  /\ parse_pc = "done" /\ parse_result = "PARSER_SUCCESS"
  /\ CanPop(options_txt_length)
  /\ ext_stack_top' = ext_stack_top + options_txt_length
  /\ Becomes("print")
  /\ UNCHANGED <<disk, mounted, failed, openVars, parseVars>>

-----------------------------------------------------------------------------
(* itoa prints the offset as an int, with a sign *)

HexDigits(n) ==
  LET digits[m \in 0 .. UINT32] == IF m < 16 THEN 1 ELSE 1 + digits[m \div 16]
  IN  digits[n]

\* the characters itoa may write, NUL included: the least int has no opposite, and no
\* digit where the negation leaves it as it is
itoa(value_) ==
  LET least == UINT32 \div 2
  IN  IF value_ < least THEN {HexDigits(value_) + 1}
      ELSE IF value_ > least THEN {HexDigits(UINT32 - value_) + 2}
      ELSE {HexDigits(least) + 2, 3}

\* what load_offset may be: anything where no line has set it, of which a number of the
\* fewest characters and one of the most matter
Offsets == IF load_offset = NoOffset THEN {0, UINT32 \div 2 + 1} ELSE {load_offset}

PrintOffsetOverruns ==
  /\ boot_pc = "print"
  /\ \E n \in Offsets : \E l \in itoa(n) : l > LOAD_OFFSET_STR
  /\ BufferOverrun

PrintOffset ==
  /\ boot_pc = "print"
  /\ \E n \in Offsets : \E l \in itoa(n) : l <= LOAD_OFFSET_STR
  /\ CallOpen(boot_binary)
  /\ Becomes("open_binary")
  /\ UNCHANGED <<fatVars, parseVars>>

-----------------------------------------------------------------------------
(* elf_open *)

validate_header(header) ==
  CASE header.magic # "ELF" -> "ELF_NOT_RECOGNIZED"
    [] header.magic = "ELF"
         /\ (header.efi_class # "ELF_CLASS_32"
             \/ header.machine \notin {"ELF_MACHINE_386", "ELF_MACHINE_X86_64"}) ->
       "ELF_UNSUPPORTED_ARCH"
    [] OTHER ->
       IF \/ header.type # "ELF_TYPE_EXEC"
          \/ header.program_entry_count = 0
          \/ header.program_header_table = 0
          \/ header.entry_point = 0
       THEN "ELF_NOT_EXECUTABLE" ELSE "ELF_SUCCESS"

OpenElf ==
  /\ Opened("open_binary")
  /\ Becomes("open_elf")
  /\ UNCHANGED <<fatVars, openVars, parseVars>>

NotElf ==
  /\ boot_pc = "open_elf"
  /\ \E header \in HEADERS : validate_header(header) # "ELF_SUCCESS"
  /\ Stop
  /\ UNCHANGED fatVars

HandOver ==
  /\ boot_pc = "open_elf"
  /\ \E header \in HEADERS : validate_header(header) = "ELF_SUCCESS"
  /\ Becomes("handed_over")
  /\ UNCHANGED <<fatVars, openVars, parseVars>>

-----------------------------------------------------------------------------
\* what the processor does while the disk works
Progress ==
  \/ MountVolume
  \/ OpenStep \/ OpenPanics \/ NotOpened
  \/ PushOptionsPanic \/ PushOptions
  \/ ReadPanics \/ ReadOptions
  \/ ParseStep \/ ParseOverruns \/ NotParsed \/ PopOptions
  \/ PrintOffsetOverruns \/ PrintOffset
  \/ OpenElf \/ NotElf \/ HandOver

Next == Progress \/ MountFails \/ OpenDiskFails \/ ReadFails

Spec == Init /\ [][Next]_vars
FairSpec == Spec /\ WF_vars(Progress)

-----------------------------------------------------------------------------
(* Properties *)

\* The types of what main, fat_open and parse keep; fat_open and parse have a result
\* exactly when they have returned, and the indices of parse stay within one cell of the
\* end of the longer array (options_parser.c:67, 70).
BootTypeOK ==
  /\ boot_pc \in Running \cup Halted
  /\ OpenTypeOK
  /\ ParseTypeOK
  /\ options_txt_length \in Nat

TextIsHeld == boot_pc \in {"read_options", "parse"}
ClusterIsHeld == Opening /\ open_pc = "next"

\* While main goes on, the extended stack holds the text of the options from its push
\* to its pop, one cluster of a directory while fat_open follows a link, and nothing
\* else: every way through fat_open gives back what it took (main.c:72, 92;
\* fat.c:386-407).
StackHoldsWhatIsInUse ==
  boot_pc \notin {"stopped", "panicked", "overrun"} /\ open_pc # "panic" =>
    ext_stack_top = EXTENDED_STACK_BASE - (IF TextIsHeld THEN options_txt_length ELSE 0)
                      - (IF ClusterIsHeld THEN bytes_per_cluster ELSE 0)

\* main panics only where the stack as a whole is too small for what is held at one
\* time: the root directory, a cluster and two sectors of the table, or the text and
\* what a read takes beside it (mem.c:90-96).  Long paths and long chains take no more.
PanicsOnlyForRoom ==
  boot_pc = "panicked" =>
    LET room == EXTENDED_STACK_BASE - EXTENDED_STACK_LIMIT
    IN  \/ room < RootBuffer
        \/ room < bytes_per_cluster + fat_buffer_size
        \/ \E t \in TEXTS[disk.texts] : room < TextLength(t) + bytes_per_cluster + fat_buffer_size

LeadsToFile(p, entry) ==
  LET segments == Segments(p)
      trail == Trail(segments)
  IN  IsWellFormedPath(segments, trail) =>
        /\ Len(trail) = Len(segments) /\ trail # <<>>
        /\ entry = Last(trail)
        /\ "DIRECTORY" \notin entry.attr

\* What is handed to the loader is the file that the last boot_binary line names in the
\* text of /boot/options.txt, found by the meaning of the disk, not of the code, where
\* the directories on the way are well formed (main.c:61-113).
BootsNamedBinary ==
  LET lines == Lines(contents)
      binary == LastValue(lines, BOOT_OPTIONS_BOOT_BINARY_KEY)
  IN  /\ boot_pc = "handed_over"
      /\ IsListOfPairs(contents)
      /\ Giving(lines, BOOT_OPTIONS_BOOT_BINARY_KEY) # {}
      => LeadsToFile(BOOT_OPTIONS_TXT, options_txt) /\ LeadsToFile(binary, current_directory)

\* The geometry stays the disk's own once it is mounted (fat.c:309-350).
MountedFromTheStart == boot_pc # "mount" => MountedAsWritten

\* While the disk works main ends, in the loader or in a message, unless fat_open is
\* caught in a chain of a directory that does not end (fat.c:383).
BootEndsOrSearchIsEndless == <>(boot_pc \in Halted) \/ <>[]SearchIsEndless
=============================================================================
