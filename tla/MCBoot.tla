------------------------------- MODULE MCBoot -------------------------------
(***************************************************************************)
(* Names of two characters and one, keys "b" and "l", sectors of 32 bytes: *)
(* one entry each.  /b/o.t is the file of the options.                     *)
(***************************************************************************)
EXTENDS Boot

MCUpperCase == [c \in {"b", "x", "o", "t", "c", "l", "a"} |->
  CASE c = "b" -> "B" [] c = "x" -> "X" [] c = "o" -> "O" [] c = "t" -> "T"
    [] c = "c" -> "C" [] c = "l" -> "L" [] c = "a" -> "A"]
MCDigits == [c \in {"0", "1", "9", "a", "A", "F"} |->
  CASE c = "0" -> 0 [] c = "1" -> 1 [] c = "9" -> 9 [] c \in {"a", "A"} -> 10 [] c = "F" -> 15]

MCBinaryKey == <<"b">>
MCOffsetKey == <<"l">>
MCOptionsTxt == <<"/", "b", "/", "o", ".", "t">>
MCUninitialised == {<<>>, <<"/", "x">>}

Header(magic, class, machine, type, count) ==
  [magic |-> magic, efi_class |-> class, machine |-> machine, type |-> type,
   program_entry_count |-> count, program_header_table |-> 52, entry_point |-> 1]
MCHeaders ==
  {Header("ELF", "ELF_CLASS_32", "ELF_MACHINE_X86_64", "ELF_TYPE_EXEC", 1),
   Header("ELF", "ELF_CLASS_64", "ELF_MACHINE_X86_64", "ELF_TYPE_EXEC", 1),
   Header("ELF", "ELF_CLASS_32", "ELF_MACHINE_386", "ELF_TYPE_EXEC", 0),
   Header("text", "ELF_CLASS_32", "ELF_MACHINE_386", "ELF_TYPE_EXEC", 1)}

-----------------------------------------------------------------------------
(* Texts *)

MCPaths ==
  {<<"/", "b", "/", "x">>, <<"/", "x">>, <<"/", "B", "/", "X", ".">>,
   <<"/", "b">>, <<"/", "b", "/", "c", "/", "x">>, <<"/", "b", "/", "/", "x">>,
   <<"/", "x", "/", "x">>, <<"/", "b", "/", "x", ".", "t">>, <<"/", "x", ".", "t">>,
   <<"b", "/", "x">>, <<"/", "x", "x", "x">>, <<"/", ".", "x">>, <<"/", "x", ".", "x", "x">>}

Pair(k, v) == <<k, "=">> \o v
MCLines ==
  {Pair("b", p) : p \in {<<"/", "b", "/", "x">>, <<"/", "x">>, <<>>,
                         <<"/", "x", "\r">>, <<"a", "=", "b">>}}
  \cup {Pair("l", v) : v \in {<<"0", "x", "F", "0", "0", "0", "0">>, <<"0", "x", "0", "1", "F">>,
                              <<"9", "1">>, <<"9", "a">>, <<"0", "x">>}}
  \cup {<<>>, <<"b">>, <<"l">>, <<"x", "=", "1">>}
  \cup {<<"b", "b", "b", "=", "1">>, <<"b", "b", "b", "b">>}
  \cup {Pair("b", [n \in 1 .. len |-> "x"]) :
          len \in {PARSER_VALUE_MAX_LENGTH + 1, PARSER_VALUE_MAX_LENGTH + 2}}

Ended(line) == Append(line, "\n")
MCTexts ==
  [k \in {"all", "paths", "one", "long"} |->
     CASE k = "all" ->
            {<<>>} \cup MCLines \cup {Ended(l) : l \in MCLines}
              \cup {Ended(l) \o Ended(m) : l, m \in MCLines}
              \cup {Ended(Pair("b", <<"/", "x">>)) \o Ended(l) \o m : l, m \in MCLines}
       [] k = "paths" -> {Ended(Pair("b", p)) : p \in MCPaths}
       [] k = "one" -> {Ended(Pair("b", <<"/", "x">>))}
       [] k = "long" -> {[n \in 1 .. len |-> "\r"] :
                           len \in {EXTENDED_STACK_BASE - EXTENDED_STACK_LIMIT - 1,
                                    EXTENDED_STACK_BASE - EXTENDED_STACK_LIMIT}}]

-----------------------------------------------------------------------------
(* Disks *)

Entry(name, extension, attr, cluster) ==
  [name |-> <<name, " ", extension>>, attr |-> attr, cluster |-> cluster]
DirB == Entry("B", " ", {"DIRECTORY"}, 2)
DirC == Entry("C", " ", {"DIRECTORY", "HIDDEN"}, 5)
FileO == Entry("O", "T", {}, 7)
FileX == Entry("X", " ", {}, 6)
FileXT == Entry("X", "T", {}, 8)
LabelX == Entry("X", " ", {"VOLUME_ID"}, 0)
FreeX == Entry(FREE, " ", {}, 6)
LastX == Entry(LAST, " ", {}, 0)

\* the table is large enough for the clusters, which fill the volume up to some sectors
Sectors(bytes, size) == (bytes + size - 1) \div size
MCBpb(type, clusters, spc, roots, left_over) ==
  LET entry == CASE type = "FAT12" -> 3 [] type = "FAT16" -> 4 [] type = "FAT32" -> 8
      fat_size == Sectors((clusters + 2) * entry, 64)
      root_count == IF type = "FAT32" THEN 0 ELSE roots
      total == 2 + 2 * fat_size + Sectors(root_count * 32, 32) + clusters * spc
                 + (IF left_over THEN spc - 1 ELSE 0)
  IN  [bytes_per_sector |-> 32, sectors_per_cluster |-> spc, reserved_sectors |-> 2,
       num_fats |-> 2, root_entry_count |-> root_count,
       fat_size_16 |-> IF type = "FAT32" THEN 0 ELSE fat_size,
       fat_size_32 |-> IF type = "FAT32" THEN fat_size ELSE 0,
       total_sectors_16 |-> IF total < 65536 THEN total ELSE 0,
       total_sectors_32 |-> IF total < 65536 THEN 0 ELSE total,
       root_cluster |-> IF type = "FAT32" THEN 3 ELSE 0]

Medium(bpb, type, links, beyond, root, dirs, texts) ==
  [bpb |-> bpb, type |-> type, links |-> links, beyond |-> beyond, reserved_bits |-> 9,
   root |-> IF type = "FAT32" THEN <<>> ELSE root,
   dirs |-> [c \in {2, 3, 4, 5, 6, 21, 22} |->
               CASE c = 3 -> (IF type = "FAT32" THEN <<root[1]>> ELSE <<>>)
                 [] c = 4 -> (IF type = "FAT32" THEN Tail(root) ELSE <<>>)
                 [] OTHER -> dirs[c]],
   texts |-> texts]
WithDirectories(d) == d @@ [directories |-> Directories(d)]
MCDisk(bpb, type, links, beyond, root, dirs, texts) ==
  WithDirectories(Medium(bpb, type, links, beyond, root, dirs, texts))

\* /b goes from cluster 2 to 21, whose 12-bit entry lies in two sectors, and may go on
\* to 22; the root of FAT32 goes from 3 to 4
MCLinks(l2, l21) ==
  [c \in 0 .. 5 \cup {21, 22} |->
     CASE c = 2 -> l2 [] c = 21 -> l21 [] c = 22 -> -8 [] c = 3 -> 4 [] OTHER -> -1]
MCDirs(first, second) ==
  [c \in {2, 5, 6, 21, 22} |->
     CASE c = 2 -> first [] c = 21 -> second [] c = 22 -> <<FileXT>> [] OTHER -> <<FileX>>]

Types == {"FAT12", "FAT16", "FAT32"}
Least(type) == CASE type = "FAT12" -> 100 [] type = "FAT16" -> 4085 [] type = "FAT32" -> 65525
Most(type) == CASE type = "FAT12" -> 4084 [] type = "FAT16" -> 65524 [] type = "FAT32" -> 66000

\* one disk, all texts
TextDisks ==
  {MCDisk(MCBpb("FAT12", 100, 2, 3, FALSE), "FAT12", MCLinks(21, -1), -1,
          <<LabelX, DirB, FileX>>, MCDirs(<<FileO, FreeX>>, <<FileX>>), "all")}

\* directories of any shape, all paths
ShapeDisks ==
  {MCDisk(MCBpb(type, Least(type), 2, 3, TRUE), type, MCLinks(links[1], links[2]), links[3],
          <<DirB>> \o root, MCDirs(dir[1], dir[2]), "paths") :
     type \in Types,
     links \in {<<21, -1, -1>>, <<21, 22, -1>>, <<21, 2, -1>>, <<21, 0, -1>>, <<21, -9, 21>>,
                <<-9, -1, 21>>, <<-9, -1, -9>>, <<-1, -1, -1>>},
     root \in {<<FileX, FileXT>>, <<LabelX, FileX>>, <<LastX, FileX>>},
     dir \in {<< <<FileO, DirC>>, <<FileX>> >>, << <<DirC, FileX>>, <<FreeX, FileO>> >>,
              << <<FileO, LastX>>, <<FileX>> >>}}

\* the numbers at which something changes: the types, the sizes of the buffers
GeometryDisks ==
  UNION {{MCDisk(MCBpb(type, clusters, spc, roots, left_over), type, MCLinks(21, -1), -1,
                 <<DirB, FileX>>, MCDirs(<<DirC>>, <<FileO>>), "one") :
            clusters \in {Least(type), Most(type)}, spc \in {1, 2, 4, 8},
            roots \in {2, 16}, left_over \in BOOLEAN} : type \in Types}

LongTextDisks ==
  {MCDisk(MCBpb("FAT12", 100, 2, 3, FALSE), "FAT12", MCLinks(21, -1), -1,
          <<DirB, FileX>>, MCDirs(<<FileO>>, <<FileX>>), "long")}

MCDisks == TextDisks \cup ShapeDisks \cup GeometryDisks \cup LongTextDisks
=============================================================================
