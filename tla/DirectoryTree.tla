--------------------------- MODULE DirectoryTree ---------------------------
(***************************************************************************)
(* What a path means on a FAT disk, by the format and not by the code: the *)
(* clusters of a directory, the entries in them that are in use, and the   *)
(* entries a path leads to, one after another.                             *)
(*                                                                         *)
(* disk.directories says of each directory, by its first cluster, what its *)
(* content is; that of the root directory is at Root.                      *)
(***************************************************************************)
EXTENDS FatMount, ShortNames, SequencesExt

\* the first character of an entry that is free, and of the first one never used
FREE == "free"
LAST == "last"

Root == 0

\* the clusters from the first one on; of a chain that does not end, a part
Chain(d, first) ==
  LET link[n \in Nat, c \in Int] == IF n = 0 THEN c ELSE link[n - 1, LinkOn(d, c)]
      length ==
        Max({n \in 0 .. Cardinality(DOMAIN d.links) : \A m \in 0 .. n : link[m, first] >= 0})
  IN  [n \in 1 .. length + 1 |-> link[n - 1, first]]

ChainEnds(d, first) ==
  /\ ToSet(Chain(d, first)) \subseteq DOMAIN d.dirs
  /\ LinkOn(d, Last(Chain(d, first))) \in LeastEnd .. LastEnd

\* the root directory has a place of its own, or a chain, like the others
IsRootArea(d, first) == first = Root /\ d.type # "FAT32"
StartOf(d, first) == IF first = Root THEN d.bpb.root_cluster ELSE first
Content(d, first) ==
  LET chain == Chain(d, StartOf(d, first))
  IN  IF IsRootArea(d, first) THEN d.root
      ELSE FlattenSeq([i \in DOMAIN chain |->
                         IF chain[i] \in DOMAIN d.dirs THEN d.dirs[chain[i]] ELSE <<>>])

InUse(entry) == entry.name[1] \notin {FREE, LAST} /\ "VOLUME_ID" \notin entry.attr
EndOf(content) ==
  Min({i \in DOMAIN content : content[i].name[1] = LAST} \cup {Len(content) + 1})

\* A directory as an operating system leaves it: its chain ends, nothing is in use
\* behind the entry that says so, and no name is there twice.
WellFormed(d, first) ==
  LET content == Content(d, first)
  IN  /\ IsRootArea(d, first) \/ ChainEnds(d, StartOf(d, first))
      /\ \A i \in EndOf(content) .. Len(content) : ~InUse(content[i])
      /\ \A i, j \in DOMAIN content :
           InUse(content[i]) /\ InUse(content[j]) /\ content[i].name = content[j].name => i = j

Directories(d) ==
  [first \in {Root} \cup DOMAIN d.dirs |->
     [well_formed |-> WellFormed(d, first),
      entries |-> SubSeq(Content(d, first), 1, EndOf(Content(d, first)) - 1)]]

ASSUME DisksAssumption == \A d \in DISKS : d.directories = Directories(d)

-----------------------------------------------------------------------------
(* Paths *)

\* the slashes with a name behind them, up to the first that has none
Slashes(path) ==
  {i \in DOMAIN path :
     /\ path[i] = "/" /\ Head(path) = "/"
     /\ \A c \in 1 .. i : path[c] = "/" => c < Len(path) /\ path[c + 1] # "/"}
NameBehind(path, slash) ==
  SubSeq(path, slash + 1,
         Min({i \in slash + 1 .. Len(path) : path[i] = "/"} \cup {Len(path) + 1}) - 1)
Segments(path) ==
  [n \in 1 .. Cardinality(Slashes(path)) |->
     NameBehind(path, CHOOSE i \in Slashes(path) : Cardinality(Slashes(path) \cap 1 .. i) = n)]

IsWellFormed(directory) ==
  directory \in DOMAIN disk.directories /\ disk.directories[directory].well_formed

\* the entries of that name, in the directory that starts there
Named(directory, segment) ==
  IF directory \notin DOMAIN disk.directories THEN {}
  ELSE {e \in ToSet(disk.directories[directory].entries) :
          InUse(e) /\ IsNamed(e.name, segment)}

\* the entries the names lead to, one after another, as far as there are any
Trail(segments) ==
  LET from[k \in Nat, directory \in Nat] ==
        IF k > Len(segments) THEN <<>>
        ELSE IF Named(directory, segments[k]) = {} THEN <<>>
        ELSE LET entry == CHOOSE e \in Named(directory, segments[k]) : TRUE
             IN  <<entry>> \o from[k + 1, entry.cluster]
  IN  from[1, Root]

\* the trail leads through well-formed directories only, and not by way of a file or of
\* the entries "." and ".."; no name has spaces, or is too long
IsWellFormedPath(segments, trail) ==
  /\ \A k \in DOMAIN segments :
       /\ Head(segments[k]) # "." /\ " " \notin ToSet(segments[k])
       /\ Len(segments[k]) <= MAX_NAME_LEN
  /\ \A k \in 0 .. Len(trail) : k < Len(segments) =>
       IF k = 0 THEN IsWellFormed(Root)
       ELSE "DIRECTORY" \in trail[k].attr /\ IsWellFormed(trail[k].cluster)
=============================================================================
