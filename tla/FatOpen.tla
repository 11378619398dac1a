------------------------------ MODULE FatOpen ------------------------------
(***************************************************************************)
(* fat_open of stage1/fat.c: the walk from directory to directory, along   *)
(* the chain of clusters of each, to the file a path names.  One step      *)
(* reads one cluster of a directory, or follows one link of the table.     *)
(***************************************************************************)
EXTENDS DirectoryTree

VARIABLES
  open_pc,      \* "idle", "start", "descend", "read", "next", "done" or "panic"
  path,         \* what is left of it
  path_segment,
  current_directory,
  current_dir_cluster,
  open_result,
  open_path,    \* history: the argument
  meaning       \* history: what the argument means on this disk

openVars ==
  <<open_pc, path, path_segment, current_directory, current_dir_cluster, open_result,
    open_path, meaning>>

FatResults ==
  {"none", "FAT_SUCCESS", "FAT_DISK_ERROR", "FAT_FILE_NOT_FOUND", "FAT_IS_DIRECTORY"}

\* fat_open makes an entry for the root directory only where it is a chain
RootDirectory == [name |-> <<>>, attr |-> {}, cluster |-> mounted.bpb.root_cluster]

MeaningOf(segments, trail) ==
  [trail |-> trail,
   segments |-> Len(segments),
   well_formed |-> IsWellFormedPath(segments, trail)]

OpenInit ==
  /\ open_pc = "idle"
  /\ path = <<>> /\ path_segment = <<>> /\ open_path = <<>>
  /\ meaning = MeaningOf(<<>>, <<>>)
  /\ current_directory = [name |-> <<>>, attr |-> {}, cluster |-> 0]
  /\ current_dir_cluster = 0
  /\ open_result = "none"

\* the call
CallOpen(p) ==
  /\ open_pc' = "start"
  /\ path' = p
  /\ open_path' = p
  /\ \E segments \in {Segments(p)} : \E trail \in {Trail(segments)} :
       meaning' = MeaningOf(segments, trail)
  /\ open_result' = "none"
  /\ UNCHANGED <<path_segment, current_directory, current_dir_cluster>>

-----------------------------------------------------------------------------
(* search_for_entry *)

Matches_M(entry, name) == entry.name[1] # FREE /\ entry.name = name

Matches(entry, name) ==
  /\ entry.name[1] # FREE
  /\ "VOLUME_ID" \notin entry.attr   \* every part of a long name has this bit, too
  /\ entry.name = name

\* the indices, up to the size, at which the search ends with the entry
Found(entries, size, name) ==
  UNION {{i \in DOMAIN es :
            /\ i <= size
            /\ Matches(es[i], name83)
            /\ \A j \in 1 .. i : es[j].name[1] # LAST} :
           es \in {entries}, name83 \in {convert_to_83_filename(name)} \ {NoName}}

-----------------------------------------------------------------------------
(* fat_open *)

Return(result) ==
  /\ open_pc' = "done"
  /\ open_result' = result
  /\ UNCHANGED <<path, path_segment, current_directory, current_dir_cluster, open_path,
                 meaning>>

Panic ==
  /\ open_pc' = "panic"
  /\ UNCHANGED <<path, path_segment, current_directory, current_dir_cluster, open_result,
                 open_path, meaning, disk, mounted, ext_stack_top, failed>>

\* on to the next segment, which lies in the directory of entry
GoOnFrom(entry) ==
  LET next == get_next_segment(path)
  IN  /\ path' = next.rest
      /\ path_segment' = next.segment
      /\ current_directory' = entry
      /\ open_pc' = "descend"
      /\ UNCHANGED <<current_dir_cluster, open_result, open_path, meaning>>

NoSegment ==
  /\ open_pc = "start"
  /\ get_next_segment(path).segment = <<>>
  /\ Return("FAT_FILE_NOT_FOUND")
  /\ UNCHANGED <<disk, mounted, ext_stack_top, failed>>

Starting == open_pc = "start" /\ get_next_segment(path).segment # <<>>

\* FAT32: the root is a directory like the others
StartAtRootCluster ==
  /\ Starting
  /\ mounted.type = "FAT32"
  /\ GoOnFrom(RootDirectory)
  /\ UNCHANGED <<disk, mounted, ext_stack_top, failed>>

\* search_root_for_entry: the whole root directory is read at once
SearchingRoot == Starting /\ mounted.type # "FAT32"
RootBuffer == mounted.root_dir_sectors * bytes_per_sector
RootEntries == EntriesAt(mounted.first_data_sector - mounted.root_dir_sectors)
RootFound ==
  Found(RootEntries, mounted.bpb.root_entry_count, get_next_segment(path).segment)

SearchRootPanic ==
  /\ SearchingRoot
  /\ ~CanPush(RootBuffer)
  /\ Panic

SearchRootFails ==
  /\ SearchingRoot
  /\ CanPush(RootBuffer)
  /\ failed' = TRUE
  /\ Return("FAT_FILE_NOT_FOUND")
  /\ UNCHANGED <<disk, mounted, ext_stack_top>>

SearchRoot ==
  /\ SearchingRoot
  /\ CanPush(RootBuffer)
  /\ RootFound = {}
  /\ Return("FAT_FILE_NOT_FOUND")
  /\ UNCHANGED <<disk, mounted, ext_stack_top, failed>>

\* found: the first segment is done with, the next one is taken
EnterFromRoot ==
  /\ SearchingRoot
  /\ CanPush(RootBuffer)
  /\ RootFound # {}
  /\ LET first == get_next_segment(path)
         next == get_next_segment(first.rest)
     IN  /\ current_directory' = RootEntries[Min(RootFound)]
         /\ path' = next.rest
         /\ path_segment' = next.segment
  /\ open_pc' = "descend"
  /\ UNCHANGED <<current_dir_cluster, open_result, open_path, meaning>>
  /\ UNCHANGED <<disk, mounted, ext_stack_top, failed>>

Descend ==
  /\ open_pc = "descend"
  /\ path_segment # <<>>
  /\ current_dir_cluster' = current_directory.cluster
  /\ open_pc' = "read"
  /\ UNCHANGED <<path, path_segment, current_directory, open_result, open_path, meaning>>
  /\ UNCHANGED <<disk, mounted, ext_stack_top, failed>>

OpenReturns ==
  /\ open_pc = "descend"
  /\ path_segment = <<>>
  /\ Return(IF "DIRECTORY" \in current_directory.attr THEN "FAT_IS_DIRECTORY"
                                                      ELSE "FAT_SUCCESS")
  /\ UNCHANGED <<disk, mounted, ext_stack_top, failed>>

entry_count_per_cluster == bytes_per_cluster \div DIRENT_SIZE
ClusterEntries == EntriesAt(cluster_to_lba(current_dir_cluster))
ClusterFound == Found(ClusterEntries, entry_count_per_cluster, path_segment)

ReadDirectoryPanic ==
  /\ open_pc = "read"
  /\ ~CanPush(bytes_per_cluster)
  /\ Panic

ReadDirectoryFails ==
  /\ open_pc = "read"
  /\ CanPush(bytes_per_cluster)
  /\ failed' = TRUE
  /\ Return("FAT_DISK_ERROR")
  /\ UNCHANGED <<disk, mounted, ext_stack_top>>

\* the entry is in this cluster, whose buffer is popped
EnterDirectory ==
  /\ open_pc = "read"
  /\ CanPush(bytes_per_cluster)
  /\ ClusterFound # {}
  /\ GoOnFrom(ClusterEntries[Min(ClusterFound)])
  /\ UNCHANGED <<disk, mounted, ext_stack_top, failed>>

\* it is not: the buffer stays while the link is followed
ReadDirectory ==
  /\ open_pc = "read"
  /\ CanPush(bytes_per_cluster)
  /\ ClusterFound = {}
  /\ ext_stack_top' = ext_stack_top - bytes_per_cluster
  /\ open_pc' = "next"
  /\ UNCHANGED <<path, path_segment, current_directory, current_dir_cluster, open_result,
                 open_path, meaning, disk, mounted, failed>>

FollowPanic ==
  /\ open_pc = "next"
  /\ ~CanPush(fat_buffer_size)
  /\ Panic

PopCluster_M == UNCHANGED ext_stack_top
PopCluster == ext_stack_top' = ext_stack_top + bytes_per_cluster

FollowFails ==
  /\ open_pc = "next"
  /\ CanPush(fat_buffer_size)
  /\ failed' = TRUE
  /\ PopCluster
  /\ Return("FAT_FILE_NOT_FOUND")
  /\ UNCHANGED <<disk, mounted>>

FollowEnd ==
  /\ open_pc = "next"
  /\ CanPush(fat_buffer_size)
  /\ IsEnd(NextOf(current_dir_cluster))
  /\ PopCluster
  /\ Return("FAT_FILE_NOT_FOUND")
  /\ UNCHANGED <<disk, mounted, failed>>

FollowBad ==
  /\ open_pc = "next"
  /\ CanPush(fat_buffer_size)
  /\ IsBad(NextOf(current_dir_cluster))
  /\ current_dir_cluster' = NextOf(current_dir_cluster)
  /\ UNCHANGED <<open_pc, path, path_segment, current_directory, open_result, open_path,
                 meaning, disk, mounted, ext_stack_top, failed>>

FollowValid_M ==
  /\ open_pc = "next"
  /\ CanPush(fat_buffer_size)
  /\ ~IsEnd(NextOf(current_dir_cluster))
  /\ ~IsBad(NextOf(current_dir_cluster))
  /\ PopCluster
  /\ open_pc' = "read"
  /\ UNCHANGED <<path, path_segment, current_directory, current_dir_cluster, open_result,
                 open_path, meaning, disk, mounted, failed>>

FollowValid ==
  /\ open_pc = "next"
  /\ CanPush(fat_buffer_size)
  /\ ~IsEnd(NextOf(current_dir_cluster))
  /\ ~IsBad(NextOf(current_dir_cluster))
  /\ current_dir_cluster' = NextOf(current_dir_cluster)
  /\ PopCluster
  /\ open_pc' = "read"
  /\ UNCHANGED <<path, path_segment, current_directory, open_result, open_path,
                 meaning, disk, mounted, failed>>

\* what the code does while the disk works
OpenProgress ==
  \/ NoSegment \/ StartAtRootCluster
  \/ SearchRootPanic \/ SearchRoot \/ EnterFromRoot
  \/ Descend \/ OpenReturns
  \/ ReadDirectoryPanic \/ EnterDirectory \/ ReadDirectory
  \/ FollowPanic \/ FollowEnd \/ FollowBad \/ FollowValid

OpenFails == SearchRootFails \/ ReadDirectoryFails \/ FollowFails

-----------------------------------------------------------------------------
(* Properties *)

Walking == open_pc \in {"start", "descend", "read", "next"}

\* the segments taken so far: at the start, none of the path is gone
Depth ==
  IF path = open_path THEN 0
  ELSE IF path_segment = <<>> THEN meaning.segments
  ELSE meaning.segments - Len(Segments(path)) - 1

Status ==
  CASE open_pc = "idle" -> "idle"
    [] Walking -> "walking"
    [] open_pc = "panic" \/ failed -> "error"
    [] open_result = "FAT_SUCCESS" -> "opened"
    [] open_result = "FAT_IS_DIRECTORY" -> "is_directory"
    [] OTHER -> "not_found"

PW == INSTANCE PathWalk WITH
        trail <- meaning.trail,
        segments <- meaning.segments,
        depth <- Depth,
        at <- IF Depth = 0 THEN <<>> ELSE current_directory,
        status <- Status

\* Over well-formed directories fat_open is the walk that PathWalk describes: each
\* segment leads to the entry it names, a file is opened only at the end of the path,
\* and "not found" is the answer only where the path names nothing (fat.c:352-423).
ImplementsPathWalk ==
  [][meaning.well_formed => PW!WalkNext \/ UNCHANGED PW!walkVars]_openVars

\* fat_open has a result exactly when it has returned.
OpenTypeOK ==
  /\ open_pc \in {"idle", "start", "descend", "read", "next", "done", "panic"}
  /\ open_result \in FatResults
  /\ open_pc = "done" <=> open_result # "none"
  /\ current_dir_cluster \in Nat
  /\ failed \in BOOLEAN
  /\ StackTypeOK

\* A chain that never ends: the directory the walk is in goes round in circles, or
\* through the bad mark, which fat_next_not_bad looks up again and again.
SearchIsEndless ==
  /\ open_pc \in {"read", "next"}
  /\ LinkOf(Last(Chain(disk, current_dir_cluster))) \notin LeastEnd .. LastEnd
=============================================================================
