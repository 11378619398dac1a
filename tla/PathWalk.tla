------------------------------ MODULE PathWalk ------------------------------
(***************************************************************************)
(* What fat_open promises its callers: the segments of the path are taken  *)
(* one after another, each names an entry of the directory before it, and  *)
(* the answer is the file at the end, or says why there is none.           *)
(***************************************************************************)
EXTENDS Naturals, Sequences

VARIABLES
  trail,     \* the entries the path names, as far as they exist
  segments,  \* how many segments the path has
  depth,     \* how many of them have been taken
  at,        \* the entry they led to
  status     \* "idle", "walking", "opened", "not_found", "is_directory" or "error"

walkVars == <<trail, segments, depth, at, status>>

IsDirectory(entry) == "DIRECTORY" \in entry.attr

\* a new call
Begin ==
  /\ status # "walking"
  /\ depth' = 0
  /\ status' = "walking"

Enter ==
  /\ status = "walking"
  /\ depth < Len(trail)
  /\ depth' = depth + 1
  /\ at' = trail[depth']
  /\ UNCHANGED <<trail, segments, status>>

Answer(s) ==
  /\ status = "walking"
  /\ status' = s
  /\ UNCHANGED <<trail, segments, depth, at>>

Open ==
  /\ depth = segments /\ depth > 0
  /\ ~IsDirectory(at)
  /\ Answer("opened")

Refuse ==
  /\ depth = segments /\ depth > 0
  /\ IsDirectory(at)
  /\ Answer("is_directory")

\* the next segment names nothing, or there is no segment at all
Miss ==
  /\ depth = Len(trail)
  /\ depth < segments \/ segments = 0
  /\ Answer("not_found")

Fail == Answer("error")

WalkNext == Begin \/ Enter \/ Open \/ Refuse \/ Miss \/ Fail
=============================================================================
