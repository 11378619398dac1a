------------------------------ MODULE FileRead ------------------------------
(***************************************************************************)
(* What fat_read promises its callers: the bytes of the file arrive in     *)
(* order, a piece at a time, success is said when all of them are there,   *)
(* and an error may be said at any time before.                            *)
(***************************************************************************)
EXTENDS Naturals, Sequences

VARIABLES
  file,      \* the bytes from the offset on, as far as the file goes and is wanted
  wanted,    \* how many were asked for
  got,       \* the bytes that have arrived
  status     \* "reading", "success" or "error"

fileVars == <<file, wanted, got, status>>

Deliver ==
  /\ status = "reading"
  /\ \E n \in Len(got) + 1 .. Len(file) : got' = SubSeq(file, 1, n)
  /\ UNCHANGED <<file, wanted, status>>

Succeed ==
  /\ status = "reading"
  /\ Len(got) = wanted
  /\ status' = "success"
  /\ UNCHANGED <<file, wanted, got>>

Fail ==
  /\ status = "reading"
  /\ status' = "error"
  /\ UNCHANGED <<file, wanted, got>>

FileNext == Deliver \/ Succeed \/ Fail
=============================================================================
