--------------------------- MODULE ExtendedStack ---------------------------
(***************************************************************************)
(* The extended stack of stage1/mem.c: one pointer that push moves down    *)
(* and pop moves up, between the limits of include/memory_map.h.  Both     *)
(* panic at their limit.  Every buffer of the FAT code lies on it, and the *)
(* text of the options.                                                    *)
(***************************************************************************)
EXTENDS Integers

CONSTANTS EXTENDED_STACK_BASE, EXTENDED_STACK_LIMIT

ASSUME ExtendedStackAssumption ==
  /\ EXTENDED_STACK_LIMIT \in Nat /\ EXTENDED_STACK_BASE \in Nat
  /\ EXTENDED_STACK_LIMIT <= EXTENDED_STACK_BASE

VARIABLE ext_stack_top

\* push and pop panic where these are false
CanPush(n) == ext_stack_top - EXTENDED_STACK_LIMIT >= n
CanPop(n) == EXTENDED_STACK_BASE - ext_stack_top >= n

StackTypeOK == ext_stack_top \in EXTENDED_STACK_LIMIT .. EXTENDED_STACK_BASE
=============================================================================
