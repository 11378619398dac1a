-------------------------------- MODULE Word --------------------------------
(* The 32-bit words of the C code; UINT32 stands for 2^32. *)
EXTENDS Integers

CONSTANT UINT32

ASSUME Uint32Assumption == UINT32 \in Nat \ {0}

U32(n) == n % UINT32
=============================================================================
