----------------------------- MODULE MCFatRead -----------------------------
EXTENDS FatRead

CONSTANTS OFFSETS, LENGTHS, BUFFERS   \* of the calls
CONSTANTS LINKS2, LINKS3, LINKS4, LINKSBAD   \* what the table may say of each cluster

\* A file starts at cluster 2; an empty one has cluster 0, and is asked for as
\* well.  What lies below the top of the extended stack, or below the stack, does
\* not reach past its end.
MCRequests ==
  {r \in [cluster : {0, 2}, offset : OFFSETS, length : LENGTHS, buffer : BUFFERS] :
     /\ Placed(r)
     /\ r.buffer < EXTENDED_STACK_BASE => r.buffer + r.length <= EXTENDED_STACK_BASE}

\* clusters 2, 3 and 4 and the bad mark, 5; entries 0 and 1 are no links
MCFats ==
  {f \in [Clusters -> Links] :
     /\ f[0] = FAT_END /\ f[1] = FAT_END
     /\ f[2] \in LINKS2 /\ f[3] \in LINKS3 /\ f[4] \in LINKS4 /\ f[FAT_BAD] \in LINKSBAD}
=============================================================================
