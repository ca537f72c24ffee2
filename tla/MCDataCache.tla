---------------------------- MODULE MCDataCache -----------------------------
(***************************************************************************)
(* The data side of CacheSystem with two lines of four words, and bursts   *)
(* that start on and off a beat, straddle two lines and write only one of  *)
(* two words.                                                              *)
(***************************************************************************)
EXTENDS DataCacheSystem

Both == {0, 1}

\* Bytes 0 to 15 and 32 to 47 share a line of the cache.
MCReads ==
    {[addr |-> 0, len |-> 2],     \* a whole line
     [addr |-> 12, len |-> 1],    \* the last word of a line and the next
     [addr |-> 36, len |-> 2]}    \* three words of a line and the next

MCWrites ==
    {[addr |-> 4, strb |-> <<{0}>>],
     [addr |-> 4, strb |-> <<Both, Both>>],   \* three words and one
     [addr |-> 40, strb |-> <<{1}>>]}
=============================================================================
