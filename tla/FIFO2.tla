------------------------------- MODULE FIFO2 --------------------------------
(***************************************************************************)
(* The two-place FIFO of the cache system (FIFO2.v): a sequence, read and  *)
(* written by clock edge.  FULL_N and EMPTY_N are registers, so a producer *)
(* and a consumer decide on the contents before the edge: a full FIFO      *)
(* takes nothing, even when it is dequeued at that edge.  Lines, addresses *)
(* and merging by strobes, which all parts of the cache share, are here    *)
(* as well.                                                                *)
(***************************************************************************)
EXTENDS Integers, Sequences

CONSTANTS WPL,    \* 32-bit words per cache line: 8
          Sets,   \* lines in the cache, direct mapped: 32
          Tags,   \* number of tags, 2^22
          None,   \* an empty register, "no transfer" on a channel
          Mixed   \* a word made of bits that do not belong together

ASSUME GeometryAssumption ==
    /\ WPL \in Nat \ {0} /\ WPL % 2 = 0
    /\ Sets \in Nat \ {0} /\ Tags \in Nat \ {0}

FULL_N(q) == Len(q) < 2
EMPTY_N(q) == q # << >>

Clocked(q, deq, enq, e) ==
    LET left == IF deq THEN Tail(q) ELSE q
    IN  IF enq THEN Append(left, e) ELSE left

-----------------------------------------------------------------------------
(* Addresses are byte addresses: tag, index, word in the line, byte.       *)

WordIdx == 0 .. WPL - 1
LineBytes == 4 * WPL

\* The upper address bits, as many as an entry of the tag array has.
Tag(a) == (a \div (LineBytes * Sets)) % Tags
Index(a) == (a \div LineBytes) % Sets
Chunk(a) == (a \div 4) % WPL
Aligned(a) == a - (a % LineBytes)

ZeroLine == [i \in WordIdx |-> 0]

\* A line overwritten by data where strb has the word.
Merge(prev, data, strb) ==
    [i \in WordIdx |-> IF i \in strb THEN data[i] ELSE prev[i]]
=============================================================================
