----------------------- MODULE HardwareBlocks_proofs ------------------------
(***************************************************************************)
(* Proofs about the two hardware blocks that stand on their own.  The FIFO *)
(* every Bluespec block is built from, for every set of elements, depth    *)
(* and pointer width that satisfy the assumptions.  The BRAM controller    *)
(* with a master that keeps its rules, for every number of addresses,      *)
(* every set of words and bursts of every length.                          *)
(***************************************************************************)
EXTENDS SizedFIFO, MCAxiCtrl, SequenceTheorems, TLAPS

(***************************************************************************)
(* SizedFIFO.                                                              *)
(***************************************************************************)
IInv == TypeOK /\ RingInv

(***************************************************************************)
(* A pointer that advances stays in the ring: the width of the counter is  *)
(* large enough for the increment not to wrap before the ring's end.       *)
(***************************************************************************)
LEMMA NextPtrValue ==
    ASSUME NEW p \in Slots
    PROVE  /\ NextPtr(p) = IF p = p2depth2 THEN 0 ELSE p + 1
           /\ NextPtr(p) \in Slots
<1>1. CASE p = p2depth2
    BY <1>1, DepthAssumption DEF NextPtr, Slots, p2depth2
<1>2. CASE p # p2depth2
    <2>1. p \in Nat /\ p + 1 \in Nat /\ p + 1 < CounterSize /\ p + 1 <= p2depth2
        BY <1>2, DepthAssumption, WidthAssumption DEF Slots, p2depth2
    <2>2. (p + 1) % CounterSize = p + 1
        BY <2>1, WidthAssumption
    <2>. QED
        BY <1>2, <2>1, <2>2, DepthAssumption DEF NextPtr, Slots, p2depth2
<1>. QED
    BY <1>1, <1>2

(***************************************************************************)
(* Every step keeps the registers in their types and the flags consistent  *)
(* with the pointers.                                                      *)
(***************************************************************************)
LEMMA IInvStep == IInv /\ [FifoNext]_fifovars => IInv'
<1>. SUFFICES ASSUME IInv, [FifoNext]_fifovars PROVE IInv'
    OBVIOUS
<1>. USE DepthAssumption
<1>t. /\ head \in Slots /\ tail \in Slots
      /\ NextPtr(head) = IF head = p2depth2 THEN 0 ELSE head + 1
      /\ NextPtr(tail) = IF tail = p2depth2 THEN 0 ELSE tail + 1
      /\ NextPtr(head) \in Slots /\ NextPtr(tail) \in Slots
      /\ 0 \in Slots
    BY NextPtrValue DEF IInv, TypeOK, Slots, p2depth2
<1>1. ASSUME NEW CLR \in BOOLEAN, NEW ENQ \in BOOLEAN, NEW DEQ \in BOOLEAN,
             NEW d \in Elements, Reset(CLR, ENQ, DEQ, d)
      PROVE  IInv'
    BY <1>1, <1>t DEF IInv, TypeOK, RingInv, Reset, Emptied, WriteDOut, WriteArr
<1>2. CASE Clear
    BY <1>2, <1>t DEF IInv, TypeOK, RingInv, Clear, Emptied
<1>3. CASE DeqLast
    BY <1>3, <1>t DEF IInv, TypeOK, RingInv, DeqLast
<1>4. CASE DeqRing
    <2>1. TypeOK'
        BY <1>4, <1>t DEF IInv, TypeOK, RingInv, DeqRing
    <2>2. RingInv'
        BY <1>4, <1>t DEF IInv, TypeOK, RingInv, DeqRing
    <2>. QED BY <2>1, <2>2 DEF IInv
<1>5. ASSUME NEW d \in Elements, EnqFirst(d) PROVE IInv'
    BY <1>5, <1>t DEF IInv, TypeOK, RingInv, EnqFirst
<1>6. ASSUME NEW d \in Elements, EnqRing(d) PROVE IInv'
    <2>1. TypeOK'
        BY <1>6, <1>t DEF IInv, TypeOK, RingInv, EnqRing
    <2>2. RingInv'
        BY <1>6, <1>t DEF IInv, TypeOK, RingInv, EnqRing
    <2>. QED BY <2>1, <2>2 DEF IInv
<1>7. CASE EnqOverflow \/ UNCHANGED fifovars
    BY <1>7 DEF IInv, TypeOK, RingInv, EnqOverflow, fifovars
<1>8. ASSUME NEW d \in Elements, EnqDeq(d) PROVE IInv'
    <2>1. TypeOK'
        BY <1>8, <1>t DEF IInv, TypeOK, RingInv, EnqDeq, WriteDOut, WriteArr
    <2>2. RingInv'
        BY <1>8, <1>t DEF IInv, TypeOK, RingInv, EnqDeq, Slots, p2depth2
    <2>. QED BY <2>1, <2>2 DEF IInv
<1>. QED
    BY <1>1, <1>2, <1>3, <1>4, <1>5, <1>6, <1>7, <1>8 DEF FifoNext, Enq, Deq

(***************************************************************************)
(* Type correctness and consistency of the flags with the pointers, for    *)
(* every depth, width and set of data.                                     *)
(***************************************************************************)
THEOREM TypeCorrect == FifoSpec => [](TypeOK /\ RingInv)
<1>1. FifoInit => IInv
    <2>1. 0 \in Slots
        BY DepthAssumption DEF Slots, p2depth2
    <2>. QED
        BY <2>1, Zenon DEF FifoInit, IInv, TypeOK, RingInv
<1>. QED
    BY <1>1, IInvStep, PTL DEF FifoSpec, IInv

-----------------------------------------------------------------------------
(***************************************************************************)
(* The ring's length fits the ring, and its flags say when it is 0 and     *)
(* when it is the whole ring.                                              *)
(***************************************************************************)
LEMMA RingLenBounds ==
    IInv => /\ RingLen \in 0 .. p2depth - 1
            /\ RingLen = 0 <=> ring_empty
            /\ RingLen = p2depth - 1 <=> ~not_ring_full
<1>. SUFFICES ASSUME IInv
     PROVE  /\ RingLen \in 0 .. p2depth - 1
            /\ RingLen = 0 <=> ring_empty
            /\ RingLen = p2depth - 1 <=> ~not_ring_full
    OBVIOUS
<1>1. head \in Int /\ tail \in Int /\ 0 <= head /\ head <= p2depth - 2
      /\ 0 <= tail /\ tail <= p2depth - 2
    BY DepthAssumption DEF IInv, TypeOK, Slots, p2depth2
<1>2. CASE ring_empty
    BY <1>1, <1>2, DepthAssumption DEF IInv, RingInv, RingLen
<1>3. CASE ~ring_empty
    BY <1>1, <1>3, DepthAssumption DEF IInv, RingInv, RingLen
<1>. QED BY <1>2, <1>3

\* The abstract queue as a sequence of data, element by element.
Shape ==
    /\ Contents \in Seq(Elements)
    /\ Len(Contents) = IF hasodata THEN RingLen + 1 ELSE 0
    /\ \A i \in 1 .. Len(Contents) :
          Contents[i] = IF i = 1 THEN D_OUT ELSE arr[RingSlot(i - 2)]

(***************************************************************************)
(* Contents is the output register followed by the ring.                   *)
(***************************************************************************)
LEMMA ContentsShape == IInv => Shape
<1>. SUFFICES ASSUME IInv PROVE Shape
    OBVIOUS
<1>1. RingLen \in 0 .. p2depth - 1
    BY RingLenBounds
<1>2. CASE ~hasodata
    BY <1>2 DEF Contents, Shape
<1>3. CASE hasodata
    <2>1. \A i \in 2 .. RingLen + 1 : RingSlot(i - 2) \in Slots
        BY <1>1, DepthAssumption DEF IInv, TypeOK, RingSlot, Slots, p2depth2
    <2>2. \A i \in 1 .. RingLen + 1 :
            (IF i = 1 THEN D_OUT ELSE arr[RingSlot(i - 2)]) \in Elements
        BY <1>1, <2>1 DEF IInv, TypeOK
    <2>3. Contents = [i \in 1 .. RingLen + 1 |->
                        IF i = 1 THEN D_OUT ELSE arr[RingSlot(i - 2)]]
        BY <1>3 DEF Contents
    <2>4. RingLen + 1 \in Nat
        BY <1>1, DepthAssumption
    <2>. QED
        BY <1>3, <2>2, <2>3, <2>4 DEF Shape
<1>. QED BY <1>2, <1>3

(***************************************************************************)
(* FULL_N and EMPTY_N tell the truth about the queue, for every depth.     *)
(***************************************************************************)
THEOREM FlagsCorrect == FifoSpec => []FlagsAgree
<1>1. IInv => FlagsAgree
    <2>. SUFFICES ASSUME IInv PROVE FlagsAgree
        OBVIOUS
    <2>1. hasodata => Contents # << >>
        BY ContentsShape, RingLenBounds, DepthAssumption DEF Shape
    <2>2. ~hasodata => Contents = << >>
        BY DEF Contents
    <2>3. FULL_N <=> Len(Contents) < p2depth
        BY ContentsShape, RingLenBounds, DepthAssumption
        DEF Shape, FULL_N, IInv, RingInv, TypeOK
    <2>. QED BY <2>1, <2>2, <2>3 DEF FlagsAgree, EMPTY_N
<1>. QED
    BY <1>1, TypeCorrect, PTL DEF IInv

-----------------------------------------------------------------------------
(***************************************************************************)
(* Sequences of equal length and equal elements are equal.                 *)
(***************************************************************************)
LEMMA SequencesEqual ==
    ASSUME NEW S, NEW s \in Seq(S), NEW t \in Seq(S), Len(s) = Len(t),
           \A i \in 1 .. Len(s) : s[i] = t[i]
    PROVE  s = t
    OBVIOUS

(***************************************************************************)
(* A dequeue that refills the output register removes the first element.   *)
(***************************************************************************)
LEMMA DeqRingTail == IInv /\ IInv' /\ DeqRing => Contents' = Tail(Contents)
<1>. SUFFICES ASSUME IInv, IInv', DeqRing PROVE Contents' = Tail(Contents)
    OBVIOUS
<1>. USE DepthAssumption
<1>1. /\ NextPtr(head) = IF head = p2depth2 THEN 0 ELSE head + 1
      /\ head \in Slots /\ tail \in Slots
    BY NextPtrValue DEF IInv, TypeOK
<1>2. /\ Contents \in Seq(Elements)
      /\ Len(Contents) = RingLen + 1
      /\ \A i \in 1 .. Len(Contents) :
            Contents[i] = IF i = 1 THEN D_OUT ELSE arr[RingSlot(i - 2)]
    BY ContentsShape DEF Shape, IInv, RingInv, DeqRing
<1>3. /\ Contents' \in Seq(Elements)
      /\ Len(Contents') = RingLen' + 1
      /\ \A i \in 1 .. Len(Contents') :
            Contents'[i] = IF i = 1 THEN D_OUT' ELSE arr'[RingSlot(i - 2)']
    <2>1. hasodata'
        BY DEF IInv, RingInv, DeqRing
    <2>2. Shape'
        BY ContentsShape, PTL
    <2>. QED BY <2>1, <2>2 DEF Shape
<1>4. RingLen' = RingLen - 1 /\ RingLen \in 1 .. p2depth - 1
    BY <1>1, RingLenBounds DEF RingLen, DeqRing, IInv, RingInv, Slots, p2depth2
<1>5. Tail(Contents) \in Seq(Elements) /\ Len(Tail(Contents)) = RingLen
    BY <1>2, <1>4
<1>6. \A i \in 1 .. RingLen : Tail(Contents)[i] = Contents[i + 1]
    BY <1>2, <1>4
<1>7. \A i \in 1 .. RingLen : Contents'[i] = Contents[i + 1]
    <2>. SUFFICES ASSUME NEW i \in 1 .. RingLen
                  PROVE  Contents'[i] = Contents[i + 1]
        OBVIOUS
    <2>1. CASE i = 1
        BY <2>1, <1>1, <1>2, <1>3, <1>4
        DEF DeqRing, RingSlot, Slots, p2depth2
    <2>2. CASE i # 1
        <3>1. RingSlot(i - 2)' = RingSlot((i + 1) - 2)
            BY <2>2, <1>1, <1>4 DEF DeqRing, RingSlot, Slots, p2depth2
        <3>2. Contents'[i] = arr[RingSlot(i - 2)']
            BY <2>2, <1>3, <1>4 DEF DeqRing
        <3>3. Contents[i + 1] = arr[RingSlot((i + 1) - 2)]
            BY <2>2, <1>2, <1>4
        <3>. QED BY <3>1, <3>2, <3>3
    <2>. QED BY <2>1, <2>2
<1>. QED
    BY <1>3, <1>4, <1>5, <1>6, <1>7, SequencesEqual

(***************************************************************************)
(* An enqueue into the ring appends.                                       *)
(***************************************************************************)
LEMMA EnqRingAppend ==
    ASSUME IInv, IInv', NEW d \in Elements, EnqRing(d)
    PROVE  Contents' = Append(Contents, d) /\ Len(Contents) < p2depth
<1>. USE DepthAssumption
<1>1. /\ NextPtr(tail) = IF tail = p2depth2 THEN 0 ELSE tail + 1
      /\ head \in Slots /\ tail \in Slots
    BY NextPtrValue DEF IInv, TypeOK
<1>2. /\ Contents \in Seq(Elements)
      /\ Len(Contents) = RingLen + 1
      /\ \A i \in 1 .. Len(Contents) :
            Contents[i] = IF i = 1 THEN D_OUT ELSE arr[RingSlot(i - 2)]
    BY ContentsShape DEF Shape, EnqRing
<1>3. /\ Contents' \in Seq(Elements)
      /\ Len(Contents') = RingLen' + 1
      /\ \A i \in 1 .. Len(Contents') :
            Contents'[i] = IF i = 1 THEN D_OUT' ELSE arr'[RingSlot(i - 2)']
    <2>1. hasodata'
        BY DEF EnqRing
    <2>2. Shape'
        BY ContentsShape, PTL
    <2>. QED BY <2>1, <2>2 DEF Shape
<1>4. RingLen' = RingLen + 1 /\ RingLen \in 0 .. p2depth - 2
    BY <1>1, RingLenBounds
    DEF RingLen, EnqRing, IInv, RingInv, TypeOK, Slots, p2depth2
<1>5. \A i \in 1 .. RingLen + 1 : Contents'[i] = Contents[i]
    <2>. SUFFICES ASSUME NEW i \in 1 .. RingLen + 1
                  PROVE  Contents'[i] = Contents[i]
        OBVIOUS
    <2>1. CASE i = 1
        BY <2>1, <1>2, <1>3, <1>4 DEF EnqRing
    <2>2. CASE i # 1
        <3>1. RingSlot(i - 2)' = RingSlot(i - 2)
            BY DEF EnqRing, RingSlot
        <3>2. RingSlot(i - 2) # tail /\ RingSlot(i - 2) \in Slots
            BY <2>2, <1>1, <1>4
            DEF IInv, RingInv, RingLen, RingSlot, EnqRing, Slots, p2depth2
        <3>3. arr'[RingSlot(i - 2)] = arr[RingSlot(i - 2)]
            BY <3>2 DEF EnqRing, IInv, TypeOK
        <3>. QED BY <2>2, <3>1, <3>3, <1>2, <1>3, <1>4
    <2>. QED BY <2>1, <2>2
<1>6. Contents'[RingLen + 2] = d
    <2>1. PICK n \in Nat : n = RingLen + 2
        BY <1>4
    <2>2. RingSlot(n - 2)' = tail
        BY <1>1, <1>4, <2>1
        DEF IInv, RingInv, RingLen, RingSlot, EnqRing, Slots, p2depth2
    <2>3. arr'[tail] = d
        BY <1>1 DEF EnqRing, IInv, TypeOK
    <2>4. Contents'[n] = arr'[RingSlot(n - 2)']
        BY <1>3, <1>4, <2>1
    <2>. QED BY <2>1, <2>2, <2>3, <2>4
<1>7. /\ Append(Contents, d) \in Seq(Elements)
      /\ Len(Append(Contents, d)) = RingLen + 2
      /\ \A i \in 1 .. RingLen + 1 : Append(Contents, d)[i] = Contents[i]
      /\ Append(Contents, d)[RingLen + 2] = d
    BY <1>2, <1>4
<1>8. \A i \in 1 .. Len(Contents') : Contents'[i] = Append(Contents, d)[i]
    BY <1>3, <1>4, <1>5, <1>6, <1>7
<1>. QED
    BY <1>2, <1>3, <1>4, <1>7, <1>8, SequencesEqual

(***************************************************************************)
(* A simultaneous enqueue and dequeue drops the first element and appends, *)
(* also when the ring is full.                                             *)
(***************************************************************************)
LEMMA EnqDeqRotates ==
    ASSUME IInv, IInv', NEW d \in Elements, EnqDeq(d), hasodata
    PROVE  Contents' = Append(Tail(Contents), d)
<1>. USE DepthAssumption
<1>1. /\ NextPtr(head) = IF head = p2depth2 THEN 0 ELSE head + 1
      /\ NextPtr(tail) = IF tail = p2depth2 THEN 0 ELSE tail + 1
      /\ head \in Slots /\ tail \in Slots
    BY NextPtrValue DEF IInv, TypeOK
<1>2. /\ Contents \in Seq(Elements)
      /\ Len(Contents) = RingLen + 1
      /\ \A i \in 1 .. Len(Contents) :
            Contents[i] = IF i = 1 THEN D_OUT ELSE arr[RingSlot(i - 2)]
    BY ContentsShape DEF Shape
<1>3. /\ Contents' \in Seq(Elements)
      /\ Len(Contents') = RingLen' + 1
      /\ \A i \in 1 .. Len(Contents') :
            Contents'[i] = IF i = 1 THEN D_OUT' ELSE arr'[RingSlot(i - 2)']
    <2>1. hasodata'
        BY DEF EnqDeq
    <2>2. Shape'
        BY ContentsShape, PTL
    <2>. QED BY <2>1, <2>2 DEF Shape
<1>4. RingLen' = RingLen /\ RingLen \in 0 .. p2depth - 1
    <2>1. CASE ring_empty
        BY <2>1, RingLenBounds DEF RingLen, EnqDeq
    <2>2. CASE ~ring_empty
        <3>1. head' = NextPtr(head) /\ tail' = NextPtr(tail) /\ ~ring_empty'
            BY <2>2 DEF EnqDeq
        <3>2. head \in Int /\ tail \in Int /\ 0 <= head /\ head <= p2depth - 2
              /\ 0 <= tail /\ tail <= p2depth - 2
            BY <1>1 DEF Slots, p2depth2
        <3>3. RingLen' = RingLen
            BY <1>1, <2>2, <3>1, <3>2 DEF RingLen, p2depth2
        <3>. QED BY <3>3, RingLenBounds
    <2>. QED BY <2>1, <2>2
<1>5. /\ Append(Tail(Contents), d) \in Seq(Elements)
      /\ Len(Append(Tail(Contents), d)) = RingLen + 1
      /\ \A i \in 1 .. RingLen :
            Append(Tail(Contents), d)[i] = Contents[i + 1]
      /\ Append(Tail(Contents), d)[RingLen + 1] = d
    BY <1>2, <1>4
<1>6. CASE ring_empty
    <2>1. RingLen = 0
        BY <1>6, RingLenBounds
    <2>2. Contents'[1] = d
        BY <1>3, <1>4, <1>6, <2>1 DEF EnqDeq, WriteDOut
    <2>3. \A i \in 1 .. Len(Contents') :
            Contents'[i] = Append(Tail(Contents), d)[i]
        BY <1>3, <1>4, <1>5, <2>1, <2>2
    <2>. QED BY <1>3, <1>4, <1>5, <2>3, SequencesEqual
<1>7. CASE ~ring_empty
    <2>1. RingLen \in 1 .. p2depth - 1
        BY <1>4, <1>7, RingLenBounds
    <2>2. /\ head' = NextPtr(head) /\ D_OUT' = arr[head]
          /\ arr' = [arr EXCEPT ![tail] = d]
        BY <1>7 DEF EnqDeq, WriteDOut, WriteArr
    <2>3. Contents'[1] = Contents[2]
        BY <1>1, <1>2, <1>3, <1>4, <2>1, <2>2 DEF RingSlot, Slots, p2depth2
    <2>4. \A i \in 2 .. RingLen : Contents'[i] = Contents[i + 1]
        <3>. SUFFICES ASSUME NEW i \in 2 .. RingLen
                      PROVE  Contents'[i] = Contents[i + 1]
            OBVIOUS
        <3>1. RingSlot(i - 2)' = RingSlot((i + 1) - 2)
            BY <1>1, <2>1, <2>2 DEF RingSlot, Slots, p2depth2
        <3>2. RingSlot((i + 1) - 2) # tail /\ RingSlot((i + 1) - 2) \in Slots
            BY <1>1, <1>4, <1>7, <2>1
            DEF IInv, RingInv, RingLen, RingSlot, Slots, p2depth2
        <3>3. arr'[RingSlot((i + 1) - 2)] = arr[RingSlot((i + 1) - 2)]
            BY <2>2, <3>2 DEF IInv, TypeOK
        <3>4. Contents'[i] = arr'[RingSlot(i - 2)']
            BY <1>3, <1>4, <2>1
        <3>5. Contents[i + 1] = arr[RingSlot((i + 1) - 2)]
            BY <1>2, <1>4, <2>1
        <3>. QED BY <3>1, <3>3, <3>4, <3>5
    <2>5. Contents'[RingLen + 1] = d
        <3>1. PICK n \in Nat : n = RingLen + 1
            BY <1>4
        <3>2. RingSlot(n - 2)' = tail
            BY <1>1, <1>4, <1>7, <2>1, <2>2, <3>1
            DEF IInv, RingInv, RingLen, RingSlot, Slots, p2depth2
        <3>3. arr'[tail] = d
            BY <1>1, <2>2 DEF IInv, TypeOK
        <3>4. Contents'[n] = arr'[RingSlot(n - 2)']
            BY <1>3, <1>4, <2>1, <3>1
        <3>. QED BY <3>1, <3>2, <3>3, <3>4
    <2>6. \A i \in 1 .. Len(Contents') :
            Contents'[i] = Append(Tail(Contents), d)[i]
        BY <1>3, <1>4, <1>5, <2>1, <2>3, <2>4, <2>5
    <2>. QED BY <1>3, <1>4, <1>5, <2>6, SequencesEqual
<1>. QED BY <1>6, <1>7

(***************************************************************************)
(* The circuit implements a bounded queue: whatever the inputs of a cycle, *)
(* the abstract queue takes one of its steps or does not change.           *)
(***************************************************************************)
THEOREM Refinement == FifoSpec => ImplementsQueue
<1>1. FifoInit => Queue!Init
    BY DEF FifoInit, Queue!Init, Contents
<1>2. IInv /\ IInv' /\ [FifoNext]_fifovars => [Queue!Next]_Contents
    <2>. SUFFICES ASSUME IInv, IInv', [FifoNext]_fifovars PROVE [Queue!Next]_Contents
        OBVIOUS
    <2>1. ASSUME ~hasodata' PROVE Contents' = << >>
        BY <2>1 DEF Contents
    <2>2. CASE \E CLR, ENQ, DEQ \in BOOLEAN, d \in Elements : Reset(CLR, ENQ, DEQ, d)
        <3>1. Queue!Clear
            BY <2>1, <2>2 DEF Reset, Emptied, Queue!Clear
        <3>. QED BY <3>1 DEF Queue!Next
    <2>3. CASE Clear
        <3>1. Queue!Clear
            BY <2>1, <2>3 DEF Clear, Emptied, Queue!Clear
        <3>. QED BY <3>1 DEF Queue!Next
    <2>4. CASE DeqLast
        <3>1. Queue!Clear
            BY <2>1, <2>4 DEF DeqLast, Queue!Clear
        <3>. QED BY <3>1 DEF Queue!Next
    <2>5. CASE DeqRing
        <3>1. Contents # << >>
            BY <2>5, ContentsShape, RingLenBounds, DepthAssumption
            DEF Shape, DeqRing, IInv, RingInv
        <3>2. Queue!Deq
            BY <2>5, <3>1, DeqRingTail DEF Queue!Deq
        <3>. QED BY <3>2 DEF Queue!Next
    <2>6. ASSUME NEW d \in Elements, EnqFirst(d) PROVE [Queue!Next]_Contents
        <3>1. Contents = << >>
            BY <2>6 DEF EnqFirst, Contents
        <3>2. RingLen' = 0 /\ hasodata' /\ D_OUT' = d
            BY <2>6 DEF EnqFirst, IInv, RingInv, RingLen
        <3>3. Contents' \in Seq(Elements) /\ Len(Contents') = 1 /\ Contents'[1] = d
            <4>1. Shape'
                BY ContentsShape, PTL
            <4>. QED BY <4>1, <3>2 DEF Shape
        <3>4. Append(<< >>, d) \in Seq(Elements) /\ Len(Append(<< >>, d)) = 1
              /\ Append(<< >>, d)[1] = d
            OBVIOUS
        <3>5. Contents' = Append(Contents, d)
            BY <3>1, <3>3, <3>4, SequencesEqual
        <3>6. Queue!Enq(d)
            BY <3>1, <3>5, DepthAssumption DEF Queue!Enq
        <3>. QED BY <3>6 DEF Queue!Next
    <2>7. ASSUME NEW d \in Elements, EnqRing(d) PROVE [Queue!Next]_Contents
        <3>1. Queue!Enq(d)
            BY <2>7, EnqRingAppend DEF Queue!Enq
        <3>. QED BY <3>1 DEF Queue!Next
    <2>8. CASE EnqOverflow \/ UNCHANGED fifovars
        <3>1. /\ head' = head /\ tail' = tail /\ D_OUT' = D_OUT /\ arr' = arr
              /\ ring_empty' = ring_empty /\ hasodata' = hasodata
            BY <2>8 DEF EnqOverflow, fifovars
        <3>2. RingLen' = RingLen
            BY <3>1 DEF RingLen
        <3>3. \A i : RingSlot(i - 2)' = RingSlot(i - 2)
            BY <3>1 DEF RingSlot
        <3>4. Contents' = Contents
            BY <3>1, <3>2, <3>3, Zenon DEF Contents
        <3>. QED BY <3>4
    <2>9. ASSUME NEW d \in Elements, EnqDeq(d) PROVE [Queue!Next]_Contents
        <3>1. CASE hasodata
            <4>1. Contents # << >>
                BY <3>1, ContentsShape, RingLenBounds, DepthAssumption DEF Shape
            <4>2. Queue!EnqDeq(d)
                BY <2>9, <3>1, <4>1, EnqDeqRotates DEF Queue!EnqDeq
            <4>. QED BY <4>2 DEF Queue!Next
        <3>2. CASE ~hasodata
            BY <2>9, <3>2 DEF EnqDeq, Contents
        <3>. QED BY <3>1, <3>2
    <2>. QED
        BY <2>2, <2>3, <2>4, <2>5, <2>6, <2>7, <2>8, <2>9 DEF FifoNext, Enq, Deq
<1>3. FifoSpec => []IInv
    BY TypeCorrect, PTL DEF IInv
<1>. QED
    BY <1>1, <1>2, <1>3, PTL DEF FifoSpec, ImplementsQueue, Queue!Spec

(***************************************************************************)
(* An element offered together with a dequeue, when neither warning of     *)
(* error_checks is raised, becomes the last of the queue and nothing else  *)
(* is lost: on a full FIFO and on one that holds a single element too.     *)
(***************************************************************************)
THEOREM EnqDeqKeeps == FifoSpec => UnwarnedEnqDeqKeeps
<1>1. ASSUME IInv, IInv', NEW d \in Elements, EnqDeq(d), ~deqerror(TRUE)
      PROVE  Contents' = Append(Tail(Contents), d)
    <2>1. hasodata
        BY <1>1 DEF deqerror, EMPTY_N
    <2>. QED BY <1>1, <2>1, EnqDeqRotates
<1>2. IInv /\ IInv' /\ [FifoNext]_fifovars =>
         [\A d \in Elements :
             EnqDeq(d) /\ ~deqerror(TRUE) /\ ~enqerror(TRUE, TRUE)
               => Contents' = Append(Tail(Contents), d)]_fifovars
    BY <1>1
<1>3. FifoSpec => []IInv
    BY TypeCorrect, PTL DEF IInv
<1>. QED BY <1>2, <1>3, PTL DEF FifoSpec, UnwarnedEnqDeqKeeps

-----------------------------------------------------------------------------
(***************************************************************************)
(* AxiCtrl and its master.                                                 *)
(***************************************************************************)
TypeInv ==
    /\ AXI_PROTOCOL \in {"AXI4", "AXI4LITE"} /\ READ_ONLY \in BOOLEAN
    /\ arlen_reg \in Nat /\ araddr_reg \in Addr /\ awaddr_reg \in Addr
    /\ wlast_reg \in BOOLEAN /\ wen_reg \in [{0, 1} -> BOOLEAN]
    /\ arvalid_reg \in BOOLEAN /\ wvalid_reg \in BOOLEAN
    /\ mem \in [Addr -> Data] /\ dout \in Data
    /\ owed \in Nat

(***************************************************************************)
(* Reads: the word of the next beat is at the RAM's output, those of the   *)
(* beats after it are at the addresses that follow the address register;   *)
(* only a read-only AXI4 controller has beats after it.                    *)
(***************************************************************************)
Beat(i) == IF i = 1 THEN dout ELSE mem[(araddr_reg + i - 2) % AddrSize]

ReadInv ==
    /\ expect = [i \in 1 .. Len(expect) |-> Beat(i)] /\ Len(expect) \in Nat
    /\ Lite => Len(expect) = (IF arvalid_reg THEN 1 ELSE 0)
    /\ ~Lite => Len(expect) = arlen_reg
    /\ Lite \/ ~READ_ONLY => Len(expect) <= 1

(***************************************************************************)
(* Writes: what the master has sent of a write whose data is still to come *)
(* is what the controller remembers of it.                                 *)
(***************************************************************************)
WriteInv ==
    /\ mem = want
    /\ pendAw = IF ~Lite /\ ~READ_ONLY /\ wen_reg[0] THEN <<awaddr_reg>>
                ELSE << >>
    /\ owed = IF bvalid THEN 1 ELSE 0
    /\ READ_ONLY => ~wlast_reg /\ ~wvalid_reg

CtrlInv == TypeInv /\ ReadInv /\ WriteInv

\* What a write of this cycle is meant for, and what the master does.
Target(in) == IF in.awvalid THEN in.awaddr ELSE Head(pendAw)

Drives(in) ==
    /\ Master(in)
    /\ Cycle(in)
    /\ want' = IF in.wvalid THEN [want EXCEPT ![Target(in)] = in.wdata] ELSE want
    /\ pendAw' = IF in.wvalid THEN << >>
                 ELSE IF in.awvalid THEN <<in.awaddr>> ELSE pendAw
    /\ expect' = IF in.arvalid THEN Burst(in)
                 ELSE IF expect # << >> THEN Tail(expect) ELSE << >>
    /\ owed' = owed + (IF in.wvalid THEN 1 ELSE 0)
                    - (IF bvalid /\ in.bready THEN 1 ELSE 0)

-----------------------------------------------------------------------------
(***************************************************************************)
(* Addresses that wrap around.                                             *)
(***************************************************************************)
LEMMA Wrap ==
    ASSUME NEW A \in Nat \ {0}, NEW k \in Nat
    PROVE  (A + k) % A = k % A
<1>1. (A + k) \div A = 1 + (k \div A) /\ k \div A \in Nat
    OBVIOUS
<1>2. k = A * (k \div A) + (k % A)
    OBVIOUS
<1>3. A + k = A * ((A + k) \div A) + ((A + k) % A)
    OBVIOUS
<1>4. A * (1 + (k \div A)) = A + A * (k \div A)
    BY <1>1
<1>5. (A + k) % A \in Int /\ k % A \in Int /\ A * (k \div A) \in Int
    BY <1>1
<1>. QED BY <1>1, <1>2, <1>3, <1>4, <1>5

LEMMA NextAddress ==
    ASSUME NEW a \in Addr, NEW k \in Nat
    PROVE  /\ a % AddrSize = a
           /\ (a + k) % AddrSize \in Addr
           /\ (a + 1) % AddrSize \in Addr
           /\ (((a + 1) % AddrSize) + k) % AddrSize = (a + 1 + k) % AddrSize
<1>1. AddrSize \in Nat \ {0} /\ a \in 0 .. AddrSize - 1
    BY AxiCtrlAssumption DEF Addr
<1>2. a % AddrSize = a
    BY <1>1
<1>3. (a + 1) % AddrSize \in Addr /\ (a + k) % AddrSize \in Addr
    BY <1>1 DEF Addr
<1>4. CASE a + 1 = AddrSize
    <2>1. (a + 1) % AddrSize = 0
        BY <1>1, <1>4
    <2>2. (AddrSize + k) % AddrSize = k % AddrSize
        BY <1>1, Wrap
    <2>. QED BY <1>1, <1>2, <1>3, <1>4, <2>1, <2>2
<1>5. CASE a + 1 < AddrSize
    <2>1. (a + 1) % AddrSize = a + 1
        BY <1>1, <1>5
    <2>. QED BY <1>2, <1>3, <2>1
<1>. QED BY <1>1, <1>2, <1>3, <1>4, <1>5

-----------------------------------------------------------------------------
(***************************************************************************)
(* What the RAM sees.  It stores a word exactly when the data of a write   *)
(* comes, at the address of that write.                                    *)
(***************************************************************************)
LEMMA Stores ==
    ASSUME ~SplitLite, CtrlInv, NEW in \in Inputs, Drives(in)
    PROVE  /\ in.wvalid => Target(in) \in Addr
           /\ mem' = IF in.wvalid THEN [mem EXCEPT ![Target(in)] = in.wdata]
                     ELSE mem
<1>1. /\ mem' = IF bram_en(in) /\ bram_we(in)
                THEN [mem EXCEPT ![bram_addr(in)] = bram_din(in)] ELSE mem
    BY DEF Drives, Cycle, BRAM
<1>2. /\ in.arvalid \in BOOLEAN /\ in.awvalid \in BOOLEAN /\ in.wvalid \in BOOLEAN
      /\ in.awaddr \in Addr
    BY DEF Inputs
<1>3. /\ ~(in.arvalid /\ (in.awvalid \/ in.wvalid))
      /\ READ_ONLY => ~in.awvalid /\ ~in.wvalid
      /\ in.wvalid => in.awvalid \/ pendAw # << >>
    BY DEF Drives, Master
<1>4. CASE in.wvalid
    <2>1. ~READ_ONLY /\ bram_en(in)
        BY <1>3, <1>4 DEF bram_en
    <2>2. CASE in.awvalid
        BY <1>1, <1>2, <1>4, <2>1, <2>2
        DEF Target, bram_we, bram_addr, bram_din
    <2>3. CASE ~in.awvalid
        <3>1. pendAw = <<awaddr_reg>> /\ ~Lite /\ wen_reg[0]
            BY <1>3, <1>4, <2>3 DEF CtrlInv, WriteInv
        <3>2. Target(in) = awaddr_reg /\ awaddr_reg \in Addr
            BY <2>3, <3>1 DEF Target, CtrlInv, TypeInv
        <3>. QED
            BY <1>1, <1>4, <2>1, <2>3, <3>1, <3>2
            DEF bram_we, bram_addr, bram_din
    <2>. QED BY <1>2, <2>2, <2>3
<1>5. CASE ~in.wvalid
    <2>1. ~(bram_en(in) /\ bram_we(in))
        BY <1>3, <1>5 DEF bram_en, bram_we
    <2>. QED BY <1>1, <1>5, <2>1
<1>. QED BY <1>2, <1>4, <1>5

\* It presents the word a read starts with, and in a burst the next one.
LEMMA Presents ==
    ASSUME CtrlInv, NEW in \in Inputs, Drives(in)
    PROVE  /\ in.arvalid => dout' = mem[in.araddr] /\ mem' = mem
           /\ ~Lite /\ READ_ONLY /\ ~in.arvalid /\ arlen_reg > 1
                => dout' = mem[araddr_reg]
           /\ READ_ONLY => mem' = mem
           /\ dout' \in Data
<1>1. /\ dout' = IF bram_en(in) /\ ~bram_we(in) THEN mem[bram_addr(in)] ELSE dout
      /\ mem' = IF bram_en(in) /\ bram_we(in)
                THEN [mem EXCEPT ![bram_addr(in)] = bram_din(in)] ELSE mem
    BY DEF Drives, Cycle, BRAM
<1>2. /\ ~(in.arvalid /\ (in.awvalid \/ in.wvalid))
      /\ READ_ONLY => ~in.awvalid /\ ~in.wvalid
    BY DEF Drives, Master
<1>3. in.arvalid => bram_en(in) /\ ~bram_we(in) /\ bram_addr(in) = in.araddr
    BY <1>2 DEF bram_en, bram_we, bram_addr
<1>4. READ_ONLY => ~bram_we(in)
    BY DEF bram_we
<1>5. ~Lite /\ READ_ONLY /\ ~in.arvalid /\ arlen_reg > 1
        => bram_en(in) /\ bram_addr(in) = araddr_reg
    BY DEF bram_en, bram_addr
<1>6. bram_addr(in) \in Addr
    BY DEF bram_addr, Inputs, CtrlInv, TypeInv
<1>7. mem \in [Addr -> Data] /\ dout \in Data
    BY DEF CtrlInv, TypeInv
<1>. QED BY <1>1, <1>3, <1>4, <1>5, <1>6, <1>7

-----------------------------------------------------------------------------
(***************************************************************************)
(* The invariant is kept, part by part.                                    *)
(***************************************************************************)
LEMMA WritesStep ==
    ASSUME ~SplitLite, CtrlInv, NEW in \in Inputs, Drives(in)
    PROVE  WriteInv' /\ owed' \in Nat
<1>1. mem' = want'
    BY Stores DEF Drives, CtrlInv, WriteInv
<1>2. /\ in.awvalid \in BOOLEAN /\ in.wvalid \in BOOLEAN /\ in.bready \in BOOLEAN
      /\ wen_reg[0] \in BOOLEAN /\ wlast_reg \in BOOLEAN /\ wvalid_reg \in BOOLEAN
    BY DEF Inputs, CtrlInv, TypeInv
<1>3. UNCHANGED params /\ WriteRegs(in)
    BY DEF Drives, Cycle
<1>4. /\ Lite => in.bready
      /\ READ_ONLY => ~in.awvalid /\ ~in.wvalid
      /\ in.awvalid /\ ~in.wvalid => ~Lite
      /\ pendAw' = IF in.wvalid THEN << >>
                   ELSE IF in.awvalid THEN <<in.awaddr>> ELSE pendAw
    BY DEF Drives, Master
<1>5. pendAw' = IF ~Lite' /\ ~READ_ONLY' /\ wen_reg'[0] THEN <<awaddr_reg'>>
                ELSE << >>
    <2>1. pendAw = IF ~Lite /\ ~READ_ONLY /\ wen_reg[0] THEN <<awaddr_reg>>
                   ELSE << >>
        BY DEF CtrlInv, WriteInv
    <2>2. CASE READ_ONLY \/ Lite
        BY <1>3, <1>4, <2>1, <2>2 DEF params, Lite
    <2>3. CASE ~READ_ONLY /\ ~Lite
        <3>1. awaddr_reg' = IF in.awvalid THEN in.awaddr ELSE awaddr_reg
            BY <1>3, <2>3 DEF WriteRegs
        <3>2. wen_reg'[0] = IF in.awvalid /\ ~in.wvalid THEN TRUE
                            ELSE wen_reg[0] /\ ~in.wvalid
            BY <1>3, <2>3, 0 \in {0, 1}, 0 # 1 DEF WriteRegs
        <3>3. ~READ_ONLY' /\ ~Lite'
            BY <1>3, <2>3 DEF params, Lite
        <3>4. CASE in.wvalid
            BY <1>2, <1>4, <3>2, <3>4
        <3>5. CASE ~in.wvalid /\ in.awvalid
            BY <1>4, <3>1, <3>2, <3>3, <3>5
        <3>6. CASE ~in.wvalid /\ ~in.awvalid
            BY <1>2, <1>4, <2>1, <2>3, <3>1, <3>2, <3>3, <3>6
        <3>. QED BY <3>4, <3>5, <3>6
    <2>. QED BY <2>2, <2>3
<1>6. owed = (IF bvalid THEN 1 ELSE 0) /\ (READ_ONLY => ~bvalid)
    BY DEF CtrlInv, WriteInv, bvalid
<1>7. bvalid' = IF READ_ONLY THEN FALSE
                ELSE IF Lite THEN in.wvalid ELSE (wlast_reg /\ ~in.bready) \/ in.wvalid
    BY <1>2, <1>3 DEF WriteRegs, NextWlast, bvalid, Lite, params, CtrlInv, WriteInv
<1>8. ~Lite /\ ~READ_ONLY => ~(in.wvalid /\ wlast_reg)
    BY DEF Drives, Master, Complaints, FullComplaints
<1>9. owed' = IF bvalid' THEN 1 ELSE 0
    <2>1. owed' = owed + (IF in.wvalid THEN 1 ELSE 0)
                    - (IF bvalid /\ in.bready THEN 1 ELSE 0)
        BY DEF Drives
    <2>2. CASE READ_ONLY
        BY <1>4, <1>6, <1>7, <2>1, <2>2
    <2>3. CASE ~READ_ONLY /\ Lite
        BY <1>4, <1>6, <1>7, <2>1, <2>3
    <2>4. CASE ~READ_ONLY /\ ~Lite
        <3>1. bvalid = wlast_reg
            BY <2>4 DEF bvalid
        <3>2. bvalid' = ((wlast_reg /\ ~in.bready) \/ in.wvalid)
            BY <1>7, <2>4
        <3>. QED BY <1>2, <1>6, <1>8, <2>1, <2>4, <3>1, <3>2
    <2>. QED BY <2>2, <2>3, <2>4
<1>10. READ_ONLY' => ~wlast_reg' /\ ~wvalid_reg'
    BY <1>3 DEF params, WriteRegs, CtrlInv, WriteInv
<1>. QED BY <1>1, <1>5, <1>9, <1>10 DEF WriteInv

LEMMA TypesStep ==
    ASSUME ~SplitLite, CtrlInv, NEW in \in Inputs, Drives(in)
    PROVE  TypeInv'
<1>1. UNCHANGED params /\ ReadRegs(in) /\ WriteRegs(in)
    BY DEF Drives, Cycle
<1>2. /\ in.arvalid \in BOOLEAN /\ in.awvalid \in BOOLEAN /\ in.wvalid \in BOOLEAN
      /\ in.bready \in BOOLEAN /\ in.arlen \in Nat
      /\ in.araddr \in Addr /\ in.awaddr \in Addr /\ in.wdata \in Data
    BY AxiCtrlAssumption DEF Inputs
<1>3. TypeInv
    BY DEF CtrlInv
<1>4. arlen_reg' \in Nat /\ arvalid_reg' \in BOOLEAN
    BY <1>1, <1>2, <1>3 DEF ReadRegs, NextArlen, TypeInv
<1>5. araddr_reg' \in Addr
    <2>1. 0 \in Addr
        BY AxiCtrlAssumption DEF Addr
    <2>2. (in.araddr + 1) % AddrSize \in Addr /\ (araddr_reg + 1) % AddrSize \in Addr
        BY <1>2, <1>3, NextAddress DEF TypeInv
    <2>. QED BY <1>1, <2>1, <2>2 DEF ReadRegs
<1>6. /\ awaddr_reg' \in Addr /\ wlast_reg' \in BOOLEAN /\ wvalid_reg' \in BOOLEAN
      /\ wen_reg' \in [{0, 1} -> BOOLEAN]
    BY <1>1, <1>2, <1>3 DEF WriteRegs, NextWlast, TypeInv
<1>7. mem' \in [Addr -> Data] /\ dout' \in Data
    BY <1>2, <1>3, Stores, Presents DEF TypeInv
<1>8. owed' \in Nat
    BY WritesStep
<1>. QED BY <1>1, <1>3, <1>4, <1>5, <1>6, <1>7, <1>8 DEF TypeInv, params

\* A read that starts: its words are in memory, and stay there for a burst.
LEMMA ReadStarts ==
    ASSUME ~SplitLite, ~BurstsReadWrite, CtrlInv, NEW in \in Inputs, Drives(in),
           in.arvalid
    PROVE  ReadInv'
<1>1. /\ in.araddr \in Addr /\ in.arlen \in Nat /\ AddrSize \in Nat \ {0}
    BY AxiCtrlAssumption DEF Inputs
<1>2. /\ expect' = [i \in 1 .. in.arlen + 1 |-> want[(in.araddr + i - 1) % AddrSize]]
      /\ mem' = mem /\ dout' = mem[in.araddr] /\ want = mem
    BY Presents DEF Drives, Burst, CtrlInv, WriteInv
<1>3. Len(expect') = in.arlen + 1
    BY <1>1, <1>2
<1>4. /\ Lite => in.arlen = 0
      /\ in.arlen > 0 => READ_ONLY
    BY DEF Drives, Master
<1>5. /\ UNCHANGED params
      /\ arlen_reg' = IF Lite THEN 0 ELSE in.arlen + 1
      /\ ~Lite => araddr_reg' = (in.araddr + 1) % AddrSize
      /\ arvalid_reg' = (Lite /\ in.arvalid)
    BY DEF Drives, Cycle, ReadRegs, NextArlen
<1>6. ASSUME NEW i \in 1 .. in.arlen + 1
      PROVE  want[(in.araddr + i - 1) % AddrSize] = Beat(i)'
    <2>1. CASE i = 1
        <3>1. in.araddr + i - 1 = in.araddr
            BY <1>1, <2>1 DEF Addr
        <3>2. in.araddr % AddrSize = in.araddr
            BY <1>1, NextAddress
        <3>. QED BY <1>2, <2>1, <3>1, <3>2 DEF Beat
    <2>2. CASE i # 1
        <3>1. ~Lite /\ i - 2 \in Nat
            BY <1>1, <1>4, <2>2
        <3>2. (((in.araddr + 1) % AddrSize) + (i - 2)) % AddrSize
                = (in.araddr + 1 + (i - 2)) % AddrSize
            BY <1>1, <3>1, NextAddress
        <3>3. in.araddr + 1 + (i - 2) = in.araddr + i - 1
            BY <1>1 DEF Addr
        <3>4. Beat(i)' = mem[(araddr_reg' + i - 2) % AddrSize]
            BY <1>2, <2>2 DEF Beat
        <3>5. araddr_reg' + i - 2 = ((in.araddr + 1) % AddrSize) + (i - 2)
            <4>1. (in.araddr + 1) % AddrSize \in Addr
                BY <1>1, NextAddress
            <4>. QED BY <1>1, <1>5, <3>1, <4>1 DEF Addr
        <3>. QED BY <1>2, <3>2, <3>3, <3>4, <3>5
    <2>. QED BY <2>1, <2>2
<1>7. expect' = [i \in 1 .. Len(expect') |-> Beat(i)']
    BY <1>2, <1>3, <1>6
<1>8. Lite' = Lite /\ READ_ONLY' = READ_ONLY
    BY <1>5 DEF Lite, params
<1>9. /\ Lite => arvalid_reg' /\ Len(expect') = 1
      /\ ~Lite => Len(expect') = arlen_reg'
      /\ ~READ_ONLY => Len(expect') <= 1
      /\ Len(expect') \in Nat
    <2>1. Lite => arvalid_reg' = TRUE
        BY <1>5
    <2>2. Lite => in.arlen + 1 = 1
        BY <1>4
    <2>3. ~READ_ONLY => in.arlen + 1 <= 1
        BY <1>1, <1>4
    <2>4. ~Lite => arlen_reg' = in.arlen + 1
        BY <1>5
    <2>5. in.arlen + 1 \in Nat
        BY <1>1
    <2>. QED BY <1>3, <2>1, <2>2, <2>3, <2>4, <2>5
<1>. QED BY <1>7, <1>8, <1>9 DEF ReadInv

\* A beat is taken: the next one moves to the RAM's output.
LEMMA ReadContinues ==
    ASSUME ~SplitLite, CtrlInv, NEW in \in Inputs, Drives(in), ~in.arvalid
    PROVE  ReadInv'
<1>1. /\ UNCHANGED params
      /\ arlen_reg' = IF Lite THEN 0 ELSE IF arlen_reg > 0 THEN arlen_reg - 1 ELSE 0
      /\ ~Lite => araddr_reg' = (araddr_reg + 1) % AddrSize
      /\ arvalid_reg' = FALSE
      /\ expect' = IF expect # << >> THEN Tail(expect) ELSE << >>
    BY DEF Drives, Cycle, ReadRegs, NextArlen
<1>2. /\ expect = [i \in 1 .. Len(expect) |-> Beat(i)] /\ Len(expect) \in Nat
      /\ Lite => Len(expect) = (IF arvalid_reg THEN 1 ELSE 0)
      /\ ~Lite => Len(expect) = arlen_reg
      /\ Lite \/ ~READ_ONLY => Len(expect) <= 1
    BY DEF CtrlInv, ReadInv
<1>3. /\ araddr_reg \in Addr /\ arlen_reg \in Nat /\ AddrSize \in Nat \ {0}
    BY AxiCtrlAssumption DEF CtrlInv, TypeInv
<1>4. CASE Len(expect) <= 1
    <2>1. expect' = << >>
        BY <1>1, <1>2, <1>4
    <2>2. arlen_reg' = 0
        <3>1. CASE Lite
            BY <1>1, <3>1
        <3>2. CASE ~Lite
            BY <1>1, <1>2, <1>3, <1>4, <3>2
        <3>. QED BY <3>1, <3>2
    <2>3. << >> = [i \in 1 .. 0 |-> Beat(i)'] /\ Len(<< >>) = 0
        OBVIOUS
    <2>4. expect' = [i \in 1 .. Len(expect') |-> Beat(i)'] /\ Len(expect') = 0
        BY <2>1, <2>3
    <2>. QED BY <1>1, <2>2, <2>4 DEF ReadInv
<1>5. CASE Len(expect) > 1
    <2>1. ~Lite /\ READ_ONLY /\ Len(expect) = arlen_reg /\ arlen_reg > 1
        BY <1>2, <1>5
    <2>2. /\ expect' = [i \in 1 .. Len(expect) - 1 |-> expect[i + 1]]
          /\ Len(expect') = Len(expect) - 1
        BY <1>1, <1>2, <1>5
    <2>3. dout' = mem[araddr_reg] /\ mem' = mem
        BY <2>1, Presents
    <2>4. ASSUME NEW i \in 1 .. Len(expect) - 1
          PROVE  expect[i + 1] = Beat(i)'
        <3>1. i + 1 \in 1 .. Len(expect) /\ i + 1 # 1
            BY <1>2
        <3>2. expect[i + 1] = mem[(araddr_reg + (i + 1) - 2) % AddrSize]
            BY <1>2, <3>1 DEF Beat
        <3>3. araddr_reg + (i + 1) - 2 = araddr_reg + i - 1
            BY <1>3 DEF Addr
        <3>4. CASE i = 1
            <4>1. araddr_reg + i - 1 = araddr_reg /\ araddr_reg % AddrSize = araddr_reg
                BY <1>3, <3>4, NextAddress DEF Addr
            <4>. QED BY <2>3, <3>2, <3>3, <3>4, <4>1 DEF Beat
        <3>5. CASE i # 1
            <4>1. i - 2 \in Nat
                BY <1>2, <3>5
            <4>2. (((araddr_reg + 1) % AddrSize) + (i - 2)) % AddrSize
                    = (araddr_reg + 1 + (i - 2)) % AddrSize
                BY <1>3, <4>1, NextAddress
            <4>3. araddr_reg + 1 + (i - 2) = araddr_reg + i - 1
                BY <1>3 DEF Addr
            <4>4. araddr_reg' + i - 2 = ((araddr_reg + 1) % AddrSize) + (i - 2)
                <5>1. (araddr_reg + 1) % AddrSize \in Addr
                    BY <1>3, NextAddress
                <5>. QED BY <1>1, <1>3, <2>1, <4>1, <5>1 DEF Addr
            <4>5. Beat(i)' = mem[(araddr_reg' + i - 2) % AddrSize]
                BY <2>3, <3>5 DEF Beat
            <4>. QED BY <3>2, <3>3, <4>2, <4>3, <4>4, <4>5
        <3>. QED BY <3>4, <3>5
    <2>5. expect' = [i \in 1 .. Len(expect') |-> Beat(i)']
        BY <2>2, <2>4
    <2>. QED
        BY <1>1, <1>2, <1>5, <2>1, <2>2, <2>5 DEF ReadInv, Lite, params
<1>. QED BY <1>2, <1>4, <1>5

-----------------------------------------------------------------------------
LEMMA CtrlInvariance ==
    ASSUME ~SplitLite, ~BurstsReadWrite
    PROVE  MCSpec => []CtrlInv
<1>1. MCInit => CtrlInv
    <2>. SUFFICES ASSUME MCInit PROVE CtrlInv
        OBVIOUS
    <2>1. TypeInv
        <3>1. 0 \in Addr
            BY AxiCtrlAssumption DEF Addr
        <3>2. wen_reg \in [{0, 1} -> BOOLEAN]
            BY DEF MCInit, Init
        <3>. QED BY <3>1, <3>2 DEF MCInit, Init, TypeInv
    <2>2. ReadInv
        <3>1. expect = << >> /\ arlen_reg = 0 /\ arvalid_reg = FALSE
            BY DEF MCInit, Init
        <3>2. << >> = [i \in 1 .. 0 |-> Beat(i)] /\ Len(<< >>) = 0
            OBVIOUS
        <3>. QED BY <3>1, <3>2 DEF ReadInv
    <2>3. WriteInv
        BY DEF MCInit, Init, WriteInv, bvalid
    <2>. QED BY <2>1, <2>2, <2>3 DEF CtrlInv
<1>2. CtrlInv /\ [MCNext]_mcvars => CtrlInv'
    <2>. SUFFICES ASSUME CtrlInv, [MCNext]_mcvars PROVE CtrlInv'
        OBVIOUS
    <2>1. ASSUME NEW in \in Inputs, Drives(in) PROVE CtrlInv'
        <3>1. in.arvalid \in BOOLEAN
            BY DEF Inputs
        <3>2. ReadInv'
            BY <2>1, <3>1, ReadStarts, ReadContinues
        <3>. QED BY <2>1, <3>2, WritesStep, TypesStep DEF CtrlInv
    <2>2. CASE MCNext
        <3>1. \E in \in Inputs : Drives(in)
            BY <2>2 DEF MCNext, Drives, Target
        <3>. QED BY <2>1, <3>1
    <2>3. CASE UNCHANGED mcvars
        BY <2>3
        DEF CtrlInv, TypeInv, ReadInv, WriteInv, Beat, Lite, bvalid, mcvars,
            vars, ctrlvars, params
    <2>. QED BY <2>2, <2>3
<1>. QED BY <1>1, <1>2, PTL DEF MCSpec

(***************************************************************************)
(* The assumptions say which master the controller serves: one that asks   *)
(* a read-write controller for single words, and sends a lite write's      *)
(* address and data together.  For such a master:                          *)
(*                                                                         *)
(* a read gets as many beats as it asked for, in the order of the          *)
(* addresses and with the words the completed writes left there;           *)
(***************************************************************************)
THEOREM ReadsRight ==
    ASSUME ~SplitLite, ~BurstsReadWrite
    PROVE  MCSpec => []ReadsReturnMemory
<1>1. CtrlInv => ReadsReturnMemory
    <2>. SUFFICES ASSUME CtrlInv PROVE ReadsReturnMemory
        OBVIOUS
    <2>1. rvalid <=> Len(expect) > 0
        <3>1. CASE Lite
            BY <3>1 DEF CtrlInv, TypeInv, ReadInv, rvalid
        <3>2. CASE ~Lite
            BY <3>2 DEF CtrlInv, ReadInv, rvalid
        <3>. QED BY <3>1, <3>2
    <2>2. Len(expect) \in Nat /\ expect = [i \in 1 .. Len(expect) |-> Beat(i)]
        BY DEF CtrlInv, ReadInv
    <2>3. expect # << >> <=> Len(expect) > 0
        BY <2>2
    <2>4. rvalid => dout = Head(expect)
        BY <2>1, <2>2 DEF Beat
    <2>5. rvalid => (rlast <=> Len(expect) = 1)
        BY <2>1 DEF CtrlInv, ReadInv, rlast
    <2>. QED BY <2>1, <2>3, <2>4, <2>5 DEF ReadsReturnMemory
<1>. QED BY <1>1, CtrlInvariance, PTL

\* a write stores its word at its own address and nowhere else;
THEOREM WritesRight ==
    ASSUME ~SplitLite, ~BurstsReadWrite
    PROVE  MCSpec => []WritesLand
<1>1. CtrlInv => WritesLand
    BY DEF CtrlInv, WriteInv, WritesLand
<1>. QED BY <1>1, CtrlInvariance, PTL

\* a response is offered for as long as a write is not acknowledged.
THEOREM ResponsesRight ==
    ASSUME ~SplitLite, ~BurstsReadWrite
    PROVE  MCSpec => []ResponsesMatchWrites
<1>1. CtrlInv => ResponsesMatchWrites
    BY DEF CtrlInv, TypeInv, WriteInv, ResponsesMatchWrites
<1>. QED BY <1>1, CtrlInvariance, PTL
=============================================================================
