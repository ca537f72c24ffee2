----------------------------- MODULE SizedFIFO ------------------------------
(***************************************************************************)
(* The FIFO with a fast output register that every Bluespec block of the   *)
(* project is built from (SizedFIFO.v, the same text in Controller,        *)
(* AXIGate and CacheSystem).  The oldest element sits in the register      *)
(* D_OUT, the others in a ring of p2depth - 1 words.  One step is one      *)
(* rising clock edge; RST, CLR, ENQ, DEQ and D_IN are the inputs sampled   *)
(* at that edge.  CounterSize is 2^p3cntr_width, the number of values of   *)
(* the pointers; the comment on the parameter ("log(p2depth-1)") asks for  *)
(* at least p2depth - 1 of them.                                           *)
(***************************************************************************)
EXTENDS Integers, Sequences

CONSTANTS Elements,     \* the words a FIFO can hold
          p2depth,      \* capacity, the output register included
          CounterSize,  \* 2^p3cntr_width
          guarded       \* TRUE: ENQ of a full FIFO is an error even with DEQ

\* parameter_assertions: a smaller depth or width ends the simulation.
ASSUME DepthAssumption == p2depth \in Nat /\ p2depth >= 2
ASSUME WidthAssumption == CounterSize \in Nat /\ CounterSize >= p2depth - 1
ASSUME GuardedAssumption == guarded \in BOOLEAN

VARIABLES head, tail, ring_empty, not_ring_full, hasodata, D_OUT, arr

fifovars == <<head, tail, ring_empty, not_ring_full, hasodata, D_OUT, arr>>

p2depth2 == p2depth - 2

Slots == 0 .. p2depth2

\* The pointers advance in p3cntr_width bits and wrap at the ring's last word.
NextPtr(p) == IF p = p2depth2 THEN 0 ELSE (p + 1) % CounterSize

EMPTY_N == hasodata

FULL_N == not_ring_full

\* The contents of D_OUT and arr are whatever the device powers up with.
FifoInit ==
    /\ head = 0
    /\ tail = 0
    /\ ring_empty = TRUE
    /\ not_ring_full = TRUE
    /\ hasodata = FALSE
    /\ D_OUT \in Elements
    /\ arr \in [Slots -> Elements]

Emptied ==
    /\ head' = 0
    /\ tail' = 0
    /\ ring_empty' = TRUE
    /\ not_ring_full' = TRUE
    /\ hasodata' = FALSE

\* Mutant: the write of a simultaneous ENQ and DEQ is forgotten.
WriteArr_NoEnqDeq(CLR, ENQ, DEQ, D_IN) ==
    arr' = IF ~CLR /\ ENQ /\ ~DEQ /\ hasodata /\ not_ring_full
             THEN [arr EXCEPT ![tail] = D_IN]
             ELSE arr

\* The array of words: written, in reset too, when the new element goes to
\* the ring instead of the output register.
WriteArr(CLR, ENQ, DEQ, D_IN) ==
    arr' = IF /\ ~CLR
              /\ ENQ
              /\ \/ DEQ /\ ~ring_empty
                 \/ ~DEQ /\ hasodata /\ not_ring_full
             THEN [arr EXCEPT ![tail] = D_IN]
             ELSE arr

\* The output register: the next word of the ring, or the incoming element
\* when there is nothing between it and the output.  Not reset.
WriteDOut(CLR, ENQ, DEQ, D_IN) ==
    D_OUT' = IF ~CLR /\ DEQ /\ ~ring_empty
               THEN arr[head]
               ELSE IF ~CLR /\ ENQ /\ (DEQ \/ ~hasodata) THEN D_IN ELSE D_OUT

Reset(CLR, ENQ, DEQ, D_IN) ==
    /\ Emptied
    /\ WriteDOut(CLR, ENQ, DEQ, D_IN)
    /\ WriteArr(CLR, ENQ, DEQ, D_IN)

Clear == Emptied /\ UNCHANGED <<D_OUT, arr>>

EnqDeq(d) ==
    /\ IF ring_empty
         THEN UNCHANGED <<head, tail>>
         ELSE tail' = NextPtr(tail) /\ head' = NextPtr(head)
    /\ UNCHANGED <<ring_empty, not_ring_full, hasodata>>
    /\ WriteDOut(FALSE, TRUE, TRUE, d)
    /\ WriteArr(FALSE, TRUE, TRUE, d)

DeqLast ==
    /\ ring_empty
    /\ hasodata' = FALSE
    /\ UNCHANGED <<head, tail, ring_empty, not_ring_full, D_OUT, arr>>

\* Mutant: the full flag is not released.
DeqRing_KeepsFull ==
    /\ ~ring_empty
    /\ head' = NextPtr(head)
    /\ ring_empty' = (NextPtr(head) = tail)
    /\ D_OUT' = arr[head]
    /\ UNCHANGED <<tail, not_ring_full, hasodata, arr>>

DeqRing ==
    /\ ~ring_empty
    /\ head' = NextPtr(head)
    /\ not_ring_full' = TRUE
    /\ ring_empty' = (NextPtr(head) = tail)
    /\ D_OUT' = arr[head]
    /\ UNCHANGED <<tail, hasodata, arr>>

EnqFirst(d) ==
    /\ ~hasodata
    /\ hasodata' = TRUE
    /\ D_OUT' = d
    /\ UNCHANGED <<head, tail, ring_empty, not_ring_full, arr>>

\* Mutant: "Drop this test to save redundant test".
EnqRing_NoFullTest(d) ==
    /\ hasodata
    /\ tail' = NextPtr(tail)
    /\ ring_empty' = FALSE
    /\ not_ring_full' = (NextPtr(tail) # head)
    /\ arr' = [arr EXCEPT ![tail] = d]
    /\ UNCHANGED <<head, hasodata, D_OUT>>

EnqRing(d) ==
    /\ hasodata
    /\ not_ring_full
    /\ tail' = NextPtr(tail)
    /\ ring_empty' = FALSE
    /\ not_ring_full' = (NextPtr(tail) # head)
    /\ arr' = [arr EXCEPT ![tail] = d]
    /\ UNCHANGED <<head, hasodata, D_OUT>>

\* "with test fifo overflow causes loss of new data"
EnqOverflow ==
    /\ hasodata
    /\ ~not_ring_full
    /\ UNCHANGED fifovars

\* The condition of each warning of the error_checks block.
deqerror(DEQ) == ~EMPTY_N /\ DEQ

enqerror(ENQ, DEQ) == ~FULL_N /\ ENQ /\ (~DEQ \/ guarded)

Enq(d) == EnqFirst(d) \/ EnqRing(d) \/ EnqOverflow

Deq == DeqLast \/ DeqRing

FifoNext ==
    \/ \E CLR, ENQ, DEQ \in BOOLEAN, d \in Elements : Reset(CLR, ENQ, DEQ, d)
    \/ Clear
    \/ Deq
    \/ \E d \in Elements : Enq(d) \/ EnqDeq(d)

FifoSpec == FifoInit /\ [][FifoNext]_fifovars

-----------------------------------------------------------------------------
(***************************************************************************)
(* The abstract queue a state stands for: the output register, then the    *)
(* ring from head to tail.                                                 *)
(***************************************************************************)
RingLen ==
    IF ring_empty THEN 0
    ELSE IF head < tail THEN tail - head
    ELSE tail - head + p2depth - 1

RingSlot(i) ==
    IF head + i <= p2depth2 THEN head + i ELSE head + i - (p2depth - 1)

Contents ==
    IF hasodata
      THEN [i \in 1 .. RingLen + 1 |->
               IF i = 1 THEN D_OUT ELSE arr[RingSlot(i - 2)]]
      ELSE << >>

TypeOK ==
    /\ head \in Slots
    /\ tail \in Slots
    /\ ring_empty \in BOOLEAN
    /\ not_ring_full \in BOOLEAN
    /\ hasodata \in BOOLEAN
    /\ D_OUT \in Elements
    /\ arr \in [Slots -> Elements]

(***************************************************************************)
(* The strengthening that makes the properties below inductive: the ring   *)
(* holds something only behind a valid output register, and when the       *)
(* pointers meet the flags say which of empty and full it is.              *)
(***************************************************************************)
RingInv ==
    /\ ring_empty => head = tail /\ not_ring_full
    /\ ~ring_empty => hasodata
    /\ ~not_ring_full => head = tail
    /\ head = tail => ring_empty \/ ~not_ring_full

(***************************************************************************)
(* The flags FULL_N and EMPTY_N, kept in registers of their own, always    *)
(* agree with what the pointers and the output register hold: FULL_N       *)
(* promises room for one more element and EMPTY_N promises an element at   *)
(* D_OUT.                                                                  *)
(***************************************************************************)
FlagsAgree ==
    /\ FULL_N <=> Len(Contents) < p2depth
    /\ EMPTY_N <=> Contents # << >>

(***************************************************************************)
(* The circuit implements the queue, under every combination of inputs in  *)
(* every cycle, the ones it warns about included.                          *)
(***************************************************************************)
Queue == INSTANCE BoundedQueue WITH queue <- Contents, Capacity <- p2depth

ImplementsQueue == Queue!Spec

(***************************************************************************)
(* An element offered in the same cycle as a dequeue is kept, as the last  *)
(* of the queue, whenever neither warning of error_checks is raised.       *)
(***************************************************************************)
UnwarnedEnqDeqKeeps ==
    [][\A d \in Elements :
          EnqDeq(d) /\ ~deqerror(TRUE) /\ ~enqerror(TRUE, TRUE)
            => Contents' = Append(Tail(Contents), d)]_fifovars
=============================================================================
