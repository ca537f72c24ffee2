------------------------------ MODULE AXIGate -------------------------------
(***************************************************************************)
(* The gate between the host's control port and the controller             *)
(* (mkAXIGate.v).  A request below threshold is forwarded to the master    *)
(* port at Base plus its address; any other is answered by the gate itself *)
(* with 0.  One step is one clock edge; the eight SizedFIFOs are           *)
(* sequences.  Protection bits are passed through and left out, a response *)
(* is the word read or OKAY.                                               *)
(***************************************************************************)
EXTENDS Integers, Sequences

CONSTANTS RdAddr,      \* addresses the host reads
          WrAddr,      \* addresses the host writes
          Data,        \* words written (with their strobes) and read
          Resp,        \* write responses of the controller's side
          threshold,   \* 0x4000 in every PE (place_tapasco_control.tcl)
          Base,        \* 32'h11000000
          AddrSize,    \* number of addresses, 2^32
          FifoDepth,   \* 8
          None         \* "no transfer" on a channel, an empty register

ASSUME AddrAssumption ==
    /\ AddrSize \in Nat \ {0} /\ Base \in Nat /\ threshold \in Nat
    /\ RdAddr \subseteq 0 .. AddrSize - 1
    /\ WrAddr \subseteq 0 .. AddrSize - 1
    /\ Base + threshold <= AddrSize
ASSUME DataAssumption == 0 \in Data /\ 0 \in Resp
ASSUME FifoAssumption == FifoDepth \in Nat /\ FifoDepth >= 2
ASSUME NoneAssumption == None \notin 0 .. AddrSize - 1 /\ None \notin Data \cup Resp

VARIABLES rd_s_in, rd_m_in, rd_m_out, rd_s_out,
          wr_s_addrIn, wr_s_dataIn, wr_s_in, wr_m_in,
          wr_m_addrOut, wr_m_dataOut, wr_m_out, wr_s_out

rdvars == <<rd_s_in, rd_m_in, rd_m_out, rd_s_out>>
wrvars == <<wr_s_addrIn, wr_s_dataIn, wr_s_in, wr_m_in,
            wr_m_addrOut, wr_m_dataOut, wr_m_out, wr_s_out>>
vars == <<rdvars, wrvars>>

FULL_N(q) == Len(q) < FifoDepth
EMPTY_N(q) == q # << >>

\* A FIFO over one cycle: what is left after the dequeue, then the element
\* enqueued in the same cycle.
Clocked(q, deq, enq, e) ==
    LET left == IF deq THEN Tail(q) ELSE q
    IN  IF enq THEN Append(left, e) ELSE left

\* Mutant: the threshold itself is let through.
Forwards_Inclusive(a) == a <= threshold

Forwards(a) == a < threshold

Translate(a) == (a + Base) % AddrSize

-----------------------------------------------------------------------------
(* Reads.                                                                  *)

readReq == EMPTY_N(rd_s_in) /\ FULL_N(rd_m_in) /\ FULL_N(rd_s_out)

\* Mutant: a forwarded request is answered by the gate as well.
readReqAnswers_All == readReq

readReqAnswers == readReq /\ ~Forwards(Head(rd_s_in))

\* readReq has priority over readRes, even when it does not use rd_s_out.
readRes == FULL_N(rd_s_out) /\ EMPTY_N(rd_m_out) /\ ~readReq

\* ar: address the host offers; arready, r: what the side below offers.
ReadCycle(ar, rready, arready, r) ==
    /\ rd_s_in' = Clocked(rd_s_in, readReq, ar # None /\ FULL_N(rd_s_in), ar)
    /\ rd_m_in' = Clocked(rd_m_in, EMPTY_N(rd_m_in) /\ arready,
                          readReq /\ Forwards(Head(rd_s_in)),
                          Translate(Head(rd_s_in)))
    /\ rd_m_out' = Clocked(rd_m_out, readRes, r # None /\ FULL_N(rd_m_out), r)
    /\ rd_s_out' = Clocked(rd_s_out, EMPTY_N(rd_s_out) /\ rready,
                           readReqAnswers \/ readRes,
                           IF readReqAnswers THEN 0 ELSE Head(rd_m_out))

-----------------------------------------------------------------------------
(* Writes.                                                                 *)

AddrNow(aw) == IF wr_s_addrIn = None THEN aw ELSE wr_s_addrIn
DataNow(w) == IF wr_s_dataIn = None THEN w ELSE wr_s_dataIn

Joins(aw, w) ==
    AddrNow(aw) # None /\ DataNow(w) # None /\ FULL_N(wr_s_in)

writeReq == EMPTY_N(wr_s_in) /\ FULL_N(wr_m_in) /\ FULL_N(wr_s_out)

\* Mutant: writes are posted, acknowledged before the slave has them.
writeReqAnswers_Posted == writeReq

writeReqAnswers == writeReq /\ ~Forwards(Head(wr_s_in).addr)

\* Mutant: an answer from below passes only together with a new request.
writeRes_Inverted == FULL_N(wr_s_out) /\ EMPTY_N(wr_m_out) /\ writeReq

writeRes == FULL_N(wr_s_out) /\ EMPTY_N(wr_m_out) /\ ~writeReq

\* A forwarded write is split again once both halves of the last are gone.
Splits == EMPTY_N(wr_m_in) /\ wr_m_addrOut = None /\ wr_m_dataOut = None

\* The halves visible on the master port in this cycle.
AddrOut == IF Splits THEN Head(wr_m_in).addr ELSE wr_m_addrOut
DataOut == IF Splits THEN Head(wr_m_in).data ELSE wr_m_dataOut

WriteCycle(aw, w, bready, awready, wready, b) ==
    /\ wr_s_addrIn' = IF Joins(aw, w) THEN None ELSE AddrNow(aw)
    /\ wr_s_dataIn' = IF Joins(aw, w) THEN None ELSE DataNow(w)
    /\ wr_s_in' = Clocked(wr_s_in, writeReq, Joins(aw, w),
                          [addr |-> AddrNow(aw), data |-> DataNow(w)])
    /\ wr_m_in' = Clocked(wr_m_in, Splits,
                          writeReq /\ Forwards(Head(wr_s_in).addr),
                          [addr |-> Translate(Head(wr_s_in).addr),
                           data |-> Head(wr_s_in).data])
    /\ wr_m_addrOut' = IF AddrOut # None /\ awready THEN None ELSE AddrOut
    /\ wr_m_dataOut' = IF DataOut # None /\ wready THEN None ELSE DataOut
    /\ wr_m_out' = Clocked(wr_m_out, writeRes, b # None /\ FULL_N(wr_m_out), b)
    /\ wr_s_out' = Clocked(wr_s_out, EMPTY_N(wr_s_out) /\ bready,
                           writeReqAnswers \/ writeRes,
                           IF writeReqAnswers THEN 0 ELSE Head(wr_m_out))

-----------------------------------------------------------------------------
Init ==
    /\ rd_s_in = << >> /\ rd_m_in = << >>
    /\ rd_m_out = << >> /\ rd_s_out = << >>
    /\ wr_s_addrIn = None /\ wr_s_dataIn = None
    /\ wr_s_in = << >> /\ wr_m_in = << >>
    /\ wr_m_addrOut = None /\ wr_m_dataOut = None
    /\ wr_m_out = << >> /\ wr_s_out = << >>

Cycle(ar, rready, arready, r, aw, w, bready, awready, wready, b) ==
    /\ ReadCycle(ar, rready, arready, r)
    /\ WriteCycle(aw, w, bready, awready, wready, b)

\* One clock edge with RST_N low.
Reset ==
    /\ rd_s_in' = << >> /\ rd_m_in' = << >>
    /\ rd_m_out' = << >> /\ rd_s_out' = << >>
    /\ wr_s_addrIn' = None /\ wr_s_dataIn' = None
    /\ wr_s_in' = << >> /\ wr_m_in' = << >>
    /\ wr_m_addrOut' = None /\ wr_m_dataOut' = None
    /\ wr_m_out' = << >> /\ wr_s_out' = << >>

Next ==
    \/ \E ar \in RdAddr \cup {None}, r \in Data \cup {None},
          aw \in WrAddr \cup {None}, w \in Data \cup {None},
          b \in Resp \cup {None},
          rready, arready, bready, awready, wready \in BOOLEAN :
             Cycle(ar, rready, arready, r, aw, w, bready, awready, wready, b)
    \/ Reset

Spec == Init /\ [][Next]_vars

-----------------------------------------------------------------------------
Window == Base .. Base + threshold - 1
=============================================================================
