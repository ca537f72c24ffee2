---------------------------- MODULE RVController ----------------------------
(***************************************************************************)
(* The register file and job control of a processing element               *)
(* (mkRVController.v).  Host and core reach it over one AXI4-Lite slave    *)
(* port; it holds the core in reset until a job is started, forwards the   *)
(* core's "interrupt acknowledge" write as the interrupt of the PE, and    *)
(* puts the core back in reset GraceCycles later.                          *)
(*                                                                         *)
(* One step is one rising clock edge: every rule whose WILL_FIRE holds     *)
(* fires in it, and every register is assigned from the old state.  The    *)
(* four SizedFIFOs are sequences (SizedFIFO implements BoundedQueue);      *)
(* write responses are all OKAY, so that FIFO is only counted.             *)
(***************************************************************************)
EXTENDS Integers, Sequences

CONSTANTS WrAddr,       \* byte addresses that are written
          RdAddr,       \* byte addresses that are read
          Data,         \* data words that occur on the bus
          WordSize,     \* number of values of a 32-bit word
          CounterSize,  \* number of values of the 64-bit job counter
          GraceCycles,  \* 120
          FifoDepth,    \* 8
          None          \* "no transfer" on a channel, an empty register

ASSUME WordAssumption ==
    WordSize \in Nat \ {0} /\ Data \subseteq 0 .. WordSize - 1 /\ 0 \in Data
ASSUME CounterAssumption == CounterSize \in Nat \ {0}
ASSUME AddrAssumption == WrAddr \subseteq Nat /\ RdAddr \subseteq Nat
ASSUME GraceAssumption == GraceCycles \in Nat /\ GraceCycles >= 2
ASSUME FifoAssumption == FifoDepth \in Nat /\ FifoDepth >= 2
ASSUME NoneAssumption ==
    None \notin WrAddr \cup RdAddr \cup [data : Data, strb : BOOLEAN]

VARIABLES ctrl, rst, rstn, grace, resetBSV, counter, ret, args,
          wr_s_addrIn, wr_s_dataIn, wr_s_in, wr_s_out, rd_s_in, rd_s_out

ctlvars == <<ctrl, rst, rstn, grace, resetBSV, counter, ret, args>>
busvars == <<wr_s_addrIn, wr_s_dataIn, wr_s_in, wr_s_out, rd_s_in, rd_s_out>>
vars == <<ctlvars, busvars>>

\* Register offsets.  A write decodes 16 address bits, a read only 8.
CTRL == \h0
RETL == \h10
RETH == \h14
COUNTER == \h70
COUNTERH == \h74
IAR == \h4000
ArgReg == [i \in 0 .. 4 |-> \h20 + \h10 * i]

WriteOffset(a) == a % \h10000
ReadOffset(a) == a % \h100

WData == [data : Data, strb : BOOLEAN]     \* strb: some byte is enabled
WriteReq == [addr : WrAddr, data : Data, strb : BOOLEAN]

-----------------------------------------------------------------------------
(* Rules: what the WILL_FIRE signals say of the current state.             *)

\* Mutant: a write is performed without room for its response.
handle_write_NoRoom == wr_s_in # << >>

handle_write == wr_s_in # << >> /\ wr_s_out < FifoDepth

req == Head(wr_s_in)

\* An enabled write to the register at this offset is performed now.
Writes(offset) ==
    handle_write /\ req.strb /\ WriteOffset(req.addr) = offset

\* Mutant: the interrupt does not require a started job.
SetsIntr_AnyTime == Writes(IAR) /\ req.data # 0

\* The job-done write; tapasco_intr is high in exactly these cycles.
SetsIntr == Writes(IAR) /\ ctrl /\ req.data # 0

\* Mutant: the core leaves reset without a started job.
handle_start_NoCtrl == rst

handle_start == ctrl /\ rst

graceDown == grace > 1

resetAll == grace = 1 /\ ~handle_write

handle_read == rd_s_in # << >> /\ Len(rd_s_out) < FifoDepth

-----------------------------------------------------------------------------
(* Registers.                                                              *)

UpdateCtrl ==
    ctrl' = IF Writes(CTRL) THEN req.data # 0
            ELSE IF resetAll THEN FALSE ELSE ctrl

\* Mutant: a start does not release the active-low reset.
UpdateReset_StartForgetsRstn ==
    /\ rst' = IF handle_start \/ resetAll THEN resetAll ELSE rst
    /\ rstn' = IF resetAll THEN FALSE ELSE rstn

UpdateReset ==
    /\ rst' = IF handle_start \/ resetAll THEN resetAll ELSE rst
    /\ rstn' = IF handle_start \/ resetAll THEN ~resetAll ELSE rstn

\* Mutant: any write of the acknowledge register starts the grace period.
UpdateGrace_AnyAck ==
    grace' = IF Writes(IAR) THEN GraceCycles
             ELSE IF resetAll THEN 0
             ELSE IF graceDown THEN grace - 1 ELSE grace

UpdateGrace ==
    grace' = IF SetsIntr THEN GraceCycles
             ELSE IF resetAll THEN 0
             ELSE IF graceDown THEN grace - 1 ELSE grace

\* The request to the core's reset server (Piccolo and Flute start on it):
\* raised at a start, dropped when the server takes it (reqEN).
reqEN(reqRDY) == resetBSV /\ reqRDY

UpdateResetBSV(reqRDY) ==
    resetBSV' = IF handle_start THEN TRUE
                ELSE IF reqEN(reqRDY) THEN FALSE ELSE resetBSV

UpdateCounter ==
    counter' = IF handle_start THEN 0
               ELSE IF rstn THEN (counter + 1) % CounterSize
               ELSE counter

\* ret is the pair <<low word, high word>>.
UpdateRet ==
    ret' = IF Writes(RETL) THEN <<req.data, ret[2]>>
           ELSE IF Writes(RETH) THEN <<ret[1], req.data>> ELSE ret

UpdateArgs ==
    args' = [i \in 0 .. 4 |-> IF Writes(ArgReg[i]) THEN req.data ELSE args[i]]

\* The word a read of address a returns; unmapped offsets read 0.
ReadValue(a) ==
    LET o == ReadOffset(a)
    IN  CASE o = CTRL -> IF ctrl THEN 1 ELSE 0
          [] o = RETL -> ret[1]
          [] o = RETH -> ret[2]
          [] o \in {ArgReg[i] : i \in 0 .. 4} ->
                args[CHOOSE i \in 0 .. 4 : ArgReg[i] = o]
          [] o = COUNTER -> counter % WordSize
          [] o = COUNTERH -> counter \div WordSize
          [] OTHER -> 0

-----------------------------------------------------------------------------
(* The AXI4-Lite slave port.                                               *)

\* Each half of a write is taken when its register is free; what the rule
\* that joins the halves sees includes what arrives in this cycle.
AddrNow(aw) == IF wr_s_addrIn = None THEN aw ELSE wr_s_addrIn
DataNow(w) == IF wr_s_dataIn = None THEN w ELSE wr_s_dataIn

Joins(aw, w) ==
    AddrNow(aw) # None /\ DataNow(w) # None /\ Len(wr_s_in) < FifoDepth

Joined(aw, w) ==
    [addr |-> AddrNow(aw), data |-> DataNow(w).data, strb |-> DataNow(w).strb]

Dequeued(q, deq) == IF deq THEN Tail(q) ELSE q

\* Mutant: the joined address is not consumed.
WriteChannel_KeepsAddr(aw, w, bready) ==
    /\ wr_s_addrIn' = AddrNow(aw)
    /\ wr_s_dataIn' = IF Joins(aw, w) THEN None ELSE DataNow(w)
    /\ wr_s_in' = IF Joins(aw, w)
                    THEN Append(Dequeued(wr_s_in, handle_write), Joined(aw, w))
                    ELSE Dequeued(wr_s_in, handle_write)
    /\ wr_s_out' = wr_s_out + (IF handle_write THEN 1 ELSE 0)
                            - (IF wr_s_out > 0 /\ bready THEN 1 ELSE 0)

\* aw, w: what the master offers on the two channels, None when not valid.
WriteChannel(aw, w, bready) ==
    /\ wr_s_addrIn' = IF Joins(aw, w) THEN None ELSE AddrNow(aw)
    /\ wr_s_dataIn' = IF Joins(aw, w) THEN None ELSE DataNow(w)
    /\ wr_s_in' = IF Joins(aw, w)
                    THEN Append(Dequeued(wr_s_in, handle_write), Joined(aw, w))
                    ELSE Dequeued(wr_s_in, handle_write)
    /\ wr_s_out' = wr_s_out + (IF handle_write THEN 1 ELSE 0)
                            - (IF wr_s_out > 0 /\ bready THEN 1 ELSE 0)

ReadChannel(ar, rready) ==
    /\ rd_s_in' = IF ar # None /\ Len(rd_s_in) < FifoDepth
                    THEN Append(Dequeued(rd_s_in, handle_read), ar)
                    ELSE Dequeued(rd_s_in, handle_read)
    /\ LET left == Dequeued(rd_s_out, rd_s_out # << >> /\ rready)
       IN  rd_s_out' = IF handle_read
                         THEN Append(left, ReadValue(Head(rd_s_in)))
                         ELSE left

-----------------------------------------------------------------------------
Init ==
    /\ ctrl = FALSE
    /\ rst = TRUE
    /\ rstn = FALSE
    /\ grace = 0
    /\ resetBSV = FALSE
    /\ counter = 0
    /\ ret = <<0, 0>>
    /\ args = [i \in 0 .. 4 |-> 0]
    /\ wr_s_addrIn = None
    /\ wr_s_dataIn = None
    /\ wr_s_in = << >>
    /\ wr_s_out = 0
    /\ rd_s_in = << >>
    /\ rd_s_out = << >>

\* One clock edge out of reset.
Cycle(aw, w, bready, ar, rready, reqRDY) ==
    /\ UpdateCtrl
    /\ UpdateReset
    /\ UpdateGrace
    /\ UpdateResetBSV(reqRDY)
    /\ UpdateCounter
    /\ UpdateRet
    /\ UpdateArgs
    /\ WriteChannel(aw, w, bready)
    /\ ReadChannel(ar, rready)

\* One clock edge with RST_N low.
Reset ==
    /\ ctrl' = FALSE
    /\ rst' = TRUE
    /\ rstn' = FALSE
    /\ grace' = 0
    /\ resetBSV' = FALSE
    /\ counter' = 0
    /\ ret' = <<0, 0>>
    /\ args' = [i \in 0 .. 4 |-> 0]
    /\ wr_s_addrIn' = None
    /\ wr_s_dataIn' = None
    /\ wr_s_in' = << >>
    /\ wr_s_out' = 0
    /\ rd_s_in' = << >>
    /\ rd_s_out' = << >>

AnyCycle ==
    \E aw \in WrAddr \cup {None}, w \in WData \cup {None},
       ar \in RdAddr \cup {None}, bready, rready, reqRDY \in BOOLEAN :
          Cycle(aw, w, bready, ar, rready, reqRDY)

Next == AnyCycle \/ Reset

Spec == Init /\ [][Next]_vars

-----------------------------------------------------------------------------
TypeOK ==
    /\ ctrl \in BOOLEAN
    /\ rst \in BOOLEAN
    /\ rstn \in BOOLEAN
    /\ grace \in 0 .. GraceCycles
    /\ resetBSV \in BOOLEAN
    /\ counter \in Nat
    /\ ret \in Data \X Data
    /\ args \in [0 .. 4 -> Data]
    /\ wr_s_addrIn \in WrAddr \cup {None}
    /\ wr_s_dataIn \in WData \cup {None}
    /\ wr_s_in \in Seq(WriteReq)
    /\ Len(wr_s_in) <= FifoDepth
    /\ wr_s_out \in 0 .. FifoDepth
    /\ rd_s_in \in Seq(RdAddr)
    /\ Len(rd_s_in) <= FifoDepth
    /\ rd_s_out \in Seq(Nat)
    /\ Len(rd_s_out) <= FifoDepth

(***************************************************************************)
(* The grace period runs only while the core is out of reset, and the two  *)
(* reset outputs never contradict each other.                              *)
(***************************************************************************)
RunInv ==
    /\ rstn = ~rst
    /\ grace > 0 => ~rst

(***************************************************************************)
(* The rule that starts the core and the rule that ends its job never fire *)
(* in the same cycle: rst and rstn have a single writer.  (Were they to    *)
(* meet, the core would stay in reset while the job counter is cleared and *)
(* its reset server is asked to start a job that does not run.)            *)
(***************************************************************************)
StartNeverMeetsReset == ~(handle_start /\ resetAll)

(***************************************************************************)
(* A start is never left pending: a core that has just been put in reset   *)
(* at the end of a job has its start bit cleared, so no job restarts by    *)
(* itself without a new write of the control register.                     *)
(***************************************************************************)
NoSelfRestart == [][~rst /\ rst' => ~ctrl']_vars
=============================================================================
