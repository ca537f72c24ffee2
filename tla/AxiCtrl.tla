------------------------------- MODULE AxiCtrl -------------------------------
(***************************************************************************)
(* The AXI controller of the local BRAMs (axi_ctrl.v), clock cycle by      *)
(* clock cycle, in its AXI4 and AXI4LITE versions, with and without        *)
(* READ_ONLY.  Addresses count words.  The controller never refuses a      *)
(* transfer; it relies on the master instead, and its status bits record a *)
(* master that does what it cannot handle (in simulation that is the end). *)
(* The BRAM is external: enabled, it stores a word or presents the         *)
(* addressed one from the next cycle on; otherwise its output stays.       *)
(***************************************************************************)
EXTENDS Integers, Sequences

CONSTANTS AddrSize,       \* number of word addresses
          Data,           \* words
          MaxLen          \* largest arlen the master uses

ASSUME AxiCtrlAssumption ==
    /\ AddrSize \in Nat \ {0}
    /\ MaxLen \in 0 .. 255

Addr == 0 .. AddrSize - 1

\* What a master drives in a cycle; a write is a single beat (wlast).
Inputs == [arvalid : BOOLEAN, araddr : Addr, arlen : 0 .. MaxLen,
           awvalid : BOOLEAN, awaddr : Addr,
           wvalid : BOOLEAN, wdata : Data, rready : BOOLEAN, bready : BOOLEAN]

VARIABLES AXI_PROTOCOL, READ_ONLY,           \* parameters of the instance
          arlen_reg, araddr_reg,             \* read: beats left, next address
          awaddr_reg, wlast_reg, wdata_reg, wen_reg, write_addr_set,
          arvalid_reg, wvalid_reg,           \* AXI4LITE
          status,                            \* status bits that are set
          mem, dout                          \* BRAM

ctrlvars == <<arlen_reg, araddr_reg, awaddr_reg, wlast_reg, wdata_reg, wen_reg,
              write_addr_set, arvalid_reg, wvalid_reg, status>>
params == <<AXI_PROTOCOL, READ_ONLY>>
vars == <<params, ctrlvars, mem, dout>>

Lite == AXI_PROTOCOL = "AXI4LITE"

\* Any of the four versions; the parameters never change afterwards.
Init ==
    /\ AXI_PROTOCOL \in {"AXI4", "AXI4LITE"}
    /\ READ_ONLY \in BOOLEAN
    /\ arlen_reg = 0
    /\ araddr_reg = 0
    /\ awaddr_reg \in Addr          \* not reset
    /\ wlast_reg = FALSE
    /\ wdata_reg \in Data
    /\ wen_reg = [i \in {0, 1} |-> FALSE]
    /\ write_addr_set = FALSE
    /\ arvalid_reg = FALSE
    /\ wvalid_reg = FALSE
    /\ status = {}
    /\ mem \in [Addr -> Data]
    /\ dout \in Data

-----------------------------------------------------------------------------
(* Outputs to the BRAM.                                                    *)

bram_addr(in) ==
    IF Lite THEN IF ~READ_ONLY /\ in.awvalid THEN in.awaddr ELSE in.araddr
    ELSE IF ~READ_ONLY /\ in.wvalid
           THEN IF in.awvalid THEN in.awaddr ELSE awaddr_reg
    ELSE IF in.arvalid THEN in.araddr ELSE araddr_reg

\* Mutant: the output is held during a burst of a read-only controller too.
bram_en_NoBurst(in) == in.arvalid \/ (~READ_ONLY /\ in.wvalid)

bram_en(in) ==
    \/ in.arvalid
    \/ ~READ_ONLY /\ in.wvalid
    \/ ~Lite /\ READ_ONLY /\ arlen_reg > 1

\* Mutant: a write whose address came first is not enabled.
bram_we_SameBeatOnly(in) ==
    /\ ~READ_ONLY
    /\ IF Lite THEN in.wvalid
       ELSE (in.awvalid /\ in.wvalid) \/ (wen_reg[1] /\ in.awvalid)

bram_we(in) ==
    /\ ~READ_ONLY
    /\ IF Lite THEN in.wvalid
       ELSE \/ in.awvalid /\ in.wvalid
            \/ wen_reg[0] /\ in.wvalid
            \/ wen_reg[1] /\ in.awvalid

bram_din(in) == IF Lite \/ in.wvalid THEN in.wdata ELSE wdata_reg

BRAM(in) ==
    /\ mem' = IF bram_en(in) /\ bram_we(in)
                THEN [mem EXCEPT ![bram_addr(in)] = bram_din(in)] ELSE mem
    /\ dout' = IF bram_en(in) /\ ~bram_we(in) THEN mem[bram_addr(in)] ELSE dout

-----------------------------------------------------------------------------
(* Outputs to the master.                                                  *)

rvalid == IF Lite THEN arvalid_reg ELSE arlen_reg > 0
rlast == Lite \/ arlen_reg = 1
bvalid == IF Lite THEN wvalid_reg ELSE wlast_reg

-----------------------------------------------------------------------------
(* What the master should not do: the status bits this cycle sets.         *)

LiteComplaints(in) ==
    {s \in 0 .. 2 :
        \/ s = 0 /\ rvalid /\ ~in.rready
        \/ s = 1 /\ ~READ_ONLY /\ in.wvalid /\ ~in.awvalid /\ awaddr_reg # in.awaddr
        \/ s = 2 /\ ~READ_ONLY /\ in.arvalid /\ in.awvalid}

\* Bit 2 (write bursts) cannot be set by the single-beat writes of Inputs.
FullComplaints(in) ==
    {s \in 0 .. 6 :
        \/ s = 0 /\ rvalid /\ ~in.rready
        \/ /\ ~READ_ONLY
           /\ \/ s = 1 /\ in.arvalid /\ in.awvalid
              \/ s = 3 /\ in.awvalid /\ arlen_reg # 0
              \/ s = 4 /\ ~write_addr_set /\ ~in.awvalid /\ in.wvalid
              \/ s = 5 /\ write_addr_set /\ in.awvalid
              \/ s = 6 /\ in.wvalid /\ wlast_reg}

Complaints(in) == IF Lite THEN LiteComplaints(in) ELSE FullComplaints(in)

-----------------------------------------------------------------------------
(* Registers.                                                              *)

NextArlen(in) ==
    IF in.arvalid THEN in.arlen + 1 ELSE IF arlen_reg > 0 THEN arlen_reg - 1 ELSE 0

ReadRegs(in) ==
    /\ arlen_reg' = IF Lite THEN 0 ELSE NextArlen(in)
    /\ araddr_reg' = IF Lite THEN 0
                     ELSE IF in.arvalid THEN (in.araddr + 1) % AddrSize
                     ELSE (araddr_reg + 1) % AddrSize
    /\ arvalid_reg' = (Lite /\ in.arvalid)

\* Mutant: the response is offered for one cycle only.
NextWlast_OneCycle(in) == in.wvalid

NextWlast(in) == (wlast_reg /\ ~in.bready) \/ in.wvalid

WriteRegs(in) ==
    IF READ_ONLY
      THEN UNCHANGED <<awaddr_reg, wlast_reg, wdata_reg, wen_reg,
                       write_addr_set, wvalid_reg>>
      ELSE /\ awaddr_reg' = IF in.awvalid THEN in.awaddr ELSE awaddr_reg
           /\ wvalid_reg' = (Lite /\ in.wvalid)
           /\ wlast_reg' = (~Lite /\ NextWlast(in))
           /\ wdata_reg' = IF ~Lite /\ in.wvalid THEN in.wdata ELSE wdata_reg
           /\ wen_reg' = [i \in {0, 1} |->
                 IF Lite THEN FALSE
                 ELSE IF i = 1
                   THEN IF in.wvalid /\ ~in.awvalid THEN TRUE
                        ELSE wen_reg[1] /\ ~in.awvalid
                   ELSE IF in.awvalid /\ ~in.wvalid THEN TRUE
                        ELSE wen_reg[0] /\ ~in.wvalid]
           /\ write_addr_set' =
                 IF Lite \/ (write_addr_set /\ in.awvalid) THEN write_addr_set
                 ELSE IF in.awvalid /\ ~in.wvalid THEN TRUE
                 ELSE write_addr_set /\ ~in.wvalid

Cycle(in) ==
    /\ status = {}
    /\ status' = status \cup Complaints(in)
    /\ ReadRegs(in)
    /\ WriteRegs(in)
    /\ BRAM(in)
    /\ UNCHANGED params

Next == \E in \in Inputs : Cycle(in)

Spec == Init /\ [][Next]_vars
=============================================================================
