---------------------------- MODULE CacheBackend ----------------------------
(***************************************************************************)
(* The memory side of the cache (the d_backend_axi rules of                *)
(* mkCacheSystem.v; the i_backend_axi rules are the same text): a request  *)
(* for a line becomes an AXI burst of Beats beats of two words.  The       *)
(* channel registers are bypassing: a value written in a cycle is on the   *)
(* port, or seen by the rule, in the same cycle.                           *)
(***************************************************************************)
EXTENDS FIFO2

VARIABLES b_req_fifo, b_rsp_fifo,           \* from and to the cache
          b_state, b_req_reg, b_line_reg, b_line_chunk,
          b_cnt_burst, b_cnt_wr_rsp, b_wr_rsp_complete,
          b_rd_in, b_wr_in_addr, b_wr_in_data,   \* waiting for the memory
          b_rd_out, b_wr_out                     \* arrived from the memory

bvars == <<b_req_fifo, b_rsp_fifo, b_state, b_req_reg, b_line_reg,
           b_line_chunk, b_cnt_burst, b_cnt_wr_rsp, b_wr_rsp_complete,
           b_rd_in, b_wr_in_addr, b_wr_in_data, b_rd_out, b_wr_out>>

Beats == WPL \div 2

\* As many beats as an AXI burst may have.
ASSUME BurstAssumption == Beats <= 256

\* The register is loaded with 3 at every write and read only after one.
tot_burst == Beats - 1

-----------------------------------------------------------------------------
req_rule ==
    /\ b_state = "idle" /\ EMPTY_N(b_req_fifo)
    /\ b_wr_in_addr = None /\ b_rd_in = None
StartsWrite == req_rule /\ Head(b_req_fifo).write
StartsRead == req_rule /\ ~Head(b_req_fifo).write

send_data == b_state = "sendData" /\ b_wr_in_data = None

\* What the memory drives on R and B reaches the rules in the same cycle.
RdOut(r) == IF b_rd_out = None THEN r ELSE b_rd_out
WrOut(b) == IF b_wr_out = None THEN b ELSE b_wr_out

get_rd(r) == b_state = "read" /\ RdOut(r) # None /\ FULL_N(b_rsp_fifo)
get_wr_rsp(b) == WrOut(b) # None /\ FULL_N(b_rsp_fifo)

\* An answer is expected for every beat of the burst.
LastAnswer(b) == get_wr_rsp(b) /\ b_cnt_wr_rsp = tot_burst

write_done == b_state = "waitB" /\ b_wr_rsp_complete

-----------------------------------------------------------------------------
(* What the ports of the memory side show in this cycle.                   *)

AR == IF StartsRead THEN Head(b_req_fifo).addr ELSE b_rd_in
AW == IF StartsWrite THEN Head(b_req_fifo).addr ELSE b_wr_in_addr
W == IF send_data
       THEN [data |-> [j \in 0 .. 1 |-> b_req_reg.data[2 * b_cnt_burst + j]],
             strb |-> {j \in 0 .. 1 : 2 * b_cnt_burst + j \in b_req_reg.strb},
             last |-> b_cnt_burst = tot_burst]
       ELSE b_wr_in_data

\* The line with the beat that arrives put in its place.
Filled(r) ==
    [i \in WordIdx |-> IF i \div 2 = b_line_chunk THEN RdOut(r).data[i % 2]
                                                  ELSE b_line_reg[i]]

-----------------------------------------------------------------------------
BackendState(r) ==
    b_state' = CASE StartsWrite -> "sendData"                     \* 2'd2
                 [] StartsRead -> "read"                          \* 2'd1
                 [] send_data -> IF b_cnt_burst = tot_burst
                                   THEN "waitB" ELSE "sendData"   \* 2'd3
                 [] write_done -> "idle"                          \* 2'd0
                 [] get_rd(r) /\ RdOut(r).last -> "idle"
                 [] OTHER -> b_state

BackendCounters(r, b) ==
    /\ b_req_reg' = IF req_rule THEN Head(b_req_fifo) ELSE b_req_reg
    /\ b_cnt_burst' = IF StartsWrite THEN 0
                      ELSE IF send_data THEN b_cnt_burst + 1 ELSE b_cnt_burst
    /\ b_cnt_wr_rsp' = IF StartsWrite THEN 0
                       ELSE IF get_wr_rsp(b) THEN (b_cnt_wr_rsp + 1) % 256
                       ELSE b_cnt_wr_rsp
    /\ b_wr_rsp_complete' = IF StartsWrite THEN FALSE
                            ELSE b_wr_rsp_complete \/ LastAnswer(b)
    /\ b_line_chunk' = IF StartsRead THEN 0
                       ELSE IF get_rd(r) /\ ~RdOut(r).last
                              THEN (b_line_chunk + 1) % Beats
                       ELSE b_line_chunk
    /\ b_line_reg' = IF StartsRead THEN ZeroLine
                     ELSE IF get_rd(r) /\ ~RdOut(r).last THEN Filled(r)
                     ELSE b_line_reg

BackendChannels(arready, r, awready, wready, b) ==
    /\ b_rd_in' = IF AR # None /\ arready THEN None ELSE AR
    /\ b_wr_in_addr' = IF AW # None /\ awready THEN None ELSE AW
    /\ b_wr_in_data' = IF W # None /\ wready THEN None ELSE W
    /\ b_rd_out' = IF get_rd(r) THEN None ELSE RdOut(r)
    /\ b_wr_out' = IF get_wr_rsp(b) THEN None ELSE WrOut(b)

\* The answer to a write is the low end of the request, strobes and all:
\* its words are one place too high.  Nobody looks at it.
LowEnd(req) == [i \in WordIdx |-> IF i = 0 THEN Mixed ELSE req.data[i - 1]]

BackendFifos(req, rspTaken, r, b) ==
    /\ b_req_fifo' = Clocked(b_req_fifo, req_rule, req # None, req)
    /\ b_rsp_fifo' = Clocked(b_rsp_fifo, rspTaken,
                             (get_rd(r) /\ RdOut(r).last) \/ LastAnswer(b),
                             IF get_rd(r) /\ RdOut(r).last THEN Filled(r)
                                                           ELSE LowEnd(b_req_reg))

BackendCycle(req, rspTaken, arready, r, awready, wready, b) ==
    /\ BackendState(r) /\ BackendCounters(r, b)
    /\ BackendChannels(arready, r, awready, wready, b)
    /\ BackendFifos(req, rspTaken, r, b)

-----------------------------------------------------------------------------
NoLineReq == [addr |-> 0, write |-> FALSE, data |-> ZeroLine, strb |-> {}]

BackendInit ==
    /\ b_req_fifo = << >> /\ b_rsp_fifo = << >> /\ b_state = "idle"
    /\ b_req_reg = NoLineReq /\ b_line_reg = ZeroLine /\ b_line_chunk = 0
    /\ b_cnt_burst = 0 /\ b_cnt_wr_rsp = 0 /\ b_wr_rsp_complete = FALSE
    /\ b_rd_in = None /\ b_wr_in_addr = None /\ b_wr_in_data = None
    /\ b_rd_out = None /\ b_wr_out = None

BackendReset ==
    /\ b_req_fifo' = << >> /\ b_rsp_fifo' = << >> /\ b_state' = "idle"
    /\ b_line_chunk' = 0 /\ b_cnt_burst' = 0 /\ b_cnt_wr_rsp' = 0
    /\ b_wr_rsp_complete' = FALSE
    /\ b_rd_in' = None /\ b_wr_in_addr' = None /\ b_wr_in_data' = None
    /\ b_rd_out' = None /\ b_wr_out' = None
    /\ UNCHANGED <<b_req_reg, b_line_reg>>
=============================================================================
