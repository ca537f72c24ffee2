--------------------------- MODULE CacheFrontend ----------------------------
(***************************************************************************)
(* The core side of the cache (the d_frontend_axi rules of                 *)
(* mkCacheSystem.v; the i_frontend_axi rules are the same text): AXI       *)
(* bursts of beats of two words become requests for lines.  Two state      *)
(* machines run side by side: core_state asks for the lines, axi_state     *)
(* hands out the beats of a read.  A burst starts at any multiple of four  *)
(* bytes; a beat is then the two words from there on, and a beat that      *)
(* straddles two lines is put together from both.  Ids are left out.       *)
(***************************************************************************)
EXTENDS FIFO2

CONSTANTS LineMod,   \* lines are counted with 5 bits: 32
          BeatMod    \* beats of a burst are counted with 8 bits: 256

ASSUME CounterAssumption == LineMod \in Nat \ {0} /\ BeatMod \in Nat \ {0}

VARIABLES f_rd_in, f_wr_in_addr, f_wr_in_data,   \* arrived from the core
          f_rd_out, f_wr_out,                    \* waiting for the core
          core_state, axi_state,
          rd_addr, cnt_req, total_req, last_req,
          rd_req_fifo, curr_info, cnt_bits, v_axi_data, rd_line,
          wr_req, cache_wr_req,
          f_req_fifo, f_rsp_fifo                 \* to and from the cache

fvars == <<f_rd_in, f_wr_in_addr, f_wr_in_data, f_rd_out, f_wr_out,
           core_state, axi_state, rd_addr, cnt_req, total_req, last_req,
           rd_req_fifo, curr_info, cnt_bits, v_axi_data, rd_line,
           wr_req, cache_wr_req, f_req_fifo, f_rsp_fifo>>

Pair == 0 .. 1
ZeroBeat == [j \in Pair |-> 0]

\* Or of two words: the one that is not 0, if there is only one.
Or(x, y) == IF x = 0 THEN y ELSE IF y = 0 THEN x ELSE Mixed

RdIn(ar) == IF f_rd_in = None THEN ar ELSE f_rd_in
WrInAddr(aw) == IF f_wr_in_addr = None THEN aw ELSE f_wr_in_addr
WrInData(w) == IF f_wr_in_data = None THEN w ELSE f_wr_in_data

-----------------------------------------------------------------------------
(* The rules: when each one fires.                                         *)

rd_get_req(ar) ==
    core_state = "idle" /\ RdIn(ar) # None /\ FULL_N(rd_req_fifo)
rd_req_send == core_state = "readLines" /\ FULL_N(f_req_fifo)       \* 3'd1
rd_axi_ready == axi_state = "idle" /\ EMPTY_N(rd_req_fifo)
rd_axi_wait_data ==                                                 \* 2'd2
    axi_state = "waitLine" /\ EMPTY_N(f_rsp_fifo) /\ f_rd_out = None
rd_axi_sending_data == axi_state = "sameLine" /\ f_rd_out = None    \* 2'd3

\* A write starts when no read is left, neither new nor unfinished.
wr_get_req(ar, aw) ==
    /\ core_state = "idle" /\ axi_state = "idle" /\ WrInAddr(aw) # None
    /\ ~EMPTY_N(rd_req_fifo) /\ ~rd_get_req(ar)
wr_set_line(w) ==                                                   \* 3'd4
    /\ core_state = "setLine" /\ WrInData(w) # None
    /\ f_wr_out = None /\ FULL_N(f_req_fifo)
wr_leftover_data == core_state = "leftover" /\ FULL_N(f_req_fifo)   \* 3'd5
wr_rq_wait ==                                                       \* 3'd6
    core_state = "waitWrite" /\ axi_state = "write" /\ EMPTY_N(f_rsp_fifo)

-----------------------------------------------------------------------------
(* Reads.  v_axi_data: where the next word comes from, the beat put        *)
(* together so far and how many of its words are there.                    *)

\* Mutant: the byte behind the burst is counted as its last.
LinesOf_EndIncluded(a, len) ==
    ((((a + 8 * (len % BeatMod)) \div LineBytes) - (a \div LineBytes))
        % LineMod) + 1

\* Mutant: a burst is taken to start at the beginning of a line.
LinesOf_FromStart(a, len) == ((8 * (len % BeatMod) - 1) \div LineBytes) + 1

\* The lines a burst of len beats touches; the difference has 5 bits.
LinesOf(a, len) ==
    ((((a + 8 * (len % BeatMod) - 1) \div LineBytes) - (a \div LineBytes))
        % LineMod) + 1

reads == rd_axi_wait_data \/ rd_axi_sending_data
LineNow == IF rd_axi_wait_data THEN Head(f_rsp_fifo) ELSE rd_line

Avail == WPL - Chunk(v_axi_data.addr)
Partial == Avail < 2

\* The words of the line from the current one on, behind those there are.
BeatNow ==
    [j \in Pair |->
        LET i == Chunk(v_axi_data.addr) + j - v_axi_data.count
        IN  IF j < v_axi_data.count \/ i >= WPL THEN v_axi_data.data[j]
            ELSE Or(v_axi_data.data[j], LineNow[i])]

AddrNext == v_axi_data.addr + 4 * (IF Partial THEN Avail
                                              ELSE 2 - v_axi_data.count)
SameLine == (AddrNext \div LineBytes) % LineMod
                = (v_axi_data.addr \div LineBytes) % LineMod
LastBeat == (cnt_bits + 1) % BeatMod = curr_info.beats

ReadData ==
    /\ curr_info' = IF rd_axi_ready THEN Head(rd_req_fifo) ELSE curr_info
    /\ cnt_bits' = IF rd_axi_ready THEN 0
                   ELSE IF reads /\ ~Partial THEN (cnt_bits + 1) % BeatMod
                   ELSE cnt_bits
    /\ v_axi_data' =
          IF rd_axi_ready THEN
              [addr |-> Head(rd_req_fifo).addr, data |-> ZeroBeat, count |-> 0]
          ELSE IF reads THEN
              [addr |-> AddrNext,
               data |-> IF Partial THEN BeatNow ELSE ZeroBeat,
               count |-> IF Partial THEN v_axi_data.count + Avail ELSE 0]
          ELSE v_axi_data
    /\ rd_line' = IF rd_axi_wait_data THEN Head(f_rsp_fifo) ELSE rd_line

CoreR == IF reads /\ ~Partial THEN [data |-> BeatNow, last |-> LastBeat]
                                ELSE f_rd_out

-----------------------------------------------------------------------------
(* Writes.  cache_wr_req: the line gathered so far with its strobes, and   *)
(* what is left of a beat that did not fit into the line.                  *)

\* The beat at hand: a new one, or the leftover of the last.
BeatIn(w) ==
    IF wr_leftover_data
      THEN [data |-> cache_wr_req.axi_data, strb |-> cache_wr_req.axi_strb,
            last |-> cache_wr_req.axi_last]
      ELSE WrInData(w)

writes(w) == wr_set_line(w) \/ wr_leftover_data

WrChunk == Chunk(cache_wr_req.addr)
WrAvail == WPL - WrChunk
NewWords == 2 - cache_wr_req.count
Straddles == WrAvail < 2

SendsLine(w) ==
    writes(w) /\ (Straddles \/ BeatIn(w).last \/ WrAvail = NewWords)

Strobes(w) ==
    cache_wr_req.strb \cup {i \in WordIdx : i - WrChunk \in BeatIn(w).strb}

\* The written words of the beat at their places in the line.
Placed(w) ==
    [i \in WordIdx |-> IF i - WrChunk \in BeatIn(w).strb
                         THEN BeatIn(w).data[i - WrChunk] ELSE 0]
Gathered(w) == [i \in WordIdx |-> Or(cache_wr_req.line[i], Placed(w)[i])]

\* Mutant: the leftover of a beat is its first word again.
Shifted_Not(w) == BeatIn(w).data

\* What a shift by WrAvail words leaves of a beat.
Shifted(w) == [j \in Pair |-> IF j + WrAvail \in Pair
                                THEN BeatIn(w).data[j + WrAvail] ELSE 0]

ShiftedStrb(w) == {j \in Pair : j + WrAvail \in BeatIn(w).strb}

GatherLine(ar, aw, w) ==
    cache_wr_req' =
        IF wr_get_req(ar, aw) THEN
            [addr |-> WrInAddr(aw).addr, line |-> ZeroLine, strb |-> {},
             axi_data |-> ZeroBeat, axi_strb |-> {}, axi_last |-> FALSE,
             count |-> 0]
        ELSE IF writes(w) THEN
            [addr |-> cache_wr_req.addr
                        + 4 * (IF Straddles THEN WrAvail ELSE NewWords),
             line |-> IF SendsLine(w) THEN ZeroLine ELSE Gathered(w),
             strb |-> IF SendsLine(w) THEN {} ELSE Strobes(w),
             axi_data |-> IF Straddles THEN Shifted(w) ELSE ZeroBeat,
             axi_strb |-> IF Straddles THEN ShiftedStrb(w) ELSE {},
             axi_last |-> Straddles /\ BeatIn(w).last,
             count |-> IF Straddles THEN WrAvail ELSE 0]
        ELSE cache_wr_req

WriteDone == wr_rq_wait /\ cache_wr_req.axi_strb = {} /\ last_req

-----------------------------------------------------------------------------
(* The two state machines and what they share.                             *)

CoreState(ar, aw, w) ==
    core_state' =
        CASE rd_get_req(ar) -> "readLines"
          [] wr_get_req(ar, aw) -> "setLine"
          [] rd_req_send -> IF cnt_req + 1 = total_req THEN "idle"
                                                       ELSE "readLines"
          [] writes(w) -> IF SendsLine(w) THEN "waitWrite" ELSE "setLine"
          [] wr_rq_wait -> IF cache_wr_req.axi_strb # {} THEN "leftover"
                           ELSE IF last_req THEN "idle" ELSE "setLine"
          [] OTHER -> core_state

AxiState(ar, aw) ==
    axi_state' =
        CASE wr_get_req(ar, aw) -> "write"                          \* 2'd1
          [] WriteDone -> "idle"                                    \* 2'd0
          [] rd_axi_ready -> "waitLine"
          [] reads /\ Partial -> "waitLine"
          [] reads /\ ~Partial -> IF LastBeat THEN "idle"
                                  ELSE IF SameLine THEN "sameLine"
                                  ELSE "waitLine"
          [] OTHER -> axi_state

Requests(ar, aw, w) ==
    /\ rd_addr' = IF rd_get_req(ar) THEN RdIn(ar).addr
                  ELSE IF rd_req_send THEN rd_addr + LineBytes ELSE rd_addr
    /\ total_req' = IF rd_get_req(ar)
                      THEN LinesOf(RdIn(ar).addr, RdIn(ar).len)
                    ELSE IF wr_get_req(ar, aw)
                      THEN LinesOf(WrInAddr(aw).addr, WrInAddr(aw).len)
                    ELSE total_req
    /\ cnt_req' = IF rd_get_req(ar) \/ wr_get_req(ar, aw) THEN 0
                  ELSE IF rd_req_send \/ SendsLine(w) THEN cnt_req + 1
                  ELSE cnt_req
    /\ last_req' = IF rd_get_req(ar) \/ wr_get_req(ar, aw) THEN FALSE
                   ELSE IF SendsLine(w) THEN BeatIn(w).last ELSE last_req
    /\ wr_req' = IF wr_get_req(ar, aw) THEN WrInAddr(aw).addr
                 ELSE IF SendsLine(w) THEN wr_req + LineBytes ELSE wr_req

FrontendFifos(ar, w, reqTaken, rsp) ==
    /\ rd_req_fifo' = Clocked(rd_req_fifo, rd_axi_ready, rd_get_req(ar),
                              [addr |-> RdIn(ar).addr,
                               beats |-> RdIn(ar).len % BeatMod])
    /\ f_req_fifo' = Clocked(f_req_fifo, reqTaken, rd_req_send \/ SendsLine(w),
                             IF rd_req_send
                               THEN [addr |-> rd_addr, write |-> FALSE,
                                     data |-> ZeroLine, strb |-> {}]
                               ELSE [addr |-> Aligned(wr_req), write |-> TRUE,
                                     data |-> Gathered(w), strb |-> Strobes(w)])
    /\ f_rsp_fifo' = Clocked(f_rsp_fifo, wr_rq_wait \/ rd_axi_wait_data,
                             rsp # None, rsp)

\* Every beat of a write is answered, as soon as it is taken.
CoreB(w) == IF wr_set_line(w) THEN "OKAY" ELSE f_wr_out

FrontendChannels(ar, rready, aw, w, bready) ==
    /\ f_rd_in' = IF rd_get_req(ar) THEN None ELSE RdIn(ar)
    /\ f_wr_in_addr' = IF wr_get_req(ar, aw) THEN None ELSE WrInAddr(aw)
    /\ f_wr_in_data' = IF wr_set_line(w) THEN None ELSE WrInData(w)
    /\ f_rd_out' = IF CoreR # None /\ rready THEN None ELSE CoreR
    /\ f_wr_out' = IF CoreB(w) # None /\ bready THEN None ELSE CoreB(w)

FrontendCycle(ar, rready, aw, w, bready, reqTaken, rsp) ==
    /\ CoreState(ar, aw, w) /\ AxiState(ar, aw)
    /\ ReadData /\ GatherLine(ar, aw, w) /\ Requests(ar, aw, w)
    /\ FrontendFifos(ar, w, reqTaken, rsp)
    /\ FrontendChannels(ar, rready, aw, w, bready)

-----------------------------------------------------------------------------
FrontendInit ==
    /\ f_rd_in = None /\ f_wr_in_addr = None /\ f_wr_in_data = None
    /\ f_rd_out = None /\ f_wr_out = None
    /\ core_state = "idle" /\ axi_state = "idle"
    /\ rd_addr = 0 /\ cnt_req = 0 /\ total_req = 0 /\ last_req = FALSE
    /\ rd_req_fifo = << >> /\ curr_info = [addr |-> 0, beats |-> 0]
    /\ cnt_bits = 0
    /\ v_axi_data = [addr |-> 0, data |-> ZeroBeat, count |-> 0]
    /\ rd_line = ZeroLine /\ wr_req = 0
    /\ cache_wr_req = [addr |-> 0, line |-> ZeroLine, strb |-> {},
                       axi_data |-> ZeroBeat, axi_strb |-> {},
                       axi_last |-> FALSE, count |-> 0]
    /\ f_req_fifo = << >> /\ f_rsp_fifo = << >>

FrontendReset ==
    /\ f_rd_in' = None /\ f_wr_in_addr' = None /\ f_wr_in_data' = None
    /\ f_rd_out' = None /\ f_wr_out' = None
    /\ core_state' = "idle" /\ axi_state' = "idle"
    /\ cnt_req' = 0 /\ total_req' = 0 /\ last_req' = FALSE /\ cnt_bits' = 0
    /\ rd_req_fifo' = << >> /\ f_req_fifo' = << >> /\ f_rsp_fifo' = << >>
    /\ UNCHANGED <<rd_addr, curr_info, v_axi_data, rd_line, wr_req,
                   cache_wr_req>>
=============================================================================
