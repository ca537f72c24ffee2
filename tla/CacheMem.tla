------------------------------ MODULE CacheMem ------------------------------
(***************************************************************************)
(* The line memory of a cache (the cache_mem rules of mkCacheSystem.v, the *)
(* same text for d_cache and i_cache) around a block RAM with a read       *)
(* latency of one cycle.  The RAM's output is held in bram_out until it is *)
(* taken (the adapter's counter of reads in flight, never above one here,  *)
(* is left out).  A request is a record [addr, write, data, strb]; a write *)
(* reads the line first and answers with the line it has written.          *)
(***************************************************************************)
EXTENDS FIFO2

VARIABLES cm_req_fifo, cm_rsp_fifo, cm_state, cm_req, prev_line, bram, bram_out

cmvars == <<cm_req_fifo, cm_rsp_fifo, cm_state, cm_req, prev_line, bram,
            bram_out>>

NoReq == [addr |-> 0, write |-> FALSE, data |-> ZeroLine, strb |-> {}]

handle_req == cm_state = "idle" /\ EMPTY_N(cm_req_fifo)
get_rd_rsp == cm_state = "read" /\ FULL_N(cm_rsp_fifo)
write_data_st == cm_state = "write" /\ FULL_N(cm_rsp_fifo)

Merged == Merge(prev_line, cm_req.data, cm_req.strb)

\* req: the request that arrives at this edge, or None; rspTaken: whether the
\* head of the response FIFO is taken.
CacheMemCycle(req, rspTaken) ==
    /\ cm_state' = CASE handle_req -> "read"
                     [] get_rd_rsp -> IF cm_req.write THEN "write" ELSE "idle"
                     [] write_data_st -> "idle"
                     [] OTHER -> cm_state
    /\ cm_req' = IF handle_req THEN Head(cm_req_fifo) ELSE cm_req
    /\ bram_out' = IF handle_req THEN bram[Index(Head(cm_req_fifo).addr)]
                                 ELSE bram_out
    /\ prev_line' = IF get_rd_rsp /\ cm_req.write THEN bram_out ELSE prev_line
    /\ bram' = IF write_data_st
                 THEN [bram EXCEPT ![Index(cm_req.addr)] = Merged] ELSE bram
    /\ cm_req_fifo' = Clocked(cm_req_fifo, handle_req, req # None, req)
    /\ cm_rsp_fifo' = Clocked(cm_rsp_fifo, rspTaken,
                              (get_rd_rsp /\ ~cm_req.write) \/ write_data_st,
                              IF write_data_st THEN Merged ELSE bram_out)

\* The requests the array is at or has waiting, oldest first.
AtArray == IF cm_state = "idle" THEN cm_req_fifo ELSE <<cm_req>> \o cm_req_fifo

\* The line at index i once the writes waiting for the array are done.
LineValue(i) ==
    LET writes == {k \in DOMAIN AtArray :
                      AtArray[k].write /\ Index(AtArray[k].addr) = i}
        last == AtArray[CHOOSE k \in writes : \A l \in writes : l <= k]
    IN  IF writes = {} THEN bram[i] ELSE Merge(bram[i], last.data, last.strb)

CacheMemInit ==
    /\ cm_req_fifo = << >> /\ cm_rsp_fifo = << >> /\ cm_state = "idle"
    /\ cm_req = NoReq /\ prev_line = ZeroLine /\ bram_out = ZeroLine
    /\ bram = [i \in 0 .. Sets - 1 |-> ZeroLine]

\* The lines are not reset.
CacheMemReset ==
    /\ cm_req_fifo' = << >> /\ cm_rsp_fifo' = << >> /\ cm_state' = "idle"
    /\ UNCHANGED <<cm_req, prev_line, bram, bram_out>>
=============================================================================
