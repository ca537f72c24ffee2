----------------------------- MODULE DataCache ------------------------------
(***************************************************************************)
(* The data cache of CacheSystem (the d_cache rules of mkCacheSystem.v):   *)
(* direct mapped, write-back, a write that misses goes to memory without   *)
(* allocating a line.  One step is one clock edge, in which every rule     *)
(* whose guard holds fires.  A request is a record [addr, write, data,     *)
(* strb]; byte strobes are abstracted to the set of words written, and a   *)
(* response is the line (its flag bit, the same for all requests, is left  *)
(* out).                                                                   *)
(***************************************************************************)
EXTENDS CacheMem

VARIABLES req_fifo, rsp_fifo,           \* to and from the frontend
          mem_req_fifo, mem_rsp_fifo,   \* to and from the backend
          state, miss_req, wb_addr, write_miss,
          tag_array,                    \* by index: a tag, or None: invalid
          dirty_array                   \* by index: the words to write back

cvars == <<req_fifo, rsp_fifo, mem_req_fifo, mem_rsp_fifo, state, miss_req,
           wb_addr, write_miss, tag_array, dirty_array, cmvars>>

-----------------------------------------------------------------------------
(* The rules: when each one fires.                                         *)

core_req ==
    /\ state = "idle"                                             \* 3'd0
    /\ EMPTY_N(req_fifo) /\ FULL_N(mem_req_fifo) /\ FULL_N(cm_req_fifo)
start_miss == state = "miss" /\ FULL_N(cm_req_fifo)               \* 3'd2
writeback_rsp ==                                                  \* 3'd3
    state = "readVictim" /\ FULL_N(mem_req_fifo) /\ EMPTY_N(cm_rsp_fifo)
send_fill_req == state = "fill" /\ FULL_N(mem_req_fifo)           \* 3'd4
wait_fill_rsp ==                                                  \* 3'd5
    state = "waitFill" /\ FULL_N(cm_req_fifo) /\ EMPTY_N(mem_rsp_fifo)
wait_mem_rsp ==                                                   \* 3'd6
    state = "waitMem" /\ EMPTY_N(mem_rsp_fifo) /\ FULL_N(rsp_fifo)
cache_mem_rsp ==                                                  \* 3'd1
    state = "access" /\ EMPTY_N(cm_rsp_fifo) /\ FULL_N(rsp_fifo)

-----------------------------------------------------------------------------
(* What a rule decides on.                                                 *)

Hit == tag_array[Index(Head(req_fifo).addr)] = Tag(Head(req_fifo).addr)
ReadHit == core_req /\ Hit /\ ~Head(req_fifo).write
WriteHit == core_req /\ Hit /\ Head(req_fifo).write
ReadMiss == core_req /\ ~Hit /\ ~Head(req_fifo).write
WriteMiss == core_req /\ ~Hit /\ Head(req_fifo).write

Victim == Index(miss_req.addr)

\* Mutant: the line is replaced without being written back.
Evicts_Never == FALSE

Evicts == start_miss /\ tag_array[Victim] # None /\ dirty_array[Victim] # {}

VictimAddr == (tag_array[Victim] * Sets + Victim) * LineBytes

-----------------------------------------------------------------------------
(* One clock edge, register by register.                                   *)

NextState ==
    CASE ReadHit \/ WriteHit -> "access"
      [] WriteMiss -> "waitMem"
      [] ReadMiss -> "miss"
      [] start_miss -> IF Evicts THEN "readVictim" ELSE "fill"
      [] wait_mem_rsp -> IF write_miss THEN "idle" ELSE "fill"
      [] cache_mem_rsp -> "idle"
      [] wait_fill_rsp -> "access"
      [] send_fill_req -> "waitFill"
      [] writeback_rsp -> "waitMem"
      [] OTHER -> state

StateRegisters ==
    /\ state' = NextState
    /\ miss_req' = IF ReadMiss THEN Head(req_fifo) ELSE miss_req
    /\ wb_addr' = IF Evicts THEN VictimAddr ELSE wb_addr
    /\ write_miss' = (WriteMiss \/ (write_miss /\ ~wait_mem_rsp))

\* A word is dirty from the first write of one of its bytes.
Marked(dirty, strb) == dirty \cup strb

\* Mutant: a write hit does not mark its words.
DirtyArray_Unmarked ==
    dirty_array' =
        IF wait_fill_rsp THEN [dirty_array EXCEPT ![Victim] = {}]
        ELSE dirty_array

DirtyArray ==
    dirty_array' =
        IF WriteHit THEN
            [dirty_array EXCEPT ![Index(Head(req_fifo).addr)] =
                Marked(@, Head(req_fifo).strb)]
        ELSE IF wait_fill_rsp THEN [dirty_array EXCEPT ![Victim] = {}]
        ELSE dirty_array

TagArray ==
    tag_array' = IF wait_fill_rsp
                   THEN [tag_array EXCEPT ![Victim] = Tag(miss_req.addr)]
                   ELSE tag_array

\* Requests to the array: the hit itself, the victim's line, the fill.
CacheMemRequest ==
    IF ReadHit \/ WriteHit THEN Head(req_fifo)
    ELSE IF Evicts THEN
        [addr |-> VictimAddr, write |-> FALSE, data |-> ZeroLine, strb |-> {}]
    ELSE IF wait_fill_rsp THEN
        [addr |-> miss_req.addr, write |-> TRUE,
         data |-> Head(mem_rsp_fifo), strb |-> WordIdx]
    ELSE None

\* Requests to memory: a write that misses, the victim, the fill.
MemRequest ==
    IF WriteMiss THEN Head(req_fifo)
    ELSE IF writeback_rsp THEN
        [addr |-> wb_addr, write |-> TRUE, data |-> Head(cm_rsp_fifo),
         strb |-> WordIdx]
    ELSE [miss_req EXCEPT !.addr = Aligned(@)]

\* req, memRsp: what arrives at this edge, or None; rspTaken, memReqTaken:
\* whether the neighbour takes the head of the FIFO.
Fifos(req, rspTaken, memReqTaken, memRsp) ==
    /\ req_fifo' = Clocked(req_fifo, core_req, req # None, req)
    /\ rsp_fifo' = Clocked(rsp_fifo, rspTaken,
                           (wait_mem_rsp /\ write_miss) \/ cache_mem_rsp,
                           IF cache_mem_rsp THEN Head(cm_rsp_fifo)
                                            ELSE Head(mem_rsp_fifo))
    /\ mem_req_fifo' = Clocked(mem_req_fifo, memReqTaken,
                               WriteMiss \/ writeback_rsp \/ send_fill_req,
                               MemRequest)
    /\ mem_rsp_fifo' = Clocked(mem_rsp_fifo, wait_mem_rsp \/ wait_fill_rsp,
                               memRsp # None, memRsp)

CacheCycle(req, rspTaken, memReqTaken, memRsp) ==
    /\ StateRegisters /\ DirtyArray /\ TagArray
    /\ Fifos(req, rspTaken, memReqTaken, memRsp)
    /\ CacheMemCycle(CacheMemRequest, cache_mem_rsp \/ writeback_rsp)

-----------------------------------------------------------------------------
\* The registers RST_N resets.  Tags, dirty bits and lines are not among
\* them: they keep what the last job left.
CacheReset ==
    /\ req_fifo' = << >> /\ rsp_fifo' = << >>
    /\ mem_req_fifo' = << >> /\ mem_rsp_fifo' = << >>
    /\ state' = "idle" /\ write_miss' = FALSE
    /\ CacheMemReset
    /\ UNCHANGED <<tag_array, dirty_array, miss_req, wb_addr>>

\* After configuration: clean_reg_file.txt leaves every line invalid.
CacheInit ==
    /\ req_fifo = << >> /\ rsp_fifo = << >>
    /\ mem_req_fifo = << >> /\ mem_rsp_fifo = << >>
    /\ state = "idle" /\ write_miss = FALSE
    /\ miss_req = NoReq /\ wb_addr = 0
    /\ tag_array = [i \in 0 .. Sets - 1 |-> None]
    /\ dirty_array = [i \in 0 .. Sets - 1 |-> {}]
    /\ CacheMemInit
=============================================================================
