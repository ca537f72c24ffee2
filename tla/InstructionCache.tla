-------------------------- MODULE InstructionCache --------------------------
(***************************************************************************)
(* The instruction cache of CacheSystem (the i_cache rules of              *)
(* mkCacheSystem.v): direct mapped, read only.  A lookup reserves a slot   *)
(* of a completion buffer; a miss waits in miss_q for memory while later   *)
(* requests are looked up, a hit is read from the line memory; both fill   *)
(* their slot, and the slots are sent in the order they were reserved.     *)
(* One step is one clock edge.  The frontend and the backend, which are    *)
(* those of the data side, appear as what they do to the four FIFOs they   *)
(* share with the cache: requests and answers come and go at any edge, and *)
(* memory answers in the order it is asked.                                *)
(***************************************************************************)
EXTENDS CacheMem, FiniteSets

CONSTANTS Slots,      \* places of the completion buffer and of miss_q: 10
          Requests,   \* requests of the frontend
          MemBound,   \* requests the backend and memory hold
          Reload      \* TRUE: the host changes the memory during a reset

ASSUME SlotsAssumption == Slots \in Nat \ {0}
ASSUME ReloadAssumption == Reload \in BOOLEAN

LineReq == [addr : Nat, write : BOOLEAN, data : [WordIdx -> Nat],
            strb : SUBSET WordIdx]

\* Cores do not write on the instruction port.
ASSUME RequestsAssumption == \A r \in Requests : r \in LineReq /\ ~r.write
ASSUME NoneIsNothing == None \notin Nat \cup LineReq \cup [WordIdx -> Nat]

VARIABLES req_fifo, rsp_fifo_rv,        \* to and from the frontend
          mem_req_fifo, mem_rsp_fifo,   \* to and from the backend
          state, token_hit, miss_q, hit_req_fifo,
          cb_i, cb_o, cb_n,             \* completion buffer: in, out, reserved
          cb_buff,                      \* by slot: a line, or None: not yet
          tag_array,                    \* by index: a tag, or None: invalid
          pending,                      \* addresses memory has to answer
          mem,                          \* by tag and index: a line
          expect                        \* addresses the frontend waits for

icvars == <<req_fifo, rsp_fifo_rv, mem_req_fifo, mem_rsp_fifo, state,
            token_hit, miss_q, hit_req_fifo, cb_i, cb_o, cb_n, cb_buff,
            tag_array, cmvars>>
vars == <<icvars, pending, mem, expect>>

Slot == 0 .. Slots - 1
MemLine(a) == mem[<<Tag(a), Index(a)>>]

-----------------------------------------------------------------------------
(* The rules: when each one fires.  The later ones give way to the first.  *)

\* Mutant: one slot too many is handed out.
core_req_OneMore ==
    /\ state = "idle" /\ EMPTY_N(req_fifo) /\ cb_n <= Slots
    /\ FULL_N(cm_req_fifo) /\ FULL_N(hit_req_fifo) /\ FULL_N(mem_req_fifo)
    /\ Len(miss_q) < Slots

core_req ==
    /\ state = "idle" /\ EMPTY_N(req_fifo) /\ cb_n < Slots
    /\ FULL_N(cm_req_fifo) /\ FULL_N(hit_req_fifo) /\ FULL_N(mem_req_fifo)
    /\ Len(miss_q) < Slots

\* Mutant: a fill waits for a free slot, as a lookup does.
fill_rule_NeedsSlot ==
    /\ FULL_N(cm_req_fifo) /\ FULL_N(hit_req_fifo) /\ cb_n < Slots
    /\ EMPTY_N(mem_rsp_fifo) /\ miss_q # << >> /\ ~core_req

fill_rule ==
    /\ FULL_N(cm_req_fifo) /\ FULL_N(hit_req_fifo)
    /\ EMPTY_N(mem_rsp_fifo) /\ miss_q # << >> /\ ~core_req

cache_mem_rsp ==
    EMPTY_N(cm_rsp_fifo) /\ EMPTY_N(hit_req_fifo) /\ ~fill_rule /\ ~core_req

\* Mutant: the answer of a fill is taken for that of the hit.
HitDone_AnyAnswer == cache_mem_rsp /\ state = "hit"

HitDone == cache_mem_rsp /\ state = "hit" /\ Head(hit_req_fifo)

send_rsp ==
    cb_n # 0 /\ cb_buff[cb_o] # None /\ rsp_fifo_rv = None /\ ~core_req

-----------------------------------------------------------------------------
(* What a lookup finds.  A write is taken and forgotten.                   *)

Lookup == core_req /\ ~Head(req_fifo).write
Hit == Lookup /\ tag_array[Index(Head(req_fifo).addr)] = Tag(Head(req_fifo).addr)
Miss == Lookup /\ ~Hit

\* Mutant: the tag is set when the miss is sent.
FilledTag_AtMiss ==
    IF Miss THEN [tag_array EXCEPT ![Index(Head(req_fifo).addr)] =
                                       Tag(Head(req_fifo).addr)]
    ELSE tag_array

FilledTag ==
    IF fill_rule THEN [tag_array EXCEPT ![Index(Head(miss_q).addr)] =
                                            Tag(Head(miss_q).addr)]
    ELSE tag_array

NextSlot(k) == IF k = Slots - 1 THEN 0 ELSE k + 1

CompletionBuffer ==
    /\ cb_i' = IF Lookup THEN NextSlot(cb_i) ELSE cb_i
    /\ cb_o' = IF send_rsp THEN NextSlot(cb_o) ELSE cb_o
    /\ cb_n' = cb_n + (IF Lookup THEN 1 ELSE 0) - (IF send_rsp THEN 1 ELSE 0)
    /\ cb_buff' =
          IF Lookup THEN [cb_buff EXCEPT ![cb_i] = None]
          ELSE IF HitDone THEN [cb_buff EXCEPT ![token_hit] = Head(cm_rsp_fifo)]
          ELSE IF fill_rule
            THEN [cb_buff EXCEPT ![Head(miss_q).token] = Head(mem_rsp_fifo)]
          ELSE cb_buff

CacheMemRequest ==
    IF Hit THEN Head(req_fifo)
    ELSE IF fill_rule THEN
        [addr |-> Head(miss_q).addr, write |-> TRUE,
         data |-> Head(mem_rsp_fifo), strb |-> WordIdx]
    ELSE None

\* What the frontend sees in this cycle: the register is bypassed.
Rsp == IF send_rsp THEN cb_buff[cb_o] ELSE rsp_fifo_rv

\* req: a request that arrives, or None; take: the frontend has room for an
\* answer; memTake, memRsp: the backend takes a request, gives a line.
CacheCycle(req, take, memTake, memRsp) ==
    /\ state' = IF Hit THEN "hit" ELSE IF HitDone THEN "idle" ELSE state
    /\ token_hit' = IF Hit THEN cb_i ELSE token_hit
    /\ tag_array' = FilledTag
    /\ CompletionBuffer
    /\ req_fifo' = Clocked(req_fifo, core_req, req # None, req)
    /\ rsp_fifo_rv' = IF take THEN None ELSE Rsp
    /\ miss_q' = Clocked(miss_q, fill_rule, Miss,
                         [token |-> cb_i, addr |-> Head(req_fifo).addr])
    /\ hit_req_fifo' = Clocked(hit_req_fifo, cache_mem_rsp, Hit \/ fill_rule, Hit)
    /\ mem_req_fifo' = Clocked(mem_req_fifo, memTake, Miss,
                               Aligned(Head(req_fifo).addr))
    /\ mem_rsp_fifo' = Clocked(mem_rsp_fifo, fill_rule, memRsp # None, memRsp)
    /\ CacheMemCycle(CacheMemRequest, cache_mem_rsp)

-----------------------------------------------------------------------------
(* The cache with its neighbours.                                          *)

Clock(req, take, memTake, memGive) ==
    /\ req # None => FULL_N(req_fifo)
    /\ memTake => EMPTY_N(mem_req_fifo) /\ Len(pending) < MemBound
    /\ memGive => pending # << >> /\ FULL_N(mem_rsp_fifo)
    /\ CacheCycle(req, take, memTake,
                  IF memGive THEN MemLine(Head(pending)) ELSE None)
    /\ LET left == IF memGive THEN Tail(pending) ELSE pending
       IN  pending' = IF memTake THEN Append(left, Head(mem_req_fifo)) ELSE left
    /\ LET left == IF take /\ Rsp # None /\ expect # << >>
                     THEN Tail(expect) ELSE expect
       IN  expect' = IF req # None THEN Append(left, req.addr) ELSE left
    /\ UNCHANGED mem

Cycle ==
    \E req \in Requests \cup {None}, take, memTake, memGive \in BOOLEAN :
        Clock(req, take, memTake, memGive)

\* A cycle in which nobody makes anybody wait and nothing new is asked for.
PromptCycle ==
    Clock(None, TRUE, EMPTY_N(mem_req_fifo) /\ Len(pending) < MemBound,
          pending # << >> /\ FULL_N(mem_rsp_fifo))

Quiet ==
    /\ expect = << >> /\ miss_q = << >> /\ hit_req_fifo = << >>
    /\ cm_req_fifo = << >> /\ cm_state = "idle"

\* The lines of the program the host loads next.
OtherLine(l) == [i \in WordIdx |-> l[i] + 1000]

\* RST_N between two jobs: tags and lines stay, and so do the slots.
Reset ==
    /\ Quiet
    /\ req_fifo' = << >> /\ rsp_fifo_rv' = None
    /\ mem_req_fifo' = << >> /\ mem_rsp_fifo' = << >>
    /\ state' = "idle" /\ miss_q' = << >> /\ hit_req_fifo' = << >>
    /\ cb_i' = 0 /\ cb_o' = 0 /\ cb_n' = 0
    /\ CacheMemReset
    /\ mem' = IF Reload THEN [l \in DOMAIN mem |-> OtherLine(mem[l])] ELSE mem
    /\ UNCHANGED <<token_hit, cb_buff, tag_array, pending, expect>>

\* After configuration: clean_reg_file.txt leaves every line invalid.
Init ==
    /\ req_fifo = << >> /\ rsp_fifo_rv = None
    /\ mem_req_fifo = << >> /\ mem_rsp_fifo = << >>
    /\ state = "idle" /\ token_hit = 0 /\ miss_q = << >> /\ hit_req_fifo = << >>
    /\ cb_i = 0 /\ cb_o = 0 /\ cb_n = 0
    /\ cb_buff = [k \in Slot |-> ZeroLine]     \* not initialised
    /\ tag_array = [i \in 0 .. Sets - 1 |-> None]
    /\ CacheMemInit
    /\ pending = << >> /\ expect = << >>
    /\ mem = [l \in (0 .. Tags - 1) \X (0 .. Sets - 1) |->
                [i \in WordIdx |-> 1 + i + WPL * (l[1] * Sets + l[2])]]

Next == Cycle \/ Reset

(***************************************************************************)
(* Fairness: the clock runs, and frontend and memory are ready again and   *)
(* again.                                                                  *)
(***************************************************************************)
Spec == Init /\ [][Next]_vars /\ WF_vars(PromptCycle)

-----------------------------------------------------------------------------
(***************************************************************************)
(* The lines leave the cache in the order they were asked for, each with   *)
(* what memory holds: although a hit is done before an older miss, fills   *)
(* and hits share the line memory, and slots are used again.               *)
(***************************************************************************)
FetchesInOrder ==
    Rsp # None => expect # << >> /\ Rsp = MemLine(Head(expect))

\* The slots that are reserved and not sent.
Reserved == {(cb_o + k) % Slots : k \in 0 .. cb_n - 1}

(***************************************************************************)
(* A reserved slot without its line is owed to exactly one request, in     *)
(* miss_q or under way as the hit, and no line is written to a slot that   *)
(* is not reserved or has its line: no answer is lost or overwritten, for  *)
(* any number of requests in flight.                                       *)
(***************************************************************************)
SlotsOwed ==
    /\ \A k \in Slot :
          Cardinality({j \in DOMAIN miss_q : miss_q[j].token = k})
            + (IF state = "hit" /\ token_hit = k THEN 1 ELSE 0)
              = IF k \in Reserved /\ cb_buff[k] = None THEN 1 ELSE 0
    /\ cb_n <= Slots /\ cb_i = (cb_o + cb_n) % Slots

(***************************************************************************)
(* A valid tag stands for the line memory holds at its address, once the   *)
(* fills waiting for the line memory are done: a hit may be served from    *)
(* it, also right after the tag was set and across a reset.                *)
(***************************************************************************)
TagsAgree ==
    \A i \in 0 .. Sets - 1 :
        tag_array[i] # None => LineValue(i) = mem[<<tag_array[i], i>>]

(***************************************************************************)
(* Every line asked for is delivered.                                      *)
(***************************************************************************)
FetchServed == expect # << >> ~> Rsp # None
=============================================================================
