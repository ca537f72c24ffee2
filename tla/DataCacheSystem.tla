-------------------------- MODULE DataCacheSystem ---------------------------
(***************************************************************************)
(* The data side of CacheSystem between a core and the memory: frontend,   *)
(* cache and backend share a clock and pass requests and lines on whenever *)
(* one FIFO has an element and the next one room.  The core issues bursts  *)
(* of its choice, no read while a write of its own is unanswered, and      *)
(* writes words that occur nowhere else.  The memory is an AXI slave that  *)
(* takes its time on every channel.                                        *)
(***************************************************************************)
EXTENDS CacheFrontend, DataCache, CacheBackend

CONSTANTS ReadBursts,     \* [addr, len]: bursts the core reads
          WriteBursts,    \* [addr, strb]: strb[i] the words of beat i
          MaxOps,         \* bursts the core issues in all
          MaxReads,       \* reads it keeps in flight
          AnswersPerBurst,\* B responses the memory gives for a write burst
          ResetAnytime    \* TRUE: the reset may come during a transfer

\* Words, lines and requests for lines; the beats on either side.
Value == Nat \cup {Mixed}
Line == [WordIdx -> Value]
LineReq == [addr : Nat, write : BOOLEAN, data : Line, strb : SUBSET WordIdx]
CoreBeat == [data : [Pair -> Nat], strb : SUBSET Pair, last : BOOLEAN]
ReadBeat == [data : [Pair -> Value], last : BOOLEAN]
WriteBeat == [data : [Pair -> Value], strb : SUBSET Pair, last : BOOLEAN]

ASSUME BurstsAssumption ==
    /\ ReadBursts \subseteq [addr : Nat, len : Nat]
    /\ WriteBursts \subseteq [addr : Nat, strb : Seq(SUBSET Pair)]
ASSUME AnswersAssumption == AnswersPerBurst \in 0 .. Beats
ASSUME NoneIsNothing ==
    None \notin Nat \cup {"OKAY"} \cup Line \cup LineReq \cup ReadBeat
                    \cup WriteBeat

VARIABLES ops,            \* bursts issued
          expect,         \* beats the core waits for
          coreAw, coreW,  \* what is left to send of the core's write
          acks,           \* answers the core waits for
          ref,            \* the words as the core has written them
          mem,            \* the words in memory
          s_r, s_aw, s_w, s_b   \* the memory's transfers in progress

envvars == <<ops, expect, coreAw, coreW, acks, ref, mem, s_r, s_aw, s_w, s_b>>
vars == <<fvars, cvars, bvars, envvars>>

Words == 0 .. Sets * Tags * WPL - 1
Word(a, k) == ((a \div 4) + k) % (Sets * Tags * WPL)

-----------------------------------------------------------------------------
(* The core.                                                               *)

Idle == coreAw = None /\ coreW = << >> /\ acks = 0

\* The beats a read must return: two words each, from its address on.
BeatsOf(b) == [i \in 1 .. b.len |->
                 [data |-> [j \in Pair |-> ref[Word(b.addr, 2 * (i - 1) + j)]],
                  last |-> i = b.len]]

Fresh(i, j) == 1000 * (ops + 1) + 2 * i + j

WriteBeats(b) == [i \in 1 .. Len(b.strb) |->
                    [data |-> [j \in Pair |-> Fresh(i, j)],
                     strb |-> b.strb[i], last |-> i = Len(b.strb)]]

Written(b) ==
    [k \in Words |->
        LET hits == {ij \in (1 .. Len(b.strb)) \X Pair :
                        /\ ij[2] \in b.strb[ij[1]]
                        /\ Word(b.addr, 2 * (ij[1] - 1) + ij[2]) = k}
        IN  IF hits = {} THEN ref[k]
            ELSE LET ij == CHOOSE x \in hits : TRUE IN Fresh(ij[1], ij[2])]

MayRead(ar) ==
    \/ ar = None
    \/ ar # None /\ Idle /\ ops < MaxOps /\ f_rd_in = None
       /\ Len(SelectSeq(expect, LAMBDA x : x.last)) < MaxReads
MayWrite(wb) ==
    \/ wb = None
    \/ wb # None /\ Idle /\ ops < MaxOps

\* ar: a read issued now; wb: a write begun now; aw, w: what is offered of
\* the write in progress.
Core(ar, wb, aw, w, rready, bready) ==
    LET newOps == (IF ar = None THEN 0 ELSE 1) + (IF wb = None THEN 0 ELSE 1)
        gotR == CoreR # None /\ rready
        gotB == CoreB(w) # None /\ bready
        left == IF gotR /\ expect # << >> THEN Tail(expect) ELSE expect
    IN  /\ MayRead(ar) /\ MayWrite(wb) /\ ops + newOps <= MaxOps
        /\ ops' = ops + newOps
        /\ expect' = IF ar = None THEN left ELSE left \o BeatsOf(ar)
        /\ ref' = IF wb = None THEN ref ELSE Written(wb)
        /\ coreAw' = IF wb # None
                       THEN [addr |-> wb.addr, len |-> Len(wb.strb)]
                     ELSE IF aw # None /\ f_wr_in_addr = None THEN None
                     ELSE coreAw
        /\ coreW' = IF wb # None THEN WriteBeats(wb)
                    ELSE IF w # None /\ f_wr_in_data = None THEN Tail(coreW)
                    ELSE coreW
        /\ acks' = IF wb # None THEN Len(wb.strb)
                   ELSE IF gotB THEN acks - 1 ELSE acks

-----------------------------------------------------------------------------
(* The memory.                                                             *)

FullBurst == s_aw # None /\ s_w # << >> /\ s_w[Len(s_w)].last

Stored ==
    [k \in Words |->
        LET hits == {i \in 1 .. Len(s_w) : \E j \in s_w[i].strb :
                        Word(s_aw, 2 * (i - 1) + j) = k}
        IN  IF hits = {} THEN mem[k]
            ELSE LET i == CHOOSE x \in hits : TRUE
                     j == CHOOSE y \in s_w[i].strb :
                             Word(s_aw, 2 * (i - 1) + y) = k
                 IN  s_w[i].data[j]]

Burst(a) == [i \in 1 .. Beats |->
               [data |-> [j \in Pair |-> mem[Word(a, 2 * (i - 1) + j)]],
                last |-> i = Beats]]

Memory(arready, r, awready, wready, b) ==
    /\ arready => s_r = << >>
    /\ awready => s_aw = None
    /\ wready => ~FullBurst
    /\ s_r' = IF AR # None /\ arready THEN Burst(AR)
              ELSE IF r # None /\ b_rd_out = None THEN Tail(s_r) ELSE s_r
    /\ s_aw' = IF AW # None /\ awready THEN AW
               ELSE IF FullBurst THEN None ELSE s_aw
    /\ s_w' = IF FullBurst THEN << >>
              ELSE IF W # None /\ wready THEN Append(s_w, W) ELSE s_w
    /\ mem' = IF FullBurst THEN Stored ELSE mem
    /\ s_b' = s_b + (IF FullBurst THEN AnswersPerBurst ELSE 0)
                  - (IF b # None /\ b_wr_out = None THEN 1 ELSE 0)

-----------------------------------------------------------------------------
(* The parts on one clock.                                                 *)

Moves(from, to) == EMPTY_N(from) /\ FULL_N(to)
Passed(from, to) == IF Moves(from, to) THEN Head(from) ELSE None

Clock(ar, wb, aw, w, rready, bready, arready, r, awready, wready, b) ==
    /\ Core(ar, wb, aw, w, rready, bready)
    /\ FrontendCycle(ar, rready, aw, w, bready,
                     Moves(f_req_fifo, req_fifo), Passed(rsp_fifo, f_rsp_fifo))
    /\ CacheCycle(Passed(f_req_fifo, req_fifo), Moves(rsp_fifo, f_rsp_fifo),
                  Moves(mem_req_fifo, b_req_fifo),
                  Passed(b_rsp_fifo, mem_rsp_fifo))
    /\ BackendCycle(Passed(mem_req_fifo, b_req_fifo),
                    Moves(b_rsp_fifo, mem_rsp_fifo),
                    arready, r, awready, wready, b)
    /\ Memory(arready, r, awready, wready, b)

\* A choice that only exists where it makes a difference.
Choice(matters) == IF matters THEN BOOLEAN ELSE {FALSE}
If(c, x) == IF c THEN x ELSE None

Cycle ==
    \E ar \in ReadBursts \cup {None}, wb \in WriteBursts \cup {None},
       offerA \in Choice(coreAw # None), offerW \in Choice(coreW # << >>),
       arready \in Choice(AR # None /\ s_r = << >>),
       awready \in Choice(AW # None /\ s_aw = None),
       wready \in Choice(W # None /\ ~FullBurst),
       giveR \in Choice(s_r # << >>), giveB \in Choice(s_b > 0),
       ready \in BOOLEAN :
          Clock(ar, wb, If(offerA, coreAw), If(offerW, Head(coreW)),
                ready, ready, arready, If(giveR, Head(s_r)),
                awready, wready, If(giveB, "OKAY"))

\* A cycle in which nobody makes anybody wait and nothing new is asked for.
PromptCycle ==
    Clock(None, None, coreAw, If(coreW # << >>, Head(coreW)), TRUE, TRUE,
          s_r = << >>, If(s_r # << >>, Head(s_r)),
          s_aw = None, ~FullBurst, If(s_b > 0, "OKAY"))

\* Nothing is on its way in any of the parts.
PipelineEmpty ==
    /\ f_req_fifo = << >> /\ f_rsp_fifo = << >>
    /\ req_fifo = << >> /\ rsp_fifo = << >>
    /\ mem_req_fifo = << >> /\ mem_rsp_fifo = << >>
    /\ cm_req_fifo = << >> /\ cm_rsp_fifo = << >>
    /\ b_req_fifo = << >> /\ b_rsp_fifo = << >>
    /\ state = "idle" /\ cm_state = "idle" /\ b_state = "idle"
FrontendIdle ==
    /\ core_state = "idle" /\ axi_state = "idle" /\ rd_req_fifo = << >>
    /\ f_rd_in = None /\ f_wr_in_addr = None /\ f_wr_in_data = None
    /\ f_rd_out = None
MemoryIdle == s_r = << >> /\ s_aw = None /\ s_w = << >> /\ s_b = 0
Quiet == Idle /\ expect = << >> /\ FrontendIdle /\ PipelineEmpty /\ MemoryIdle

\* RVController drives RST_N of core and cache alike; without a transfer in
\* progress nobody but the registers loses anything.
Reset ==
    /\ ResetAnytime \/ Quiet
    /\ FrontendReset /\ CacheReset /\ BackendReset
    /\ expect' = << >> /\ coreAw' = None /\ coreW' = << >> /\ acks' = 0
    /\ s_r' = << >> /\ s_aw' = None /\ s_w' = << >> /\ s_b' = 0
    /\ UNCHANGED <<ops, ref, mem>>

Init ==
    /\ FrontendInit /\ CacheInit /\ BackendInit
    /\ ops = 0 /\ expect = << >> /\ coreAw = None /\ coreW = << >> /\ acks = 0
    /\ mem = [k \in Words |-> k + 1] /\ ref = mem
    /\ s_r = << >> /\ s_aw = None /\ s_w = << >> /\ s_b = 0

Next == Cycle \/ Reset

(***************************************************************************)
(* Fairness: the clock runs, and core and memory are ready again and again.*)
(***************************************************************************)
Spec == Init /\ [][Next]_vars /\ WF_vars(PromptCycle)

-----------------------------------------------------------------------------
(***************************************************************************)
(* Every beat handed to the core is the one it waits for, with the words   *)
(* last written to its addresses: although writes are answered before      *)
(* they reach the cache, lines are evicted and filled in between, and a    *)
(* beat may come from two lines.                                           *)
(***************************************************************************)
ReadsSeeWrites == CoreR # None => expect # << >> /\ CoreR = Head(expect)

MemLine(t, i) == [n \in WordIdx |-> mem[(t * Sets + i) * WPL + n]]

(***************************************************************************)
(* A line without dirty words holds what memory holds: throwing it away,   *)
(* which start_miss does without asking memory, loses nothing.             *)
(***************************************************************************)
CleanLinesAgree ==
    \A i \in 0 .. Sets - 1 :
        tag_array[i] # None /\ dirty_array[i] = {}
            => LineValue(i) = MemLine(tag_array[i], i)

(***************************************************************************)
(* When nothing is on its way, what a read would find, in the cache or     *)
(* else in memory, is what the core has written: also after a reset, which *)
(* clears the cache's registers and leaves its lines dirty.                *)
(***************************************************************************)
NothingLost ==
    Quiet => \A k \in Words :
        ref[k] = IF tag_array[Index(4 * k)] = Tag(4 * k)
                   THEN bram[Index(4 * k)][k % WPL] ELSE mem[k]

(***************************************************************************)
(* When the frontend has no transaction, no line is left in the pipeline   *)
(* for the next one to take for its own: the lines asked for are exactly   *)
(* the lines consumed.                                                     *)
(***************************************************************************)
NothingLeftBehind == FrontendIdle => PipelineEmpty

(***************************************************************************)
(* What the core has asked for is served, and the cache comes to rest.     *)
(***************************************************************************)
Served == (expect # << >> \/ acks > 0) ~> Quiet
=============================================================================
