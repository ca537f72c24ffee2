----------------------------- MODULE DMIHandler -----------------------------
(***************************************************************************)
(* The simulator's side of the debug connection: DMI_Handler, called at    *)
(* every falling clock edge, the DM_TestBenchInterface it fetches requests *)
(* from, and the RequestResponseFIFO shared with the socket server.        *)
(*                                                                         *)
(* tick() blocks the simulated clock while it waits for a request, so each *)
(* iteration of that wait is an action of its own; every other branch of   *)
(* tick() is one action.  The critical sections of the FIFO contain a      *)
(* single queue operation and are atomic; a failed try_lock only repeats   *)
(* the loop.  The debug module behind the ports (verilated SCR1 or CVA6)   *)
(* is external: it takes an access at a rising edge with dmi_req high and  *)
(* presents the word read DMLatency edges later.                           *)
(***************************************************************************)
EXTENDS Integers, Sequences

CONSTANTS Request,                  \* the requests clients send
          Payload,                  \* data words
          idleBetweenRequests,      \* 50, or 500 for CVA6
          waitForResponseLatency,   \* 2
          DMLatency,                \* rising edges until dmi_rdata is valid
          QueueBound,               \* bound on requests and answers in the FIFO
          None

ResumeWord == 1073741825   \* 0x40000001: resume request, module active

ControlType == {"halt", "resume", "step", "reset", "unknown"}
RequestType == {"dtm", "control", "dm", "register", "memory", "systemBus"}

ASSUME RequestAssumption ==
    Request \subseteq [type : RequestType, isRead : BOOLEAN, addr : Nat,
                       data : Payload, ctrlType : ControlType]
ASSUME PayloadAssumption == Payload \subseteq Nat /\ 0 \in Payload
ASSUME LatencyAssumption ==
    /\ idleBetweenRequests \in Nat
    /\ waitForResponseLatency \in Nat \ {0}
    /\ DMLatency \in 1 .. waitForResponseLatency + 1

VARIABLES request_queue, response_queue,          \* RequestResponseFIFO
          dmi_request_queue,                      \* DM_TestBenchInterface
          busy, latency, idleCycles, isRead,      \* DMI_Handler
          dmi_req, dmi_wr, dmi_addr, dmi_wdata, dmi_rdata,   \* ports
          clk,          \* the edge that comes next
          run,          \* runSim
          dm, dmLeft, dmResult,    \* debug module: registers, read under way
          dmHits        \* accesses it took for the request on the ports

fifo == <<request_queue, response_queue>>
ports == <<dmi_req, dmi_wr, dmi_addr, dmi_wdata>>
handler == <<busy, latency, idleCycles, isRead>>
module == <<dm, dmLeft, dmResult, dmHits, dmi_rdata>>
vars == <<fifo, dmi_request_queue, handler, ports, module, clk, run>>

\* Converter addresses.
CTRL_REG_ADDR == \h00
IDCODE_REG_ADDR == \h04
DTMCS_REG_ADDR == \h08
DMI_REG_ADDR == \h0C
DMI_ADDR_REG_ADDR == \h10

\* The constant answers of the converter.
FixedAnswer ==
    [a \in {CTRL_REG_ADDR, IDCODE_REG_ADDR, DTMCS_REG_ADDR, DMI_ADDR_REG_ADDR} |->
        CASE a = CTRL_REG_ADDR -> \hC751
          [] a = IDCODE_REG_ADDR -> \hD41
          [] a = DTMCS_REG_ADDR -> \hD74C
          [] a = DMI_ADDR_REG_ADDR -> \hADD5]

SUCCESS == 0    \* DMI_ResponseStatus

SelectedReg(word) == word % \h80

DMReg == {SelectedReg(w) : w \in Payload}

Init ==
    /\ request_queue = << >>
    /\ response_queue = << >>
    /\ dmi_request_queue = << >>
    /\ busy = FALSE
    /\ latency = 0
    /\ idleCycles = 0
    /\ isRead \in BOOLEAN               \* not initialised
    /\ dmi_req = FALSE
    /\ dmi_wr = FALSE
    /\ dmi_addr = 0
    /\ dmi_wdata = 0
    /\ clk = "rise"
    /\ run = TRUE
    /\ dm = [r \in DMReg |-> 0]
    /\ dmLeft = 0
    /\ dmResult = 0
    /\ dmi_rdata = 0
    /\ dmHits = 0

-----------------------------------------------------------------------------
(* DM_Interface and DM_TestBenchInterface: one request from the socket.    *)

RegisterFileWords == 65

\* read_dm and write_dm: the cast to an 8-bit enum cuts the address.
Queue(addr, data, write) ==
    dmi_request_queue' = Append(dmi_request_queue,
        [converterAddress |-> addr % 256, payload |-> data, write |-> write])

process_dm(r) ==
    IF r.addr > RegisterFileWords THEN UNCHANGED dmi_request_queue
    ELSE Queue(r.addr, IF r.isRead THEN 0 ELSE r.data, ~r.isRead)

process_dtm(r) ==
    /\ IF r.addr \in {DMI_ADDR_REG_ADDR, DMI_REG_ADDR} THEN process_dm(r)
       ELSE UNCHANGED dmi_request_queue
    /\ response_queue' =
           IF r.isRead /\ r.addr = DTMCS_REG_ADDR
             THEN Append(response_queue,
                         [isRead |-> TRUE, data |-> \h71, success |-> 1])
             ELSE response_queue

\* Only resume does anything: it writes the byte offset of the module's
\* control register (word 16) as a converter address.
process_control(r) ==
    /\ IF r.ctrlType = "resume" THEN Queue(16 * 4, ResumeWord, TRUE)
       ELSE UNCHANGED dmi_request_queue
    /\ UNCHANGED response_queue

process(r) ==
    CASE r.type = "dtm" -> process_dtm(r)
      [] r.type = "control" -> process_control(r)
      [] OTHER -> UNCHANGED <<dmi_request_queue, response_queue>>

-----------------------------------------------------------------------------
(* DMI_Handler::tick at a falling edge.                                    *)

EndTick == clk' = "rise"

push_dmi_response(payload, rd) ==
    response_queue' = Append(response_queue,
        [isRead |-> rd, data |-> payload, success |-> SUCCESS])

\* Mutant: the request flag stays up.
ClearRequest_KeepsFlag ==
    /\ clk = "fall"
    /\ latency > 0
    /\ latency' = latency - 1
    /\ EndTick
    /\ UNCHANGED <<fifo, dmi_request_queue, ports, busy, idleCycles, isRead,
                   module, run>>

ClearRequest ==
    /\ clk = "fall"
    /\ latency > 0
    /\ dmi_req' = FALSE
    /\ latency' = latency - 1
    /\ EndTick
    /\ UNCHANGED <<fifo, dmi_request_queue, dmi_wr, dmi_addr, dmi_wdata, busy,
                   idleCycles, isRead, module, run>>

ReturnResponse ==
    /\ clk = "fall"
    /\ latency = 0
    /\ busy
    /\ push_dmi_response(dmi_rdata, isRead)
    /\ busy' = FALSE
    /\ idleCycles' = idleBetweenRequests
    /\ EndTick
    /\ UNCHANGED <<request_queue, dmi_request_queue, latency, isRead, ports,
                   module, run>>

Idle ==
    /\ clk = "fall"
    /\ latency = 0
    /\ ~busy
    /\ idleCycles > 0
    /\ idleCycles' = idleCycles - 1
    /\ EndTick
    /\ UNCHANGED <<fifo, dmi_request_queue, busy, latency, isRead, ports,
                   module, run>>

\* Mutant: the wait for a request does not test whether one is under way.
Receiving_WhileBusy == clk = "fall" /\ latency = 0 /\ idleCycles = 0

\* The handler is inside pop_dmi_request.
Receiving == clk = "fall" /\ latency = 0 /\ ~busy /\ idleCycles = 0

\* An access that needs no debug module; it may select the register.
HandleFixed ==
    /\ Receiving
    /\ dmi_request_queue # << >>
    /\ LET req == Head(dmi_request_queue)
       IN  /\ req.converterAddress \in DOMAIN FixedAnswer
           /\ isRead' = ~req.write
           /\ dmi_addr' = IF req.converterAddress = DMI_ADDR_REG_ADDR
                            THEN SelectedReg(req.payload) ELSE dmi_addr
           /\ push_dmi_response(FixedAnswer[req.converterAddress], ~req.write)
    /\ dmi_request_queue' = Tail(dmi_request_queue)
    /\ EndTick
    /\ UNCHANGED <<request_queue, busy, latency, idleCycles, dmi_req, dmi_wr,
                   dmi_wdata, module, run>>

\* Mutant: the direction of the access is not driven.
HandleAccess_NoWr ==
    /\ Receiving
    /\ dmi_request_queue # << >>
    /\ LET req == Head(dmi_request_queue)
       IN  /\ req.converterAddress = DMI_REG_ADDR
           /\ isRead' = ~req.write
           /\ dmi_wdata' = req.payload
    /\ dmi_req' = TRUE
    /\ latency' = waitForResponseLatency
    /\ busy' = TRUE
    /\ dmi_request_queue' = Tail(dmi_request_queue)
    /\ dmHits' = 0
    /\ EndTick
    /\ UNCHANGED <<fifo, idleCycles, dmi_wr, dmi_addr, dm, dmLeft, dmResult,
                   dmi_rdata, run>>

HandleAccess ==
    /\ Receiving
    /\ dmi_request_queue # << >>
    /\ LET req == Head(dmi_request_queue)
       IN  /\ req.converterAddress = DMI_REG_ADDR
           /\ isRead' = ~req.write
           /\ dmi_wdata' = req.payload
           /\ dmi_wr' = req.write
    /\ dmi_req' = TRUE
    /\ latency' = waitForResponseLatency
    /\ busy' = TRUE
    /\ dmi_request_queue' = Tail(dmi_request_queue)
    /\ dmHits' = 0
    /\ EndTick
    /\ UNCHANGED <<fifo, idleCycles, dmi_addr, dm, dmLeft, dmResult, dmi_rdata,
                   run>>

\* A converter address the handler does not know: reported, not answered.
HandleInvalid ==
    /\ Receiving
    /\ dmi_request_queue # << >>
    /\ LET req == Head(dmi_request_queue)
       IN  /\ req.converterAddress \notin DOMAIN FixedAnswer \cup {DMI_REG_ADDR}
           /\ isRead' = ~req.write
    /\ dmi_request_queue' = Tail(dmi_request_queue)
    /\ EndTick
    /\ UNCHANGED <<fifo, busy, latency, idleCycles, ports, module, run>>

\* Mutant: the request stays in the queue.
FetchRequest_NoPop ==
    /\ Receiving
    /\ dmi_request_queue = << >>
    /\ request_queue # << >>
    /\ process(Head(request_queue))
    /\ clk' = IF run THEN clk ELSE "rise"
    /\ UNCHANGED <<request_queue, handler, ports, module, run>>

\* One iteration of the wait that finds a request in the FIFO.
FetchRequest ==
    /\ Receiving
    /\ dmi_request_queue = << >>
    /\ request_queue # << >>
    /\ process(Head(request_queue))
    /\ request_queue' = Tail(request_queue)
    /\ clk' = IF run THEN clk ELSE "rise"
    /\ UNCHANGED <<handler, ports, module, run>>

\* Mutant: the wait ends only with a request.
GiveUp_NeedsRequest ==
    /\ Receiving
    /\ dmi_request_queue = << >>
    /\ ~run
    /\ request_queue # << >>
    /\ EndTick
    /\ UNCHANGED <<fifo, dmi_request_queue, handler, ports, module, run>>

\* The wait is given up once the simulation is stopped.  (It gives up with a
\* request in the FIFO when try_lock fails.)
GiveUp ==
    /\ Receiving
    /\ dmi_request_queue = << >>
    /\ ~run
    /\ EndTick
    /\ UNCHANGED <<fifo, dmi_request_queue, handler, ports, module, run>>

Tick ==
    \/ ClearRequest
    \/ ReturnResponse
    \/ Idle
    \/ HandleFixed
    \/ HandleAccess
    \/ HandleInvalid
    \/ FetchRequest
    \/ GiveUp

-----------------------------------------------------------------------------
(* The debug module at a rising edge.                                      *)

RisingEdge ==
    /\ clk = "rise"
    /\ clk' = "fall"
    /\ IF dmi_req
         THEN /\ dm' = IF dmi_wr THEN [dm EXCEPT ![dmi_addr] = dmi_wdata] ELSE dm
              /\ dmResult' = dm[dmi_addr]
              /\ dmLeft' = DMLatency - 1
              /\ dmi_rdata' = IF DMLatency = 1 THEN dm[dmi_addr] ELSE dmi_rdata
              /\ dmHits' = dmHits + 1
         ELSE /\ dmLeft' = IF dmLeft > 0 THEN dmLeft - 1 ELSE 0
              /\ dmi_rdata' = IF dmLeft = 1 THEN dmResult ELSE dmi_rdata
              /\ UNCHANGED <<dm, dmResult, dmHits>>
    /\ UNCHANGED <<fifo, dmi_request_queue, handler, ports, run>>

-----------------------------------------------------------------------------
(* The socket server's side of the FIFO, and the signal handler.           *)

push_request(r) == request_queue' = Append(request_queue, r)

PushRequest ==
    /\ Len(request_queue) + Len(response_queue) < QueueBound
    /\ \E r \in Request : push_request(r)
    /\ UNCHANGED <<response_queue, dmi_request_queue, handler, ports, module,
                   clk, run>>

PopResponse ==
    /\ response_queue # << >>
    /\ response_queue' = Tail(response_queue)
    /\ UNCHANGED <<request_queue, dmi_request_queue, handler, ports, module,
                   clk, run>>

Interrupt ==
    /\ run
    /\ run' = FALSE
    /\ UNCHANGED <<fifo, dmi_request_queue, handler, ports, module, clk>>

Next == Tick \/ RisingEdge \/ PushRequest \/ PopResponse \/ Interrupt

(***************************************************************************)
(* Fairness: the simulation loop keeps going round.                        *)
(***************************************************************************)
Spec == Init /\ [][Next]_vars /\ WF_vars(Tick \/ RisingEdge)

-----------------------------------------------------------------------------
Response == [isRead : BOOLEAN, data : Nat, success : {0, 1}]
DMIRequest == [converterAddress : 0 .. 255, payload : Nat, write : BOOLEAN]

TypeOK ==
    /\ request_queue \in Seq(Request)
    /\ response_queue \in Seq(Response)
    /\ dmi_request_queue \in Seq(DMIRequest)
    /\ busy \in BOOLEAN
    /\ latency \in 0 .. waitForResponseLatency
    /\ idleCycles \in 0 .. idleBetweenRequests
    /\ isRead \in BOOLEAN
    /\ dmi_req \in BOOLEAN
    /\ dmi_wr \in BOOLEAN
    /\ dmi_addr \in 0 .. \h7F
    /\ dmi_wdata \in Nat
    /\ dmi_rdata \in Nat
    /\ clk \in {"rise", "fall"}
    /\ run \in BOOLEAN
    /\ dmLeft \in 0 .. DMLatency - 1
    /\ dmHits \in Nat

(***************************************************************************)
(* A request is one access: when the handler takes the answer, the module  *)
(* has sampled dmi_req high exactly once for it and the word on dmi_rdata  *)
(* is the one this access read, for every latency the handler is built     *)
(* with.                                                                   *)
(***************************************************************************)
AccessedOnce ==
    /\ dmHits <= 1
    /\ clk = "fall" /\ latency = 0 /\ busy => dmHits = 1 /\ dmLeft = 0

(***************************************************************************)
(* The interface behind the ports never holds more than one request, so    *)
(* the answer process_dtm gives at once never overtakes an earlier one.    *)
(***************************************************************************)
OneAtATime ==
    Len(dmi_request_queue) <= 1 /\ (busy => dmi_request_queue = << >>)

(***************************************************************************)
(* The life of an access, which makes AccessedOnce inductive: dmi_req is   *)
(* high exactly from the tick that sets it to the next one, and what is    *)
(* left of the module's answer never exceeds what is left of the wait.     *)
(***************************************************************************)
PulseInv ==
    /\ dmi_req => busy /\ latency = waitForResponseLatency
    /\ latency > 0 => busy
    /\ dmHits <= 1
    /\ busy /\ clk = "rise" =>
          \/ dmi_req /\ dmHits = 0
          \/ ~dmi_req /\ dmHits = 1 /\ dmLeft <= latency + 1
    /\ busy /\ clk = "fall" => dmHits = 1 /\ dmLeft <= latency
=============================================================================
