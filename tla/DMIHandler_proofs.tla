-------------------------- MODULE DMIHandler_proofs --------------------------
(***************************************************************************)
(* Proofs about DMIHandler, for every latency the handler can be built     *)
(* with, every idle time and every mix of requests; then about the main    *)
(* programs that drive it, SimMain, and that the whole implements          *)
(* DebugTransport.                                                         *)
(***************************************************************************)
EXTENDS MCDMIHandler, SequenceLemmas, TLAPS

\* The types the argument needs.
CtlType ==
    /\ request_queue \in Seq(Request)
    /\ dmi_request_queue \in Seq(DMIRequest)
    /\ busy \in BOOLEAN
    /\ latency \in 0 .. waitForResponseLatency
    /\ idleCycles \in 0 .. idleBetweenRequests
    /\ dmi_req \in BOOLEAN
    /\ clk \in {"rise", "fall"}
    /\ dmLeft \in 0 .. DMLatency - 1
    /\ dmHits \in Nat

IInv == CtlType /\ PulseInv /\ OneAtATime

(***************************************************************************)
(* What the interface queues for the handler: nothing, or one DMI request. *)
(***************************************************************************)
LEMMA ProcessQueues ==
    ASSUME NEW r \in Request, dmi_request_queue = << >>, process(r)
    PROVE  \/ dmi_request_queue' = << >>
           \/ \E d \in DMIRequest : dmi_request_queue' = <<d>>
<1>1. /\ r.addr \in Nat /\ r.data \in Nat /\ r.isRead \in BOOLEAN
  BY RequestAssumption, PayloadAssumption
<1>2. ASSUME NEW a \in Nat, NEW d \in Nat, NEW w \in BOOLEAN, Queue(a, d, w)
      PROVE  \E q \in DMIRequest : dmi_request_queue' = <<q>>
  <2> DEFINE q == [converterAddress |-> a % 256, payload |-> d, write |-> w]
  <2>1. a % 256 \in 0 .. 255
    OBVIOUS
  <2>2. q \in DMIRequest
    BY <2>1 DEF DMIRequest
  <2>3. dmi_request_queue' = <<q>>
    <3>1. dmi_request_queue' = Append(<< >>, q)
      BY <1>2 DEF Queue
    <3> QED BY <3>1
  <2> QED BY <2>2, <2>3
<1>3. CASE r.type = "dtm"
  <2>1. process_dtm(r)
    BY <1>3 DEF process
  <2>2. CASE UNCHANGED dmi_request_queue
    BY <2>2
  <2>3. CASE Queue(r.addr, IF r.isRead THEN 0 ELSE r.data, ~r.isRead)
    <3> DEFINE d == IF r.isRead THEN 0 ELSE r.data
               w == ~r.isRead
    <3>1. d \in Nat /\ w \in BOOLEAN
      BY <1>1
    <3>2. Queue(r.addr, d, w)
      BY <2>3
    <3> HIDE DEF d, w
    <3> QED BY <1>1, <1>2, <3>1, <3>2, Zenon
  <2>4. \/ process_dm(r)
        \/ UNCHANGED dmi_request_queue
    BY <2>1 DEF process_dtm
  <2>5. CASE process_dm(r)
    BY <2>2, <2>3, <2>5 DEF process_dm
  <2> QED BY <2>2, <2>4, <2>5, Zenon
<1>4. CASE r.type = "control"
  <2>1. process_control(r)
    BY <1>4 DEF process
  <2>2. CASE r.ctrlType = "resume"
    <3>1. Queue(16 * 4, ResumeWord, TRUE)
      BY <2>1, <2>2 DEF process_control
    <3>2. ResumeWord \in Nat /\ 16 * 4 \in Nat
      BY DEF ResumeWord
    <3>3. TRUE \in BOOLEAN
      OBVIOUS
    <3> QED BY <3>1, <3>2, <3>3, <1>2, Zenon
  <2>3. CASE r.ctrlType # "resume"
    BY <2>1, <2>3 DEF process_control
  <2> QED BY <2>2, <2>3
<1>5. CASE r.type # "dtm" /\ r.type # "control"
  BY <1>5 DEF process
<1> QED BY <1>3, <1>4, <1>5

(***************************************************************************)
(* Removing the only queued request leaves none.                           *)
(***************************************************************************)
LEMMA TailOfOne ==
    ASSUME dmi_request_queue \in Seq(DMIRequest), Len(dmi_request_queue) <= 1,
           dmi_request_queue # << >>
    PROVE  /\ Tail(dmi_request_queue) = << >>
           /\ Tail(dmi_request_queue) \in Seq(DMIRequest)
<1>1. Len(dmi_request_queue) = 1
  <2>1. Len(dmi_request_queue) \in Nat \ {0}
    BY EmptySeq, Zenon
  <2> DEFINE n == Len(dmi_request_queue)
  <2>2. n \in Nat \ {0} /\ n <= 1
    BY <2>1, Zenon
  <2> HIDE DEF n
  <2>3. n = 1
    BY ONLY <2>2
  <2> QED BY <2>3, Zenon DEF n
<1>2. Tail(dmi_request_queue) \in Seq(DMIRequest) /\ Len(Tail(dmi_request_queue)) = 0
  BY <1>1
<1> QED BY <1>2, EmptySeq

(***************************************************************************)
(* The handler as constructed satisfies the inductive invariant.           *)
(***************************************************************************)
LEMMA InitIInv == Init => IInv
<1> SUFFICES ASSUME Init PROVE IInv
  OBVIOUS
<1>1. CtlType
  <2>1. /\ request_queue = << >> /\ dmi_request_queue = << >>
        /\ latency = 0 /\ idleCycles = 0 /\ clk = "rise"
        /\ dmLeft = 0 /\ dmHits = 0
    BY DEF Init
  <2>2. busy \in BOOLEAN /\ dmi_req \in BOOLEAN
    BY Zenon DEF Init
  <2> QED BY <2>1, <2>2, LatencyAssumption, EmptySeq DEF CtlType
<1>2. ~dmi_req /\ ~busy /\ latency = 0 /\ dmHits = 0 /\ dmi_request_queue = << >>
  BY DEF Init
<1>3. PulseInv
  BY <1>2 DEF PulseInv
<1>4. OneAtATime
  BY <1>2 DEF OneAtATime
<1> QED BY <1>1, <1>3, <1>4 DEF IInv

(***************************************************************************)
(* Every step preserves the inductive invariant.                           *)
(***************************************************************************)
LEMMA NextIInv == IInv /\ [Next]_vars => IInv'
<1> SUFFICES ASSUME IInv, [Next]_vars PROVE IInv'
  OBVIOUS
<1> USE LatencyAssumption
<1>1. CASE ClearRequest
  <2>1. /\ clk = "fall" /\ latency > 0 /\ latency' = latency - 1
        /\ clk' = "rise"
        /\ busy' = busy /\ idleCycles' = idleCycles
        /\ dmLeft' = dmLeft /\ dmHits' = dmHits
        /\ request_queue' = request_queue
        /\ dmi_request_queue' = dmi_request_queue
    BY <1>1 DEF ClearRequest, EndTick, fifo, module
  <2>2. ~dmi_req' /\ dmi_req' \in BOOLEAN
    BY <1>1, Zenon DEF ClearRequest
  <2>3. busy
    BY <2>1 DEF IInv, PulseInv
  <2>4. CtlType'
    BY <2>1, <2>2 DEF IInv, CtlType
  <2>5. PulseInv'
    BY <2>1, <2>2, <2>3 DEF IInv, CtlType, PulseInv
  <2>6. OneAtATime'
    BY <2>1 DEF IInv, OneAtATime
  <2> QED BY <2>4, <2>5, <2>6 DEF IInv
<1>2. CASE ReturnResponse
  <2>1. /\ clk = "fall" /\ latency = 0 /\ latency' = latency
        /\ clk' = "rise"
        /\ dmi_req' = dmi_req /\ idleCycles' = idleBetweenRequests
        /\ dmLeft' = dmLeft /\ dmHits' = dmHits
        /\ request_queue' = request_queue
        /\ dmi_request_queue' = dmi_request_queue
    BY <1>2 DEF ReturnResponse, EndTick, ports, module
  <2>2. ~busy' /\ busy' \in BOOLEAN
    BY <1>2, Zenon DEF ReturnResponse
  <2>3. ~dmi_req
    BY <2>1 DEF IInv, PulseInv
  <2>4. CtlType'
    BY <2>1, <2>2 DEF IInv, CtlType
  <2>5. PulseInv'
    BY <2>1, <2>2, <2>3 DEF IInv, CtlType, PulseInv
  <2>6. OneAtATime'
    BY <2>1, <2>2 DEF IInv, OneAtATime
  <2> QED BY <2>4, <2>5, <2>6 DEF IInv
<1>3. CASE Idle
  BY <1>3 DEF IInv, CtlType, PulseInv, OneAtATime, Idle, EndTick, fifo, ports,
              module
<1>4. CASE HandleFixed
  BY <1>4, TailOfOne
     DEF IInv, CtlType, PulseInv, OneAtATime, HandleFixed, Receiving, EndTick,
         module
<1>5. CASE HandleAccess
  BY <1>5, TailOfOne
     DEF IInv, CtlType, PulseInv, OneAtATime, HandleAccess, Receiving, EndTick,
         fifo
<1>6. CASE HandleInvalid
  BY <1>6, TailOfOne
     DEF IInv, CtlType, PulseInv, OneAtATime, HandleInvalid, Receiving, EndTick,
         fifo, ports, module
<1>7. CASE FetchRequest
  <2>1. Head(request_queue) \in Request /\ Tail(request_queue) \in Seq(Request)
    BY <1>7 DEF IInv, CtlType, FetchRequest
  <2>2. \/ dmi_request_queue' = << >>
        \/ \E d \in DMIRequest : dmi_request_queue' = <<d>>
    BY <1>7, <2>1, ProcessQueues DEF FetchRequest
  <2>3. /\ dmi_request_queue' \in Seq(DMIRequest)
        /\ Len(dmi_request_queue') <= 1
    <3>1. CASE dmi_request_queue' = << >>
      BY <3>1, EmptySeq
    <3>2. CASE \E d \in DMIRequest : dmi_request_queue' = <<d>>
      <4>1. PICK d \in DMIRequest : dmi_request_queue' = <<d>>
        BY <3>2
      <4> QED BY <4>1
    <3> QED BY <2>2, <3>1, <3>2
  <2>4. /\ ~busy /\ busy' = busy /\ latency' = latency
        /\ idleCycles' = idleCycles /\ dmi_req' = dmi_req
        /\ dmLeft' = dmLeft /\ dmHits' = dmHits
        /\ clk' \in {"rise", "fall"}
        /\ request_queue' = Tail(request_queue)
    BY <1>7 DEF FetchRequest, Receiving, handler, ports, module
  <2> QED BY <2>1, <2>3, <2>4 DEF IInv, CtlType, PulseInv, OneAtATime
<1>8. CASE GiveUp
  BY <1>8 DEF IInv, CtlType, PulseInv, OneAtATime, GiveUp, Receiving, EndTick,
              fifo, handler, ports, module
<1>9. CASE RisingEdge
  BY <1>9 DEF IInv, CtlType, PulseInv, OneAtATime, RisingEdge, fifo, handler,
              ports
<1>10. CASE PushRequest
  BY <1>10 DEF IInv, CtlType, PulseInv, OneAtATime, PushRequest, push_request,
               handler, ports, module
<1>11. CASE PopResponse
  BY <1>11 DEF IInv, CtlType, PulseInv, OneAtATime, PopResponse, handler,
               ports, module
<1>12. CASE Interrupt
  BY <1>12 DEF IInv, CtlType, PulseInv, OneAtATime, Interrupt, fifo, handler,
               ports, module
<1>13. CASE UNCHANGED vars
  BY <1>13 DEF IInv, CtlType, PulseInv, OneAtATime, vars, fifo, handler, ports,
               module
<1> QED BY <1>1, <1>2, <1>3, <1>4, <1>5, <1>6, <1>7, <1>8, <1>9, <1>10, <1>11,
           <1>12, <1>13 DEF Next, Tick

(***************************************************************************)
(* The inductive invariant of DMI_Handler::tick holds throughout: the      *)
(* types of its counters and queues, the one-cycle request pulse tied to   *)
(* the latency count, and a request queue of at most one entry.            *)
(***************************************************************************)
THEOREM Invariance == Spec => []IInv
BY InitIInv, NextIInv, PTL DEF Spec

(***************************************************************************)
(* Every DMI access of the handler reaches the debug module exactly once,  *)
(* and its answer is taken when the word read is there, for every          *)
(* waitForResponseLatency of at least one cycle and every module that      *)
(* answers within it.                                                      *)
(***************************************************************************)
THEOREM OneAccessPerRequest == Spec => []AccessedOnce
<1>1. IInv => AccessedOnce
  BY LatencyAssumption DEF IInv, CtlType, PulseInv, AccessedOnce
<1> QED BY <1>1, Invariance, PTL

(***************************************************************************)
(* The handler's queue never holds more than the request being fetched.    *)
(***************************************************************************)
THEOREM QueueOfOne == Spec => []OneAtATime
<1>1. IInv => OneAtATime
  BY DEF IInv
<1> QED BY <1>1, Invariance, PTL

-----------------------------------------------------------------------------
(***************************************************************************)
(* The simulator implements DebugTransport.                                *)
(***************************************************************************)
Ask == [addr : Nat, isRead : BOOLEAN, data : Nat] \cup {None}
Said == [isRead : BOOLEAN, data : Nat \cup {None}]

\* What the interface queues for the handler: a read or write of the selected
\* register, its selection, or the address the handler does not know.
Known(q) ==
    /\ q \in DMIRequest
    /\ ~q.write => q.payload = 0
    /\ \/ q.converterAddress = DMI_REG_ADDR
       \/ q.converterAddress = DMI_ADDR_REG_ADDR /\ SelectedReg(q.payload) \in DMReg
       \/ q.converterAddress \notin DOMAIN FixedAnswer \cup {DMI_REG_ADDR}

DataInv ==
    /\ response_queue \in Seq(Response)
    /\ isRead \in BOOLEAN
    /\ dmi_wr \in BOOLEAN
    /\ dmi_addr \in DMReg
    /\ dmi_wdata \in Nat
    /\ dmi_rdata \in Nat
    /\ dmResult \in Nat
    /\ dm \in [DMReg -> Nat]

\* The ports carry the access the handler remembers, and the word read is on
\* them once the module's answer is due.
AccessInv ==
    /\ busy => dmi_wr = ~isRead
    /\ busy /\ dmHits > 0 /\ dmLeft = 0 => dmi_rdata = dmResult
    /\ dmi_request_queue # << >> => Known(Head(dmi_request_queue))

TransportInv == IInv /\ DataInv /\ AccessInv

LEMMA RegsAreWords == DMReg \subseteq Nat /\ 0 \in DMReg /\ 0 \in Nat
<1>1. \A w \in Payload : w \in Nat
    BY PayloadAssumption
<1>2. \A w \in Payload : SelectedReg(w) \in Nat
    BY <1>1 DEF SelectedReg
<1>3. SelectedReg(0) = 0 /\ 0 \in Payload
    BY PayloadAssumption DEF SelectedReg
<1>. QED BY <1>2, <1>3 DEF DMReg

LEMMA TransportInit == Init => TransportInv
<1>. SUFFICES ASSUME Init PROVE TransportInv
    OBVIOUS
<1>1. /\ response_queue = << >> /\ isRead \in BOOLEAN /\ dmi_wr = FALSE
      /\ dmi_addr = 0 /\ dmi_wdata = 0 /\ dmi_rdata = 0 /\ dmResult = 0
      /\ dm = [r \in DMReg |-> 0] /\ busy = FALSE /\ dmi_request_queue = << >>
    BY Zenon DEF Init
<1>2. DataInv
    BY <1>1, RegsAreWords, EmptySeq DEF DataInv
<1>3. AccessInv
    BY <1>1 DEF AccessInv
<1>. QED BY <1>2, <1>3, InitIInv DEF TransportInv

\* The answers of the handler and of the interface.
LEMMA AnswersAreResponses ==
    ASSUME NEW s \in Seq(Response), NEW d \in Nat, NEW rd \in BOOLEAN,
           NEW ok \in {0, 1}
    PROVE  Append(s, [isRead |-> rd, data |-> d, success |-> ok]) \in Seq(Response)
<1>1. [isRead |-> rd, data |-> d, success |-> ok] \in Response
    BY DEF Response
<1>. QED BY <1>1, AppendProperties

LEMMA PushedAnswer ==
    ASSUME response_queue \in Seq(Response), NEW d \in Nat, NEW rd \in BOOLEAN,
           push_dmi_response(d, rd)
    PROVE  response_queue' \in Seq(Response)
<1>1. response_queue' = Append(response_queue,
          [isRead |-> rd, data |-> d, success |-> SUCCESS])
    BY Zenon DEF push_dmi_response
<1>2. SUCCESS \in {0, 1}
    BY DEF SUCCESS
<1>. QED BY <1>1, <1>2, AnswersAreResponses

(***************************************************************************)
(* What one request of the socket becomes: nothing, an answer at once, or  *)
(* one entry of the handler's queue that asks the same.                    *)
(***************************************************************************)
Ignored(r) ==
    /\ ~Answerable(r)
    /\ dmi_request_queue' = << >>
    /\ response_queue' = response_queue

AnsweredAtOnce(r) ==
    /\ Answerable(r) /\ r.isRead /\ r.addr = DTMCS_REG_ADDR
    /\ dmi_request_queue' = << >>
    /\ response_queue' = Append(response_queue,
                                [isRead |-> TRUE, data |-> \h71, success |-> 1])

Passed(r, q) ==
    /\ dmi_request_queue' = <<q>>
    /\ Known(q)
    /\ QueuedAccess(q) = Asked(r)
    /\ response_queue' = response_queue

LEMMA RequestFields ==
    ASSUME NEW r \in Request
    PROVE  /\ r.addr \in Nat /\ r.data \in Payload /\ r.isRead \in BOOLEAN
           /\ r.data \in Nat
BY RequestAssumption, PayloadAssumption

LEMMA Processed ==
    ASSUME NEW r \in Request, dmi_request_queue = << >>, process(r)
    PROVE  \/ Ignored(r) \/ AnsweredAtOnce(r)
           \/ \E q \in DMIRequest : Passed(r, q)
<1>0. /\ r.addr \in Nat /\ r.data \in Payload /\ r.isRead \in BOOLEAN
      /\ r.data \in Nat
    BY RequestFields
<1>1. CASE r.type = "dtm"
    <2>1. process_dtm(r)
        BY <1>1 DEF process
    <2>2. CASE r.addr \in {DMI_ADDR_REG_ADDR, DMI_REG_ADDR}
        <3> DEFINE d == IF r.isRead THEN 0 ELSE r.data
                   w == ~r.isRead
                   q == [converterAddress |-> r.addr, payload |-> d, write |-> w]
        <3>1. /\ r.addr % 256 = r.addr /\ r.addr \in 0 .. 255
              /\ ~(r.addr > RegisterFileWords) /\ r.addr # DTMCS_REG_ADDR
            BY <2>2 DEF DMI_ADDR_REG_ADDR, DMI_REG_ADDR, RegisterFileWords,
               DTMCS_REG_ADDR
        <3>2. Queue(r.addr, d, w) /\ response_queue' = response_queue
            BY <2>1, <2>2, <3>1 DEF process_dtm, process_dm
        <3>3. /\ d \in Nat /\ w \in BOOLEAN /\ (~w => d = 0)
              /\ SelectedReg(d) \in DMReg
            BY <1>0, PayloadAssumption DEF DMReg
        <3>4. Answerable(r)
            BY <1>1, <2>2 DEF Answerable
        <3>5. QueuedAccess(q) = Asked(r)
            BY <1>0, <2>2, <3>4 DEF QueuedAccess, Asked, Access
        <3> HIDE DEF d, w
        <3>6. q \in DMIRequest /\ Known(q)
            BY <2>2, <3>1, <3>3 DEF DMIRequest, Known
        <3>7. dmi_request_queue' = <<q>>
            <4>1. dmi_request_queue' = Append(<< >>, q)
                BY <3>1, <3>2 DEF Queue
            <4>. QED BY <4>1
        <3>. QED BY <3>2, <3>5, <3>6, <3>7 DEF Passed
    <2>3. CASE r.addr \notin {DMI_ADDR_REG_ADDR, DMI_REG_ADDR}
        <3>1. dmi_request_queue' = << >>
            BY <2>1, <2>3 DEF process_dtm
        <3>2. CASE r.isRead /\ r.addr = DTMCS_REG_ADDR
            BY <1>1, <2>1, <3>1, <3>2 DEF process_dtm, AnsweredAtOnce, Answerable
        <3>3. CASE ~(r.isRead /\ r.addr = DTMCS_REG_ADDR)
            BY <2>1, <2>3, <3>1, <3>3 DEF process_dtm, Ignored, Answerable
        <3>. QED BY <3>2, <3>3
    <2>. QED BY <2>2, <2>3
<1>2. CASE r.type = "control"
    <2>1. process_control(r) /\ ~Answerable(r)
        BY <1>2 DEF process, Answerable
    <2>2. CASE r.ctrlType = "resume"
        <3> DEFINE q == [converterAddress |-> 64, payload |-> ResumeWord,
                         write |-> TRUE]
        <3>1. Queue(16 * 4, ResumeWord, TRUE) /\ response_queue' = response_queue
            BY <2>1, <2>2, Zenon DEF process_control
        <3>5. (16 * 4) % 256 = 64
            OBVIOUS
        <3>2. q \in DMIRequest /\ Known(q)
            BY DEF DMIRequest, Known, ResumeWord, FixedAnswer, CTRL_REG_ADDR,
               IDCODE_REG_ADDR, DTMCS_REG_ADDR, DMI_ADDR_REG_ADDR, DMI_REG_ADDR
        <3>3. QueuedAccess(q) = Asked(r)
            BY <2>1 DEF QueuedAccess, Asked, DMI_REG_ADDR, DMI_ADDR_REG_ADDR
        <3>4. dmi_request_queue' = <<q>>
            <4>1. dmi_request_queue' = Append(<< >>, q)
                BY <3>1, <3>5 DEF Queue
            <4>. QED BY <4>1
        <3>. QED BY <3>1, <3>2, <3>3, <3>4 DEF Passed
    <2>3. CASE r.ctrlType # "resume"
        BY <2>1, <2>3 DEF process_control, Ignored
    <2>. QED BY <2>2, <2>3
<1>3. CASE r.type \notin {"dtm", "control"}
    <2>1. UNCHANGED <<dmi_request_queue, response_queue>>
        BY <1>3 DEF process
    <2>. QED BY <1>3, <2>1 DEF Ignored, Answerable
<1>. QED BY <1>1, <1>2, <1>3

(***************************************************************************)
(* The data and the access under way, action by action.                    *)
(***************************************************************************)
LEMMA QueueHead ==
    ASSUME TransportInv, dmi_request_queue # << >>
    PROVE  /\ Known(Head(dmi_request_queue))
           /\ Head(dmi_request_queue) \in DMIRequest
           /\ Head(dmi_request_queue).payload \in Nat
           /\ Head(dmi_request_queue).write \in BOOLEAN
           /\ dmi_request_queue \in Seq(DMIRequest)
           /\ Tail(dmi_request_queue) = << >>
           /\ dmi_request_queue = <<Head(dmi_request_queue)>>
<1>1. /\ Known(Head(dmi_request_queue))
      /\ dmi_request_queue \in Seq(DMIRequest) /\ Len(dmi_request_queue) <= 1
    BY DEF TransportInv, AccessInv, IInv, CtlType, OneAtATime
<1>2. Tail(dmi_request_queue) = << >>
    BY <1>1, TailOfOne
<1>3. /\ Head(dmi_request_queue).payload \in Nat
      /\ Head(dmi_request_queue).write \in BOOLEAN
    BY <1>1 DEF Known, DMIRequest
<1>4. Len(dmi_request_queue) = 1
    <2>1. Len(dmi_request_queue) \in Nat \ {0}
        BY <1>1, EmptySeq, Zenon
    <2> DEFINE n == Len(dmi_request_queue)
    <2>2. n \in Nat \ {0} /\ n <= 1
        BY <1>1, <2>1, Zenon
    <2> HIDE DEF n
    <2>3. n = 1
        BY ONLY <2>2
    <2>. QED BY <2>3, Zenon DEF n
<1>5. dmi_request_queue = <<Head(dmi_request_queue)>>
    <2> DEFINE h == Head(dmi_request_queue)
    <2>1. h \in DMIRequest /\ h = dmi_request_queue[1]
        BY <1>1, <1>4 DEF Known
    <2> HIDE DEF h
    <2>2. <<h>> \in Seq(DMIRequest) /\ Len(<<h>>) = 1 /\ <<h>>[1] = h
        BY <2>1
    <2>3. \A i \in 1 .. 1 : dmi_request_queue[i] = <<h>>[i]
        BY <2>1, <2>2
    <2>4. dmi_request_queue = <<h>>
        BY <1>1, <1>4, <2>2, <2>3, SeqEqual
    <2>. QED BY <2>4 DEF h
<1>. QED BY <1>1, <1>2, <1>3, <1>5 DEF Known

LEMMA TransportTick ==
    ASSUME TransportInv, Tick
    PROVE  (DataInv /\ AccessInv)'
<1>. USE DEF EndTick
<1>0. /\ response_queue \in Seq(Response) /\ isRead \in BOOLEAN
      /\ dmi_wr \in BOOLEAN /\ dmi_addr \in DMReg /\ dmi_wdata \in Nat
      /\ dmi_rdata \in Nat /\ dmResult \in Nat /\ dm \in [DMReg -> Nat]
    BY DEF TransportInv, DataInv
<1>1. CASE ClearRequest
    BY <1>0, <1>1 DEF ClearRequest, fifo, module, TransportInv, DataInv, AccessInv
<1>2. CASE ReturnResponse
    <2>1. push_dmi_response(dmi_rdata, isRead)
        BY <1>2, Zenon DEF ReturnResponse
    <2>2. response_queue' \in Seq(Response)
        BY <1>0, <2>1, PushedAnswer
    <2>3. UNCHANGED <<isRead, ports, module, dmi_request_queue>>
        BY <1>2 DEF ReturnResponse
    <2>4. ~busy'
        BY <1>2, Zenon DEF ReturnResponse
    <2>5. DataInv'
        BY <1>0, <2>2, <2>3 DEF DataInv, ports, module
    <2>6. AccessInv'
        BY <2>3, <2>4 DEF TransportInv, AccessInv
    <2>. QED BY <2>5, <2>6
<1>3. CASE Idle
    BY <1>0, <1>3 DEF Idle, fifo, ports, module, TransportInv, DataInv, AccessInv
<1>4. CASE HandleFixed
    <2> DEFINE q == Head(dmi_request_queue)
    <2>1. dmi_request_queue # << >>
        BY <1>4 DEF HandleFixed
    <2>2. /\ Known(q) /\ q.payload \in Nat /\ q.write \in BOOLEAN
          /\ Tail(dmi_request_queue) = << >>
        BY <2>1, QueueHead
    <2> HIDE DEF q
    <2>3. /\ q.converterAddress \in DOMAIN FixedAnswer
          /\ isRead' = ~q.write
          /\ dmi_addr' = IF q.converterAddress = DMI_ADDR_REG_ADDR
                           THEN SelectedReg(q.payload) ELSE dmi_addr
          /\ push_dmi_response(FixedAnswer[q.converterAddress], ~q.write)
          /\ dmi_request_queue' = Tail(dmi_request_queue)
        BY <1>4, Zenon DEF HandleFixed, q
    <2>4. /\ UNCHANGED <<dmi_wr, dmi_wdata, module, busy>> /\ ~busy
        BY <1>4, Zenon DEF HandleFixed, Receiving
    <2>5. /\ q.converterAddress = DMI_ADDR_REG_ADDR
          /\ SelectedReg(q.payload) \in DMReg
        BY <2>2, <2>3 DEF Known, FixedAnswer, CTRL_REG_ADDR, IDCODE_REG_ADDR,
           DTMCS_REG_ADDR, DMI_ADDR_REG_ADDR, DMI_REG_ADDR
    <2>6. FixedAnswer[q.converterAddress] = \hADD5
        BY <2>5 DEF FixedAnswer, CTRL_REG_ADDR, IDCODE_REG_ADDR,
           DTMCS_REG_ADDR, DMI_ADDR_REG_ADDR
    <2>7. response_queue' \in Seq(Response)
        <3> DEFINE w == ~q.write
                   d == FixedAnswer[q.converterAddress]
        <3>1. w \in BOOLEAN /\ d \in Nat
            BY <2>6
        <3>2. push_dmi_response(d, w)
            BY <2>3
        <3> HIDE DEF w, d
        <3>. QED BY <1>0, <3>1, <3>2, PushedAnswer
    <2>8. isRead' \in BOOLEAN
        BY <2>3
    <2>9. DataInv'
        BY <1>0, <2>3, <2>4, <2>5, <2>7, <2>8 DEF DataInv, module
    <2>10. AccessInv'
        BY <2>2, <2>3, <2>4 DEF AccessInv
    <2>. QED BY <2>9, <2>10
<1>5. CASE HandleAccess
    <2> DEFINE q == Head(dmi_request_queue)
    <2>1. dmi_request_queue # << >>
        BY <1>5 DEF HandleAccess
    <2>2. /\ q.payload \in Nat /\ q.write \in BOOLEAN
          /\ Tail(dmi_request_queue) = << >>
        BY <2>1, QueueHead
    <2> HIDE DEF q
    <2>3. /\ isRead' = ~q.write
          /\ dmi_wdata' = q.payload
          /\ dmi_wr' = q.write
          /\ dmi_request_queue' = Tail(dmi_request_queue)
        BY <1>5, Zenon DEF HandleAccess, q
    <2>4. /\ UNCHANGED <<fifo, dmi_addr, dm, dmResult, dmi_rdata>>
          /\ dmHits' = 0
        BY <1>5 DEF HandleAccess
    <2>5. isRead' \in BOOLEAN /\ dmi_wr' \in BOOLEAN /\ dmi_wr' = ~isRead'
        BY <2>2, <2>3, Zenon
    <2>6. DataInv'
        BY <1>0, <2>2, <2>3, <2>4, <2>5 DEF DataInv, fifo
    <2>7. AccessInv'
        BY <2>2, <2>3, <2>4, <2>5 DEF AccessInv
    <2>. QED BY <2>6, <2>7
<1>6. CASE HandleInvalid
    <2> DEFINE q == Head(dmi_request_queue)
    <2>1. dmi_request_queue # << >>
        BY <1>6 DEF HandleInvalid
    <2>2. q.write \in BOOLEAN /\ Tail(dmi_request_queue) = << >>
        BY <2>1, QueueHead
    <2> HIDE DEF q
    <2>3. /\ isRead' = ~q.write
          /\ dmi_request_queue' = Tail(dmi_request_queue)
          /\ UNCHANGED <<fifo, busy, ports, module>> /\ ~busy
        BY <1>6, Zenon DEF HandleInvalid, q, Receiving
    <2>4. isRead' \in BOOLEAN
        BY <2>3
    <2>5. DataInv'
        BY <1>0, <2>3, <2>4 DEF DataInv, fifo, ports, module
    <2>6. AccessInv'
        BY <2>2, <2>3 DEF AccessInv
    <2>. QED BY <2>5, <2>6
<1>7. CASE FetchRequest
    <2>1. /\ dmi_request_queue = << >> /\ request_queue # << >>
          /\ process(Head(request_queue)) /\ ~busy
          /\ UNCHANGED <<handler, ports, module>>
        BY <1>7, Zenon DEF FetchRequest, Receiving
    <2>2. Head(request_queue) \in Request
        BY <2>1, HeadTailProperties DEF TransportInv, IInv, CtlType
    <2>3. /\ response_queue' \in Seq(Response)
          /\ dmi_request_queue' # << >> => Known(Head(dmi_request_queue'))
        <3>1. CASE Ignored(Head(request_queue))
            BY <1>0, <3>1 DEF Ignored
        <3>2. CASE AnsweredAtOnce(Head(request_queue))
            BY <1>0, <3>2, AnswersAreResponses DEF AnsweredAtOnce
        <3>3. CASE \E q \in DMIRequest : Passed(Head(request_queue), q)
            BY <1>0, <3>3 DEF Passed
        <3>. QED BY <2>1, <2>2, <3>1, <3>2, <3>3, Processed
    <2>4. DataInv'
        BY <1>0, <2>1, <2>3 DEF DataInv, handler, ports, module
    <2>5. AccessInv'
        BY <2>1, <2>3 DEF AccessInv, handler
    <2>. QED BY <2>4, <2>5
<1>8. CASE GiveUp
    BY <1>0, <1>8 DEF GiveUp, fifo, handler, ports, module, TransportInv,
       DataInv, AccessInv
<1>. QED BY <1>1, <1>2, <1>3, <1>4, <1>5, <1>6, <1>7, <1>8 DEF Tick

LEMMA TransportRise ==
    ASSUME TransportInv, RisingEdge
    PROVE  (DataInv /\ AccessInv)'
<1>0. /\ response_queue \in Seq(Response) /\ isRead \in BOOLEAN
      /\ dmi_wr \in BOOLEAN /\ dmi_addr \in DMReg /\ dmi_wdata \in Nat
      /\ dmi_rdata \in Nat /\ dmResult \in Nat /\ dm \in [DMReg -> Nat]
    BY DEF TransportInv, DataInv
<1>1. UNCHANGED <<fifo, dmi_request_queue, handler, ports>> /\ clk = "rise"
    BY DEF RisingEdge
<1>2. dm[dmi_addr] \in Nat
    BY <1>0
<1>3. CASE dmi_req
    <2>1. /\ dm' = IF dmi_wr THEN [dm EXCEPT ![dmi_addr] = dmi_wdata] ELSE dm
          /\ dmResult' = dm[dmi_addr]
          /\ dmLeft' = DMLatency - 1
          /\ dmi_rdata' = IF DMLatency = 1 THEN dm[dmi_addr] ELSE dmi_rdata
        BY <1>3 DEF RisingEdge
    <2>2. DataInv'
        BY <1>0, <1>1, <1>2, <2>1 DEF DataInv, fifo, ports, handler
    <2>3. dmLeft' = 0 => dmi_rdata' = dmResult'
        BY <2>1, LatencyAssumption
    <2>4. AccessInv'
        BY <1>1, <2>3 DEF AccessInv, TransportInv, handler, ports
    <2>. QED BY <2>2, <2>4
<1>4. CASE ~dmi_req
    <2>1. /\ dmLeft' = IF dmLeft > 0 THEN dmLeft - 1 ELSE 0
          /\ dmi_rdata' = IF dmLeft = 1 THEN dmResult ELSE dmi_rdata
          /\ UNCHANGED <<dm, dmResult, dmHits>>
        BY <1>4 DEF RisingEdge
    <2>2. DataInv'
        BY <1>0, <1>1, <2>1 DEF DataInv, fifo, ports, handler
    <2>3. dmLeft \in Nat
        BY LatencyAssumption DEF TransportInv, IInv, CtlType
    <2>4. busy /\ dmHits > 0 /\ dmLeft' = 0 => dmi_rdata' = dmResult
        BY <2>1, <2>3 DEF TransportInv, AccessInv
    <2>5. AccessInv'
        BY <1>1, <2>1, <2>4 DEF AccessInv, TransportInv, handler, ports
    <2>. QED BY <2>2, <2>5
<1>. QED BY <1>3, <1>4

LEMMA TransportStep == TransportInv /\ [Next]_vars => TransportInv'
<1>. SUFFICES ASSUME TransportInv, [Next]_vars PROVE TransportInv'
    OBVIOUS
<1>0. IInv'
    BY NextIInv DEF TransportInv
<1>1. CASE Tick
    BY <1>0, <1>1, TransportTick DEF TransportInv
<1>2. CASE RisingEdge
    BY <1>0, <1>2, TransportRise DEF TransportInv
<1>3. CASE PopResponse
    <2>1. response_queue' \in Seq(Response)
        BY <1>3, HeadTailProperties DEF PopResponse, TransportInv, DataInv
    <2>. QED BY <1>0, <1>3, <2>1 DEF PopResponse, TransportInv, DataInv, AccessInv,
             handler, ports, module
<1>4. CASE PushRequest \/ Interrupt \/ UNCHANGED vars
    <2>1. UNCHANGED <<response_queue, dmi_request_queue, handler, ports, module>>
        BY <1>4 DEF PushRequest, Interrupt, vars, fifo
    <2>. QED BY <1>0, <2>1 DEF TransportInv, DataInv, AccessInv, handler, ports,
             module
<1>. QED BY <1>1, <1>2, <1>3, <1>4 DEF Next

-----------------------------------------------------------------------------
(***************************************************************************)
(* The simulators' main programs drive the handler.  A falling edge before *)
(* the handler exists only moves the clock.                                *)
(***************************************************************************)
MainStepType ==
    [op : {"newHandler", "start_listening", "stop_listening", "exitAndCleanup"}]
        \cup [op : {"run"}, limit : Nat, check : BOOLEAN]

\* exitAndCleanup is the last step of main, and only it removes the handler.
ScriptInv ==
    /\ main \in Seq(MainStepType)
    /\ \A i \in 1 .. Len(main) : main[i].op = "exitAndCleanup" => i = Len(main)
    /\ busy => dmiHandler \/ main = << >>

SimInv == TransportInv /\ ScriptInv

ClockOnly ==
    /\ ~busy
    /\ clk' = "rise"
    /\ UNCHANGED <<fifo, dmi_request_queue, handler, ports, module, run>>

LEMMA ClockOnlyKeeps == TransportInv /\ ClockOnly => TransportInv'
<1>. SUFFICES ASSUME TransportInv, ClockOnly PROVE TransportInv'
    OBVIOUS
<1>1. /\ UNCHANGED <<fifo, dmi_request_queue, handler, ports, module>>
      /\ ~busy /\ clk' = "rise"
    BY DEF ClockOnly
<1>2. IInv'
    BY <1>1 DEF TransportInv, IInv, CtlType, PulseInv, OneAtATime, fifo, handler,
       ports, module
<1>3. (DataInv /\ AccessInv)'
    BY <1>1 DEF TransportInv, DataInv, AccessInv, fifo, handler, ports, module
<1>. QED BY <1>2, <1>3 DEF TransportInv

LEMMA SimSteps ==
    ASSUME ScriptInv, [SimNext]_simvars
    PROVE  [Next]_vars \/ ClockOnly
<1>1. CASE Rise
    BY <1>1 DEF Rise, Next
<1>2. CASE Fall
    <2>1. CASE dmiHandler
        BY <1>2, <2>1 DEF Fall, Next
    <2>2. CASE ~dmiHandler
        <3>1. main # << >>
            BY <1>2 DEF Fall, At
        <3>2. ~busy
            BY <2>2, <3>1 DEF ScriptInv
        <3>. QED BY <1>2, <2>2, <3>2 DEF Fall, EndTick, ClockOnly
    <2>. QED BY <2>1, <2>2
<1>3. CASE NewHandler \/ start_listening \/ stop_listening \/ exitAndCleanup
    BY <1>3 DEF NewHandler, start_listening, stop_listening, exitAndCleanup
<1>4. CASE Environment
    BY <1>4 DEF Environment, Next
<1>5. CASE Exited \/ UNCHANGED simvars
    BY <1>5 DEF Exited, simvars
<1>. QED BY <1>1, <1>2, <1>3, <1>4, <1>5 DEF SimNext, MainStep

LEMMA ScriptStep == ScriptInv /\ [SimNext]_simvars => ScriptInv'
<1>. SUFFICES ASSUME ScriptInv, [SimNext]_simvars PROVE ScriptInv'
    OBVIOUS
<1>1. ASSUME At("run") \/ At("newHandler") \/ At("start_listening")
                \/ At("stop_listening") \/ At("exitAndCleanup"),
             NextStep
      PROVE  /\ main' \in Seq(MainStepType)
             /\ \A i \in 1 .. Len(main') :
                   main'[i].op = "exitAndCleanup" => i = Len(main')
             /\ At("exitAndCleanup") => main' = << >>
    <2>1. main # << >> /\ main' = Tail(main)
        BY <1>1 DEF At, NextStep
    <2>2. /\ main' \in Seq(MainStepType) /\ Len(main') = Len(main) - 1
          /\ \A i \in 1 .. Len(main') : main'[i] = main[i + 1]
          /\ Len(main) \in Nat \ {0} /\ Head(main) = main[1]
        BY <2>1, HeadTailProperties, EmptySeq DEF ScriptInv
    <2>3. ASSUME NEW i \in 1 .. Len(main'), main'[i].op = "exitAndCleanup"
          PROVE  i = Len(main')
        <3>1. i + 1 \in 1 .. Len(main) /\ main[i + 1].op = "exitAndCleanup"
            BY <2>2, <2>3
        <3>2. i + 1 = Len(main)
            BY <3>1 DEF ScriptInv
        <3>. QED BY <2>2, <3>2
    <2>4. ASSUME At("exitAndCleanup") PROVE main' = << >>
        <3>1. 1 = Len(main)
            BY <2>2, <2>4 DEF ScriptInv, At
        <3> DEFINE n == Len(main)
        <3>2. Len(main') = n - 1 /\ n = 1
            BY <2>2, <3>1, Zenon
        <3> HIDE DEF n
        <3>4. Len(main') = 0
            BY ONLY <3>2
        <3>3. \A s \in Seq(MainStepType) : Len(s) = 0 => s = << >>
            BY EmptySeq
        <3>. QED BY <2>2, <3>3, <3>4
    <2>. QED BY <2>2, <2>3, <2>4
<1>2. CASE Rise
    BY <1>2 DEF Rise, RisingEdge, handler, ScriptInv
<1>3. CASE Fall
    <2>1. /\ main' \in Seq(MainStepType)
          /\ \A i \in 1 .. Len(main') :
                main'[i].op = "exitAndCleanup" => i = Len(main')
        BY <1>1, <1>3 DEF Fall, EndOfCycle, ScriptInv
    <2>2. dmiHandler' = dmiHandler /\ main # << >>
        BY <1>3 DEF Fall, At
    <2>3. dmiHandler \/ ~busy'
        BY <1>3, <2>2 DEF Fall, handler, ScriptInv
    <2>. QED BY <2>1, <2>2, <2>3 DEF ScriptInv
<1>4. CASE NewHandler
    <2>1. At("newHandler") /\ NextStep /\ dmiHandler'
        BY <1>4, Zenon DEF NewHandler
    <2>. QED BY <1>1, <2>1 DEF ScriptInv
<1>5. CASE start_listening \/ stop_listening
    <2>1. (At("start_listening") \/ At("stop_listening")) /\ NextStep
        BY <1>5 DEF start_listening, stop_listening
    <2>2. UNCHANGED <<vars, dmiHandler>>
        BY <1>5 DEF start_listening, stop_listening
    <2>3. busy' = busy /\ dmiHandler' = dmiHandler /\ main # << >>
        BY <2>1, <2>2 DEF vars, handler, At
    <2>. QED BY <1>1, <2>1, <2>3 DEF ScriptInv
<1>6. CASE exitAndCleanup
    <2>1. At("exitAndCleanup") /\ NextStep
        BY <1>6 DEF exitAndCleanup
    <2>. QED BY <1>1, <2>1 DEF ScriptInv
<1>7. CASE Environment \/ Exited \/ UNCHANGED simvars
    <2>1. UNCHANGED mainvars
        BY <1>7 DEF Environment, Exited, simvars
    <2>2. busy' = busy
        BY <1>7 DEF Environment, PushRequest, PopResponse, Interrupt, Exited,
           simvars, vars, handler
    <2>. QED BY <2>1, <2>2 DEF ScriptInv, mainvars
<1>. QED BY <1>2, <1>3, <1>4, <1>5, <1>6, <1>7 DEF SimNext, MainStep

(***************************************************************************)
(* Every command line gives a script that ends in exitAndCleanup and has   *)
(* it nowhere else.                                                        *)
(***************************************************************************)
BodyStep == {s \in MainStepType : s.op # "exitAndCleanup"}

LEMMA ScriptParts ==
    /\ \A n \in Nat : \A c \in BOOLEAN : Run(n, c) \in Seq(BodyStep)
    /\ Do("newHandler") \in Seq(BodyStep)
    /\ Do("start_listening") \in Seq(BodyStep)
    /\ Do("stop_listening") \in Seq(BodyStep)
    /\ \A s \in Seq(BodyStep) : \A given : When(given, s) \in Seq(BodyStep)
    /\ \A s, t \in Seq(BodyStep) : s \o t \in Seq(BodyStep)
<1>1. ASSUME NEW n \in Nat, NEW c \in BOOLEAN PROVE Run(n, c) \in Seq(BodyStep)
    <2> DEFINE s == [op |-> "run", limit |-> n, check |-> c]
    <2>1. s \in BodyStep
        BY DEF BodyStep, MainStepType
    <2> HIDE DEF s
    <2>2. <<s>> \in Seq(BodyStep)
        BY <2>1
    <2>. QED BY <2>2 DEF Run, s
<1>2. ASSUME NEW o \in {"newHandler", "start_listening", "stop_listening"}
      PROVE  Do(o) \in Seq(BodyStep)
    <2> DEFINE s == [op |-> o]
    <2>1. s \in BodyStep
        BY DEF BodyStep, MainStepType
    <2> HIDE DEF s
    <2>2. <<s>> \in Seq(BodyStep)
        BY <2>1
    <2>. QED BY <2>2 DEF Do, s
<1>3. \A s \in Seq(BodyStep) : \A given : When(given, s) \in Seq(BodyStep)
    BY EmptySeq DEF When
<1>4. \A s, t \in Seq(BodyStep) : s \o t \in Seq(BodyStep)
    BY ConcatProperties
<1>. QED BY <1>1, <1>2, <1>3, <1>4

LEMMA ScriptBody ==
    ASSUME NEW opt \in Options, ~opt.bad
    PROVE  main_scr1(opt) \in Seq(BodyStep) /\ main_cva6(opt) \in Seq(BodyStep)
<1>1. /\ opt.s \in Nat /\ opt.n \in Nat /\ ResetCycles \in Nat /\ BootCycles \in Nat
    BY OptionsAssumption
<1>2. untilStopped(opt.o) \in Seq(BodyStep)
    <2>1. Run(0, TRUE) \in Seq(BodyStep)
        BY ScriptParts
    <2>. QED BY <2>1, ScriptParts DEF untilStopped
<1>3. reset_scr1 \in Seq(BodyStep) /\ reset_cva6 \in Seq(BodyStep)
    <2>1. Run(ResetCycles, FALSE) \in Seq(BodyStep)
          /\ Run(BootCycles, FALSE) \in Seq(BodyStep)
        BY <1>1, ScriptParts
    <2>. QED BY <2>1, ScriptParts DEF reset_scr1, reset_cva6
<1>4. /\ When(opt.s > 0, Run(opt.s, TRUE)) \in Seq(BodyStep)
      /\ When(opt.n > 0, Run(opt.n, TRUE)) \in Seq(BodyStep)
      /\ When(opt.n > 0, Run(opt.n, FALSE)) \in Seq(BodyStep)
    <2>1. /\ Run(opt.s, TRUE) \in Seq(BodyStep)
          /\ Run(opt.n, TRUE) \in Seq(BodyStep)
          /\ Run(opt.n, FALSE) \in Seq(BodyStep)
        BY <1>1, ScriptParts
    <2>. QED BY <2>1, ScriptParts
<1>. QED BY <1>2, <1>3, <1>4, ScriptParts DEF main_scr1, main_cva6

LEMMA ScriptInit == SimInit => ScriptInv
<1>. SUFFICES ASSUME SimInit PROVE ScriptInv
    OBVIOUS
<1> DEFINE last == [op |-> "exitAndCleanup"]
<1>1. PICK opt \in Options : main = Script(opt)
    BY DEF SimInit
<1>2. PICK body \in Seq(BodyStep) : main = body \o <<last>>
    <2>1. << >> \in Seq(BodyStep)
        BY EmptySeq
    <2>. QED BY <1>1, <2>1, ScriptBody DEF Script, Do
<1>3. last \in MainStepType /\ last.op = "exitAndCleanup"
    BY DEF MainStepType
<1>. HIDE DEF last
<1>4. <<last>> \in Seq(MainStepType) /\ Len(<<last>>) = 1 /\ <<last>>[1] = last
    BY <1>3
<1>5. /\ body \in Seq(MainStepType)
      /\ \A i \in 1 .. Len(body) : body[i].op # "exitAndCleanup"
    <2>1. \A i \in 1 .. Len(body) : body[i] \in BodyStep
        BY ElementOfSeq
    <2>2. body \in Seq(MainStepType)
        BY <2>1, SeqDef, LenProperties DEF BodyStep
    <2>. QED BY <2>1, <2>2 DEF BodyStep
<1>6. /\ main \in Seq(MainStepType) /\ Len(main) = Len(body) + 1
      /\ \A i \in 1 .. Len(main) :
            main[i] = IF i <= Len(body) THEN body[i] ELSE <<last>>[i - Len(body)]
      /\ Len(body) \in Nat
    BY <1>2, <1>4, <1>5, ConcatProperties, LenProperties
<1>7. \A i \in 1 .. Len(main) : main[i].op = "exitAndCleanup" => i = Len(main)
    BY <1>5, <1>6
<1>8. ~busy
    BY DEF SimInit, Init
<1>. QED BY <1>6, <1>7, <1>8 DEF ScriptInv

LEMMA SimInvariance == SimSpec => []SimInv
<1>1. SimInit => SimInv
    BY TransportInit, ScriptInit DEF SimInit, SimInv
<1>2. SimInv /\ [SimNext]_simvars => SimInv'
    BY SimSteps, ScriptStep, TransportStep, ClockOnlyKeeps DEF SimInv
<1>. QED BY <1>1, <1>2, PTL DEF SimSpec

-----------------------------------------------------------------------------
(***************************************************************************)
(* What the queues of the transport are, read off the handler's.           *)
(***************************************************************************)
SentOf(q) == [i \in 1 .. Len(q) |-> Asked(q[i])]
SaidOf(q) == [i \in 1 .. Len(q) |-> Reported(q[i].isRead, q[i].data)]

LEMMA AskedIsAsk == \A r \in Request : Asked(r) \in Ask
<1>1. ASSUME NEW r \in Request, Answerable(r) PROVE Asked(r) \in Ask
    <2>1. Access(r.addr, r.isRead, r.data) \in [addr : Nat, isRead : BOOLEAN, data : Nat]
        BY RequestFields DEF Access
    <2>. QED BY <1>1, <2>1 DEF Asked, Ask
<1>. QED BY <1>1 DEF Asked, Ask

LEMMA SentQueue ==
    ASSUME NEW q \in Seq(Request)
    PROVE  /\ SentOf(q) \in Seq(Ask)
           /\ q # << >> =>
                 /\ SentOf(q) # << >>
                 /\ Head(SentOf(q)) = Asked(Head(q))
                 /\ SentOf(Tail(q)) = Tail(SentOf(q))
           /\ \A r \in Request : SentOf(Append(q, r)) = Append(SentOf(q), Asked(r))
<1> DEFINE f == [r \in Request |-> Asked(r)]
<1>1. \A p \in Seq(Request) : SentOf(p) = Image(f, p)
    <2>1. ASSUME NEW p \in Seq(Request) PROVE SentOf(p) = Image(f, p)
        <3>1. \A i \in 1 .. Len(p) : p[i] \in Request
            BY ElementOfSeq
        <3>. QED BY <3>1 DEF SentOf, Image
    <2>. QED BY <2>1
<1>2. \A r \in Request : f[r] = Asked(r) /\ f[r] \in Ask
    BY AskedIsAsk
<1> HIDE DEF f
<1>3. SentOf(q) \in Seq(Ask)
    BY <1>1, <1>2, ImageIsSeq
<1>4. ASSUME q # << >>
      PROVE  /\ SentOf(q) # << >>
             /\ Head(SentOf(q)) = Asked(Head(q))
             /\ SentOf(Tail(q)) = Tail(SentOf(q))
    <2>1. Head(q) \in Request /\ Tail(q) \in Seq(Request)
        BY <1>4, HeadTailProperties
    <2>2. /\ Image(f, q) # << >> /\ Head(Image(f, q)) = f[Head(q)]
          /\ Image(f, Tail(q)) = Tail(Image(f, q))
        BY <1>4, ImageOfTail
    <2>. QED BY <1>1, <1>2, <2>1, <2>2
<1>5. ASSUME NEW r \in Request
      PROVE  SentOf(Append(q, r)) = Append(SentOf(q), Asked(r))
    <2>1. Append(q, r) \in Seq(Request)
        BY AppendProperties
    <2>2. Image(f, Append(q, r)) = Append(Image(f, q), f[r])
        BY ImageOfAppend
    <2>. QED BY <1>1, <1>2, <2>1, <2>2
<1>. QED BY <1>3, <1>4, <1>5

LEMMA SaidQueue ==
    ASSUME NEW q \in Seq(Response)
    PROVE  /\ q # << >> =>
                 /\ SaidOf(q) # << >>
                 /\ SaidOf(Tail(q)) = Tail(SaidOf(q))
           /\ \A rd \in BOOLEAN, d \in Nat, ok \in {0, 1} :
                 SaidOf(Append(q, [isRead |-> rd, data |-> d, success |-> ok]))
                    = Append(SaidOf(q), Reported(rd, d))
<1> DEFINE f == [r \in Response |-> Reported(r.isRead, r.data)]
<1>1. \A p \in Seq(Response) : SaidOf(p) = Image(f, p)
    <2>1. ASSUME NEW p \in Seq(Response) PROVE SaidOf(p) = Image(f, p)
        <3>1. \A i \in 1 .. Len(p) : p[i] \in Response
            BY ElementOfSeq
        <3>. QED BY <3>1 DEF SaidOf, Image
    <2>. QED BY <2>1
<1>2. \A r \in Response : f[r] = Reported(r.isRead, r.data)
    OBVIOUS
<1> HIDE DEF f
<1>4. ASSUME q # << >>
      PROVE  SaidOf(q) # << >> /\ SaidOf(Tail(q)) = Tail(SaidOf(q))
    <2>1. Tail(q) \in Seq(Response)
        BY <1>4, HeadTailProperties
    <2>2. Image(f, q) # << >> /\ Image(f, Tail(q)) = Tail(Image(f, q))
        BY <1>4, ImageOfTail
    <2>. QED BY <1>1, <2>1, <2>2
<1>5. ASSUME NEW rd \in BOOLEAN, NEW d \in Nat, NEW ok \in {0, 1}
      PROVE  SaidOf(Append(q, [isRead |-> rd, data |-> d, success |-> ok]))
                = Append(SaidOf(q), Reported(rd, d))
    <2> DEFINE r == [isRead |-> rd, data |-> d, success |-> ok]
    <2>1. r \in Response /\ r.isRead = rd /\ r.data = d
        BY DEF Response
    <2> HIDE DEF r
    <2>2. Append(q, r) \in Seq(Response)
        BY <2>1, AppendProperties
    <2>3. Image(f, Append(q, r)) = Append(Image(f, q), f[r])
        BY <2>1, ImageOfAppend
    <2>4. SaidOf(Append(q, r)) = Append(SaidOf(q), Reported(rd, d))
        BY <1>1, <1>2, <2>1, <2>2, <2>3
    <2>. QED BY <2>4 DEF r
<1>. QED BY <1>4, <1>5

\* The oldest request, and what is left without it.
LEMMA QueueFront ==
    ASSUME NEW x \in Ask, NEW s \in Seq(Ask)
    PROVE  /\ <<x>> \o s # << >>
           /\ Head(<<x>> \o s) = x
           /\ Tail(<<x>> \o s) = s
<1>1. <<x>> \in Seq(Ask) /\ Len(<<x>>) = 1 /\ <<x>>[1] = x
    OBVIOUS
<1>2. <<x>> # << >> /\ Tail(<<x>>) = << >>
    OBVIOUS
<1>3. <<x>> \o s # << >> /\ Tail(<<x>> \o s) = << >> \o s
    BY <1>1, <1>2, TailOfConcat
<1>4. << >> \o s = s
    BY ConcatEmptySeq
<1>5. Head(<<x>> \o s) = x
    <2>1. /\ <<x>> \o s \in Seq(Ask) /\ Len(s) \in Nat
          /\ \A i \in 1 .. 1 + Len(s) :
                (<<x>> \o s)[i] = IF i <= 1 THEN <<x>>[i] ELSE s[i - 1]
        BY <1>1, ConcatProperties, LenProperties
    <2>2. (<<x>> \o s)[1] = x
        BY <1>1, <2>1
    <2>. QED BY <1>3, <2>1, <2>2, HeadTailProperties
<1>. QED BY <1>3, <1>4, <1>5

LEMMA FrontAgain ==
    ASSUME NEW s \in Seq(Ask), s # << >>
    PROVE  <<Head(s)>> \o Tail(s) = s
<1>1. << >> \in Seq(Ask) /\ Head(s) \in Ask
    BY EmptySeq, HeadTailProperties
<1>2. Append(<< >>, Head(s)) \o Tail(s) = << >> \o s
    BY <1>1, Moved
<1>3. Append(<< >>, Head(s)) = <<Head(s)>> /\ << >> \o s = s
    BY <1>1, ConcatEmptySeq
<1>. QED BY <1>2, <1>3

\* At most one request is between the FIFO and the debug module.
Shape ==
    /\ SentRequests = SentOf(request_queue)
    /\ SentAnswers = SaidOf(response_queue)
    /\ SentRequests \in Seq(Ask)
    /\ ~(busy /\ dmHits = 0) /\ dmi_request_queue = << >> =>
          PendingRequests = SentRequests
    /\ dmi_request_queue # << >> =>
          /\ QueuedAccess(Head(dmi_request_queue)) \in Ask
          /\ PendingRequests =
                <<QueuedAccess(Head(dmi_request_queue))>> \o SentRequests
    /\ busy /\ dmHits = 0 =>
          /\ Access(DMI_REG_ADDR, isRead, dmi_wdata) \in Ask
          /\ PendingRequests =
                <<Access(DMI_REG_ADDR, isRead, dmi_wdata)>> \o SentRequests

LEMMA ShapeHolds == TransportInv => Shape
<1>. SUFFICES ASSUME TransportInv PROVE Shape
    OBVIOUS
<1>1. request_queue \in Seq(Request)
    BY DEF TransportInv, IInv, CtlType
<1>2. SentRequests = SentOf(request_queue) /\ SentAnswers = SaidOf(response_queue)
    BY DEF SentRequests, SentOf, SentAnswers, SaidOf
<1>3. SentRequests \in Seq(Ask) /\ << >> \o SentRequests = SentRequests
    BY <1>1, <1>2, SentQueue, ConcatEmptySeq
<1>4. ASSUME dmi_request_queue = << >> PROVE QueuedRequests = << >>
    <2>1. Len(dmi_request_queue) = 0
        BY <1>4
    <2>. QED BY <2>1 DEF QueuedRequests
<1>5. ASSUME ~(busy /\ dmHits = 0) PROVE OnPorts = << >>
    BY <1>5 DEF OnPorts
<1>6. ASSUME ~(busy /\ dmHits = 0), dmi_request_queue = << >>
      PROVE  PendingRequests = SentRequests
    BY <1>3, <1>4, <1>5, <1>6 DEF PendingRequests
<1>7. ASSUME dmi_request_queue # << >>
      PROVE  /\ QueuedAccess(Head(dmi_request_queue)) \in Ask
             /\ PendingRequests =
                   <<QueuedAccess(Head(dmi_request_queue))>> \o SentRequests
    <2> DEFINE q == Head(dmi_request_queue)
               x == QueuedAccess(q)
    <2>1. /\ q.payload \in Nat /\ q.write \in BOOLEAN /\ q \in DMIRequest
          /\ dmi_request_queue = <<q>>
        BY <1>7, QueueHead
    <2>2. x \in Ask
        BY <2>1 DEF QueuedAccess, Access, Ask, DMI_REG_ADDR, DMI_ADDR_REG_ADDR,
           DMIRequest
    <2>3. ~busy
        BY <1>7 DEF TransportInv, IInv, OneAtATime
    <2> HIDE DEF q
    <2>4. Len(dmi_request_queue) = 1 /\ dmi_request_queue[1] = q
        BY <2>1
    <2>5. QueuedRequests = [i \in 1 .. 1 |-> x]
        BY <2>4 DEF QueuedRequests
    <2> HIDE DEF x
    <2>6. [i \in 1 .. 1 |-> x] = <<x>>
        OBVIOUS
    <2>7. <<x>> \o SentRequests \in Seq(Ask)
        <3>1. <<x>> \in Seq(Ask)
            BY <2>2
        <3>. QED BY <1>3, <3>1, ConcatProperties
    <2>8. << >> \o (<<x>> \o SentRequests) = <<x>> \o SentRequests
        BY <2>7, ConcatEmptySeq
    <2>9. PendingRequests = <<x>> \o SentRequests
        BY <1>5, <2>3, <2>5, <2>6, <2>8 DEF PendingRequests
    <2>. QED BY <2>2, <2>9 DEF x, q
<1>8. ASSUME busy, dmHits = 0
      PROVE  /\ Access(DMI_REG_ADDR, isRead, dmi_wdata) \in Ask
             /\ PendingRequests =
                   <<Access(DMI_REG_ADDR, isRead, dmi_wdata)>> \o SentRequests
    <2>1. isRead \in BOOLEAN /\ dmi_wdata \in Nat
        BY DEF TransportInv, DataInv
    <2>2. Access(DMI_REG_ADDR, isRead, dmi_wdata) \in Ask
        BY <2>1 DEF Access, Ask, DMI_REG_ADDR
    <2>3. dmi_request_queue = << >>
        BY <1>8 DEF TransportInv, IInv, OneAtATime
    <2>. QED BY <1>3, <1>4, <1>8, <2>2, <2>3 DEF PendingRequests, OnPorts
<1>. QED BY <1>2, <1>3, <1>6, <1>7, <1>8 DEF Shape

LEMMA ShapeNext == TransportInv' => Shape'
BY ShapeHolds, PTL

-----------------------------------------------------------------------------
(***************************************************************************)
(* Each step of the simulator is a step of the transport or changes none   *)
(* of what the transport sees.                                             *)
(***************************************************************************)
SameModule == dmi_addr' = dmi_addr /\ dm' = dm

LEMMA Stutters ==
    ASSUME SameModule, PendingRequests' = PendingRequests,
           CurrentAnswer' = CurrentAnswer, SentAnswers' = SentAnswers
    PROVE  UNCHANGED Transport!vars
BY DEF Transport!vars, SameModule

\* A request is not answered while one is under way.
LEMMA NoAnswerYet == ~busy \/ dmHits = 0 => CurrentAnswer = None
BY DEF CurrentAnswer

LEMMA NoAnswerYetNext == ~busy' \/ dmHits' = 0 => CurrentAnswer' = None
BY DEF CurrentAnswer

LEMMA AnswersAreSaid ==
    ASSUME NEW rd \in BOOLEAN, NEW d \in Nat
    PROVE  Reported(rd, d) # None
BY NoneIsNothing DEF Reported

LEMMA AccessIsServed ==
    ASSUME NEW a \in Nat, NEW rd \in BOOLEAN, NEW d \in Nat
    PROVE  Served(Access(a, rd, d))
BY NoneIsNothing DEF Served, Access

LEMMA FetchServes ==
    ASSUME TransportInv, Shape, Shape', FetchRequest
    PROVE  [Transport!Next]_(Transport!vars)
<1> DEFINE r == Head(request_queue)
<1>1. /\ dmi_request_queue = << >> /\ request_queue # << >>
      /\ process(r) /\ ~busy /\ request_queue' = Tail(request_queue)
      /\ UNCHANGED <<handler, ports, module>>
    BY Zenon DEF FetchRequest, Receiving
<1>2. /\ SameModule /\ busy' = busy
      /\ CurrentAnswer = None /\ CurrentAnswer' = None
    BY <1>1 DEF SameModule, ports, module, handler, CurrentAnswer
<1>3. request_queue \in Seq(Request) /\ response_queue \in Seq(Response)
    BY DEF TransportInv, IInv, CtlType, DataInv
<1>4. r \in Request
    BY <1>1, <1>3, HeadTailProperties
<1> HIDE DEF r
<1>5. /\ SentRequests # << >> /\ Head(SentRequests) = Asked(r)
      /\ SentRequests' = Tail(SentRequests) /\ PendingRequests = SentRequests
      /\ SentRequests \in Seq(Ask)
    BY <1>1, <1>3, SentQueue DEF Shape, r
<1>6. CASE Ignored(r)
    <2>1. PendingRequests' = Tail(PendingRequests)
        BY <1>1, <1>2, <1>5, <1>6 DEF Shape, Ignored
    <2>2. SentAnswers' = SentAnswers
        BY <1>6 DEF Shape, Ignored
    <2>3. ~Served(Head(PendingRequests))
        BY <1>5, <1>6 DEF Ignored, Asked, Served
    <2>4. Transport!Drop
        BY <1>2, <1>5, <2>1, <2>2, <2>3 DEF Transport!Drop, SameModule
    <2>. QED BY <2>4 DEF Transport!Next
<1>7. CASE AnsweredAtOnce(r)
    <2>1. PendingRequests' = Tail(PendingRequests)
        BY <1>1, <1>2, <1>5, <1>7 DEF Shape, AnsweredAtOnce
    <2>2. SentAnswers' = Append(SentAnswers, Reported(TRUE, \h71))
        BY <1>3, <1>7, SaidQueue DEF Shape, AnsweredAtOnce
    <2>3. /\ Head(PendingRequests) = Access(DTMCS_REG_ADDR, TRUE, r.data)
          /\ Served(Head(PendingRequests))
        <3>1. Head(PendingRequests) = Access(DTMCS_REG_ADDR, TRUE, r.data)
            BY <1>4, <1>5, <1>7, RequestFields DEF AnsweredAtOnce, Asked
        <3>2. r.data \in Nat /\ DTMCS_REG_ADDR \in Nat
            BY <1>4, RequestFields DEF DTMCS_REG_ADDR
        <3>. QED BY <3>1, <3>2, AccessIsServed
    <2> DEFINE x == Access(DTMCS_REG_ADDR, TRUE, r.data)
               m == [selected |-> dmi_addr, regs |-> dm]
    <2>4. Effect(m, x) = m /\ Answer(m, x) = Reported(TRUE, \h71)
        BY DEF Effect, Answer, Access, DTMCS_REG_ADDR, DMI_REG_ADDR, DMI_ADDR_REG_ADDR
    <2>5. m' = m
        BY <1>2 DEF SameModule
    <2>6. Transport!Execute
        BY <1>2, <1>5, <2>1, <2>2, <2>3, <2>4, <2>5
           DEF Transport!Execute, Transport!Ready
    <2>. QED BY <2>6 DEF Transport!Next
<1>8. CASE \E q \in DMIRequest : Passed(r, q)
    <2>1. PICK q \in DMIRequest : Passed(r, q)
        BY <1>8
    <2>2. /\ dmi_request_queue' # << >> /\ Head(dmi_request_queue') = q
          /\ QueuedAccess(q) = Head(SentRequests)
        BY <1>5, <2>1 DEF Passed
    <2>3. PendingRequests' = <<Head(SentRequests)>> \o Tail(SentRequests)
        BY <1>5, <2>2 DEF Shape
    <2>4. PendingRequests' = PendingRequests
        BY <1>5, <2>3, FrontAgain
    <2>5. SentAnswers' = SentAnswers
        BY <2>1 DEF Shape, Passed
    <2>. QED BY <1>2, <2>4, <2>5, Stutters
<1>. QED BY <1>1, <1>4, <1>6, <1>7, <1>8, Processed

LEMMA HandleServes ==
    ASSUME TransportInv, Shape, Shape',
           HandleFixed \/ HandleAccess \/ HandleInvalid
    PROVE  [Transport!Next]_(Transport!vars)
<1> DEFINE q == Head(dmi_request_queue)
           x == QueuedAccess(q)
<1>1. dmi_request_queue # << >> /\ ~busy
    BY Zenon DEF HandleFixed, HandleAccess, HandleInvalid, Receiving
<1>2. /\ Known(q) /\ q.payload \in Nat /\ q.write \in BOOLEAN /\ q \in DMIRequest
      /\ Tail(dmi_request_queue) = << >>
    BY <1>1, QueueHead
<1>3. /\ dmi_request_queue' = Tail(dmi_request_queue)
      /\ request_queue' = request_queue
    BY Zenon DEF HandleFixed, HandleAccess, HandleInvalid, fifo
<1>4. /\ SentRequests' = SentRequests /\ SentRequests \in Seq(Ask)
      /\ x \in Ask /\ PendingRequests = <<x>> \o SentRequests
    BY <1>1, <1>3 DEF Shape
<1>5. /\ PendingRequests # << >> /\ Head(PendingRequests) = x
      /\ Tail(PendingRequests) = SentRequests
    <2> HIDE DEF x
    <2>. QED BY <1>4, QueueFront
<1>6. CurrentAnswer = None
    BY <1>1, NoAnswerYet
<1>7. isRead' = ~q.write
    BY Zenon DEF HandleFixed, HandleAccess, HandleInvalid
<1>8. response_queue \in Seq(Response)
    BY DEF TransportInv, DataInv
<1>9. CASE HandleFixed
    <2>1. /\ q.converterAddress \in DOMAIN FixedAnswer
          /\ dmi_addr' = IF q.converterAddress = DMI_ADDR_REG_ADDR
                           THEN SelectedReg(q.payload) ELSE dmi_addr
          /\ push_dmi_response(FixedAnswer[q.converterAddress], ~q.write)
          /\ UNCHANGED <<busy, module>>
        BY <1>9, Zenon DEF HandleFixed
    <2>2. /\ q.converterAddress = DMI_ADDR_REG_ADDR
          /\ ~q.write => q.payload = 0
        BY <1>2, <2>1 DEF Known, FixedAnswer, CTRL_REG_ADDR, IDCODE_REG_ADDR,
           DTMCS_REG_ADDR, DMI_ADDR_REG_ADDR, DMI_REG_ADDR
    <2>3. FixedAnswer[q.converterAddress] = \hADD5
        BY <2>2 DEF FixedAnswer, CTRL_REG_ADDR, IDCODE_REG_ADDR,
           DTMCS_REG_ADDR, DMI_ADDR_REG_ADDR
    <2>4. x = Access(DMI_ADDR_REG_ADDR, ~q.write, q.payload)
        BY <2>2 DEF QueuedAccess
    <2>5. x.addr = DMI_ADDR_REG_ADDR /\ x.isRead = ~q.write /\ x.data = q.payload
        BY <1>2, <2>2, <2>4 DEF Access
    <2>6. Served(x)
        <3>1. DMI_ADDR_REG_ADDR \in Nat
            BY DEF DMI_ADDR_REG_ADDR
        <3>2. (~q.write) \in BOOLEAN
            OBVIOUS
        <3>. QED BY <1>2, <2>4, <3>1, <3>2, AccessIsServed
    <2>7. SentAnswers' = Append(SentAnswers, Reported(~q.write, \hADD5))
        <3> DEFINE w == ~q.write
                   d == FixedAnswer[q.converterAddress]
        <3>1. w \in BOOLEAN /\ d \in Nat /\ SUCCESS \in {0, 1}
            BY <2>3 DEF SUCCESS
        <3>2. push_dmi_response(d, w)
            BY <2>1
        <3>3. d = \hADD5
            BY <2>3
        <3> HIDE DEF w, d
        <3>4. response_queue' = Append(response_queue,
                  [isRead |-> w, data |-> d, success |-> SUCCESS])
            BY <3>2, Zenon DEF push_dmi_response
        <3>5. SentAnswers' = Append(SentAnswers, Reported(w, d))
            BY <1>8, <3>1, <3>4, SaidQueue DEF Shape
        <3>. QED BY <3>3, <3>5 DEF w
    <2> DEFINE m == [selected |-> dmi_addr, regs |-> dm]
    <2>8. m' = Effect(m, x)
        BY <2>1, <2>2, <2>5 DEF Effect, module
    <2>9. Answer(m, x) = Reported(~q.write, \hADD5)
        BY <2>5 DEF Answer, DMI_ADDR_REG_ADDR, DTMCS_REG_ADDR
    <2>10. PendingRequests' = Tail(PendingRequests)
        BY <1>1, <1>2, <1>3, <1>4, <1>5, <2>1 DEF Shape
    <2>11. CurrentAnswer' = None
        BY <1>1, <2>1, NoAnswerYetNext
    <2> HIDE DEF x, q
    <2>12. Transport!Execute
        BY <1>5, <1>6, <2>6, <2>7, <2>8, <2>9, <2>10, <2>11
           DEF Transport!Execute, Transport!Ready
    <2>. QED BY <2>12 DEF Transport!Next
<1>10. CASE HandleAccess
    <2>1. /\ q.converterAddress = DMI_REG_ADDR /\ dmi_wdata' = q.payload
          /\ UNCHANGED <<response_queue, dmi_addr, dm>>
          /\ dmHits' = 0
        BY <1>10, Zenon DEF HandleAccess, fifo
    <2>2. busy'
        BY <1>10, Zenon DEF HandleAccess
    <2>3. x = Access(DMI_REG_ADDR, isRead', dmi_wdata')
        BY <1>2, <1>7, <2>1 DEF QueuedAccess
    <2>4. PendingRequests' = PendingRequests
        <3>1. PendingRequests' = <<Access(DMI_REG_ADDR, isRead', dmi_wdata')>>
                                     \o SentRequests'
            BY <2>1, <2>2 DEF Shape
        <3>. QED BY <1>4, <2>3, <3>1
    <2>5. CurrentAnswer' = None
        BY <2>1, NoAnswerYetNext
    <2>6. SentAnswers' = SentAnswers
        BY <2>1 DEF Shape
    <2>. QED BY <1>6, <2>1, <2>4, <2>5, <2>6, Stutters DEF SameModule
<1>11. CASE HandleInvalid
    <2>1. /\ q.converterAddress \notin DOMAIN FixedAnswer \cup {DMI_REG_ADDR}
          /\ UNCHANGED <<fifo, busy, ports, module>>
        BY <1>11, Zenon DEF HandleInvalid
    <2>2. x = None
        BY <2>1 DEF QueuedAccess, FixedAnswer
    <2>3. PendingRequests' = Tail(PendingRequests)
        BY <1>1, <1>2, <1>3, <1>4, <1>5, <2>1 DEF Shape
    <2>4. CurrentAnswer' = None /\ SentAnswers' = SentAnswers /\ SameModule
        BY <1>1, <2>1, NoAnswerYetNext DEF Shape, fifo, SameModule, ports, module
    <2>5. Transport!Drop
        BY <1>5, <1>6, <2>2, <2>3, <2>4 DEF Transport!Drop, SameModule, Served
    <2>. QED BY <2>5 DEF Transport!Next
<1>. QED BY <1>9, <1>10, <1>11

LEMMA ReplyServes ==
    ASSUME TransportInv, Shape, Shape', ReturnResponse
    PROVE  [Transport!Next]_(Transport!vars)
<1>1. /\ clk = "fall" /\ latency = 0 /\ busy
      /\ push_dmi_response(dmi_rdata, isRead)
      /\ UNCHANGED <<request_queue, dmi_request_queue, ports, module>>
    BY Zenon DEF ReturnResponse
<1>2. ~busy'
    BY Zenon DEF ReturnResponse
<1>3. dmHits = 1 /\ dmLeft = 0
    BY <1>1, LatencyAssumption DEF TransportInv, IInv, CtlType, PulseInv
<1>4. /\ dmi_rdata = dmResult /\ isRead \in BOOLEAN /\ dmResult \in Nat
      /\ response_queue \in Seq(Response) /\ dmi_request_queue = << >>
    BY <1>1, <1>3 DEF TransportInv, AccessInv, DataInv, IInv, OneAtATime
<1>5. CurrentAnswer = Reported(isRead, dmResult) /\ CurrentAnswer # None
    BY <1>1, <1>3, <1>4, AnswersAreSaid DEF CurrentAnswer
<1>6. SentAnswers' = Append(SentAnswers, CurrentAnswer)
    <2>1. response_queue' = Append(response_queue,
              [isRead |-> isRead, data |-> dmi_rdata, success |-> SUCCESS])
        BY <1>1, Zenon DEF push_dmi_response
    <2>2. SUCCESS \in {0, 1}
        BY DEF SUCCESS
    <2>3. SaidOf(response_queue') =
              Append(SaidOf(response_queue), Reported(isRead, dmi_rdata))
        BY <1>4, <2>1, <2>2, SaidQueue
    <2>. QED BY <1>4, <1>5, <2>3 DEF Shape
<1>7. CurrentAnswer' = None
    BY <1>2, NoAnswerYetNext
<1>8. PendingRequests' = PendingRequests
    BY <1>1, <1>2, <1>3, <1>4 DEF Shape
<1>9. Transport!Reply
    BY <1>1, <1>5, <1>6, <1>7, <1>8 DEF Transport!Reply, ports, module
<1>. QED BY <1>9 DEF Transport!Next

LEMMA RiseServes ==
    ASSUME TransportInv, Shape, Shape', RisingEdge
    PROVE  [Transport!Next]_(Transport!vars)
<1>1. UNCHANGED <<fifo, dmi_request_queue, handler, ports>> /\ clk = "rise"
    BY DEF RisingEdge
<1>2. SentRequests' = SentRequests /\ SentAnswers' = SentAnswers
    BY <1>1 DEF Shape, fifo
<1>3. CASE dmi_req
    <2>1. /\ dm' = IF dmi_wr THEN [dm EXCEPT ![dmi_addr] = dmi_wdata] ELSE dm
          /\ dmResult' = dm[dmi_addr]
          /\ dmHits' = dmHits + 1
        BY <1>3 DEF RisingEdge
    <2>2. busy /\ dmHits = 0 /\ dmi_request_queue = << >>
        BY <1>1, <1>3, LatencyAssumption
           DEF TransportInv, IInv, PulseInv, OneAtATime, CtlType
    <2> DEFINE x == Access(DMI_REG_ADDR, isRead, dmi_wdata)
               m == [selected |-> dmi_addr, regs |-> dm]
    <2>3. /\ isRead \in BOOLEAN /\ dmi_wdata \in Nat /\ dmi_wr = ~isRead
          /\ dm[dmi_addr] \in Nat
        BY <2>2 DEF TransportInv, DataInv, AccessInv
    <2>4. x \in Ask /\ PendingRequests = <<x>> \o SentRequests
          /\ SentRequests \in Seq(Ask)
        BY <2>2 DEF Shape
    <2>5. /\ PendingRequests # << >> /\ Head(PendingRequests) = x
          /\ Tail(PendingRequests) = SentRequests
        <3> HIDE DEF x
        <3>. QED BY <2>4, QueueFront
    <2>6. PendingRequests' = SentRequests'
        BY <1>1, <2>1, <2>2 DEF Shape, handler
    <2>7. Served(x)
        BY <2>3, AccessIsServed DEF DMI_REG_ADDR
    <2>8. x.addr = DMI_REG_ADDR /\ x.isRead = isRead /\ (~isRead => x.data = dmi_wdata)
        BY DEF Access
    <2>9. m' = Effect(m, x)
        <3>1. /\ dm' = IF isRead THEN dm ELSE [dm EXCEPT ![dmi_addr] = dmi_wdata]
              /\ dmi_addr' = dmi_addr
            BY <1>1, <2>1, <2>3 DEF ports
        <3>2. m' = [selected |-> dmi_addr', regs |-> dm']
            OBVIOUS
        <3> HIDE DEF x
        <3>3. x.addr # DMI_ADDR_REG_ADDR /\ x.addr = DMI_REG_ADDR
            BY <2>8 DEF DMI_REG_ADDR, DMI_ADDR_REG_ADDR
        <3>4. CASE isRead
            BY <2>8, <3>1, <3>2, <3>3, <3>4 DEF Effect
        <3>5. CASE ~isRead
            <4>1. Effect(m, x) = [m EXCEPT !.regs[m.selected] = dmi_wdata]
                BY <2>8, <3>3, <3>5 DEF Effect
            <4>. QED BY <3>1, <3>2, <3>5, <4>1
        <3>. QED BY <3>4, <3>5
    <2>10. Answer(m, x) = Reported(isRead, dm[dmi_addr])
        BY <2>8 DEF Answer, DMI_REG_ADDR, DMI_ADDR_REG_ADDR, DTMCS_REG_ADDR
    <2>11. CurrentAnswer = None
        BY <2>2, NoAnswerYet
    <2>12. CurrentAnswer' = Reported(isRead, dm[dmi_addr])
        BY <1>1, <2>1, <2>2 DEF CurrentAnswer, handler
    <2> HIDE DEF x
    <2>13. Transport!Perform
        BY <1>2, <2>5, <2>6, <2>7, <2>9, <2>10, <2>11, <2>12
           DEF Transport!Perform, Transport!Ready
    <2>. QED BY <2>13 DEF Transport!Next
<1>4. CASE ~dmi_req
    <2>1. UNCHANGED <<dm, dmResult, dmHits>>
        BY <1>4 DEF RisingEdge
    <2>2. PendingRequests' = PendingRequests
        BY <1>1, <2>1 DEF PendingRequests, OnPorts, QueuedRequests, SentRequests,
           handler, ports, fifo
    <2>3. CurrentAnswer' = CurrentAnswer
        BY <1>1, <2>1 DEF CurrentAnswer, handler
    <2>. QED BY <1>1, <1>2, <2>1, <2>2, <2>3, Stutters DEF SameModule, ports
<1>. QED BY <1>3, <1>4

LEMMA ServerServes ==
    ASSUME TransportInv, Shape, Shape', PushRequest \/ PopResponse
    PROVE  [Transport!Next]_(Transport!vars)
<1>1. UNCHANGED <<dmi_request_queue, handler, ports, module>>
    BY DEF PushRequest, PopResponse
<1>2. CurrentAnswer' = CurrentAnswer /\ SameModule
    BY <1>1 DEF CurrentAnswer, handler, ports, module, SameModule
<1>3. /\ request_queue \in Seq(Request) /\ response_queue \in Seq(Response)
    BY DEF TransportInv, DataInv, IInv, CtlType
<1>4. CASE PushRequest
    <2>1. PICK r \in Request : request_queue' = Append(request_queue, r)
        BY <1>4 DEF PushRequest, push_request
    <2>2. SentRequests' = Append(SentRequests, Asked(r)) /\ Asked(r) \in Ask
        BY <1>3, <2>1, SentQueue, AskedIsAsk DEF Shape
    <2>3. SentAnswers' = SentAnswers
        BY <1>4 DEF PushRequest, Shape
    <2>4. PendingRequests' = Append(PendingRequests, Asked(r))
        <3>1. \A x \in Ask : <<x>> \o Append(SentRequests, Asked(r))
                                = Append(<<x>> \o SentRequests, Asked(r))
            <4>1. ASSUME NEW x \in Ask
                  PROVE  <<x>> \o Append(SentRequests, Asked(r))
                            = Append(<<x>> \o SentRequests, Asked(r))
                <5>1. <<x>> \in Seq(Ask) /\ SentRequests \in Seq(Ask)
                    BY DEF Shape
                <5>. QED BY <2>2, <5>1, ConcatOfAppend
            <4>. QED BY <4>1
        <3>2. CASE dmi_request_queue # << >>
            BY <1>1, <2>2, <3>1, <3>2 DEF Shape
        <3>3. CASE busy /\ dmHits = 0
            BY <1>1, <2>2, <3>1, <3>3 DEF Shape, handler, module, ports
        <3>4. CASE dmi_request_queue = << >> /\ ~(busy /\ dmHits = 0)
            BY <1>1, <2>2, <3>4 DEF Shape, handler, module
        <3>. QED BY <3>2, <3>3, <3>4
    <2>5. Transport!Send(Asked(r))
        BY <1>2, <2>3, <2>4 DEF Transport!Send, SameModule
    <2>. QED BY <2>5 DEF Transport!Next
<1>5. CASE PopResponse
    <2>1. /\ SentAnswers # << >> /\ SentAnswers' = Tail(SentAnswers)
        BY <1>3, <1>5, SaidQueue DEF PopResponse, Shape
    <2>2. PendingRequests' = PendingRequests
        BY <1>1, <1>5 DEF PopResponse, PendingRequests, OnPorts, QueuedRequests,
           SentRequests, handler, ports, module
    <2>3. Transport!Take
        BY <1>2, <2>1, <2>2 DEF Transport!Take, SameModule
    <2>. QED BY <2>3 DEF Transport!Next
<1>. QED BY <1>4, <1>5

LEMMA OthersStutter ==
    ASSUME ClearRequest \/ Idle \/ GiveUp \/ Interrupt \/ ClockOnly \/ UNCHANGED vars
    PROVE  [Transport!Next]_(Transport!vars)
<1>1. /\ UNCHANGED <<fifo, dmi_request_queue, module>>
      /\ UNCHANGED <<busy, isRead, dmi_addr, dmi_wdata>>
    BY DEF ClearRequest, Idle, GiveUp, Interrupt, ClockOnly, vars, handler, ports
<1>2. /\ PendingRequests' = PendingRequests /\ CurrentAnswer' = CurrentAnswer
      /\ SentAnswers' = SentAnswers /\ SameModule
    BY <1>1 DEF PendingRequests, OnPorts, QueuedRequests, SentRequests,
       CurrentAnswer, SentAnswers, SameModule, fifo, module
<1>. QED BY <1>2, Stutters

LEMMA TransportStarts == Init => Transport!Init
<1>. SUFFICES ASSUME Init PROVE Transport!Init
    OBVIOUS
<1>1. Shape
    BY TransportInit, ShapeHolds
<1>2. /\ ~busy /\ request_queue = << >> /\ response_queue = << >>
      /\ dmi_request_queue = << >> /\ dmi_addr = 0 /\ dm = [r \in DMReg |-> 0]
    BY DEF Init
<1>3. PendingRequests = << >> /\ SentAnswers = << >>
    <2>1. SentOf(<< >>) = << >> /\ SaidOf(<< >>) = << >>
        BY DEF SentOf, SaidOf
    <2>. QED BY <1>1, <1>2, <2>1 DEF Shape
<1>4. CurrentAnswer = None
    BY <1>2, NoAnswerYet
<1>. QED BY <1>2, <1>3, <1>4 DEF Transport!Init

(***************************************************************************)
(* In the simulators, from their first to their last step, a request is    *)
(* one access of the debug module, whose word is there when the handler    *)
(* takes it, and the handler never holds more than one request.            *)
(***************************************************************************)
THEOREM SimulatorAccesses == SimSpec => [](AccessedOnce /\ OneAtATime)
<1>1. SimInv => AccessedOnce /\ OneAtATime
    BY LatencyAssumption
       DEF SimInv, TransportInv, IInv, CtlType, PulseInv, AccessedOnce
<1>. QED BY <1>1, SimInvariance, PTL

(***************************************************************************)
(* The handler, its interface, the FIFO and the main programs of the       *)
(* simulators together implement DebugTransport: every request they serve  *)
(* is performed once on the register selected at that point and answered   *)
(* in order with the word it read, the others are dropped in their turn,   *)
(* for every latency and idle time, every debug module that answers within *)
(* the wait, every mix of requests and every command line.                 *)
(***************************************************************************)
THEOREM TransportKept == SimSpec => ImplementsTransport
<1>1. SimInit => Transport!Init
    BY TransportStarts DEF SimInit
<1>2. SimInv /\ SimInv' /\ [SimNext]_simvars => [Transport!Next]_(Transport!vars)
    <2>. SUFFICES ASSUME SimInv, SimInv', [SimNext]_simvars
                  PROVE  [Transport!Next]_(Transport!vars)
        OBVIOUS
    <2>1. TransportInv /\ TransportInv' /\ Shape /\ Shape'
        BY ShapeHolds, ShapeNext DEF SimInv
    <2>2. [Next]_vars \/ ClockOnly
        BY SimSteps DEF SimInv
    <2>. QED BY <2>1, <2>2, FetchServes, HandleServes, ReplyServes, RiseServes,
             ServerServes, OthersStutter DEF Next, Tick
<1>. QED BY <1>1, <1>2, SimInvariance, PTL
         DEF SimSpec, ImplementsTransport, Transport!Spec
=============================================================================
