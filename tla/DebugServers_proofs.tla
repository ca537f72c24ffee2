------------------------- MODULE DebugServers_proofs -------------------------
(***************************************************************************)
(* Proofs about the two socket servers a debugger connects to: the         *)
(* OpenOCD server of the simulators and the TaPaSCo debug server.          *)
(***************************************************************************)
EXTENDS OpenOCDServer, RiscvDebugGenerator, SequenceLemmas, TLAPS

-----------------------------------------------------------------------------
(***************************************************************************)
(* The OpenOCD server when a client connects only after the last one is    *)
(* gone (Clients = "alone"), for any set of connections, any number of     *)
(* requests and any number of failing calls.  With two clients at once the *)
(* properties do not hold (OpenOCDServer with ServerOverlap's constants    *)
(* shows it).                                                              *)
(*                                                                         *)
(* The argument: as long as nobody has left early, at most one connection  *)
(* is in use and waits for at most one answer; the request to be served,   *)
(* or its answer, is at exactly one of seven places or lost.  Requests     *)
(* that are to be dropped may be anywhere before the place where they are. *)
(***************************************************************************)
Clientele ==
    /\ client \in [Conn -> {"none", "open", "closed"}]
    /\ waiting \in [Conn -> BOOLEAN]

ServerTypes ==
    /\ request_queue \in Seq(ClientRequest) /\ response_queue \in Seq(ClientRequest)
    /\ received \in [Conn -> ClientRequest \cup {None}]
    /\ resp \in [Conn -> ClientRequest \cup {None}]
    /\ serving \in ClientRequest \cup {None}
    /\ toServer \in [Conn -> Seq(ClientRequest)] /\ toClient \in [Conn -> Seq(ClientRequest)]
    /\ sent \in [Conn -> Nat]
    /\ receiver \in [Conn -> {"none", "recv", "push", "done"}]
    /\ writer \in [Conn -> {"none", "wait", "pop", "write", "join", "closed"}]
    /\ Clientele

\* The connection is in use: its client has it open, or the server has not
\* yet closed its side.
Busy(c) == client[c] = "open" \/ (client[c] = "closed" /\ writer[c] # "closed")

Solo == \A c, d \in Conn : Busy(c) /\ Busy(d) => c = d

\* A thread holds a message exactly where its program counter says so; a
\* client that waits has connected.
HeldBy(c) ==
    /\ receiver[c] = "push" <=> received[c] # None
    /\ writer[c] = "write" <=> resp[c] # None
    /\ writer[c] # "none" => client[c] # "none"
    /\ writer[c] = "none" => receiver[c] = "none"
    /\ waiting[c] => client[c] # "none"

Held == \A c \in Conn : HeldBy(c)

\* Nothing in q is to be answered; r is the one request in q that is.
Idle(q) == \A i \in DOMAIN q : ~q[i].served
Holds(q, r) == \E k \in DOMAIN q : q[k] = r /\ \A i \in DOMAIN q \ {k} : ~q[i].served
Quiet(x) == x # None => ~x.served

\* The request whose answer c waits for, or that answer, is at place p.
At(c, p) ==
    /\ waiting[c]
    /\ \A d \in Conn : IF p = "toServer" /\ d = c THEN Holds(toServer[d], Asked(c))
                                                  ELSE Idle(toServer[d])
    /\ \A d \in Conn : IF p = "received" /\ d = c THEN received[d] = Asked(c)
                                                  ELSE Quiet(received[d])
    /\ IF p = "request_queue" THEN Holds(request_queue, Asked(c)) ELSE Idle(request_queue)
    /\ IF p = "serving" THEN serving = Asked(c) ELSE Quiet(serving)
    /\ response_queue = IF p = "response_queue" THEN <<Asked(c)>> ELSE << >>
    /\ \A d \in Conn : resp[d] = IF p = "resp" /\ d = c THEN Asked(c) ELSE None
    /\ \A d \in Conn : toClient[d] = IF p = "toClient" /\ d = c THEN <<Asked(c)>> ELSE << >>

Place == {"toServer", "received", "request_queue", "serving",
          "response_queue", "resp", "toClient"}

\* Nothing that is to be answered is anywhere: none was asked for, or it is lost.
Nowhere ==
    /\ \A d \in Conn : Idle(toServer[d]) /\ Quiet(received[d])
    /\ \A d \in Conn : resp[d] = None /\ toClient[d] = << >>
    /\ Idle(request_queue) /\ Quiet(serving) /\ response_queue = << >>

messages == <<toServer, received, request_queue, serving, response_queue, resp,
              toClient>>

Somewhere == Nowhere \/ \E c \in Conn, p \in Place : At(c, p)

Orderly ==
    /\ ServerTypes
    /\ Solo
    /\ Held
    /\ Somewhere
    /\ ~killed

\* Whoever leaves early has left for good; until then all is in order.
ServerInv == Clientele /\ (NobodyLeftEarly => Orderly)

LEMMA RequestQueues ==
    /\ \A q \in Seq(ClientRequest), r \in ClientRequest : Append(q, r) \in Seq(ClientRequest)
    /\ \A q \in Seq(ClientRequest) : q # << >> =>
          Head(q) \in ClientRequest /\ Tail(q) \in Seq(ClientRequest)
    /\ << >> \in Seq(ClientRequest)
<1>1. \A q \in Seq(ClientRequest), r \in ClientRequest : Append(q, r) \in Seq(ClientRequest)
    BY AppendProperties
<1>2. \A q \in Seq(ClientRequest) : q # << >> =>
         Head(q) \in ClientRequest /\ Tail(q) \in Seq(ClientRequest)
    BY HeadTailProperties
<1>3. << >> \in Seq(ClientRequest)
    BY EmptySeq
<1>. QED BY <1>1, <1>2, <1>3

\* What a request at the end of a queue makes of it.
LEMMA Queueing ==
    ASSUME NEW q \in Seq(ClientRequest), NEW r \in ClientRequest
    PROVE  /\ Idle(q) /\ ~r.served => Idle(Append(q, r))
           /\ Idle(q) => Holds(Append(q, r), r)
           /\ \A x : Holds(q, x) /\ ~r.served => Holds(Append(q, r), x)
<1>. DEFINE n == Len(q)
<1>1. /\ n \in Nat /\ DOMAIN q = 1 .. n /\ DOMAIN Append(q, r) = 1 .. n + 1
      /\ \A i \in 1 .. n : Append(q, r)[i] = q[i]
      /\ Append(q, r)[n + 1] = r
    BY AppendProperties
<1>. HIDE DEF n
<1>2. 1 .. n + 1 = (1 .. n) \cup {n + 1}
    BY <1>1
<1>3. n + 1 \in 1 .. n + 1 /\ \A i \in (1 .. n + 1) \ {n + 1} : i \in 1 .. n
    BY <1>1
<1>4. Idle(q) /\ ~r.served => Idle(Append(q, r))
    BY <1>1, <1>2 DEF Idle
<1>5. Idle(q) => Holds(Append(q, r), r)
    BY <1>1, <1>3 DEF Idle, Holds
<1>6. ASSUME NEW x, Holds(q, x), ~r.served PROVE Holds(Append(q, r), x)
    <2>1. PICK k \in 1 .. n : q[k] = x /\ \A i \in (1 .. n) \ {k} : ~q[i].served
        BY <1>1, <1>6 DEF Holds
    <2>2. k \in 1 .. n + 1 /\ Append(q, r)[k] = x
        BY <1>1, <1>2, <2>1
    <2>3. \A i \in (1 .. n + 1) \ {k} : ~Append(q, r)[i].served
        BY <1>1, <1>2, <1>6, <2>1
    <2>. QED BY <1>1, <2>2, <2>3 DEF Holds
<1>. QED BY <1>4, <1>5, <1>6

\* What is taken from the front of a queue, and what is left.
LEMMA Taking ==
    ASSUME NEW q \in Seq(ClientRequest), q # << >>
    PROVE  /\ Idle(q) => ~Head(q).served /\ Idle(Tail(q))
           /\ \A x : Holds(q, x) =>
                \/ Head(q) = x /\ Idle(Tail(q))
                \/ ~Head(q).served /\ Holds(Tail(q), x)
<1>. DEFINE n == Len(q)
<1>1. /\ n \in Nat \ {0} /\ DOMAIN q = 1 .. n /\ Head(q) = q[1]
      /\ DOMAIN Tail(q) = 1 .. n - 1
      /\ \A i \in 1 .. n - 1 : Tail(q)[i] = q[i + 1]
    BY HeadTailProperties
<1>. HIDE DEF n
<1>2. 1 \in 1 .. n /\ \A i \in 1 .. n - 1 : i + 1 \in 1 .. n /\ i + 1 # 1
    BY <1>1
<1>3. Idle(q) => ~Head(q).served /\ Idle(Tail(q))
    BY <1>1, <1>2 DEF Idle
<1>4. ASSUME NEW x, Holds(q, x)
      PROVE  \/ Head(q) = x /\ Idle(Tail(q))
             \/ ~Head(q).served /\ Holds(Tail(q), x)
    <2>1. PICK k \in 1 .. n : q[k] = x /\ \A i \in (1 .. n) \ {k} : ~q[i].served
        BY <1>1, <1>4 DEF Holds
    <2>2. CASE k = 1
        BY <1>1, <1>2, <2>1, <2>2 DEF Idle
    <2>3. CASE k # 1
        <3>1. k - 1 \in 1 .. n - 1 /\ Tail(q)[k - 1] = x
            BY <1>1, <2>1, <2>3
        <3>2. \A i \in (1 .. n - 1) \ {k - 1} : i + 1 \in (1 .. n) \ {k}
            BY <1>1, <2>1
        <3>3. \A i \in (1 .. n - 1) \ {k - 1} : ~Tail(q)[i].served
            BY <1>1, <2>1, <3>2
        <3>. QED BY <1>1, <1>2, <2>1, <2>3, <3>1, <3>3 DEF Holds
    <2>. QED BY <2>2, <2>3
<1>. QED BY <1>3, <1>4

LEMMA EmptyIsIdle == Idle(<< >>) /\ \A x : ~Holds(<< >>, x)
BY DEF Idle, Holds

LEMMA AskedIsRequest ==
    ASSUME ServerTypes, NEW c \in Conn
    PROVE  Asked(c) \in ClientRequest /\ Asked(c) # None /\ Asked(c).served
<1>1. Asked(c) \in ClientRequest
    BY DEF ServerTypes, Asked, ClientRequest
<1>. QED BY <1>1, NoneAssumption DEF Asked

(***************************************************************************)
(* An answer that is on its way belongs to the connection that holds it,   *)
(* and its client is there to take it.                                     *)
(***************************************************************************)
LEMMA Whereabouts ==
    ASSUME Orderly, NobodyLeftEarly, NEW c \in Conn
    PROVE  /\ waiting[c] => client[c] = "open"
           /\ writer[c] = "write" => At(c, "resp") /\ client[c] = "open"
           /\ toClient[c] # << >> => At(c, "toClient")
           /\ writer[c] = "pop" /\ response_queue # << >> => At(c, "response_queue")
<1>1. \A d \in Conn : waiting[d] => client[d] = "open"
    BY DEF Orderly, Held, HeldBy, NobodyLeftEarly, LeftEarly, ServerTypes, Clientele
<1>2. /\ resp[c] # None => At(c, "resp")
      /\ toClient[c] # << >> => At(c, "toClient")
    <2>1. CASE Nowhere
        BY <2>1 DEF Nowhere
    <2>2. ASSUME NEW d \in Conn, NEW p \in Place, At(d, p)
          PROVE  /\ resp[c] # None => At(c, "resp")
                 /\ toClient[c] # << >> => At(c, "toClient")
        <3>1. resp[c] # None => p = "resp" /\ d = c
            BY <2>2 DEF At
        <3>2. toClient[c] # << >> => p = "toClient" /\ d = c
            BY <2>2 DEF At
        <3>. QED BY <2>2, <3>1, <3>2
    <2>. QED BY <2>1, <2>2 DEF Orderly, Somewhere
<1>3. writer[c] = "write" => At(c, "resp") /\ client[c] = "open"
    <2>1. writer[c] = "write" => resp[c] # None
        BY DEF Orderly, Held, HeldBy
    <2>2. At(c, "resp") => waiting[c]
        BY DEF At
    <2>. QED BY <1>1, <1>2, <2>1, <2>2
<1>4. ASSUME writer[c] = "pop", response_queue # << >>
      PROVE  At(c, "response_queue")
    <2>1. PICK d \in Conn, p \in Place : At(d, p)
        BY <1>4 DEF Orderly, Somewhere, Nowhere
    <2>2. p = "response_queue" /\ waiting[d]
        BY <1>4, <2>1 DEF At
    <2>3. Busy(d)
        BY <1>1, <2>2 DEF Busy
    <2>4. Busy(c)
        <3>1. client[c] \in {"none", "open", "closed"} /\ client[c] # "none"
            BY <1>4 DEF Orderly, Held, HeldBy, ServerTypes, Clientele
        <3>. QED BY <1>4, <3>1 DEF Busy
    <2>. QED BY <2>1, <2>2, <2>3, <2>4 DEF Orderly, Solo
<1>. QED BY <1>1, <1>2, <1>3, <1>4

\* A step that leaves the messages alone leaves them where they are.
LEMMA Unmoved ==
    ASSUME Somewhere, UNCHANGED messages, UNCHANGED <<sent, waiting>>
    PROVE  Somewhere'
<1>1. CASE Nowhere
    BY <1>1 DEF Nowhere, messages, Somewhere, Idle, Quiet
<1>2. ASSUME NEW c \in Conn, NEW p \in Place, At(c, p)
      PROVE  At(c, p)'
    BY <1>2 DEF At, messages, Asked, Idle, Holds, Quiet
<1>. QED BY <1>1, <1>2 DEF Somewhere

LEMMA TypesStep == Orderly /\ Next => ServerTypes'
<1>. SUFFICES ASSUME Orderly, Next PROVE ServerTypes'
    OBVIOUS
<1>. USE DEF queues, threads, clients, Clientele
<1>0. ServerTypes
    BY DEF Orderly
<1>1. CASE Listening
    <2>1. CASE start_listening \/ StopAccepting \/ AcceptFails \/ JoinConnections
        BY <1>0, <2>1
        DEF start_listening, StopAccepting, AcceptFails, JoinConnections, ServerTypes
    <2>2. ASSUME NEW c \in Conn, Accept(c) PROVE ServerTypes'
        BY <1>0, <2>2 DEF Accept, ServerTypes
    <2>. QED BY <1>1, <2>1, <2>2 DEF Listening
<1>2. CASE Simulating \/ stop_listening
    <2>1. CASE pop_request
        BY <1>0, <2>1, RequestQueues DEF pop_request, ServerTypes
    <2>2. CASE push_response
        BY <1>0, <2>2, RequestQueues DEF push_response, ServerTypes
    <2>3. CASE drop_request \/ ExitSim \/ stop_listening
        BY <1>0, <2>3 DEF drop_request, ExitSim, stop_listening, ServerTypes
    <2>. QED BY <1>2, <2>1, <2>2, <2>3 DEF Simulating
<1>3. ASSUME NEW c \in Conn, Receiving(c) PROVE ServerTypes'
    <2>1. CASE RecvRequest(c)
        BY <1>0, <2>1, RequestQueues DEF RecvRequest, ServerTypes
    <2>2. CASE push_request(c)
        <3>1. received[c] \in ClientRequest
            BY <1>0, <2>2 DEF push_request, Orderly, Held, HeldBy, ServerTypes
        <3>. QED BY <1>0, <2>2, <3>1, RequestQueues
             DEF push_request, EndReceiver, ServerTypes
    <2>3. CASE StopReceiving(c) \/ ReceiveFails(c)
        BY <1>0, <2>3 DEF StopReceiving, ReceiveFails, EndReceiver, ServerTypes
    <2>. QED BY <1>3, <2>1, <2>2, <2>3 DEF Receiving
<1>4. ASSUME NEW c \in Conn, Answering(c) PROVE ServerTypes'
    <2>1. CASE wait_for_response(c) \/ CloseConnection(c)
        BY <1>0, <2>1 DEF wait_for_response, CloseConnection, ServerTypes
    <2>2. CASE PopMisses(c)
        BY <1>0, <2>2 DEF PopMisses, AfterLoop, ServerTypes
    <2>3. CASE pop_response(c)
        BY <1>0, <2>3, RequestQueues DEF pop_response, ServerTypes
    <2>4. CASE WriteResponse(c)
        <3>1. resp[c] \in ClientRequest
            BY <1>0, <2>4 DEF WriteResponse, Orderly, Held, HeldBy, ServerTypes
        <3>2. toClient' \in [Conn -> Seq(ClientRequest)]
            <4>1. Append(toClient[c], resp[c]) \in Seq(ClientRequest)
                BY <1>0, <3>1, RequestQueues DEF ServerTypes
            <4>2. \/ toClient' = toClient
                  \/ toClient' = [toClient EXCEPT ![c] = Append(toClient[c], resp[c])]
                BY <2>4 DEF WriteResponse
            <4>. QED BY <1>0, <4>1, <4>2 DEF ServerTypes
        <3>. QED BY <1>0, <2>4, <3>2 DEF WriteResponse, AfterLoop, ServerTypes
    <2>5. CASE WriteFails(c)
        BY <1>0, <2>5 DEF WriteFails, ServerTypes
    <2>. QED BY <1>4, <2>1, <2>2, <2>3, <2>4, <2>5 DEF Answering
<1>5. ASSUME NEW c \in Conn, ClientSide(c) PROVE ServerTypes'
    <2>1. CASE Connect(c) \/ Close(c)
        BY <1>0, <2>1 DEF Connect, Close, ServerTypes
    <2>2. CASE Send(c)
        <3>1. PICK served \in BOOLEAN :
                 /\ toServer' = [toServer EXCEPT ![c] = Append(toServer[c],
                                   [conn |-> c, nr |-> sent[c] + 1, served |-> served])]
                 /\ waiting' = [waiting EXCEPT ![c] = served]
            BY <2>2 DEF Send
        <3>2. [conn |-> c, nr |-> sent[c] + 1, served |-> served] \in ClientRequest
            BY <1>0 DEF ServerTypes, ClientRequest
        <3>3. toServer' \in [Conn -> Seq(ClientRequest)] /\ waiting' \in [Conn -> BOOLEAN]
            BY <1>0, <3>1, <3>2, RequestQueues DEF ServerTypes
        <3>. QED BY <1>0, <2>2, <3>3 DEF Send, ServerTypes
    <2>3. CASE Receive(c)
        BY <1>0, <2>3, RequestQueues DEF Receive, ServerTypes
    <2>. QED BY <1>5, <2>1, <2>2, <2>3 DEF ClientSide
<1>. QED BY <1>1, <1>2, <1>3, <1>4, <1>5 DEF Next

LEMMA SoloStep == Clients = "alone" /\ Orderly /\ Next => Solo'
<1>. SUFFICES ASSUME Clients = "alone", Orderly, Next PROVE Solo'
    OBVIOUS
<1>. USE DEF queues, threads, clients, Clientele
<1>0. ServerTypes /\ Solo
    BY DEF Orderly
<1>1. ASSUME NEW c \in Conn, Connect(c) PROVE Solo'
    <2>1. \A d \in Conn \ {c} : ~Busy(d)
        BY <1>1 DEF Connect, Busy
    <2>2. \A d \in Conn \ {c} : ~Busy(d)'
        BY <1>0, <1>1, <2>1 DEF Connect, Busy, ServerTypes
    <2>. QED BY <2>2 DEF Solo
<1>2. ASSUME \A d \in Conn : Busy(d)' => Busy(d) PROVE Solo'
    BY <1>0, <1>2 DEF Solo
<1>3. CASE Listening
    <2>1. CASE start_listening \/ StopAccepting \/ AcceptFails \/ JoinConnections
        <3>1. UNCHANGED <<client, writer>>
            BY <2>1 DEF start_listening, StopAccepting, AcceptFails, JoinConnections
        <3>. QED BY <1>2, <3>1 DEF Busy
    <2>2. ASSUME NEW c \in Conn, Accept(c) PROVE Solo'
        <3>1. \A d \in Conn : Busy(d)' => Busy(d)
            BY <1>0, <2>2 DEF Accept, Busy, ServerTypes
        <3>. QED BY <1>2, <3>1
    <2>. QED BY <1>3, <2>1, <2>2 DEF Listening
<1>4. CASE Simulating \/ stop_listening
    <2>1. UNCHANGED <<client, writer>>
        BY <1>4 DEF Simulating, pop_request, push_response, drop_request, ExitSim,
                    stop_listening
    <2>. QED BY <1>2, <2>1 DEF Busy
<1>5. ASSUME NEW c \in Conn, Receiving(c) PROVE Solo'
    <2>1. UNCHANGED <<client, writer>>
        BY <1>5 DEF Receiving, RecvRequest, push_request, StopReceiving, ReceiveFails
    <2>. QED BY <1>2, <2>1 DEF Busy
<1>6. ASSUME NEW c \in Conn, Answering(c) PROVE Solo'
    <2>1. client' = client /\ writer[c] \notin {"none", "closed"}
        BY <1>6 DEF Answering, wait_for_response, pop_response, PopMisses,
                    WriteResponse, WriteFails, CloseConnection
    <2>2. \A d \in Conn \ {c} : writer'[d] = writer[d]
        BY <1>0, <1>6 DEF Answering, wait_for_response, pop_response, PopMisses,
                    WriteResponse, WriteFails, CloseConnection, ServerTypes
    <2>3. \A d \in Conn : Busy(d)' => Busy(d)
        BY <2>1, <2>2 DEF Busy
    <2>. QED BY <1>2, <2>3
<1>7. ASSUME NEW c \in Conn, ClientSide(c) PROVE Solo'
    <2>1. CASE Send(c) \/ Receive(c)
        <3>1. UNCHANGED <<client, writer>>
            BY <2>1 DEF Send, Receive
        <3>. QED BY <1>2, <3>1 DEF Busy
    <2>2. CASE Close(c)
        <3>1. \A d \in Conn : Busy(d)' => Busy(d)
            BY <1>0, <2>2 DEF Close, Busy, ServerTypes
        <3>. QED BY <1>2, <3>1
    <2>. QED BY <1>1, <1>7, <2>1, <2>2 DEF ClientSide
<1>. QED BY <1>3, <1>4, <1>5, <1>6, <1>7 DEF Next

\* As long as nobody left early, no step writes to a closed connection.
LEMMA KilledStep == Orderly /\ NobodyLeftEarly /\ Next => ~killed'
<1>. SUFFICES ASSUME Orderly, NobodyLeftEarly, Next PROVE ~killed'
    OBVIOUS
<1>1. ~killed
    BY DEF Orderly
<1>2. ASSUME NEW c \in Conn, WriteResponse(c) PROVE ~killed'
    <2>1. client[c] = "open"
        BY <1>2, Whereabouts DEF WriteResponse
    <2>. QED BY <1>1, <1>2, <2>1 DEF WriteResponse
<1>3. CASE Listening \/ Simulating \/ stop_listening
    BY <1>1, <1>3
    DEF Listening, Simulating, start_listening, Accept, StopAccepting, AcceptFails,
        JoinConnections, pop_request, push_response, drop_request, ExitSim,
        stop_listening
<1>4. ASSUME NEW c \in Conn, Receiving(c) \/ ClientSide(c) PROVE ~killed'
    BY <1>1, <1>4 DEF Receiving, RecvRequest, push_request, StopReceiving,
       ReceiveFails, ClientSide, Connect, Send, Receive, Close
<1>5. ASSUME NEW c \in Conn, Answering(c) PROVE ~killed'
    BY <1>1, <1>2, <1>5 DEF Answering, wait_for_response, pop_response, PopMisses,
       WriteFails, CloseConnection
<1>. QED BY <1>3, <1>4, <1>5 DEF Next

\* What a step of another connection leaves alone.
LEMMA HeldFrame ==
    ASSUME NEW c \in Conn, HeldBy(c),
           UNCHANGED <<receiver[c], received[c], writer[c], resp[c], client[c],
                       waiting[c]>>
    PROVE  HeldBy(c)'
BY DEF HeldBy

LEMMA HeldStep == Orderly /\ NobodyLeftEarly /\ Next => Held'
<1>. SUFFICES ASSUME Orderly, NobodyLeftEarly, Next PROVE \A c \in Conn : HeldBy(c)'
    BY DEF Held
<1>. USE DEF queues, threads, clients, Clientele
<1>0. ServerTypes /\ \A c \in Conn : HeldBy(c)
    BY DEF Orderly, Held
<1>1. CASE \/ start_listening \/ StopAccepting \/ AcceptFails \/ JoinConnections
           \/ pop_request \/ push_response \/ drop_request \/ ExitSim \/ stop_listening
    <2>1. UNCHANGED <<receiver, received, writer, resp, client, waiting>>
        BY <1>1 DEF start_listening, StopAccepting, AcceptFails, JoinConnections,
                    pop_request, push_response, drop_request, ExitSim, stop_listening
    <2>. QED BY <1>0, <2>1, HeldFrame
<1>2. ASSUME NEW c \in Conn,
             \A d \in Conn \ {c} :
                UNCHANGED <<receiver[d], received[d], writer[d], resp[d], client[d],
                            waiting[d]>>,
             HeldBy(c)'
      PROVE  \A d \in Conn : HeldBy(d)'
    BY <1>0, <1>2, HeldFrame
<1>3. ASSUME NEW c \in Conn, Accept(c) PROVE \A d \in Conn : HeldBy(d)'
    <2>1. \A d \in Conn \ {c} :
             UNCHANGED <<receiver[d], received[d], writer[d], resp[d], client[d],
                         waiting[d]>>
        BY <1>0, <1>3 DEF Accept, ServerTypes
    <2>2. HeldBy(c)'
        BY <1>0, <1>3 DEF Accept, HeldBy, ServerTypes
    <2>. QED BY <1>2, <2>1, <2>2
<1>4. ASSUME NEW c \in Conn, Receiving(c) PROVE \A d \in Conn : HeldBy(d)'
    <2>1. \A d \in Conn \ {c} :
             UNCHANGED <<receiver[d], received[d], writer[d], resp[d], client[d],
                         waiting[d]>>
        BY <1>0, <1>4 DEF Receiving, RecvRequest, push_request, StopReceiving,
                          ReceiveFails, EndReceiver, ServerTypes
    <2>2. CASE RecvRequest(c)
        <3>1. Head(toServer[c]) # None
            BY <1>0, <2>2, RequestQueues, NoneAssumption DEF RecvRequest, ServerTypes
        <3>2. HeldBy(c)'
            BY <1>0, <2>2, <3>1 DEF RecvRequest, HeldBy, ServerTypes
        <3>. QED BY <1>2, <2>1, <3>2
    <2>3. CASE push_request(c)
        <3>1. HeldBy(c)'
            BY <1>0, <2>3 DEF push_request, EndReceiver, HeldBy, ServerTypes
        <3>. QED BY <1>2, <2>1, <3>1
    <2>4. CASE StopReceiving(c) \/ ReceiveFails(c)
        <3>1. HeldBy(c)'
            BY <1>0, <2>4 DEF StopReceiving, ReceiveFails, EndReceiver, HeldBy, ServerTypes
        <3>. QED BY <1>2, <2>1, <3>1
    <2>. QED BY <1>4, <2>2, <2>3, <2>4 DEF Receiving
<1>5. ASSUME NEW c \in Conn, Answering(c) PROVE \A d \in Conn : HeldBy(d)'
    <2>1. \A d \in Conn \ {c} :
             UNCHANGED <<receiver[d], received[d], writer[d], resp[d], client[d],
                         waiting[d]>>
        BY <1>0, <1>5 DEF Answering, wait_for_response, pop_response, PopMisses,
                    WriteResponse, WriteFails, CloseConnection, ServerTypes
    <2>2. CASE wait_for_response(c) \/ CloseConnection(c)
        <3>1. HeldBy(c)'
            BY <1>0, <2>2 DEF wait_for_response, CloseConnection, HeldBy, ServerTypes
        <3>. QED BY <1>2, <2>1, <3>1
    <2>3. CASE PopMisses(c)
        <3>1. HeldBy(c)'
            BY <1>0, <2>3 DEF PopMisses, AfterLoop, HeldBy, ServerTypes
        <3>. QED BY <1>2, <2>1, <3>1
    <2>4. CASE pop_response(c)
        <3>1. Head(response_queue) # None
            BY <1>0, <2>4, RequestQueues, NoneAssumption DEF pop_response, ServerTypes
        <3>2. HeldBy(c)'
            BY <1>0, <2>4, <3>1 DEF pop_response, HeldBy, ServerTypes
        <3>. QED BY <1>2, <2>1, <3>2
    <2>5. CASE WriteResponse(c)
        <3>1. client[c] = "open"
            BY <2>5, Whereabouts DEF WriteResponse
        <3>2. HeldBy(c)'
            BY <1>0, <2>5, <3>1 DEF WriteResponse, AfterLoop, HeldBy, ServerTypes
        <3>. QED BY <1>2, <2>1, <3>2
    <2>6. CASE WriteFails(c)
        <3>1. HeldBy(c)'
            BY <1>0, <2>6 DEF WriteFails, HeldBy, ServerTypes
        <3>. QED BY <1>2, <2>1, <3>1
    <2>. QED BY <1>5, <2>2, <2>3, <2>4, <2>5, <2>6 DEF Answering
<1>6. ASSUME NEW c \in Conn, ClientSide(c) PROVE \A d \in Conn : HeldBy(d)'
    <2>1. \A d \in Conn \ {c} :
             UNCHANGED <<receiver[d], received[d], writer[d], resp[d], client[d],
                         waiting[d]>>
        BY <1>0, <1>6 DEF ClientSide, Connect, Send, Receive, Close, ServerTypes
    <2>2. HeldBy(c)'
        BY <1>0, <1>6 DEF ClientSide, Connect, Send, Receive, Close, HeldBy, ServerTypes
    <2>. QED BY <1>2, <2>1, <2>2
<1>. QED BY <1>1, <1>3, <1>4, <1>5, <1>6 DEF Next, Listening, Simulating

(***************************************************************************)
(* The one request to be answered moves from place to place.               *)
(***************************************************************************)
LEMMA SomewhereStep == Orderly /\ NobodyLeftEarly /\ Next => Somewhere'
<1>. SUFFICES ASSUME Orderly, NobodyLeftEarly, Next PROVE Somewhere'
    OBVIOUS
<1>. USE DEF queues, threads, clients
<1>0. ServerTypes /\ Clientele /\ Somewhere /\ (\A c \in Conn : HeldBy(c))
    BY DEF Orderly, Held, ServerTypes
<1>1. CASE UNCHANGED messages /\ UNCHANGED <<sent, waiting>>
    BY <1>0, <1>1, Unmoved
<1>2. CASE start_listening \/ StopAccepting \/ AcceptFails \/ JoinConnections \/ ExitSim
           \/ stop_listening
    BY <1>1, <1>2 DEF start_listening, StopAccepting, AcceptFails, JoinConnections,
                      ExitSim, stop_listening, messages
<1>3. ASSUME NEW c \in Conn,
             \/ Accept(c) \/ StopReceiving(c) \/ ReceiveFails(c) \/ wait_for_response(c)
             \/ PopMisses(c) \/ CloseConnection(c) \/ Connect(c) \/ Close(c)
      PROVE  Somewhere'
    BY <1>1, <1>3 DEF Accept, StopReceiving, ReceiveFails, EndReceiver, wait_for_response,
                      PopMisses, CloseConnection, Connect, Close, messages
<1>4. ASSUME NEW c \in Conn, NEW p \in Place, At(c, p)' PROVE Somewhere'
    BY <1>4 DEF Somewhere
<1>5. CASE pop_request
    <2>1. request_queue \in Seq(ClientRequest) /\ request_queue # << >>
        BY <1>0, <1>5 DEF pop_request, ServerTypes
    <2>2. CASE Nowhere
        <3>1. Nowhere'
            BY <1>5, <2>1, <2>2, Taking DEF Nowhere, pop_request, Idle, Quiet
        <3>. QED BY <3>1 DEF Somewhere
    <2>3. ASSUME NEW d \in Conn, NEW p \in Place, At(d, p) PROVE Somewhere'
        <3>1. UNCHANGED <<waiting, Asked(d), toServer, received, response_queue, resp,
                          toClient>>
            BY <1>5 DEF pop_request, Asked
        <3>2. p # "serving"
            BY <1>0, <1>5, <2>3, AskedIsRequest DEF At, pop_request
        <3>3. CASE p = "request_queue"
            <4>1. Holds(request_queue, Asked(d))
                BY <2>3, <3>3 DEF At
            <4>2. CASE Head(request_queue) = Asked(d) /\ Idle(Tail(request_queue))
                <5>1. At(d, "serving")'
                    BY <1>5, <2>3, <3>1, <3>3, <4>2 DEF At, pop_request, Idle, Quiet
                <5>. QED BY <1>4, <5>1 DEF Place
            <4>3. CASE ~Head(request_queue).served /\ Holds(Tail(request_queue), Asked(d))
                <5>1. At(d, p)'
                    BY <1>5, <2>3, <3>1, <3>3, <4>3 DEF At, pop_request, Idle, Quiet, Holds
                <5>. QED BY <1>4, <5>1
            <4>. QED BY <2>1, <4>1, <4>2, <4>3, Taking
        <3>4. CASE p # "request_queue"
            <4>1. ~Head(request_queue).served /\ Idle(Tail(request_queue))
                BY <2>1, <2>3, <3>4, Taking DEF At
            <4>2. At(d, p)'
                BY <1>5, <2>3, <3>1, <3>2, <3>4, <4>1 DEF At, pop_request, Idle, Quiet, Holds
            <4>. QED BY <1>4, <4>2
        <3>. QED BY <3>3, <3>4
    <2>. QED BY <1>0, <2>2, <2>3 DEF Somewhere
<1>6. CASE push_response
    <2>1. PICK d \in Conn, p \in Place : At(d, p)
        BY <1>0, <1>6 DEF push_response, Somewhere, Nowhere, Quiet
    <2>2. p = "serving"
        BY <1>6, <2>1 DEF At, push_response, Quiet
    <2>3. UNCHANGED <<waiting, Asked(d), toServer, received, request_queue, resp, toClient>>
        BY <1>6 DEF push_response, Asked
    <2>4. serving = Asked(d) /\ response_queue = << >>
        BY <2>1, <2>2 DEF At
    <2>5. response_queue' = <<Asked(d)>> /\ serving' = None
        BY <1>6, <2>4 DEF push_response
    <2>6. At(d, "response_queue")'
        BY <2>1, <2>2, <2>3, <2>5 DEF At, Idle, Quiet
    <2>. QED BY <1>4, <2>6 DEF Place
<1>7. CASE drop_request
    <2>1. UNCHANGED <<waiting, sent, toServer, received, request_queue, response_queue,
                      resp, toClient>> /\ serving' = None
        BY <1>7 DEF drop_request
    <2>2. CASE Nowhere
        BY <2>1, <2>2 DEF Nowhere, Somewhere, Idle, Quiet
    <2>3. ASSUME NEW d \in Conn, NEW p \in Place, At(d, p) PROVE Somewhere'
        <3>1. p # "serving"
            BY <1>0, <1>7, <2>3, AskedIsRequest DEF At, drop_request
        <3>2. At(d, p)'
            BY <2>1, <2>3, <3>1 DEF At, Asked, Idle, Quiet, Holds
        <3>. QED BY <1>4, <3>2
    <2>. QED BY <1>0, <2>2, <2>3 DEF Somewhere
<1>8. ASSUME NEW c \in Conn, RecvRequest(c) PROVE Somewhere'
    <2>1. toServer[c] \in Seq(ClientRequest) /\ toServer[c] # << >>
        BY <1>0, <1>8 DEF RecvRequest, ServerTypes
    <2>2. /\ UNCHANGED <<waiting, sent, request_queue, serving, response_queue, resp,
                         toClient>>
          /\ received' = [received EXCEPT ![c] = Head(toServer[c])]
          /\ toServer' = [toServer EXCEPT ![c] = << >>]
        BY <1>8 DEF RecvRequest
    <2>3. /\ received'[c] = Head(toServer[c]) /\ toServer'[c] = << >>
          /\ \A d \in Conn \ {c} : received'[d] = received[d] /\ toServer'[d] = toServer[d]
        BY <1>0, <2>2 DEF ServerTypes
    <2>4. received[c] = None
        BY <1>0, <1>8 DEF RecvRequest, HeldBy
    <2>5. CASE Nowhere
        <3>1. ~Head(toServer[c]).served
            BY <2>1, <2>5, Taking DEF Nowhere
        <3>2. Nowhere'
            BY <2>2, <2>3, <2>5, <3>1, EmptyIsIdle DEF Nowhere, Idle, Quiet
        <3>. QED BY <3>2 DEF Somewhere
    <2>6. ASSUME NEW d \in Conn, NEW p \in Place, At(d, p) PROVE Somewhere'
        <3>1. UNCHANGED Asked(d) /\ waiting'[d]
            BY <2>2, <2>6 DEF Asked, At
        <3>2. ~(p = "received" /\ d = c)
            BY <1>0, <2>4, <2>6, AskedIsRequest DEF At
        <3>3. CASE p = "toServer" /\ d = c
            <4>1. \/ Head(toServer[c]) = Asked(c) \/ ~Head(toServer[c]).served
                BY <2>1, <2>6, <3>3, Taking DEF At
            <4>2. CASE Head(toServer[c]) = Asked(c)
                <5>1. At(c, "received")'
                    BY <2>2, <2>3, <2>6, <3>1, <3>3, <4>2, EmptyIsIdle DEF At, Idle, Quiet
                <5>. QED BY <1>4, <5>1 DEF Place
            <4>3. CASE ~Head(toServer[c]).served
                <5>1. Nowhere'
                    BY <2>2, <2>3, <2>6, <3>3, <4>3, EmptyIsIdle DEF At, Nowhere, Idle, Quiet
                <5>. QED BY <5>1 DEF Somewhere
            <4>. QED BY <4>1, <4>2, <4>3
        <3>4. CASE ~(p = "toServer" /\ d = c)
            <4>1. Idle(toServer[c])
                BY <2>6, <3>4 DEF At
            <4>2. ~Head(toServer[c]).served
                BY <2>1, <4>1, Taking
            <4>3. At(d, p)'
                BY <2>2, <2>3, <2>6, <3>1, <3>2, <3>4, <4>2, EmptyIsIdle
                DEF At, Idle, Quiet, Holds
            <4>. QED BY <1>4, <4>3
        <3>. QED BY <3>3, <3>4
    <2>. QED BY <1>0, <2>5, <2>6 DEF Somewhere
<1>9. ASSUME NEW c \in Conn, push_request(c) PROVE Somewhere'
    <2>1. /\ UNCHANGED <<waiting, sent, toServer, serving, response_queue, resp, toClient>>
          /\ request_queue' = Append(request_queue, received[c])
          /\ received' = [received EXCEPT ![c] = None]
        BY <1>9 DEF push_request
    <2>2. /\ request_queue \in Seq(ClientRequest) /\ received[c] \in ClientRequest
          /\ received[c] # None
        BY <1>0, <1>9 DEF push_request, HeldBy, ServerTypes
    <2>3. received'[c] = None /\ \A d \in Conn \ {c} : received'[d] = received[d]
        BY <1>0, <2>1 DEF ServerTypes
    <2>4. CASE Nowhere
        <3>1. ~received[c].served /\ Idle(request_queue)
            BY <2>2, <2>4 DEF Nowhere, Quiet
        <3>2. Idle(request_queue')
            BY <2>1, <2>2, <3>1, Queueing
        <3>3. Nowhere'
            BY <2>1, <2>3, <2>4, <3>2 DEF Nowhere, Idle, Quiet
        <3>. QED BY <3>3 DEF Somewhere
    <2>5. ASSUME NEW d \in Conn, NEW p \in Place, At(d, p) PROVE Somewhere'
        <3>1. UNCHANGED Asked(d) /\ waiting'[d]
            BY <2>1, <2>5 DEF Asked, At
        <3>2. CASE p = "received" /\ d = c
            <4>1. received[c] = Asked(c) /\ Idle(request_queue)
                BY <2>5, <3>2 DEF At
            <4>2. Holds(request_queue', Asked(c))
                BY <2>1, <2>2, <4>1, Queueing
            <4>3. At(c, "request_queue")'
                BY <2>1, <2>3, <2>5, <3>1, <3>2, <4>2 DEF At, Idle, Holds, Quiet
            <4>. QED BY <1>4, <4>3 DEF Place
        <3>3. CASE ~(p = "received" /\ d = c)
            <4>1. ~received[c].served
                BY <2>2, <2>5, <3>3 DEF At, Quiet
            <4>2. IF p = "request_queue" THEN Holds(request_queue', Asked(d))
                  ELSE Idle(request_queue')
                BY <2>1, <2>2, <2>5, <4>1, Queueing DEF At
            <4>3. At(d, p)'
                BY <2>1, <2>3, <2>5, <3>1, <3>3, <4>2 DEF At, Idle, Holds, Quiet
            <4>. QED BY <1>4, <4>3
        <3>. QED BY <3>2, <3>3
    <2>. QED BY <1>0, <2>4, <2>5 DEF Somewhere
<1>10. ASSUME NEW c \in Conn, pop_response(c) PROVE Somewhere'
    <2>1. At(c, "response_queue")
        BY <1>10, Whereabouts DEF pop_response
    <2>2. UNCHANGED <<waiting, Asked(c), toServer, received, request_queue, serving,
                      toClient>>
        BY <1>10 DEF pop_response, Asked
    <2>3. response_queue = <<Asked(c)>>
        BY <2>1 DEF At
    <2>4. response_queue' = << >> /\ resp' = [resp EXCEPT ![c] = Asked(c)]
        BY <1>10, <2>3 DEF pop_response
    <2>5. At(c, "resp")'
        BY <1>0, <2>1, <2>2, <2>4 DEF At, Idle, Quiet, ServerTypes
    <2>. QED BY <1>4, <2>5 DEF Place
<1>11. ASSUME NEW c \in Conn, WriteResponse(c) PROVE Somewhere'
    <2>1. At(c, "resp") /\ client[c] = "open"
        BY <1>11, Whereabouts DEF WriteResponse
    <2>2. UNCHANGED <<waiting, Asked(c), toServer, received, request_queue, serving,
                      response_queue>> /\ resp' = [resp EXCEPT ![c] = None]
        BY <1>11 DEF WriteResponse, Asked
    <2>3. toClient' = [toClient EXCEPT ![c] = Append(toClient[c], resp[c])]
        BY <1>11, <2>1 DEF WriteResponse
    <2>4. toClient[c] = << >> /\ resp[c] = Asked(c)
        BY <2>1 DEF At
    <2>5. \A d \in Conn : toClient'[d] = IF d = c THEN <<Asked(c)>> ELSE << >>
        BY <1>0, <2>1, <2>3, <2>4 DEF ServerTypes, At
    <2>6. \A d \in Conn : resp'[d] = None
        BY <1>0, <2>1, <2>2 DEF ServerTypes, At
    <2>7. At(c, "toClient")'
        BY <2>1, <2>2, <2>5, <2>6 DEF At, Idle, Quiet
    <2>. QED BY <1>4, <2>7 DEF Place
<1>12. ASSUME NEW c \in Conn, WriteFails(c) PROVE Somewhere'
    <2>1. At(c, "resp")
        BY <1>12, Whereabouts DEF WriteFails
    <2>2. UNCHANGED <<toServer, received, request_queue, serving, response_queue, toClient>>
        BY <1>12 DEF WriteFails
    <2>3. \A d \in Conn : resp'[d] = None
        BY <1>0, <1>12, <2>1 DEF At, WriteFails, ServerTypes
    <2>4. Nowhere'
        BY <2>1, <2>2, <2>3 DEF At, Nowhere, Idle, Quiet
    <2>. QED BY <2>4 DEF Somewhere
<1>13. ASSUME NEW c \in Conn, Send(c) PROVE Somewhere'
    <2>1. Nowhere
        <3>1. ASSUME NEW d \in Conn, NEW p \in Place, At(d, p) PROVE FALSE
            <4>1. waiting[d] /\ client[d] = "open"
                BY <3>1, Whereabouts DEF At
            <4>2. d = c
                BY <1>13, <4>1 DEF Send, Orderly, Solo, Busy
            <4>. QED BY <1>13, <4>1, <4>2 DEF Send
        <3>. QED BY <1>0, <3>1 DEF Somewhere
    <2>2. PICK served \in BOOLEAN :
             /\ toServer' = [toServer EXCEPT ![c] = Append(toServer[c],
                               [conn |-> c, nr |-> sent[c] + 1, served |-> served])]
             /\ waiting' = [waiting EXCEPT ![c] = served]
        BY <1>13 DEF Send
    <2>. DEFINE r == [conn |-> c, nr |-> sent[c] + 1, served |-> served]
    <2>3. r \in ClientRequest /\ r.served = served
        BY <1>0 DEF ServerTypes, ClientRequest
    <2>4. sent'[c] = sent[c] + 1
        BY <1>0, <1>13 DEF Send, ServerTypes
    <2>5. served => r = Asked(c)'
        BY <2>4 DEF Asked
    <2>6. /\ toServer'[c] = Append(toServer[c], r) /\ waiting'[c] = served
          /\ \A d \in Conn \ {c} : toServer'[d] = toServer[d]
        BY <1>0, <2>2 DEF ServerTypes, Clientele
    <2>. HIDE DEF r
    <2>7. UNCHANGED <<received, request_queue, serving, response_queue, resp, toClient>>
        BY <1>13 DEF Send
    <2>8. toServer[c] \in Seq(ClientRequest) /\ Idle(toServer[c])
        BY <1>0, <2>1 DEF ServerTypes, Nowhere
    <2>9. CASE served
        <3>1. Holds(toServer'[c], Asked(c)')
            BY <2>3, <2>5, <2>6, <2>8, <2>9, Queueing
        <3>2. At(c, "toServer")'
            BY <2>1, <2>6, <2>7, <2>9, <3>1 DEF At, Nowhere, Idle, Holds, Quiet
        <3>. QED BY <1>4, <3>2 DEF Place
    <2>10. CASE ~served
        <3>1. Idle(toServer'[c])
            BY <2>3, <2>6, <2>8, <2>10, Queueing
        <3>2. Nowhere'
            BY <2>1, <2>6, <2>7, <3>1 DEF Nowhere, Idle, Quiet
        <3>. QED BY <3>2 DEF Somewhere
    <2>. QED BY <2>9, <2>10
<1>14. ASSUME NEW c \in Conn, Receive(c) PROVE Somewhere'
    <2>1. At(c, "toClient")
        BY <1>14, Whereabouts DEF Receive
    <2>2. \A d \in Conn : toClient'[d] = << >>
        <3>1. toClient' = [toClient EXCEPT ![c] = << >>]
            <4>1. toClient[c] = <<Asked(c)>>
                BY <2>1 DEF At
            <4>2. Tail(toClient[c]) = << >>
                BY <4>1
            <4>3. toClient' = [toClient EXCEPT ![c] = Tail(toClient[c])]
                BY <1>14 DEF Receive
            <4>. QED BY <4>2, <4>3
        <3>. QED BY <1>0, <2>1, <3>1 DEF At, ServerTypes
    <2>3. UNCHANGED <<toServer, received, request_queue, serving, response_queue, resp>>
        BY <1>14 DEF Receive
    <2>4. Nowhere'
        BY <2>1, <2>2, <2>3 DEF At, Nowhere, Idle, Quiet
    <2>. QED BY <2>4 DEF Somewhere
<1>. QED
    BY <1>2, <1>3, <1>5, <1>6, <1>7, <1>8, <1>9, <1>10, <1>11, <1>12, <1>13, <1>14
    DEF Next, Listening, Simulating, Receiving, Answering, ClientSide

-----------------------------------------------------------------------------
LEMMA ServerInit == Init => ServerInv
<1>. SUFFICES ASSUME Init PROVE ServerInv
    OBVIOUS
<1>1. ServerTypes
    BY RequestQueues DEF Init, ServerTypes, Clientele
<1>2. Nowhere
    BY EmptyIsIdle DEF Init, Nowhere, Quiet
<1>. QED
    BY <1>1, <1>2
    DEF Init, ServerInv, Orderly, Somewhere, Solo, Busy, Held, HeldBy, ServerTypes

\* A client that has left early stays one that has.
LEMMA EarlyForGood == Clientele /\ Next => Clientele' /\ (NobodyLeftEarly' => NobodyLeftEarly)
<1>. SUFFICES ASSUME Clientele, Next
              PROVE  Clientele' /\ \A c \in Conn : LeftEarly(c) => LeftEarly(c)'
    BY DEF NobodyLeftEarly
<1>. USE DEF clients
<1>1. CASE UNCHANGED <<client, waiting>>
    BY <1>1 DEF Clientele, LeftEarly
<1>2. CASE Listening \/ Simulating \/ stop_listening
    BY <1>1, <1>2
    DEF Listening, Simulating, start_listening, Accept, StopAccepting, AcceptFails,
        JoinConnections, pop_request, push_response, drop_request, ExitSim,
        stop_listening
<1>3. ASSUME NEW c \in Conn, Receiving(c) \/ Answering(c)
      PROVE  UNCHANGED <<client, waiting>>
    BY <1>3
    DEF Receiving, Answering, RecvRequest, push_request, StopReceiving, ReceiveFails,
        wait_for_response, pop_response, PopMisses, WriteResponse, WriteFails,
        CloseConnection
<1>4. ASSUME NEW c \in Conn, ClientSide(c)
      PROVE  Clientele' /\ \A d \in Conn : LeftEarly(d) => LeftEarly(d)'
    BY <1>4 DEF ClientSide, Connect, Send, Receive, Close, Clientele, LeftEarly
<1>. QED BY <1>1, <1>2, <1>3, <1>4 DEF Next

LEMMA ServerStep == Clients = "alone" /\ ServerInv /\ [Next]_vars => ServerInv'
<1>. SUFFICES ASSUME Clients = "alone", ServerInv, [Next]_vars PROVE ServerInv'
    OBVIOUS
<1>1. CASE Next
    <2>1. Clientele' /\ (NobodyLeftEarly' => NobodyLeftEarly)
        BY <1>1, EarlyForGood DEF ServerInv
    <2>2. NobodyLeftEarly => Orderly'
        BY <1>1, TypesStep, SoloStep, HeldStep, SomewhereStep, KilledStep
        DEF ServerInv, Orderly
    <2>. QED BY <2>1, <2>2 DEF ServerInv
<1>2. CASE UNCHANGED vars
    <2>. USE <1>2 DEF vars, queues, threads, clients
    <2>1. Clientele' /\ (NobodyLeftEarly' => NobodyLeftEarly)
        BY DEF ServerInv, Clientele, NobodyLeftEarly, LeftEarly
    <2>2. ASSUME Orderly PROVE Orderly'
        <3>1. ServerTypes' /\ Solo'
            BY <2>2 DEF Orderly, ServerTypes, Clientele, Solo, Busy
        <3>2. Held'
            BY <2>2, HeldFrame DEF Orderly, Held
        <3>3. Somewhere'
            BY <2>2, Unmoved DEF Orderly, messages
        <3>. QED BY <2>2, <3>1, <3>2, <3>3 DEF Orderly
    <2>. QED BY <2>1, <2>2 DEF ServerInv
<1>. QED BY <1>1, <1>2

LEMMA ServerSafe == ASSUME Clients = "alone" PROVE Spec => []ServerInv
<1>1. Init => ServerInv
    BY ServerInit
<1>2. ServerInv /\ [Next]_vars => ServerInv'
    BY ServerStep
<1>3. Spec => Init /\ [][Next]_vars
    BY PTL DEF Spec
<1>. QED BY <1>1, <1>2, <1>3, PTL

(***************************************************************************)
(* With one client at a time, each free to leave at any moment, every      *)
(* answer goes to the connection that asked and is the answer to what it   *)
(* asked, up to the first time a client leaves without waiting for its     *)
(* answer.                                                                 *)
(***************************************************************************)
THEOREM AnswersReachAsker ==
    ASSUME Clients = "alone" PROVE Spec => []AnswersGoHome
<1>1. ServerInv => AnswersGoHome
    BY Whereabouts DEF ServerInv, AnswersGoHome, At
<1>2. Spec => []ServerInv
    BY ServerSafe
<1>. QED BY <1>1, <1>2, PTL

(***************************************************************************)
(* With one client at a time the server does not write to a connection its *)
(* client has closed, which would end the simulator by SIGPIPE, unless a   *)
(* client has left without waiting for its answer.                         *)
(***************************************************************************)
THEOREM NoBrokenPipe ==
    ASSUME Clients = "alone" PROVE Spec => []SurvivesDisconnect
<1>1. ServerInv => SurvivesDisconnect
    BY DEF ServerInv, Orderly, SurvivesDisconnect
<1>2. Spec => []ServerInv
    BY ServerSafe
<1>. QED BY <1>1, <1>2, PTL

-----------------------------------------------------------------------------
(***************************************************************************)
(* What the TaPaSCo debug server does for each request, for every set of   *)
(* registers, addresses and words: the word a read answers and the effect  *)
(* of a write on a halted hart.                                            *)
(***************************************************************************)

(***************************************************************************)
(* The three kinds of access a script is made of.                          *)
(***************************************************************************)
Sel(reg) == WriteDtm("addr", reg)
Put(v) == WriteDtm("data", v)
Get == ReadDtm("data")

\* What registers and memory hold: words, or words that got another low byte.
Stored == IF Word \subseteq 0 .. 255 THEN 0 .. 255 ELSE Nat

TypeInv ==
    /\ hart \in [gpr : [Reg -> Stored], mem : [Addr -> Stored], running : BOOLEAN]
    /\ dm \in [data0 : Stored, data1 : Addr \cup {CHOOSE a \in Addr : TRUE},
               sbcs : [access : {0, 2}, readonaddr : BOOLEAN],
               sbaddress0 : Addr \cup {CHOOSE a \in Addr : TRUE},
               sbdata0 : Stored]

(***************************************************************************)
(* What a request does to the hart, for words of any width: write_bus sets *)
(* the access size of sbcs to one byte.                                    *)
(***************************************************************************)
Effect(h, r) ==
    IF r.type = "systemBus" /\ ~r.read
      THEN [h EXCEPT !.mem[r.addr] = Merge(h.mem[r.addr], r.data, 0)]
      ELSE Target(h, r)

Untouched == ~before.running => hart = before
Done == ~before.running => hart = Effect(before, request)

\* The word a read will answer waits in a register, or has been read.
WordIn(reg, w) == ~before.running => dm[reg] = w
WordRead(w) == ~before.running => value = w

-----------------------------------------------------------------------------
(* Where a request can stand: the accesses left, and what those before     *)
(* have put into the module's registers.                                   *)

ReadingRegister ==
    LET w == before.gpr[request.addr]
        command == Put(RegCommand(request.addr, FALSE))
    IN  /\ Untouched
        /\ \/ script = <<Sel("command"), command, Sel("data0"), Get>>
           \/ script = <<command, Sel("data0"), Get>> /\ sel = "command"
           \/ script = <<Sel("data0"), Get>> /\ WordIn("data0", w)
           \/ script = <<Get>> /\ WordIn("data0", w) /\ sel = "data0"
           \/ script = << >> /\ WordRead(w)

WritingRegister ==
    LET command == Put(RegCommand(request.addr, TRUE))
        data == Put(request.data)
    IN  \/ /\ Untouched
           /\ \/ script = <<Sel("data0"), data, Sel("command"), command>>
              \/ script = <<data, Sel("command"), command>> /\ sel = "data0"
              \/ script = <<Sel("command"), command>> /\ dm.data0 = request.data
              \/ /\ script = <<command>> /\ dm.data0 = request.data
                 /\ sel = "command"
        \/ script = << >> /\ Done

ReadingMemory ==
    LET w == before.mem[request.addr]
        command == Put(MemCommand(FALSE))
        addr == Put(request.addr)
    IN  /\ Untouched
        /\ \/ script = <<Sel("data1"), addr, Sel("command"), command,
                         Sel("data0"), Get>>
           \/ /\ script = <<addr, Sel("command"), command, Sel("data0"), Get>>
              /\ sel = "data1"
           \/ /\ script = <<Sel("command"), command, Sel("data0"), Get>>
              /\ dm.data1 = request.addr
           \/ /\ script = <<command, Sel("data0"), Get>>
              /\ dm.data1 = request.addr /\ sel = "command"
           \/ script = <<Sel("data0"), Get>> /\ WordIn("data0", w)
           \/ script = <<Get>> /\ WordIn("data0", w) /\ sel = "data0"
           \/ script = << >> /\ WordRead(w)

WritingMemory ==
    LET command == Put(MemCommand(TRUE))
        addr == Put(request.addr)
        data == Put(request.data)
    IN  \/ /\ Untouched
           /\ \/ script = <<Sel("data1"), addr, Sel("data0"), data,
                            Sel("command"), command>>
              \/ /\ script = <<addr, Sel("data0"), data, Sel("command"), command>>
                 /\ sel = "data1"
              \/ /\ script = <<Sel("data0"), data, Sel("command"), command>>
                 /\ dm.data1 = request.addr
              \/ /\ script = <<data, Sel("command"), command>>
                 /\ dm.data1 = request.addr /\ sel = "data0"
              \/ /\ script = <<Sel("command"), command>>
                 /\ dm.data1 = request.addr /\ dm.data0 = request.data
              \/ /\ script = <<command>> /\ sel = "command"
                 /\ dm.data1 = request.addr /\ dm.data0 = request.data
        \/ script = << >> /\ Done

ReadingBus ==
    LET w == before.mem[request.addr]
        size == Put([access |-> 2, readonaddr |-> TRUE])
        addr == Put(request.addr)
    IN  /\ Untouched
        /\ \/ script = <<Sel("sbcs"), size, Sel("sbaddress0"), addr,
                         Sel("sbdata0"), Get>>
           \/ /\ script = <<size, Sel("sbaddress0"), addr, Sel("sbdata0"), Get>>
              /\ sel = "sbcs"
           \/ /\ script = <<Sel("sbaddress0"), addr, Sel("sbdata0"), Get>>
              /\ dm.sbcs.readonaddr
           \/ /\ script = <<addr, Sel("sbdata0"), Get>>
              /\ dm.sbcs.readonaddr /\ sel = "sbaddress0"
           \/ script = <<Sel("sbdata0"), Get>> /\ WordIn("sbdata0", w)
           \/ script = <<Get>> /\ WordIn("sbdata0", w) /\ sel = "sbdata0"
           \/ script = << >> /\ WordRead(w)

WritingBus ==
    LET size == Put([access |-> 0, readonaddr |-> FALSE])
        addr == Put(request.addr)
        data == Put(request.data)
    IN  \/ /\ Untouched
           /\ \/ script = <<Sel("sbcs"), size, Sel("sbaddress0"), addr,
                            Sel("sbdata0"), data>>
              \/ /\ script = <<size, Sel("sbaddress0"), addr, Sel("sbdata0"), data>>
                 /\ sel = "sbcs"
              \/ /\ script = <<Sel("sbaddress0"), addr, Sel("sbdata0"), data>>
                 /\ dm.sbcs.access = 0 /\ ~dm.sbcs.readonaddr
              \/ /\ script = <<addr, Sel("sbdata0"), data>>
                 /\ dm.sbcs.access = 0 /\ ~dm.sbcs.readonaddr
                 /\ sel = "sbaddress0"
              \/ /\ script = <<Sel("sbdata0"), data>>
                 /\ dm.sbcs.access = 0 /\ dm.sbaddress0 = request.addr
              \/ /\ script = <<data>> /\ sel = "sbdata0"
                 /\ dm.sbcs.access = 0 /\ dm.sbaddress0 = request.addr
        \/ script = << >> /\ Done

\* The requests that name a register of the module or of the DTM: they
\* leave the hart alone, but for a halt request.
Selecting ==
    \/ /\ Untouched
       /\ \/ script = << >>
          \/ script = <<Get>>
          \/ \E reg \in {"data0", "haltreq"} :
                script \in {<<Sel(reg)>>, <<Sel(reg), Get>>}
    \/ script = << >> /\ Done

WritingModule ==
    \/ /\ Untouched
       /\ \/ script = <<Sel(request.addr), Put(request.data)>>
          \/ script = <<Put(request.data)>> /\ sel = request.addr
    \/ script = << >> /\ Done

WritingData ==
    \/ Untouched /\ script = <<Put(request.data)>> /\ sel \in {"data0", "haltreq"}
    \/ script = << >> /\ Done

Resuming ==
    \/ /\ Untouched
       /\ \/ script = <<Sel("resumereq"), Put(1)>>
          \/ script = <<Put(1)>> /\ sel = "resumereq"
    \/ script = << >> /\ Done

\* Which of these a request is.
Standing ==
    LET type == request.type
        read == request.read
    IN  /\ type = "register" => IF read THEN ReadingRegister ELSE WritingRegister
        /\ type = "memory" => IF read THEN ReadingMemory ELSE WritingMemory
        /\ type = "systemBus" => IF read THEN ReadingBus ELSE WritingBus
        /\ type = "dm" => IF read THEN Selecting ELSE WritingModule
        /\ type = "dtm" => IF ~read /\ request.addr = \h0c THEN WritingData
                           ELSE Selecting
        /\ type = "control" => IF request.addr = "resume" THEN Resuming
                               ELSE Selecting

\* request, script and before are set together when a request is read.
GenInv ==
    /\ TypeInv
    /\ server = "serve" =>
          /\ request \in Request /\ Standing
          /\ before \in [gpr : [Reg -> Stored], mem : [Addr -> Stored],
                         running : BOOLEAN]

EffectsMatch ==
    server = "serve" /\ script = << >> /\ ~before.running =>
        /\ hart = Effect(before, request)
        /\ request.read /\ request.type \in {"register", "memory", "systemBus"}
              => value = Answered(before, request)

-----------------------------------------------------------------------------
(***************************************************************************)
(* Helpers: tuples, and bytes.                                             *)
(***************************************************************************)
LEMMA Tails ==
    ASSUME NEW a, NEW b, NEW c, NEW d, NEW e, NEW f
    PROVE  /\ Head(<<a>>) = a /\ Tail(<<a>>) = << >>
           /\ Head(<<a, b>>) = a /\ Tail(<<a, b>>) = <<b>>
           /\ Head(<<a, b, c>>) = a /\ Tail(<<a, b, c>>) = <<b, c>>
           /\ Head(<<a, b, c, d>>) = a /\ Tail(<<a, b, c, d>>) = <<b, c, d>>
           /\ Head(<<a, b, c, d, e>>) = a
           /\ Tail(<<a, b, c, d, e>>) = <<b, c, d, e>>
           /\ Head(<<a, b, c, d, e, f>>) = a
           /\ Tail(<<a, b, c, d, e, f>>) = <<b, c, d, e, f>>
<1>1. Head(<<a>>) = a /\ Tail(<<a>>) = << >>
    OBVIOUS
<1>2. Head(<<a, b>>) = a /\ Tail(<<a, b>>) = <<b>>
    OBVIOUS
<1>3. Head(<<a, b, c>>) = a /\ Tail(<<a, b, c>>) = <<b, c>>
    OBVIOUS
<1>4. Head(<<a, b, c, d>>) = a /\ Tail(<<a, b, c, d>>) = <<b, c, d>>
    OBVIOUS
<1>5. /\ Head(<<a, b, c, d, e>>) = a
      /\ Tail(<<a, b, c, d, e>>) = <<b, c, d, e>>
    OBVIOUS
<1>6. /\ Head(<<a, b, c, d, e, f>>) = a
      /\ Tail(<<a, b, c, d, e, f>>) = <<b, c, d, e, f>>
    OBVIOUS
<1>. QED BY <1>1, <1>2, <1>3, <1>4, <1>5, <1>6

LEMMA JoinPair ==
    ASSUME NEW T, NEW s \in Seq(T), NEW c \in T, NEW d \in T
    PROVE  s \o <<c, d>> = Append(Append(s, c), d)
<1>1. <<c>> \in Seq(T) /\ <<c, d>> = Append(<<c>>, d)
    OBVIOUS
<1>2. s \o Append(<<c>>, d) = Append(s \o <<c>>, d)
    BY <1>1, ConcatOfAppend
<1>3. s \o <<c>> = Append(s, c)
    BY AppendIsConcat
<1>. QED BY <1>1, <1>2, <1>3

LEMMA JoinedFour ==
    ASSUME NEW a, NEW b, NEW c, NEW d
    PROVE  <<a, b>> \o <<c, d>> = <<a, b, c, d>>
<1>1. <<a, b>> \in Seq({a, b, c, d})
    OBVIOUS
<1>2. <<a, b>> \o <<c, d>> = Append(Append(<<a, b>>, c), d)
    BY <1>1, JoinPair
<1>3. /\ <<a, b, c>> = Append(<<a, b>>, c)
      /\ <<a, b, c, d>> = Append(<<a, b, c>>, d)
    OBVIOUS
<1>. QED BY <1>2, <1>3

LEMMA JoinedSix ==
    ASSUME NEW a, NEW b, NEW c, NEW d, NEW e, NEW f
    PROVE  <<a, b, c, d>> \o <<e, f>> = <<a, b, c, d, e, f>>
<1>1. <<a, b, c, d>> \in Seq({a, b, c, d, e, f})
    OBVIOUS
<1>2. <<a, b, c, d>> \o <<e, f>> = Append(Append(<<a, b, c, d>>, e), f)
    BY <1>1, JoinPair
<1>3. /\ <<a, b, c, d, e>> = Append(<<a, b, c, d>>, e)
      /\ <<a, b, c, d, e, f>> = Append(<<a, b, c, d, e>>, f)
    OBVIOUS
<1>. QED BY <1>2, <1>3

LEMMA Bytes ==
    /\ Word \subseteq Stored
    /\ 0 \in Stored
    /\ \A old \in Stored, new \in Word, access \in {0, 2} :
          Merge(old, new, access) \in Stored
    /\ Word \subseteq 0 .. 255 =>
          \A old \in Stored, new \in Word : Merge(old, new, 0) = new
<1>1. /\ Word \subseteq Stored /\ 0 \in Stored /\ Stored \subseteq Nat
    BY GeneratorAssumption DEF Stored
<1>2. \A old \in Nat, new \in Nat : Merge(old, new, 0) \in Nat
    BY DEF Merge
<1>3. \A old \in 0 .. 255, new \in 0 .. 255 : Merge(old, new, 0) = new
    BY DEF Merge
<1>4. \A old, new : Merge(old, new, 2) = new
    BY DEF Merge
<1>5. \A old \in 0 .. 255, new \in 0 .. 255 : Merge(old, new, 0) \in 0 .. 255
    BY <1>3
<1>6. CASE Word \subseteq 0 .. 255
    <2>1. Stored = 0 .. 255
        BY <1>6 DEF Stored
    <2>2. \A old \in Stored, new \in Word : Merge(old, new, 0) = new
        BY <1>6, <2>1, <1>3
    <2>3. \A old \in Stored, new \in Word, access \in {0, 2} :
             Merge(old, new, access) = new
        BY <1>4, <2>2
    <2>. QED BY <1>1, <2>2, <2>3
<1>7. CASE ~(Word \subseteq 0 .. 255)
    <2>1. Stored = Nat
        BY <1>7 DEF Stored
    <2>. QED BY <1>7, <2>1, <1>1, <1>2, <1>4
<1>. QED BY <1>6, <1>7

-----------------------------------------------------------------------------
(***************************************************************************)
(* What one access does, by its kind.                                      *)
(***************************************************************************)
LEMMA Selects ==
    ASSUME NEW reg, Access, Head(script) = Sel(reg)
    PROVE  sel' = reg /\ UNCHANGED <<dm, hart, value>>
BY DEF Access, Sel, WriteDtm

LEMMA Writes ==
    ASSUME NEW v, Access, Head(script) = Put(v)
    PROVE  DataWrite(v) /\ UNCHANGED <<sel, value>>
BY DEF Access, Put, WriteDtm

LEMMA Reads ==
    ASSUME Access, Head(script) = Get
    PROVE  value' = DataRead /\ UNCHANGED <<sel, dm, hart>>
BY DEF Access, Get, ReadDtm

LEMMA Advances ==
    ASSUME Access
    PROVE  /\ server = "serve" /\ server' = "serve"
           /\ script # << >> /\ script' = Tail(script)
           /\ UNCHANGED <<request, before>>
BY DEF Access, netvars

(***************************************************************************)
(* An access of the server is one of three kinds, and the accesses before  *)
(* it decide what it does: one lemma per kind of request.  Head and rest   *)
(* of the script follow from Tails.                                        *)
(***************************************************************************)
LEMMA ReadsRegister ==
    ASSUME TypeInv, request \in Request, request.type = "register", request.read,
           ReadingRegister, Access
    PROVE  TypeInv' /\ ReadingRegister'
<1>. DEFINE w == before.gpr[request.addr]
            command == Put(RegCommand(request.addr, FALSE))
<1>. HIDE DEF command
<1>0. /\ script # << >> /\ script' = Tail(script)
      /\ request' = request /\ before' = before
    BY Advances
<1>1. CASE script = <<Sel("command"), command, Sel("data0"), Get>>
    <2>1. Head(script) = Sel("command") /\ script' = <<command, Sel("data0"), Get>>
        BY <1>0, <1>1, Tails
    <2>2. sel' = "command" /\ UNCHANGED <<dm, hart, value>>
        BY <2>1, Selects
    <2>. QED BY <1>0, <2>1, <2>2 DEF TypeInv, ReadingRegister, Untouched, command
<1>2. CASE script = <<command, Sel("data0"), Get>> /\ sel = "command"
    <2>1. Head(script) = command /\ script' = <<Sel("data0"), Get>>
        BY <1>0, <1>2, Tails
    <2>2. Command(RegCommand(request.addr, FALSE)) /\ UNCHANGED <<sel, value>>
        BY <1>2, <2>1, Writes DEF DataWrite, command
    <2>3. request.addr \in Reg
        BY DEF Request
    <2>4. /\ hart' = hart
          /\ hart.running => dm' = dm
          /\ ~hart.running => dm' = [dm EXCEPT !.data0 = hart.gpr[request.addr]]
        BY <2>2 DEF Command, RegCommand, TypeInv
    <2>5. TypeInv'
        BY <2>3, <2>4 DEF TypeInv
    <2>6. ~before.running => dm'.data0 = w
        BY <2>4 DEF TypeInv, ReadingRegister, Untouched
    <2>. QED BY <1>0, <2>1, <2>4, <2>5, <2>6 DEF ReadingRegister, Untouched, WordIn
<1>3. CASE script = <<Sel("data0"), Get>> /\ WordIn("data0", w)
    <2>1. Head(script) = Sel("data0") /\ script' = <<Get>>
        BY <1>0, <1>3, Tails
    <2>2. sel' = "data0" /\ UNCHANGED <<dm, hart, value>>
        BY <2>1, Selects
    <2>. QED
        BY <1>0, <1>3, <2>1, <2>2 DEF TypeInv, ReadingRegister, Untouched, WordIn
<1>4. CASE script = <<Get>> /\ WordIn("data0", w) /\ sel = "data0"
    <2>1. Head(script) = Get /\ script' = << >>
        BY <1>0, <1>4, Tails
    <2>2. value' = dm.data0 /\ UNCHANGED <<sel, dm, hart>>
        BY <1>4, <2>1, Reads DEF DataRead
    <2>. QED
        BY <1>0, <1>4, <2>1, <2>2
        DEF TypeInv, ReadingRegister, Untouched, WordIn, WordRead
<1>. QED BY <1>0, <1>1, <1>2, <1>3, <1>4 DEF ReadingRegister, command

LEMMA WritesRegister ==
    ASSUME TypeInv, request \in Request, request.type = "register", ~request.read,
           WritingRegister, Access
    PROVE  TypeInv' /\ WritingRegister'
<1>. DEFINE command == Put(RegCommand(request.addr, TRUE))
            data == Put(request.data)
<1>. HIDE DEF command, data
<1>0. /\ script # << >> /\ script' = Tail(script)
      /\ request' = request /\ before' = before
    BY Advances
<1>1. CASE script = <<Sel("data0"), data, Sel("command"), command>>
    <2>1. /\ Head(script) = Sel("data0")
          /\ script' = <<data, Sel("command"), command>>
        BY <1>0, <1>1, Tails
    <2>2. sel' = "data0" /\ UNCHANGED <<dm, hart, value>>
        BY <2>1, Selects
    <2>. QED
        BY <1>0, <1>1, <2>1, <2>2
        DEF TypeInv, WritingRegister, Untouched, command, data
<1>2. CASE script = <<data, Sel("command"), command>> /\ sel = "data0"
    <2>1. Head(script) = data /\ script' = <<Sel("command"), command>>
        BY <1>0, <1>2, Tails
    <2>2. /\ dm' = [dm EXCEPT !.data0 = request.data]
          /\ UNCHANGED <<sel, value, hart>>
        BY <1>2, <2>1, Writes DEF DataWrite, data
    <2>3. request.data \in Stored
        BY Bytes DEF Request
    <2>4. TypeInv'
        BY <2>2, <2>3 DEF TypeInv
    <2>. QED
        BY <1>0, <1>2, <2>1, <2>2, <2>4
        DEF TypeInv, WritingRegister, Untouched, command, data
<1>3. CASE script = <<Sel("command"), command>> /\ dm.data0 = request.data
    <2>1. Head(script) = Sel("command") /\ script' = <<command>>
        BY <1>0, <1>3, Tails
    <2>2. sel' = "command" /\ UNCHANGED <<dm, hart, value>>
        BY <2>1, Selects
    <2>. QED
        BY <1>0, <1>3, <2>1, <2>2
        DEF TypeInv, WritingRegister, Untouched, command, data
<1>4. CASE script = <<command>> /\ dm.data0 = request.data /\ sel = "command"
    <2>1. Head(script) = command /\ script' = << >>
        BY <1>0, <1>4, Tails
    <2>2. Command(RegCommand(request.addr, TRUE)) /\ UNCHANGED <<sel, value>>
        BY <1>4, <2>1, Writes DEF DataWrite, command
    <2>3. request.addr \in Reg /\ request.data \in Stored
        BY Bytes DEF Request
    <2>4. /\ hart.running => UNCHANGED <<hart, dm>>
          /\ ~hart.running =>
                /\ dm' = dm
                /\ hart' = [hart EXCEPT !.gpr[request.addr] = request.data]
        BY <1>4, <2>2 DEF Command, RegCommand, TypeInv
    <2>5. TypeInv'
        BY <1>4, <2>3, <2>4 DEF TypeInv
    <2>6. Done'
        BY <1>0, <1>4, <2>4
        DEF TypeInv, WritingRegister, Untouched, Done, Effect, Target, command, data
    <2>. QED
        BY <1>0, <2>1, <2>4, <2>5, <2>6 DEF WritingRegister, Untouched, WordIn
<1>. QED BY <1>0, <1>1, <1>2, <1>3, <1>4 DEF WritingRegister, command, data

LEMMA ReadsMemory ==
    ASSUME TypeInv, request \in Request, request.type = "memory", request.read,
           ReadingMemory, Access
    PROVE  TypeInv' /\ ReadingMemory'
<1>. DEFINE w == before.mem[request.addr]
            command == Put(MemCommand(FALSE))
            addr == Put(request.addr)
<1>. HIDE DEF command, addr
<1>0. /\ script # << >> /\ script' = Tail(script)
      /\ request' = request /\ before' = before
    BY Advances
<1>1. CASE script = <<Sel("data1"), addr, Sel("command"), command,
                      Sel("data0"), Get>>
    <2>1. /\ Head(script) = Sel("data1")
          /\ script' = <<addr, Sel("command"), command, Sel("data0"), Get>>
        BY <1>0, <1>1, Tails
    <2>2. sel' = "data1" /\ UNCHANGED <<dm, hart, value>>
        BY <2>1, Selects
    <2>. QED
        BY <1>0, <1>1, <2>1, <2>2
        DEF TypeInv, ReadingMemory, Untouched, command, addr
<1>2. CASE /\ script = <<addr, Sel("command"), command, Sel("data0"), Get>>
           /\ sel = "data1"
    <2>1. /\ Head(script) = addr
          /\ script' = <<Sel("command"), command, Sel("data0"), Get>>
        BY <1>0, <1>2, Tails
    <2>2. /\ dm' = [dm EXCEPT !.data1 = request.addr]
          /\ UNCHANGED <<sel, value, hart>>
        BY <1>2, <2>1, Writes DEF DataWrite, addr
    <2>3. request.addr \in Addr
        BY DEF Request
    <2>4. TypeInv'
        BY <2>2, <2>3 DEF TypeInv
    <2>. QED
        BY <1>0, <1>2, <2>1, <2>2, <2>4
        DEF TypeInv, ReadingMemory, Untouched, command, addr
<1>3. CASE /\ script = <<Sel("command"), command, Sel("data0"), Get>>
           /\ dm.data1 = request.addr
    <2>1. /\ Head(script) = Sel("command")
          /\ script' = <<command, Sel("data0"), Get>>
        BY <1>0, <1>3, Tails
    <2>2. sel' = "command" /\ UNCHANGED <<dm, hart, value>>
        BY <2>1, Selects
    <2>. QED
        BY <1>0, <1>3, <2>1, <2>2
        DEF TypeInv, ReadingMemory, Untouched, command, addr
<1>4. CASE /\ script = <<command, Sel("data0"), Get>>
           /\ dm.data1 = request.addr /\ sel = "command"
    <2>1. Head(script) = command /\ script' = <<Sel("data0"), Get>>
        BY <1>0, <1>4, Tails
    <2>2. Command(MemCommand(FALSE)) /\ UNCHANGED <<sel, value>>
        BY <1>4, <2>1, Writes DEF DataWrite, command
    <2>3. request.addr \in Addr
        BY DEF Request
    <2>4. /\ hart.running => UNCHANGED <<hart, dm>>
          /\ ~hart.running =>
                /\ hart' = hart
                /\ dm' = [dm EXCEPT !.data0 = hart.mem[request.addr]]
        BY <1>4, <2>2 DEF Command, MemCommand, TypeInv
    <2>5. TypeInv'
        BY <1>4, <2>3, <2>4 DEF TypeInv
    <2>6. ~before.running => dm'.data0 = w
        BY <1>4, <2>4 DEF TypeInv, ReadingMemory, Untouched, command, addr
    <2>. QED
        BY <1>0, <2>1, <2>4, <2>5, <2>6
        DEF ReadingMemory, Untouched, WordIn, command, addr
<1>5. CASE script = <<Sel("data0"), Get>> /\ WordIn("data0", w)
    <2>1. Head(script) = Sel("data0") /\ script' = <<Get>>
        BY <1>0, <1>5, Tails
    <2>2. sel' = "data0" /\ UNCHANGED <<dm, hart, value>>
        BY <2>1, Selects
    <2>. QED
        BY <1>0, <1>5, <2>1, <2>2
        DEF TypeInv, ReadingMemory, Untouched, WordIn, command, addr
<1>6. CASE script = <<Get>> /\ WordIn("data0", w) /\ sel = "data0"
    <2>1. Head(script) = Get /\ script' = << >>
        BY <1>0, <1>6, Tails
    <2>2. value' = dm.data0 /\ UNCHANGED <<sel, dm, hart>>
        BY <1>6, <2>1, Reads DEF DataRead
    <2>. QED
        BY <1>0, <1>6, <2>1, <2>2
        DEF TypeInv, ReadingMemory, Untouched, WordIn, WordRead, command, addr
<1>. QED
    BY <1>0, <1>1, <1>2, <1>3, <1>4, <1>5, <1>6
    DEF ReadingMemory, command, addr

LEMMA WritesMemory ==
    ASSUME TypeInv, request \in Request, request.type = "memory", ~request.read,
           WritingMemory, Access
    PROVE  TypeInv' /\ WritingMemory'
<1>. DEFINE command == Put(MemCommand(TRUE))
            addr == Put(request.addr)
            data == Put(request.data)
<1>. HIDE DEF command, addr, data
<1>0. /\ script # << >> /\ script' = Tail(script)
      /\ request' = request /\ before' = before
    BY Advances
<1>1. CASE script = <<Sel("data1"), addr, Sel("data0"), data, Sel("command"),
                      command>>
    <2>1. /\ Head(script) = Sel("data1")
          /\ script' = <<addr, Sel("data0"), data, Sel("command"), command>>
        BY <1>0, <1>1, Tails
    <2>2. sel' = "data1" /\ UNCHANGED <<dm, hart, value>>
        BY <2>1, Selects
    <2>. QED
        BY <1>0, <1>1, <2>1, <2>2
        DEF TypeInv, WritingMemory, Untouched, command, addr, data
<1>2. CASE /\ script = <<addr, Sel("data0"), data, Sel("command"), command>>
           /\ sel = "data1"
    <2>1. /\ Head(script) = addr
          /\ script' = <<Sel("data0"), data, Sel("command"), command>>
        BY <1>0, <1>2, Tails
    <2>2. /\ dm' = [dm EXCEPT !.data1 = request.addr]
          /\ UNCHANGED <<sel, value, hart>>
        BY <1>2, <2>1, Writes DEF DataWrite, addr
    <2>3. request.addr \in Addr
        BY DEF Request
    <2>4. TypeInv'
        BY <2>2, <2>3 DEF TypeInv
    <2>. QED
        BY <1>0, <1>2, <2>1, <2>2, <2>4
        DEF TypeInv, WritingMemory, Untouched, command, addr, data
<1>3. CASE /\ script = <<Sel("data0"), data, Sel("command"), command>>
           /\ dm.data1 = request.addr
    <2>1. /\ Head(script) = Sel("data0")
          /\ script' = <<data, Sel("command"), command>>
        BY <1>0, <1>3, Tails
    <2>2. sel' = "data0" /\ UNCHANGED <<dm, hart, value>>
        BY <2>1, Selects
    <2>. QED
        BY <1>0, <1>3, <2>1, <2>2
        DEF TypeInv, WritingMemory, Untouched, command, addr, data
<1>4. CASE /\ script = <<data, Sel("command"), command>>
           /\ dm.data1 = request.addr /\ sel = "data0"
    <2>1. Head(script) = data /\ script' = <<Sel("command"), command>>
        BY <1>0, <1>4, Tails
    <2>2. /\ dm' = [dm EXCEPT !.data0 = request.data]
          /\ UNCHANGED <<sel, value, hart>>
        BY <1>4, <2>1, Writes DEF DataWrite, data
    <2>3. request.data \in Stored
        BY Bytes DEF Request
    <2>4. TypeInv'
        BY <2>2, <2>3 DEF TypeInv
    <2>. QED
        BY <1>0, <1>4, <2>1, <2>2, <2>4
        DEF TypeInv, WritingMemory, Untouched, command, addr, data
<1>5. CASE /\ script = <<Sel("command"), command>>
           /\ dm.data1 = request.addr /\ dm.data0 = request.data
    <2>1. Head(script) = Sel("command") /\ script' = <<command>>
        BY <1>0, <1>5, Tails
    <2>2. sel' = "command" /\ UNCHANGED <<dm, hart, value>>
        BY <2>1, Selects
    <2>. QED
        BY <1>0, <1>5, <2>1, <2>2
        DEF TypeInv, WritingMemory, Untouched, command, addr, data
<1>6. CASE /\ script = <<command>>
           /\ sel = "command" /\ dm.data1 = request.addr /\ dm.data0 = request.data
    <2>1. Head(script) = command /\ script' = << >>
        BY <1>0, <1>6, Tails
    <2>2. Command(MemCommand(TRUE)) /\ UNCHANGED <<sel, value>>
        BY <1>6, <2>1, Writes DEF DataWrite, command
    <2>3. request.addr \in Addr /\ request.data \in Stored
        BY Bytes DEF Request
    <2>4. /\ hart.running => UNCHANGED <<hart, dm>>
          /\ ~hart.running =>
                /\ dm' = dm
                /\ hart' = [hart EXCEPT !.mem[request.addr] = request.data]
        BY <1>6, <2>2 DEF Command, MemCommand, TypeInv
    <2>5. TypeInv'
        BY <1>6, <2>3, <2>4 DEF TypeInv
    <2>6. Done'
        BY <1>0, <1>6, <2>4
        DEF TypeInv, WritingMemory, Untouched, Done, Effect, Target, command, addr,
            data
    <2>. QED
        BY <1>0, <2>1, <2>4, <2>5, <2>6 DEF WritingMemory, Untouched, WordIn
<1>. QED
    BY <1>0, <1>1, <1>2, <1>3, <1>4, <1>5, <1>6
    DEF WritingMemory, command, addr, data

LEMMA ReadsBus ==
    ASSUME TypeInv, request \in Request, request.type = "systemBus", request.read,
           ReadingBus, Access
    PROVE  TypeInv' /\ ReadingBus'
<1>. DEFINE w == before.mem[request.addr]
            size == Put([access |-> 2, readonaddr |-> TRUE])
            addr == Put(request.addr)
<1>. HIDE DEF size, addr
<1>0. /\ script # << >> /\ script' = Tail(script)
      /\ request' = request /\ before' = before
    BY Advances
<1>1. CASE script = <<Sel("sbcs"), size, Sel("sbaddress0"), addr,
                      Sel("sbdata0"), Get>>
    <2>1. /\ Head(script) = Sel("sbcs")
          /\ script' = <<size, Sel("sbaddress0"), addr, Sel("sbdata0"), Get>>
        BY <1>0, <1>1, Tails
    <2>2. sel' = "sbcs" /\ UNCHANGED <<dm, hart, value>>
        BY <2>1, Selects
    <2>. QED
        BY <1>0, <1>1, <2>1, <2>2
        DEF TypeInv, ReadingBus, Untouched, size, addr
<1>2. CASE /\ script = <<size, Sel("sbaddress0"), addr, Sel("sbdata0"), Get>>
           /\ sel = "sbcs"
    <2>1. /\ Head(script) = size
          /\ script' = <<Sel("sbaddress0"), addr, Sel("sbdata0"), Get>>
        BY <1>0, <1>2, Tails
    <2>2. /\ dm' = [dm EXCEPT !.sbcs = [access |-> 2, readonaddr |-> TRUE]]
          /\ UNCHANGED <<sel, value, hart>>
        BY <1>2, <2>1, Writes DEF DataWrite, size
    <2>4. TypeInv'
        BY <2>2 DEF TypeInv
    <2>. QED
        BY <1>0, <1>2, <2>1, <2>2, <2>4
        DEF TypeInv, ReadingBus, Untouched, size, addr
<1>3. CASE /\ script = <<Sel("sbaddress0"), addr, Sel("sbdata0"), Get>>
           /\ dm.sbcs.readonaddr
    <2>1. /\ Head(script) = Sel("sbaddress0")
          /\ script' = <<addr, Sel("sbdata0"), Get>>
        BY <1>0, <1>3, Tails
    <2>2. sel' = "sbaddress0" /\ UNCHANGED <<dm, hart, value>>
        BY <2>1, Selects
    <2>. QED
        BY <1>0, <1>3, <2>1, <2>2
        DEF TypeInv, ReadingBus, Untouched, size, addr
<1>4. CASE /\ script = <<addr, Sel("sbdata0"), Get>>
           /\ dm.sbcs.readonaddr /\ sel = "sbaddress0"
    <2>1. Head(script) = addr /\ script' = <<Sel("sbdata0"), Get>>
        BY <1>0, <1>4, Tails
    <2>2. /\ dm' = [dm EXCEPT !.sbaddress0 = request.addr,
                            !.sbdata0 = hart.mem[request.addr]]
          /\ UNCHANGED <<sel, value, hart>>
        BY <1>4, <2>1, Writes DEF DataWrite, addr, TypeInv
    <2>3. request.addr \in Addr
        BY DEF Request
    <2>4. TypeInv'
        BY <2>2, <2>3 DEF TypeInv
    <2>. QED
        BY <1>0, <1>4, <2>1, <2>2, <2>4
        DEF TypeInv, ReadingBus, Untouched, WordIn, size, addr
<1>5. CASE script = <<Sel("sbdata0"), Get>> /\ WordIn("sbdata0", w)
    <2>1. Head(script) = Sel("sbdata0") /\ script' = <<Get>>
        BY <1>0, <1>5, Tails
    <2>2. sel' = "sbdata0" /\ UNCHANGED <<dm, hart, value>>
        BY <2>1, Selects
    <2>. QED
        BY <1>0, <1>5, <2>1, <2>2
        DEF TypeInv, ReadingBus, Untouched, WordIn, size, addr
<1>6. CASE script = <<Get>> /\ WordIn("sbdata0", w) /\ sel = "sbdata0"
    <2>1. Head(script) = Get /\ script' = << >>
        BY <1>0, <1>6, Tails
    <2>2. value' = dm.sbdata0 /\ UNCHANGED <<sel, dm, hart>>
        BY <1>6, <2>1, Reads DEF DataRead
    <2>. QED
        BY <1>0, <1>6, <2>1, <2>2
        DEF TypeInv, ReadingBus, Untouched, WordIn, WordRead, size, addr
<1>. QED BY <1>0, <1>1, <1>2, <1>3, <1>4, <1>5, <1>6 DEF ReadingBus, size, addr

LEMMA WritesBus ==
    ASSUME TypeInv, request \in Request, request.type = "systemBus", ~request.read,
           WritingBus, Access
    PROVE  TypeInv' /\ WritingBus'
<1>. DEFINE size == Put([access |-> 0, readonaddr |-> FALSE])
            addr == Put(request.addr)
            data == Put(request.data)
<1>. HIDE DEF size, addr, data
<1>0. /\ script # << >> /\ script' = Tail(script)
      /\ request' = request /\ before' = before
    BY Advances
<1>1. CASE script = <<Sel("sbcs"), size, Sel("sbaddress0"), addr,
                      Sel("sbdata0"), data>>
    <2>1. /\ Head(script) = Sel("sbcs")
          /\ script' = <<size, Sel("sbaddress0"), addr, Sel("sbdata0"), data>>
        BY <1>0, <1>1, Tails
    <2>2. sel' = "sbcs" /\ UNCHANGED <<dm, hart, value>>
        BY <2>1, Selects
    <2>. QED
        BY <1>0, <1>1, <2>1, <2>2
        DEF TypeInv, WritingBus, Untouched, size, addr, data
<1>2. CASE /\ script = <<size, Sel("sbaddress0"), addr, Sel("sbdata0"), data>>
           /\ sel = "sbcs"
    <2>1. /\ Head(script) = size
          /\ script' = <<Sel("sbaddress0"), addr, Sel("sbdata0"), data>>
        BY <1>0, <1>2, Tails
    <2>2. /\ dm' = [dm EXCEPT !.sbcs = [access |-> 0, readonaddr |-> FALSE]]
          /\ UNCHANGED <<sel, value, hart>>
        BY <1>2, <2>1, Writes DEF DataWrite, size
    <2>4. TypeInv'
        BY <2>2 DEF TypeInv
    <2>. QED
        BY <1>0, <1>2, <2>1, <2>2, <2>4
        DEF TypeInv, WritingBus, Untouched, size, addr, data
<1>3. CASE /\ script = <<Sel("sbaddress0"), addr, Sel("sbdata0"), data>>
           /\ dm.sbcs.access = 0 /\ ~dm.sbcs.readonaddr
    <2>1. /\ Head(script) = Sel("sbaddress0")
          /\ script' = <<addr, Sel("sbdata0"), data>>
        BY <1>0, <1>3, Tails
    <2>2. sel' = "sbaddress0" /\ UNCHANGED <<dm, hart, value>>
        BY <2>1, Selects
    <2>. QED
        BY <1>0, <1>3, <2>1, <2>2
        DEF TypeInv, WritingBus, Untouched, size, addr, data
<1>4. CASE /\ script = <<addr, Sel("sbdata0"), data>>
           /\ dm.sbcs.access = 0 /\ ~dm.sbcs.readonaddr /\ sel = "sbaddress0"
    <2>1. Head(script) = addr /\ script' = <<Sel("sbdata0"), data>>
        BY <1>0, <1>4, Tails
    <2>2. /\ dm' = [dm EXCEPT !.sbaddress0 = request.addr,
                            !.sbdata0 = dm.sbdata0]
          /\ UNCHANGED <<sel, value, hart>>
        BY <1>4, <2>1, Writes DEF DataWrite, addr, TypeInv
    <2>3. request.addr \in Addr
        BY DEF Request
    <2>4. TypeInv'
        BY <2>2, <2>3 DEF TypeInv
    <2>. QED
        BY <1>0, <1>4, <2>1, <2>2, <2>4
        DEF TypeInv, WritingBus, Untouched, size, addr, data
<1>5. CASE /\ script = <<Sel("sbdata0"), data>>
           /\ dm.sbcs.access = 0 /\ dm.sbaddress0 = request.addr
    <2>1. Head(script) = Sel("sbdata0") /\ script' = <<data>>
        BY <1>0, <1>5, Tails
    <2>2. sel' = "sbdata0" /\ UNCHANGED <<dm, hart, value>>
        BY <2>1, Selects
    <2>. QED
        BY <1>0, <1>5, <2>1, <2>2
        DEF TypeInv, WritingBus, Untouched, size, addr, data
<1>6. CASE /\ script = <<data>>
           /\ sel = "sbdata0" /\ dm.sbcs.access = 0 /\ dm.sbaddress0 = request.addr
    <2>1. Head(script) = data /\ script' = << >>
        BY <1>0, <1>6, Tails
    <2>2. /\ hart' = [hart EXCEPT !.mem[request.addr] =
                            Merge(hart.mem[request.addr], request.data, 0)]
          /\ UNCHANGED <<sel, value, dm>>
        BY <1>6, <2>1, Writes DEF DataWrite, data, TypeInv
    <2>3. request.addr \in Addr /\ request.data \in Word
        BY DEF Request
    <2>4. Merge(hart.mem[request.addr], request.data, 0) \in Stored
        BY <2>3, Bytes DEF TypeInv
    <2>5. TypeInv'
        BY <2>2, <2>3, <2>4 DEF TypeInv
    <2>6. Done'
        BY <1>0, <1>6, <2>2
        DEF TypeInv, WritingBus, Untouched, Done, Effect, size, addr, data
    <2>. QED BY <1>0, <2>1, <2>5, <2>6 DEF WritingBus
<1>. QED
    BY <1>0, <1>1, <1>2, <1>3, <1>4, <1>5, <1>6
    DEF WritingBus, size, addr, data

LEMMA Selected ==
    ASSUME TypeInv, Selecting, Access
    PROVE  TypeInv' /\ Selecting'
<1>0. /\ script # << >> /\ script' = Tail(script)
      /\ request' = request /\ before' = before
    BY Advances
<1>1. CASE script = <<Get>>
    <2>1. Head(script) = Get /\ script' = << >>
        BY <1>0, <1>1, Tails
    <2>2. UNCHANGED <<sel, dm, hart>>
        BY <2>1, Reads
    <2>. QED BY <1>0, <2>1, <2>2 DEF TypeInv, Selecting, Untouched
<1>2. ASSUME NEW reg \in {"data0", "haltreq"},
             script \in {<<Sel(reg)>>, <<Sel(reg), Get>>}
      PROVE  TypeInv' /\ Selecting'
    <2>1. Head(script) = Sel(reg) /\ script' \in {<< >>, <<Get>>}
        <3>1. CASE script = <<Sel(reg)>>
            BY <1>0, <3>1, Tails
        <3>2. CASE script = <<Sel(reg), Get>>
            BY <1>0, <3>2, Tails
        <3>. QED BY <1>2, <3>1, <3>2
    <2>2. UNCHANGED <<dm, hart>>
        BY <2>1, Selects
    <2>. QED BY <1>0, <2>1, <2>2 DEF TypeInv, Selecting, Untouched
<1>. QED BY <1>0, <1>1, <1>2 DEF Selecting

LEMMA WritesModule ==
    ASSUME TypeInv, request \in Request, request.type = "dm", ~request.read,
           WritingModule, Access
    PROVE  TypeInv' /\ WritingModule'
<1>. DEFINE data == Put(request.data)
<1>. HIDE DEF data
<1>0. /\ script # << >> /\ script' = Tail(script)
      /\ request' = request /\ before' = before
    BY Advances
<1>1. CASE script = <<Sel(request.addr), data>>
    <2>1. Head(script) = Sel(request.addr) /\ script' = <<data>>
        BY <1>0, <1>1, Tails
    <2>2. sel' = request.addr /\ UNCHANGED <<dm, hart, value>>
        BY <2>1, Selects
    <2>. QED
        BY <1>0, <1>1, <2>1, <2>2 DEF TypeInv, WritingModule, Untouched, data
<1>2. CASE script = <<data>> /\ sel = request.addr
    <2>1. Head(script) = data /\ script' = << >>
        BY <1>0, <1>2, Tails
    <2>2. DataWrite(request.data) /\ request.addr \in {"data0", "haltreq"}
        BY <2>1, Writes DEF Request, data
    <2>3. request.data \in Stored
        BY Bytes DEF Request
    <2>4. CASE request.addr = "data0"
        <3>1. dm' = [dm EXCEPT !.data0 = request.data] /\ hart' = hart
            BY <1>2, <2>2, <2>4 DEF DataWrite
        <3>2. TypeInv'
            BY <2>3, <3>1 DEF TypeInv
        <3>3. Done'
            BY <1>0, <1>2, <2>4, <3>1
            DEF WritingModule, Untouched, Done, Effect, Target, data
        <3>. QED BY <2>1, <3>2, <3>3 DEF WritingModule
    <2>5. CASE request.addr = "haltreq"
        <3>1. hart' = [hart EXCEPT !.running = FALSE] /\ dm' = dm
            BY <1>2, <2>2, <2>5 DEF DataWrite
        <3>2. TypeInv'
            BY <3>1 DEF TypeInv
        <3>3. Done'
            BY <1>0, <1>2, <2>5, <3>1
            DEF WritingModule, Untouched, Done, Effect, Target, data
        <3>. QED BY <2>1, <3>2, <3>3 DEF WritingModule
    <2>. QED BY <2>2, <2>4, <2>5
<1>. QED BY <1>0, <1>1, <1>2 DEF WritingModule, data

LEMMA WritesData ==
    ASSUME TypeInv, request \in Request, request.type = "dtm", ~request.read,
           request.addr = \h0c, WritingData, Access
    PROVE  TypeInv' /\ WritingData'
<1>0. /\ script # << >> /\ script' = Tail(script)
      /\ request' = request /\ before' = before
    BY Advances
<1>1. /\ Untouched /\ script = <<Put(request.data)>>
      /\ sel \in {"data0", "haltreq"}
    BY <1>0 DEF WritingData
<1>2. Head(script) = Put(request.data) /\ script' = << >>
    BY <1>0, <1>1, Tails
<1>3. DataWrite(request.data)
    BY <1>2, Writes
<1>4. request.data \in Stored
    <2>. DEFINE ToData == [type : {"dtm"}, read : {FALSE}, addr : {\h0c},
                           data : Word]
                ToAddr == [type : {"dtm"}, read : {FALSE}, addr : {\h10},
                           data : {"data0", "haltreq"}]
    <2>1. request \in ToAddr \cup ToData
        BY DEF Request
    <2>2. \A r \in ToAddr : r.addr = \h10
        OBVIOUS
    <2>3. \A r \in ToData : r.data \in Word
        OBVIOUS
    <2>4. request.addr # \h10
        OBVIOUS
    <2>. HIDE DEF ToAddr, ToData
    <2>5. request \in ToData
        BY <2>1, <2>2, <2>4
    <2>. QED BY <2>3, <2>5, Bytes
<1>5. CASE sel = "data0"
    <2>1. dm' = [dm EXCEPT !.data0 = request.data] /\ hart' = hart
        BY <1>3, <1>5 DEF DataWrite
    <2>2. TypeInv'
        BY <1>4, <2>1 DEF TypeInv
    <2>3. Done'
        BY <1>0, <1>1, <2>1 DEF Untouched, Done, Effect, Target
    <2>. QED BY <1>2, <2>2, <2>3 DEF WritingData
<1>6. CASE sel = "haltreq"
    <2>1. hart' = [hart EXCEPT !.running = FALSE] /\ dm' = dm
        BY <1>3, <1>6 DEF DataWrite
    <2>2. TypeInv'
        BY <2>1 DEF TypeInv
    <2>3. ~before.running => hart' = hart
        BY <1>1, <2>1 DEF TypeInv, Untouched
    <2>4. Done'
        BY <1>0, <1>1, <2>3 DEF Untouched, Done, Effect, Target
    <2>. QED BY <1>2, <2>2, <2>4 DEF WritingData
<1>. QED BY <1>1, <1>5, <1>6

LEMMA Resumes ==
    ASSUME TypeInv, request \in Request, request.type = "control",
           request.addr = "resume", Resuming, Access
    PROVE  TypeInv' /\ Resuming'
<1>0. /\ script # << >> /\ script' = Tail(script)
      /\ request' = request /\ before' = before
    BY Advances
<1>1. CASE script = <<Sel("resumereq"), Put(1)>>
    <2>1. Head(script) = Sel("resumereq") /\ script' = <<Put(1)>>
        BY <1>0, <1>1, Tails
    <2>2. sel' = "resumereq" /\ UNCHANGED <<dm, hart, value>>
        BY <2>1, Selects
    <2>. QED BY <1>0, <1>1, <2>1, <2>2 DEF TypeInv, Resuming, Untouched
<1>2. CASE script = <<Put(1)>> /\ sel = "resumereq"
    <2>1. Head(script) = Put(1) /\ script' = << >>
        BY <1>0, <1>2, Tails
    <2>2. hart' = [hart EXCEPT !.running = TRUE] /\ dm' = dm
        BY <1>2, <2>1, Writes DEF DataWrite
    <2>3. TypeInv'
        BY <2>2 DEF TypeInv
    <2>4. Done'
        BY <1>0, <1>2, <2>2 DEF Resuming, Untouched, Done, Effect, Target
    <2>. QED BY <2>1, <2>3, <2>4 DEF Resuming
<1>. QED BY <1>0, <1>1, <1>2 DEF Resuming

-----------------------------------------------------------------------------
(***************************************************************************)
(* The invariant.                                                          *)
(***************************************************************************)

\* Every access leaves the request where it can stand.
LEMMA AccessStands ==
    ASSUME TypeInv, request \in Request, Standing, Access
    PROVE  TypeInv' /\ Standing'
<1>0. request' = request
    BY Advances
<1>1. CASE request.type = "register" /\ request.read
    BY <1>0, <1>1, ReadsRegister DEF Standing
<1>2. CASE request.type = "register" /\ ~request.read
    BY <1>0, <1>2, WritesRegister DEF Standing
<1>3. CASE request.type = "memory" /\ request.read
    BY <1>0, <1>3, ReadsMemory DEF Standing
<1>4. CASE request.type = "memory" /\ ~request.read
    BY <1>0, <1>4, WritesMemory DEF Standing
<1>5. CASE request.type = "systemBus" /\ request.read
    BY <1>0, <1>5, ReadsBus DEF Standing
<1>6. CASE request.type = "systemBus" /\ ~request.read
    BY <1>0, <1>6, WritesBus DEF Standing
<1>7. CASE request.type = "dm" /\ request.read
    BY <1>0, <1>7, Selected DEF Standing
<1>8. CASE request.type = "dm" /\ ~request.read
    BY <1>0, <1>8, WritesModule DEF Standing
<1>9. CASE request.type = "dtm" /\ ~request.read /\ request.addr = \h0c
    BY <1>0, <1>9, WritesData DEF Standing
<1>10. CASE request.type = "dtm" /\ ~(~request.read /\ request.addr = \h0c)
    BY <1>0, <1>10, Selected DEF Standing
<1>11. CASE request.type = "control" /\ request.addr = "resume"
    BY <1>0, <1>11, Resumes DEF Standing
<1>12. CASE request.type = "control" /\ request.addr # "resume"
    BY <1>0, <1>12, Selected DEF Standing
<1>13. request.type \in {"register", "memory", "systemBus", "dm", "dtm", "control"}
    BY DEF Request
<1>. QED
    BY <1>1, <1>2, <1>3, <1>4, <1>5, <1>6, <1>7, <1>8, <1>9, <1>10, <1>11,
       <1>12, <1>13

\* The scripts, written out as the accesses they are made of.
LEMMA Pairs ==
    ASSUME NEW reg, NEW v
    PROVE  /\ write_dm(reg, v) = <<Sel(reg), Put(v)>>
           /\ read_dm(reg) = <<Sel(reg), Get>>
BY DEF write_dm, read_dm, Sel, Put, Get

WritesInOrder(p, u, q, v, r, w) ==
    write_dm(p, u) \o write_dm(q, v) \o write_dm(r, w)
        = <<Sel(p), Put(u), Sel(q), Put(v), Sel(r), Put(w)>>

LEMMA ThreeWrites ==
    ASSUME NEW p, NEW u, NEW q, NEW v, NEW r, NEW w
    PROVE  WritesInOrder(p, u, q, v, r, w)
<1>1. /\ write_dm(p, u) = <<Sel(p), Put(u)>> /\ write_dm(q, v) = <<Sel(q), Put(v)>>
      /\ write_dm(r, w) = <<Sel(r), Put(w)>>
    BY Pairs
<1>2. <<Sel(p), Put(u)>> \o <<Sel(q), Put(v)>>
        = <<Sel(p), Put(u), Sel(q), Put(v)>>
    BY JoinedFour
<1>3. <<Sel(p), Put(u), Sel(q), Put(v)>> \o <<Sel(r), Put(w)>>
        = <<Sel(p), Put(u), Sel(q), Put(v), Sel(r), Put(w)>>
    BY JoinedSix
<1>. QED BY <1>1, <1>2, <1>3 DEF WritesInOrder

LEMMA TwoWritesAndRead ==
    ASSUME NEW p, NEW u, NEW q, NEW v, NEW r
    PROVE  write_dm(p, u) \o write_dm(q, v) \o read_dm(r)
                = <<Sel(p), Put(u), Sel(q), Put(v), Sel(r), Get>>
<1>1. /\ write_dm(p, u) = <<Sel(p), Put(u)>> /\ write_dm(q, v) = <<Sel(q), Put(v)>>
      /\ read_dm(r) = <<Sel(r), Get>>
    BY Pairs
<1>2. <<Sel(p), Put(u)>> \o <<Sel(q), Put(v)>>
        = <<Sel(p), Put(u), Sel(q), Put(v)>>
    BY JoinedFour
<1>3. <<Sel(p), Put(u), Sel(q), Put(v)>> \o <<Sel(r), Get>>
        = <<Sel(p), Put(u), Sel(q), Put(v), Sel(r), Get>>
    BY JoinedSix
<1>. QED BY <1>1, <1>2, <1>3

\* A request that was just read stands at its beginning.
LEMMA RequestStands ==
    ASSUME TypeInv, NEW r \in Request, Sends(r),
           request' = r, script' = Script(r), before' = hart,
           UNCHANGED <<hart, sel>>
    PROVE  Standing'
<1>0. Untouched'
    BY DEF Untouched
<1>1. CASE r.type = "register"
    <2>1. Script(r) = IF r.read THEN read_register(r) ELSE write_register(r)
        BY <1>1 DEF Script
    <2>2. r.read => script' = <<Sel("command"), Put(RegCommand(r.addr, FALSE)),
                                Sel("data0"), Get>>
        BY <2>1, JoinedFour DEF read_register, write_dm, read_dm, Sel, Put, Get
    <2>3. ~r.read => script' = <<Sel("data0"), Put(r.data), Sel("command"),
                                 Put(RegCommand(r.addr, TRUE))>>
        BY <2>1, JoinedFour DEF write_register, write_dm, Sel, Put
    <2>. QED
        BY <1>0, <1>1, <2>2, <2>3 DEF Standing, ReadingRegister, WritingRegister
<1>2. CASE r.type = "memory" /\ r.read
    <2>. DEFINE word == MemCommand(FALSE)
    <2>. HIDE DEF word
    <2>1. script' = read_mem(r)
        BY <1>2 DEF Script
    <2>2. read_mem(r) = <<Sel("data1"), Put(r.addr), Sel("command"), Put(word),
                       Sel("data0"), Get>>
        BY TwoWritesAndRead DEF read_mem, word
    <2>. QED BY <1>0, <1>2, <2>1, <2>2 DEF Standing, ReadingMemory, word
<1>3. CASE r.type = "memory" /\ ~r.read
    <2>. DEFINE word == MemCommand(TRUE)
    <2>. HIDE DEF word
    <2>1. script' = write_mem(r)
        BY <1>3 DEF Script
    <2>2. WritesInOrder("data1", r.addr, "data0", r.data, "command", word)
        BY ThreeWrites
    <2>3. write_mem(r) = <<Sel("data1"), Put(r.addr), Sel("data0"), Put(r.data),
                           Sel("command"), Put(word)>>
        BY <2>2 DEF WritesInOrder, write_mem, word
    <2>. QED BY <1>0, <1>3, <2>1, <2>3 DEF Standing, WritingMemory, word
<1>4. CASE r.type = "systemBus" /\ r.read
    <2>. DEFINE word == [access |-> 2, readonaddr |-> TRUE]
    <2>. HIDE DEF word
    <2>1. script' = read_bus(r)
        BY <1>4 DEF Script
    <2>2. read_bus(r) = <<Sel("sbcs"), Put(word), Sel("sbaddress0"), Put(r.addr),
                       Sel("sbdata0"), Get>>
        BY TwoWritesAndRead DEF read_bus, word
    <2>. QED BY <1>0, <1>4, <2>1, <2>2 DEF Standing, ReadingBus, word
<1>5. CASE r.type = "systemBus" /\ ~r.read
    <2>. DEFINE word == [access |-> 0, readonaddr |-> FALSE]
    <2>. HIDE DEF word
    <2>1. script' = write_bus(r)
        BY <1>5 DEF Script
    <2>2. WritesInOrder("sbcs", word, "sbaddress0", r.addr, "sbdata0", r.data)
        BY ThreeWrites
    <2>3. write_bus(r) = <<Sel("sbcs"), Put(word), Sel("sbaddress0"), Put(r.addr),
                        Sel("sbdata0"), Put(r.data)>>
        BY <2>2 DEF WritesInOrder, write_bus, word
    <2>. QED BY <1>0, <1>5, <2>1, <2>3 DEF Standing, WritingBus, word
<1>6. CASE r.type = "dm"
    <2>1. Script(r) = IF r.read THEN read_dm(r.addr) ELSE write_dm(r.addr, r.data)
        BY <1>6 DEF Script
    <2>2. r.read => script' = <<Sel(r.addr), Get>>
        BY <2>1 DEF read_dm, Sel, Get
    <2>3. ~r.read => script' = <<Sel(r.addr), Put(r.data)>>
        BY <2>1 DEF write_dm, Sel, Put
    <2>4. r.addr \in {"data0", "haltreq"}
        BY <1>6 DEF Request
    <2>. QED
        BY <1>0, <1>6, <2>2, <2>3, <2>4 DEF Standing, Selecting, WritingModule
<1>7. CASE r.type = "dtm" /\ r.read
    <2>1. Script(r) = IF r.addr = 8 THEN << >> ELSE <<ReadDtm("data")>>
        BY <1>7 DEF Script
    <2>. QED BY <1>0, <1>7, <2>1 DEF Standing, Selecting, Get
<1>8. CASE r.type = "dtm" /\ ~r.read
    <2>1. Script(r) = <<WriteDtm(IF r.addr = \h10 THEN "addr" ELSE "data", r.data)>>
        BY <1>8 DEF Script
    <2>2. \/ r.addr = \h10 /\ r.data \in {"data0", "haltreq"}
          \/ r.addr = \h0c
        BY <1>8 DEF Request
    <2>3. CASE r.addr = \h10 /\ r.data \in {"data0", "haltreq"}
        <3>1. script' = <<Sel(r.data)>>
            BY <2>1, <2>3 DEF Sel
        <3>. QED BY <1>0, <1>8, <2>3, <3>1 DEF Standing, Selecting
    <2>4. CASE r.addr = \h0c
        <3>1. script' = <<Put(r.data)>> /\ sel' \in {"data0", "haltreq"}
            BY <1>8, <2>1, <2>4 DEF Put, Sends
        <3>. QED BY <1>0, <1>8, <2>4, <3>1 DEF Standing, WritingData
    <2>. QED BY <2>2, <2>3, <2>4
<1>9. CASE r.type = "control"
    <2>1. Script(r) = IF r.addr = "resume" THEN handle_resume ELSE << >>
        BY <1>9 DEF Script
    <2>. QED
        BY <1>0, <1>9, <2>1
        DEF Standing, Selecting, Resuming, handle_resume, write_dm, Sel, Put
<1>. QED
    BY <1>1, <1>2, <1>3, <1>4, <1>5, <1>6, <1>7, <1>8, <1>9 DEF Request

LEMMA GenInvariance == GeneratorSpec => []GenInv
<1>1. GeneratorInit => GenInv
    BY Bytes DEF GeneratorInit, GenInv, TypeInv
<1>2. GenInv /\ [GeneratorNext]_genvars => GenInv'
    <2>. SUFFICES ASSUME GenInv, [GeneratorNext]_genvars PROVE GenInv'
        OBVIOUS
    <2>1. CASE ReadRequest
        <3>1. TypeInv' /\ TypeInv
            BY <2>1 DEF ReadRequest, GenInv, TypeInv
        <3>2. PICK r \in Request : Sends(r) /\ request' = r /\ script' = Script(r)
            BY <2>1 DEF ReadRequest
        <3>3. Standing'
            BY <2>1, <3>1, <3>2, RequestStands DEF ReadRequest
        <3>4. before' = hart
            BY <2>1 DEF ReadRequest
        <3>. QED BY <3>1, <3>2, <3>3, <3>4 DEF GenInv, TypeInv
    <2>2. CASE Access
        BY <2>2, Advances, AccessStands DEF GenInv
    <2>3. CASE \/ enable_debug \/ AcceptClient \/ IncomingFails \/ SessionClosed
               \/ ReadFails \/ Panic \/ Respond \/ CtrlC
        <3>1. server' # "serve" /\ UNCHANGED <<hart, dm>>
            BY <2>3
            DEF enable_debug, AcceptClient, IncomingFails, SessionClosed, ReadFails,
                Panic, Respond, CtrlC, Return
        <3>. QED BY <3>1 DEF GenInv, TypeInv
    <2>4. CASE Disconnect \/ UNCHANGED genvars
        <3>1. UNCHANGED <<server, srvvars, sel, dm, hart>>
            BY <2>4 DEF Disconnect, genvars, netvars
        <3>2. Standing => Standing'
            BY <3>1
            DEF Standing, ReadingRegister, WritingRegister,
                ReadingMemory, WritingMemory, ReadingBus, WritingBus, Selecting,
                WritingModule, WritingData, Resuming, Untouched, Done, WordIn,
                WordRead, srvvars
        <3>3. TypeInv'
            BY <3>1 DEF GenInv, TypeInv
        <3>. QED BY <3>1, <3>2, <3>3 DEF GenInv, srvvars
    <2>. QED BY <2>1, <2>2, <2>3, <2>4 DEF GeneratorNext
<1>. QED BY <1>1, <1>2, PTL DEF GeneratorSpec

-----------------------------------------------------------------------------
(***************************************************************************)
(* The theorems.                                                           *)
(***************************************************************************)

\* When a request has been served it stands at its end.
LEMMA Served ==
    ASSUME GenInv
    PROVE  EffectsMatch
<1>. SUFFICES ASSUME server = "serve", script = << >>, ~before.running
              PROVE  /\ hart = Effect(before, request)
                     /\ /\ request.read
                        /\ request.type \in {"register", "memory", "systemBus"}
                        => value = Answered(before, request)
    BY DEF EffectsMatch
<1>0. request \in Request /\ Standing
    BY DEF GenInv
<1>1. CASE request.type \in {"register", "memory", "systemBus"} /\ request.read
    <2>1. hart = before
        BY <1>0, <1>1
        DEF Standing, ReadingRegister, ReadingMemory, ReadingBus, Untouched
    <2>2. value = IF request.type = "register" THEN before.gpr[request.addr]
                  ELSE before.mem[request.addr]
        BY <1>0, <1>1
        DEF Standing, ReadingRegister, ReadingMemory, ReadingBus, WordRead
    <2>. QED BY <1>1, <2>1, <2>2 DEF Effect, Target, Answered
<1>2. CASE request.type \in {"register", "memory", "systemBus"} /\ ~request.read
    BY <1>0, <1>2
    DEF Standing, WritingRegister, WritingMemory, WritingBus, Done
<1>3. CASE request.type \in {"dm", "dtm", "control"}
    <2>1. CASE Done
        BY <1>3, <2>1 DEF Done, Request
    <2>2. CASE ~Done
        <3>1. Untouched /\ ~(request.type = "dm" /\ ~request.read)
                 /\ ~(request.type = "control" /\ request.addr = "resume")
            BY <1>0, <1>3, <2>2
            DEF Standing, Selecting, WritingModule, WritingData, Resuming
        <3>. QED BY <1>3, <3>1 DEF Untouched, Effect, Target
    <2>. QED BY <2>1, <2>2
<1>. QED BY <1>0, <1>1, <1>2, <1>3 DEF Request

\* A bus write of one byte is the whole word, when words are bytes.
LEMMA EffectIsTarget ==
    ASSUME Word \subseteq 0 .. 255, GenInv, server = "serve"
    PROVE  Effect(before, request) = Target(before, request)
<1>1. CASE request.type = "systemBus" /\ ~request.read
    <2>1. request.addr \in Addr /\ request.data \in Word
        BY <1>1 DEF GenInv, Request
    <2>2. before.mem[request.addr] \in Stored
        BY <2>1 DEF GenInv
    <2>3. Merge(before.mem[request.addr], request.data, 0) = request.data
        BY <2>1, <2>2, Bytes
    <2>. QED BY <1>1, <2>3 DEF Effect, Target
<1>2. CASE ~(request.type = "systemBus" /\ ~request.read)
    BY <1>2 DEF Effect
<1>. QED BY <1>1, <1>2

(***************************************************************************)
(* For registers, addresses and words of every kind: when a request is     *)
(* answered, a halted hart has changed as Effect says and in no other way, *)
(* and a read answers the word that was there.  Effect is what the request *)
(* means, but for a system bus write (write_bus sets the access size to    *)
(* one byte), which replaces the low byte of the word only.                *)
(***************************************************************************)
THEOREM EffectOfRequests == GeneratorSpec => []EffectsMatch
BY GenInvariance, Served, PTL

(***************************************************************************)
(* With words of one byte this is what every request means.  The           *)
(* assumption is where the code keeps to the meaning: GeneratorBusWrite    *)
(* shows a wider word that write_bus does not write.                       *)
(***************************************************************************)
THEOREM RequestsMean ==
    ASSUME Word \subseteq 0 .. 255
    PROVE  GeneratorSpec => []RequestMeansWhatItSays
<1>1. GenInv /\ EffectsMatch => RequestMeansWhatItSays
    BY EffectIsTarget DEF EffectsMatch, RequestMeansWhatItSays
<1>. QED BY <1>1, GenInvariance, EffectOfRequests, PTL

=============================================================================
