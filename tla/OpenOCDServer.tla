---------------------------- MODULE OpenOCDServer ----------------------------
(***************************************************************************)
(* The socket server of the simulators: the listening thread, and per      *)
(* connection the thread that answers it (handle_connection) and the one   *)
(* that receives from it (recv_thread), around one RequestResponseFIFO     *)
(* shared by all of them and by the simulation's own thread.               *)
(*                                                                         *)
(* Every blocking call of the code times out after a second and looks at a *)
(* flag; a timeout that finds the flag unchanged is a stuttering step.     *)
(* The simulation thread serves the FIFO as DebugTransport says (which     *)
(* DMIHandler implements): in order, one answer per request it serves, and *)
(* the others are dropped in their turn.                                   *)
(***************************************************************************)
EXTENDS Integers, Sequences, FiniteSets

CONSTANTS Conn,         \* connections, in whatever order they are made
          MaxRequests,  \* bound on the requests of a connection
          MaxFaults,    \* bound on failing calls of the sockets
          Clients,      \* "any", "sequential" or "alone": see Connect
          None

ASSUME ServerAssumption ==
    /\ MaxRequests \in Nat
    /\ MaxFaults \in Nat
    /\ Clients \in {"any", "sequential", "alone"}

\* The requests of all clients.  A read of DTMCS and accesses of the DTM's
\* address and data registers are served; control requests, other addresses
\* and direct requests get no answer.
ClientRequest == [conn : Conn, nr : Nat, served : BOOLEAN]
ASSUME NoneAssumption == None \notin ClientRequest

VARIABLES
    request_queue, response_queue,     \* RequestResponseFIFO
    run_server,
    listener,           \* "off", "accept", "join" or "done"
    receiver,           \* [Conn -> pc of recv_thread]
    received,           \* [Conn -> the request it is about to push]
    writer,             \* [Conn -> pc of handle_connection's own loop]
    resp,               \* [Conn -> the response it is about to write]
    connectionActive,   \* [Conn -> BOOLEAN]
    sim,                \* the simulation thread: "serve", "join" or "exited"
    serving,            \* the request it works on
    client,             \* [Conn -> "none", "open" or "closed"]
    toServer, toClient, \* [Conn -> what is in the socket]
    sent,               \* [Conn -> number of requests sent]
    waiting,            \* [Conn -> is an answer expected to the last one]
    behind,             \* [Conn -> did a recv return more than one request]
    faults,             \* calls of the sockets that failed
    killed              \* a write to a closed connection raised SIGPIPE

queues == <<request_queue, response_queue>>
threads == <<receiver, received, writer, resp, connectionActive>>
clients == <<client, toServer, toClient, sent, waiting, behind>>
vars == <<queues, run_server, listener, threads, sim, serving, clients,
          faults, killed>>

Init ==
    /\ request_queue = << >>
    /\ response_queue = << >>
    /\ run_server = TRUE
    /\ listener = "off"
    /\ receiver = [c \in Conn |-> "none"]
    /\ received = [c \in Conn |-> None]
    /\ writer = [c \in Conn |-> "none"]
    /\ resp = [c \in Conn |-> None]
    /\ connectionActive = [c \in Conn |-> FALSE]
    /\ sim = "serve"
    /\ serving = None
    /\ client = [c \in Conn |-> "none"]
    /\ toServer = [c \in Conn |-> << >>]
    /\ toClient = [c \in Conn |-> << >>]
    /\ sent = [c \in Conn |-> 0]
    /\ waiting = [c \in Conn |-> FALSE]
    /\ behind = [c \in Conn |-> FALSE]
    /\ faults = 0
    /\ killed = FALSE

Alive == ~killed /\ sim # "exited"

Handled(c) == writer[c] \notin {"none", "closed"}

-----------------------------------------------------------------------------
(* do_listen.                                                              *)

start_listening ==
    /\ Alive
    /\ listener = "off"
    /\ listener' = "accept"
    /\ UNCHANGED <<queues, run_server, threads, sim, serving, clients, faults,
                   killed>>

\* The nonblocking accept finds a connection; its thread is started, and that
\* thread starts the receiver.
Accept(c) ==
    /\ Alive
    /\ listener = "accept"
    /\ run_server
    /\ client[c] # "none"
    /\ writer[c] = "none"
    /\ writer' = [writer EXCEPT ![c] = "wait"]
    /\ receiver' = [receiver EXCEPT ![c] = "recv"]
    /\ connectionActive' = [connectionActive EXCEPT ![c] = TRUE]
    /\ UNCHANGED <<queues, run_server, listener, received, resp, sim, serving,
                   clients, faults, killed>>

StopAccepting ==
    /\ Alive
    /\ listener = "accept"
    /\ ~run_server
    /\ listener' = "join"
    /\ UNCHANGED <<queues, run_server, threads, sim, serving, clients, faults,
                   killed>>

\* An error other than "nobody is there" ends the loop, with run_server set.
AcceptFails ==
    /\ Alive
    /\ listener = "accept"
    /\ run_server
    /\ faults < MaxFaults
    /\ faults' = faults + 1
    /\ listener' = "join"
    /\ UNCHANGED <<queues, run_server, threads, sim, serving, clients, killed>>

JoinConnections ==
    /\ Alive
    /\ listener = "join"
    /\ \A c \in Conn : ~Handled(c)
    /\ listener' = "done"
    /\ UNCHANGED <<queues, run_server, threads, sim, serving, clients, faults,
                   killed>>

-----------------------------------------------------------------------------
(* recv_thread of connection c.                                            *)

\* One recv takes everything that has arrived; the first request is decoded
\* and what came behind it is lost.
RecvRequest(c) ==
    /\ Alive
    /\ receiver[c] = "recv"
    /\ toServer[c] # << >>
    /\ received' = [received EXCEPT ![c] = Head(toServer[c])]
    /\ toServer' = [toServer EXCEPT ![c] = << >>]
    /\ behind' = [behind EXCEPT ![c] = @ \/ Len(toServer[c]) > 1]
    /\ receiver' = [receiver EXCEPT ![c] = "push"]
    /\ UNCHANGED <<queues, run_server, listener, writer, resp, connectionActive,
                   sim, serving, client, toClient, sent, waiting, faults, killed>>

\* The thread ends: connectionActive is cleared as its last act.
EndReceiver(c) ==
    /\ receiver' = [receiver EXCEPT ![c] = "done"]
    /\ connectionActive' = [connectionActive EXCEPT ![c] = FALSE]

\* Mutant: a connection serves a single request.
push_request_Once(c) ==
    /\ Alive
    /\ receiver[c] = "push"
    /\ request_queue' = Append(request_queue, received[c])
    /\ received' = [received EXCEPT ![c] = None]
    /\ EndReceiver(c)
    /\ UNCHANGED <<response_queue, run_server, listener, writer, resp, sim,
                   serving, clients, faults, killed>>

push_request(c) ==
    /\ Alive
    /\ receiver[c] = "push"
    /\ request_queue' = Append(request_queue, received[c])
    /\ received' = [received EXCEPT ![c] = None]
    /\ IF run_server
         THEN /\ receiver' = [receiver EXCEPT ![c] = "recv"]
              /\ UNCHANGED connectionActive
         ELSE EndReceiver(c)
    /\ UNCHANGED <<response_queue, run_server, listener, writer, resp, sim,
                   serving, clients, faults, killed>>

\* Mutant: a closed connection is not noticed by its other thread.
StopReceiving_KeepsActive(c) ==
    /\ Alive
    /\ receiver[c] = "recv"
    /\ \/ client[c] = "closed" /\ toServer[c] = << >>
       \/ ~run_server
    /\ receiver' = [receiver EXCEPT ![c] = "done"]
    /\ UNCHANGED <<queues, run_server, listener, received, writer, resp,
                   connectionActive, sim, serving, clients, faults, killed>>

\* recv returns 0, or a timeout finds the server stopped.
StopReceiving(c) ==
    /\ Alive
    /\ receiver[c] = "recv"
    /\ \/ client[c] = "closed" /\ toServer[c] = << >>
       \/ ~run_server
    /\ EndReceiver(c)
    /\ UNCHANGED <<queues, run_server, listener, received, writer, resp, sim,
                   serving, clients, faults, killed>>

\* Any error of recv but a timeout.
ReceiveFails(c) ==
    /\ Alive
    /\ receiver[c] = "recv"
    /\ faults < MaxFaults
    /\ faults' = faults + 1
    /\ EndReceiver(c)
    /\ UNCHANGED <<queues, run_server, listener, received, writer, resp, sim,
                   serving, clients, killed>>

-----------------------------------------------------------------------------
(* The loop of handle_connection.                                          *)

AfterLoop(c) == IF connectionActive[c] THEN "wait" ELSE "join"

wait_for_response(c) ==
    /\ Alive
    /\ writer[c] = "wait"
    /\ response_queue # << >> \/ ~connectionActive[c]
    /\ writer' = [writer EXCEPT ![c] = "pop"]
    /\ UNCHANGED <<queues, run_server, listener, receiver, received, resp,
                   connectionActive, sim, serving, clients, faults, killed>>

\* Mutant: the front is read and left in the queue.
pop_response_Peek(c) ==
    /\ Alive
    /\ writer[c] = "pop"
    /\ response_queue # << >>
    /\ resp' = [resp EXCEPT ![c] = Head(response_queue)]
    /\ writer' = [writer EXCEPT ![c] = "write"]
    /\ UNCHANGED <<queues, run_server, listener, receiver, received,
                   connectionActive, sim, serving, clients, faults, killed>>

pop_response(c) ==
    /\ Alive
    /\ writer[c] = "pop"
    /\ response_queue # << >>
    /\ resp' = [resp EXCEPT ![c] = Head(response_queue)]
    /\ response_queue' = Tail(response_queue)
    /\ writer' = [writer EXCEPT ![c] = "write"]
    /\ UNCHANGED <<request_queue, run_server, listener, receiver, received,
                   connectionActive, sim, serving, clients, faults, killed>>

\* pop_response returns nothing: the queue is empty, or try_lock failed
\* because another thread held the mutex at that moment.
PopMisses(c) ==
    /\ Alive
    /\ writer[c] = "pop"
    /\ writer' = [writer EXCEPT ![c] = AfterLoop(c)]
    /\ UNCHANGED <<queues, run_server, listener, receiver, received, resp,
                   connectionActive, sim, serving, clients, faults, killed>>

\* write to a connection that the client has closed raises SIGPIPE, which
\* the simulators leave at its default action.
WriteResponse(c) ==
    /\ Alive
    /\ writer[c] = "write"
    /\ resp' = [resp EXCEPT ![c] = None]
    /\ IF client[c] = "open"
         THEN /\ toClient' = [toClient EXCEPT ![c] = Append(@, resp[c])]
              /\ writer' = [writer EXCEPT ![c] = AfterLoop(c)]
              /\ UNCHANGED killed
         ELSE /\ killed' = TRUE
              /\ UNCHANGED <<toClient, writer>>
    /\ UNCHANGED <<queues, run_server, listener, receiver, received,
                   connectionActive, sim, serving, client, toServer, sent,
                   waiting, behind, faults>>

\* Any other failure of the write ends the loop; the response is lost.
WriteFails(c) ==
    /\ Alive
    /\ writer[c] = "write"
    /\ client[c] = "open"
    /\ faults < MaxFaults
    /\ faults' = faults + 1
    /\ resp' = [resp EXCEPT ![c] = None]
    /\ writer' = [writer EXCEPT ![c] = "join"]
    /\ UNCHANGED <<queues, run_server, listener, receiver, received,
                   connectionActive, sim, serving, clients, killed>>

CloseConnection(c) ==
    /\ Alive
    /\ writer[c] = "join"
    /\ receiver[c] = "done"
    /\ writer' = [writer EXCEPT ![c] = "closed"]
    /\ UNCHANGED <<queues, run_server, listener, receiver, received, resp,
                   connectionActive, sim, serving, clients, faults, killed>>

-----------------------------------------------------------------------------
(* The simulation thread: it serves the FIFO until SIGINT, then stops the  *)
(* server and exits.                                                       *)

pop_request ==
    /\ Alive
    /\ sim = "serve"
    /\ serving = None
    /\ request_queue # << >>
    /\ serving' = Head(request_queue)
    /\ request_queue' = Tail(request_queue)
    /\ UNCHANGED <<response_queue, run_server, listener, threads, sim, clients,
                   faults, killed>>

push_response ==
    /\ Alive
    /\ sim = "serve"
    /\ serving # None
    /\ serving.served
    /\ response_queue' = Append(response_queue, serving)
    /\ serving' = None
    /\ UNCHANGED <<request_queue, run_server, listener, threads, sim, clients,
                   faults, killed>>

drop_request ==
    /\ Alive
    /\ sim = "serve"
    /\ serving # None
    /\ ~serving.served
    /\ serving' = None
    /\ UNCHANGED <<queues, run_server, listener, threads, sim, clients, faults,
                   killed>>

\* Mutant: the flag is not cleared before the join.
stop_listening_NoFlag ==
    /\ Alive
    /\ sim = "serve"
    /\ listener # "off"
    /\ sim' = "join"
    /\ UNCHANGED <<queues, run_server, listener, threads, serving, clients,
                   faults, killed>>

stop_listening ==
    /\ Alive
    /\ sim = "serve"
    /\ listener # "off"
    /\ run_server' = FALSE
    /\ sim' = "join"
    /\ UNCHANGED <<queues, listener, threads, serving, clients, faults, killed>>

ExitSim ==
    /\ Alive
    /\ sim = "join"
    /\ listener = "done"
    /\ sim' = "exited"
    /\ UNCHANGED <<queues, run_server, listener, threads, serving, clients,
                   faults, killed>>

-----------------------------------------------------------------------------
(* Clients (OpenOCD).  A client waits for the answer to a request that is  *)
(* served before it sends the next one; it may send more right behind one  *)
(* that is not.  It may leave at any time, also while it waits.            *)
(* Clients = "any": two may be there at once; "sequential": one connects   *)
(* after another has closed; "alone": and not before the server has closed *)
(* the old connection too.                                                 *)

Connect(c) ==
    /\ client[c] = "none"
    /\ \A d \in Conn \ {c} :
          /\ Clients # "any" => client[d] # "open"
          /\ Clients = "alone" /\ client[d] = "closed" => writer[d] = "closed"
    /\ client' = [client EXCEPT ![c] = "open"]
    /\ UNCHANGED <<queues, run_server, listener, threads, sim, serving,
                   toServer, toClient, sent, waiting, behind, faults, killed>>

Send(c) ==
    /\ client[c] = "open"
    /\ ~waiting[c]
    /\ sent[c] < MaxRequests
    /\ sent' = [sent EXCEPT ![c] = @ + 1]
    /\ \E served \in BOOLEAN :
          /\ toServer' = [toServer EXCEPT ![c] = Append(@,
                             [conn |-> c, nr |-> sent[c] + 1, served |-> served])]
          /\ waiting' = [waiting EXCEPT ![c] = served]
    /\ UNCHANGED <<queues, run_server, listener, threads, sim, serving,
                   client, toClient, behind, faults, killed>>

Receive(c) ==
    /\ client[c] = "open"
    /\ toClient[c] # << >>
    /\ toClient' = [toClient EXCEPT ![c] = Tail(@)]
    /\ waiting' = [waiting EXCEPT ![c] = FALSE]
    /\ UNCHANGED <<queues, run_server, listener, threads, sim, serving,
                   client, toServer, sent, behind, faults, killed>>

Close(c) ==
    /\ client[c] = "open"
    /\ client' = [client EXCEPT ![c] = "closed"]
    /\ UNCHANGED <<queues, run_server, listener, threads, sim, serving,
                   toServer, toClient, sent, waiting, behind, faults, killed>>

-----------------------------------------------------------------------------
Listening ==
    \/ start_listening \/ StopAccepting \/ AcceptFails \/ JoinConnections
    \/ \E c \in Conn : Accept(c)
Receiving(c) == RecvRequest(c) \/ push_request(c) \/ StopReceiving(c) \/ ReceiveFails(c)
Answering(c) ==
    \/ wait_for_response(c) \/ pop_response(c) \/ PopMisses(c)
    \/ WriteResponse(c) \/ WriteFails(c) \/ CloseConnection(c)
Simulating == pop_request \/ push_response \/ drop_request \/ ExitSim
ClientSide(c) == Connect(c) \/ Send(c) \/ Receive(c) \/ Close(c)

Next ==
    \/ Listening \/ Simulating \/ stop_listening
    \/ \E c \in Conn : Receiving(c) \/ Answering(c) \/ ClientSide(c)

(***************************************************************************)
(* Fairness: every thread runs, without a call ever having to fail; a      *)
(* thread that keeps trying to pop does not lose the race for the mutex    *)
(* for ever.                                                               *)
(***************************************************************************)
Spec ==
    /\ Init /\ [][Next]_vars
    /\ WF_vars(UNCHANGED faults /\ Listening)
    /\ WF_vars(Simulating)
    /\ \A c \in Conn :
          /\ WF_vars(UNCHANGED faults /\ Receiving(c))
          /\ WF_vars(UNCHANGED faults /\ Answering(c))
          /\ SF_vars(pop_response(c))
          /\ WF_vars(Receive(c))

-----------------------------------------------------------------------------
\* The client left before the answer it was waiting for came.
LeftEarly(c) == client[c] = "closed" /\ waiting[c]

NobodyLeftEarly == \A c \in Conn : ~LeftEarly(c)

\* The request c waits for the answer of.
Asked(c) == [conn |-> c, nr |-> sent[c], served |-> TRUE]

(***************************************************************************)
(* What a client receives is the one answer it is waiting for, unless a    *)
(* client left with a request unanswered: that answer stays in the FIFO    *)
(* and goes to the next connection (pop_response knows no owner).          *)
(***************************************************************************)
AnswersGoHome ==
    NobodyLeftEarly =>
        \A c \in Conn : toClient[c] # << >> =>
            waiting[c] /\ toClient[c] = <<Asked(c)>>

(***************************************************************************)
(* SIGPIPE takes the simulation down only when a client leaves while its   *)
(* answer is on the way.  A client that closes after its last answer, or   *)
(* after requests that are not answered, never does, wherever the threads  *)
(* of its connection are then.                                             *)
(***************************************************************************)
SurvivesDisconnect == killed => ~NobodyLeftEarly

(***************************************************************************)
(* A client that waits for the answer to a request that is served gets     *)
(* one, unless it leaves, the request came behind another in one recv,     *)
(* a call of a socket failed, the server is stopped, or an early leaver    *)
(* took the simulation down.                                               *)
(***************************************************************************)
RequestAnswered ==
    \A c \in Conn : waiting[c] ~>
        \/ ~waiting[c] \/ client[c] = "closed" \/ behind[c]
        \/ faults > 0 \/ ~run_server \/ killed

(***************************************************************************)
(* A closed connection is cleaned up without the server being stopped.     *)
(***************************************************************************)
DisconnectCleansUp ==
    \A c \in Conn : client[c] = "closed" /\ Handled(c) ~> ~Handled(c) \/ killed

(***************************************************************************)
(* Once stopped, the simulator exits, whatever the clients do: every       *)
(* thread gets out of its blocking call and is joined.                     *)
(***************************************************************************)
StopEnds == sim = "join" ~> sim = "exited" \/ killed
=============================================================================
