---------------------------- MODULE MCDMIHandler ----------------------------
(***************************************************************************)
(* The simulator, its DMI handler and its clock loop, against the debug    *)
(* transport it should provide.                                            *)
(***************************************************************************)
EXTENDS SimMain

Dtm(a, rd, d) == [type |-> "dtm", isRead |-> rd, addr |-> a, data |-> d,
                  ctrlType |-> "halt"]
Control(c) == [type |-> "control", isRead |-> FALSE, addr |-> 0, data |-> 0,
               ctrlType |-> c]

\* What OpenOCD sends in a session: status, select, write, read.
Session ==
    {Dtm(DTMCS_REG_ADDR, TRUE, 0), Dtm(DMI_REG_ADDR, TRUE, 0)}
        \cup {Dtm(DMI_REG_ADDR, FALSE, d) : d \in Payload}
        \cup {Dtm(DMI_ADDR_REG_ADDR, FALSE, d) : d \in Payload}

\* The session and one request of each kind that is not answered.
AnyRequest ==
    Session \cup {Dtm(CTRL_REG_ADDR, TRUE, 0), Control("halt"), Control("resume"),
                  [Dtm(0, TRUE, 0) EXCEPT !.type = "dm"]}

\* Both simulators with and without -o and -n; -s; an invalid option.
CommandLines ==
    [sim : {"scr1", "cva6"}, s : {0}, n : {0, 2}, o : BOOLEAN, bad : {FALSE}]
        \cup {[sim |-> "scr1", s |-> 1, n |-> 0, o |-> TRUE, bad |-> FALSE],
              [sim |-> "cva6", s |-> 0, n |-> 0, o |-> TRUE, bad |-> TRUE]}

-----------------------------------------------------------------------------
Answerable(r) ==
    /\ r.type = "dtm"
    /\ \/ r.addr \in {DMI_REG_ADDR, DMI_ADDR_REG_ADDR}
       \/ r.addr = DTMCS_REG_ADDR /\ r.isRead

Access(a, rd, d) == [addr |-> a, isRead |-> rd, data |-> IF rd THEN 0 ELSE d]

\* What a request of the socket, and one queued for the handler, ask of the
\* debug module: an access, or nothing.
Asked(r) == IF Answerable(r) THEN Access(r.addr, r.isRead, r.data) ELSE None

QueuedAccess(d) ==
    IF d.converterAddress \in {DMI_REG_ADDR, DMI_ADDR_REG_ADDR}
      THEN Access(d.converterAddress, ~d.write, d.payload)
      ELSE None

Served(a) == a # None

ASSUME NoneIsNothing ==
    None \notin [addr : Nat, isRead : BOOLEAN, data : Nat]
                    \cup [isRead : BOOLEAN, data : Nat \cup {None}]

Effect(m, r) ==
    IF r.addr = DMI_ADDR_REG_ADDR
      THEN [m EXCEPT !.selected = SelectedReg(r.data)]
    ELSE IF r.addr = DMI_REG_ADDR /\ ~r.isRead
      THEN [m EXCEPT !.regs[m.selected] = r.data]
    ELSE m

\* The data of the answer to a write means nothing.
Reported(rd, d) == [isRead |-> rd, data |-> IF rd THEN d ELSE None]

Answer(m, r) ==
    Reported(r.isRead, IF r.addr = DTMCS_REG_ADDR THEN \h71
                       ELSE IF r.addr = DMI_ADDR_REG_ADDR THEN \hADD5
                       ELSE m.regs[m.selected])

\* The request on the ports and not yet taken by the module, the one queued
\* for the handler, and those in the FIFO.
OnPorts == IF busy /\ dmHits = 0
             THEN <<Access(DMI_REG_ADDR, isRead, dmi_wdata)>> ELSE << >>

QueuedRequests ==
    [i \in 1 .. Len(dmi_request_queue) |-> QueuedAccess(dmi_request_queue[i])]

SentRequests == [i \in 1 .. Len(request_queue) |-> Asked(request_queue[i])]

PendingRequests == OnPorts \o (QueuedRequests \o SentRequests)

\* The answer the module has given, and those in the FIFO.
CurrentAnswer == IF busy /\ dmHits > 0 THEN Reported(isRead, dmResult) ELSE None

SentAnswers ==
    [i \in 1 .. Len(response_queue) |->
        Reported(response_queue[i].isRead, response_queue[i].data)]

Transport == INSTANCE DebugTransport WITH
    Sendable <- {Asked(r) : r \in Request},
    InitModule <- [selected |-> 0, regs |-> [r \in DMReg |-> 0]],
    module <- [selected |-> dmi_addr, regs |-> dm],
    requests <- PendingRequests,
    current <- CurrentAnswer,
    responses <- SentAnswers

(***************************************************************************)
(* The simulator is the transport: each request it serves is performed     *)
(* once on the register selected at that point, in the order of the        *)
(* requests, and the answers come back in that order with the word that    *)
(* request read, although one kind is answered at once and another many    *)
(* clock cycles later.  What it does not serve it drops in its turn.       *)
(***************************************************************************)
ImplementsTransport == Transport!Spec

(***************************************************************************)
(* A request that is served at all is answered, unless the simulation is   *)
(* stopped first.                                                          *)
(***************************************************************************)
PendingAnswered ==
    (\E i \in 1 .. Len(PendingRequests) : Served(PendingRequests[i]))
        ~> response_queue # << >> \/ ~run
=============================================================================
