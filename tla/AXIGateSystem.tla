--------------------------- MODULE AXIGateSystem ----------------------------
(***************************************************************************)
(* AXIGate between a host that keeps at most MaxOutstanding reads and      *)
(* writes in flight and an AXI-Lite slave that answers in order, after any *)
(* delay.  The block design configures one outstanding transaction for     *)
(* every port of the gate; the host modelled here is freer, it may have    *)
(* several in flight as long as all of them lie on the same side of the    *)
(* threshold.                                                              *)
(* The slave's word at address a is a itself, which is never 0 in the      *)
(* window, so an answer shows where it came from.                          *)
(***************************************************************************)
EXTENDS AXIGate

CONSTANTS MaxOutstanding,
          WrData           \* the words the host writes

ASSUME HostAssumption == MaxOutstanding \in Nat \ {0} /\ WrData \subseteq Data

VARIABLES hostRd,    \* addresses of the host's reads not yet answered
          hostAw,    \* addresses of the host's writes not yet answered
          hostW,     \* data of the host's writes not yet answered
          slaveRd,   \* reads the slave has taken and not answered
          slaveAw,   \* write addresses the slave has taken
          slaveW,    \* write data the slave has taken
          done       \* the writes performed for hostAw's unanswered writes

envvars == <<hostRd, hostAw, hostW, slaveRd, slaveAw, slaveW, done>>
sysvars == <<vars, envvars>>

SysInit ==
    /\ Init
    /\ hostRd = << >> /\ hostAw = << >> /\ hostW = << >>
    /\ slaveRd = << >> /\ slaveAw = << >> /\ slaveW = << >> /\ done = << >>

\* A new address is offered only next to others on its side of the threshold.
HostOffers(q, a) ==
    \/ a = None
    \/ /\ a # None
       /\ Len(q) < MaxOutstanding
       /\ \A i \in 1 .. Len(q) : Forwards(q[i]) <=> Forwards(a)

ReadSide(ar, rready, arready, answers) ==
    LET taken == ar # None /\ FULL_N(rd_s_in)
        answered == rready /\ EMPTY_N(rd_s_out)
        below == arready /\ EMPTY_N(rd_m_in)
        sent == answers /\ FULL_N(rd_m_out)
    IN  /\ HostOffers(hostRd, ar)
        /\ answers => slaveRd # << >>
        /\ ReadCycle(ar, rready, arready,
                     IF answers THEN Head(slaveRd) ELSE None)
        /\ hostRd' = Clocked(hostRd, answered, taken, ar)
        /\ slaveRd' = Clocked(slaveRd, sent, below, Head(rd_m_in))

\* The slave performs and answers a write once it has both of its halves.
WriteSide(aw, w, bready, awready, wready, answers) ==
    LET awTaken == aw # None /\ wr_s_addrIn = None
        wTaken == w # None /\ wr_s_dataIn = None
        answered == bready /\ EMPTY_N(wr_s_out)
        sent == answers /\ FULL_N(wr_m_out)
    IN  /\ HostOffers(hostAw, aw)
        /\ w = None \/ Len(hostW) < MaxOutstanding
        /\ answers => slaveAw # << >> /\ slaveW # << >>
        /\ WriteCycle(aw, w, bready, awready, wready,
                      IF answers THEN 0 ELSE None)
        /\ hostAw' = Clocked(hostAw, answered, awTaken, aw)
        /\ hostW' = Clocked(hostW, answered, wTaken, w)
        /\ slaveAw' = Clocked(slaveAw, sent, AddrOut # None /\ awready, AddrOut)
        /\ slaveW' = Clocked(slaveW, sent, DataOut # None /\ wready, DataOut)
        /\ LET perf == IF sent
                         THEN Append(done, [addr |-> Head(slaveAw),
                                            data |-> Head(slaveW)])
                         ELSE done
           IN  done' = IF answered /\ hostAw # << >> /\ Forwards(Head(hostAw))
                         THEN Tail(perf) ELSE perf

SysCycle ==
    /\ \E ar \in RdAddr \cup {None}, rready, arready, answers \in BOOLEAN :
          ReadSide(ar, rready, arready, answers)
    /\ \E aw \in WrAddr \cup {None}, w \in WrData \cup {None},
          bready, awready, wready, answers \in BOOLEAN :
          WriteSide(aw, w, bready, awready, wready, answers)

\* A cycle in which nobody makes anybody wait.
PromptCycle ==
    /\ \E ar \in RdAddr \cup {None} :
          ReadSide(ar, TRUE, TRUE, slaveRd # << >>)
    /\ \E aw \in WrAddr \cup {None}, w \in WrData \cup {None} :
          /\ Len(hostAw) > Len(hostW) => w # None
          /\ Len(hostW) > Len(hostAw) => aw # None
          /\ WriteSide(aw, w, TRUE, TRUE, TRUE,
                       slaveAw # << >> /\ slaveW # << >>)

SysNext == SysCycle

(***************************************************************************)
(* Fairness: the clock runs, and host and slave are both ready again and   *)
(* again, as AXI asks of them.                                             *)
(***************************************************************************)
SysSpec == SysInit /\ [][SysNext]_sysvars /\ WF_sysvars(PromptCycle)

-----------------------------------------------------------------------------
Answer(a) == IF Forwards(a) THEN Translate(a) ELSE 0

(***************************************************************************)
(* The answers waiting at the host's port are the answers to the host's    *)
(* oldest reads, in order: the controller's word for an address below the  *)
(* threshold, 0 for any other.  (A host with reads in flight on both sides *)
(* would see a blocked read overtake a forwarded one.)                     *)
(***************************************************************************)
ReadsAnsweredInOrder ==
    /\ Len(rd_s_out) <= Len(hostRd)
    /\ \A i \in 1 .. Len(rd_s_out) : rd_s_out[i] = Answer(hostRd[i])

(***************************************************************************)
(* The slave performs the host's forwarded writes in order, each with its  *)
(* own address and data, no blocked one, and before the gate acknowledges  *)
(* them.                                                                   *)
(***************************************************************************)
AckAfterEffect ==
    /\ Len(wr_s_out) <= Len(hostAw)
    /\ Len(done) <= Len(hostAw)
    /\ \A i \in 1 .. Len(done) :
          /\ Forwards(hostAw[i])
          /\ done[i] = [addr |-> Translate(hostAw[i]), data |-> hostW[i]]
    /\ \A i \in 1 .. Len(wr_s_out) : Forwards(hostAw[i]) => i <= Len(done)

(***************************************************************************)
(* The slave never sees an address outside the window [Base, Base +        *)
(* threshold): the host cannot write the interrupt register at threshold.  *)
(***************************************************************************)
OnlyWindowReached ==
    \A i \in 1 .. Len(slaveAw) : slaveAw[i] \in Window

(***************************************************************************)
(* While a read of the host is pending, or a write of which it has sent    *)
(* both halves, an answer keeps arriving: readReq and writeReq, which have *)
(* priority, do not starve readRes and writeRes for ever.                  *)
(***************************************************************************)
RequestsAnswered ==
    /\ hostRd # << >> ~> EMPTY_N(rd_s_out)
    /\ (hostAw # << >> /\ hostW # << >>) ~> EMPTY_N(wr_s_out)
=============================================================================
