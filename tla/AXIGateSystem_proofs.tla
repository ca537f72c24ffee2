------------------------ MODULE AXIGateSystem_proofs ------------------------
(***************************************************************************)
(* Proofs about AXIGate between its host and its slave, for every address  *)
(* range, threshold, base, FIFO depth and number of outstanding requests.  *)
(*                                                                         *)
(* Both directions are proved the same way: the requests that the host has *)
(* not seen answered are, in order, what the queues of the gate and the    *)
(* slave hold (a Chain of SequenceLemmas), and all of them lie on the same *)
(* side of the threshold.                                                  *)
(***************************************************************************)
EXTENDS AXIGateSystem, SequenceLemmas, TLAPS

Addr == 0 .. AddrSize - 1
Half(reg) == IF reg = None THEN << >> ELSE <<reg>>

\* What the controller's side sees of a request, 0 when it is refused.
AnsOf == [a \in Addr |-> Answer(a)]

\* All of these addresses are forwarded; none is.
Below(q) == \A i \in 1 .. Len(q) : Forwards(q[i])
Beyond(q) == \A i \in 1 .. Len(q) : ~Forwards(q[i])

LEMMA AnswerType == \A a \in Addr : Answer(a) \in Addr /\ AnsOf[a] = Answer(a)
<1>1. \A a \in Addr : (a + Base) % AddrSize \in Addr
    BY AddrAssumption DEF Addr
<1>2. 0 \in Addr
    BY AddrAssumption DEF Addr
<1>. QED BY <1>1, <1>2 DEF Answer, Translate, AnsOf

\* A translated address lies in the window, without wrapping round.
LEMMA TranslateInWindow ==
    \A a \in Addr : Forwards(a) => Translate(a) \in Window
<1>. SUFFICES ASSUME NEW a \in Addr, Forwards(a) PROVE Translate(a) \in Window
    OBVIOUS
<1>1. a \in Nat /\ a < threshold /\ a + Base < AddrSize /\ a + Base \in Nat
    BY AddrAssumption DEF Addr, Forwards
<1>2. (a + Base) % AddrSize = a + Base
    BY <1>1, AddrAssumption
<1>. QED BY <1>1, <1>2, AddrAssumption DEF Translate, Window

\* A side of the threshold is kept when an element leaves, and when one of
\* the same side enters.
LEMMA SideOfTail ==
    ASSUME NEW q \in Seq(Addr), q # << >>
    PROVE  /\ Below(q) => Below(Tail(q)) /\ Forwards(Head(q))
           /\ Beyond(q) => Beyond(Tail(q)) /\ ~Forwards(Head(q))
<1>1. /\ Len(q) \in Nat \ {0} /\ Len(Tail(q)) = Len(q) - 1
      /\ \A i \in 1 .. Len(Tail(q)) : Tail(q)[i] = q[i + 1]
      /\ Head(q) = q[1]
    BY HeadTailProperties, EmptySeq
<1>. QED BY <1>1 DEF Below, Beyond

LEMMA SideOfAppend ==
    ASSUME NEW q \in Seq(Addr), NEW a \in Addr
    PROVE  /\ Below(q) /\ Forwards(a) => Below(Append(q, a))
           /\ Beyond(q) /\ ~Forwards(a) => Beyond(Append(q, a))
<1>1. /\ Len(q) \in Nat /\ Len(Append(q, a)) = Len(q) + 1
      /\ \A i \in 1 .. Len(q) : Append(q, a)[i] = q[i]
      /\ Append(q, a)[Len(q) + 1] = a
    BY AppendProperties, LenProperties
<1>. QED BY <1>1 DEF Below, Beyond

-----------------------------------------------------------------------------
(***************************************************************************)
(* Reads.                                                                  *)
(***************************************************************************)
RdChain == Chain(Addr, Image(AnsOf, hostRd), rd_s_out, rd_m_out, slaveRd,
                 rd_m_in, Image(AnsOf, rd_s_in), << >>)

\* Blocked requests leave nothing on the controller's side.
RdSide ==
    \/ Below(hostRd) /\ Below(rd_s_in)
    \/ /\ Beyond(hostRd) /\ Beyond(rd_s_in)
       /\ rd_m_out = << >> /\ slaveRd = << >> /\ rd_m_in = << >>

RdInv ==
    /\ hostRd \in Seq(Addr) /\ rd_s_in \in Seq(Addr)
    /\ RdChain
    /\ RdSide

(***************************************************************************)
(* The queues change in a cycle as the host, the gate and the slave agree  *)
(* on it; what one of them takes is what another gives.                    *)
(***************************************************************************)
LEMMA ReadMoves ==
    ASSUME RdInv, NEW ar \in RdAddr \cup {None}, NEW rready \in BOOLEAN,
           NEW arready \in BOOLEAN, NEW answers \in BOOLEAN,
           ReadSide(ar, rready, arready, answers)
    PROVE  /\ hostRd' = Clocked(hostRd, rready /\ EMPTY_N(rd_s_out),
                                ar # None /\ FULL_N(rd_s_in), ar)
           /\ rd_s_in' = Clocked(rd_s_in, readReq, ar # None /\ FULL_N(rd_s_in), ar)
           /\ rd_m_in' = Clocked(rd_m_in, EMPTY_N(rd_m_in) /\ arready,
                                 readReq /\ Forwards(Head(rd_s_in)),
                                 AnsOf[Head(rd_s_in)])
           /\ slaveRd' = Clocked(slaveRd, answers /\ FULL_N(rd_m_out),
                                 arready /\ EMPTY_N(rd_m_in), Head(rd_m_in))
           /\ rd_m_out' = Clocked(rd_m_out, readRes,
                                  answers /\ FULL_N(rd_m_out), Head(slaveRd))
           /\ rd_s_out' = Clocked(rd_s_out, EMPTY_N(rd_s_out) /\ rready,
                                  readReqAnswers \/ readRes,
                                  IF readReqAnswers THEN 0 ELSE Head(rd_m_out))
           /\ answers => slaveRd # << >>
           /\ HostOffers(hostRd, ar)
<1>1. answers => Head(slaveRd) # None
    <2>1. answers => slaveRd \in Seq(Addr) /\ slaveRd # << >>
        BY DEF RdInv, RdChain, Chain, ReadSide
    <2>2. answers => Head(slaveRd) \in Addr
        BY <2>1, HeadTailProperties
    <2>. QED BY <2>2, NoneAssumption DEF Addr
<1>2. readReq /\ Forwards(Head(rd_s_in)) =>
         AnsOf[Head(rd_s_in)] = Translate(Head(rd_s_in))
    <2>1. readReq => Head(rd_s_in) \in Addr
        BY HeadTailProperties DEF readReq, EMPTY_N, RdInv
    <2>. QED BY <2>1, AnswerType DEF Answer
<1>3. rd_m_in' = Clocked(rd_m_in, EMPTY_N(rd_m_in) /\ arready,
                         readReq /\ Forwards(Head(rd_s_in)),
                         AnsOf[Head(rd_s_in)])
    BY <1>2 DEF ReadSide, ReadCycle, Clocked
<1>4. rd_m_out' = Clocked(rd_m_out, readRes, answers /\ FULL_N(rd_m_out),
                          Head(slaveRd))
    BY <1>1 DEF ReadSide, ReadCycle, Clocked
<1>. QED BY <1>3, <1>4 DEF ReadSide, ReadCycle

(***************************************************************************)
(* The chain of reads through one cycle, from its oldest end to its        *)
(* newest: the host takes an answer, an answer moves up from rd_m_out, the *)
(* slave answers, the slave takes a request, the gate forwards or refuses  *)
(* one, the host sends one.                                                *)
(***************************************************************************)
LEMMA ReadChainStep ==
    ASSUME RdInv, NEW ar \in RdAddr \cup {None}, NEW rready \in BOOLEAN,
           NEW arready \in BOOLEAN, NEW answers \in BOOLEAN,
           ReadSide(ar, rready, arready, answers)
    PROVE  RdChain'
<1>. DEFINE answered == rready /\ EMPTY_N(rd_s_out)
            taken == ar # None /\ FULL_N(rd_s_in)
            below == arready /\ EMPTY_N(rd_m_in)
            sent == answers /\ FULL_N(rd_m_out)
            fwd == readReq /\ Forwards(Head(rd_s_in))
            h0 == Image(AnsOf, hostRd)
            e0 == Image(AnsOf, rd_s_in)
            h1 == IF answered THEN Tail(h0) ELSE h0
            h2 == IF taken THEN Append(h1, AnsOf[ar]) ELSE h1
            a1 == IF answered THEN Tail(rd_s_out) ELSE rd_s_out
            a2 == IF readRes THEN Append(a1, Head(rd_m_out)) ELSE a1
            a3 == IF readReqAnswers THEN Append(a2, Head(e0)) ELSE a2
            b1 == IF readRes THEN Tail(rd_m_out) ELSE rd_m_out
            b2 == IF sent THEN Append(b1, Head(slaveRd)) ELSE b1
            c1 == IF sent THEN Tail(slaveRd) ELSE slaveRd
            c2 == IF below THEN Append(c1, Head(rd_m_in)) ELSE c1
            d1 == IF below THEN Tail(rd_m_in) ELSE rd_m_in
            d2 == IF fwd THEN Append(d1, Head(e0)) ELSE d1
            e1 == IF readReq THEN Tail(e0) ELSE e0
            e2 == IF taken THEN Append(e1, AnsOf[ar]) ELSE e1
<1>1. /\ hostRd \in Seq(Addr) /\ rd_s_in \in Seq(Addr)
      /\ Chain(Addr, h0, rd_s_out, rd_m_out, slaveRd, rd_m_in, e0, << >>)
    BY DEF RdInv, RdChain
<1>2. answers => slaveRd # << >>
    BY DEF ReadSide
<1>3. taken => ar \in Addr /\ AnsOf[ar] \in Addr
    <2>1. taken => ar \in Addr
        BY AddrAssumption DEF Addr
    <2>. QED BY <2>1, AnswerType
<1>4. readReq => /\ rd_s_in # << >> /\ e0 # << >>
                 /\ Head(e0) = AnsOf[Head(rd_s_in)]
                 /\ Tail(e0) = Image(AnsOf, Tail(rd_s_in))
                 /\ Head(rd_s_in) \in Addr
    <2>1. readReq => rd_s_in # << >>
        BY DEF readReq, EMPTY_N
    <2>. QED BY <1>1, <2>1, ImageOfTail, HeadTailProperties
<1>. HIDE DEF h0, e0
<1>5. Chain(Addr, h1, a1, rd_m_out, slaveRd, rd_m_in, e0, << >>)
    <2>1. CASE answered
        <3>1. rd_s_out # << >>
            BY <2>1 DEF EMPTY_N
        <3>. QED BY <1>1, <2>1, <3>1, ChainTail
    <2>2. CASE ~answered
        BY <1>1, <2>2
    <2>. QED BY <2>1, <2>2
<1>. HIDE DEF h1, a1
<1>6. Chain(Addr, h1, a2, b1, slaveRd, rd_m_in, e0, << >>)
    <2>1. CASE readRes
        <3>1. rd_m_out # << >>
            BY <2>1 DEF readRes, EMPTY_N
        <3>. QED BY <1>5, <2>1, <3>1, ChainBtoA
    <2>2. CASE ~readRes
        BY <1>5, <2>2
    <2>. QED BY <2>1, <2>2
<1>. HIDE DEF a2, b1
<1>7. Chain(Addr, h1, a2, b2, c1, rd_m_in, e0, << >>)
    <2>1. CASE sent
        BY <1>2, <1>6, <2>1, ChainCtoB
    <2>2. CASE ~sent
        BY <1>6, <2>2
    <2>. QED BY <2>1, <2>2
<1>. HIDE DEF b2, c1
<1>8. Chain(Addr, h1, a2, b2, c2, d1, e0, << >>)
    <2>1. CASE below
        <3>1. rd_m_in # << >>
            BY <2>1 DEF EMPTY_N
        <3>. QED BY <1>7, <2>1, <3>1, ChainDtoC
    <2>2. CASE ~below
        BY <1>7, <2>2
    <2>. QED BY <2>1, <2>2
<1>. HIDE DEF c2, d1
<1>9. Chain(Addr, h1, a3, b2, c2, d2, e1, << >>)
    <2>1. CASE fwd
        <3>1. readReq /\ ~readReqAnswers
            BY <2>1 DEF readReqAnswers
        <3>2. Chain(Addr, h1, a2, b2, c2, Append(d1, Head(e0)), Tail(e0), << >>)
            BY <1>4, <1>8, <3>1, ChainEtoD
        <3>. QED BY <2>1, <3>1, <3>2
    <2>2. CASE readReqAnswers
        <3>1. readReq /\ ~fwd
            BY <2>2 DEF readReqAnswers
        <3>2. rd_m_out = << >> /\ slaveRd = << >> /\ rd_m_in = << >>
            <4>1. ~Below(rd_s_in)
                BY <1>1, <1>4, <2>2, <3>1, SideOfTail DEF readReqAnswers
            <4>. QED BY <4>1 DEF RdInv, RdSide
        <3>3. ~readRes /\ ~sent /\ ~below
            BY <1>2, <3>1, <3>2 DEF readRes, EMPTY_N
        <3>4. b2 = << >> /\ c2 = << >> /\ d1 = << >>
            BY <3>2, <3>3 DEF b1, b2, c1, c2, d1
        <3>5. Chain(Addr, h1, Append(a2, Head(e0)), << >>, << >>, << >>,
                    Tail(e0), << >>)
            BY <1>4, <1>8, <3>1, <3>4, ChainEtoA
        <3>. QED BY <2>2, <3>1, <3>4, <3>5
    <2>3. CASE ~readReq
        BY <1>8, <2>3 DEF readReqAnswers
    <2>. QED BY <2>1, <2>2, <2>3 DEF readReqAnswers
<1>. HIDE DEF a3, d2, e1
<1>10. Chain(Addr, h2, a3, b2, c2, d2, e2, << >>)
    <2>1. CASE taken
        <3>1. Chain(Addr, Append(h1, AnsOf[ar]), a3, b2, c2, d2, e1,
                    Append(<< >>, AnsOf[ar]))
            BY <1>3, <1>9, <2>1, ChainAppend
        <3>2. /\ Append(<< >>, AnsOf[ar]) # << >>
              /\ Head(Append(<< >>, AnsOf[ar])) = AnsOf[ar]
              /\ Tail(Append(<< >>, AnsOf[ar])) = << >>
            OBVIOUS
        <3>3. Chain(Addr, Append(h1, AnsOf[ar]), a3, b2, c2, d2,
                    Append(e1, AnsOf[ar]), << >>)
            BY <3>1, <3>2, ChainFtoE
        <3>. QED BY <2>1, <3>3
    <2>2. CASE ~taken
        BY <1>9, <2>2
    <2>. QED BY <2>1, <2>2
<1>11. h2 = Image(AnsOf, hostRd')
    <2>. DEFINE q == IF answered THEN Tail(hostRd) ELSE hostRd
    <2>1. answered => hostRd # << >>
        <3>1. answered => h0 # << >>
            BY <1>1, ChainTail DEF EMPTY_N
        <3>2. Len(h0) = Len(hostRd)
            BY <1>1, ImageLen DEF h0
        <3>3. answered => Len(h0) # 0
            BY <1>1, <3>1, ChainParts, EmptySeq
        <3>. QED BY <3>2, <3>3
    <2>2. q \in Seq(Addr) /\ h1 = Image(AnsOf, q)
        BY <1>1, <2>1, HeadTailProperties, ImageOfTail DEF h0, h1
    <2>3. hostRd' = IF taken THEN Append(q, ar) ELSE q
        BY ReadMoves DEF Clocked
    <2>. HIDE DEF q
    <2>. QED BY <1>3, <2>2, <2>3, ImageOfAppend
<1>12. e2 = Image(AnsOf, rd_s_in')
    <2>. DEFINE q == IF readReq THEN Tail(rd_s_in) ELSE rd_s_in
    <2>1. q \in Seq(Addr) /\ e1 = Image(AnsOf, q)
        BY <1>1, <1>4, HeadTailProperties DEF e0, e1
    <2>2. rd_s_in' = IF taken THEN Append(q, ar) ELSE q
        BY ReadMoves DEF Clocked
    <2>. HIDE DEF q
    <2>. QED BY <1>3, <2>1, <2>2, ImageOfAppend
<1>13. a3 = rd_s_out'
    <2>1. readReqAnswers => Head(e0) = 0 /\ ~readRes
        BY <1>4, AnswerType DEF readReqAnswers, readRes, Answer
    <2>2. rd_s_out' = Clocked(rd_s_out, EMPTY_N(rd_s_out) /\ rready,
                              readReqAnswers \/ readRes,
                              IF readReqAnswers THEN 0 ELSE Head(rd_m_out))
        BY ReadMoves
    <2>. QED BY <2>1, <2>2 DEF Clocked, a1, a2, a3
<1>14. b2 = rd_m_out' /\ c2 = slaveRd'
    BY ReadMoves DEF Clocked, b1, b2, c1, c2
<1>15. d2 = rd_m_in'
    <2>1. rd_m_in' = Clocked(rd_m_in, EMPTY_N(rd_m_in) /\ arready, fwd,
                             AnsOf[Head(rd_s_in)])
        BY ReadMoves
    <2>. QED BY <1>4, <2>1 DEF Clocked, d1, d2
<1>. HIDE DEF h2, e2
<1>. QED BY <1>10, <1>11, <1>12, <1>13, <1>14, <1>15 DEF RdChain

(***************************************************************************)
(* With no read of the host unanswered nothing is on its way, so that the  *)
(* host may change sides.                                                  *)
(***************************************************************************)
LEMMA ReadsEmpty ==
    ASSUME RdInv, hostRd = << >>
    PROVE  /\ rd_s_in = << >> /\ rd_m_in = << >> /\ slaveRd = << >>
           /\ rd_m_out = << >> /\ rd_s_out = << >>
<1>1. Len(Image(AnsOf, hostRd)) = 0
    BY ImageLen, EmptySeq DEF RdInv
<1>2. /\ Len(rd_s_out) = 0 /\ Len(rd_m_out) = 0 /\ Len(slaveRd) = 0
      /\ Len(rd_m_in) = 0 /\ Len(Image(AnsOf, rd_s_in)) = 0
    <2>1. Chain(Addr, Image(AnsOf, hostRd), rd_s_out, rd_m_out, slaveRd,
                rd_m_in, Image(AnsOf, rd_s_in), << >>)
        BY DEF RdInv, RdChain
    <2>. QED BY <1>1, <2>1, ChainParts
<1>3. Len(rd_s_in) = 0
    BY <1>2, ImageLen DEF RdInv
<1>4. /\ rd_s_out \in Seq(Addr) /\ rd_m_out \in Seq(Addr)
      /\ slaveRd \in Seq(Addr) /\ rd_m_in \in Seq(Addr) /\ rd_s_in \in Seq(Addr)
    BY DEF RdInv, RdChain, Chain
<1>. QED BY <1>2, <1>3, <1>4, EmptySeq

LEMMA ReadSideStep ==
    ASSUME RdInv, NEW ar \in RdAddr \cup {None}, NEW rready \in BOOLEAN,
           NEW arready \in BOOLEAN, NEW answers \in BOOLEAN,
           ReadSide(ar, rready, arready, answers)
    PROVE  RdSide'
<1>. DEFINE answered == rready /\ EMPTY_N(rd_s_out)
            taken == ar # None /\ FULL_N(rd_s_in)
            hostLeft == IF answered THEN Tail(hostRd) ELSE hostRd
            left == IF readReq THEN Tail(rd_s_in) ELSE rd_s_in
<1>1. hostRd \in Seq(Addr) /\ rd_s_in \in Seq(Addr)
    BY DEF RdInv
<1>2. (answered => hostRd # << >>) /\ (readReq => rd_s_in # << >>)
    <2>1. answered => rd_s_out # << >>
        BY DEF EMPTY_N
    <2>. QED BY <2>1, ReadsEmpty DEF readReq, EMPTY_N
<1>3. /\ hostLeft \in Seq(Addr) /\ left \in Seq(Addr)
      /\ Below(hostRd) => Below(hostLeft)
      /\ Beyond(hostRd) => Beyond(hostLeft)
      /\ Below(rd_s_in) => Below(left)
      /\ Beyond(rd_s_in) => Beyond(left)
    BY <1>1, <1>2, HeadTailProperties, SideOfTail
<1>4. /\ hostRd' = IF taken THEN Append(hostLeft, ar) ELSE hostLeft
      /\ rd_s_in' = IF taken THEN Append(left, ar) ELSE left
    BY ReadMoves DEF Clocked
<1>5. taken => ar \in Addr
    BY AddrAssumption DEF Addr
<1>. HIDE DEF hostLeft, left
<1>6. ASSUME Below(hostRd), Below(rd_s_in), taken => Forwards(ar)
      PROVE  RdSide'
    <2>1. Below(hostRd') /\ Below(rd_s_in')
        BY <1>3, <1>4, <1>5, <1>6, SideOfAppend
    <2>. QED BY <2>1 DEF RdSide, Below
<1>7. ASSUME Beyond(hostRd), Beyond(rd_s_in), taken => ~Forwards(ar),
             rd_m_out = << >>, slaveRd = << >>, rd_m_in = << >>
      PROVE  RdSide'
    <2>1. Beyond(hostRd') /\ Beyond(rd_s_in')
        BY <1>3, <1>4, <1>5, <1>7, SideOfAppend
    <2>2. ~(readReq /\ Forwards(Head(rd_s_in)))
        BY <1>1, <1>2, <1>7, SideOfTail
    <2>3. ~answers /\ ~readRes /\ ~EMPTY_N(rd_m_in)
        BY <1>7 DEF ReadSide, readRes, EMPTY_N
    <2>4. rd_m_out' = << >> /\ slaveRd' = << >> /\ rd_m_in' = << >>
        BY <1>7, <2>2, <2>3, ReadMoves DEF Clocked
    <2>. QED BY <2>1, <2>4 DEF RdSide, Beyond
<1>8. CASE taken
    <2>1. \A i \in 1 .. Len(hostRd) : Forwards(hostRd[i]) <=> Forwards(ar)
        BY <1>8 DEF ReadSide, HostOffers
    <2>2. CASE Forwards(ar)
        <3>1. Below(hostRd)
            BY <2>1, <2>2 DEF Below
        <3>2. Below(rd_s_in)
            <4>1. CASE Below(rd_s_in)
                BY <4>1
            <4>2. CASE Beyond(hostRd)
                <5>1. hostRd = << >>
                    BY <1>1, <3>1, <4>2, SideOfTail
                <5>2. rd_s_in = << >>
                    BY <5>1, ReadsEmpty
                <5>. QED BY <5>2 DEF Below
            <4>. QED BY <4>1, <4>2 DEF RdInv, RdSide
        <3>. QED BY <1>6, <2>2, <3>1, <3>2
    <2>3. CASE ~Forwards(ar)
        <3>1. Beyond(hostRd)
            BY <2>1, <2>3 DEF Beyond
        <3>2. /\ Beyond(rd_s_in) /\ rd_m_out = << >> /\ slaveRd = << >>
              /\ rd_m_in = << >>
            <4>1. CASE Below(hostRd)
                <5>1. hostRd = << >>
                    BY <1>1, <3>1, <4>1, SideOfTail
                <5>. QED BY <5>1, ReadsEmpty DEF Beyond
            <4>2. CASE ~Below(hostRd)
                BY <4>2 DEF RdInv, RdSide
            <4>. QED BY <4>1, <4>2
        <3>. QED BY <1>7, <2>3, <3>1, <3>2
    <2>. QED BY <2>2, <2>3
<1>9. CASE ~taken
    BY <1>6, <1>7, <1>9 DEF RdInv, RdSide
<1>. QED BY <1>8, <1>9

LEMMA ReadStep ==
    ASSUME RdInv, NEW ar \in RdAddr \cup {None}, NEW rready \in BOOLEAN,
           NEW arready \in BOOLEAN, NEW answers \in BOOLEAN,
           ReadSide(ar, rready, arready, answers)
    PROVE  RdInv'
<1>1. RdChain' /\ RdSide'
    BY ReadChainStep, ReadSideStep
<1>2. hostRd' \in Seq(Addr) /\ rd_s_in' \in Seq(Addr)
    <2>1. hostRd \in Seq(Addr) /\ rd_s_in \in Seq(Addr)
        BY DEF RdInv
    <2>2. EMPTY_N(rd_s_out) => hostRd # << >>
        BY ReadsEmpty DEF EMPTY_N
    <2>3. readReq => rd_s_in # << >>
        BY DEF readReq, EMPTY_N
    <2>4. ar # None => ar \in Addr
        BY AddrAssumption DEF Addr
    <2>5. hostRd' \in Seq(Addr)
        <3>1. hostRd' = Clocked(hostRd, rready /\ EMPTY_N(rd_s_out),
                                ar # None /\ FULL_N(rd_s_in), ar)
            BY ReadMoves
        <3>. QED BY <2>1, <2>2, <2>4, <3>1, HeadTailProperties, AppendProperties
             DEF Clocked
    <2>6. rd_s_in' \in Seq(Addr)
        <3>1. rd_s_in' = Clocked(rd_s_in, readReq,
                                 ar # None /\ FULL_N(rd_s_in), ar)
            BY ReadMoves
        <3>. QED BY <2>1, <2>3, <2>4, <3>1, HeadTailProperties, AppendProperties
             DEF Clocked
    <2>. QED BY <2>5, <2>6
<1>. QED BY <1>1, <1>2 DEF RdInv

LEMMA ReadsInOrder == RdInv => ReadsAnsweredInOrder
<1>. SUFFICES ASSUME RdInv PROVE ReadsAnsweredInOrder
    OBVIOUS
<1>. DEFINE h == Image(AnsOf, hostRd)
<1>1. /\ hostRd \in Seq(Addr)
      /\ Chain(Addr, h, rd_s_out, rd_m_out, slaveRd, rd_m_in,
               Image(AnsOf, rd_s_in), << >>)
    BY DEF RdInv, RdChain
<1>2. Len(h) = Len(hostRd)
    BY <1>1, ImageLen
<1>3. \A i \in 1 .. Len(hostRd) : h[i] = Answer(hostRd[i])
    <2>1. \A i \in 1 .. Len(hostRd) : hostRd[i] \in Addr
        BY <1>1, ElementOfSeq
    <2>. QED BY <2>1, AnswerType DEF Image
<1>. HIDE DEF h
<1>4. Len(rd_s_out) <= Len(hostRd) /\ Len(rd_s_out) \in Nat /\ Len(hostRd) \in Nat
    BY <1>1, <1>2, ChainParts, LenProperties
<1>5. \A i \in 1 .. Len(rd_s_out) : h[i] = rd_s_out[i]
    BY <1>1, ChainElements
<1>. QED BY <1>3, <1>4, <1>5 DEF ReadsAnsweredInOrder

-----------------------------------------------------------------------------
(***************************************************************************)
(* Writes.  acked is the sequence of the host's unanswered writes that     *)
(* have been performed or refused.  Addresses and data are two chains that *)
(* share it: a write below the threshold is in acked exactly when it is in *)
(* done.                                                                   *)
(***************************************************************************)
Write == [addr : Addr, data : Data]
AddrOf == [r \in Write |-> r.addr]
DataOf == [r \in Write |-> r.data]
AnsAddrOf == [r \in Write |-> AnsOf[r.addr]]

WrTypes ==
    /\ hostAw \in Seq(Addr)
    /\ wr_s_in \in Seq(Write) /\ wr_m_in \in Seq(Write)
    /\ wr_s_addrIn \in Addr \cup {None} /\ wr_s_dataIn \in Data \cup {None}
    /\ wr_m_addrOut \in Addr \cup {None} /\ wr_m_dataOut \in Data \cup {None}
    /\ wr_s_out \in Seq(Resp) /\ wr_m_out \in Seq(Resp)

WrAddrChain(acked) ==
    Chain(Addr, Image(AnsOf, hostAw), Image(AddrOf, acked), slaveAw,
          Half(wr_m_addrOut), Image(AddrOf, wr_m_in), Image(AnsAddrOf, wr_s_in),
          Image(AnsOf, Half(wr_s_addrIn)))

WrDataChain(acked) ==
    Chain(Data, hostW, Image(DataOf, acked), slaveW, Half(wr_m_dataOut),
          Image(DataOf, wr_m_in), Image(DataOf, wr_s_in), Half(wr_s_dataIn))

\* Every write that is done or refused has its answer in the gate, and the
\* two halves of a write have left the gate equally often, up to one.
WrCount(acked) ==
    /\ Len(acked) = Len(wr_s_out) + Len(wr_m_out)
    /\ Len(slaveAw) + Len(Half(wr_m_addrOut))
          = Len(slaveW) + Len(Half(wr_m_dataOut))

WrBelow(acked) ==
    /\ Below(hostAw) /\ Below(Image(AddrOf, wr_s_in)) /\ Below(Half(wr_s_addrIn))
    /\ done = acked

WrNothingBelow ==
    /\ wr_m_out = << >> /\ slaveAw = << >> /\ slaveW = << >> /\ wr_m_in = << >>
    /\ wr_m_addrOut = None /\ wr_m_dataOut = None

WrBeyond ==
    /\ Beyond(hostAw) /\ Beyond(Image(AddrOf, wr_s_in)) /\ Beyond(Half(wr_s_addrIn))
    /\ done = << >> /\ WrNothingBelow

WrPipe(acked) ==
    /\ WrTypes
    /\ WrAddrChain(acked) /\ WrDataChain(acked)
    /\ WrCount(acked)
    /\ WrBelow(acked) \/ WrBeyond

WrInv == \E acked \in Seq(Write) : WrPipe(acked)

\* acked after a cycle.
NextAcked(acked, bready, answers) ==
    LET left == IF bready /\ EMPTY_N(wr_s_out) THEN Tail(acked) ELSE acked
    IN  IF answers /\ FULL_N(wr_m_out)
          THEN Append(left, [addr |-> Head(slaveAw), data |-> Head(slaveW)])
          ELSE IF writeReqAnswers
            THEN Append(left, [addr |-> 0, data |-> Head(wr_s_in).data])
            ELSE left

LEMMA Projections ==
    \A r \in Write : /\ AddrOf[r] = r.addr /\ AddrOf[r] \in Addr
                     /\ DataOf[r] = r.data /\ DataOf[r] \in Data
                     /\ AnsAddrOf[r] = AnsOf[r.addr] /\ AnsAddrOf[r] \in Addr
BY AnswerType DEF Write, AddrOf, DataOf, AnsAddrOf

(***************************************************************************)
(* What the rules of a cycle mean for the chains: an answer is only taken  *)
(* from a write that is done or refused, and a refusal finds nothing on    *)
(* the controller's side.                                                  *)
(***************************************************************************)
WrFacts(acked, aw, w, answers) ==
    /\ EMPTY_N(wr_s_out) => acked # << >>
    /\ writeReq => wr_s_in # << >> /\ Head(wr_s_in) \in Write
    /\ Splits => wr_m_in # << >> /\ Head(wr_m_in) \in Write
    /\ answers => /\ slaveAw # << >> /\ slaveW # << >>
                  /\ Head(slaveAw) \in Addr /\ Head(slaveW) \in Data
    /\ writeReq /\ Forwards(Head(wr_s_in).addr) => ~WrBeyond
    /\ writeReqAnswers => WrBeyond /\ ~answers /\ ~Splits /\ ~writeRes
    /\ writeReq /\ ~Forwards(Head(wr_s_in).addr) => ~WrBelow(acked)
    /\ AddrOut \in Addr \cup {None} /\ DataOut \in Data \cup {None}
    /\ AddrNow(aw) \in Addr \cup {None} /\ DataNow(w) \in Data \cup {None}

LEMMA WriteRules ==
    ASSUME NEW acked \in Seq(Write), WrPipe(acked),
           NEW aw \in WrAddr \cup {None}, NEW w \in WrData \cup {None},
           NEW bready \in BOOLEAN, NEW awready \in BOOLEAN,
           NEW wready \in BOOLEAN, NEW answers \in BOOLEAN,
           WriteSide(aw, w, bready, awready, wready, answers)
    PROVE  WrFacts(acked, aw, w, answers)
<1>1. WrTypes /\ WrAddrChain(acked) /\ WrDataChain(acked) /\ WrCount(acked)
      /\ (WrBelow(acked) \/ WrBeyond)
    BY DEF WrPipe
<1>2. EMPTY_N(wr_s_out) => acked # << >>
    <2>1. /\ Len(wr_m_out) \in Nat /\ Len(wr_s_out) \in Nat
          /\ EMPTY_N(wr_s_out) => Len(wr_s_out) # 0
        BY <1>1, EmptySeq, LenProperties DEF WrTypes, EMPTY_N
    <2>2. EMPTY_N(wr_s_out) => Len(acked) # 0
        BY <1>1, <2>1 DEF WrCount
    <2>. QED BY <2>2, EmptySeq
<1>3. writeReq => wr_s_in # << >> /\ Head(wr_s_in) \in Write
    BY <1>1, HeadTailProperties DEF writeReq, EMPTY_N, WrTypes
<1>4. Splits => wr_m_in # << >> /\ Head(wr_m_in) \in Write
    BY <1>1, HeadTailProperties DEF Splits, EMPTY_N, WrTypes
<1>5. answers => /\ slaveAw # << >> /\ slaveW # << >>
                 /\ Head(slaveAw) \in Addr /\ Head(slaveW) \in Data
    <2>1. answers => slaveAw # << >> /\ slaveW # << >>
        BY DEF WriteSide
    <2>2. slaveAw \in Seq(Addr) /\ slaveW \in Seq(Data)
        BY <1>1 DEF WrAddrChain, WrDataChain, Chain
    <2>. QED BY <2>1, <2>2, HeadTailProperties
<1>6. writeReq => /\ Below(Image(AddrOf, wr_s_in)) => Forwards(Head(wr_s_in).addr)
                  /\ Beyond(Image(AddrOf, wr_s_in)) => ~Forwards(Head(wr_s_in).addr)
    <2>. SUFFICES ASSUME writeReq
                  PROVE  /\ Below(Image(AddrOf, wr_s_in)) => Forwards(Head(wr_s_in).addr)
                         /\ Beyond(Image(AddrOf, wr_s_in)) => ~Forwards(Head(wr_s_in).addr)
        OBVIOUS
    <2>1. wr_s_in \in Seq(Write) /\ \A r \in Write : AddrOf[r] \in Addr
        BY <1>1, Projections DEF WrTypes
    <2>2. Image(AddrOf, wr_s_in) \in Seq(Addr)
        BY <2>1, ImageIsSeq
    <2>3. /\ Image(AddrOf, wr_s_in) # << >>
          /\ Head(Image(AddrOf, wr_s_in)) = Head(wr_s_in).addr
        <3>1. wr_s_in \in Seq(Write) /\ wr_s_in # << >>
            BY <1>3, <2>1
        <3>2. /\ Image(AddrOf, wr_s_in) # << >>
              /\ Head(Image(AddrOf, wr_s_in)) = AddrOf[Head(wr_s_in)]
            BY <3>1, ImageOfTail
        <3>. QED BY <1>3, <3>2, Projections
    <2>. QED BY <2>2, <2>3, SideOfTail
<1>7. writeReq /\ Forwards(Head(wr_s_in).addr) => ~WrBeyond
    BY <1>6 DEF WrBeyond
<1>11. writeReq /\ ~Forwards(Head(wr_s_in).addr) => ~WrBelow(acked)
    BY <1>6 DEF WrBelow
<1>8. writeReqAnswers => WrBeyond /\ ~answers /\ ~Splits /\ ~writeRes
    <2>1. writeReqAnswers => WrBeyond
        BY <1>1, <1>6 DEF WrBelow, writeReqAnswers
    <2>2. WrBeyond => ~answers /\ ~Splits /\ ~writeRes
        BY <1>5 DEF WrBeyond, WrNothingBelow, Splits, writeRes, EMPTY_N
    <2>. QED BY <2>1, <2>2
<1>9. AddrOut \in Addr \cup {None} /\ DataOut \in Data \cup {None}
    BY <1>1, <1>4 DEF AddrOut, DataOut, WrTypes, Write
<1>10. AddrNow(aw) \in Addr \cup {None} /\ DataNow(w) \in Data \cup {None}
    BY <1>1, AddrAssumption, HostAssumption DEF AddrNow, DataNow, WrTypes, Addr
<1>. QED BY <1>2, <1>3, <1>4, <1>5, <1>7, <1>8, <1>9, <1>10, <1>11 DEF WrFacts

\* One cycle, register by register.
WrMoves(aw, w, bready, awready, wready, answers) ==
    /\ hostAw' = Clocked(hostAw, bready /\ EMPTY_N(wr_s_out),
                         aw # None /\ wr_s_addrIn = None, aw)
    /\ hostW' = Clocked(hostW, bready /\ EMPTY_N(wr_s_out),
                        w # None /\ wr_s_dataIn = None, w)
    /\ wr_s_addrIn' = IF Joins(aw, w) THEN None ELSE AddrNow(aw)
    /\ wr_s_dataIn' = IF Joins(aw, w) THEN None ELSE DataNow(w)
    /\ wr_s_in' = Clocked(wr_s_in, writeReq, Joins(aw, w),
                          [addr |-> AddrNow(aw), data |-> DataNow(w)])
    /\ wr_m_in' = Clocked(wr_m_in, Splits,
                          writeReq /\ Forwards(Head(wr_s_in).addr),
                          [addr |-> AnsOf[Head(wr_s_in).addr],
                           data |-> Head(wr_s_in).data])
    /\ wr_m_addrOut' = IF AddrOut # None /\ awready THEN None ELSE AddrOut
    /\ wr_m_dataOut' = IF DataOut # None /\ wready THEN None ELSE DataOut
    /\ slaveAw' = Clocked(slaveAw, answers /\ FULL_N(wr_m_out),
                          AddrOut # None /\ awready, AddrOut)
    /\ slaveW' = Clocked(slaveW, answers /\ FULL_N(wr_m_out),
                         DataOut # None /\ wready, DataOut)
    /\ wr_m_out' = Clocked(wr_m_out, writeRes,
                           answers /\ FULL_N(wr_m_out), 0)
    /\ wr_s_out' = Clocked(wr_s_out, EMPTY_N(wr_s_out) /\ bready,
                           writeReqAnswers \/ writeRes,
                           IF writeReqAnswers THEN 0 ELSE Head(wr_m_out))
    /\ LET perf == IF answers /\ FULL_N(wr_m_out)
                     THEN Append(done, [addr |-> Head(slaveAw),
                                        data |-> Head(slaveW)])
                     ELSE done
       IN  done' = IF /\ bready /\ EMPTY_N(wr_s_out)
                      /\ hostAw # << >> /\ Forwards(Head(hostAw))
                     THEN Tail(perf) ELSE perf

LEMMA WriteMoves ==
    ASSUME NEW acked \in Seq(Write), WrPipe(acked),
           NEW aw \in WrAddr \cup {None}, NEW w \in WrData \cup {None},
           NEW bready \in BOOLEAN, NEW awready \in BOOLEAN,
           NEW wready \in BOOLEAN, NEW answers \in BOOLEAN,
           WriteSide(aw, w, bready, awready, wready, answers)
    PROVE  WrMoves(aw, w, bready, awready, wready, answers)
<1>1. wr_m_out' = Clocked(wr_m_out, writeRes, answers /\ FULL_N(wr_m_out), 0)
    <2>1. 0 # None
        BY DataAssumption, NoneAssumption
    <2>. QED BY <2>1 DEF WriteSide, WriteCycle, Clocked
<1>2. writeReq /\ Forwards(Head(wr_s_in).addr) =>
         AnsOf[Head(wr_s_in).addr] = Translate(Head(wr_s_in).addr)
    <2>1. writeReq => Head(wr_s_in).addr \in Addr
        BY WriteRules DEF WrFacts, Write
    <2>. QED BY <2>1, AnswerType DEF Answer
<1>3. wr_m_in' = Clocked(wr_m_in, Splits,
                         writeReq /\ Forwards(Head(wr_s_in).addr),
                         [addr |-> AnsOf[Head(wr_s_in).addr],
                          data |-> Head(wr_s_in).data])
    BY <1>2 DEF WriteSide, WriteCycle, Clocked
<1>4. LET perf == IF answers /\ FULL_N(wr_m_out)
                    THEN Append(done, [addr |-> Head(slaveAw),
                                       data |-> Head(slaveW)])
                    ELSE done
      IN  done' = IF /\ bready /\ EMPTY_N(wr_s_out)
                     /\ hostAw # << >> /\ Forwards(Head(hostAw))
                    THEN Tail(perf) ELSE perf
    BY DEF WriteSide
<1>. QED BY <1>1, <1>3, <1>4 DEF WriteSide, WriteCycle, WrMoves

(***************************************************************************)
(* The chain of addresses through one cycle, again from the oldest end to  *)
(* the newest: the host takes an answer, the slave performs a write, the   *)
(* gate splits one off and hands the address over, forwards or refuses     *)
(* one, joins one, and the host sends an address.                          *)
(***************************************************************************)
LEMMA WriteAddrStep ==
    ASSUME NEW acked \in Seq(Write), WrPipe(acked),
           NEW aw \in WrAddr \cup {None}, NEW w \in WrData \cup {None},
           NEW bready \in BOOLEAN, NEW awready \in BOOLEAN,
           NEW wready \in BOOLEAN, NEW answers \in BOOLEAN,
           WrFacts(acked, aw, w, answers),
           WrMoves(aw, w, bready, awready, wready, answers),
           NEW next, next = NextAcked(acked, bready, answers)
    PROVE  WrAddrChain(next)'
<1>. DEFINE answered == bready /\ EMPTY_N(wr_s_out)
            taken == aw # None /\ wr_s_addrIn = None
            out == AddrOut # None /\ awready
            sent == answers /\ FULL_N(wr_m_out)
            fwd == writeReq /\ Forwards(Head(wr_s_in).addr)
            h0 == Image(AnsOf, hostAw)
            a0 == Image(AddrOf, acked)
            d0 == Image(AddrOf, wr_m_in)
            e0 == Image(AnsAddrOf, wr_s_in)
            h1 == IF answered THEN Tail(h0) ELSE h0
            a1 == IF answered THEN Tail(a0) ELSE a0
            a2 == IF sent THEN Append(a1, Head(slaveAw)) ELSE a1
            a3 == IF writeReqAnswers THEN Append(a2, Head(e0)) ELSE a2
            b1 == IF sent THEN Tail(slaveAw) ELSE slaveAw
            b2 == IF out THEN Append(b1, AddrOut) ELSE b1
            d1 == IF Splits THEN Tail(d0) ELSE d0
            d2 == IF fwd THEN Append(d1, Head(e0)) ELSE d1
            e1 == IF writeReq THEN Tail(e0) ELSE e0
            e2 == IF Joins(aw, w) THEN Append(e1, AnsOf[AddrNow(aw)]) ELSE e1
            h2 == IF taken THEN Append(h1, AnsOf[aw]) ELSE h1
            f0 == Image(AnsOf, Half(wr_s_addrIn))
            f1 == Image(AnsOf, Half(AddrNow(aw)))
            f2 == Image(AnsOf, Half(wr_s_addrIn'))
<1>0. WrTypes
    BY DEF WrPipe
<1>1. Chain(Addr, h0, a0, slaveAw, Half(wr_m_addrOut), d0, e0, f0)
    BY DEF WrPipe, WrAddrChain
<1>2. /\ answered => acked # << >> /\ a0 # << >>
      /\ Tail(a0) = Image(AddrOf, Tail(acked)) \/ ~answered
    <2>1. answered => acked # << >>
        BY DEF WrFacts
    <2>. QED BY <2>1, ImageOfTail
<1>3. writeReq => /\ e0 # << >> /\ Head(e0) = AnsOf[Head(wr_s_in).addr]
                  /\ Tail(e0) = Image(AnsAddrOf, Tail(wr_s_in))
                  /\ Tail(wr_s_in) \in Seq(Write)
                  /\ Head(wr_s_in).addr \in Addr
    <2>1. writeReq => wr_s_in # << >> /\ Head(wr_s_in) \in Write
        BY DEF WrFacts
    <2>2. writeReq => /\ e0 # << >> /\ Head(e0) = AnsAddrOf[Head(wr_s_in)]
                      /\ Tail(e0) = Image(AnsAddrOf, Tail(wr_s_in))
        BY <1>0, <2>1, ImageOfTail DEF WrTypes
    <2>3. writeReq => Tail(wr_s_in) \in Seq(Write)
        BY <1>0, <2>1, HeadTailProperties DEF WrTypes
    <2>. QED BY <2>1, <2>2, <2>3, Projections DEF Write
<1>4. Splits => /\ d0 # << >> /\ Head(d0) = AddrOut /\ AddrOut \in Addr
                /\ Tail(d0) = Image(AddrOf, Tail(wr_m_in))
                /\ Tail(wr_m_in) \in Seq(Write)
                /\ Half(wr_m_addrOut) = << >>
    <2>1. Splits => wr_m_in # << >> /\ Head(wr_m_in) \in Write
        BY DEF WrFacts
    <2>2. Splits => /\ d0 # << >> /\ Head(d0) = AddrOf[Head(wr_m_in)]
                    /\ Tail(d0) = Image(AddrOf, Tail(wr_m_in))
        BY <1>0, <2>1, ImageOfTail DEF WrTypes
    <2>3. Splits => Tail(wr_m_in) \in Seq(Write)
        BY <1>0, <2>1, HeadTailProperties DEF WrTypes
    <2>4. Splits => AddrOut = Head(wr_m_in).addr /\ Half(wr_m_addrOut) = << >>
        BY DEF Splits, AddrOut, Half
    <2>. QED BY <2>1, <2>2, <2>3, <2>4, Projections
<1>5. None \notin Addr
    BY NoneAssumption DEF Addr
<1>6. AddrNow(aw) \in Addr \cup {None}
    BY DEF WrFacts
<1>. HIDE DEF h0, a0, d0, e0, f0
<1>7. Chain(Addr, h1, a1, slaveAw, Half(wr_m_addrOut), d0, e0, f0)
    <2>1. CASE answered
        BY <1>1, <1>2, <2>1, ChainTail
    <2>2. CASE ~answered
        BY <1>1, <2>2
    <2>. QED BY <2>1, <2>2
<1>. HIDE DEF h1, a1
<1>8. Chain(Addr, h1, a2, b1, Half(wr_m_addrOut), d0, e0, f0)
    <2>1. CASE sent
        <3>1. slaveAw # << >>
            BY <2>1 DEF WrFacts
        <3>. QED BY <1>7, <2>1, <3>1, ChainBtoA
    <2>2. CASE ~sent
        BY <1>7, <2>2
    <2>. QED BY <2>1, <2>2
<1>. HIDE DEF a2, b1
<1>9. Chain(Addr, h1, a2, b1, Half(AddrOut), d1, e0, f0)
    <2>1. CASE Splits
        <3>1. Append(Half(wr_m_addrOut), Head(d0)) = Half(AddrOut)
            <4>1. AddrOut # None /\ Head(d0) = AddrOut /\ Half(wr_m_addrOut) = << >>
                BY <1>4, <1>5, <2>1
            <4>2. Half(AddrOut) = <<AddrOut>>
                BY <4>1 DEF Half
            <4>. HIDE DEF d0
            <4>. QED BY <4>1, <4>2
        <3>2. Chain(Addr, h1, a2, b1, Append(Half(wr_m_addrOut), Head(d0)),
                    Tail(d0), e0, f0)
            BY <1>4, <1>8, <2>1, ChainDtoC
        <3>. QED BY <2>1, <3>1, <3>2
    <2>2. CASE ~Splits
        BY <1>8, <2>2 DEF AddrOut
    <2>. QED BY <2>1, <2>2
<1>. HIDE DEF d1
<1>10. Chain(Addr, h1, a2, b2, Half(wr_m_addrOut'), d1, e0, f0)
    <2>1. wr_m_addrOut' = IF out THEN None ELSE AddrOut
        BY DEF WrMoves
    <2>2. CASE out
        <3>1. /\ Half(AddrOut) # << >> /\ Head(Half(AddrOut)) = AddrOut
              /\ Tail(Half(AddrOut)) = << >> /\ Half(wr_m_addrOut') = << >>
            BY <2>1, <2>2 DEF Half
        <3>. QED BY <1>9, <2>2, <3>1, ChainCtoB
    <2>3. CASE ~out
        BY <1>9, <2>1, <2>3
    <2>. QED BY <2>2, <2>3
<1>. HIDE DEF b2
<1>11. Chain(Addr, h1, a3, b2, Half(wr_m_addrOut'), d2, e1, f0)
    <2>1. CASE fwd
        <3>1. writeReq /\ ~writeReqAnswers
            BY <2>1 DEF writeReqAnswers
        <3>2. Chain(Addr, h1, a2, b2, Half(wr_m_addrOut'), Append(d1, Head(e0)),
                    Tail(e0), f0)
            BY <1>3, <1>10, <3>1, ChainEtoD
        <3>. QED BY <2>1, <3>1, <3>2
    <2>2. CASE writeReqAnswers
        <3>1. writeReq /\ ~fwd
            BY <2>2 DEF writeReqAnswers
        <3>2. WrNothingBelow /\ ~answers /\ ~Splits
            BY <2>2 DEF WrFacts, WrBeyond
        <3>3. AddrOut = None /\ wr_m_addrOut' = None
            BY <3>2 DEF WrMoves, AddrOut, WrNothingBelow
        <3>4. b2 = << >> /\ Half(wr_m_addrOut') = << >> /\ d1 = << >>
            BY <3>2, <3>3 DEF b1, b2, d0, d1, Half, WrNothingBelow, Image
        <3>5. Chain(Addr, h1, Append(a2, Head(e0)), << >>, << >>, << >>,
                    Tail(e0), f0)
            BY <1>3, <1>10, <3>1, <3>4, ChainEtoA
        <3>. QED BY <2>2, <3>1, <3>4, <3>5
    <2>3. CASE ~writeReq
        BY <1>10, <2>3 DEF writeReqAnswers
    <2>. QED BY <2>1, <2>2, <2>3 DEF writeReqAnswers
<1>. HIDE DEF a3, d2, e1
<1>12. Chain(Addr, h2, a3, b2, Half(wr_m_addrOut'), d2, e1, f1)
    <2>1. CASE taken
        <3>1. f0 = << >> /\ AddrNow(aw) = aw /\ aw \in Addr
            BY <1>6, <2>1 DEF f0, Half, Image, AddrNow
        <3>2. f1 = <<AnsOf[aw]>> /\ AnsOf[aw] \in Addr
            BY <1>5, <3>1, AnswerType DEF Half, Image
        <3>3. Append(f0, AnsOf[aw]) = f1
            BY <3>1, <3>2
        <3>4. Chain(Addr, Append(h1, AnsOf[aw]), a3, b2, Half(wr_m_addrOut'), d2,
                    e1, Append(f0, AnsOf[aw]))
            BY <1>11, <3>2, ChainAppend
        <3>. QED BY <2>1, <3>3, <3>4
    <2>2. CASE ~taken
        <3>1. AddrNow(aw) = wr_s_addrIn
            BY <2>2 DEF AddrNow
        <3>. QED BY <1>11, <2>2, <3>1 DEF f0
    <2>. QED BY <2>1, <2>2
<1>. HIDE DEF h2
<1>13. Chain(Addr, h2, a3, b2, Half(wr_m_addrOut'), d2, e2, f2)
    <2>1. wr_s_addrIn' = IF Joins(aw, w) THEN None ELSE AddrNow(aw)
        BY DEF WrMoves
    <2>2. CASE Joins(aw, w)
        <3>1. AddrNow(aw) # None
            BY <2>2 DEF Joins
        <3>2. f1 = <<AnsOf[AddrNow(aw)]>> /\ f2 = << >>
            BY <2>1, <2>2, <3>1 DEF Half, Image
        <3>3. /\ f1 # << >> /\ Head(f1) = AnsOf[AddrNow(aw)]
              /\ Tail(f1) = << >>
            BY <3>2
        <3>4. Chain(Addr, h2, a3, b2, Half(wr_m_addrOut'), d2,
                    Append(e1, Head(f1)), Tail(f1))
            BY <1>12, <3>3, ChainFtoE
        <3>. QED BY <2>2, <3>2, <3>3, <3>4
    <2>3. CASE ~Joins(aw, w)
        BY <1>12, <2>1, <2>3
    <2>. QED BY <2>2, <2>3
<1>14. h2 = Image(AnsOf, hostAw')
    <2>. DEFINE q == IF answered THEN Tail(hostAw) ELSE hostAw
    <2>1. answered => hostAw # << >>
        <3>1. answered => h0 # << >>
            BY <1>1, <1>2, ChainTail
        <3>2. Len(h0) = Len(hostAw) /\ h0 \in Seq(Addr)
            BY <1>0, <1>1, ImageLen, ChainParts DEF h0, WrTypes
        <3>. QED BY <3>1, <3>2, EmptySeq
    <2>2. q \in Seq(Addr) /\ h1 = Image(AnsOf, q)
        BY <1>0, <2>1, HeadTailProperties, ImageOfTail DEF h0, h1, WrTypes
    <2>3. hostAw' = IF taken THEN Append(q, aw) ELSE q
        BY DEF WrMoves, Clocked
    <2>4. taken => aw \in Addr
        BY <1>6 DEF AddrNow
    <2>. HIDE DEF q
    <2>. QED BY <2>2, <2>3, <2>4, ImageOfAppend DEF h2
<1>15. a3 = Image(AddrOf, next)
    <2>. DEFINE left == IF answered THEN Tail(acked) ELSE acked
    <2>1. left \in Seq(Write) /\ a1 = Image(AddrOf, left)
        BY <1>2, HeadTailProperties DEF a0, a1
    <2>2. CASE sent
        <3>. DEFINE r == [addr |-> Head(slaveAw), data |-> Head(slaveW)]
        <3>1. next = Append(left, r)
            BY <2>2 DEF NextAcked
        <3>2. r \in Write /\ AddrOf[r] = Head(slaveAw)
            <4>1. r \in Write
                BY <2>2 DEF WrFacts, Write
            <4>. QED BY <4>1, Projections
        <3>3. ~writeReqAnswers
            BY <2>2 DEF WrFacts
        <3>. HIDE DEF left, r
        <3>. QED BY <2>1, <2>2, <3>1, <3>2, <3>3, ImageOfAppend DEF a2, a3
    <2>3. CASE ~sent /\ writeReqAnswers
        <3>. DEFINE r == [addr |-> 0, data |-> Head(wr_s_in).data]
        <3>1. next = Append(left, r)
            BY <2>3 DEF NextAcked
        <3>2. r \in Write /\ AddrOf[r] = 0
            <4>1. Head(wr_s_in) \in Write
                BY <2>3 DEF WrFacts, writeReqAnswers
            <4>2. r \in Write
                BY <4>1, AddrAssumption DEF Write, Addr
            <4>. QED BY <4>2, Projections
        <3>3. Head(e0) = 0
            BY <1>3, <2>3, AnswerType DEF writeReqAnswers, Answer
        <3>. HIDE DEF left, r
        <3>. QED BY <2>1, <2>3, <3>1, <3>2, <3>3, ImageOfAppend DEF a2, a3
    <2>4. CASE ~sent /\ ~writeReqAnswers
        <3>1. next = left
            BY <2>4 DEF NextAcked
        <3>. HIDE DEF left
        <3>. QED BY <2>1, <2>4, <3>1 DEF a2, a3
    <2>. QED BY <2>2, <2>3, <2>4
<1>16. b2 = slaveAw'
    BY DEF WrMoves, Clocked, b1, b2
<1>17. d2 = Image(AddrOf, wr_m_in')
    <2>. DEFINE left == IF Splits THEN Tail(wr_m_in) ELSE wr_m_in
                r == [addr |-> AnsOf[Head(wr_s_in).addr],
                      data |-> Head(wr_s_in).data]
    <2>1. left \in Seq(Write) /\ d1 = Image(AddrOf, left)
        BY <1>0, <1>4 DEF d0, d1, WrTypes
    <2>2. wr_m_in' = IF fwd THEN Append(left, r) ELSE left
        BY DEF WrMoves, Clocked
    <2>3. fwd => r \in Write /\ AddrOf[r] = Head(e0)
        <3>1. fwd => Head(wr_s_in) \in Write
            BY DEF WrFacts
        <3>2. fwd => r \in Write
            BY <1>3, <3>1, AnswerType DEF Write
        <3>. QED BY <1>3, <3>2, Projections
    <2>. HIDE DEF left, r
    <2>. QED BY <2>1, <2>2, <2>3, ImageOfAppend DEF d2
<1>18. e2 = Image(AnsAddrOf, wr_s_in')
    <2>. DEFINE left == IF writeReq THEN Tail(wr_s_in) ELSE wr_s_in
                r == [addr |-> AddrNow(aw), data |-> DataNow(w)]
    <2>1. left \in Seq(Write) /\ e1 = Image(AnsAddrOf, left)
        BY <1>0, <1>3 DEF e0, e1, WrTypes
    <2>2. wr_s_in' = IF Joins(aw, w) THEN Append(left, r) ELSE left
        BY DEF WrMoves, Clocked
    <2>3. Joins(aw, w) => r \in Write /\ AnsAddrOf[r] = AnsOf[AddrNow(aw)]
        <3>1. Joins(aw, w) => r \in Write
            BY DEF WrFacts, Joins, Write
        <3>. QED BY <3>1, Projections
    <2>. HIDE DEF left, r
    <2>4. CASE Joins(aw, w)
        <3>1. Image(AnsAddrOf, Append(left, r))
                 = Append(Image(AnsAddrOf, left), AnsAddrOf[r])
            BY <2>1, <2>3, <2>4, ImageOfAppend
        <3>. QED BY <2>1, <2>2, <2>3, <2>4, <3>1
    <2>5. CASE ~Joins(aw, w)
        BY <2>1, <2>2, <2>5
    <2>. QED BY <2>4, <2>5
<1>. HIDE DEF e2, f2
<1>19. f2 = Image(AnsOf, Half(wr_s_addrIn'))
    BY DEF f2
<1>. QED BY <1>13, <1>14, <1>15, <1>16, <1>17, <1>18, <1>19
     DEF WrAddrChain, Half

\* The chain of data, alike.
LEMMA WriteDataStep ==
    ASSUME NEW acked \in Seq(Write), WrPipe(acked),
           NEW aw \in WrAddr \cup {None}, NEW w \in WrData \cup {None},
           NEW bready \in BOOLEAN, NEW awready \in BOOLEAN,
           NEW wready \in BOOLEAN, NEW answers \in BOOLEAN,
           WrFacts(acked, aw, w, answers),
           WrMoves(aw, w, bready, awready, wready, answers),
           NEW next, next = NextAcked(acked, bready, answers)
    PROVE  WrDataChain(next)'
<1>. DEFINE answered == bready /\ EMPTY_N(wr_s_out)
            taken == w # None /\ wr_s_dataIn = None
            out == DataOut # None /\ wready
            sent == answers /\ FULL_N(wr_m_out)
            fwd == writeReq /\ Forwards(Head(wr_s_in).addr)
            h0 == hostW
            a0 == Image(DataOf, acked)
            d0 == Image(DataOf, wr_m_in)
            e0 == Image(DataOf, wr_s_in)
            h1 == IF answered THEN Tail(h0) ELSE h0
            a1 == IF answered THEN Tail(a0) ELSE a0
            a2 == IF sent THEN Append(a1, Head(slaveW)) ELSE a1
            a3 == IF writeReqAnswers THEN Append(a2, Head(e0)) ELSE a2
            b1 == IF sent THEN Tail(slaveW) ELSE slaveW
            b2 == IF out THEN Append(b1, DataOut) ELSE b1
            d1 == IF Splits THEN Tail(d0) ELSE d0
            d2 == IF fwd THEN Append(d1, Head(e0)) ELSE d1
            e1 == IF writeReq THEN Tail(e0) ELSE e0
            e2 == IF Joins(aw, w) THEN Append(e1, DataNow(w)) ELSE e1
            h2 == IF taken THEN Append(h1, w) ELSE h1
            f0 == Half(wr_s_dataIn)
            f1 == Half(DataNow(w))
            f2 == Half(wr_s_dataIn')
<1>0. WrTypes
    BY DEF WrPipe
<1>1. Chain(Data, h0, a0, slaveW, Half(wr_m_dataOut), d0, e0, f0)
    BY DEF WrPipe, WrDataChain
<1>2. /\ answered => acked # << >> /\ a0 # << >>
      /\ Tail(a0) = Image(DataOf, Tail(acked)) \/ ~answered
    <2>1. answered => acked # << >>
        BY DEF WrFacts
    <2>. QED BY <2>1, ImageOfTail
<1>3. writeReq => /\ e0 # << >> /\ Head(e0) = Head(wr_s_in).data
                  /\ Tail(e0) = Image(DataOf, Tail(wr_s_in))
                  /\ Tail(wr_s_in) \in Seq(Write)
                  /\ Head(wr_s_in) \in Write
    <2>1. writeReq => wr_s_in # << >> /\ Head(wr_s_in) \in Write
        BY DEF WrFacts
    <2>2. writeReq => /\ e0 # << >> /\ Head(e0) = DataOf[Head(wr_s_in)]
                      /\ Tail(e0) = Image(DataOf, Tail(wr_s_in))
        BY <1>0, <2>1, ImageOfTail DEF WrTypes
    <2>3. writeReq => Tail(wr_s_in) \in Seq(Write)
        BY <1>0, <2>1, HeadTailProperties DEF WrTypes
    <2>. QED BY <2>1, <2>2, <2>3, Projections DEF Write
<1>4. Splits => /\ d0 # << >> /\ Head(d0) = DataOut /\ DataOut \in Data
                /\ Tail(d0) = Image(DataOf, Tail(wr_m_in))
                /\ Tail(wr_m_in) \in Seq(Write)
                /\ Half(wr_m_dataOut) = << >>
    <2>1. Splits => wr_m_in # << >> /\ Head(wr_m_in) \in Write
        BY DEF WrFacts
    <2>2. Splits => /\ d0 # << >> /\ Head(d0) = DataOf[Head(wr_m_in)]
                    /\ Tail(d0) = Image(DataOf, Tail(wr_m_in))
        BY <1>0, <2>1, ImageOfTail DEF WrTypes
    <2>3. Splits => Tail(wr_m_in) \in Seq(Write)
        BY <1>0, <2>1, HeadTailProperties DEF WrTypes
    <2>4. Splits => DataOut = Head(wr_m_in).data /\ Half(wr_m_dataOut) = << >>
        BY DEF Splits, DataOut, Half
    <2>. QED BY <2>1, <2>2, <2>3, <2>4, Projections
<1>5. None \notin Data
    BY NoneAssumption
<1>6. DataNow(w) \in Data \cup {None}
    BY DEF WrFacts
<1>. HIDE DEF h0, a0, d0, e0, f0
<1>7. Chain(Data, h1, a1, slaveW, Half(wr_m_dataOut), d0, e0, f0)
    <2>1. CASE answered
        BY <1>1, <1>2, <2>1, ChainTail
    <2>2. CASE ~answered
        BY <1>1, <2>2
    <2>. QED BY <2>1, <2>2
<1>. HIDE DEF h1, a1
<1>8. Chain(Data, h1, a2, b1, Half(wr_m_dataOut), d0, e0, f0)
    <2>1. CASE sent
        <3>1. slaveW # << >>
            BY <2>1 DEF WrFacts
        <3>. QED BY <1>7, <2>1, <3>1, ChainBtoA
    <2>2. CASE ~sent
        BY <1>7, <2>2
    <2>. QED BY <2>1, <2>2
<1>. HIDE DEF a2, b1
<1>9. Chain(Data, h1, a2, b1, Half(DataOut), d1, e0, f0)
    <2>1. CASE Splits
        <3>1. Append(Half(wr_m_dataOut), Head(d0)) = Half(DataOut)
            <4>1. DataOut # None /\ Head(d0) = DataOut /\ Half(wr_m_dataOut) = << >>
                BY <1>4, <1>5, <2>1
            <4>2. Half(DataOut) = <<DataOut>>
                BY <4>1 DEF Half
            <4>. HIDE DEF d0
            <4>. QED BY <4>1, <4>2
        <3>2. Chain(Data, h1, a2, b1, Append(Half(wr_m_dataOut), Head(d0)),
                    Tail(d0), e0, f0)
            BY <1>4, <1>8, <2>1, ChainDtoC
        <3>. QED BY <2>1, <3>1, <3>2
    <2>2. CASE ~Splits
        BY <1>8, <2>2 DEF DataOut
    <2>. QED BY <2>1, <2>2
<1>. HIDE DEF d1
<1>10. Chain(Data, h1, a2, b2, Half(wr_m_dataOut'), d1, e0, f0)
    <2>1. wr_m_dataOut' = IF out THEN None ELSE DataOut
        BY DEF WrMoves
    <2>2. CASE out
        <3>1. /\ Half(DataOut) # << >> /\ Head(Half(DataOut)) = DataOut
              /\ Tail(Half(DataOut)) = << >> /\ Half(wr_m_dataOut') = << >>
            BY <2>1, <2>2 DEF Half
        <3>. QED BY <1>9, <2>2, <3>1, ChainCtoB
    <2>3. CASE ~out
        BY <1>9, <2>1, <2>3
    <2>. QED BY <2>2, <2>3
<1>. HIDE DEF b2
<1>11. Chain(Data, h1, a3, b2, Half(wr_m_dataOut'), d2, e1, f0)
    <2>1. CASE fwd
        <3>1. writeReq /\ ~writeReqAnswers
            BY <2>1 DEF writeReqAnswers
        <3>2. Chain(Data, h1, a2, b2, Half(wr_m_dataOut'), Append(d1, Head(e0)),
                    Tail(e0), f0)
            BY <1>3, <1>10, <3>1, ChainEtoD
        <3>. QED BY <2>1, <3>1, <3>2
    <2>2. CASE writeReqAnswers
        <3>1. writeReq /\ ~fwd
            BY <2>2 DEF writeReqAnswers
        <3>2. WrNothingBelow /\ ~answers /\ ~Splits
            BY <2>2 DEF WrFacts, WrBeyond
        <3>3. DataOut = None /\ wr_m_dataOut' = None
            BY <3>2 DEF WrMoves, DataOut, WrNothingBelow
        <3>4. b2 = << >> /\ Half(wr_m_dataOut') = << >> /\ d1 = << >>
            BY <3>2, <3>3 DEF b1, b2, d0, d1, Half, WrNothingBelow, Image
        <3>5. Chain(Data, h1, Append(a2, Head(e0)), << >>, << >>, << >>,
                    Tail(e0), f0)
            BY <1>3, <1>10, <3>1, <3>4, ChainEtoA
        <3>. QED BY <2>2, <3>1, <3>4, <3>5
    <2>3. CASE ~writeReq
        BY <1>10, <2>3 DEF writeReqAnswers
    <2>. QED BY <2>1, <2>2, <2>3 DEF writeReqAnswers
<1>. HIDE DEF a3, d2, e1
<1>12. Chain(Data, h2, a3, b2, Half(wr_m_dataOut'), d2, e1, f1)
    <2>1. CASE taken
        <3>1. f0 = << >> /\ DataNow(w) = w /\ w \in Data
            BY <1>6, <2>1 DEF f0, Half, DataNow
        <3>2. f1 = <<w>>
            BY <1>5, <3>1 DEF Half
        <3>3. Append(f0, w) = f1
            BY <3>1, <3>2
        <3>4. Chain(Data, Append(h1, w), a3, b2, Half(wr_m_dataOut'), d2,
                    e1, Append(f0, w))
            BY <1>11, <3>1, ChainAppend
        <3>. QED BY <2>1, <3>3, <3>4
    <2>2. CASE ~taken
        <3>1. DataNow(w) = wr_s_dataIn
            BY <2>2 DEF DataNow
        <3>. QED BY <1>11, <2>2, <3>1 DEF f0
    <2>. QED BY <2>1, <2>2
<1>. HIDE DEF h2
<1>13. Chain(Data, h2, a3, b2, Half(wr_m_dataOut'), d2, e2, f2)
    <2>1. wr_s_dataIn' = IF Joins(aw, w) THEN None ELSE DataNow(w)
        BY DEF WrMoves
    <2>2. CASE Joins(aw, w)
        <3>1. DataNow(w) # None
            BY <2>2 DEF Joins
        <3>2. f1 = <<DataNow(w)>> /\ f2 = << >>
            BY <2>1, <2>2, <3>1 DEF Half
        <3>3. /\ f1 # << >> /\ Head(f1) = DataNow(w)
              /\ Tail(f1) = << >>
            BY <3>2
        <3>4. Chain(Data, h2, a3, b2, Half(wr_m_dataOut'), d2,
                    Append(e1, Head(f1)), Tail(f1))
            BY <1>12, <3>3, ChainFtoE
        <3>. QED BY <2>2, <3>2, <3>3, <3>4
    <2>3. CASE ~Joins(aw, w)
        BY <1>12, <2>1, <2>3
    <2>. QED BY <2>2, <2>3
<1>14. h2 = hostW'
    BY DEF WrMoves, Clocked, h0, h1, h2
<1>15. a3 = Image(DataOf, next)
    <2>. DEFINE left == IF answered THEN Tail(acked) ELSE acked
    <2>1. left \in Seq(Write) /\ a1 = Image(DataOf, left)
        BY <1>2, HeadTailProperties DEF a0, a1
    <2>2. CASE sent
        <3>. DEFINE r == [addr |-> Head(slaveAw), data |-> Head(slaveW)]
        <3>1. next = Append(left, r)
            BY <2>2 DEF NextAcked
        <3>2. r \in Write /\ DataOf[r] = Head(slaveW)
            <4>1. r \in Write
                BY <2>2 DEF WrFacts, Write
            <4>. QED BY <4>1, Projections
        <3>3. ~writeReqAnswers
            BY <2>2 DEF WrFacts
        <3>. HIDE DEF left, r
        <3>. QED BY <2>1, <2>2, <3>1, <3>2, <3>3, ImageOfAppend DEF a2, a3
    <2>3. CASE ~sent /\ writeReqAnswers
        <3>. DEFINE r == [addr |-> 0, data |-> Head(wr_s_in).data]
        <3>1. next = Append(left, r)
            BY <2>3 DEF NextAcked
        <3>2. r \in Write /\ DataOf[r] = Head(wr_s_in).data
            <4>1. Head(wr_s_in) \in Write
                BY <2>3 DEF WrFacts, writeReqAnswers
            <4>2. r \in Write
                BY <4>1, AddrAssumption DEF Write, Addr
            <4>. QED BY <4>2, Projections
        <3>3. Head(e0) = Head(wr_s_in).data
            BY <1>3, <2>3 DEF writeReqAnswers
        <3>. HIDE DEF left, r
        <3>. QED BY <2>1, <2>3, <3>1, <3>2, <3>3, ImageOfAppend DEF a2, a3
    <2>4. CASE ~sent /\ ~writeReqAnswers
        <3>1. next = left
            BY <2>4 DEF NextAcked
        <3>. HIDE DEF left
        <3>. QED BY <2>1, <2>4, <3>1 DEF a2, a3
    <2>. QED BY <2>2, <2>3, <2>4
<1>16. b2 = slaveW'
    BY DEF WrMoves, Clocked, b1, b2
<1>17. d2 = Image(DataOf, wr_m_in')
    <2>. DEFINE left == IF Splits THEN Tail(wr_m_in) ELSE wr_m_in
                r == [addr |-> AnsOf[Head(wr_s_in).addr],
                      data |-> Head(wr_s_in).data]
    <2>1. left \in Seq(Write) /\ d1 = Image(DataOf, left)
        BY <1>0, <1>4 DEF d0, d1, WrTypes
    <2>2. wr_m_in' = IF fwd THEN Append(left, r) ELSE left
        BY DEF WrMoves, Clocked
    <2>3. fwd => r \in Write /\ DataOf[r] = Head(e0)
        <3>1. fwd => Head(wr_s_in) \in Write
            BY DEF WrFacts
        <3>2. fwd => r \in Write
            BY <1>3, <3>1, AnswerType DEF Write
        <3>. QED BY <1>3, <3>2, Projections
    <2>. HIDE DEF left, r
    <2>. QED BY <2>1, <2>2, <2>3, ImageOfAppend DEF d2
<1>18. e2 = Image(DataOf, wr_s_in')
    <2>. DEFINE left == IF writeReq THEN Tail(wr_s_in) ELSE wr_s_in
                r == [addr |-> AddrNow(aw), data |-> DataNow(w)]
    <2>1. left \in Seq(Write) /\ e1 = Image(DataOf, left)
        BY <1>0, <1>3 DEF e0, e1, WrTypes
    <2>2. wr_s_in' = IF Joins(aw, w) THEN Append(left, r) ELSE left
        BY DEF WrMoves, Clocked
    <2>3. Joins(aw, w) => r \in Write /\ DataOf[r] = DataNow(w)
        <3>1. Joins(aw, w) => r \in Write
            BY DEF WrFacts, Joins, Write
        <3>. QED BY <3>1, Projections
    <2>. HIDE DEF left, r
    <2>4. CASE Joins(aw, w)
        <3>1. Image(DataOf, Append(left, r))
                 = Append(Image(DataOf, left), DataOf[r])
            BY <2>1, <2>3, <2>4, ImageOfAppend
        <3>. QED BY <2>1, <2>2, <2>3, <2>4, <3>1
    <2>5. CASE ~Joins(aw, w)
        BY <2>1, <2>2, <2>5
    <2>. QED BY <2>4, <2>5
<1>. HIDE DEF e2, f2
<1>19. f2 = Half(wr_s_dataIn')
    BY DEF f2
<1>. QED BY <1>13, <1>14, <1>15, <1>16, <1>17, <1>18, <1>19
     DEF WrDataChain, Half

\* Every performed or refused write has one answer, and the two halves of a
\* write are handed over one by one.
LEMMA WriteCountStep ==
    ASSUME NEW acked \in Seq(Write), WrPipe(acked),
           NEW aw \in WrAddr \cup {None}, NEW w \in WrData \cup {None},
           NEW bready \in BOOLEAN, NEW awready \in BOOLEAN,
           NEW wready \in BOOLEAN, NEW answers \in BOOLEAN,
           WrFacts(acked, aw, w, answers),
           WrMoves(aw, w, bready, awready, wready, answers),
           NEW next, next = NextAcked(acked, bready, answers)
    PROVE  WrCount(next)'
<1>. DEFINE answered == bready /\ EMPTY_N(wr_s_out)
            sent == answers /\ FULL_N(wr_m_out)
            nAnswered == IF answered THEN 1 ELSE 0
            nSent == IF sent THEN 1 ELSE 0
            nRefused == IF writeReqAnswers THEN 1 ELSE 0
            nPassed == IF writeRes THEN 1 ELSE 0
            nSplit == IF Splits THEN 1 ELSE 0
<1>0. /\ WrCount(acked)
      /\ wr_s_out \in Seq(Resp) /\ wr_m_out \in Seq(Resp) /\ 0 \in Resp
      /\ slaveAw \in Seq(Addr) /\ slaveW \in Seq(Data)
    BY DataAssumption DEF WrPipe, WrTypes, WrAddrChain, WrDataChain, Chain
<1>1. \A S : \A q \in Seq(S) : \A e \in S :
         Append(q, e) \in Seq(S) /\ Len(Append(q, e)) = Len(q) + 1
    BY AppendProperties
<1>2. \A S : \A q \in Seq(S) : q # << >> =>
         Tail(q) \in Seq(S) /\ Len(Tail(q)) = Len(q) - 1
    BY HeadTailProperties
<1>3. \A S : \A q \in Seq(S) : Len(q) \in Nat
    BY LenProperties
<1>4. /\ nAnswered \in Nat /\ nSent \in Nat /\ nRefused \in Nat
      /\ nPassed \in Nat /\ nSplit \in Nat
    OBVIOUS
<1>5. /\ (answered => nAnswered = 1) /\ (~answered => nAnswered = 0)
      /\ (sent => nSent = 1) /\ (~sent => nSent = 0)
      /\ (writeReqAnswers => nRefused = 1) /\ (~writeReqAnswers => nRefused = 0)
      /\ (writeRes => nPassed = 1) /\ (~writeRes => nPassed = 0)
      /\ (Splits => nSplit = 1) /\ (~Splits => nSplit = 0)
    OBVIOUS
<1>6. /\ answered => acked # << >> /\ wr_s_out # << >>
      /\ sent => slaveAw # << >> /\ slaveW # << >>
      /\ writeReqAnswers => ~sent /\ ~writeRes
      /\ writeRes => wr_m_out # << >>
    BY DEF WrFacts, EMPTY_N, writeRes
<1>7. /\ sent => [addr |-> Head(slaveAw), data |-> Head(slaveW)] \in Write
      /\ writeReqAnswers => [addr |-> 0, data |-> Head(wr_s_in).data] \in Write
    <2>1. sent => [addr |-> Head(slaveAw), data |-> Head(slaveW)] \in Write
        BY DEF WrFacts, Write
    <2>2. writeReqAnswers => [addr |-> 0, data |-> Head(wr_s_in).data] \in Write
        <3>1. writeReqAnswers => Head(wr_s_in) \in Write
            BY DEF WrFacts, writeReqAnswers
        <3>. QED BY <3>1, AddrAssumption DEF Write, Addr
    <2>. QED BY <2>1, <2>2
<1>8. /\ Len(acked) \in Nat /\ Len(wr_s_out) \in Nat /\ Len(wr_m_out) \in Nat
      /\ Len(slaveAw) \in Nat /\ Len(slaveW) \in Nat
    BY <1>0, <1>3
<1>9. Len(next) = Len(acked) - nAnswered + nSent + nRefused
    <2>. DEFINE left == IF answered THEN Tail(acked) ELSE acked
                r == [addr |-> Head(slaveAw), data |-> Head(slaveW)]
                z == [addr |-> 0, data |-> Head(wr_s_in).data]
    <2>1. left \in Seq(Write) /\ Len(left) \in Nat
        BY <1>2, <1>3, <1>6
    <2>2. Len(left) = Len(acked) - nAnswered
        BY <1>2, <1>3, <1>6
    <2>3. next = IF sent THEN Append(left, r)
                 ELSE IF writeReqAnswers THEN Append(left, z) ELSE left
        BY DEF NextAcked
    <2>4. (sent => r \in Write) /\ (writeReqAnswers => z \in Write)
        BY <1>7
    <2>. HIDE DEF left, r, z, sent, answered, nAnswered, nSent, nRefused
    <2>5. /\ sent => Len(next) = Len(left) + 1
          /\ ~sent /\ writeReqAnswers => Len(next) = Len(left) + 1
          /\ ~sent /\ ~writeReqAnswers => Len(next) = Len(left)
        BY <1>1, <2>1, <2>3, <2>4
    <2>6. Len(left) \in Nat
        BY <2>1
    <2>. QED BY <1>4, <1>5, <1>6, <1>8, <2>2, <2>5, <2>6
<1>10. /\ Len(wr_s_out') = Len(wr_s_out) - nAnswered + nRefused + nPassed
       /\ Len(wr_m_out') = Len(wr_m_out) - nPassed + nSent
    <2>. DEFINE sLeft == IF answered THEN Tail(wr_s_out) ELSE wr_s_out
                mLeft == IF writeRes THEN Tail(wr_m_out) ELSE wr_m_out
                x == IF writeReqAnswers THEN 0 ELSE Head(wr_m_out)
    <2>1. sLeft \in Seq(Resp) /\ mLeft \in Seq(Resp)
        BY <1>0, <1>2, <1>6
    <2>2. Len(sLeft) \in Nat /\ Len(mLeft) \in Nat
        BY <1>3, <2>1
    <2>3. Len(sLeft) = Len(wr_s_out) - nAnswered
        BY <1>0, <1>2, <1>3, <1>6
    <2>4. Len(mLeft) = Len(wr_m_out) - nPassed
        BY <1>0, <1>2, <1>3, <1>6
    <2>5. /\ wr_m_out' = IF sent THEN Append(mLeft, 0) ELSE mLeft
          /\ wr_s_out' = IF writeReqAnswers \/ writeRes
                           THEN Append(sLeft, x) ELSE sLeft
        BY DEF WrMoves, Clocked
    <2>6. writeReqAnswers \/ writeRes => x \in Resp
        BY <1>0, <1>6, HeadTailProperties
    <2>. HIDE DEF sLeft, mLeft, x, sent, answered, nAnswered, nSent, nRefused, nPassed
    <2>7. /\ sent => Len(wr_m_out') = Len(mLeft) + 1
          /\ ~sent => wr_m_out' = mLeft
        BY <1>0, <1>1, <2>1, <2>5
    <2>8. /\ writeReqAnswers \/ writeRes => Len(wr_s_out') = Len(sLeft) + 1
          /\ ~(writeReqAnswers \/ writeRes) => wr_s_out' = sLeft
        BY <1>1, <2>1, <2>5, <2>6
    <2>9. Len(wr_m_out') = Len(mLeft) + nSent
        BY <1>4, <1>5, <2>2, <2>7
    <2>10. Len(wr_s_out') = Len(sLeft) + nRefused + nPassed
        BY <1>4, <1>5, <1>6, <2>2, <2>8
    <2>. QED BY <1>4, <1>8, <2>2, <2>3, <2>4, <2>9, <2>10
<1>11. \A x : Len(Half(x)) = IF x = None THEN 0 ELSE 1
    BY DEF Half
<1>12. /\ AddrOut \in Addr \cup {None} /\ DataOut \in Data \cup {None}
       /\ Len(Half(AddrOut)) = Len(Half(wr_m_addrOut)) + nSplit
       /\ Len(Half(DataOut)) = Len(Half(wr_m_dataOut)) + nSplit
    <2>1. Splits => /\ AddrOut # None /\ DataOut # None
                    /\ wr_m_addrOut = None /\ wr_m_dataOut = None
        <3>1. Splits => Head(wr_m_in) \in Write
            BY DEF WrFacts
        <3>. QED BY <3>1, NoneAssumption
             DEF Splits, AddrOut, DataOut, Write, Addr
    <2>2. ~Splits => AddrOut = wr_m_addrOut /\ DataOut = wr_m_dataOut
        BY DEF AddrOut, DataOut
    <2>3. AddrOut \in Addr \cup {None} /\ DataOut \in Data \cup {None}
        BY DEF WrFacts
    <2>. HIDE DEF nSplit
    <2>4. /\ Splits => /\ Len(Half(AddrOut)) = 1 /\ Len(Half(DataOut)) = 1
                       /\ Len(Half(wr_m_addrOut)) = 0
                       /\ Len(Half(wr_m_dataOut)) = 0
        BY <1>11, <2>1
    <2>5. \A x : Len(Half(x)) \in Nat
        BY <1>11
    <2>6. CASE Splits
        BY <1>5, <2>3, <2>4, <2>6
    <2>7. CASE ~Splits
        BY <1>5, <2>2, <2>3, <2>5, <2>7
    <2>. QED BY <2>6, <2>7
<1>13. Len(slaveAw') + Len(Half(wr_m_addrOut'))
         = Len(slaveAw) + Len(Half(wr_m_addrOut)) - nSent + nSplit
    <2>. DEFINE left == IF sent THEN Tail(slaveAw) ELSE slaveAw
                out == AddrOut # None /\ awready
    <2>1. left \in Seq(Addr) /\ Len(left) = Len(slaveAw) - nSent
        BY <1>0, <1>2, <1>3, <1>6
    <2>2. /\ slaveAw' = IF out THEN Append(left, AddrOut) ELSE left
          /\ wr_m_addrOut' = IF out THEN None ELSE AddrOut
        BY DEF WrMoves, Clocked
    <2>3. out => AddrOut \in Addr
        BY <1>12
    <2>4. Len(left) \in Nat /\ Len(Half(wr_m_addrOut)) \in Nat
        BY <1>3, <1>11, <2>1
    <2>5. Len(left) = Len(slaveAw) - nSent
        BY <2>1
    <2>. HIDE DEF left, nSent, nSplit
    <2>6. /\ out => /\ Len(slaveAw') = Len(left) + 1
                    /\ Len(Half(wr_m_addrOut')) = 0 /\ Len(Half(AddrOut)) = 1
          /\ ~out => slaveAw' = left /\ wr_m_addrOut' = AddrOut
        BY <1>1, <1>11, <2>1, <2>2, <2>3
    <2>7. Len(Half(AddrOut)) = Len(Half(wr_m_addrOut)) + nSplit
        BY <1>12
    <2>. QED BY <1>4, <1>8, <2>4, <2>5, <2>6, <2>7
<1>14. Len(slaveW') + Len(Half(wr_m_dataOut'))
         = Len(slaveW) + Len(Half(wr_m_dataOut)) - nSent + nSplit
    <2>. DEFINE left == IF sent THEN Tail(slaveW) ELSE slaveW
                out == DataOut # None /\ wready
    <2>1. left \in Seq(Data) /\ Len(left) = Len(slaveW) - nSent
        BY <1>0, <1>2, <1>3, <1>6
    <2>2. /\ slaveW' = IF out THEN Append(left, DataOut) ELSE left
          /\ wr_m_dataOut' = IF out THEN None ELSE DataOut
        BY DEF WrMoves, Clocked
    <2>3. out => DataOut \in Data
        BY <1>12
    <2>4. Len(left) \in Nat /\ Len(Half(wr_m_dataOut)) \in Nat
        BY <1>3, <1>11, <2>1
    <2>5. Len(left) = Len(slaveW) - nSent
        BY <2>1
    <2>. HIDE DEF left, nSent, nSplit
    <2>6. /\ out => /\ Len(slaveW') = Len(left) + 1
                    /\ Len(Half(wr_m_dataOut')) = 0 /\ Len(Half(DataOut)) = 1
          /\ ~out => slaveW' = left /\ wr_m_dataOut' = DataOut
        BY <1>1, <1>11, <2>1, <2>2, <2>3
    <2>7. Len(Half(DataOut)) = Len(Half(wr_m_dataOut)) + nSplit
        BY <1>12
    <2>. QED BY <1>4, <1>8, <2>4, <2>5, <2>6, <2>7
<1>. HIDE DEF nAnswered, nSent, nRefused, nPassed, nSplit
<1>15. /\ Len(acked) = Len(wr_s_out) + Len(wr_m_out)
       /\ Len(slaveAw) + Len(Half(wr_m_addrOut))
             = Len(slaveW) + Len(Half(wr_m_dataOut))
    BY <1>0 DEF WrCount
<1>16. Len(next) = Len(wr_s_out') + Len(wr_m_out')
    BY <1>4, <1>8, <1>9, <1>10, <1>15
<1>17. Len(Half(wr_m_addrOut)) \in Nat /\ Len(Half(wr_m_dataOut)) \in Nat
    BY <1>11
<1>18. Len(slaveAw') + Len(Half(wr_m_addrOut')) = Len(slaveW') + Len(Half(wr_m_dataOut'))
    BY <1>4, <1>8, <1>13, <1>14, <1>15, <1>17
<1>. QED BY <1>16, <1>18 DEF WrCount, Half

LEMMA WriteTypesStep ==
    ASSUME NEW acked \in Seq(Write), WrPipe(acked),
           NEW aw \in WrAddr \cup {None}, NEW w \in WrData \cup {None},
           NEW bready \in BOOLEAN, NEW awready \in BOOLEAN,
           NEW wready \in BOOLEAN, NEW answers \in BOOLEAN,
           WrFacts(acked, aw, w, answers),
           WrMoves(aw, w, bready, awready, wready, answers)
    PROVE  WrTypes'
<1>0. WrTypes
    BY DEF WrPipe
<1>1. \A S : \A q \in Seq(S) : \A e \in S : Append(q, e) \in Seq(S)
    BY AppendProperties
<1>2. \A S : \A q \in Seq(S) : q # << >> => Tail(q) \in Seq(S)
    BY HeadTailProperties
<1>3. hostAw' \in Seq(Addr)
    <2>. DEFINE left == IF bready /\ EMPTY_N(wr_s_out) THEN Tail(hostAw) ELSE hostAw
    <2>1. EMPTY_N(wr_s_out) => hostAw # << >>
        <3>1. Chain(Addr, Image(AnsOf, hostAw), Image(AddrOf, acked), slaveAw,
                    Half(wr_m_addrOut), Image(AddrOf, wr_m_in),
                    Image(AnsAddrOf, wr_s_in), Image(AnsOf, Half(wr_s_addrIn)))
            BY DEF WrPipe, WrAddrChain
        <3>2. EMPTY_N(wr_s_out) => Image(AddrOf, acked) # << >>
            <4>1. EMPTY_N(wr_s_out) => acked # << >>
                BY DEF WrFacts
            <4>. QED BY <4>1, ImageOfTail
        <3>3. EMPTY_N(wr_s_out) => Image(AnsOf, hostAw) # << >>
            BY <3>1, <3>2, ChainTail
        <3>. QED BY <3>3 DEF Image
    <2>2. left \in Seq(Addr)
        BY <1>0, <1>2, <2>1 DEF WrTypes
    <2>3. hostAw' = IF aw # None /\ wr_s_addrIn = None THEN Append(left, aw) ELSE left
        BY DEF WrMoves, Clocked
    <2>4. aw # None => aw \in Addr
        BY AddrAssumption DEF Addr
    <2>. HIDE DEF left
    <2>. QED BY <1>1, <2>2, <2>3, <2>4
<1>4. wr_s_in' \in Seq(Write)
    <2>. DEFINE left == IF writeReq THEN Tail(wr_s_in) ELSE wr_s_in
                r == [addr |-> AddrNow(aw), data |-> DataNow(w)]
    <2>1. left \in Seq(Write)
        BY <1>0, <1>2 DEF WrTypes, writeReq, EMPTY_N
    <2>2. Joins(aw, w) => r \in Write
        BY DEF WrFacts, Joins, Write
    <2>3. wr_s_in' = IF Joins(aw, w) THEN Append(left, r) ELSE left
        BY DEF WrMoves, Clocked
    <2>. HIDE DEF left, r
    <2>. QED BY <1>1, <2>1, <2>2, <2>3
<1>5. wr_m_in' \in Seq(Write)
    <2>. DEFINE left == IF Splits THEN Tail(wr_m_in) ELSE wr_m_in
                r == [addr |-> AnsOf[Head(wr_s_in).addr],
                      data |-> Head(wr_s_in).data]
                fwd == writeReq /\ Forwards(Head(wr_s_in).addr)
    <2>1. left \in Seq(Write)
        BY <1>0, <1>2 DEF WrTypes, Splits, EMPTY_N
    <2>2. fwd => r \in Write
        <3>1. fwd => Head(wr_s_in) \in Write
            BY DEF WrFacts
        <3>. QED BY <3>1, AnswerType DEF Write
    <2>3. wr_m_in' = IF fwd THEN Append(left, r) ELSE left
        BY DEF WrMoves, Clocked
    <2>. HIDE DEF left, r, fwd
    <2>. QED BY <1>1, <2>1, <2>2, <2>3
<1>6. /\ wr_s_addrIn' \in Addr \cup {None} /\ wr_s_dataIn' \in Data \cup {None}
      /\ wr_m_addrOut' \in Addr \cup {None} /\ wr_m_dataOut' \in Data \cup {None}
    BY DEF WrFacts, WrMoves
<1>7. wr_m_out' \in Seq(Resp)
    <2>. DEFINE left == IF writeRes THEN Tail(wr_m_out) ELSE wr_m_out
    <2>1. left \in Seq(Resp)
        BY <1>0, <1>2 DEF WrTypes, writeRes, EMPTY_N
    <2>2. wr_m_out' = IF answers /\ FULL_N(wr_m_out) THEN Append(left, 0) ELSE left
        BY DEF WrMoves, Clocked
    <2>. HIDE DEF left
    <2>. QED BY <1>1, <2>1, <2>2, DataAssumption
<1>8. wr_s_out' \in Seq(Resp)
    <2>. DEFINE left == IF EMPTY_N(wr_s_out) /\ bready THEN Tail(wr_s_out) ELSE wr_s_out
                x == IF writeReqAnswers THEN 0 ELSE Head(wr_m_out)
    <2>1. left \in Seq(Resp)
        BY <1>0, <1>2 DEF WrTypes, EMPTY_N
    <2>2. wr_s_out' = IF writeReqAnswers \/ writeRes THEN Append(left, x) ELSE left
        BY DEF WrMoves, Clocked
    <2>3. writeReqAnswers \/ writeRes => x \in Resp
        BY <1>0, HeadTailProperties, DataAssumption DEF WrTypes, writeRes, EMPTY_N
    <2>. HIDE DEF left, x
    <2>. QED BY <1>1, <2>1, <2>2, <2>3
<1>. QED BY <1>3, <1>4, <1>5, <1>6, <1>7, <1>8 DEF WrTypes

(***************************************************************************)
(* With no write of the host unanswered there is nothing of one in the     *)
(* gate or the slave except a half that waits for its address, so that the *)
(* host may change sides.                                                  *)
(***************************************************************************)
LEMMA WritesEmpty ==
    ASSUME NEW acked \in Seq(Write), WrPipe(acked), hostAw = << >>
    PROVE  WrBelow(acked) /\ WrBeyond /\ wr_s_out = << >>
<1>0. WrTypes /\ slaveAw \in Seq(Addr) /\ slaveW \in Seq(Data)
    BY DEF WrPipe, WrAddrChain, WrDataChain, Chain
<1>1. Chain(Addr, Image(AnsOf, hostAw), Image(AddrOf, acked), slaveAw,
            Half(wr_m_addrOut), Image(AddrOf, wr_m_in),
            Image(AnsAddrOf, wr_s_in), Image(AnsOf, Half(wr_s_addrIn)))
    BY DEF WrPipe, WrAddrChain
<1>2. Len(Image(AnsOf, hostAw)) = 0
    BY DEF Image
<1>3. /\ Len(Image(AddrOf, acked)) = 0 /\ Len(slaveAw) = 0
      /\ Len(Half(wr_m_addrOut)) = 0 /\ Len(Image(AddrOf, wr_m_in)) = 0
      /\ Len(Image(AnsAddrOf, wr_s_in)) = 0
      /\ Len(Image(AnsOf, Half(wr_s_addrIn))) = 0
    BY <1>1, <1>2, ChainParts
<1>4. \A x : Len(Half(x)) = IF x = None THEN 0 ELSE 1
    BY DEF Half
<1>5. Len(acked) = 0 /\ Len(wr_m_in) = 0 /\ Len(wr_s_in) = 0
    BY <1>0, <1>3, ImageLen DEF WrTypes
<1>6. wr_s_addrIn = None
    <2>1. wr_s_addrIn # None =>
             Image(AnsOf, Half(wr_s_addrIn)) = <<AnsOf[wr_s_addrIn]>>
        BY DEF Half, Image
    <2>2. Len(<<AnsOf[wr_s_addrIn]>>) = 1
        OBVIOUS
    <2>. QED BY <1>3, <2>1, <2>2
<1>7. acked = << >> /\ slaveAw = << >> /\ wr_m_in = << >> /\ wr_s_in = << >>
    BY <1>0, <1>3, <1>5, EmptySeq DEF WrTypes
<1>8. wr_m_addrOut = None
    <2>1. Len(Half(wr_m_addrOut)) = 0
        BY <1>3
    <2>2. wr_m_addrOut # None => Len(Half(wr_m_addrOut)) = 1
        BY DEF Half
    <2>. QED BY <2>1, <2>2
<1>9. wr_s_out = << >> /\ wr_m_out = << >> /\ slaveW = << >> /\ wr_m_dataOut = None
    <2>1. /\ Len(wr_s_out) \in Nat /\ Len(wr_m_out) \in Nat /\ Len(slaveW) \in Nat
          /\ Len(Half(wr_m_dataOut)) \in Nat
        BY <1>0, <1>4, LenProperties DEF WrTypes
    <2>2. /\ Len(wr_s_out) = 0 /\ Len(wr_m_out) = 0 /\ Len(slaveW) = 0
          /\ Len(Half(wr_m_dataOut)) = 0
        BY <1>3, <1>5, <2>1 DEF WrPipe, WrCount
    <2>3. wr_s_out = << >> /\ wr_m_out = << >> /\ slaveW = << >>
        BY <1>0, <2>2, EmptySeq DEF WrTypes
    <2>4. wr_m_dataOut = None
        BY <1>4, <2>2
    <2>. QED BY <2>3, <2>4
<1>10. done = << >>
    BY <1>7 DEF WrPipe, WrBelow, WrBeyond
<1>. QED BY <1>6, <1>7, <1>8, <1>9, <1>10
     DEF WrBelow, WrBeyond, WrNothingBelow, Below, Beyond, Image, Half

LEMMA WriteSideStep ==
    ASSUME NEW acked \in Seq(Write), WrPipe(acked),
           NEW aw \in WrAddr \cup {None}, NEW w \in WrData \cup {None},
           NEW bready \in BOOLEAN, NEW awready \in BOOLEAN,
           NEW wready \in BOOLEAN, NEW answers \in BOOLEAN,
           WrFacts(acked, aw, w, answers),
           WrMoves(aw, w, bready, awready, wready, answers),
           HostOffers(hostAw, aw),
           NEW next, next = NextAcked(acked, bready, answers)
    PROVE  (WrBelow(next) \/ WrBeyond)'
<1>. DEFINE answered == bready /\ EMPTY_N(wr_s_out)
            taken == aw # None /\ wr_s_addrIn = None
            sent == answers /\ FULL_N(wr_m_out)
            hostLeft == IF answered THEN Tail(hostAw) ELSE hostAw
            left == IF writeReq THEN Tail(wr_s_in) ELSE wr_s_in
            side == Image(AddrOf, wr_s_in)
            sideLeft == Image(AddrOf, left)
            new == [addr |-> AddrNow(aw), data |-> DataNow(w)]
            r == [addr |-> Head(slaveAw), data |-> Head(slaveW)]
<1>0. /\ hostAw \in Seq(Addr) /\ wr_s_in \in Seq(Write)
      /\ wr_s_addrIn \in Addr \cup {None}
    BY DEF WrPipe, WrTypes
<1>1. None \notin Addr
    BY NoneAssumption DEF Addr
<1>2. answered => acked # << >> /\ hostAw # << >>
    <2>1. answered => wr_s_out # << >>
        BY DEF EMPTY_N
    <2>2. answered => acked # << >>
        BY DEF WrFacts
    <2>. QED BY <2>1, <2>2, WritesEmpty
<1>3. /\ hostLeft \in Seq(Addr)
      /\ Below(hostAw) => Below(hostLeft)
      /\ Beyond(hostAw) => Beyond(hostLeft)
    BY <1>0, <1>2, HeadTailProperties, SideOfTail
<1>4. /\ left \in Seq(Write) /\ sideLeft \in Seq(Addr)
      /\ Below(side) => Below(sideLeft)
      /\ Beyond(side) => Beyond(sideLeft)
    <2>1. left \in Seq(Write)
        BY <1>0, HeadTailProperties DEF writeReq, EMPTY_N
    <2>2. \A q \in Seq(Write) : Image(AddrOf, q) \in Seq(Addr)
        BY Projections, ImageIsSeq
    <2>3. writeReq => side # << >> /\ sideLeft = Tail(side)
        BY <1>0, ImageOfTail DEF writeReq, EMPTY_N
    <2>4. side \in Seq(Addr) /\ sideLeft \in Seq(Addr)
        BY <1>0, <2>1, <2>2
    <2>5. ~writeReq => sideLeft = side
        OBVIOUS
    <2>. HIDE DEF left, side, sideLeft
    <2>. QED BY <2>1, <2>3, <2>4, <2>5, SideOfTail
<1>5. hostAw' = IF taken THEN Append(hostLeft, aw) ELSE hostLeft
    BY DEF WrMoves, Clocked
<1>6. Joins(aw, w) => new \in Write /\ AddrNow(aw) \in Addr
    BY DEF WrFacts, Joins, Write
<1>7. Image(AddrOf, wr_s_in') = IF Joins(aw, w)
                                  THEN Append(sideLeft, AddrNow(aw)) ELSE sideLeft
    <2>1. wr_s_in' = IF Joins(aw, w) THEN Append(left, new) ELSE left
        BY DEF WrMoves, Clocked
    <2>2. Joins(aw, w) =>
             Image(AddrOf, Append(left, new)) = Append(sideLeft, AddrNow(aw))
        <3>1. Joins(aw, w) => AddrOf[new] = AddrNow(aw)
            BY <1>6, Projections
        <3>. HIDE DEF left, new
        <3>. QED BY <1>4, <1>6, <3>1, ImageOfAppend
    <2>. QED BY <2>1, <2>2
<1>8. wr_s_addrIn' = IF Joins(aw, w) THEN None ELSE AddrNow(aw)
    BY DEF WrMoves
<1>9. /\ Below(Half(wr_s_addrIn)) /\ AddrNow(aw) # None
            /\ (taken => Forwards(aw)) => Forwards(AddrNow(aw))
      /\ Beyond(Half(wr_s_addrIn)) /\ AddrNow(aw) # None
            /\ (taken => ~Forwards(aw)) => ~Forwards(AddrNow(aw))
    <2>1. CASE wr_s_addrIn = None
        BY <2>1 DEF AddrNow
    <2>2. CASE wr_s_addrIn # None
        <3>1. AddrNow(aw) = wr_s_addrIn
            BY <2>2 DEF AddrNow
        <3>2. Half(wr_s_addrIn) = <<wr_s_addrIn>>
            BY <2>2 DEF Half
        <3>3. Len(Half(wr_s_addrIn)) = 1 /\ Half(wr_s_addrIn)[1] = wr_s_addrIn
            BY <3>2
        <3>. QED BY <3>1, <3>3 DEF Below, Beyond
    <2>. QED BY <2>1, <2>2
<1>10. done' = LET perf == IF sent THEN Append(done, r) ELSE done
               IN  IF answered /\ hostAw # << >> /\ Forwards(Head(hostAw))
                     THEN Tail(perf) ELSE perf
    BY DEF WrMoves
<1>. HIDE DEF hostLeft, left, side, sideLeft, new
<1>11. ASSUME WrBelow(acked), taken => Forwards(aw)
       PROVE  WrBelow(next)'
    <2>1. Below(hostAw')
        <3>1. taken => aw \in Addr
            BY AddrAssumption DEF Addr
        <3>2. Below(hostLeft)
            BY <1>3, <1>11 DEF WrBelow
        <3>. QED BY <1>3, <1>5, <1>11, <3>1, <3>2, SideOfAppend
    <2>2. AddrNow(aw) # None => Forwards(AddrNow(aw))
        BY <1>9, <1>11 DEF WrBelow
    <2>3. Below(Image(AddrOf, wr_s_in'))
        <3>1. Below(sideLeft)
            BY <1>4, <1>11 DEF WrBelow, side
        <3>2. Joins(aw, w) => AddrNow(aw) # None
            BY DEF Joins
        <3>. QED BY <1>4, <1>6, <1>7, <2>2, <3>1, <3>2, SideOfAppend
    <2>4. Below(Half(wr_s_addrIn'))
        <3>1. wr_s_addrIn' # None => Forwards(wr_s_addrIn')
            BY <1>8, <2>2
        <3>. QED BY <3>1 DEF Below, Half
    <2>5. done' = next
        <3>1. ~writeReqAnswers
            BY <1>11 DEF WrFacts, writeReqAnswers
        <3>2. done = acked
            BY <1>11 DEF WrBelow
        <3>3. answered => Forwards(Head(hostAw))
            BY <1>0, <1>2, <1>11, SideOfTail DEF WrBelow
        <3>4. sent => r \in Write
            BY DEF WrFacts, Write
        <3>5. done' = LET perf == IF sent THEN Append(acked, r) ELSE acked
                      IN  IF answered THEN Tail(perf) ELSE perf
            BY <1>2, <1>10, <3>2, <3>3
        <3>6. next = LET rest == IF answered THEN Tail(acked) ELSE acked
                     IN  IF sent THEN Append(rest, r) ELSE rest
            BY <3>1 DEF NextAcked
        <3>. HIDE DEF r, answered, sent
        <3>7. answered /\ sent => Tail(Append(acked, r)) = Append(Tail(acked), r)
            BY <1>2, <3>4, TailOfAppend
        <3>. QED BY <3>5, <3>6, <3>7
    <2>. QED BY <2>1, <2>3, <2>4, <2>5 DEF WrBelow, Half
<1>12. ASSUME WrBeyond, taken => ~Forwards(aw)
       PROVE  WrBeyond'
    <2>1. Beyond(hostAw')
        <3>1. taken => aw \in Addr
            BY AddrAssumption DEF Addr
        <3>2. Beyond(hostLeft)
            BY <1>3, <1>12 DEF WrBeyond
        <3>. QED BY <1>3, <1>5, <1>12, <3>1, <3>2, SideOfAppend
    <2>2. AddrNow(aw) # None => ~Forwards(AddrNow(aw))
        BY <1>9, <1>12 DEF WrBeyond
    <2>3. Beyond(Image(AddrOf, wr_s_in'))
        <3>1. Beyond(sideLeft)
            BY <1>4, <1>12 DEF WrBeyond, side
        <3>2. Joins(aw, w) => AddrNow(aw) # None
            BY DEF Joins
        <3>. QED BY <1>4, <1>6, <1>7, <2>2, <3>1, <3>2, SideOfAppend
    <2>4. Beyond(Half(wr_s_addrIn'))
        <3>1. wr_s_addrIn' # None => ~Forwards(wr_s_addrIn')
            BY <1>8, <2>2
        <3>. QED BY <3>1 DEF Beyond, Half
    <2>5. WrNothingBelow
        BY <1>12 DEF WrBeyond
    <2>6. ~answers /\ ~Splits /\ ~writeRes
        BY <2>5 DEF WrFacts, WrNothingBelow, Splits, writeRes, EMPTY_N
    <2>7. ~(writeReq /\ Forwards(Head(wr_s_in).addr))
        BY <1>12 DEF WrFacts
    <2>8. AddrOut = None /\ DataOut = None
        BY <2>5, <2>6 DEF AddrOut, DataOut, WrNothingBelow
    <2>9. WrNothingBelow'
        BY <2>5, <2>6, <2>7, <2>8 DEF WrMoves, Clocked, WrNothingBelow
    <2>10. done' = << >>
        <3>1. answered => ~Forwards(Head(hostAw))
            BY <1>0, <1>2, <1>12, SideOfTail DEF WrBeyond
        <3>2. done = << >>
            BY <1>12 DEF WrBeyond
        <3>. QED BY <1>10, <2>6, <3>1, <3>2
    <2>. QED BY <2>1, <2>3, <2>4, <2>9, <2>10 DEF WrBeyond, Half
<1>13. CASE taken
    <2>1. \A i \in 1 .. Len(hostAw) : Forwards(hostAw[i]) <=> Forwards(aw)
        BY <1>13 DEF HostOffers
    <2>2. CASE Forwards(aw)
        <3>1. Below(hostAw)
            BY <2>1, <2>2 DEF Below
        <3>2. CASE Beyond(hostAw)
            <4>1. hostAw = << >>
                BY <1>0, <3>1, <3>2, SideOfTail
            <4>. QED BY <1>11, <2>2, <4>1, WritesEmpty
        <3>3. CASE ~Beyond(hostAw)
            BY <1>11, <2>2, <3>3 DEF WrPipe, WrBeyond
        <3>. QED BY <3>2, <3>3
    <2>3. CASE ~Forwards(aw)
        <3>1. Beyond(hostAw)
            BY <2>1, <2>3 DEF Beyond
        <3>2. CASE Below(hostAw)
            <4>1. hostAw = << >>
                BY <1>0, <3>1, <3>2, SideOfTail
            <4>. QED BY <1>12, <2>3, <4>1, WritesEmpty
        <3>3. CASE ~Below(hostAw)
            BY <1>12, <2>3, <3>3 DEF WrPipe, WrBelow
        <3>. QED BY <3>2, <3>3
    <2>. QED BY <2>2, <2>3
<1>14. CASE ~taken
    BY <1>11, <1>12, <1>14 DEF WrPipe
<1>. QED BY <1>13, <1>14

LEMMA WriteStep ==
    ASSUME NEW acked \in Seq(Write), WrPipe(acked),
           NEW aw \in WrAddr \cup {None}, NEW w \in WrData \cup {None},
           NEW bready \in BOOLEAN, NEW awready \in BOOLEAN,
           NEW wready \in BOOLEAN, NEW answers \in BOOLEAN,
           WriteSide(aw, w, bready, awready, wready, answers)
    PROVE  WrInv'
<1>1. PICK next : next = NextAcked(acked, bready, answers)
    <2>1. \E x : x = NextAcked(acked, bready, answers)
        OBVIOUS
    <2>. QED BY <2>1
<1>2. /\ WrFacts(acked, aw, w, answers)
      /\ WrMoves(aw, w, bready, awready, wready, answers)
      /\ HostOffers(hostAw, aw)
    <2>1. WrFacts(acked, aw, w, answers)
        BY WriteRules, Zenon
    <2>2. WrMoves(aw, w, bready, awready, wready, answers)
        BY WriteMoves, Zenon
    <2>3. HostOffers(hostAw, aw)
        BY DEF WriteSide
    <2>. QED BY <2>1, <2>2, <2>3
<1>3. next \in Seq(Write)
    <2>. DEFINE left == IF bready /\ EMPTY_N(wr_s_out) THEN Tail(acked) ELSE acked
                r == [addr |-> Head(slaveAw), data |-> Head(slaveW)]
                z == [addr |-> 0, data |-> Head(wr_s_in).data]
    <2>1. left \in Seq(Write)
        BY <1>2, HeadTailProperties DEF WrFacts
    <2>2. answers => r \in Write
        BY <1>2 DEF WrFacts, Write
    <2>3. writeReqAnswers => z \in Write
        <3>1. writeReqAnswers => Head(wr_s_in) \in Write
            BY <1>2 DEF WrFacts, writeReqAnswers
        <3>. QED BY <3>1, AddrAssumption DEF Write, Addr
    <2>4. next = IF answers /\ FULL_N(wr_m_out) THEN Append(left, r)
                 ELSE IF writeReqAnswers THEN Append(left, z) ELSE left
        BY <1>1 DEF NextAcked
    <2>. HIDE DEF left, r, z
    <2>. QED BY <2>1, <2>2, <2>3, <2>4, AppendProperties
<1>4. WrAddrChain(next)' /\ WrDataChain(next)'
    BY <1>1, <1>2, WriteAddrStep, WriteDataStep
<1>5. WrCount(next)' /\ WrTypes'
    BY <1>1, <1>2, WriteCountStep, WriteTypesStep
<1>6. (WrBelow(next) \/ WrBeyond)'
    BY <1>1, <1>2, WriteSideStep
<1>7. WrPipe(next)'
    BY <1>4, <1>5, <1>6 DEF WrPipe
<1>. QED BY <1>3, <1>7 DEF WrInv

LEMMA WritesInOrder == WrInv => AckAfterEffect /\ OnlyWindowReached
<1>. SUFFICES ASSUME NEW acked \in Seq(Write), WrPipe(acked)
              PROVE  AckAfterEffect /\ OnlyWindowReached
    BY DEF WrInv
<1>. DEFINE h == Image(AnsOf, hostAw)
            addrs == Image(AddrOf, acked)
            datas == Image(DataOf, acked)
<1>1. /\ WrTypes /\ WrCount(acked)
      /\ Chain(Addr, h, addrs, slaveAw, Half(wr_m_addrOut), Image(AddrOf, wr_m_in),
               Image(AnsAddrOf, wr_s_in), Image(AnsOf, Half(wr_s_addrIn)))
      /\ Chain(Data, hostW, datas, slaveW, Half(wr_m_dataOut),
               Image(DataOf, wr_m_in), Image(DataOf, wr_s_in), Half(wr_s_dataIn))
    BY DEF WrPipe, WrAddrChain, WrDataChain
<1>2. hostAw \in Seq(Addr) /\ wr_s_out \in Seq(Resp) /\ wr_m_out \in Seq(Resp)
    BY <1>1 DEF WrTypes
<1>3. Len(h) = Len(hostAw) /\ Len(addrs) = Len(acked) /\ Len(datas) = Len(acked)
    BY <1>2, ImageLen
<1>4. \A i \in 1 .. Len(hostAw) : h[i] = Answer(hostAw[i]) /\ hostAw[i] \in Addr
    <2>1. \A i \in 1 .. Len(hostAw) : hostAw[i] \in Addr
        BY <1>2, ElementOfSeq
    <2>. QED BY <2>1, AnswerType DEF Image
<1>5. \A i \in 1 .. Len(acked) : /\ addrs[i] = acked[i].addr
                                 /\ datas[i] = acked[i].data
                                 /\ acked[i] \in Write
    <2>1. \A i \in 1 .. Len(acked) : acked[i] \in Write
        BY ElementOfSeq
    <2>. QED BY <2>1, Projections DEF Image
<1>. HIDE DEF h, addrs, datas
<1>6. /\ Len(acked) <= Len(hostAw) /\ Len(acked) + Len(slaveAw) <= Len(hostAw)
      /\ Len(acked) \in Nat /\ Len(hostAw) \in Nat /\ Len(slaveAw) \in Nat
      /\ Len(wr_s_out) \in Nat /\ Len(wr_m_out) \in Nat
    <2>1. /\ Len(wr_s_out) \in Nat /\ Len(wr_m_out) \in Nat
          /\ Len(acked) \in Nat /\ Len(hostAw) \in Nat
        BY <1>2, LenProperties
    <2>2. /\ Len(h) = Len(addrs) + Len(slaveAw) + Len(Half(wr_m_addrOut))
                       + Len(Image(AddrOf, wr_m_in)) + Len(Image(AnsAddrOf, wr_s_in))
                       + Len(Image(AnsOf, Half(wr_s_addrIn)))
          /\ Len(addrs) \in Nat /\ Len(slaveAw) \in Nat
          /\ Len(Half(wr_m_addrOut)) \in Nat /\ Len(Image(AddrOf, wr_m_in)) \in Nat
          /\ Len(Image(AnsAddrOf, wr_s_in)) \in Nat
          /\ Len(Image(AnsOf, Half(wr_s_addrIn))) \in Nat
        BY <1>1, ChainParts
    <2>. QED BY <1>3, <2>1, <2>2
<1>7. /\ \A i \in 1 .. Len(addrs) : h[i] = addrs[i]
      /\ \A i \in 1 .. Len(slaveAw) : h[Len(addrs) + i] = slaveAw[i]
    BY <1>1, ChainElements
<1>8. \A i \in 1 .. Len(datas) : hostW[i] = datas[i]
    BY <1>1, ChainElements
<1>9. Len(wr_s_out) <= Len(acked)
    BY <1>1, <1>6 DEF WrCount
<1>10. CASE WrBelow(acked)
    <2>1. done = acked /\ \A i \in 1 .. Len(hostAw) : Forwards(hostAw[i])
        BY <1>10 DEF WrBelow, Below
    <2>2. \A i \in 1 .. Len(hostAw) :
             Answer(hostAw[i]) = Translate(hostAw[i]) /\ Translate(hostAw[i]) \in Window
        BY <1>4, <2>1, TranslateInWindow DEF Answer
    <2>3. ASSUME NEW i \in 1 .. Len(done)
          PROVE  /\ Forwards(hostAw[i])
                 /\ done[i] = [addr |-> Translate(hostAw[i]), data |-> hostW[i]]
        <3>1. i \in 1 .. Len(acked) /\ i \in 1 .. Len(hostAw)
            BY <1>6, <2>1
        <3>2. acked[i].addr = Translate(hostAw[i]) /\ acked[i].data = hostW[i]
            BY <1>3, <1>4, <1>5, <1>7, <1>8, <2>2, <3>1
        <3>3. acked[i] \in [addr : Addr, data : Data]
            BY <1>5, <3>1 DEF Write
        <3>. QED BY <2>1, <3>1, <3>2, <3>3
    <2>4. \A i \in 1 .. Len(wr_s_out) : i <= Len(done)
        BY <1>6, <1>9, <2>1
    <2>5. AckAfterEffect
        BY <1>6, <1>9, <2>1, <2>3, <2>4 DEF AckAfterEffect
    <2>6. ASSUME NEW i \in 1 .. Len(slaveAw) PROVE slaveAw[i] \in Window
        <3>1. Len(acked) + i \in 1 .. Len(hostAw)
            BY <1>6
        <3>2. slaveAw[i] = h[Len(acked) + i]
            BY <1>3, <1>7
        <3>. QED BY <1>4, <2>2, <3>1, <3>2
    <2>. QED BY <2>5, <2>6 DEF OnlyWindowReached
<1>11. CASE WrBeyond
    <2>1. /\ done = << >> /\ slaveAw = << >>
          /\ \A i \in 1 .. Len(hostAw) : ~Forwards(hostAw[i])
        BY <1>11 DEF WrBeyond, WrNothingBelow, Beyond
    <2>2. Len(done) = 0 /\ Len(slaveAw) = 0
        BY <2>1
    <2>3. AckAfterEffect
        BY <1>6, <1>9, <2>1, <2>2 DEF AckAfterEffect
    <2>. QED BY <2>2, <2>3 DEF OnlyWindowReached
<1>. QED BY <1>10, <1>11 DEF WrPipe

-----------------------------------------------------------------------------
(***************************************************************************)
(* The specification.                                                      *)
(***************************************************************************)
SysInv == RdInv /\ WrInv

LEMMA SysInitInv == SysInit => SysInv
<1>. SUFFICES ASSUME SysInit PROVE SysInv
    OBVIOUS
<1>1. \A S : << >> \in Seq(S)
    BY EmptySeq
<1>2. \A f : Image(f, << >>) = << >>
    BY DEF Image
<1>3. \A S : Chain(S, << >>, << >>, << >>, << >>, << >>, << >>, << >>)
    <2>. TAKE S
    <2>1. << >> \in Seq(S) /\ << >> \o << >> = << >>
        BY <1>1, ConcatEmptySeq
    <2>. QED BY <2>1 DEF Chain
<1>4. RdInv
    <2>1. RdChain
        BY <1>2, <1>3 DEF SysInit, Init, RdChain
    <2>2. RdSide
        BY DEF SysInit, Init, RdSide, Below
    <2>. QED BY <1>1, <2>1, <2>2 DEF SysInit, Init, RdInv
<1>5. WrPipe(<< >>)
    <2>1. WrTypes
        BY <1>1 DEF SysInit, Init, WrTypes
    <2>2. Half(wr_m_addrOut) = << >> /\ Half(wr_m_dataOut) = << >>
          /\ Half(wr_s_addrIn) = << >> /\ Half(wr_s_dataIn) = << >>
        BY DEF SysInit, Init, Half
    <2>3. WrAddrChain(<< >>) /\ WrDataChain(<< >>)
        BY <1>2, <1>3, <2>2 DEF SysInit, Init, WrAddrChain, WrDataChain
    <2>4. WrCount(<< >>)
        BY <2>2 DEF SysInit, Init, WrCount
    <2>5. WrBelow(<< >>)
        BY <1>2, <2>2 DEF SysInit, Init, WrBelow, Below
    <2>. QED BY <2>1, <2>3, <2>4, <2>5 DEF WrPipe
<1>6. WrInv
    BY <1>1, <1>5 DEF WrInv
<1>. QED BY <1>4, <1>6 DEF SysInv

LEMMA SysInvStep == SysInv /\ [SysNext]_sysvars => SysInv'
<1>. SUFFICES ASSUME SysInv, [SysNext]_sysvars PROVE SysInv'
    OBVIOUS
<1>1. CASE SysNext
    <2>1. RdInv'
        <3>1. PICK ar \in RdAddr \cup {None}, rready \in BOOLEAN,
                   arready \in BOOLEAN, answers \in BOOLEAN :
                 ReadSide(ar, rready, arready, answers)
            BY <1>1 DEF SysNext, SysCycle
        <3>. QED BY <3>1, ReadStep DEF SysInv
    <2>2. WrInv'
        <3>1. PICK aw \in WrAddr \cup {None}, w \in WrData \cup {None},
                   bready \in BOOLEAN, awready \in BOOLEAN,
                   wready \in BOOLEAN, answers \in BOOLEAN :
                 WriteSide(aw, w, bready, awready, wready, answers)
            BY <1>1 DEF SysNext, SysCycle
        <3>2. PICK acked \in Seq(Write) : WrPipe(acked)
            BY DEF SysInv, WrInv
        <3>. QED BY <3>1, <3>2, WriteStep
    <2>. QED BY <2>1, <2>2 DEF SysInv
<1>2. CASE UNCHANGED sysvars
    <2>. USE <1>2 DEF sysvars, vars, rdvars, wrvars, envvars
    <2>1. RdInv'
        BY DEF SysInv, RdInv, RdChain, RdSide, Below, Beyond
    <2>2. WrInv'
        <3>1. PICK acked \in Seq(Write) : WrPipe(acked)
            BY DEF SysInv, WrInv
        <3>2. WrTypes' /\ WrCount(acked)'
            BY <3>1 DEF WrPipe, WrTypes, WrCount
        <3>3. WrAddrChain(acked)' /\ WrDataChain(acked)'
            BY <3>1 DEF WrPipe, WrAddrChain, WrDataChain
        <3>4. (WrBelow(acked) \/ WrBeyond)'
            BY <3>1 DEF WrPipe, WrBelow, WrBeyond, WrNothingBelow
        <3>5. WrPipe(acked)'
            BY <3>2, <3>3, <3>4 DEF WrPipe
        <3>. QED BY <3>5 DEF WrInv
    <2>. QED BY <2>1, <2>2 DEF SysInv
<1>. QED BY <1>1, <1>2

LEMMA SysSafe == SysSpec => []SysInv
<1>1. SysSpec => SysInit /\ [][SysNext]_sysvars
    BY PTL DEF SysSpec
<1>. QED BY <1>1, SysInitInv, SysInvStep, PTL

(***************************************************************************)
(* The host reads the controller's word below the threshold, 0 elsewhere,  *)
(* and its answers in the order of its requests.                           *)
(***************************************************************************)
THEOREM ReadsOrdered == SysSpec => []ReadsAnsweredInOrder
<1>1. SysInv => ReadsAnsweredInOrder
    BY ReadsInOrder DEF SysInv
<1>. QED BY <1>1, SysSafe, PTL

(***************************************************************************)
(* A write of the host is acknowledged only after the slave has performed  *)
(* it, address and data from the same write, or if it is refused.          *)
(***************************************************************************)
THEOREM AcksHonest == SysSpec => []AckAfterEffect
<1>1. SysInv => AckAfterEffect
    BY WritesInOrder DEF SysInv
<1>. QED BY <1>1, SysSafe, PTL

\* Every address that reaches the slave lies in the controller's window.
THEOREM WindowOnly == SysSpec => []OnlyWindowReached
<1>1. SysInv => OnlyWindowReached
    BY WritesInOrder DEF SysInv
<1>. QED BY <1>1, SysSafe, PTL
=============================================================================
