------------------------ MODULE RVController_proofs -------------------------
(***************************************************************************)
(* Proofs about RVController, and about the history that MCRVController    *)
(* records of it, for every set of addresses and data, every grace period  *)
(* and every FIFO depth, under an arbitrary bus master; then about PEJob,  *)
(* where the masters are a host program and the core of the PE, which      *)
(* together implement JobService.                                          *)
(***************************************************************************)
EXTENDS MCRVController, PEJob, SequenceLemmas, TLAPS

IInv == TypeOK /\ RunInv

(***************************************************************************)
(* The write request at the head of its queue is well formed.              *)
(***************************************************************************)
LEMMA ReqType == TypeOK /\ handle_write => req \in WriteReq
<1>. SUFFICES ASSUME TypeOK, handle_write PROVE req \in WriteReq
    OBVIOUS
<1>1. wr_s_in \in Seq(WriteReq) /\ wr_s_in # << >>
    BY DEF TypeOK, handle_write
<1>. QED BY <1>1 DEF req

(***************************************************************************)
(* A read returns a natural number, whatever address it decodes.           *)
(***************************************************************************)
LEMMA ReadValueType ==
    ASSUME TypeOK, NEW a
    PROVE  ReadValue(a) \in Nat
<1>1. /\ ret[1] \in Nat /\ ret[2] \in Nat
      /\ \A i \in 0 .. 4 : args[i] \in Nat
    <2>1. \A d \in Data : d \in Nat
        BY WordAssumption
    <2>. QED BY <2>1 DEF TypeOK
<1>2. counter % WordSize \in Nat /\ counter \div WordSize \in Nat
    <2>1. counter \in Nat /\ WordSize \in Nat /\ WordSize > 0
        BY WordAssumption DEF TypeOK
    <2>2. counter % WordSize \in Nat
        BY <2>1
    <2>3. counter \div WordSize \in Nat
        BY <2>1
    <2>. QED BY <2>2, <2>3
<1>3. ASSUME NEW o, o \in {ArgReg[i] : i \in 0 .. 4}
      PROVE  args[CHOOSE i \in 0 .. 4 : ArgReg[i] = o] \in Nat
    BY <1>1, <1>3
<1>4. (IF ctrl THEN 1 ELSE 0) \in Nat
    OBVIOUS
<1>. QED
    BY <1>1, <1>2, <1>3, <1>4 DEF ReadValue

(***************************************************************************)
(* The job-control registers keep their types through a clock edge.        *)
(***************************************************************************)
LEMMA ControlTypes ==
    ASSUME TypeOK, NEW aw, NEW w, NEW bready, NEW ar, NEW rready,
           NEW reqRDY \in BOOLEAN, Cycle(aw, w, bready, ar, rready, reqRDY)
    PROVE  /\ ctrl' \in BOOLEAN /\ rst' \in BOOLEAN /\ rstn' \in BOOLEAN
           /\ grace' \in 0 .. GraceCycles /\ resetBSV' \in BOOLEAN
           /\ counter' \in Nat /\ ret' \in Data \X Data
           /\ args' \in [0 .. 4 -> Data]
<1>0. handle_write => req.data \in Data
    BY ReqType DEF WriteReq
<1>1. ctrl' \in BOOLEAN
    BY DEF Cycle, UpdateCtrl, TypeOK
<1>2. rst' \in BOOLEAN /\ rstn' \in BOOLEAN
    BY DEF Cycle, UpdateReset, TypeOK, resetAll
<1>3. grace' \in 0 .. GraceCycles
    BY GraceAssumption DEF Cycle, UpdateGrace, TypeOK, graceDown
<1>4. resetBSV' \in BOOLEAN
    BY DEF Cycle, UpdateResetBSV, TypeOK
<1>5. counter' \in Nat
    <2>1. (counter + 1) % CounterSize \in Nat
        BY CounterAssumption DEF TypeOK
    <2>. QED BY <2>1 DEF Cycle, UpdateCounter, TypeOK
<1>6. ret' \in Data \X Data
    BY <1>0 DEF Cycle, UpdateRet, Writes, TypeOK
<1>7. args' \in [0 .. 4 -> Data]
    BY <1>0 DEF Cycle, UpdateArgs, Writes, TypeOK
<1>. QED BY <1>1, <1>2, <1>3, <1>4, <1>5, <1>6, <1>7

(***************************************************************************)
(* The bus side keeps its types, and no queue exceeds its depth.           *)
(***************************************************************************)
LEMMA BusTypes ==
    ASSUME TypeOK, NEW aw \in WrAddr \cup {None}, NEW w \in WData \cup {None},
           NEW ar \in RdAddr \cup {None}, NEW bready \in BOOLEAN,
           NEW rready \in BOOLEAN, NEW reqRDY \in BOOLEAN,
           Cycle(aw, w, bready, ar, rready, reqRDY)
    PROVE  /\ wr_s_addrIn' \in WrAddr \cup {None}
           /\ wr_s_dataIn' \in WData \cup {None}
           /\ wr_s_in' \in Seq(WriteReq) /\ Len(wr_s_in') <= FifoDepth
           /\ wr_s_out' \in 0 .. FifoDepth
           /\ rd_s_in' \in Seq(RdAddr) /\ Len(rd_s_in') <= FifoDepth
           /\ rd_s_out' \in Seq(Nat) /\ Len(rd_s_out') <= FifoDepth
<1>. USE FifoAssumption
<1>1. AddrNow(aw) \in WrAddr \cup {None} /\ DataNow(w) \in WData \cup {None}
    BY DEF AddrNow, DataNow, TypeOK
<1>2. Joins(aw, w) => Joined(aw, w) \in WriteReq
    BY <1>1 DEF Joins, Joined, WriteReq, WData
<1>3. wr_s_addrIn' \in WrAddr \cup {None} /\ wr_s_dataIn' \in WData \cup {None}
    BY <1>1 DEF Cycle, WriteChannel
<1>4. wr_s_in' \in Seq(WriteReq) /\ Len(wr_s_in') <= FifoDepth
    <2>. DEFINE q == Dequeued(wr_s_in, handle_write)
    <2>1. q \in Seq(WriteReq) /\ Len(q) <= Len(wr_s_in) /\ Len(q) \in Nat
          /\ Len(wr_s_in) \in Nat
        BY DEF TypeOK, Dequeued, handle_write
    <2>2. wr_s_in' = IF Joins(aw, w) THEN Append(q, Joined(aw, w)) ELSE q
        BY DEF Cycle, WriteChannel
    <2>3. CASE Joins(aw, w)
        BY <1>2, <2>1, <2>2, <2>3 DEF Joins
    <2>4. CASE ~Joins(aw, w)
        BY <2>1, <2>2, <2>4 DEF TypeOK
    <2>. QED BY <2>3, <2>4
<1>5. wr_s_out' \in 0 .. FifoDepth
    BY DEF Cycle, WriteChannel, TypeOK, handle_write
<1>6. rd_s_in' \in Seq(RdAddr) /\ Len(rd_s_in') <= FifoDepth
    <2>. DEFINE q == Dequeued(rd_s_in, handle_read)
    <2>1. q \in Seq(RdAddr) /\ Len(q) <= Len(rd_s_in) /\ Len(q) \in Nat
          /\ Len(rd_s_in) \in Nat
        BY DEF TypeOK, Dequeued, handle_read
    <2>2. rd_s_in' = IF ar # None /\ Len(rd_s_in) < FifoDepth
                       THEN Append(q, ar) ELSE q
        BY DEF Cycle, ReadChannel
    <2>. QED BY <2>1, <2>2 DEF TypeOK
<1>7. rd_s_out' \in Seq(Nat) /\ Len(rd_s_out') <= FifoDepth
    <2>. DEFINE q == Dequeued(rd_s_out, rd_s_out # << >> /\ rready)
                v == ReadValue(Head(rd_s_in))
    <2>1. q \in Seq(Nat) /\ Len(q) <= Len(rd_s_out) /\ Len(q) \in Nat
          /\ Len(rd_s_out) \in Nat
        BY DEF TypeOK, Dequeued
    <2>2. rd_s_out' = IF handle_read THEN Append(q, v) ELSE q
        BY DEF Cycle, ReadChannel
    <2>3. v \in Nat
        BY ReadValueType
    <2>. HIDE DEF q, v
    <2>. QED BY <2>1, <2>2, <2>3 DEF TypeOK, handle_read
<1>. QED BY <1>3, <1>4, <1>5, <1>6, <1>7

(***************************************************************************)
(* A clock edge keeps the grace period inside a running job.               *)
(***************************************************************************)
LEMMA RunInvCycle ==
    ASSUME IInv, NEW aw, NEW w, NEW bready, NEW ar, NEW rready, NEW reqRDY,
           Cycle(aw, w, bready, ar, rready, reqRDY)
    PROVE  RunInv'
<1>1. CASE handle_start
    <2>1. ~resetAll
        BY <1>1 DEF handle_start, resetAll, IInv, RunInv, TypeOK
    <2>. QED BY <1>1, <2>1 DEF Cycle, UpdateReset, RunInv
<1>2. CASE resetAll
    <2>1. ~SetsIntr
        BY <1>2 DEF resetAll, SetsIntr, Writes
    <2>. QED BY <1>2, <2>1 DEF Cycle, UpdateReset, UpdateGrace, RunInv
<1>3. CASE ~handle_start /\ ~resetAll
    <2>1. rst' = rst /\ rstn' = rstn
        BY <1>3 DEF Cycle, UpdateReset
    <2>2. SetsIntr => ~rst
        BY <1>3 DEF SetsIntr, handle_start
    <2>3. graceDown => grace > 0
        BY DEF graceDown, IInv, TypeOK
    <2>4. grace' > 0 => ~rst
        BY <1>3, <2>2, <2>3 DEF Cycle, UpdateGrace, IInv, RunInv
    <2>. QED BY <2>1, <2>4 DEF IInv, RunInv
<1>. QED BY <1>1, <1>2, <1>3

(***************************************************************************)
(* The values the registers have in reset are of their types.              *)
(***************************************************************************)
LEMMA ResetState ==
    /\ 0 \in 0 .. GraceCycles /\ 0 \in Nat /\ 0 \in 0 .. FifoDepth
    /\ <<0, 0>> \in Data \X Data
    /\ [i \in 0 .. 4 |-> 0] \in [0 .. 4 -> Data]
    /\ << >> \in Seq(WriteReq) /\ << >> \in Seq(RdAddr) /\ << >> \in Seq(Nat)
    /\ Len(<< >>) <= FifoDepth
    /\ None \in WrAddr \cup {None} /\ None \in WData \cup {None}
    /\ ~(0 > 0)
    BY WordAssumption, GraceAssumption, FifoAssumption

(***************************************************************************)
(* Both invariants are inductive.                                          *)
(***************************************************************************)
LEMMA Inductive == IInv /\ [Next]_vars => IInv'
<1>. SUFFICES ASSUME IInv, [Next]_vars PROVE IInv'
    OBVIOUS
<1>1. CASE AnyCycle
    <2>0. PICK aw \in WrAddr \cup {None}, w \in WData \cup {None},
               ar \in RdAddr \cup {None}, bready \in BOOLEAN,
               rready \in BOOLEAN, reqRDY \in BOOLEAN :
                  Cycle(aw, w, bready, ar, rready, reqRDY)
        BY <1>1 DEF AnyCycle
    <2>1. TypeOK'
        <3>1. TypeOK
            BY DEF IInv
        <3>2. /\ ctrl' \in BOOLEAN /\ rst' \in BOOLEAN /\ rstn' \in BOOLEAN
              /\ grace' \in 0 .. GraceCycles /\ resetBSV' \in BOOLEAN
              /\ counter' \in Nat /\ ret' \in Data \X Data
              /\ args' \in [0 .. 4 -> Data]
            BY <2>0, <3>1, ControlTypes
        <3>3. /\ wr_s_addrIn' \in WrAddr \cup {None}
              /\ wr_s_dataIn' \in WData \cup {None}
              /\ wr_s_in' \in Seq(WriteReq) /\ Len(wr_s_in') <= FifoDepth
              /\ wr_s_out' \in 0 .. FifoDepth
              /\ rd_s_in' \in Seq(RdAddr) /\ Len(rd_s_in') <= FifoDepth
              /\ rd_s_out' \in Seq(Nat) /\ Len(rd_s_out') <= FifoDepth
            BY <2>0, <3>1, BusTypes
        <3>. QED BY <3>2, <3>3, Zenon DEF TypeOK
    <2>2. RunInv'
        BY <2>0, RunInvCycle
    <2>. QED BY <2>1, <2>2 DEF IInv
<1>2. CASE Reset
    BY <1>2, ResetState, Zenon DEF Reset, IInv, TypeOK, RunInv
<1>3. CASE UNCHANGED vars
    <2>1. /\ ctrl' = ctrl /\ rst' = rst /\ rstn' = rstn /\ grace' = grace
          /\ resetBSV' = resetBSV /\ counter' = counter /\ ret' = ret
          /\ args' = args /\ wr_s_addrIn' = wr_s_addrIn
          /\ wr_s_dataIn' = wr_s_dataIn /\ wr_s_in' = wr_s_in
          /\ wr_s_out' = wr_s_out /\ rd_s_in' = rd_s_in /\ rd_s_out' = rd_s_out
        BY <1>3 DEF vars, ctlvars, busvars
    <2>2. TypeOK'
        BY <2>1 DEF IInv, TypeOK
    <2>3. RunInv'
        BY <2>1 DEF IInv, RunInv
    <2>. QED BY <2>2, <2>3 DEF IInv
<1>. QED BY <1>1, <1>2, <1>3 DEF Next

(***************************************************************************)
(* Type correctness, and the grace period runs only while the core does.   *)
(***************************************************************************)
THEOREM Invariance == Spec => [](TypeOK /\ RunInv)
<1>1. Init => IInv
    BY ResetState, Zenon DEF Init, IInv, TypeOK, RunInv
<1>. QED
    BY <1>1, Inductive, PTL DEF Spec, IInv

(***************************************************************************)
(* The start rule and the end-of-job rule never fire in the same cycle.    *)
(***************************************************************************)
THEOREM StartResetExclusion == Spec => []StartNeverMeetsReset
<1>1. TypeOK /\ RunInv => StartNeverMeetsReset
    BY DEF TypeOK, RunInv, StartNeverMeetsReset, handle_start, resetAll
<1>. QED
    BY <1>1, Invariance, PTL

(***************************************************************************)
(* A core that enters reset has its start bit cleared in the same cycle.   *)
(***************************************************************************)
THEOREM NoSelfRestartThm == Spec => NoSelfRestart
<1>1. TypeOK /\ [Next]_vars => [~rst /\ rst' => ~ctrl']_vars
    <2>. SUFFICES ASSUME TypeOK, [Next]_vars, ~rst, rst' PROVE ~ctrl'
        OBVIOUS
    <2>1. CASE UNCHANGED vars
        BY <2>1 DEF vars, ctlvars
    <2>2. CASE Reset
        BY <2>2 DEF Reset
    <2>3. ASSUME NEW aw, NEW w, NEW bready, NEW ar, NEW rready, NEW reqRDY,
                 Cycle(aw, w, bready, ar, rready, reqRDY)
          PROVE  ~ctrl'
        <3>1. resetAll
            BY <2>3 DEF Cycle, UpdateReset, handle_start
        <3>2. ~Writes(CTRL)
            BY <3>1 DEF resetAll, Writes
        <3>. QED BY <2>3, <3>1, <3>2 DEF Cycle, UpdateCtrl
    <2>. QED BY <2>1, <2>2, <2>3 DEF Next, AnyCycle
<1>. QED
    BY <1>1, Invariance, PTL DEF Spec, NoSelfRestart

-----------------------------------------------------------------------------
(***************************************************************************)
(* The history of MCRVController: what was accepted from the bus against   *)
(* what is queued, and whether the job that ends was signalled.            *)
(*                                                                         *)
(* Half is the sequence that an input register stands for, Now what the    *)
(* register or, when it is free, the channel offers.                       *)
(***************************************************************************)
Half(reg) == IF reg = None THEN << >> ELSE <<reg>>
Now(reg, half) == IF reg = None THEN half ELSE reg

(***************************************************************************)
(* The heart of the pairing, for either half of a write.  If the halves    *)
(* accepted and not performed are those of the queued requests and then    *)
(* the one in the input register, they stay so when another half is        *)
(* accepted, when the request at the head is performed, and when the two   *)
(* registers are joined to a request e.  f is the projection of a request  *)
(* to this half.                                                           *)
(***************************************************************************)
LEMMA HalfAccepted ==
    ASSUME NEW T, NEW s \in Seq(T), NEW reg, NEW half \in T \cup {None}
    PROVE  Accepted(s \o Half(reg), reg, half) =
              s \o Half(Now(reg, half))
<1>1. CASE reg = None /\ half # None
    <2>1. s \o << >> = s
        BY ConcatEmptySeq
    <2>2. Append(s, half) = s \o <<half>>
        BY <1>1, AppendIsConcat
    <2>. QED BY <1>1, <2>1, <2>2 DEF Accepted, Half, Now
<1>2. CASE ~(reg = None /\ half # None)
    BY <1>2 DEF Accepted, Now
<1>. QED BY <1>1, <1>2

LEMMA HeadPerformed ==
    ASSUME NEW S, NEW f, NEW q \in Seq(S), q # << >>, NEW now
    PROVE  Tail(Image(f, q) \o Half(now)) = Image(f, Tail(q)) \o Half(now)
<1>. DEFINE T == {f[r] : r \in S} \cup {now}
<1>1. Image(f, q) \in Seq(T) /\ Half(now) \in Seq(T)
    <2>1. (\A r \in S : f[r] \in T) /\ now \in T
        OBVIOUS
    <2>. HIDE DEF T
    <2>. QED BY <2>1, ImageIsSeq DEF Half
<1>2. Image(f, q) # << >> /\ Image(f, Tail(q)) = Tail(Image(f, q))
    BY ImageOfTail
<1>. HIDE DEF T
<1>3. Tail(Image(f, q) \o Half(now)) = Tail(Image(f, q)) \o Half(now)
    BY <1>1, <1>2, TailOfConcat
<1>. QED BY <1>2, <1>3

LEMMA HalvesJoined ==
    ASSUME NEW S, NEW f, NEW q \in Seq(S), NEW e \in S, f[e] # None
    PROVE  Image(f, q) \o Half(f[e]) = Image(f, Append(q, e)) \o Half(None)
<1>. DEFINE T == {f[r] : r \in S}
<1>1. Image(f, q) \in Seq(T) /\ f[e] \in T
    BY ImageIsSeq
<1>2. Image(f, Append(q, e)) = Append(Image(f, q), f[e])
    BY ImageOfAppend
<1>. HIDE DEF T
<1>3. Append(Image(f, q), f[e]) = Image(f, q) \o <<f[e]>>
    BY <1>1, AppendIsConcat
<1>4. Append(Image(f, q), f[e]) \o << >> = Append(Image(f, q), f[e])
    BY <1>1, AppendProperties, ConcatEmptySeq
<1>. QED BY <1>2, <1>3, <1>4 DEF Half

(***************************************************************************)
(* A half is accepted and the head performed in one clock edge.            *)
(***************************************************************************)
LEMMA AcceptedAndPerformed ==
    ASSUME NEW f, wr_s_in \in Seq(WriteReq), handle_write => wr_s_in # << >>,
           NEW reg, NEW half
    PROVE  Dequeued(Accepted(Image(f, wr_s_in) \o Half(reg), reg, half),
                    handle_write)
              = Image(f, Dequeued(wr_s_in, handle_write)) \o Half(Now(reg, half))
<1>. DEFINE T == {f[r] : r \in WriteReq} \cup {half}
<1>1. Image(f, wr_s_in) \in Seq(T) /\ half \in T
    BY ImageIsSeq
<1>. HIDE DEF T
<1>2. Accepted(Image(f, wr_s_in) \o Half(reg), reg, half)
         = Image(f, wr_s_in) \o Half(Now(reg, half))
    BY <1>1, HalfAccepted
<1>3. CASE handle_write
    BY <1>2, <1>3, HeadPerformed DEF Dequeued
<1>4. CASE ~handle_write
    BY <1>2, <1>4 DEF Dequeued
<1>. QED BY <1>3, <1>4

-----------------------------------------------------------------------------
(***************************************************************************)
(* The inductive invariant.  The second conjunct is what makes the end of  *)
(* a job honest: a grace period is only ever running for a job whose       *)
(* interrupt was raised.                                                   *)
(***************************************************************************)
HistInv ==
    /\ IInv
    /\ PairedInOrder
    /\ grace > 0 => signalled

AddrOf == [r \in WriteReq |-> r.addr]
WDataOf == [r \in WriteReq |-> [data |-> r.data, strb |-> r.strb]]

\* PairedInOrder in terms of images.
LEMMA PairedAsImages ==
    TypeOK => (PairedInOrder <=>
                  /\ awPend = Image(AddrOf, wr_s_in) \o Half(wr_s_addrIn)
                  /\ wPend = Image(WDataOf, wr_s_in) \o Half(wr_s_dataIn))
<1>. SUFFICES ASSUME TypeOK
              PROVE  PairedInOrder <=>
                  /\ awPend = Image(AddrOf, wr_s_in) \o Half(wr_s_addrIn)
                  /\ wPend = Image(WDataOf, wr_s_in) \o Half(wr_s_dataIn)
    OBVIOUS
<1>1. \A i \in 1 .. Len(wr_s_in) : wr_s_in[i] \in WriteReq
    BY ElementOfSeq DEF TypeOK
<1>2. Image(AddrOf, wr_s_in) = [i \in 1 .. Len(wr_s_in) |-> wr_s_in[i].addr]
    BY <1>1 DEF Image, AddrOf
<1>3. Image(WDataOf, wr_s_in) =
         [i \in 1 .. Len(wr_s_in) |-> [data |-> wr_s_in[i].data,
                                       strb |-> wr_s_in[i].strb]]
    BY <1>1 DEF Image, WDataOf
<1>. QED BY <1>2, <1>3, Zenon DEF PairedInOrder, Half

LEMMA PairedCycle ==
    ASSUME TypeOK, PairedInOrder, TypeOK',
           NEW aw \in WrAddr \cup {None}, NEW w \in WData \cup {None},
           NEW bready \in BOOLEAN,
           WriteChannel(aw, w, bready),
           awPend' = Dequeued(Accepted(awPend, wr_s_addrIn, aw), handle_write),
           wPend' = Dequeued(Accepted(wPend, wr_s_dataIn, w), handle_write)
    PROVE  PairedInOrder'
<1>. DEFINE left == Dequeued(wr_s_in, handle_write)
            e == Joined(aw, w)
            joins == Joins(aw, w)
<1>1. /\ wr_s_in \in Seq(WriteReq)
      /\ wr_s_addrIn \in WrAddr \cup {None}
      /\ wr_s_dataIn \in WData \cup {None}
      /\ handle_write \in BOOLEAN /\ joins \in BOOLEAN
      /\ handle_write => wr_s_in # << >>
    BY DEF TypeOK, handle_write, Joins
<1>0. wr_s_in \in Seq(WriteReq) /\ (handle_write => wr_s_in # << >>)
    BY <1>1
<1>2. None \notin WrAddr /\ None \notin WData
    BY NoneAssumption DEF WData
<1>3. \A r \in WriteReq : AddrOf[r] # None /\ WDataOf[r] # None
    BY <1>2 DEF AddrOf, WDataOf, WriteReq, WData
<1>4. joins => /\ e \in WriteReq
               /\ AddrOf[e] = AddrNow(aw) /\ WDataOf[e] = DataNow(w)
    <2>. SUFFICES ASSUME joins
                  PROVE  /\ e \in WriteReq
                         /\ AddrOf[e] = AddrNow(aw) /\ WDataOf[e] = DataNow(w)
        OBVIOUS
    <2>1. AddrNow(aw) \in WrAddr /\ DataNow(w) \in WData
        BY <1>1 DEF Joins, AddrNow, DataNow
    <2>2. PICK d \in Data, s \in BOOLEAN : DataNow(w) = [data |-> d, strb |-> s]
        BY <2>1 DEF WData
    <2>3. e = [addr |-> AddrNow(aw), data |-> d, strb |-> s]
        BY <2>2 DEF Joined
    <2>. QED BY <2>1, <2>2, <2>3 DEF WriteReq, AddrOf, WDataOf
<1>5. /\ wr_s_addrIn' = IF joins THEN None ELSE AddrNow(aw)
      /\ wr_s_dataIn' = IF joins THEN None ELSE DataNow(w)
      /\ wr_s_in' = IF joins THEN Append(left, e) ELSE left
    BY DEF WriteChannel
<1>6. /\ awPend = Image(AddrOf, wr_s_in) \o Half(wr_s_addrIn)
      /\ wPend = Image(WDataOf, wr_s_in) \o Half(wr_s_dataIn)
    BY PairedAsImages
<1>5a. left \in Seq(WriteReq)
    BY <1>0, HeadTailProperties DEF Dequeued
<1>. HIDE DEF e, joins, left
<1>7. awPend' = Image(AddrOf, wr_s_in') \o Half(wr_s_addrIn')
    <2>1. awPend' = Image(AddrOf, left) \o Half(AddrNow(aw))
        BY <1>0, <1>6, AcceptedAndPerformed DEF left, AddrNow, Now
    <2>2. CASE joins
        <3>1. AddrOf[e] # None /\ AddrOf[e] = AddrNow(aw) /\ e \in WriteReq
            BY <1>3, <1>4, <2>2
        <3>2. Image(AddrOf, left) \o Half(AddrOf[e])
                 = Image(AddrOf, Append(left, e)) \o Half(None)
            BY <1>5a, <3>1, HalvesJoined
        <3>. QED BY <1>5, <2>1, <2>2, <3>1, <3>2
    <2>3. CASE ~joins
        BY <1>5, <2>1, <2>3
    <2>. QED BY <2>2, <2>3
<1>8. wPend' = Image(WDataOf, wr_s_in') \o Half(wr_s_dataIn')
    <2>1. wPend' = Image(WDataOf, left) \o Half(DataNow(w))
        BY <1>0, <1>6, AcceptedAndPerformed DEF left, DataNow, Now
    <2>2. CASE joins
        <3>1. WDataOf[e] # None /\ WDataOf[e] = DataNow(w) /\ e \in WriteReq
            BY <1>3, <1>4, <2>2
        <3>2. Image(WDataOf, left) \o Half(WDataOf[e])
                 = Image(WDataOf, Append(left, e)) \o Half(None)
            BY <1>5a, <3>1, HalvesJoined
        <3>. QED BY <1>5, <2>1, <2>2, <3>1, <3>2
    <2>3. CASE ~joins
        BY <1>5, <2>1, <2>3
    <2>. QED BY <2>2, <2>3
<1>9. (PairedInOrder <=>
          /\ awPend = Image(AddrOf, wr_s_in) \o Half(wr_s_addrIn)
          /\ wPend = Image(WDataOf, wr_s_in) \o Half(wr_s_dataIn))'
    BY PairedAsImages, PTL
<1>. QED BY <1>7, <1>8, <1>9 DEF AddrOf, WDataOf, Image, Half

(***************************************************************************)
(* A clock edge leaves a grace period only to a job that was signalled: it *)
(* is started by the interrupt, and only a start, which finds the core in  *)
(* reset and so no grace period, forgets the interrupt.                    *)
(***************************************************************************)
LEMMA SignalledCycle ==
    ASSUME IInv, grace > 0 => signalled, UpdateGrace,
           signalled' = (SetsIntr \/ (signalled /\ ~handle_start))
    PROVE  (grace > 0 => signalled)'
<1>1. CASE SetsIntr
    BY <1>1
<1>2. CASE ~SetsIntr
    <2>. SUFFICES ASSUME grace' > 0 PROVE signalled'
        OBVIOUS
    <2>1. grace > 0
        BY <1>2 DEF UpdateGrace, graceDown, IInv, TypeOK
    <2>2. ~handle_start
        BY <2>1 DEF handle_start, IInv, RunInv
    <2>. QED BY <2>1, <2>2
<1>. QED BY <1>1, <1>2

LEMMA HistInductive == HistInv /\ [MCNext]_mcvars => HistInv'
<1>. SUFFICES ASSUME HistInv, [MCNext]_mcvars PROVE HistInv'
    OBVIOUS
<1>1. IInv'
    <2>1. MCCycle => AnyCycle
        <3>. SUFFICES ASSUME MCCycle PROVE AnyCycle
            OBVIOUS
        <3>1. PICK aw \in WrAddr \cup {None}, w \in WData \cup {None},
                   ar \in RdAddr \cup {None}, bready \in BOOLEAN,
                   rready \in BOOLEAN, reqRDY \in BOOLEAN :
                 Cycle(aw, w, bready, ar, rready, reqRDY)
            BY DEF MCCycle
        <3>. QED BY <3>1, Zenon DEF AnyCycle
    <2>2. MCReset => Reset
        BY DEF MCReset
    <2>3. UNCHANGED mcvars => UNCHANGED vars
        BY DEF mcvars
    <2>4. [Next]_vars
        BY <2>1, <2>2, <2>3 DEF MCNext, Next
    <2>. QED BY <2>4, Inductive DEF HistInv
<1>2. CASE MCCycle
    <2>1. PICK aw \in WrAddr \cup {None}, w \in WData \cup {None},
               ar \in RdAddr \cup {None}, bready \in BOOLEAN,
               rready \in BOOLEAN, reqRDY \in BOOLEAN :
             /\ Cycle(aw, w, bready, ar, rready, reqRDY)
             /\ awPend' = Dequeued(Accepted(awPend, wr_s_addrIn, aw), handle_write)
             /\ wPend' = Dequeued(Accepted(wPend, wr_s_dataIn, w), handle_write)
             /\ signalled' = (SetsIntr \/ (signalled /\ ~handle_start))
        BY <1>2 DEF MCCycle
    <2>2. PairedInOrder'
        BY <1>1, <2>1, PairedCycle DEF HistInv, IInv, Cycle
    <2>3. (grace > 0 => signalled)'
        BY <2>1, SignalledCycle DEF HistInv, Cycle
    <2>. QED BY <1>1, <2>2, <2>3 DEF HistInv
<1>3. CASE MCReset
    <2>1. /\ awPend' = << >> /\ wPend' = << >> /\ grace' = 0
          /\ wr_s_addrIn' = None /\ wr_s_dataIn' = None /\ wr_s_in' = << >>
        BY <1>3 DEF MCReset, Reset
    <2>2. PairedInOrder'
        BY <2>1 DEF PairedInOrder
    <2>. QED BY <1>1, <2>1, <2>2 DEF HistInv
<1>4. CASE UNCHANGED mcvars
    <2>1. /\ awPend' = awPend /\ wPend' = wPend /\ signalled' = signalled
          /\ grace' = grace /\ wr_s_addrIn' = wr_s_addrIn
          /\ wr_s_dataIn' = wr_s_dataIn /\ wr_s_in' = wr_s_in
        BY <1>4 DEF mcvars, vars, ctlvars, busvars
    <2>. QED BY <1>1, <2>1 DEF HistInv, PairedInOrder
<1>. QED BY <1>2, <1>3, <1>4 DEF MCNext

LEMMA HistInit == MCInit => HistInv
<1>. SUFFICES ASSUME MCInit PROVE HistInv
    OBVIOUS
<1>1. IInv
    BY ResetState, Zenon DEF MCInit, Init, IInv, TypeOK, RunInv
<1>2. PairedInOrder
    BY DEF MCInit, Init, PairedInOrder
<1>3. ~(grace > 0)
    BY DEF MCInit, Init
<1>. QED BY <1>1, <1>2, <1>3 DEF HistInv

(***************************************************************************)
(* However the two halves of the host's writes are spread over cycles and  *)
(* however deep the queue, the n-th address accepted is written with the   *)
(* n-th data accepted.                                                     *)
(***************************************************************************)
THEOREM WritesPaired == MCSpec => []PairedInOrder
<1>1. HistInv => PairedInOrder
    BY DEF HistInv
<1>. QED BY <1>1, HistInit, HistInductive, PTL DEF MCSpec

(***************************************************************************)
(* No job is ended whose interrupt was not raised: the host hears of every *)
(* job the controller ends.                                                *)
(***************************************************************************)
THEOREM EndSignalled == MCSpec => []EndedJobWasSignalled
<1>1. HistInv => EndedJobWasSignalled
    BY DEF HistInv, IInv, TypeOK, EndedJobWasSignalled, resetAll
<1>. QED BY <1>1, HistInit, HistInductive, PTL DEF MCSpec

-----------------------------------------------------------------------------
(***************************************************************************)
(* The jobs run on a PE (PEJob): the controller with the host program, the *)
(* core and the interconnect around it.  Two of the runs' properties are   *)
(* consequences of JobInv, which says where the one write and the one read *)
(* of the interconnect are, whose next step each of them is, and when the  *)
(* core of the PE runs.  Nothing in it depends on the pace of the host     *)
(* (Turnaround) or on which programs are paired.                           *)
(***************************************************************************)

(***************************************************************************)
(* A script's steps.                                                       *)
(***************************************************************************)
HostStep == {"load", "arg1", "arg2", "arg3", "start", "wait", "getret"}
CoreStep == {"init", "initPrint", "arg1", "arg2", "store", "rom", "text", "hex",
             "ret", "trap", "panic", "intr"}

Has(todo, step) == \E i \in 1 .. Len(todo) : todo[i] = step

\* A write is always followed by waiting; a step has its operand.
HostScriptOK ==
    /\ host \in [todo : Seq(HostStep), kind : DOMAIN HostScript \cup {None},
                 prog : DOMAIN Program \cup {None}, a : Nat \cup {None},
                 b : Nat \cup {None}, buf : Nat \cup {None}, ret : Nat \cup {None}]
    /\ \A i \in 1 .. Len(host.todo) : host.todo[i] = "start" =>
          i + 1 \in 1 .. Len(host.todo) /\ host.todo[i + 1] = "wait"
    /\ Has(host.todo, "arg1") => host.a \in Nat
    /\ Has(host.todo, "arg2") => host.b \in Nat
    /\ Has(host.todo, "arg3") => host.buf \in Nat

\* The interrupt is the last step, and only a program that returns a value
\* writes one.
CoreScriptOK ==
    /\ pe \in [todo : Seq(CoreStep), a : Nat, b : Nat]
    /\ loaded \in DOMAIN Program \cup {None}
    /\ \A i \in 1 .. Len(pe.todo) : pe.todo[i] = "intr" => i = Len(pe.todo)
    /\ Has(pe.todo, "ret") => loaded \in DOMAIN Program /\ Returns(loaded)

RegTypes ==
    /\ ctrl \in BOOLEAN /\ rst \in BOOLEAN
    /\ grace \in 0 .. GraceCycles
    /\ counter \in Nat
    /\ ret \in Nat \X Nat
    /\ args \in [0 .. 4 -> Nat]
    /\ irq \in BOOLEAN
    /\ RunInv

(***************************************************************************)
(* Where the one write of the interconnect is: offered to the controller,  *)
(* in its FIFO, or performed and to be answered.                           *)
(***************************************************************************)
NoWrite ==
    /\ wbus = None
    /\ wr_s_addrIn = None /\ wr_s_dataIn = None
    /\ wr_s_in = << >> /\ wr_s_out = 0

WriteOffered ==
    /\ wbus \in WTransfer /\ ~(wbus.awDone /\ wbus.wDone)
    /\ wr_s_addrIn = IF wbus.awDone THEN wbus.addr ELSE None
    /\ wr_s_dataIn = IF wbus.wDone THEN [data |-> wbus.data, strb |-> TRUE] ELSE None
    /\ wr_s_in = << >> /\ wr_s_out = 0

WriteQueued ==
    /\ wbus \in WTransfer /\ wbus.awDone /\ wbus.wDone
    /\ wr_s_addrIn = None /\ wr_s_dataIn = None
    /\ wr_s_in = <<[addr |-> wbus.addr, data |-> wbus.data, strb |-> TRUE]>>
    /\ wr_s_out = 0

WritePerformed ==
    /\ wbus \in WTransfer /\ wbus.awDone /\ wbus.wDone
    /\ wr_s_addrIn = None /\ wr_s_dataIn = None
    /\ wr_s_in = << >> /\ wr_s_out = 1

WritePlace == NoWrite \/ WriteOffered \/ WriteQueued \/ WritePerformed

NoRead == rbus = None /\ rd_s_in = << >> /\ rd_s_out = << >>

ReadOffered ==
    rbus \in RTransfer /\ ~rbus.arDone /\ rd_s_in = << >> /\ rd_s_out = << >>

ReadQueued ==
    /\ rbus \in RTransfer /\ rbus.arDone
    /\ rd_s_in = <<rbus.addr>> /\ rd_s_out = << >>

ReadPerformed ==
    /\ rbus \in RTransfer /\ rbus.arDone /\ rd_s_in = << >>
    /\ rd_s_out = <<rd_s_out[1]>> /\ rd_s_out[1] \in Nat

ReadPlace == NoRead \/ ReadOffered \/ ReadQueued \/ ReadPerformed

(***************************************************************************)
(* An access is the next step of the one who waits for it.                 *)
(***************************************************************************)
WriteOf(owner) == wbus # None /\ wbus.owner = owner
ReadOf(owner) == rbus # None /\ rbus.owner = owner

Owned ==
    /\ WriteOf("host") =>
          \/ wbus.addr = CTRL /\ wbus.data = 1 /\ HostAt("start")
          \/ wbus.addr = ArgReg[1] /\ HostAt("arg1")
          \/ wbus.addr = ArgReg[2] /\ HostAt("arg2")
          \/ wbus.addr = ArgReg[3] /\ HostAt("arg3")
    /\ ReadOf("host") => rbus.addr = RETL /\ HostAt("getret")
    /\ WriteOf("pe") =>
          /\ pe.todo # << >>
          /\ \/ wbus.addr = IAR /\ Head(pe.todo) = "intr"
             \/ wbus.addr = RETL /\ Head(pe.todo) \in {"ret", "trap", "panic"}
    /\ ReadOf("pe") =>
          /\ pe.todo # << >>
          /\ \/ rbus.addr = ArgReg[1] /\ Head(pe.todo) = "arg1"
             \/ rbus.addr = ArgReg[2] /\ Head(pe.todo) = "arg2"
             \/ rbus.addr = ArgReg[3] /\ Head(pe.todo) \in {"text", "hex"}

(***************************************************************************)
(* When the core runs a job: from the start until the interrupt the host   *)
(* waits; the core is silent in reset and, once its last write has been    *)
(* answered, in the grace period.                                          *)
(***************************************************************************)
CoreSilent == pe.todo = << >> /\ ~Waits("pe")
Acknowledging == grace = GraceCycles /\ WriteOf("pe") /\ WritePerformed /\ wbus.addr = IAR

Control ==
    /\ ~rst /\ grace = 0 => HostAt("wait") /\ ~irq
    /\ irq => HostAt("wait")
    /\ ctrl /\ rst => WriteOf("host") /\ WritePerformed /\ HostAt("start")
    /\ rst => CoreSilent
    /\ grace > 0 => CoreSilent \/ Acknowledging

JobInv ==
    /\ RegTypes
    /\ HostScriptOK /\ CoreScriptOK
    /\ WritePlace /\ ReadPlace
    /\ Owned
    /\ Control

-----------------------------------------------------------------------------
LEMMA Offsets ==
    /\ CTRL = 0 /\ RETL = 16 /\ IAR = 16384
    /\ ArgReg \in [0 .. 4 -> Nat]
    /\ ArgReg[1] = 48 /\ ArgReg[2] = 64 /\ ArgReg[3] = 80
BY DEF CTRL, RETL, IAR, ArgReg

\* The fields of a transfer.
LEMMA Transfers ==
    /\ wbus \in WTransfer =>
          /\ wbus # None
          /\ wbus.owner \in {"host", "pe"} /\ wbus.addr \in Nat /\ wbus.data \in Nat
          /\ wbus.awDone \in BOOLEAN /\ wbus.wDone \in BOOLEAN
          /\ wbus.addr # None /\ [data |-> wbus.data, strb |-> TRUE] # None
    /\ rbus \in RTransfer =>
          /\ rbus # None
          /\ rbus.owner \in {"host", "pe"} /\ rbus.addr \in Nat
          /\ rbus.arDone \in BOOLEAN /\ rbus.addr # None
<1>1. ASSUME wbus \in WTransfer
      PROVE  /\ wbus # None
             /\ wbus.owner \in {"host", "pe"} /\ wbus.addr \in Nat /\ wbus.data \in Nat
             /\ wbus.awDone \in BOOLEAN /\ wbus.wDone \in BOOLEAN
             /\ wbus.addr # None /\ [data |-> wbus.data, strb |-> TRUE] # None
    <2>1. wbus # None
        BY <1>1, NoneIsNothing
    <2>2. /\ wbus.owner \in {"host", "pe"} /\ wbus.addr \in Nat /\ wbus.data \in Nat
          /\ wbus.awDone \in BOOLEAN /\ wbus.wDone \in BOOLEAN
        BY <1>1 DEF WTransfer
    <2>3. [data |-> wbus.data, strb |-> TRUE] \in [data : Nat, strb : BOOLEAN]
        BY <2>2
    <2>4. None \notin Nat /\ None \notin [data : Nat, strb : BOOLEAN]
        BY NoneIsNothing
    <2>5. wbus.addr # None /\ [data |-> wbus.data, strb |-> TRUE] # None
        BY <2>2, <2>3, <2>4
    <2>. QED BY <2>1, <2>2, <2>5
<1>2. rbus \in RTransfer =>
          /\ rbus # None
          /\ rbus.owner \in {"host", "pe"} /\ rbus.addr \in Nat
          /\ rbus.arDone \in BOOLEAN /\ rbus.addr # None
    <2>1. rbus \in RTransfer => rbus # None
        BY NoneIsNothing
    <2>2. None \notin Nat
        BY NoneIsNothing
    <2>. QED BY <2>1, <2>2 DEF RTransfer
<1>. QED BY <1>1, <1>2

(***************************************************************************)
(* What a cycle does with the write of the interconnect.                   *)
(***************************************************************************)
AwOf(now) == IF wbus # None /\ now /\ ~wbus.awDone THEN wbus.addr ELSE None
WOf(now) == IF wbus # None /\ now /\ ~wbus.wDone
              THEN [data |-> wbus.data, strb |-> TRUE] ELSE None
ArOf(now) == IF rbus # None /\ now /\ ~rbus.arDone THEN rbus.addr ELSE None

AwDone(now) == wbus.awDone \/ (AwOf(now) # None /\ wr_s_addrIn = None)
WDone(now) == wbus.wDone \/ (WOf(now) # None /\ wr_s_dataIn = None)

WriteStep(awNow, wNow) ==
    /\ WriteChannel(AwOf(awNow), WOf(wNow), TRUE)
    /\ wbus' = IF wbus = None \/ wr_s_out > 0 THEN None
               ELSE [wbus EXCEPT !.awDone = AwDone(awNow), !.wDone = WDone(wNow)]

SameWrite ==
    wbus # None /\ wbus' # None /\ wbus'.owner = wbus.owner
    /\ wbus'.addr = wbus.addr /\ wbus'.data = wbus.data

LEMMA WriteMoves ==
    ASSUME WritePlace, NEW awNow \in BOOLEAN, NEW wNow \in BOOLEAN,
           WriteStep(awNow, wNow)
    PROVE  /\ WritePlace'
           /\ NoWrite => NoWrite' /\ ~handle_write
           /\ WriteOffered => (WriteOffered \/ WriteQueued)' /\ SameWrite
                              /\ ~handle_write
           /\ WriteQueued =>
                /\ WritePerformed' /\ SameWrite /\ handle_write
                /\ req = [addr |-> wbus.addr, data |-> wbus.data, strb |-> TRUE]
           /\ WritePerformed => NoWrite' /\ ~handle_write
           /\ wr_s_out > 0 <=> WritePerformed
<1>1. CASE NoWrite
    <2>1. AwOf(awNow) = None /\ WOf(wNow) = None
        BY <1>1 DEF NoWrite, AwOf, WOf
    <2>2. ~handle_write /\ ~Joins(None, None)
        BY <1>1 DEF NoWrite, handle_write, Joins, AddrNow, DataNow
    <2>3. NoWrite'
        BY <1>1, <2>1, <2>2 DEF NoWrite, WriteStep, WriteChannel, AddrNow,
           DataNow, Dequeued
    <2>. QED
        BY <1>1, <2>2, <2>3, Transfers DEF NoWrite, WriteOffered, WriteQueued,
           WritePerformed, WritePlace
<1>2. CASE WriteOffered
    <2>1. /\ wbus # None /\ wbus.addr # None
          /\ [data |-> wbus.data, strb |-> TRUE] # None
          /\ wbus.awDone \in BOOLEAN /\ wbus.wDone \in BOOLEAN
        BY <1>2, Transfers DEF WriteOffered
    <2>2. ~handle_write
        BY <1>2 DEF WriteOffered, handle_write
    <2>. DEFINE aw == AwDone(awNow)
                w == WDone(wNow)
    <2>3. AddrNow(AwOf(awNow)) = IF aw THEN wbus.addr ELSE None
        BY <1>2, <2>1 DEF WriteOffered, AddrNow, AwOf, AwDone
    <2>4. DataNow(WOf(wNow)) =
             IF w THEN [data |-> wbus.data, strb |-> TRUE] ELSE None
        BY <1>2, <2>1 DEF WriteOffered, DataNow, WOf, WDone
    <2>5. Joins(AwOf(awNow), WOf(wNow)) <=> aw /\ w
        BY <1>2, <2>1, <2>3, <2>4, FifoAssumption DEF WriteOffered, Joins
    <2>6. wbus' = [wbus EXCEPT !.awDone = aw, !.wDone = w]
        BY <1>2, <2>1 DEF WriteOffered, WriteStep
    <2>7. aw \in BOOLEAN /\ w \in BOOLEAN
        BY <2>1 DEF AwDone, WDone
    <2>. HIDE DEF aw, w
    <2>8. /\ wbus' \in WTransfer /\ wbus'.awDone = aw /\ wbus'.wDone = w
          /\ SameWrite
        <3>1. wbus' \in WTransfer /\ wbus'.awDone = aw /\ wbus'.wDone = w
            BY <1>2, <2>6, <2>7 DEF WriteOffered, WTransfer
        <3>2. wbus'.owner = wbus.owner /\ wbus'.addr = wbus.addr
              /\ wbus'.data = wbus.data
            BY <1>2, <2>6 DEF WriteOffered, WTransfer
        <3>3. wbus' # None
            BY <3>1, NoneIsNothing
        <3>. QED BY <2>1, <3>1, <3>2, <3>3 DEF SameWrite
    <2>9. wr_s_out' = 0
        BY <1>2, <2>2 DEF WriteStep, WriteChannel, WriteOffered
    <2>12. ~NoWrite /\ ~WriteQueued /\ ~WritePerformed /\ ~(wr_s_out > 0)
        BY <1>2, <2>1 DEF NoWrite, WriteQueued, WritePerformed, WriteOffered
    <2>10. CASE aw /\ w
        <3>1. wr_s_addrIn' = None /\ wr_s_dataIn' = None
            BY <2>5, <2>10 DEF WriteStep, WriteChannel
        <3>2. Joined(AwOf(awNow), WOf(wNow))
                = [addr |-> wbus.addr, data |-> wbus.data, strb |-> TRUE]
            BY <2>3, <2>4, <2>10 DEF Joined
        <3>3. wr_s_in' = <<[addr |-> wbus.addr, data |-> wbus.data, strb |-> TRUE]>>
            <4>1. wr_s_in' = Append(<< >>, Joined(AwOf(awNow), WOf(wNow)))
                BY <1>2, <2>2, <2>5, <2>10
                   DEF WriteStep, WriteChannel, Dequeued, WriteOffered
            <4>. QED BY <3>2, <4>1
        <3>4. wr_s_in' = <<[addr |-> wbus'.addr, data |-> wbus'.data, strb |-> TRUE]>>
            BY <2>8, <3>3 DEF SameWrite
        <3>5. WriteQueued'
            BY <2>8, <2>9, <2>10, <3>1, <3>4 DEF WriteQueued
        <3>. QED BY <2>2, <2>8, <2>12, <3>5 DEF WritePlace
    <2>11. CASE ~(aw /\ w)
        <3>1. /\ wr_s_addrIn' = IF aw THEN wbus.addr ELSE None
              /\ wr_s_dataIn' = IF w THEN [data |-> wbus.data, strb |-> TRUE] ELSE None
              /\ wr_s_in' = << >>
            BY <1>2, <2>2, <2>3, <2>4, <2>5, <2>11
               DEF WriteStep, WriteChannel, Dequeued, WriteOffered
        <3>2. WriteOffered'
            BY <2>8, <2>9, <2>11, <3>1 DEF WriteOffered, SameWrite
        <3>. QED BY <2>2, <2>8, <2>12, <3>2 DEF WritePlace
    <2>. QED BY <2>10, <2>11
<1>3. CASE WriteQueued \/ WritePerformed
    <2>1. wbus # None /\ wbus.addr # None /\ wbus.awDone /\ wbus.wDone
        BY <1>3, Transfers DEF WriteQueued, WritePerformed
    <2>2. /\ AwOf(awNow) = None /\ WOf(wNow) = None
          /\ ~Joins(None, None)
          /\ AddrNow(None) = None /\ DataNow(None) = None
        BY <1>3, <2>1 DEF AwOf, WOf, Joins, AddrNow, DataNow, WriteQueued,
           WritePerformed
    <2>3. CASE WriteQueued
        <3>1. handle_write
            BY <2>3, FifoAssumption DEF WriteQueued, handle_write
        <3>2. /\ req = [addr |-> wbus.addr, data |-> wbus.data, strb |-> TRUE]
              /\ Tail(wr_s_in) = << >>
            BY <2>3 DEF WriteQueued, req
        <3>3. /\ wbus' = [wbus EXCEPT !.awDone = AwDone(awNow), !.wDone = WDone(wNow)]
              /\ AwDone(awNow) /\ WDone(wNow)
            BY <2>1, <2>3 DEF WriteStep, WriteQueued, AwDone, WDone
        <3>4. /\ wbus' \in WTransfer /\ wbus'.awDone /\ wbus'.wDone
              /\ wbus'.owner = wbus.owner /\ wbus'.addr = wbus.addr
              /\ wbus'.data = wbus.data
            BY <2>3, <3>3 DEF WriteQueued, WTransfer
        <3>5. SameWrite
            BY <2>1, <3>4, NoneIsNothing DEF SameWrite
        <3>6. WritePerformed'
            BY <2>2, <2>3, <3>1, <3>2, <3>4 DEF WritePerformed, WriteStep,
               WriteChannel, Dequeued, WriteQueued
        <3>. QED BY <2>1, <2>3, <3>1, <3>2, <3>5, <3>6 DEF WritePlace, NoWrite,
                    WriteQueued, WritePerformed, WriteOffered
    <2>4. CASE WritePerformed
        <3>1. ~handle_write
            BY <2>4 DEF WritePerformed, handle_write
        <3>2. NoWrite'
            BY <2>1, <2>2, <2>4, <3>1 DEF NoWrite, WriteStep, WriteChannel, Dequeued,
               WritePerformed
        <3>. QED BY <2>1, <2>4, <3>1, <3>2 DEF WritePlace, NoWrite, WriteQueued,
                    WritePerformed, WriteOffered
    <2>. QED BY <1>3, <2>3, <2>4
<1>. QED BY <1>1, <1>2, <1>3 DEF WritePlace

(***************************************************************************)
(* What it does with the read of the interconnect.                         *)
(***************************************************************************)
LEMMA ReadsNat ==
    ASSUME RegTypes, NEW a
    PROVE  ReadValue(a) \in Nat
<1>1. ret[1] \in Nat /\ ret[2] \in Nat /\ \A i \in 0 .. 4 : args[i] \in Nat
    BY DEF RegTypes
<1>2. counter % WordSize \in Nat /\ counter \div WordSize \in Nat
    <2>1. counter \in Nat /\ WordSize \in Nat /\ WordSize > 0
        BY WordAssumption DEF RegTypes
    <2>2. counter % WordSize \in Nat
        BY <2>1
    <2>3. counter \div WordSize \in Nat
        BY <2>1
    <2>. QED BY <2>2, <2>3
<1>3. ASSUME NEW o, o \in {ArgReg[i] : i \in 0 .. 4}
      PROVE  args[CHOOSE i \in 0 .. 4 : ArgReg[i] = o] \in Nat
    BY <1>1, <1>3
<1>4. (IF ctrl THEN 1 ELSE 0) \in Nat
    OBVIOUS
<1>. QED BY <1>1, <1>2, <1>3, <1>4 DEF ReadValue

ArDone(now) == rbus.arDone \/ (ArOf(now) # None /\ Len(rd_s_in) < FifoDepth)

ReadStep(arNow) ==
    /\ ReadChannel(ArOf(arNow), TRUE)
    /\ rbus' = IF rbus = None \/ rd_s_out # << >> THEN None
               ELSE [rbus EXCEPT !.arDone = ArDone(arNow)]

SameRead ==
    rbus # None /\ rbus' # None /\ rbus'.owner = rbus.owner /\ rbus'.addr = rbus.addr

LEMMA ReadMoves ==
    ASSUME RegTypes, ReadPlace, NEW arNow \in BOOLEAN, ReadStep(arNow)
    PROVE  /\ ReadPlace'
           /\ NoRead => NoRead'
           /\ ReadOffered => (ReadOffered \/ ReadQueued)' /\ SameRead
           /\ ReadQueued => /\ ReadPerformed' /\ SameRead
                            /\ rd_s_out' = <<ReadValue(rbus.addr)>>
           /\ ReadPerformed => NoRead'
           /\ rd_s_out # << >> <=> ReadPerformed
<1>1. CASE NoRead
    <2>1. ArOf(arNow) = None /\ ~handle_read
        BY <1>1 DEF NoRead, ArOf, handle_read
    <2>2. NoRead'
        BY <1>1, <2>1 DEF NoRead, ReadStep, ReadChannel, Dequeued
    <2>. QED
        BY <1>1, <2>2, Transfers DEF NoRead, ReadOffered, ReadQueued,
           ReadPerformed, ReadPlace
<1>2. CASE ReadOffered
    <2>1. rbus # None /\ rbus.addr # None /\ rbus.arDone \in BOOLEAN
        BY <1>2, Transfers DEF ReadOffered
    <2>2. ~handle_read /\ Len(rd_s_in) < FifoDepth
        BY <1>2, FifoAssumption DEF ReadOffered, handle_read
    <2>. DEFINE ar == ArDone(arNow)
    <2>3. ar <=> ArOf(arNow) # None
        BY <1>2, <2>1, <2>2 DEF ReadOffered, ArOf, ArDone
    <2>4. ar \in BOOLEAN
        BY <2>1 DEF ArDone
    <2>5. rbus' = [rbus EXCEPT !.arDone = ar]
        BY <1>2, <2>1 DEF ReadOffered, ReadStep
    <2>. HIDE DEF ar
    <2>6. rbus' \in RTransfer /\ rbus'.arDone = ar /\ SameRead
        <3>1. /\ rbus' \in RTransfer /\ rbus'.arDone = ar
              /\ rbus'.owner = rbus.owner /\ rbus'.addr = rbus.addr
            BY <1>2, <2>4, <2>5 DEF ReadOffered, RTransfer
        <3>. QED BY <2>1, <3>1, NoneIsNothing DEF SameRead
    <2>7. rd_s_out' = << >>
        BY <1>2, <2>2 DEF ReadStep, ReadChannel, ReadOffered, Dequeued
    <2>8. ~NoRead /\ ~ReadQueued /\ ~ReadPerformed /\ rd_s_out = << >>
        BY <1>2, <2>1 DEF NoRead, ReadQueued, ReadPerformed, ReadOffered
    <2>9. CASE ar
        <3>1. ArOf(arNow) = rbus.addr
            BY <2>3, <2>9 DEF ArOf
        <3>2. rd_s_in' = Append(<< >>, rbus.addr)
            BY <1>2, <2>2, <2>3, <2>9, <3>1
               DEF ReadStep, ReadChannel, Dequeued, ReadOffered
        <3>3. ReadQueued'
            BY <2>6, <2>7, <2>9, <3>2 DEF ReadQueued, SameRead
        <3>. QED BY <2>6, <2>8, <3>3 DEF ReadPlace
    <2>10. CASE ~ar
        <3>1. rd_s_in' = << >>
            BY <1>2, <2>2, <2>3, <2>10 DEF ReadStep, ReadChannel, Dequeued, ReadOffered
        <3>2. ReadOffered'
            BY <2>6, <2>7, <2>10, <3>1 DEF ReadOffered
        <3>. QED BY <2>6, <2>8, <3>2 DEF ReadPlace
    <2>. QED BY <2>9, <2>10
<1>3. CASE ReadQueued
    <2>1. /\ rbus # None /\ ArOf(arNow) = None /\ ArDone(arNow) = TRUE
          /\ rbus.arDone
        BY <1>3, Transfers DEF ReadQueued, ArOf, ArDone
    <2>2. handle_read /\ Head(rd_s_in) = rbus.addr /\ Tail(rd_s_in) = << >>
        BY <1>3, FifoAssumption DEF ReadQueued, handle_read
    <2>3. rbus' = [rbus EXCEPT !.arDone = TRUE]
        BY <1>3, <2>1 DEF ReadQueued, ReadStep
    <2>4. /\ rbus' \in RTransfer /\ rbus'.arDone
          /\ rbus'.owner = rbus.owner /\ rbus'.addr = rbus.addr
        BY <1>3, <2>3 DEF ReadQueued, RTransfer
    <2>5. SameRead
        BY <2>1, <2>4, NoneIsNothing DEF SameRead
    <2>6. rd_s_in' = << >>
        BY <2>1, <2>2 DEF ReadStep, ReadChannel, Dequeued
    <2>7. rd_s_out' = <<ReadValue(rbus.addr)>>
        <3>. DEFINE v == ReadValue(rbus.addr)
        <3>1. rd_s_out' = Append(<< >>, v)
            BY <1>3, <2>2 DEF ReadStep, ReadChannel, Dequeued, ReadQueued
        <3>. HIDE DEF v
        <3>2. rd_s_out' = <<v>>
            BY <3>1
        <3>. QED BY <3>2 DEF v
    <2>8. ReadPerformed'
        <3>. DEFINE v == ReadValue(rbus.addr)
        <3>1. v \in Nat
            BY ReadsNat
        <3>2. rd_s_out' = <<v>>
            BY <2>7
        <3>. HIDE DEF v
        <3>. QED BY <2>4, <2>6, <3>1, <3>2 DEF ReadPerformed
    <2>9. ~NoRead /\ ~ReadOffered /\ ~ReadPerformed /\ rd_s_out = << >>
        BY <1>3, <2>1 DEF NoRead, ReadQueued, ReadPerformed, ReadOffered
    <2>. QED BY <2>5, <2>7, <2>8, <2>9 DEF ReadPlace
<1>4. CASE ReadPerformed
    <2>1. /\ rbus # None /\ ArOf(arNow) = None /\ rbus.arDone
        BY <1>4, Transfers DEF ReadPerformed, ArOf
    <2>2. ~handle_read /\ rd_s_out # << >> /\ Tail(rd_s_out) = << >>
        <3>1. rd_s_out = <<rd_s_out[1]>>
            BY <1>4 DEF ReadPerformed
        <3>. DEFINE v == rd_s_out[1]
        <3>2. rd_s_out = <<v>>
            BY <3>1
        <3>. HIDE DEF v
        <3>3. rd_s_out # << >> /\ Tail(rd_s_out) = << >>
            BY <3>2
        <3>. QED BY <1>4, <3>3 DEF ReadPerformed, handle_read
    <2>3. NoRead'
        BY <1>4, <2>1, <2>2 DEF NoRead, ReadStep, ReadChannel, Dequeued, ReadPerformed
    <2>4. ~NoRead /\ ~ReadOffered /\ ~ReadQueued
        BY <1>4, <2>1, <2>2 DEF NoRead, ReadQueued, ReadPerformed, ReadOffered
    <2>. QED BY <1>4, <2>2, <2>3, <2>4 DEF ReadPlace
<1>. QED BY <1>1, <1>2, <1>3, <1>4 DEF ReadPlace

(***************************************************************************)
(* Scripts.                                                                *)
(***************************************************************************)
LEMMA ScriptTail ==
    ASSUME NEW S, NEW s \in Seq(S), s # << >>
    PROVE  /\ Len(s) \in Nat \ {0} /\ Head(s) = s[1]
           /\ Tail(s) \in Seq(S) /\ Len(Tail(s)) = Len(s) - 1
           /\ \A i \in 1 .. Len(Tail(s)) : Tail(s)[i] = s[i + 1]
           /\ \A x : Has(Tail(s), x) => Has(s, x)
           /\ Has(s, Head(s))
<1>1. /\ Len(s) \in Nat \ {0} /\ Head(s) = s[1]
      /\ Tail(s) \in Seq(S) /\ Len(Tail(s)) = Len(s) - 1
      /\ \A i \in 1 .. Len(Tail(s)) : Tail(s)[i] = s[i + 1]
    BY HeadTailProperties, EmptySeq
<1>2. \A x : Has(Tail(s), x) => Has(s, x)
    <2>. SUFFICES ASSUME NEW x, NEW i \in 1 .. Len(Tail(s)), Tail(s)[i] = x
                  PROVE  Has(s, x)
        BY DEF Has
    <2>1. i + 1 \in 1 .. Len(s) /\ s[i + 1] = x
        BY <1>1
    <2>. QED BY <2>1 DEF Has
<1>3. Has(s, Head(s))
    BY <1>1 DEF Has
<1>. QED BY <1>1, <1>2, <1>3

HostAdvances ==
    /\ host.todo # << >>
    /\ host'.todo = Tail(host.todo)
    /\ host'.kind = host.kind /\ host'.prog = host.prog
    /\ host'.a = host.a /\ host'.b = host.b /\ host'.buf = host.buf

LEMMA HostTail ==
    ASSUME HostScriptOK, NEW v \in Nat, host.todo # << >>,
           \/ host' = [host EXCEPT !.todo = Tail(@)]
           \/ host' = HostNext(v)
    PROVE  /\ HostScriptOK' /\ HostAdvances
           /\ HostAt("start") => HostAt("wait")'
<1>1. /\ host.todo \in Seq(HostStep)
      /\ host.ret \in Nat \cup {None}
    BY DEF HostScriptOK
<1>2. Tail(host.todo) \in Seq(HostStep)
    BY <1>1, ScriptTail
<1>3. /\ host' \in [todo : Seq(HostStep), kind : DOMAIN HostScript \cup {None},
                    prog : DOMAIN Program \cup {None}, a : Nat \cup {None},
                    b : Nat \cup {None}, buf : Nat \cup {None}, ret : Nat \cup {None}]
      /\ HostAdvances
    BY <1>1, <1>2 DEF HostScriptOK, HostNext, HostAdvances
<1>. DEFINE s == host.todo
<1>4. /\ Len(s) \in Nat \ {0} /\ Head(s) = s[1]
      /\ Tail(s) \in Seq(HostStep) /\ Len(Tail(s)) = Len(s) - 1
      /\ \A i \in 1 .. Len(Tail(s)) : Tail(s)[i] = s[i + 1]
      /\ \A x : Has(Tail(s), x) => Has(s, x)
    BY <1>1, ScriptTail
<1>5. \A i \in 1 .. Len(s) : s[i] = "start" =>
          i + 1 \in 1 .. Len(s) /\ s[i + 1] = "wait"
    BY DEF HostScriptOK
<1>6. /\ Has(s, "arg1") => host.a \in Nat
      /\ Has(s, "arg2") => host.b \in Nat
      /\ Has(s, "arg3") => host.buf \in Nat
    BY DEF HostScriptOK
<1>7. s # << >>
    OBVIOUS
<1>8. host'.todo = Tail(s)
    BY <1>3 DEF HostAdvances
<1>9. HostAt("start") => Head(s) = "start"
    BY DEF HostAt
<1>. HIDE DEF s
<1>10. \A i \in 1 .. Len(Tail(s)) : Tail(s)[i] = "start" =>
          i + 1 \in 1 .. Len(Tail(s)) /\ Tail(s)[i + 1] = "wait"
    <2>. SUFFICES ASSUME NEW i \in 1 .. Len(Tail(s)), Tail(s)[i] = "start"
                  PROVE  i + 1 \in 1 .. Len(Tail(s)) /\ Tail(s)[i + 1] = "wait"
        OBVIOUS
    <2>1. i + 1 \in 1 .. Len(s) /\ s[i + 1] = "start"
        BY <1>4
    <2>2. i + 2 \in 1 .. Len(s) /\ s[i + 2] = "wait"
        <3>1. i + 1 + 1 \in 1 .. Len(s) /\ s[i + 1 + 1] = "wait"
            BY <1>5, <2>1
        <3>2. i + 1 + 1 = i + 2
            BY <1>4
        <3>. QED BY <3>1, <3>2
    <2>3. i + 1 \in 1 .. Len(Tail(s))
        BY <1>4, <2>2
    <2>. QED BY <1>4, <2>2, <2>3
<1>11. HostScriptOK'
    <2>1. /\ Has(Tail(s), "arg1") => Has(s, "arg1")
          /\ Has(Tail(s), "arg2") => Has(s, "arg2")
          /\ Has(Tail(s), "arg3") => Has(s, "arg3")
        BY <1>4
    <2>2. /\ Has(host'.todo, "arg1") => host'.a \in Nat
          /\ Has(host'.todo, "arg2") => host'.b \in Nat
          /\ Has(host'.todo, "arg3") => host'.buf \in Nat
        BY <1>3, <1>6, <1>8, <2>1 DEF HostAdvances
    <2>3. \A i \in 1 .. Len(host'.todo) : host'.todo[i] = "start" =>
             i + 1 \in 1 .. Len(host'.todo) /\ host'.todo[i + 1] = "wait"
        BY <1>8, <1>10
    <2>. QED BY <1>3, <2>2, <2>3 DEF HostScriptOK
<1>12. ASSUME HostAt("start") PROVE HostAt("wait")'
    <2>1. 1 + 1 \in 1 .. Len(s) /\ s[1 + 1] = "wait"
        <3>1. 1 \in 1 .. Len(s) /\ s[1] = "start"
            BY <1>4, <1>9, <1>12
        <3>. QED BY <1>5, <3>1
    <2>2. Len(Tail(s)) > 0 /\ Tail(s)[1] = "wait"
        BY <1>4, <2>1
    <2>3. Tail(s) # << >>
        BY <2>2
    <2>4. Head(Tail(s)) = Tail(s)[1]
        BY <1>4, <2>3, HeadTailProperties
    <2>. QED BY <1>8, <2>2, <2>3, <2>4 DEF HostAt
<1>. QED BY <1>3, <1>11, <1>12

\* The scripts as they are given.
LEMMA HostScripts ==
    ASSUME NEW k \in DOMAIN HostScript
    PROVE  LET s == HostScript[k]
           IN  /\ s \in Seq(HostStep)
               /\ \A i \in 1 .. Len(s) : s[i] = "start" =>
                     i + 1 \in 1 .. Len(s) /\ s[i + 1] = "wait"
               /\ Has(s, "arg1") \/ Has(s, "arg2") => k # "template"
               /\ Has(s, "arg3") => k = "cpp"
<1>1. CASE k = "template"
    <2>1. HostScript[k] = <<"load", "start", "wait", "getret">>
        BY <1>1 DEF HostScript, host_template
    <2>2. HostScript[k] \in Seq(HostStep)
        BY <2>1 DEF HostStep
    <2>. QED BY <1>1, <2>1, <2>2 DEF Has
<1>2. CASE k = "c"
    <2>1. HostScript[k] = <<"load", "arg1", "arg2", "start", "wait", "getret">>
        BY <1>2 DEF HostScript, simple_sum_host_c
    <2>2. HostScript[k] \in Seq(HostStep)
        BY <2>1 DEF HostStep
    <2>. QED BY <1>2, <2>1, <2>2 DEF Has
<1>3. CASE k = "cpp"
    <2>1. HostScript[k] = <<"load", "arg1", "arg2", "arg3", "start", "wait", "getret">>
        BY <1>3 DEF HostScript, simple_sum_host_cpp
    <2>2. HostScript[k] \in Seq(HostStep)
        BY <2>1 DEF HostStep
    <2>. QED BY <1>3, <2>1, <2>2 DEF Has
<1>. QED BY <1>1, <1>2, <1>3 DEF HostScript

LEMMA CoreScripts ==
    ASSUME NEW p \in DOMAIN Program
    PROVE  /\ Program[p] \in Seq(CoreStep)
           /\ \A i \in 1 .. Len(Program[p]) :
                 Program[p][i] = "intr" => i = Len(Program[p])
           /\ Has(Program[p], "ret") => Returns(p)
<1>1. CASE p = "simple_sum"
    <2>1. Program[p] = <<"arg1", "arg2", "ret", "intr">>
        BY <1>1 DEF Program, simple_sum
    <2>2. Program[p] \in Seq(CoreStep)
        BY <2>1 DEF CoreStep
    <2>. QED BY <1>1, <2>1, <2>2 DEF Has, Returns
<1>2. CASE p = "localsum"
    <2>1. Program[p] = <<"init", "store", "ret", "intr">>
        BY <1>2 DEF Program, localsum
    <2>2. Program[p] \in Seq(CoreStep)
        BY <2>1 DEF CoreStep
    <2>. QED BY <1>2, <2>1, <2>2 DEF Has, Returns
<1>3. CASE p = "readargs"
    <2>1. Program[p] = <<"init", "ret", "text", "intr">>
        BY <1>3 DEF Program, readargs
    <2>2. Program[p] \in Seq(CoreStep)
        BY <2>1 DEF CoreStep
    <2>. QED BY <1>3, <2>1, <2>2 DEF Has, Returns
<1>4. CASE p = "read_dm"
    <2>1. Program[p] = <<"init", "initPrint", "arg1", "arg2",
                       "text", "hex", "rom", "hex", "rom", "ret", "intr">>
        BY <1>4 DEF Program, read_dm
    <2>2. Program[p] \in Seq(CoreStep)
        BY <2>1 DEF CoreStep
    <2>. QED BY <1>4, <2>1, <2>2 DEF Has, Returns
<1>5. CASE p = "rv_template"
    <2>1. Program[p] = <<"intr">>
        BY <1>5 DEF Program, rv_template
    <2>2. Program[p] \in Seq(CoreStep)
        BY <2>1 DEF CoreStep
    <2>. QED BY <1>5, <2>1, <2>2 DEF Has, Returns
<1>. QED BY <1>1, <1>2, <1>3, <1>4, <1>5 DEF Program

\* The value of a write of the core is a word.
LEMMA Words ==
    /\ 1 \in Nat /\ TrapCode \in Nat /\ PanicCode \in Nat /\ RomWord \in Nat
    /\ \A b \in Buf : b \in Nat
    /\ \A x \in Args : x[1] \in Nat /\ x[2] \in Nat
    /\ \A p \in DOMAIN Program, a, b \in Nat : Returns(p) => ReturnValue(p, a, b) \in Nat
<1>1. \A d \in Data : d \in Nat
    BY WordAssumption
<1>2. /\ TrapCode \in Nat /\ PanicCode \in Nat /\ RomWord \in Nat
      /\ \A b \in Buf : b \in Nat
      /\ \A x \in Args : x[1] \in Nat /\ x[2] \in Nat
    BY <1>1, JobAssumption
<1>3. ASSUME NEW p \in DOMAIN Program, NEW a \in Nat, NEW b \in Nat, Returns(p)
      PROVE  ReturnValue(p, a, b) \in Nat
    <2>1. p \in {"simple_sum", "localsum", "readargs", "read_dm"}
        BY <1>3 DEF Program, Returns
    <2>. QED BY <1>2, <2>1 DEF ReturnValue
<1>. QED BY <1>2, <1>3

(***************************************************************************)
(* The core goes on with what is left of its script, or with another one   *)
(* that returns no value of its own.                                       *)
(***************************************************************************)
LEMMA CoreGoesOn ==
    ASSUME CoreScriptOK, NEW t,
           \/ t = Tail(pe.todo) /\ pe.todo # << >>
           \/ t \in {<< >>, <<"trap", "intr">>, <<"panic", "intr">>},
           pe' \in [todo : {t}, a : Nat, b : Nat], loaded' = loaded
    PROVE  CoreScriptOK'
<1>. DEFINE s == pe.todo
<1>1. /\ s \in Seq(CoreStep)
      /\ \A i \in 1 .. Len(s) : s[i] = "intr" => i = Len(s)
    BY DEF CoreScriptOK
<1>2. /\ t \in Seq(CoreStep)
      /\ \A i \in 1 .. Len(t) : t[i] = "intr" => i = Len(t)
      /\ Has(t, "ret") => Has(s, "ret")
    <2>1. CASE t = Tail(s) /\ s # << >>
        <3>. HIDE DEF s
        <3>1. /\ t \in Seq(CoreStep) /\ Len(t) = Len(s) - 1 /\ Len(s) \in Nat \ {0}
              /\ \A i \in 1 .. Len(t) : t[i] = s[i + 1]
              /\ \A x : Has(t, x) => Has(s, x)
            BY <1>1, <2>1, ScriptTail
        <3>2. \A i \in 1 .. Len(t) : i + 1 \in 1 .. Len(s) /\ t[i] = s[i + 1]
            BY <3>1
        <3>3. \A i \in 1 .. Len(t) : t[i] = "intr" => i + 1 = Len(s)
            BY <1>1, <3>2
        <3>4. \A i \in 1 .. Len(t) : t[i] = "intr" => i = Len(t)
            BY <3>1, <3>3
        <3>. QED BY <3>1, <3>4
    <2>2. CASE t = << >>
        BY <2>2 DEF Has
    <2>3. CASE t = <<"trap", "intr">>
        BY <2>3 DEF Has, CoreStep
    <2>4. CASE t = <<"panic", "intr">>
        BY <2>4 DEF Has, CoreStep
    <2>. QED BY <2>1, <2>2, <2>3, <2>4
<1>3. pe' \in [todo : Seq(CoreStep), a : Nat, b : Nat]
    BY <1>2 DEF CoreScriptOK
<1>. HIDE DEF s
<1>4. /\ \A i \in 1 .. Len(pe'.todo) : pe'.todo[i] = "intr" => i = Len(pe'.todo)
      /\ Has(pe'.todo, "ret") => Has(s, "ret")
    <2>1. pe'.todo = t
        OBVIOUS
    <2>. QED BY <1>2, <2>1
<1>. QED BY <1>3, <1>4 DEF CoreScriptOK, s

LEMMA CoreAnswered ==
    ASSUME CoreScriptOK, NEW v \in Nat, pe.todo # << >>,
           Head(pe.todo) \in {"arg1", "arg2", "ret", "trap", "panic", "intr",
                              "text", "hex"},
           pe' = PENext(v), loaded' = loaded
    PROVE  /\ CoreScriptOK'
           /\ Head(pe.todo) = "intr" => pe'.todo = << >>
<1>1. pe \in [todo : Seq(CoreStep), a : Nat, b : Nat]
    BY DEF CoreScriptOK
<1>. DEFINE step == Head(pe.todo)
<1>3. CASE step = "arg1"
    <2>1. pe' = [pe EXCEPT !.todo = Tail(@), !.a = v]
        BY <1>3 DEF PENext
    <2>2. pe' \in [todo : {Tail(pe.todo)}, a : Nat, b : Nat]
        BY <1>1, <2>1
    <2>3. CoreScriptOK'
        BY <2>2, CoreGoesOn
    <2>. QED BY <1>3, <2>2, <2>3
<1>4. CASE step = "arg2"
    <2>1. pe' = [pe EXCEPT !.todo = Tail(@), !.b = v]
        BY <1>4 DEF PENext
    <2>2. pe' \in [todo : {Tail(pe.todo)}, a : Nat, b : Nat]
        BY <1>1, <2>1
    <2>3. CoreScriptOK'
        BY <2>2, CoreGoesOn
    <2>. QED BY <1>4, <2>2, <2>3
<1>5. CASE step = "intr"
    <2>1. pe' = [pe EXCEPT !.todo = << >>]
        BY <1>5 DEF PENext, setIntr
    <2>2. pe' \in [todo : {<< >>}, a : Nat, b : Nat]
        BY <1>1, <2>1
    <2>3. CoreScriptOK'
        BY <2>2, CoreGoesOn
    <2>. QED BY <1>5, <2>2, <2>3
<1>6. CASE step \in {"ret", "trap", "panic"}
    <2>1. pe' = [pe EXCEPT !.todo = Tail(@)]
        BY <1>6 DEF PENext
    <2>2. pe' \in [todo : {Tail(pe.todo)}, a : Nat, b : Nat]
        BY <1>1, <2>1
    <2>3. CoreScriptOK'
        BY <2>2, CoreGoesOn
    <2>. QED BY <1>6, <2>2, <2>3
<1>7. CASE step \in {"text", "hex"}
    <2>1. pe' = pe
        BY <1>7 DEF PENext
    <2>. QED BY <1>7, <2>1 DEF CoreScriptOK
<1>. QED BY <1>3, <1>4, <1>5, <1>6, <1>7

-----------------------------------------------------------------------------
(***************************************************************************)
(* What a write that is performed can be: its register tells whose it is,  *)
(* and so what its owner is doing.                                         *)
(***************************************************************************)
ArgStep == [i \in 1 .. 3 |-> CASE i = 1 -> "arg1" [] i = 2 -> "arg2" [] i = 3 -> "arg3"]

Effects ==
    /\ handle_write => /\ WriteQueued /\ req.data = wbus.data /\ wbus.data \in Nat
                       /\ WriteOf("host") \/ WriteOf("pe")
    /\ \A o : Writes(o) => o = wbus.addr
    /\ Writes(CTRL) => WriteOf("host") /\ HostAt("start") /\ wbus.data = 1
    /\ Writes(IAR) \/ Writes(RETL) =>
          WriteOf("pe") /\ ~rst /\ grace = 0 /\ HostAt("wait") /\ ~irq
    /\ ~Writes(RETH)
    /\ \A i \in 0 .. 4 : Writes(ArgReg[i]) =>
          WriteOf("host") /\ i \in 1 .. 3 /\ HostAt(ArgStep[i])

LEMMA WriteEffects == JobInv => Effects
<1>. SUFFICES ASSUME JobInv PROVE Effects
    OBVIOUS
<1>1. CASE ~handle_write
    BY <1>1, Offsets DEF Effects, Writes
<1>2. CASE handle_write
    <2>1. WriteQueued
        BY <1>2 DEF JobInv, WritePlace, NoWrite, WriteOffered, WritePerformed,
           handle_write
    <2>2. /\ wbus # None /\ wbus.owner \in {"host", "pe"}
          /\ wbus.addr \in Nat /\ wbus.data \in Nat
        BY <2>1, Transfers DEF WriteQueued
    <2>3. req = [addr |-> wbus.addr, data |-> wbus.data, strb |-> TRUE]
        BY <2>1 DEF WriteQueued, req
    <2>4. WriteOf("host") =>
             \/ wbus.addr = 0 /\ wbus.data = 1 /\ HostAt("start")
             \/ wbus.addr = 48 /\ HostAt("arg1")
             \/ wbus.addr = 64 /\ HostAt("arg2")
             \/ wbus.addr = 80 /\ HostAt("arg3")
        BY Offsets DEF JobInv, Owned
    <2>5. WriteOf("pe") => wbus.addr = 16384 \/ wbus.addr = 16
        BY Offsets DEF JobInv, Owned
    <2>6. WriteOf("host") \/ WriteOf("pe")
        BY <2>2 DEF WriteOf
    <2>7. wbus.addr \in {0, 16, 48, 64, 80, 16384}
        BY <2>4, <2>5, <2>6
    <2>8. WriteOffset(wbus.addr) = wbus.addr
        BY <2>7 DEF WriteOffset
    <2>9. \A o : Writes(o) => o = wbus.addr
        BY <2>3, <2>8 DEF Writes
    <2>10. WriteOf("pe") => ~rst /\ grace = 0 /\ HostAt("wait") /\ ~irq
        <3>. SUFFICES ASSUME WriteOf("pe") PROVE ~rst /\ grace = 0 /\ HostAt("wait") /\ ~irq
            OBVIOUS
        <3>1. ~CoreSilent
            BY DEF CoreSilent, Waits, WriteOf
        <3>2. ~Acknowledging
            BY <2>1 DEF Acknowledging, WriteQueued, WritePerformed
        <3>3. grace \in Nat /\ rst \in BOOLEAN
            BY DEF JobInv, RegTypes
        <3>. QED BY <3>1, <3>2, <3>3 DEF JobInv, Control
    <2>11. /\ Writes(CTRL) => wbus.addr = 0
           /\ Writes(IAR) => wbus.addr = 16384
           /\ Writes(RETL) => wbus.addr = 16
           /\ Writes(RETH) => wbus.addr = 20
        BY <2>9 DEF CTRL, IAR, RETL, RETH
    <2>12. \A i \in 0 .. 4 : Writes(ArgReg[i]) => wbus.addr = 32 + 16 * i
        BY <2>9 DEF ArgReg
    <2>13. ~(WriteOf("host") /\ WriteOf("pe"))
        BY DEF WriteOf
    <2>14. ASSUME NEW i \in 0 .. 4, Writes(ArgReg[i])
           PROVE  WriteOf("host") /\ i \in 1 .. 3 /\ HostAt(ArgStep[i])
        <3>1. wbus.addr = 32 + 16 * i
            BY <2>12, <2>14
        <3>2. WriteOf("host")
            BY <2>5, <2>6, <3>1
        <3>3. \/ i = 1 /\ HostAt("arg1")
              \/ i = 2 /\ HostAt("arg2")
              \/ i = 3 /\ HostAt("arg3")
            BY <2>4, <3>1, <3>2
        <3>. QED BY <3>2, <3>3 DEF ArgStep
    <2>15. Writes(CTRL) => WriteOf("host") /\ HostAt("start") /\ wbus.data = 1
        BY <2>4, <2>5, <2>6, <2>11
    <2>16. Writes(IAR) \/ Writes(RETL) => WriteOf("pe")
        BY <2>4, <2>6, <2>11
    <2>17. ~Writes(RETH)
        BY <2>7, <2>11
    <2>. QED
        BY <2>1, <2>2, <2>3, <2>6, <2>9, <2>10, <2>14, <2>15, <2>16, <2>17
           DEF Effects
<1>. QED BY <1>1, <1>2

-----------------------------------------------------------------------------
LEMMA JobInvInit == JobInit => JobInv
<1>. SUFFICES ASSUME JobInit PROVE JobInv
    OBVIOUS
<1>1. RegTypes
    <2>1. args \in [0 .. 4 -> Nat] /\ ret \in Nat \X Nat /\ grace \in 0 .. GraceCycles
        BY GraceAssumption DEF JobInit, Init
    <2>2. ctrl \in BOOLEAN /\ rst \in BOOLEAN /\ counter \in Nat /\ irq \in BOOLEAN
        BY DEF JobInit, Init
    <2>3. RunInv
        <3>1. rst /\ ~rstn /\ rstn \in BOOLEAN /\ grace = 0
            BY DEF JobInit, Init
        <3>. QED BY <3>1 DEF RunInv
    <2>. QED BY <2>1, <2>2, <2>3 DEF RegTypes
<1>2. host.todo = << >> /\ HostScriptOK
    <2>1. /\ host.todo = << >>
          /\ host \in [todo : Seq(HostStep), kind : DOMAIN HostScript \cup {None},
                       prog : DOMAIN Program \cup {None}, a : Nat \cup {None},
                       b : Nat \cup {None}, buf : Nat \cup {None},
                       ret : Nat \cup {None}]
        BY DEF JobInit, NoJob
    <2>. QED BY <2>1 DEF HostScriptOK, Has
<1>3. pe.todo = << >> /\ CoreScriptOK
    <2>1. pe.todo = << >> /\ pe \in [todo : Seq(CoreStep), a : Nat, b : Nat]
        BY DEF JobInit, Halted
    <2>. QED BY <2>1 DEF JobInit, CoreScriptOK, Has
<1>4. WritePlace /\ ReadPlace
    BY DEF JobInit, Init, WritePlace, NoWrite, ReadPlace, NoRead
<1>5. Owned
    BY DEF JobInit, Owned, WriteOf, ReadOf
<1>6. Control
    BY <1>3 DEF JobInit, Init, Control, CoreSilent, Waits
<1>. QED BY <1>1, <1>2, <1>3, <1>4, <1>5, <1>6 DEF JobInv

(***************************************************************************)
(* Steps of the host and the core change no register of the controller.    *)
(***************************************************************************)
LEMMA RegistersStay ==
    ASSUME JobInv, UNCHANGED vars, irq' \in BOOLEAN
    PROVE  /\ RegTypes'
           /\ wbus' = wbus => WritePlace' /\ (WritePerformed' <=> WritePerformed)
           /\ rbus' = rbus => ReadPlace'
<1>1. RegTypes'
    BY DEF JobInv, RegTypes, RunInv, vars, ctlvars
<1>2. wbus' = wbus => WritePlace' /\ (WritePerformed' <=> WritePerformed)
    BY DEF JobInv, WritePlace, NoWrite, WriteOffered, WriteQueued, WritePerformed,
       vars, busvars
<1>3. rbus' = rbus => ReadPlace'
    BY DEF JobInv, ReadPlace, NoRead, ReadOffered, ReadQueued, ReadPerformed,
       vars, busvars
<1>. QED BY <1>1, <1>2, <1>3

\* The host program goes on by itself, with no access of its own.
LEMMA HostAlone ==
    ASSUME JobInv, UNCHANGED <<vars, pe, wbus, rbus>>, irq' \in BOOLEAN,
           loaded' \in DOMAIN Program \cup {None},
           loaded' # loaded => ~Has(pe.todo, "ret"),
           HostScriptOK', ~Waits("host"),
           ~rst /\ grace = 0 => HostAt("wait")' /\ ~irq',
           irq' => HostAt("wait")'
    PROVE  JobInv'
<1>1. RegTypes' /\ WritePlace' /\ ReadPlace' /\ (WritePerformed' <=> WritePerformed)
    BY RegistersStay
<1>2. CoreScriptOK'
    BY DEF JobInv, CoreScriptOK
<1>3. ~WriteOf("host") /\ ~ReadOf("host")
    BY DEF Waits, WriteOf, ReadOf
<1>4. Owned'
    BY <1>3 DEF JobInv, Owned, WriteOf, ReadOf
<1>5. ~(ctrl /\ rst)
    BY <1>3 DEF JobInv, Control
<1>6. Control'
    BY <1>1, <1>5 DEF JobInv, Control, CoreSilent, Acknowledging, Waits, WriteOf,
       vars, ctlvars
<1>. QED BY <1>1, <1>2, <1>4, <1>6 DEF JobInv

\* While the host is not waiting for the interrupt no core runs.
LEMMA NotWaiting ==
    ASSUME JobInv, ~HostAt("wait")
    PROVE  ~(~rst /\ grace = 0) /\ ~irq
BY DEF JobInv, Control

LEMMA NewJobStep == JobInv /\ NewJob => JobInv'
<1>. SUFFICES ASSUME JobInv, NewJob PROVE JobInv'
    OBVIOUS
<1>1. PICK job \in Job, x \in Args, buf \in Buf :
          host' = [todo |-> HostScript[job[1]], kind |-> job[1],
                   prog |-> job[2],
                   a |-> IF job[1] = "template" THEN None ELSE x[1],
                   b |-> IF job[1] = "template" THEN None ELSE x[2],
                   buf |-> IF job[1] = "cpp" THEN buf ELSE None,
                   ret |-> None]
    BY DEF NewJob
<1>2. job[1] \in DOMAIN HostScript /\ job[2] \in DOMAIN Program
    BY JobAssumption
<1>3. x[1] \in Nat /\ x[2] \in Nat /\ buf \in Nat
    BY Words
<1>. DEFINE k == job[1]
<1>4. /\ HostScript[k] \in Seq(HostStep)
      /\ \A i \in 1 .. Len(HostScript[k]) : HostScript[k][i] = "start" =>
            i + 1 \in 1 .. Len(HostScript[k]) /\ HostScript[k][i + 1] = "wait"
      /\ Has(HostScript[k], "arg1") \/ Has(HostScript[k], "arg2") => k # "template"
      /\ Has(HostScript[k], "arg3") => k = "cpp"
    BY <1>2, HostScripts
<1>5. HostScriptOK'
    <2>. DEFINE s == HostScript[k]
    <2>1. /\ host'.todo = s
          /\ host'.a = IF k = "template" THEN None ELSE x[1]
          /\ host'.b = IF k = "template" THEN None ELSE x[2]
          /\ host'.buf = IF k = "cpp" THEN buf ELSE None
        BY <1>1
    <2>2. host' \in [todo : Seq(HostStep), kind : DOMAIN HostScript \cup {None},
                     prog : DOMAIN Program \cup {None}, a : Nat \cup {None},
                     b : Nat \cup {None}, buf : Nat \cup {None}, ret : Nat \cup {None}]
        BY <1>1, <1>2, <1>3, <1>4
    <2>. HIDE DEF s
    <2>3. /\ \A i \in 1 .. Len(s) : s[i] = "start" =>
                i + 1 \in 1 .. Len(s) /\ s[i + 1] = "wait"
          /\ Has(s, "arg1") \/ Has(s, "arg2") => k # "template"
          /\ Has(s, "arg3") => k = "cpp"
        BY <1>4 DEF s
    <2>. HIDE DEF k
    <2>4. /\ Has(host'.todo, "arg1") => host'.a \in Nat
          /\ Has(host'.todo, "arg2") => host'.b \in Nat
          /\ Has(host'.todo, "arg3") => host'.buf \in Nat
        BY <1>3, <2>1, <2>3
    <2>. QED BY <2>1, <2>2, <2>3, <2>4 DEF HostScriptOK
<1>6. ~HostAt("wait") /\ ~Waits("host")
    BY DEF NewJob, HostAt, JobInv, Owned, Waits, WriteOf, ReadOf
<1>7. irq' \in BOOLEAN /\ loaded' = loaded /\ loaded \in DOMAIN Program \cup {None}
    BY DEF NewJob, memvars, JobInv, RegTypes, CoreScriptOK
<1>. QED BY <1>5, <1>6, <1>7, NotWaiting, HostAlone DEF NewJob

LEMMA LoadProgramStep == JobInv /\ LoadProgram => JobInv'
<1>. SUFFICES ASSUME JobInv, LoadProgram PROVE JobInv'
    OBVIOUS
<1>1. host.todo # << >> /\ ~HostAt("wait")
    BY DEF LoadProgram, HostAt
<1>2. ~Waits("host")
    BY DEF LoadProgram, HostAt, JobInv, Owned, Waits, WriteOf, ReadOf
<1>3. ~(~rst /\ grace = 0) /\ ~irq
    BY <1>1, NotWaiting
<1>4. HostScriptOK'
    <2>1. host' = [host EXCEPT !.todo = Tail(@)]
        BY DEF LoadProgram
    <2>. QED BY <1>1, <2>1, HostTail, 0 \in Nat DEF JobInv
<1>5. loaded' \in DOMAIN Program \cup {None} /\ irq' = irq /\ irq \in BOOLEAN
    BY DEF LoadProgram, JobInv, HostScriptOK, RegTypes
<1>6. ~Has(pe.todo, "ret")
    <2>1. pe.todo = << >> \/ Acknowledging
        <3>1. grace \in Nat /\ rst \in BOOLEAN
            BY DEF JobInv, RegTypes
        <3>. QED BY <1>3, <3>1 DEF JobInv, Control, CoreSilent
    <2>2. CASE pe.todo = << >>
        BY <2>2 DEF Has
    <2>3. CASE Acknowledging
        <3>. DEFINE s == pe.todo
        <3>1. s # << >> /\ Head(s) = "intr" /\ s \in Seq(CoreStep)
              /\ \A i \in 1 .. Len(s) : s[i] = "intr" => i = Len(s)
            BY <2>3, Offsets DEF Acknowledging, JobInv, Owned, CoreScriptOK
        <3>. HIDE DEF s
        <3>2. Len(s) \in Nat \ {0} /\ Head(s) = s[1]
            BY <3>1, ScriptTail
        <3>3. 1 \in 1 .. Len(s) /\ s[1] = "intr"
            BY <3>1, <3>2
        <3>4. Len(s) = 1
            BY <3>1, <3>3
        <3>5. ~Has(s, "ret")
            BY <3>3, <3>4 DEF Has
        <3>. QED BY <3>5 DEF s
    <2>. QED BY <2>1, <2>2, <2>3
<1>. QED BY <1>2, <1>3, <1>4, <1>5, <1>6, HostAlone DEF LoadProgram

LEMMA HostExitsStep == JobInv /\ HostExits => JobInv'
<1>. SUFFICES ASSUME JobInv, HostExits PROVE JobInv'
    OBVIOUS
<1>1. ~HostAt("wait") /\ ~Waits("host")
    BY DEF HostExits, HostAt
<1>2. HostScriptOK' /\ ~Has(<< >>, "arg1")
    <2>1. /\ host'.todo = << >>
          /\ host' \in [todo : Seq(HostStep), kind : DOMAIN HostScript \cup {None},
                        prog : DOMAIN Program \cup {None}, a : Nat \cup {None},
                        b : Nat \cup {None}, buf : Nat \cup {None},
                        ret : Nat \cup {None}]
        BY DEF HostExits, NoJob
    <2>. QED BY <2>1 DEF HostScriptOK, Has
<1>3. irq' \in BOOLEAN /\ loaded' = loaded /\ loaded \in DOMAIN Program \cup {None}
    BY DEF HostExits, memvars, JobInv, RegTypes, CoreScriptOK
<1>. QED BY <1>1, <1>2, <1>3, NotWaiting, HostAlone DEF HostExits

LEMMA TakeInterruptStep == JobInv /\ TakeInterrupt => JobInv'
<1>. SUFFICES ASSUME JobInv, TakeInterrupt PROVE JobInv'
    OBVIOUS
<1>1. HostAt("wait") /\ irq /\ irq' = FALSE /\ host.todo # << >>
    BY DEF TakeInterrupt, HostAt
<1>2. ~Waits("host")
    BY <1>1 DEF HostAt, JobInv, Owned, Waits, WriteOf, ReadOf
<1>3. HostScriptOK'
    <2>1. host' = [host EXCEPT !.todo = Tail(@)]
        BY DEF TakeInterrupt
    <2>. QED BY <1>1, <2>1, HostTail, 0 \in Nat DEF JobInv
<1>4. ~(~rst /\ grace = 0)
    BY <1>1 DEF JobInv, Control
<1>5. loaded' = loaded /\ loaded \in DOMAIN Program \cup {None}
    BY DEF TakeInterrupt, memvars, JobInv, CoreScriptOK
<1>. QED BY <1>1, <1>2, <1>3, <1>4, <1>5, HostAlone DEF TakeInterrupt

(***************************************************************************)
(* The accesses.                                                           *)
(***************************************************************************)
LEMMA WriteStarts ==
    ASSUME JobInv, UNCHANGED vars, NEW owner \in {"host", "pe"},
           NEW reg \in Nat, NEW v \in Nat, Write(owner, reg, v)
    PROVE  /\ wbus = None /\ wbus' # None /\ wbus'.owner = owner
           /\ wbus'.addr = reg /\ wbus'.data = v /\ rbus' = rbus
           /\ WritePlace'
<1>1. /\ wbus = None /\ rbus' = rbus
      /\ wbus' = [owner |-> owner, addr |-> reg, data |-> v,
                  awDone |-> FALSE, wDone |-> FALSE]
    BY DEF Write
<1>2. wbus' \in WTransfer /\ wbus'.owner = owner /\ wbus'.addr = reg
      /\ wbus'.data = v /\ wbus'.awDone = FALSE /\ wbus'.wDone = FALSE
    BY <1>1 DEF WTransfer
<1>3. wbus' # None
    BY <1>2, NoneIsNothing
<1>4. NoWrite
    BY <1>1, Transfers DEF JobInv, WritePlace, WriteOffered, WriteQueued, WritePerformed
<1>5. WriteOffered'
    BY <1>2, <1>4 DEF NoWrite, WriteOffered, vars, busvars
<1>. QED BY <1>1, <1>2, <1>3, <1>5 DEF WritePlace

LEMMA ReadStarts ==
    ASSUME JobInv, UNCHANGED vars, NEW owner \in {"host", "pe"},
           NEW reg \in Nat, Read(owner, reg)
    PROVE  /\ rbus = None /\ rbus' # None /\ rbus'.owner = owner
           /\ rbus'.addr = reg /\ wbus' = wbus
           /\ ReadPlace'
<1>1. /\ rbus = None /\ wbus' = wbus
      /\ rbus' = [owner |-> owner, addr |-> reg, arDone |-> FALSE]
    BY DEF Read
<1>2. rbus' \in RTransfer /\ rbus'.owner = owner /\ rbus'.addr = reg
      /\ rbus'.arDone = FALSE
    BY <1>1 DEF RTransfer
<1>3. rbus' # None
    BY <1>2, NoneIsNothing
<1>4. NoRead
    BY <1>1, Transfers DEF JobInv, ReadPlace, ReadOffered, ReadQueued, ReadPerformed
<1>5. ReadOffered'
    BY <1>2, <1>4 DEF NoRead, ReadOffered, vars, busvars
<1>. QED BY <1>1, <1>2, <1>3, <1>5 DEF ReadPlace

HostWrites ==
    \/ HostAt("arg1") /\ Write("host", ArgReg[1], host.a)
    \/ HostAt("arg2") /\ Write("host", ArgReg[2], host.b)
    \/ HostAt("arg3") /\ Write("host", ArgReg[3], host.buf)
    \/ HostAt("start") /\ Write("host", CTRL, 1)

\* What the host writes is a number: it has the operand of its next step.
LEMMA HostOperands ==
    ASSUME JobInv
    PROVE  /\ HostAt("arg1") => host.a \in Nat
           /\ HostAt("arg2") => host.b \in Nat
           /\ HostAt("arg3") => host.buf \in Nat
<1>1. host.todo \in Seq(HostStep)
    BY DEF JobInv, HostScriptOK
<1>2. host.todo # << >> => Has(host.todo, Head(host.todo))
    BY <1>1, ScriptTail
<1>. QED BY <1>2 DEF JobInv, HostScriptOK, HostAt

LEMMA HostAccessStep == JobInv /\ HostAccess => JobInv'
<1>. SUFFICES ASSUME JobInv, HostAccess PROVE JobInv'
    OBVIOUS
<1>1. /\ UNCHANGED vars /\ UNCHANGED <<host, pe, irq, loaded>> /\ ~Waits("host")
      /\ HostWrites \/ (HostAt("getret") /\ Read("host", RETL))
    BY DEF HostAccess, HostWrites, memvars
<1>2. RegTypes' /\ (HostScriptOK /\ CoreScriptOK)'
    <2>1. irq' \in BOOLEAN
        BY <1>1 DEF JobInv, RegTypes
    <2>. QED BY <1>1, <2>1, RegistersStay DEF JobInv, HostScriptOK, CoreScriptOK
<1>3. ~HostAt("wait") /\ ~(ctrl /\ rst)
    BY <1>1 DEF HostWrites, HostAt, JobInv, Control, Waits, WriteOf
<1>4. ~(~rst /\ grace = 0) /\ ~irq
    BY <1>3, NotWaiting
<1>5. CASE HostWrites
    <2>1. /\ wbus = None /\ wbus' # None /\ wbus'.owner = "host" /\ rbus' = rbus
          /\ WritePlace'
          /\ \/ wbus'.addr = CTRL /\ wbus'.data = 1 /\ HostAt("start")
             \/ wbus'.addr = ArgReg[1] /\ HostAt("arg1")
             \/ wbus'.addr = ArgReg[2] /\ HostAt("arg2")
             \/ wbus'.addr = ArgReg[3] /\ HostAt("arg3")
        <3>1. CASE HostAt("arg1") /\ Write("host", ArgReg[1], host.a)
            <4>1. ArgReg[1] \in Nat /\ host.a \in Nat
                BY <3>1, Offsets, HostOperands
            <4>. QED BY <1>1, <3>1, <4>1, WriteStarts
        <3>2. CASE HostAt("arg2") /\ Write("host", ArgReg[2], host.b)
            <4>1. ArgReg[2] \in Nat /\ host.b \in Nat
                BY <3>2, Offsets, HostOperands
            <4>. QED BY <1>1, <3>2, <4>1, WriteStarts
        <3>3. CASE HostAt("arg3") /\ Write("host", ArgReg[3], host.buf)
            <4>1. ArgReg[3] \in Nat /\ host.buf \in Nat
                BY <3>3, Offsets, HostOperands
            <4>. QED BY <1>1, <3>3, <4>1, WriteStarts
        <3>4. CASE HostAt("start") /\ Write("host", CTRL, 1)
            <4>1. CTRL \in Nat /\ 1 \in Nat
                BY Offsets
            <4>. QED BY <1>1, <3>4, <4>1, WriteStarts
        <3>. QED BY <1>5, <3>1, <3>2, <3>3, <3>4 DEF HostWrites
    <2>2. ReadPlace'
        BY <1>1, <2>1, RegistersStay DEF JobInv, RegTypes
    <2>3. Owned'
        BY <1>1, <2>1 DEF JobInv, Owned, WriteOf, ReadOf, HostAt
    <2>4. Control'
        <3>1. ~Acknowledging
            BY <2>1 DEF Acknowledging, WriteOf
        <3>. QED BY <1>1, <1>3, <1>4, <2>1, <3>1 DEF JobInv, Control, CoreSilent,
                    Waits, vars, ctlvars
    <2>. QED BY <1>2, <2>1, <2>2, <2>3, <2>4 DEF JobInv
<1>6. CASE HostAt("getret") /\ Read("host", RETL)
    <2>1. /\ rbus = None /\ rbus' # None /\ rbus'.owner = "host"
          /\ rbus'.addr = RETL /\ wbus' = wbus /\ ReadPlace'
        <3>1. RETL \in Nat
            BY Offsets
        <3>. QED BY <1>1, <1>6, <3>1, ReadStarts
    <2>2. WritePlace' /\ (WritePerformed' <=> WritePerformed)
        BY <1>1, <2>1, RegistersStay DEF JobInv, RegTypes
    <2>3. Owned'
        BY <1>1, <1>6, <2>1 DEF JobInv, Owned, WriteOf, ReadOf, HostAt
    <2>4. Control'
        BY <1>1, <1>3, <1>4, <2>1, <2>2 DEF JobInv, Control, CoreSilent, Acknowledging,
           Waits, WriteOf, vars, ctlvars
    <2>. QED BY <1>2, <2>1, <2>2, <2>3, <2>4 DEF JobInv
<1>. QED BY <1>1, <1>5, <1>6

\* A core that has something to do is in the middle of a job.
LEMMA CoreRuns ==
    ASSUME JobInv, pe.todo # << >>, ~Waits("pe")
    PROVE  ~rst /\ grace = 0 /\ HostAt("wait") /\ ~irq
<1>1. ~CoreSilent /\ ~Acknowledging
    BY DEF CoreSilent, Acknowledging, Waits, WriteOf
<1>2. grace \in Nat /\ rst \in BOOLEAN
    BY DEF JobInv, RegTypes
<1>. QED BY <1>1, <1>2 DEF JobInv, Control

CoreWrites ==
    \/ PEAt("ret") /\ Write("pe", RETL, ReturnValue(loaded, pe.a, pe.b))
    \/ PEAt("trap") /\ Write("pe", RETL, TrapCode)
    \/ PEAt("panic") /\ Write("pe", RETL, PanicCode)
    \/ PEAt("intr") /\ Write("pe", IAR, 1)

CoreReads ==
    \/ PEAt("arg1") /\ Read("pe", ArgReg[1])
    \/ PEAt("arg2") /\ Read("pe", ArgReg[2])
    \/ Prints /\ out.buf = 0 /\ Read("pe", ArgReg[3])

LEMMA PEAccessStep == JobInv /\ PEAccess => JobInv'
<1>. SUFFICES ASSUME JobInv, PEAccess PROVE JobInv'
    OBVIOUS
<1>1. /\ UNCHANGED vars /\ UNCHANGED <<host, pe, irq, loaded>>
      /\ pe.todo # << >> /\ ~Waits("pe")
      /\ CoreWrites \/ CoreReads
    BY DEF PEAccess, CoreWrites, CoreReads, memvars, PEAt, Prints
<1>2. RegTypes' /\ (HostScriptOK /\ CoreScriptOK)'
    <2>1. irq' \in BOOLEAN
        BY <1>1 DEF JobInv, RegTypes
    <2>. QED BY <1>1, <2>1, RegistersStay DEF JobInv, HostScriptOK, CoreScriptOK
<1>3. ~rst /\ grace = 0 /\ HostAt("wait") /\ ~irq
    BY <1>1, CoreRuns
<1>4. Control'
    <2>1. rst' = rst /\ grace' = grace /\ host' = host /\ irq' = irq
        BY <1>1 DEF vars, ctlvars
    <2>. QED BY <1>3, <2>1 DEF Control, HostAt
<1>5. CASE CoreWrites
    <2>1. /\ wbus = None /\ wbus' # None /\ wbus'.owner = "pe" /\ rbus' = rbus
          /\ WritePlace'
          /\ \/ wbus'.addr = IAR /\ Head(pe.todo) = "intr"
             \/ wbus'.addr = RETL /\ Head(pe.todo) \in {"ret", "trap", "panic"}
        <3>0. RETL \in Nat /\ IAR \in Nat /\ 1 \in Nat
            BY Offsets
        <3>1. CASE PEAt("ret") /\ Write("pe", RETL, ReturnValue(loaded, pe.a, pe.b))
            <4>1. ReturnValue(loaded, pe.a, pe.b) \in Nat
                <5>1. pe.todo \in Seq(CoreStep) /\ pe.todo # << >>
                      /\ Head(pe.todo) = "ret" /\ pe.a \in Nat /\ pe.b \in Nat
                    BY <3>1 DEF JobInv, CoreScriptOK, PEAt
                <5>2. Has(pe.todo, "ret")
                    BY <5>1, ScriptTail
                <5>3. loaded \in DOMAIN Program /\ Returns(loaded)
                    BY <5>2 DEF JobInv, CoreScriptOK
                <5>. QED BY <5>1, <5>3, Words
            <4>. QED BY <1>1, <3>0, <3>1, <4>1, WriteStarts DEF PEAt
        <3>2. CASE PEAt("trap") /\ Write("pe", RETL, TrapCode)
            BY <1>1, <3>0, <3>2, Words, WriteStarts DEF PEAt
        <3>3. CASE PEAt("panic") /\ Write("pe", RETL, PanicCode)
            BY <1>1, <3>0, <3>3, Words, WriteStarts DEF PEAt
        <3>4. CASE PEAt("intr") /\ Write("pe", IAR, 1)
            BY <1>1, <3>0, <3>4, WriteStarts DEF PEAt
        <3>. QED BY <1>5, <3>1, <3>2, <3>3, <3>4 DEF CoreWrites
    <2>2. ReadPlace'
        BY <1>1, <2>1, RegistersStay DEF JobInv, RegTypes
    <2>3. Owned'
        BY <1>1, <2>1 DEF JobInv, Owned, WriteOf, ReadOf, HostAt
    <2>. QED BY <1>2, <1>4, <2>1, <2>2, <2>3 DEF JobInv
<1>6. CASE CoreReads
    <2>1. /\ rbus = None /\ rbus' # None /\ rbus'.owner = "pe"
          /\ wbus' = wbus /\ ReadPlace'
          /\ \/ rbus'.addr = ArgReg[1] /\ Head(pe.todo) = "arg1"
             \/ rbus'.addr = ArgReg[2] /\ Head(pe.todo) = "arg2"
             \/ rbus'.addr = ArgReg[3] /\ Head(pe.todo) \in {"text", "hex"}
        <3>0. ArgReg[1] \in Nat /\ ArgReg[2] \in Nat /\ ArgReg[3] \in Nat
            BY Offsets
        <3>1. CASE PEAt("arg1") /\ Read("pe", ArgReg[1])
            BY <1>1, <3>0, <3>1, ReadStarts DEF PEAt
        <3>2. CASE PEAt("arg2") /\ Read("pe", ArgReg[2])
            BY <1>1, <3>0, <3>2, ReadStarts DEF PEAt
        <3>3. CASE Prints /\ Read("pe", ArgReg[3])
            BY <1>1, <3>0, <3>3, ReadStarts DEF PEAt, Prints
        <3>. QED BY <1>6, <3>1, <3>2, <3>3 DEF CoreReads
    <2>2. WritePlace'
        BY <1>1, <2>1, RegistersStay DEF JobInv, RegTypes
    <2>3. Owned'
        BY <1>1, <2>1 DEF JobInv, Owned, WriteOf, ReadOf, HostAt
    <2>. QED BY <1>2, <1>4, <2>1, <2>2, <2>3 DEF JobInv
<1>. QED BY <1>1, <1>5, <1>6

LEMMA PELocalStep == JobInv /\ PELocal => JobInv'
<1>. SUFFICES ASSUME JobInv, PELocal PROVE JobInv'
    OBVIOUS
<1>1. PICK t : /\ \/ t = Tail(pe.todo)
                  \/ t \in {<<"trap", "intr">>, <<"panic", "intr">>}
               /\ PEContinues(t)
    BY DEF PELocal, initInterrupts, initPrint, print, RiskyAccess, fallbackDefaultIRQ
<1>2. pe.todo # << >> /\ ~Waits("pe")
    BY DEF PELocal, initInterrupts, initPrint, print, RiskyAccess, PEAt, Prints
<1>3. /\ UNCHANGED vars /\ UNCHANGED <<host, loaded, wbus, rbus, irq>>
      /\ pe' = [pe EXCEPT !.todo = t]
    BY <1>1 DEF PEContinues
<1>4. RegTypes' /\ WritePlace' /\ ReadPlace' /\ HostScriptOK'
    <2>1. irq' \in BOOLEAN
        BY <1>3 DEF JobInv, RegTypes
    <2>. QED BY <1>3, <2>1, RegistersStay DEF JobInv, HostScriptOK
<1>5. CoreScriptOK'
    <2>1. pe \in [todo : Seq(CoreStep), a : Nat, b : Nat]
        BY DEF JobInv, CoreScriptOK
    <2>2. pe' \in [todo : {t}, a : Nat, b : Nat]
        BY <1>3, <2>1
    <2>. QED BY <1>1, <1>2, <1>3, <2>2, CoreGoesOn DEF JobInv
<1>6. ~rst /\ grace = 0 /\ HostAt("wait") /\ ~irq
    BY <1>2, CoreRuns
<1>7. Control'
    <2>1. rst' = rst /\ grace' = grace /\ host' = host /\ irq' = irq
        BY <1>3 DEF vars, ctlvars
    <2>. QED BY <1>6, <2>1 DEF Control, HostAt
<1>8. Owned'
    BY <1>2, <1>3 DEF JobInv, Owned, WriteOf, ReadOf, HostAt, Waits
<1>. QED BY <1>4, <1>5, <1>7, <1>8 DEF JobInv

-----------------------------------------------------------------------------
(***************************************************************************)
(* A clock cycle: the registers, the two buses, the two programs.          *)
(***************************************************************************)
Answered(owner) ==
    \/ WritePerformed /\ wbus.owner = owner
    \/ ReadPerformed /\ rbus.owner = owner

rdata == IF rd_s_out # << >> THEN Head(rd_s_out) ELSE 0

Registers ==
    /\ UpdateCtrl /\ UpdateReset /\ UpdateGrace /\ UpdateCounter
    /\ UpdateRet /\ UpdateArgs

Programs ==
    /\ host' = IF Answered("host") THEN HostNext(rdata) ELSE host
    /\ pe' = IF ~rstn' THEN Halted
             ELSE IF ~rstn THEN Booted
             ELSE IF Answered("pe") THEN PENext(rdata) ELSE pe
    /\ irq' = (irq \/ SetsIntr)
    /\ loaded' = loaded

Clocked(awNow, wNow, arNow) ==
    Registers /\ WriteStep(awNow, wNow) /\ ReadStep(arNow) /\ Programs

LEMMA TickParts ==
    ASSUME JobInv, NEW awNow \in BOOLEAN, NEW wNow \in BOOLEAN, NEW arNow \in BOOLEAN,
           Tick(awNow, wNow, arNow)
    PROVE  Clocked(awNow, wNow, arNow)
<1>1. Cycle(AwOf(awNow), WOf(wNow), TRUE, ArOf(arNow), TRUE, TRUE)
    BY DEF Tick, AwOf, WOf, ArOf
<1>2. Registers
    BY <1>1 DEF Cycle, Registers
<1>3. WriteStep(awNow, wNow)
    <2>1. wbus' = IF wbus = None \/ wr_s_out > 0 THEN None
                  ELSE [wbus EXCEPT !.awDone = AwDone(awNow), !.wDone = WDone(wNow)]
        BY DEF Tick, AwDone, WDone, AwOf, WOf
    <2>. QED BY <1>1, <2>1 DEF Cycle, WriteStep
<1>4. ReadStep(arNow)
    <2>1. rbus' = IF rbus = None \/ rd_s_out # << >> THEN None
                  ELSE [rbus EXCEPT !.arDone = ArDone(arNow)]
        BY DEF Tick, ArDone, ArOf
    <2>. QED BY <1>1, <2>1 DEF Cycle, ReadStep
<1>5. wr_s_out > 0 <=> WritePerformed
    BY <1>3, WriteMoves DEF JobInv
<1>6. rd_s_out # << >> <=> ReadPerformed
    BY <1>4, ReadMoves DEF JobInv
<1>7. Programs
    <2>1. /\ host' = IF \/ wr_s_out > 0 /\ wbus.owner = "host"
                        \/ rd_s_out # << >> /\ rbus.owner = "host"
                       THEN HostNext(rdata) ELSE host
          /\ pe' = IF ~rstn' THEN Halted
                   ELSE IF ~rstn THEN Booted
                   ELSE IF \/ wr_s_out > 0 /\ wbus.owner = "pe"
                           \/ rd_s_out # << >> /\ rbus.owner = "pe"
                     THEN PENext(rdata) ELSE pe
          /\ irq' = (irq \/ SetsIntr)
          /\ loaded' = loaded
        BY DEF Tick, rdata
    <2>. QED BY <1>5, <1>6, <2>1 DEF Programs, Answered
<1>. QED BY <1>2, <1>3, <1>4, <1>7 DEF Clocked

(***************************************************************************)
(* Every transfer after a cycle was there before it and is not performed.  *)
(***************************************************************************)
LEMMA BusesClocked ==
    ASSUME JobInv, NEW awNow \in BOOLEAN, NEW wNow \in BOOLEAN, NEW arNow \in BOOLEAN,
           Clocked(awNow, wNow, arNow)
    PROVE  /\ WritePlace' /\ ReadPlace'
           /\ wbus' # None => SameWrite /\ ~WritePerformed
           /\ rbus' # None => SameRead /\ ~ReadPerformed
           /\ WritePerformed' => WriteQueued
           /\ WriteQueued => WritePerformed' /\ SameWrite
           /\ WritePerformed => wbus # None /\ wbus' = None
           /\ ReadPerformed => rbus # None /\ rbus' = None
           /\ handle_write <=> WriteQueued
           /\ rdata \in Nat
<1>0. /\ WritePlace /\ WriteStep(awNow, wNow)
      /\ RegTypes /\ ReadPlace /\ ReadStep(arNow)
    BY DEF JobInv, Clocked
<1>1. /\ WritePlace'
      /\ NoWrite => NoWrite' /\ ~handle_write
      /\ WriteOffered => (WriteOffered \/ WriteQueued)' /\ SameWrite /\ ~handle_write
      /\ WriteQueued => WritePerformed' /\ SameWrite /\ handle_write
      /\ WritePerformed => NoWrite' /\ ~handle_write
    BY <1>0, WriteMoves
<1>2. /\ ReadPlace'
      /\ NoRead => NoRead'
      /\ ReadOffered => SameRead
      /\ ReadQueued => SameRead
      /\ ReadPerformed => NoRead'
      /\ rd_s_out # << >> <=> ReadPerformed
    BY <1>0, ReadMoves
<1>3. /\ NoWrite' => wbus' = None /\ ~WritePerformed'
      /\ (WriteOffered \/ WriteQueued)' => ~WritePerformed'
      /\ WritePerformed => wbus # None /\ ~NoWrite /\ ~WriteOffered /\ ~WriteQueued
      /\ WriteQueued => ~NoWrite /\ ~WriteOffered
    BY Transfers DEF NoWrite, WriteOffered, WriteQueued, WritePerformed
<1>4. /\ NoRead' => rbus' = None
      /\ ReadPerformed => rbus # None /\ ~NoRead /\ ~ReadOffered /\ ~ReadQueued
    BY Transfers DEF NoRead, ReadOffered, ReadQueued, ReadPerformed
<1>5. rdata \in Nat
    <2>1. CASE ReadPerformed
        <3>. DEFINE v == rd_s_out[1]
        <3>1. rd_s_out = <<v>> /\ v \in Nat
            BY <2>1 DEF ReadPerformed
        <3>. HIDE DEF v
        <3>2. Head(rd_s_out) = v
            BY <3>1
        <3>. QED BY <3>1, <3>2 DEF rdata
    <2>2. CASE ~ReadPerformed
        BY <1>2, <2>2 DEF rdata
    <2>. QED BY <2>1, <2>2
<1>. QED BY <1>0, <1>1, <1>2, <1>3, <1>4, <1>5 DEF WritePlace, ReadPlace

LEMMA RegistersClocked ==
    ASSUME JobInv, Effects, NEW awNow \in BOOLEAN, NEW wNow \in BOOLEAN,
           NEW arNow \in BOOLEAN, Clocked(awNow, wNow, arNow)
    PROVE  RegTypes'
<1>0. RegTypes /\ Registers /\ irq' = (irq \/ SetsIntr)
    BY DEF JobInv, Clocked, Programs
<1>1. \A o : Writes(o) => req.data \in Nat
    BY DEF Effects, Writes
<1>2. ctrl' \in BOOLEAN
    BY <1>0 DEF RegTypes, Registers, UpdateCtrl
<1>3. rst' \in BOOLEAN
    BY <1>0 DEF RegTypes, Registers, UpdateReset, resetAll
<1>4. grace' \in 0 .. GraceCycles
    BY <1>0, GraceAssumption DEF RegTypes, Registers, UpdateGrace, graceDown
<1>5. counter' \in Nat
    <2>1. counter \in Nat /\ CounterSize \in Nat \ {0}
        BY <1>0, CounterAssumption DEF RegTypes
    <2>2. (counter + 1) % CounterSize \in Nat
        BY <2>1
    <2>. QED BY <1>0, <2>1, <2>2 DEF Registers, UpdateCounter
<1>6. ret' \in Nat \X Nat
    <2>1. ret[1] \in Nat /\ ret[2] \in Nat /\ ret = <<ret[1], ret[2]>>
        BY <1>0 DEF RegTypes
    <2>. QED BY <1>0, <1>1, <2>1 DEF Registers, UpdateRet, RegTypes
<1>7. args' \in [0 .. 4 -> Nat]
    <2>1. \A i \in 0 .. 4 : args[i] \in Nat
        BY <1>0 DEF RegTypes
    <2>2. \A i \in 0 .. 4 : (IF Writes(ArgReg[i]) THEN req.data ELSE args[i]) \in Nat
        BY <1>1, <2>1
    <2>. QED BY <1>0, <2>2 DEF Registers, UpdateArgs
<1>8. irq' \in BOOLEAN
    BY <1>0 DEF RegTypes, SetsIntr, Writes
<1>9. RunInv'
    <2>1. rstn = ~rst /\ (grace > 0 => ~rst) /\ grace \in Nat /\ rst \in BOOLEAN
        BY <1>0 DEF RegTypes, RunInv
    <2>2. rstn' = ~rst'
        BY <1>0, <2>1 DEF Registers, UpdateReset, resetAll
    <2>3. SetsIntr => ~rst /\ ~resetAll
        BY DEF Effects, SetsIntr, resetAll, Writes
    <2>4. rst' => ~(grace' > 0)
        <3>1. CASE resetAll
            BY <1>0, <2>3, <3>1 DEF Registers, UpdateGrace
        <3>2. CASE ~resetAll /\ rst'
            <4>1. rst /\ ~SetsIntr
                BY <1>0, <2>3, <3>2 DEF Registers, UpdateReset
            <4>2. ~graceDown /\ ~(grace > 0)
                BY <2>1, <4>1 DEF graceDown
            <4>. QED BY <1>0, <3>2, <4>1, <4>2 DEF Registers, UpdateGrace
        <3>. QED BY <3>1, <3>2
    <2>. QED BY <2>2, <2>4 DEF RunInv
<1>. QED BY <1>2, <1>3, <1>4, <1>5, <1>6, <1>7, <1>8, <1>9 DEF RegTypes

\* The host goes on exactly when it gets an answer; when it waits for the
\* interrupt it gets none.
LEMMA HostClocked ==
    ASSUME JobInv, NEW awNow \in BOOLEAN, NEW wNow \in BOOLEAN,
           NEW arNow \in BOOLEAN, Clocked(awNow, wNow, arNow)
    PROVE  /\ HostScriptOK'
           /\ HostAt("wait") => host' = host
           /\ WriteOf("host") /\ ~WritePerformed => host' = host
           /\ ReadOf("host") /\ ~ReadPerformed => host' = host
           /\ WriteOf("host") /\ WritePerformed /\ HostAt("start") => HostAt("wait")'
           /\ ~(WriteOf("host") /\ WritePerformed) /\ ~(ReadOf("host") /\ ReadPerformed)
                => host' = host
           /\ (WriteOf("host") /\ WritePerformed) \/ (ReadOf("host") /\ ReadPerformed)
                => host' = HostNext(rdata) /\ host.todo # << >>
<1>1. host' = IF Answered("host") THEN HostNext(rdata) ELSE host
    BY DEF Clocked, Programs
<1>2. WritePerformed => wbus # None
    BY BusesClocked
<1>3. ReadPerformed => rbus # None
    BY BusesClocked
<1>4. Answered("host") <=> \/ WriteOf("host") /\ WritePerformed
                           \/ ReadOf("host") /\ ReadPerformed
    BY <1>2, <1>3 DEF Answered, WriteOf, ReadOf
<1>5. Answered("host") => host.todo # << >> /\ ~HostAt("wait")
    BY <1>4 DEF JobInv, Owned, HostAt
<1>6. ~(WriteOf("host") /\ ReadOf("host"))
    BY DEF JobInv, Owned, HostAt
<1>7. rdata \in Nat
    BY BusesClocked
<1>8. Answered("host") => HostScriptOK' /\ (HostAt("start") => HostAt("wait")')
    BY <1>1, <1>5, <1>7, HostTail DEF JobInv
<1>9. ~Answered("host") => HostScriptOK'
    BY <1>1 DEF JobInv, HostScriptOK
<1>. QED BY <1>1, <1>4, <1>5, <1>6, <1>8, <1>9

\* A core in the middle of a job that gets no answer stays where it is, and
\* the core of a finished job stays silent.
LEMMA CoreClocked ==
    ASSUME JobInv, Effects, NEW awNow \in BOOLEAN, NEW wNow \in BOOLEAN,
           NEW arNow \in BOOLEAN, Clocked(awNow, wNow, arNow)
    PROVE  /\ CoreScriptOK'
           /\ rst' => pe'.todo = << >>
           /\ WriteOf("pe") /\ ~WritePerformed => ~rst /\ ~rst' /\ pe' = pe
           /\ ReadOf("pe") /\ ~ReadPerformed => ~rst /\ ~rst' /\ pe' = pe
           /\ ~rst /\ ~rst' /\ ~WriteOf("pe") /\ ~ReadOf("pe") => pe' = pe
           /\ Acknowledging => ~rst /\ ~rst' /\ pe'.todo = << >> /\ ~ReadOf("pe")
<1>1. /\ pe' = IF ~rstn' THEN Halted
               ELSE IF ~rstn THEN Booted
               ELSE IF Answered("pe") THEN PENext(rdata) ELSE pe
      /\ loaded' = loaded
    BY DEF Clocked, Programs
<1>2. RunInv' /\ rst' \in BOOLEAN
    BY RegistersClocked DEF RegTypes
<1>3. /\ rstn = ~rst /\ rst \in BOOLEAN /\ grace \in Nat
      /\ rstn' = ~rst' /\ rst' \in BOOLEAN
    BY <1>2 DEF JobInv, RegTypes, RunInv
<1>4. WritePerformed => wbus # None
    BY BusesClocked
<1>5. ReadPerformed => rbus # None
    BY BusesClocked
<1>6. Answered("pe") <=> \/ WriteOf("pe") /\ WritePerformed
                         \/ ReadOf("pe") /\ ReadPerformed
    BY <1>4, <1>5 DEF Answered, WriteOf, ReadOf
<1>7. /\ WriteOf("pe") \/ ReadOf("pe") =>
            /\ pe.todo # << >>
            /\ Head(pe.todo) \in {"arg1", "arg2", "ret", "trap", "panic", "intr",
                                  "text", "hex"}
      /\ WriteOf("pe") => Head(pe.todo) \in {"ret", "trap", "panic", "intr"}
      /\ ReadOf("pe") => Head(pe.todo) \in {"arg1", "arg2", "text", "hex"}
    BY DEF JobInv, Owned
<1>8. ~(WriteOf("pe") /\ ReadOf("pe"))
    <2>1. {"ret", "trap", "panic", "intr"} \cap {"arg1", "arg2", "text", "hex"} = {}
        OBVIOUS
    <2>. QED BY <1>7, <2>1
<1>9. CoreScriptOK'
    <2>1. CASE pe' = Halted \/ pe' = Booted
        <3>1. CASE pe' = Halted \/ (pe' = Booted /\ loaded = None)
            <4>0. pe' = [todo |-> << >>, a |-> 0, b |-> 0]
                BY <3>1 DEF Halted, Booted
            <4>1. pe'.todo = << >> /\ pe' \in [todo : Seq(CoreStep), a : Nat, b : Nat]
                BY <4>0
            <4>. QED BY <1>1, <4>1 DEF JobInv, CoreScriptOK, Has
        <3>2. CASE pe' = Booted /\ loaded # None
            <4>. DEFINE s == Program[loaded]
            <4>1. loaded \in DOMAIN Program
                BY <3>2 DEF JobInv, CoreScriptOK
            <4>2. /\ s \in Seq(CoreStep)
                  /\ \A i \in 1 .. Len(s) : s[i] = "intr" => i = Len(s)
                  /\ Has(s, "ret") => Returns(loaded)
                BY <4>1, CoreScripts
            <4>3. pe' = [todo |-> s, a |-> 0, b |-> 0]
                BY <3>2 DEF Booted
            <4>. HIDE DEF s
            <4>4. pe' \in [todo : Seq(CoreStep), a : Nat, b : Nat] /\ pe'.todo = s
                BY <4>2, <4>3
            <4>. QED BY <1>1, <4>1, <4>2, <4>4 DEF CoreScriptOK
        <3>. QED BY <2>1, <3>1, <3>2
    <2>2. CASE Answered("pe") /\ pe' = PENext(rdata)
        <3>1. rdata \in Nat
            BY BusesClocked
        <3>. QED BY <1>1, <1>6, <1>7, <2>2, <3>1, CoreAnswered DEF JobInv
    <2>3. CASE pe' = pe
        BY <1>1, <2>3 DEF JobInv, CoreScriptOK
    <2>. QED BY <1>1, <2>1, <2>2, <2>3
<1>10. rst' => pe'.todo = << >>
    BY <1>1, <1>3 DEF Halted
<1>11. ASSUME \/ WriteOf("pe") /\ ~WritePerformed
              \/ ReadOf("pe") /\ ~ReadPerformed
       PROVE  ~rst /\ ~rst' /\ pe' = pe
    <2>1. ~CoreSilent /\ ~Acknowledging
        BY <1>8, <1>11 DEF CoreSilent, Acknowledging, Waits, WriteOf, ReadOf
    <2>2. ~rst /\ grace = 0
        BY <1>3, <2>1 DEF JobInv, Control
    <2>3. ~rst'
        <3>1. ~resetAll
            BY <2>2 DEF resetAll
        <3>. QED BY <1>3, <2>2, <3>1 DEF Clocked, Registers, UpdateReset
    <2>. QED BY <1>1, <1>3, <1>6, <1>8, <1>11, <2>2, <2>3
<1>12. ASSUME ~rst, ~rst', ~WriteOf("pe"), ~ReadOf("pe") PROVE pe' = pe
    BY <1>1, <1>3, <1>6, <1>12
<1>13. ASSUME Acknowledging
       PROVE  ~rst /\ ~rst' /\ pe'.todo = << >> /\ ~ReadOf("pe")
    <2>1. /\ WriteOf("pe") /\ WritePerformed /\ wbus.addr = IAR
          /\ grace = GraceCycles /\ grace > 1
        BY <1>13, GraceAssumption DEF Acknowledging
    <2>2. ~rst
        <3>1. grace > 0
            BY <2>1, GraceAssumption
        <3>. QED BY <3>1 DEF JobInv, RegTypes, RunInv
    <2>3. ~rst'
        <3>1. grace # 1
            BY <2>1, GraceAssumption
        <3>. QED BY <2>2, <3>1 DEF Clocked, Registers, UpdateReset, resetAll
    <2>4. Head(pe.todo) = "intr"
        BY <2>1, Offsets DEF JobInv, Owned
    <2>5. pe' = PENext(rdata)
        BY <1>1, <1>3, <1>6, <2>1, <2>2, <2>3
    <2>6. pe'.todo = << >>
        <3>1. rdata \in Nat
            BY BusesClocked
        <3>. QED BY <1>1, <1>7, <2>1, <2>4, <2>5, <3>1, CoreAnswered DEF JobInv
    <2>. QED BY <1>8, <2>1, <2>2, <2>3, <2>6
<1>. QED BY <1>9, <1>10, <1>11, <1>12, <1>13

LEMMA OwnedClocked ==
    ASSUME JobInv, Effects, NEW awNow \in BOOLEAN, NEW wNow \in BOOLEAN,
           NEW arNow \in BOOLEAN, Clocked(awNow, wNow, arNow)
    PROVE  /\ Owned'
           /\ WriteOf("pe")' => WriteOf("pe") /\ ~WritePerformed
           /\ ReadOf("pe")' => ReadOf("pe") /\ ~ReadPerformed
<1>1. wbus' # None => SameWrite /\ ~WritePerformed
    BY BusesClocked
<1>2. rbus' # None => SameRead /\ ~ReadPerformed
    BY BusesClocked
<1>3. /\ WriteOf("host")' => WriteOf("host") /\ ~WritePerformed
      /\ WriteOf("pe")' => WriteOf("pe") /\ ~WritePerformed
      /\ wbus' # None => wbus'.addr = wbus.addr /\ wbus'.data = wbus.data
    BY <1>1 DEF WriteOf, SameWrite
<1>4. /\ ReadOf("host")' => ReadOf("host") /\ ~ReadPerformed
      /\ ReadOf("pe")' => ReadOf("pe") /\ ~ReadPerformed
      /\ rbus' # None => rbus'.addr = rbus.addr
    BY <1>2 DEF ReadOf, SameRead
<1>5. /\ WriteOf("host") /\ ~WritePerformed => host' = host
      /\ ReadOf("host") /\ ~ReadPerformed => host' = host
    BY HostClocked
<1>6. /\ WriteOf("pe") /\ ~WritePerformed => pe' = pe
      /\ ReadOf("pe") /\ ~ReadPerformed => pe' = pe
    BY CoreClocked
<1>7. /\ WriteOf("host")' \/ WriteOf("pe")' => wbus' # None
      /\ ReadOf("host")' \/ ReadOf("pe")' => rbus' # None
    BY DEF WriteOf, ReadOf
<1>8. WriteOf("host")' =>
          \/ wbus'.addr = CTRL /\ wbus'.data = 1 /\ HostAt("start")'
          \/ wbus'.addr = ArgReg[1] /\ HostAt("arg1")'
          \/ wbus'.addr = ArgReg[2] /\ HostAt("arg2")'
          \/ wbus'.addr = ArgReg[3] /\ HostAt("arg3")'
    BY <1>3, <1>5, <1>7 DEF JobInv, Owned, HostAt
<1>9. ReadOf("host")' => rbus'.addr = RETL /\ HostAt("getret")'
    BY <1>4, <1>5, <1>7 DEF JobInv, Owned, HostAt
<1>10. WriteOf("pe")' =>
          /\ pe'.todo # << >>
          /\ \/ wbus'.addr = IAR /\ Head(pe'.todo) = "intr"
             \/ wbus'.addr = RETL /\ Head(pe'.todo) \in {"ret", "trap", "panic"}
    BY <1>3, <1>6, <1>7 DEF JobInv, Owned
<1>11. ReadOf("pe")' =>
          /\ pe'.todo # << >>
          /\ \/ rbus'.addr = ArgReg[1] /\ Head(pe'.todo) = "arg1"
             \/ rbus'.addr = ArgReg[2] /\ Head(pe'.todo) = "arg2"
             \/ rbus'.addr = ArgReg[3] /\ Head(pe'.todo) \in {"text", "hex"}
    BY <1>4, <1>6, <1>7 DEF JobInv, Owned
<1>12. Owned'
    BY <1>8, <1>9, <1>10, <1>11 DEF Owned
<1>. QED BY <1>3, <1>4, <1>12

LEMMA ControlClocked ==
    ASSUME JobInv, Effects, NEW awNow \in BOOLEAN, NEW wNow \in BOOLEAN,
           NEW arNow \in BOOLEAN, Clocked(awNow, wNow, arNow)
    PROVE  Control'
<1>1. /\ Registers /\ irq' = (irq \/ SetsIntr)
      /\ rst \in BOOLEAN /\ ctrl \in BOOLEAN /\ irq \in BOOLEAN /\ grace \in Nat
      /\ grace > 0 => ~rst
    BY DEF Clocked, Programs, JobInv, RegTypes, RunInv
<1>2. /\ wbus' # None => SameWrite /\ ~WritePerformed
      /\ WriteQueued => WritePerformed' /\ SameWrite
      /\ handle_write <=> WriteQueued
    BY BusesClocked
<1>3. WriteQueued => ~WritePerformed
    BY DEF WriteQueued, WritePerformed
<1>4. HostAt("wait") => host' = host
    BY HostClocked
<1>5. SetsIntr => /\ WriteQueued /\ WriteOf("pe") /\ wbus.addr = IAR
                  /\ HostAt("wait") /\ ~irq /\ ~rst
    BY DEF Effects, SetsIntr, Writes
<1>6. /\ WriteOf("pe")' => WriteOf("pe") /\ ~WritePerformed
      /\ ReadOf("pe")' => ReadOf("pe") /\ ~ReadPerformed
    BY OwnedClocked
<1>7. Waits("pe") <=> WriteOf("pe") \/ ReadOf("pe")
    BY DEF Waits, WriteOf, ReadOf
<1>8. Waits("pe")' <=> WriteOf("pe")' \/ ReadOf("pe")'
    BY DEF Waits, WriteOf, ReadOf
<1>9. /\ rst' => pe'.todo = << >>
      /\ WriteOf("pe") /\ ~WritePerformed => ~rst'
      /\ ReadOf("pe") /\ ~ReadPerformed => ~rst'
      /\ ~rst /\ ~rst' /\ ~WriteOf("pe") /\ ~ReadOf("pe") => pe' = pe
      /\ Acknowledging => ~rst /\ ~rst' /\ pe'.todo = << >> /\ ~ReadOf("pe")
    BY CoreClocked
<1>10. rst' = IF handle_start \/ resetAll THEN resetAll ELSE rst
    BY <1>1 DEF Registers, UpdateReset
<1>11. grace' = IF SetsIntr THEN GraceCycles
                ELSE IF resetAll THEN 0
                ELSE IF graceDown THEN grace - 1 ELSE grace
    BY <1>1 DEF Registers, UpdateGrace
<1>12. ASSUME ~rst', grace' = 0 PROVE HostAt("wait")' /\ ~irq'
    <2>1. CASE rst
        <3>1. handle_start
            BY <1>10, <1>12, <2>1
        <3>2. WriteOf("host") /\ WritePerformed /\ HostAt("start")
            BY <3>1 DEF handle_start, JobInv, Control
        <3>3. HostAt("wait")'
            BY <3>2, HostClocked
        <3>4. ~irq
            BY <3>2 DEF JobInv, Control, HostAt
        <3>5. ~SetsIntr
            BY <1>5, <2>1
        <3>. QED BY <1>1, <3>3, <3>4, <3>5
    <2>2. CASE ~rst
        <3>1. ~SetsIntr
            BY <1>11, <1>12, GraceAssumption
        <3>2. ~resetAll
            BY <1>10, <1>12
        <3>3. grace = 0
            <4>1. CASE graceDown
                BY <1>1, <1>11, <1>12, <3>1, <3>2, <4>1 DEF graceDown
            <4>2. CASE ~graceDown
                BY <1>11, <1>12, <3>1, <3>2, <4>2
            <4>. QED BY <4>1, <4>2
        <3>4. HostAt("wait") /\ ~irq
            BY <2>2, <3>3 DEF JobInv, Control
        <3>. QED BY <1>1, <1>4, <3>1, <3>4 DEF HostAt
    <2>. QED BY <2>1, <2>2
<1>13. irq' => HostAt("wait")'
    <2>. SUFFICES ASSUME irq' PROVE HostAt("wait")'
        OBVIOUS
    <2>1. HostAt("wait")
        BY <1>1, <1>5 DEF JobInv, Control
    <2>. QED BY <1>4, <2>1 DEF HostAt
<1>14. ASSUME ctrl', rst' PROVE WriteOf("host")' /\ WritePerformed' /\ HostAt("start")'
    <2>1. CASE Writes(CTRL)
        <3>1. WriteQueued /\ WriteOf("host") /\ HostAt("start")
            BY <2>1 DEF Effects, Writes
        <3>2. WritePerformed' /\ WriteOf("host")'
            BY <1>2, <3>1 DEF SameWrite, WriteOf
        <3>3. host' = host
            BY <1>3, <3>1, HostClocked
        <3>. QED BY <3>1, <3>2, <3>3 DEF HostAt
    <2>2. CASE ~Writes(CTRL)
        <3>1. ctrl /\ ~resetAll
            BY <1>1, <1>14, <2>2 DEF Registers, UpdateCtrl
        <3>2. ~handle_start /\ rst
            BY <1>10, <1>14, <3>1
        <3>. QED BY <3>1, <3>2 DEF handle_start
    <2>. QED BY <2>1, <2>2
<1>15. rst' => CoreSilent'
    BY <1>6, <1>8, <1>9 DEF CoreSilent
<1>16. ASSUME grace' > 0 PROVE CoreSilent' \/ Acknowledging'
    <2>1. CASE SetsIntr
        <3>1. grace' = GraceCycles
            BY <1>11, <2>1
        <3>2. WritePerformed' /\ WriteOf("pe")' /\ wbus'.addr = IAR
            BY <1>2, <1>5, <2>1 DEF SameWrite, WriteOf
        <3>. QED BY <3>1, <3>2 DEF Acknowledging
    <2>2. CASE ~SetsIntr
        <3>1. ~resetAll
            BY <1>11, <1>16, <2>2
        <3>2. grace > 0
            <4>1. CASE graceDown
                BY <1>1, <4>1 DEF graceDown
            <4>2. CASE ~graceDown
                BY <1>11, <1>16, <2>2, <3>1, <4>2
            <4>. QED BY <4>1, <4>2
        <3>3. ~rst /\ ~rst'
            BY <1>1, <1>10, <3>1, <3>2 DEF handle_start
        <3>4. CoreSilent \/ Acknowledging
            BY <3>2 DEF JobInv, Control
        <3>5. CASE CoreSilent
            <4>1. pe' = pe /\ pe.todo = << >>
                BY <1>7, <1>9, <3>3, <3>5 DEF CoreSilent
            <4>2. ~Waits("pe")'
                BY <1>6, <1>7, <1>8, <3>5 DEF CoreSilent
            <4>. QED BY <4>1, <4>2 DEF CoreSilent
        <3>6. CASE Acknowledging
            <4>1. pe'.todo = << >> /\ ~ReadOf("pe") /\ WritePerformed
                BY <1>9, <3>6 DEF Acknowledging
            <4>2. ~Waits("pe")'
                BY <1>6, <1>8, <4>1
            <4>. QED BY <4>1, <4>2 DEF CoreSilent
        <3>. QED BY <3>4, <3>5, <3>6
    <2>. QED BY <2>1, <2>2
<1>. QED BY <1>12, <1>13, <1>14, <1>15, <1>16 DEF Control

LEMMA ClockStep == JobInv /\ Clock => JobInv'
<1>. SUFFICES ASSUME JobInv, NEW awNow \in BOOLEAN, NEW wNow \in BOOLEAN,
                     NEW arNow \in BOOLEAN, Tick(awNow, wNow, arNow)
              PROVE  JobInv'
    BY DEF Clock
<1>1. Clocked(awNow, wNow, arNow)
    BY TickParts
<1>2. Effects
    BY WriteEffects
<1>3. RegTypes'
    BY <1>1, <1>2, RegistersClocked
<1>4. WritePlace' /\ ReadPlace'
    BY <1>1, BusesClocked
<1>5. HostScriptOK'
    BY <1>1, HostClocked
<1>6. CoreScriptOK'
    BY <1>1, <1>2, CoreClocked
<1>7. Owned'
    BY <1>1, <1>2, OwnedClocked
<1>8. Control'
    BY <1>1, <1>2, ControlClocked
<1>. QED BY <1>3, <1>4, <1>5, <1>6, <1>7, <1>8 DEF JobInv

-----------------------------------------------------------------------------
LEMMA JobStep == JobInv /\ [JobNext]_jobvars => JobInv'
<1>. SUFFICES ASSUME JobInv, [JobNext]_jobvars PROVE JobInv'
    OBVIOUS
<1>1. CASE Host
    BY <1>1, NewJobStep, LoadProgramStep, HostAccessStep, TakeInterruptStep DEF Host
<1>2. CASE HostExits
    BY <1>2, HostExitsStep
<1>3. CASE Core
    BY <1>3, PEAccessStep, PELocalStep DEF Core
<1>4. CASE Clock
    BY <1>4, ClockStep
<1>5. CASE UNCHANGED jobvars
    <2>1. UNCHANGED vars /\ UNCHANGED <<host, pe, loaded, wbus, rbus, irq>>
        BY <1>5 DEF jobvars, envvars, memvars
    <2>2. RegTypes' /\ WritePlace' /\ ReadPlace' /\ (WritePerformed' <=> WritePerformed)
        BY <2>1, RegistersStay DEF JobInv, RegTypes
    <2>3. HostScriptOK' /\ CoreScriptOK' /\ Owned'
        BY <2>1 DEF JobInv, HostScriptOK, CoreScriptOK, Owned, WriteOf, ReadOf, HostAt
    <2>4. Control'
        BY <2>1, <2>2 DEF JobInv, Control, CoreSilent, Acknowledging, Waits, WriteOf,
           HostAt, vars, ctlvars
    <2>. QED BY <2>2, <2>3, <2>4 DEF JobInv
<1>. QED BY <1>1, <1>2, <1>3, <1>4, <1>5 DEF JobNext

LEMMA JobInvariance == JobSpec => []JobInv
<1>1. JobInit => JobInv
    BY JobInvInit
<1>2. JobInv /\ [JobNext]_jobvars => JobInv'
    BY JobStep
<1>. QED BY <1>1, <1>2, PTL DEF JobSpec

(***************************************************************************)
(* The controller raises the interrupt only while the host process of the  *)
(* job waits for it, however long the host takes from one call to the next *)
(* and however the halves of the writes fall: no interrupt is left over to *)
(* end a later job before it has run.                                      *)
(***************************************************************************)
THEOREM InterruptsExpected == JobSpec => []NoSpuriousInterrupt
<1>1. JobInv => NoSpuriousInterrupt
    <2>1. JobInv => Effects
        BY WriteEffects
    <2>. QED BY <2>1 DEF Effects, NoSpuriousInterrupt, SetsIntr
<1>. QED BY <1>1, JobInvariance, PTL

(***************************************************************************)
(* While the core is out of reset and no grace period runs, the argument   *)
(* registers keep their values: the program reads what its host wrote,     *)
(* never a mixture with the arguments of the next job.                     *)
(***************************************************************************)
THEOREM ArgumentsStable == JobSpec => ArgsStable
<1>1. JobInv /\ [JobNext]_jobvars => [rstn /\ grace = 0 => args' = args]_jobvars
    <2>. SUFFICES ASSUME JobInv, [JobNext]_jobvars, rstn, grace = 0
                  PROVE  args' = args
        BY DEF jobvars
    <2>1. HostAt("wait")
        BY DEF JobInv, RegTypes, RunInv, Control
    <2>2. CASE Clock
        <3>1. PICK awNow, wNow, arNow \in BOOLEAN : Tick(awNow, wNow, arNow)
            BY <2>2 DEF Clock
        <3>2. UpdateArgs
            BY <3>1 DEF Tick, Cycle
        <3>3. \A i \in 0 .. 4 : ~Writes(ArgReg[i])
            <4>1. ASSUME NEW i \in 0 .. 4, Writes(ArgReg[i]) PROVE FALSE
                <5>1. i \in 1 .. 3 /\ HostAt(ArgStep[i])
                    BY <4>1, WriteEffects DEF Effects
                <5>2. ArgStep[i] # "wait"
                    BY <5>1 DEF ArgStep
                <5>. QED BY <2>1, <5>1, <5>2 DEF HostAt
            <4>. QED BY <4>1
        <3>4. args \in [0 .. 4 -> Nat]
            BY DEF JobInv, RegTypes
        <3>. QED BY <3>2, <3>3, <3>4 DEF UpdateArgs
    <2>3. CASE ~Clock
        BY <2>3 DEF JobNext, Host, Core, NewJob, LoadProgram, HostAccess,
           TakeInterrupt, HostExits, PEAccess, PELocal, initInterrupts, initPrint,
           print, RiskyAccess, PEContinues, jobvars, vars, ctlvars
    <2>. QED BY <2>2, <2>3
<1>. QED BY <1>1, JobInvariance, PTL DEF JobSpec, ArgsStable

-----------------------------------------------------------------------------
(***************************************************************************)
(* The jobs implement JobService.  ServiceInv adds to JobInv what the      *)
(* registers hold for the job under way: the host's operands once it has   *)
(* written them, what the core has read of them, and the result once the   *)
(* core has written it.                                                    *)
(***************************************************************************)
Input == [prog |-> host.prog, a |-> host.a, b |-> host.b]

\* What is left of a host program.
HostRest(kind) ==
    {<< >>, <<"getret">>, <<"wait", "getret">>, <<"start", "wait", "getret">>}
    \cup CASE kind = "template" -> {<<"load", "start", "wait", "getret">>}
           [] kind = "c" ->
                {<<"arg2", "start", "wait", "getret">>,
                 <<"arg1", "arg2", "start", "wait", "getret">>,
                 <<"load", "arg1", "arg2", "start", "wait", "getret">>}
           [] kind = "cpp" ->
                {<<"arg3", "start", "wait", "getret">>,
                 <<"arg2", "arg3", "start", "wait", "getret">>,
                 <<"arg1", "arg2", "arg3", "start", "wait", "getret">>,
                 <<"load", "arg1", "arg2", "arg3", "start", "wait", "getret">>}

\* The job is one of those configured.
HostJob ==
    \/ host.kind = None /\ host.todo = << >>
    \/ /\ host.kind \in DOMAIN HostScript
       /\ <<host.kind, host.prog>> \in Job
       /\ host.kind = "template" =>
             host.a = None /\ host.b = None /\ host.prog # "simple_sum"
       /\ host.kind # "template" => <<host.a, host.b>> \in Args
       /\ Args # {}
       /\ host.todo \in HostRest(host.kind)

Past(step) ==
    /\ host.todo # << >>
    /\ Head(host.todo) \in
          CASE step = "load" -> {"arg1", "arg2", "arg3", "start", "wait", "getret"}
            [] step = "arg1" -> {"arg2", "arg3", "start", "wait", "getret"}
            [] step = "arg2" -> {"arg3", "start", "wait", "getret"}

HostLoaded == Past("load") => loaded = host.prog

\* The host's operand is in its register once the write was answered.
HostWrote(i, step, operand) ==
    /\ host.kind # "template" /\ Past(step) => args[i] = operand
    /\ WriteOf("host") /\ HostAt(step) =>
          /\ wbus.data = operand
          /\ WritePerformed => args[i] = operand

HostInv ==
    /\ HostJob
    /\ HostLoaded
    /\ HostWrote(1, "arg1", host.a)
    /\ HostWrote(2, "arg2", host.b)

Running == ~rst /\ grace = 0

\* The arguments are read before the result is written, and only a program
\* that has a trap handler ends in it.
ArgsFirst(todo) ==
    \A i, j \in 1 .. Len(todo) :
       todo[i] = "ret" /\ todo[j] \in {"arg1", "arg2"} => j < i

CoreOrder ==
    /\ ArgsFirst(pe.todo)
    /\ \A step \in {"init", "store", "rom", "trap", "panic"} :
          Has(pe.todo, step) => loaded \in DOMAIN Program /\ MayFail(loaded)

\* simple_sum has the host's operand once its read was answered.
CoreTook(step, taken, operand) ==
    Running /\ loaded = "simple_sum" =>
       /\ ~Has(pe.todo, step) => taken = operand
       /\ ReadOf("pe") /\ ReadPerformed /\ Head(pe.todo) = step =>
             rd_s_out[1] = operand

\* The return register holds a result once the core has nothing more to
\* write to it.
ToReturn == \E step \in {"ret", "trap", "panic"} : Has(pe.todo, step)

CoreReturned ==
    /\ ret[1] \in Data
    /\ Running /\ ~ToReturn => ret[1] \in Results(Input)
    /\ WriteOf("pe") /\ wbus.addr = RETL =>
          /\ wbus.data \in Data /\ wbus.data \in Results(Input)
          /\ WritePerformed => ret[1] = wbus.data

CoreInv ==
    /\ CoreOrder
    /\ CoreTook("arg1", pe.a, host.a)
    /\ CoreTook("arg2", pe.b, host.b)
    /\ CoreReturned

ServiceInv == HostInv /\ CoreInv


-----------------------------------------------------------------------------
\* Scripts of the host, step by step.
LEMMA HostRests ==
    ASSUME NEW kind \in DOMAIN HostScript
    PROVE  /\ HostScript[kind] \in HostRest(kind)
           /\ HostScript[kind] # << >> /\ Head(HostScript[kind]) = "load"
           /\ << >> \in HostRest(kind)
<1>1. CASE kind = "template"
    <2>1. HostScript[kind] = <<"load", "start", "wait", "getret">>
        BY <1>1 DEF HostScript, host_template
    <2>2. HostScript[kind] # << >> /\ Head(HostScript[kind]) = "load"
        BY <2>1
    <2>. QED BY <1>1, <2>1, <2>2 DEF HostRest
<1>2. CASE kind = "c"
    <2>1. HostScript[kind] = <<"load", "arg1", "arg2", "start", "wait", "getret">>
        BY <1>2 DEF HostScript, simple_sum_host_c
    <2>2. HostScript[kind] # << >> /\ Head(HostScript[kind]) = "load"
        BY <2>1
    <2>. QED BY <1>2, <2>1, <2>2 DEF HostRest
<1>3. CASE kind = "cpp"
    <2>1. HostScript[kind] = <<"load", "arg1", "arg2", "arg3", "start", "wait", "getret">>
        BY <1>3 DEF HostScript, simple_sum_host_cpp
    <2>2. HostScript[kind] # << >> /\ Head(HostScript[kind]) = "load"
        BY <2>1
    <2>. QED BY <1>3, <2>1, <2>2 DEF HostRest
<1>. QED BY <1>1, <1>2, <1>3 DEF HostScript

StepsFrom(step) ==
    CASE step = "load" -> {"arg1", "start"}
      [] step = "arg1" -> {"arg2"}
      [] step = "arg2" -> {"arg3", "start"}
      [] step = "arg3" -> {"start"}
      [] step = "start" -> {"wait"}
      [] step = "wait" -> {"getret"}

LEMMA RestTail ==
    ASSUME NEW kind \in DOMAIN HostScript, NEW t \in HostRest(kind), t # << >>
    PROVE  /\ Tail(t) \in HostRest(kind)
           /\ Head(t) = "getret" => Tail(t) = << >>
           /\ Head(t) # "getret" =>
                /\ Head(t) \in {"load", "arg1", "arg2", "arg3", "start", "wait"}
                /\ Tail(t) # << >> /\ Head(Tail(t)) \in StepsFrom(Head(t))
           /\ kind = "template" =>
                Head(t) \in {"load", "start", "wait", "getret"}
           /\ Head(t) = "load" /\ kind # "template" => Head(Tail(t)) = "arg1"
<1>1. CASE t \in {<<"getret">>, <<"wait", "getret">>, <<"start", "wait", "getret">>}
    <2>1. CASE t = <<"getret">>
        BY <2>1 DEF HostRest
    <2>2. CASE t = <<"wait", "getret">>
        <3>1. Tail(t) = <<"getret">> /\ Head(t) = "wait" /\ Head(Tail(t)) = "getret"
              /\ Tail(t) # << >>
            BY <2>2
        <3>. QED BY <3>1 DEF HostRest, StepsFrom
    <2>3. CASE t = <<"start", "wait", "getret">>
        <3>1. Tail(t) = <<"wait", "getret">> /\ Head(t) = "start"
              /\ Head(Tail(t)) = "wait" /\ Tail(t) # << >>
            BY <2>3
        <3>. QED BY <3>1 DEF HostRest, StepsFrom
    <2>. QED BY <1>1, <2>1, <2>2, <2>3
<1>2. CASE kind = "template" /\ t = <<"load", "start", "wait", "getret">>
    <2>1. Tail(t) = <<"start", "wait", "getret">> /\ Head(t) = "load"
          /\ Head(Tail(t)) = "start"
        BY <1>2
    <2>. QED BY <1>2, <2>1 DEF HostRest, StepsFrom
<1>3. CASE kind = "c" /\ t = <<"arg2", "start", "wait", "getret">>
    <2>1. Tail(t) = <<"start", "wait", "getret">> /\ Head(t) = "arg2"
          /\ Head(Tail(t)) = "start"
        BY <1>3
    <2>. QED BY <1>3, <2>1 DEF HostRest, StepsFrom
<1>4. CASE kind = "c" /\ t = <<"arg1", "arg2", "start", "wait", "getret">>
    <2>1. Tail(t) = <<"arg2", "start", "wait", "getret">> /\ Head(t) = "arg1"
          /\ Head(Tail(t)) = "arg2"
        BY <1>4
    <2>. QED BY <1>4, <2>1 DEF HostRest, StepsFrom
<1>5. CASE kind = "c" /\ t = <<"load", "arg1", "arg2", "start", "wait", "getret">>
    <2>1. Tail(t) = <<"arg1", "arg2", "start", "wait", "getret">> /\ Head(t) = "load"
          /\ Head(Tail(t)) = "arg1"
        BY <1>5
    <2>. QED BY <1>5, <2>1 DEF HostRest, StepsFrom
<1>6. CASE kind = "cpp" /\ t = <<"arg3", "start", "wait", "getret">>
    <2>1. Tail(t) = <<"start", "wait", "getret">> /\ Head(t) = "arg3"
          /\ Head(Tail(t)) = "start"
        BY <1>6
    <2>. QED BY <1>6, <2>1 DEF HostRest, StepsFrom
<1>7. CASE kind = "cpp" /\ t = <<"arg2", "arg3", "start", "wait", "getret">>
    <2>1. Tail(t) = <<"arg3", "start", "wait", "getret">> /\ Head(t) = "arg2"
          /\ Head(Tail(t)) = "arg3"
        BY <1>7
    <2>. QED BY <1>7, <2>1 DEF HostRest, StepsFrom
<1>8. CASE kind = "cpp" /\ t = <<"arg1", "arg2", "arg3", "start", "wait", "getret">>
    <2>1. Tail(t) = <<"arg2", "arg3", "start", "wait", "getret">> /\ Head(t) = "arg1"
          /\ Head(Tail(t)) = "arg2"
        BY <1>8
    <2>. QED BY <1>8, <2>1 DEF HostRest, StepsFrom
<1>9. CASE kind = "cpp"
           /\ t = <<"load", "arg1", "arg2", "arg3", "start", "wait", "getret">>
    <2>1. Tail(t) = <<"arg1", "arg2", "arg3", "start", "wait", "getret">>
          /\ Head(t) = "load" /\ Head(Tail(t)) = "arg1"
        BY <1>9
    <2>. QED BY <1>9, <2>1 DEF HostRest, StepsFrom
<1>10. kind \in {"template", "c", "cpp"}
    BY DEF HostScript
<1>. QED BY <1>1, <1>2, <1>3, <1>4, <1>5, <1>6, <1>7, <1>8, <1>9, <1>10 DEF HostRest

\* What the scripts of the core have that matters for the result.
LEMMA CoreScriptFacts ==
    ASSUME NEW p \in DOMAIN Program
    PROVE  /\ ArgsFirst(Program[p])
           /\ \A step \in {"init", "store", "rom", "trap", "panic"} :
                 Has(Program[p], step) => MayFail(p)
           /\ Returns(p) => Has(Program[p], "ret")
           /\ p = "simple_sum" => /\ Has(Program[p], "arg1") /\ Has(Program[p], "arg2")
                                  /\ ~MayFail(p)
<1>1. CASE p = "simple_sum"
    <2>1. Program[p] = <<"arg1", "arg2", "ret", "intr">>
        BY <1>1 DEF Program, simple_sum
    <2>. DEFINE s == <<"arg1", "arg2", "ret", "intr">>
    <2>2. /\ \A i, j \in 1 .. Len(s) : s[i] = "ret" /\ s[j] \in {"arg1", "arg2"} => j < i
          /\ \A i \in 1 .. Len(s) : s[i] \notin {"init", "store", "rom", "trap", "panic"}
          /\ 1 \in 1 .. Len(s) /\ s[1] = "arg1"
          /\ 2 \in 1 .. Len(s) /\ s[2] = "arg2"
          /\ 3 \in 1 .. Len(s) /\ s[3] = "ret"
          /\ DOMAIN s = 1 .. Len(s)
        OBVIOUS
    <2>. HIDE DEF s
    <2>3. Program[p] = s
        BY <2>1 DEF s
    <2>. QED BY <1>1, <2>2, <2>3 DEF ArgsFirst, Has, MayFail, Returns
<1>2. CASE p = "localsum"
    <2>1. Program[p] = <<"init", "store", "ret", "intr">>
        BY <1>2 DEF Program, localsum
    <2>. DEFINE s == <<"init", "store", "ret", "intr">>
    <2>2. /\ \A i, j \in 1 .. Len(s) : s[i] = "ret" /\ s[j] \in {"arg1", "arg2"} => j < i
          /\ 1 \in DOMAIN s /\ s[1] = "init"
          /\ 3 \in 1 .. Len(s) /\ s[3] = "ret"
        OBVIOUS
    <2>. HIDE DEF s
    <2>3. Program[p] = s
        BY <2>1 DEF s
    <2>. QED BY <1>2, <2>2, <2>3 DEF ArgsFirst, Has, MayFail
<1>3. CASE p = "readargs"
    <2>1. Program[p] = <<"init", "ret", "text", "intr">>
        BY <1>3 DEF Program, readargs
    <2>. DEFINE s == <<"init", "ret", "text", "intr">>
    <2>2. /\ \A i, j \in 1 .. Len(s) : s[i] = "ret" /\ s[j] \in {"arg1", "arg2"} => j < i
          /\ 1 \in DOMAIN s /\ s[1] = "init"
          /\ 2 \in 1 .. Len(s) /\ s[2] = "ret"
        OBVIOUS
    <2>. HIDE DEF s
    <2>3. Program[p] = s
        BY <2>1 DEF s
    <2>. QED BY <1>3, <2>2, <2>3 DEF ArgsFirst, Has, MayFail
<1>4. CASE p = "read_dm"
    <2>1. Program[p] = <<"init", "initPrint", "arg1", "arg2",
                       "text", "hex", "rom", "hex", "rom", "ret", "intr">>
        BY <1>4 DEF Program, read_dm
    <2>. DEFINE s == <<"init", "initPrint", "arg1", "arg2",
                     "text", "hex", "rom", "hex", "rom", "ret", "intr">>
    <2>2. /\ \A i, j \in 1 .. Len(s) : s[i] = "ret" /\ s[j] \in {"arg1", "arg2"} => j < i
          /\ 1 \in DOMAIN s /\ s[1] = "init"
          /\ 10 \in 1 .. Len(s) /\ s[10] = "ret"
        OBVIOUS
    <2>. HIDE DEF s
    <2>3. Program[p] = s
        BY <2>1 DEF s
    <2>. QED BY <1>4, <2>2, <2>3 DEF ArgsFirst, Has, MayFail
<1>5. CASE p = "rv_template"
    <2>1. Program[p] = <<"intr">>
        BY <1>5 DEF Program, rv_template
    <2>. QED BY <1>5, <2>1 DEF ArgsFirst, Has, Returns
<1>. QED BY <1>1, <1>2, <1>3, <1>4, <1>5 DEF Program


-----------------------------------------------------------------------------
(***************************************************************************)
(* The host goes on.                                                       *)
(***************************************************************************)
LEMMA JobKept ==
    ASSUME HostJob, HostAdvances
    PROVE  /\ HostJob'
           /\ HostAt("getret") => host'.todo = << >>
           /\ ~HostAt("getret") => /\ host'.todo # << >>
                                   /\ Head(host'.todo) \in StepsFrom(Head(host.todo))
           /\ HostAt("load") /\ host.kind # "template" => HostAt("arg1")'
           /\ Head(host.todo) \in
                 {"load", "arg1", "arg2", "arg3", "start", "wait", "getret"}
<1>1. /\ host.todo # << >> /\ host'.todo = Tail(host.todo)
      /\ host'.kind = host.kind /\ host'.prog = host.prog
      /\ host'.a = host.a /\ host'.b = host.b
    BY DEF HostAdvances
<1>2. /\ host.kind \in DOMAIN HostScript /\ host.todo \in HostRest(host.kind)
      /\ <<host.kind, host.prog>> \in Job
      /\ host.kind = "template" =>
            host.a = None /\ host.b = None /\ host.prog # "simple_sum"
      /\ host.kind # "template" => <<host.a, host.b>> \in Args
      /\ Args # {}
    BY <1>1 DEF HostJob
<1>. DEFINE t == host.todo
            k == host.kind
<1>3. /\ Tail(t) \in HostRest(k)
      /\ Head(t) = "getret" => Tail(t) = << >>
      /\ Head(t) # "getret" =>
            /\ Head(t) \in {"load", "arg1", "arg2", "arg3", "start", "wait"}
            /\ Tail(t) # << >> /\ Head(Tail(t)) \in StepsFrom(Head(t))
      /\ Head(t) = "load" /\ k # "template" => Head(Tail(t)) = "arg1"
    <2>. HIDE DEF t, k
    <2>1. k \in DOMAIN HostScript /\ t \in HostRest(k) /\ t # << >>
        BY <1>1, <1>2 DEF t, k
    <2>. QED BY <2>1, RestTail
<1>4. HostJob'
    BY <1>1, <1>2, <1>3 DEF HostJob
<1>. QED BY <1>1, <1>3, <1>4 DEF HostAt

LEMMA JustPast ==
    ASSUME HostJob, HostAdvances, NEW step \in {"load", "arg1", "arg2"}, Past(step)',
           step # "load" => host.kind # "template"
    PROVE  Past(step) \/ HostAt(step)
<1>. DEFINE now == Head(host.todo)
            next == Head(host'.todo)
<1>1. /\ host.todo # << >>
      /\ now \in {"load", "arg1", "arg2", "arg3", "start", "wait", "getret"}
      /\ now = "getret" => host'.todo = << >>
      /\ now # "getret" => next \in StepsFrom(now)
      /\ now = "load" /\ host.kind # "template" => next = "arg1"
    BY JobKept DEF HostAt, HostAdvances
<1>2. host'.todo # << >>
    BY DEF Past
<1>3. CASE step = "load"
    BY <1>1, <1>3 DEF Past, HostAt
<1>4. CASE step = "arg1"
    <2>1. next \in {"arg2", "arg3", "start", "wait", "getret"}
        BY <1>4 DEF Past
    <2>2. now \in {"arg1", "arg2", "arg3", "start", "wait"}
        BY <1>1, <1>2, <1>4, <2>1
    <2>. QED BY <1>1, <1>4, <2>2 DEF Past, HostAt
<1>5. CASE step = "arg2"
    <2>1. next \in {"arg3", "start", "wait", "getret"}
        BY <1>5 DEF Past
    <2>2. now # "arg1"
        BY <1>1, <2>1 DEF StepsFrom
    <2>3. now \in {"arg2", "arg3", "start", "wait"}
        BY <1>1, <1>2, <1>5, <2>1, <2>2
    <2>. QED BY <1>1, <1>5, <2>3 DEF Past, HostAt
<1>. QED BY <1>3, <1>4, <1>5

\* No job runs: the core has at most its last answer to come.
LEMMA CoreIdle ==
    ASSUME JobInv, ~Running
    PROVE  /\ \A x : Has(pe.todo, x) => x = "intr"
           /\ ~ReadOf("pe")
           /\ ~(WriteOf("pe") /\ wbus.addr = RETL)
<1>1. CoreSilent \/ Acknowledging
    <2>1. grace \in Nat /\ rst \in BOOLEAN
        BY DEF JobInv, RegTypes
    <2>. QED BY <2>1 DEF JobInv, Control, Running
<1>2. CASE CoreSilent
    BY <1>2 DEF CoreSilent, Has, Waits, ReadOf, WriteOf
<1>3. CASE Acknowledging
    <2>. DEFINE s == pe.todo
    <2>1. /\ s # << >> /\ Head(s) = "intr" /\ s \in Seq(CoreStep)
          /\ \A i \in 1 .. Len(s) : s[i] = "intr" => i = Len(s)
          /\ wbus.addr # RETL
          /\ ~ReadOf("pe")
        BY <1>3, Offsets DEF Acknowledging, JobInv, Owned, CoreScriptOK
    <2>. HIDE DEF s
    <2>2. Len(s) \in Nat \ {0} /\ Head(s) = s[1]
        BY <2>1, ScriptTail
    <2>3. 1 \in 1 .. Len(s) /\ s[1] = "intr"
        BY <2>1, <2>2
    <2>4. Len(s) = 1
        BY <2>1, <2>3
    <2>5. \A x : Has(s, x) => x = "intr"
        BY <2>3, <2>4 DEF Has
    <2>. QED BY <2>1, <2>5 DEF s
<1>. QED BY <1>1, <1>2, <1>3

LEMMA CoreResting ==
    ASSUME JobInv, CoreInv, ~Running, UNCHANGED <<vars, pe>>,
           WriteOf("pe")' => WriteOf("pe") /\ wbus' = wbus
    PROVE  CoreInv'
<1>1. ~Running' /\ ret' = ret /\ pe' = pe
    BY DEF Running, vars, ctlvars
<1>2. \A x : Has(pe.todo, x) => x = "intr"
    BY CoreIdle
<1>3. CoreOrder'
    <2>1. \A step \in {"init", "store", "rom", "trap", "panic"} : ~Has(pe.todo, step)
        BY <1>2
    <2>. QED BY <1>1, <2>1 DEF CoreInv, CoreOrder
<1>4. CoreTook("arg1", pe.a, host.a)' /\ CoreTook("arg2", pe.b, host.b)'
    BY <1>1 DEF CoreTook
<1>5. CoreReturned'
    <2>1. ~(WriteOf("pe")' /\ wbus'.addr = RETL)
        BY CoreIdle
    <2>. QED BY <1>1, <2>1 DEF CoreInv, CoreReturned
<1>. QED BY <1>3, <1>4, <1>5 DEF CoreInv

LEMMA HostResting ==
    ASSUME JobInv, HostInv, UNCHANGED <<vars, host, loaded>>,
           WriteOf("host")' => wbus' = wbus
    PROVE  HostInv'
<1>1. args' = args
    BY DEF vars, ctlvars
<1>2. WriteOf("host")' => WriteOf("host") /\ (WritePerformed' <=> WritePerformed)
    BY DEF WriteOf, WritePerformed, vars, busvars
<1>3. \A step : HostAt(step)' = HostAt(step)
    BY DEF HostAt
<1>4. \A step : Past(step)' = Past(step)
    BY DEF Past
<1>. QED BY <1>1, <1>2, <1>3, <1>4 DEF HostInv, HostJob, HostLoaded, HostWrote


LEMMA ServiceInit == JobInit => ServiceInv
<1>. SUFFICES ASSUME JobInit PROVE ServiceInv
    OBVIOUS
<1>1. /\ host.todo = << >> /\ host.kind = None
      /\ pe.todo = << >> /\ wbus = None /\ rbus = None /\ rst /\ ret[1] = 0
    BY DEF JobInit, Init, NoJob, Halted
<1>2. HostInv
    BY <1>1 DEF HostInv, HostJob, HostLoaded, HostWrote, Past, WriteOf
<1>3. CoreInv
    BY <1>1, WordAssumption
       DEF CoreInv, CoreOrder, ArgsFirst, CoreTook, CoreReturned, Running, WriteOf, Has
<1>. QED BY <1>2, <1>3 DEF ServiceInv

LEMMA NewJobServes ==
    ASSUME <<"template", "simple_sum">> \notin Job, JobInv, ServiceInv, NewJob
    PROVE  ServiceInv'
<1>1. PICK job \in Job, x \in Args, buf \in Buf :
          host' = [todo |-> HostScript[job[1]], kind |-> job[1],
                   prog |-> job[2],
                   a |-> IF job[1] = "template" THEN None ELSE x[1],
                   b |-> IF job[1] = "template" THEN None ELSE x[2],
                   buf |-> IF job[1] = "cpp" THEN buf ELSE None,
                   ret |-> None]
    BY DEF NewJob
<1>2. job[1] \in DOMAIN HostScript /\ job = <<job[1], job[2]>> /\ x = <<x[1], x[2]>>
    BY JobAssumption
<1>3. /\ HostScript[job[1]] \in HostRest(job[1])
      /\ HostScript[job[1]] # << >> /\ Head(HostScript[job[1]]) = "load"
    BY <1>2, HostRests
<1>4. /\ host'.todo = HostScript[job[1]] /\ host'.kind = job[1] /\ host'.prog = job[2]
      /\ host'.a = IF job[1] = "template" THEN None ELSE x[1]
      /\ host'.b = IF job[1] = "template" THEN None ELSE x[2]
    BY <1>1
<1>5. HostJob'
    BY <1>2, <1>3, <1>4 DEF HostJob
<1>6. /\ host.todo = << >> /\ UNCHANGED <<vars, pe, wbus, rbus>>
      /\ ~HostAt("wait") /\ ~WriteOf("host")
    BY DEF NewJob, HostAt, JobInv, Owned, WriteOf
<1>7. \A step \in {"load", "arg1", "arg2"} : ~Past(step)'
    BY <1>3, <1>4 DEF Past
<1>8. HostInv'
    BY <1>5, <1>6, <1>7 DEF HostInv, HostLoaded, HostWrote, WriteOf
<1>9. ~Running
    BY <1>6, NotWaiting DEF Running
<1>10. CoreInv'
    BY <1>6, <1>9, CoreResting DEF ServiceInv, WriteOf
<1>. QED BY <1>8, <1>10 DEF ServiceInv

LEMMA LoadServes ==
    ASSUME JobInv, ServiceInv, LoadProgram
    PROVE  ServiceInv' /\ HostAdvances /\ ~HostAt("wait")
<1>1. /\ HostAt("load") /\ host.todo # << >> /\ loaded' = host.prog
      /\ host' = [host EXCEPT !.todo = Tail(@)]
      /\ UNCHANGED <<vars, pe, wbus, rbus>>
      /\ ~HostAt("wait") /\ ~HostAt("arg1") /\ ~HostAt("arg2")
      /\ ~Past("load") /\ ~Past("arg1") /\ ~Past("arg2")
    BY DEF LoadProgram, HostAt, Past
<1>2. HostAdvances
    BY <1>1, HostTail, 0 \in Nat DEF JobInv
<1>3. HostJob'
    BY <1>2, JobKept DEF ServiceInv, HostInv
<1>4. /\ host.kind # "template" => ~Past("arg1")' /\ ~Past("arg2")'
      /\ host'.kind = host.kind /\ host'.prog = host.prog
    BY <1>1, <1>2, JustPast DEF ServiceInv, HostInv, HostAdvances
<1>5. ~WriteOf("host")'
    BY <1>1 DEF HostAt, JobInv, Owned, WriteOf
<1>6. HostInv'
    BY <1>1, <1>3, <1>4, <1>5 DEF HostInv, HostLoaded, HostWrote
<1>7. ~Running
    BY <1>1, NotWaiting DEF Running
<1>8. CoreInv'
    BY <1>1, <1>7, CoreResting DEF ServiceInv, WriteOf
<1>. QED BY <1>1, <1>2, <1>6, <1>8 DEF ServiceInv

LEMMA ExitServes ==
    ASSUME JobInv, ServiceInv, HostExits
    PROVE  ServiceInv' /\ host'.todo = << >> /\ ~HostAt("wait")
<1>1. /\ ~Waits("host") /\ host'.todo = << >> /\ host'.kind = None
      /\ ~HostAt("wait") /\ UNCHANGED <<vars, pe, loaded, wbus, rbus>>
    BY DEF HostExits, HostAt, NoJob, memvars
<1>2. HostInv'
    BY <1>1 DEF HostInv, HostJob, HostLoaded, HostWrote, Past, WriteOf, Waits
<1>3. ~Running
    BY <1>1, NotWaiting DEF Running
<1>4. CoreInv'
    BY <1>1, <1>3, CoreResting DEF ServiceInv, WriteOf
<1>. QED BY <1>1, <1>2, <1>4 DEF ServiceInv

LEMMA InterruptServes ==
    ASSUME JobInv, ServiceInv, TakeInterrupt
    PROVE  ServiceInv' /\ HostAdvances /\ HostAt("getret")'
<1>1. /\ HostAt("wait") /\ irq /\ host.todo # << >>
      /\ host' = [host EXCEPT !.todo = Tail(@)]
      /\ UNCHANGED <<vars, pe, loaded, wbus, rbus>>
      /\ ~HostAt("arg1") /\ ~HostAt("arg2") /\ ~HostAt("load")
    BY DEF TakeInterrupt, HostAt, memvars
<1>2. HostAdvances
    BY <1>1, HostTail, 0 \in Nat DEF JobInv
<1>3. /\ HostJob' /\ ~HostAt("getret")
      /\ host'.todo # << >> /\ Head(host'.todo) = "getret"
    BY <1>1, <1>2, JobKept DEF ServiceInv, HostInv, HostAt, StepsFrom
<1>4. /\ Past("load")
      /\ host'.kind = host.kind /\ host'.prog = host.prog
      /\ host'.a = host.a /\ host'.b = host.b
      /\ host.kind # "template" => Past("arg1") /\ Past("arg2")
    BY <1>1, <1>2 DEF Past, HostAt, HostAdvances
<1>5. ~WriteOf("host")'
    BY <1>1 DEF HostAt, JobInv, Owned, WriteOf
<1>6. args' = args /\ loaded' = loaded
    BY <1>1 DEF vars, ctlvars
<1>7. HostInv'
    BY <1>3, <1>4, <1>5, <1>6 DEF ServiceInv, HostInv, HostLoaded, HostWrote
<1>8. ~Running
    BY <1>1 DEF JobInv, Control, Running
<1>9. CoreInv'
    BY <1>1, <1>8, CoreResting DEF ServiceInv, WriteOf
<1>. QED BY <1>2, <1>3, <1>7, <1>9 DEF ServiceInv, HostAt

\* A write that has just been offered is not performed.
LEMMA JustOffered ==
    ASSUME JobInv, UNCHANGED vars, wbus = None
    PROVE  ~WritePerformed'
BY Transfers DEF JobInv, WritePlace, NoWrite, WriteOffered, WriteQueued,
   WritePerformed, vars, busvars

LEMMA AccessServes ==
    ASSUME JobInv, ServiceInv, HostAccess
    PROVE  ServiceInv' /\ ~HostAt("wait")
<1>1. /\ UNCHANGED <<vars, host, pe, irq, loaded>> /\ ~Waits("host")
      /\ HostWrites \/ (HostAt("getret") /\ Read("host", RETL))
    BY DEF HostAccess, HostWrites, memvars
<1>2. ~HostAt("wait")
    BY <1>1 DEF HostWrites, HostAt
<1>3. ~Running
    BY <1>2, NotWaiting DEF Running
<1>4. CASE HostWrites
    <2>1. /\ wbus = None
          /\ \/ HostAt("arg1") /\ wbus' = [owner |-> "host", addr |-> ArgReg[1],
                      data |-> host.a, awDone |-> FALSE, wDone |-> FALSE]
             \/ HostAt("arg2") /\ wbus' = [owner |-> "host", addr |-> ArgReg[2],
                      data |-> host.b, awDone |-> FALSE, wDone |-> FALSE]
             \/ HostAt("arg3") /\ wbus'.owner = "host"
             \/ HostAt("start") /\ wbus'.owner = "host"
        BY <1>4 DEF HostWrites, Write
    <2>2. /\ wbus'.owner = "host"
          /\ HostAt("arg1") => wbus'.data = host.a
          /\ HostAt("arg2") => wbus'.data = host.b
        BY <2>1 DEF HostAt
    <2>3. ~WritePerformed'
        BY <1>1, <2>1, JustOffered
    <2>4. /\ \A step : HostAt(step)' = HostAt(step)
          /\ \A step : Past(step)' = Past(step)
          /\ args' = args /\ loaded' = loaded
        BY <1>1 DEF HostAt, Past, vars, ctlvars
    <2>5. HostInv'
        BY <1>1, <2>2, <2>3, <2>4
           DEF ServiceInv, HostInv, HostJob, HostLoaded, HostWrote
    <2>6. CoreInv'
        BY <1>1, <1>3, <2>2, CoreResting DEF ServiceInv, WriteOf
    <2>. QED BY <1>2, <2>5, <2>6 DEF ServiceInv
<1>5. CASE Read("host", RETL)
    <2>1. wbus' = wbus
        BY <1>5 DEF Read
    <2>2. HostInv'
        BY <1>1, <2>1, HostResting DEF ServiceInv
    <2>3. CoreInv'
        BY <1>1, <1>3, <2>1, CoreResting DEF ServiceInv, WriteOf
    <2>. QED BY <1>2, <2>2, <2>3 DEF ServiceInv
<1>. QED BY <1>1, <1>4, <1>5


-----------------------------------------------------------------------------
(***************************************************************************)
(* The core goes on.                                                       *)
(***************************************************************************)
LEMMA Shortened ==
    ASSUME NEW S, NEW s \in Seq(S), s # << >>
    PROVE  /\ \A x : Has(s, x) => x = Head(s) \/ Has(Tail(s), x)
           /\ ArgsFirst(s) => ArgsFirst(Tail(s))
           /\ ArgsFirst(s) /\ Head(s) = "ret" => ~Has(s, "arg1") /\ ~Has(s, "arg2")
<1>1. /\ Len(s) \in Nat \ {0} /\ Head(s) = s[1]
      /\ Len(Tail(s)) = Len(s) - 1
      /\ \A i \in 1 .. Len(Tail(s)) : Tail(s)[i] = s[i + 1]
    BY ScriptTail
<1>2. ASSUME NEW x, NEW i \in 1 .. Len(s), s[i] = x, x # Head(s)
      PROVE  Has(Tail(s), x)
    <2>1. i - 1 \in 1 .. Len(Tail(s)) /\ Tail(s)[i - 1] = x
        BY <1>1, <1>2
    <2>. QED BY <2>1 DEF Has
<1>3. ASSUME ArgsFirst(s) PROVE ArgsFirst(Tail(s))
    <2>. SUFFICES ASSUME NEW i \in 1 .. Len(Tail(s)), NEW j \in 1 .. Len(Tail(s)),
                         Tail(s)[i] = "ret", Tail(s)[j] \in {"arg1", "arg2"}
                  PROVE  j < i
        BY DEF ArgsFirst
    <2>1. /\ i + 1 \in 1 .. Len(s) /\ s[i + 1] = "ret"
          /\ j + 1 \in 1 .. Len(s) /\ s[j + 1] \in {"arg1", "arg2"}
        BY <1>1
    <2>2. j + 1 < i + 1
        BY <1>3, <2>1 DEF ArgsFirst
    <2>. QED BY <2>2
<1>4. ASSUME ArgsFirst(s), Head(s) = "ret", NEW j \in 1 .. Len(s),
             s[j] \in {"arg1", "arg2"}
      PROVE  FALSE
    <2>1. 1 \in 1 .. Len(s) /\ s[1] = "ret"
        BY <1>1, <1>4
    <2>2. j < 1
        BY <1>4, <2>1 DEF ArgsFirst
    <2>. QED BY <2>2
<1>. QED BY <1>2, <1>3, <1>4 DEF Has

\* From the start of a job its program is loaded and its operands written.
LEMMA Launched ==
    ASSUME HostInv, HostAt("start") \/ HostAt("wait")
    PROVE  /\ loaded = host.prog /\ loaded \in DOMAIN Program
           /\ host.kind \in DOMAIN HostScript /\ <<host.kind, host.prog>> \in Job
           /\ loaded = "simple_sum" => /\ host.kind # "template"
                                       /\ args[1] = host.a /\ args[2] = host.b
<1>1. host.todo # << >> /\ Past("load") /\ Past("arg1") /\ Past("arg2")
    BY DEF HostAt, Past
<1>2. /\ loaded = host.prog
      /\ host.kind \in DOMAIN HostScript /\ <<host.kind, host.prog>> \in Job
      /\ host.kind = "template" => host.prog # "simple_sum"
    BY <1>1 DEF HostInv, HostLoaded, HostJob
<1>3. host.prog \in DOMAIN Program
    BY <1>2, JobAssumption
<1>4. host.kind # "template" => args[1] = host.a /\ args[2] = host.b
    BY <1>1 DEF HostInv, HostWrote
<1>. QED BY <1>2, <1>3, <1>4

LEMMA ResultIndependent ==
    ASSUME NEW p \in DOMAIN Program, Returns(p), p # "simple_sum",
           NEW a, NEW b, NEW c, NEW d
    PROVE  ReturnValue(p, a, b) = ReturnValue(p, c, d)
<1>1. p \in {"localsum", "readargs", "read_dm"}
    BY DEF Program, Returns
<1>. QED BY <1>1 DEF ReturnValue

\* What a core about to write its result writes.
LEMMA ResultReady ==
    ASSUME JobInv, ServiceInv, PEAt("ret")
    PROVE  /\ ReturnValue(loaded, pe.a, pe.b) \in Data
           /\ ReturnValue(loaded, pe.a, pe.b) \in Results(Input)
<1>1. /\ ~Waits("pe") /\ pe.todo # << >> /\ Head(pe.todo) = "ret"
      /\ pe.todo \in Seq(CoreStep)
    BY DEF PEAt, JobInv, CoreScriptOK
<1>2. Running /\ HostAt("wait")
    BY <1>1, CoreRuns DEF Running
<1>3. Has(pe.todo, "ret") /\ ~Has(pe.todo, "arg1") /\ ~Has(pe.todo, "arg2")
    <2>1. ArgsFirst(pe.todo)
        BY DEF ServiceInv, CoreInv, CoreOrder
    <2>. QED BY <1>1, <2>1, ScriptTail, Shortened
<1>4. loaded \in DOMAIN Program /\ Returns(loaded)
    BY <1>3 DEF JobInv, CoreScriptOK
<1>5. /\ loaded = host.prog /\ <<host.kind, host.prog>> \in Job
      /\ host.kind \in DOMAIN HostScript
      /\ loaded = "simple_sum" => host.kind # "template"
    BY <1>2, Launched DEF ServiceInv
<1>6. loaded = "simple_sum" => pe.a = host.a /\ pe.b = host.b
    BY <1>2, <1>3 DEF ServiceInv, CoreInv, CoreTook
<1>7. ReturnValue(loaded, pe.a, pe.b) = ReturnValue(host.prog, host.a, host.b)
    BY <1>4, <1>5, <1>6, ResultIndependent
<1>8. ReturnValue(host.prog, host.a, host.b) \in Results(Input)
    BY <1>4, <1>5 DEF Results, Input
<1>9. ReturnValue(host.prog, host.a, host.b) \in Data
    <2>1. PICK x \in Args : /\ host.kind # "template" => x = <<host.a, host.b>>
                            /\ host.kind = "template" => host.prog # "simple_sum"
        <3>1. host.todo # << >>
            BY <1>2 DEF HostAt
        <3>2. CASE host.kind = "template"
            BY <3>1, <3>2 DEF ServiceInv, HostInv, HostJob
        <3>3. CASE host.kind # "template"
            BY <3>1, <3>3 DEF ServiceInv, HostInv, HostJob
        <3>. QED BY <3>2, <3>3
    <2>2. ReturnValue(host.prog, x[1], x[2]) \in Data
        <3>. DEFINE job == <<host.kind, host.prog>>
        <3>1. job \in Job /\ job[2] = host.prog /\ Returns(job[2])
            BY <1>4, <1>5
        <3>. HIDE DEF job
        <3>2. ReturnValue(job[2], x[1], x[2]) \in Data
            BY <3>1, JobAssumption
        <3>. QED BY <3>1, <3>2
    <2>3. ReturnValue(host.prog, x[1], x[2]) = ReturnValue(host.prog, host.a, host.b)
        <3>1. CASE host.kind # "template"
            BY <2>1, <3>1
        <3>2. CASE host.prog # "simple_sum"
            BY <1>4, <1>5, <3>2, ResultIndependent
        <3>. QED BY <2>1, <3>1, <3>2
    <2>. QED BY <2>2, <2>3
<1>. QED BY <1>7, <1>8, <1>9

LEMMA ErrorReady ==
    ASSUME JobInv, ServiceInv, PEAt("trap") \/ PEAt("panic")
    PROVE  {TrapCode, PanicCode} \subseteq Data \cap Results(Input)
<1>1. /\ ~Waits("pe") /\ pe.todo # << >> /\ Head(pe.todo) \in {"trap", "panic"}
      /\ pe.todo \in Seq(CoreStep)
    BY DEF PEAt, JobInv, CoreScriptOK
<1>2. HostAt("wait")
    BY <1>1, CoreRuns
<1>3. Has(pe.todo, "trap") \/ Has(pe.todo, "panic")
    BY <1>1, ScriptTail
<1>4. MayFail(loaded)
    BY <1>3 DEF ServiceInv, CoreInv, CoreOrder
<1>5. loaded = host.prog
    BY <1>2, Launched DEF ServiceInv
<1>6. {TrapCode, PanicCode} \subseteq Results(Input)
    BY <1>4, <1>5 DEF Results, Input
<1>. QED BY <1>6, JobAssumption


LEMMA JustAsked ==
    ASSUME JobInv, UNCHANGED vars, rbus = None
    PROVE  ~ReadPerformed'
<1>1. NoRead
    BY Transfers DEF JobInv, ReadPlace, ReadOffered, ReadQueued, ReadPerformed
<1>2. rd_s_out' = << >>
    BY <1>1 DEF NoRead, vars, busvars
<1>. DEFINE v == rd_s_out'[1]
<1>3. ReadPerformed' => rd_s_out' = <<v>>
    BY DEF ReadPerformed
<1>. HIDE DEF v
<1>. QED BY <1>2, <1>3

LEMMA CoreAccessServes ==
    ASSUME JobInv, ServiceInv, PEAccess
    PROVE  ServiceInv'
<1>1. /\ UNCHANGED <<vars, host, pe, irq, loaded>>
      /\ pe.todo # << >> /\ ~Waits("pe")
      /\ CoreWrites \/ CoreReads
    BY DEF PEAccess, CoreWrites, CoreReads, memvars, PEAt, Prints
<1>2. /\ ret' = ret /\ args' = args /\ Running' = Running
      /\ Input' = Input /\ Results(Input)' = Results(Input)
    BY <1>1 DEF vars, ctlvars, Running, Input, Results
<1>3. CASE CoreWrites
    <2>1. /\ wbus = None /\ wbus'.owner = "pe" /\ rbus' = rbus
          /\ wbus'.addr = RETL => wbus'.data \in Data /\ wbus'.data \in Results(Input)
        <3>1. CASE PEAt("ret") /\ Write("pe", RETL, ReturnValue(loaded, pe.a, pe.b))
            BY <3>1, ResultReady DEF Write
        <3>2. CASE PEAt("trap") /\ Write("pe", RETL, TrapCode)
            BY <3>2, ErrorReady DEF Write
        <3>3. CASE PEAt("panic") /\ Write("pe", RETL, PanicCode)
            BY <3>3, ErrorReady DEF Write
        <3>4. CASE PEAt("intr") /\ Write("pe", IAR, 1)
            BY <3>4, Offsets DEF Write
        <3>. QED BY <1>3, <3>1, <3>2, <3>3, <3>4 DEF CoreWrites
    <2>2. ~WritePerformed'
        BY <1>1, <2>1, JustOffered
    <2>3. ~ReadOf("pe")'
        BY <1>1, <2>1 DEF Waits, ReadOf
    <2>4. HostInv'
        BY <1>1, <2>1, HostResting DEF ServiceInv, WriteOf
    <2>5. CoreReturned'
        BY <1>1, <1>2, <2>1, <2>2 DEF ServiceInv, CoreInv, CoreReturned, ToReturn
    <2>6. CoreOrder' /\ CoreTook("arg1", pe.a, host.a)' /\ CoreTook("arg2", pe.b, host.b)'
        BY <1>1, <1>2, <2>3 DEF ServiceInv, CoreInv, CoreOrder, CoreTook
    <2>. QED BY <2>4, <2>5, <2>6 DEF ServiceInv, CoreInv
<1>4. CASE CoreReads
    <2>1. rbus = None /\ wbus' = wbus
        BY <1>4 DEF CoreReads, Read
    <2>2. ~ReadPerformed'
        BY <1>1, <2>1, JustAsked
    <2>3. HostInv'
        BY <1>1, <2>1, HostResting DEF ServiceInv
    <2>4. ~WriteOf("pe")'
        BY <1>1, <2>1 DEF Waits, WriteOf
    <2>5. CoreReturned'
        BY <1>1, <1>2, <2>4 DEF ServiceInv, CoreInv, CoreReturned, ToReturn
    <2>6. CoreOrder' /\ CoreTook("arg1", pe.a, host.a)' /\ CoreTook("arg2", pe.b, host.b)'
        BY <1>1, <1>2, <2>2 DEF ServiceInv, CoreInv, CoreOrder, CoreTook
    <2>. QED BY <2>3, <2>5, <2>6 DEF ServiceInv, CoreInv
<1>. QED BY <1>1, <1>3, <1>4

\* The core of a job goes on with the rest of its script, without having
\* been answered, or it fails.
LEMMA CoreLocalServes ==
    ASSUME JobInv, ServiceInv, PELocal
    PROVE  ServiceInv'
<1>1. PICK t : /\ \/ t = Tail(pe.todo)
                  \/ /\ t \in {<<"trap", "intr">>, <<"panic", "intr">>}
                     /\ Head(pe.todo) \in {"init", "store", "rom"}
               /\ PEContinues(t)
    BY DEF PELocal, initInterrupts, initPrint, print, RiskyAccess, fallbackDefaultIRQ,
       PEAt, Prints
<1>2. /\ pe.todo # << >> /\ ~Waits("pe") /\ pe.todo \in Seq(CoreStep)
      /\ Head(pe.todo) \in {"init", "initPrint", "text", "hex", "store", "rom"}
    BY DEF PELocal, initInterrupts, initPrint, print, RiskyAccess, PEAt, Prints,
       JobInv, CoreScriptOK
<1>3. /\ UNCHANGED <<vars, host, loaded, wbus, rbus>>
      /\ pe'.todo = t /\ pe'.a = pe.a /\ pe'.b = pe.b
    BY <1>1 DEF PEContinues, JobInv, CoreScriptOK
<1>4. HostInv'
    BY <1>3, HostResting DEF ServiceInv
<1>5. /\ ret' = ret /\ Running' = Running
      /\ Input' = Input /\ Results(Input)' = Results(Input)
      /\ ~WriteOf("pe")' /\ ~ReadOf("pe")'
    BY <1>2, <1>3 DEF vars, ctlvars, Running, Input, Results, Waits, WriteOf, ReadOf
<1>. DEFINE s == pe.todo
<1>6. CASE t = Tail(s)
    <2>. HIDE DEF s
    <2>1. /\ \A x : Has(s, x) => x = Head(s) \/ Has(t, x)
          /\ \A x : Has(t, x) => Has(s, x)
          /\ ArgsFirst(s) => ArgsFirst(t)
        BY <1>2, <1>6, ScriptTail, Shortened DEF s
    <2>2. \A x \in {"arg1", "arg2", "ret", "trap", "panic"} : Has(t, x) <=> Has(s, x)
        BY <1>2, <2>1 DEF s
    <2>3. CoreOrder'
        BY <1>3, <2>1 DEF ServiceInv, CoreInv, CoreOrder, s
    <2>4. CoreTook("arg1", pe.a, host.a)' /\ CoreTook("arg2", pe.b, host.b)'
        BY <1>3, <1>5, <2>2 DEF ServiceInv, CoreInv, CoreTook, s
    <2>5. ToReturn' <=> ToReturn
        BY <1>3, <2>2 DEF ToReturn, s
    <2>6. CoreReturned'
        BY <1>5, <2>5 DEF ServiceInv, CoreInv, CoreReturned
    <2>. QED BY <1>4, <2>3, <2>4, <2>6 DEF ServiceInv, CoreInv
<1>7. CASE t \in {<<"trap", "intr">>, <<"panic", "intr">>}
           /\ Head(s) \in {"init", "store", "rom"}
    <2>1. loaded \in DOMAIN Program /\ MayFail(loaded)
        <3>1. Has(s, Head(s))
            BY <1>2, ScriptTail
        <3>. QED BY <1>7, <3>1 DEF ServiceInv, CoreInv, CoreOrder
    <2>2. loaded # "simple_sum"
        BY <2>1, CoreScriptFacts
    <2>3. ArgsFirst(t) /\ (Has(t, "trap") \/ Has(t, "panic"))
        <3>1. CASE t = <<"trap", "intr">>
            BY <3>1 DEF ArgsFirst, Has
        <3>2. CASE t = <<"panic", "intr">>
            BY <3>2 DEF ArgsFirst, Has
        <3>. QED BY <1>7, <3>1, <3>2
    <2>4. CoreOrder'
        BY <1>3, <2>1, <2>3 DEF CoreOrder
    <2>5. CoreTook("arg1", pe.a, host.a)' /\ CoreTook("arg2", pe.b, host.b)'
        BY <1>3, <2>2 DEF CoreTook
    <2>6. ToReturn'
        BY <1>3, <2>3 DEF ToReturn
    <2>7. CoreReturned'
        BY <1>5, <2>6 DEF ServiceInv, CoreInv, CoreReturned
    <2>. QED BY <1>4, <2>4, <2>5, <2>7 DEF ServiceInv, CoreInv
<1>. QED BY <1>1, <1>6, <1>7


-----------------------------------------------------------------------------
(***************************************************************************)
(* A clock cycle.                                                          *)
(***************************************************************************)
\* A write in the FIFO is performed in this cycle, to the register it names.
LEMMA WriteHappens ==
    ASSUME JobInv, WriteQueued
    PROVE  Writes(wbus.addr) /\ req.data = wbus.data
<1>1. /\ wbus # None /\ wbus.owner \in {"host", "pe"}
      /\ req = [addr |-> wbus.addr, data |-> wbus.data, strb |-> TRUE]
      /\ handle_write
    BY Transfers, FifoAssumption DEF WriteQueued, req, handle_write
<1>2. wbus.addr \in {0, 16, 48, 64, 80, 16384}
    BY <1>1, Offsets DEF JobInv, Owned, WriteOf
<1>3. WriteOffset(wbus.addr) = wbus.addr
    BY <1>2 DEF WriteOffset
<1>. QED BY <1>1, <1>3 DEF Writes

\* The registers change by the write that is performed, and by no other.
LEMMA RegistersFollow ==
    ASSUME JobInv, Effects, NEW awNow \in BOOLEAN, NEW wNow \in BOOLEAN,
           NEW arNow \in BOOLEAN, Clocked(awNow, wNow, arNow)
    PROVE  /\ ~(WriteOf("host") /\ WriteQueued /\ HostAt("arg1")) => args'[1] = args[1]
           /\ ~(WriteOf("host") /\ WriteQueued /\ HostAt("arg2")) => args'[2] = args[2]
           /\ WriteOf("host") /\ WriteQueued /\ HostAt("arg1") => args'[1] = wbus.data
           /\ WriteOf("host") /\ WriteQueued /\ HostAt("arg2") => args'[2] = wbus.data
           /\ WriteOf("pe") /\ WriteQueued /\ wbus.addr = RETL => ret'[1] = wbus.data
           /\ ~(WriteOf("pe") /\ WriteQueued /\ wbus.addr = RETL) => ret'[1] = ret[1]
<1>1. /\ args' = [i \in 0 .. 4 |-> IF Writes(ArgReg[i]) THEN req.data ELSE args[i]]
      /\ ret' = IF Writes(RETL) THEN <<req.data, ret[2]>>
                ELSE IF Writes(RETH) THEN <<ret[1], req.data>> ELSE ret
    BY DEF Clocked, Registers, UpdateArgs, UpdateRet
<1>2. /\ Writes(ArgReg[1]) => WriteOf("host") /\ WriteQueued /\ HostAt("arg1")
      /\ Writes(ArgReg[2]) => WriteOf("host") /\ WriteQueued /\ HostAt("arg2")
    BY DEF Effects, Writes, ArgStep
<1>3. Writes(RETL) => WriteOf("pe") /\ WriteQueued /\ wbus.addr = RETL
    BY DEF Effects, Writes
<1>4. ~Writes(RETH)
    BY DEF Effects
<1>5. WriteQueued => Writes(wbus.addr) /\ req.data = wbus.data
    BY WriteHappens
<1>6. /\ WriteOf("host") /\ HostAt("arg1") => wbus.addr = ArgReg[1]
      /\ WriteOf("host") /\ HostAt("arg2") => wbus.addr = ArgReg[2]
    BY DEF JobInv, Owned, HostAt
<1>7. /\ args'[1] = IF Writes(ArgReg[1]) THEN req.data ELSE args[1]
      /\ args'[2] = IF Writes(ArgReg[2]) THEN req.data ELSE args[2]
    BY <1>1
<1>8. ret'[1] = IF Writes(RETL) THEN req.data ELSE ret[1]
    BY <1>1, <1>4
<1>. QED BY <1>2, <1>3, <1>5, <1>6, <1>7, <1>8

LEMMA HostServed ==
    ASSUME JobInv, Effects, HostInv, NEW awNow \in BOOLEAN, NEW wNow \in BOOLEAN,
           NEW arNow \in BOOLEAN, Clocked(awNow, wNow, arNow)
    PROVE  /\ HostInv'
           /\ \/ host' = host
              \/ /\ HostAdvances
                 /\ \/ WriteOf("host") /\ WritePerformed
                    \/ ReadOf("host") /\ ReadPerformed
<1>1. /\ wbus' # None => SameWrite /\ ~WritePerformed
      /\ WritePerformed' => WriteQueued
      /\ WritePerformed => wbus' = None
      /\ rdata \in Nat
    BY BusesClocked
<1>2. WriteQueued => ~WritePerformed
    BY DEF WriteQueued, WritePerformed
<1>3. loaded' = loaded
    BY DEF Clocked, Programs
<1>4. /\ Past("arg1") => ~HostAt("arg1")
      /\ Past("arg2") => ~HostAt("arg2")
    BY DEF Past, HostAt
<1>5. CASE ~(WriteOf("host") /\ WritePerformed) /\ ~(ReadOf("host") /\ ReadPerformed)
    <2>1. host' = host
        BY <1>5, HostClocked
    <2>2. /\ \A step : HostAt(step)' = HostAt(step)
          /\ \A step : Past(step)' = Past(step)
        BY <2>1 DEF HostAt, Past
    <2>3. WriteOf("host")' => WriteOf("host") /\ wbus'.data = wbus.data
        BY <1>1 DEF WriteOf, SameWrite
    <2>4. HostWrote(1, "arg1", host.a)'
        BY <1>1, <1>4, <2>1, <2>2, <2>3, RegistersFollow DEF HostInv, HostWrote
    <2>5. HostWrote(2, "arg2", host.b)'
        BY <1>1, <1>4, <2>1, <2>2, <2>3, RegistersFollow DEF HostInv, HostWrote
    <2>6. HostJob' /\ HostLoaded'
        BY <1>3, <2>1, <2>2 DEF HostInv, HostJob, HostLoaded
    <2>. QED BY <2>1, <2>4, <2>5, <2>6 DEF HostInv
<1>6. CASE (WriteOf("host") /\ WritePerformed) \/ (ReadOf("host") /\ ReadPerformed)
    <2>1. host' = HostNext(rdata) /\ host.todo # << >>
        BY <1>6, HostClocked
    <2>2. HostAdvances
        BY <1>1, <2>1, HostTail DEF JobInv
    <2>3. /\ HostJob'
          /\ host'.kind = host.kind /\ host'.prog = host.prog
          /\ host'.a = host.a /\ host'.b = host.b
        BY <2>2, JobKept DEF HostInv, HostAdvances
    <2>4. ReadOf("host") => HostAt("getret") /\ ~WriteOf("host")
        BY DEF JobInv, Owned, HostAt
    <2>5. ~WriteOf("host")'
        BY <1>1, <1>6, <2>4 DEF WriteOf, SameWrite
    <2>6. ~HostAt("load")
        BY <1>6 DEF JobInv, Owned, HostAt
    <2>7. HostLoaded'
        <3>1. Past("load")' => Past("load")
            BY <2>2, <2>6, JustPast DEF HostInv
        <3>. QED BY <1>3, <2>3, <3>1 DEF HostInv, HostLoaded
    <2>8. ASSUME NEW step \in {"arg1", "arg2"}, host.kind # "template", Past(step)'
          PROVE  Past(step) \/ (HostAt(step) /\ WriteOf("host") /\ WritePerformed)
        <3>1. Past(step) \/ HostAt(step)
            BY <2>2, <2>8, JustPast DEF HostInv
        <3>. QED BY <1>6, <2>4, <3>1 DEF HostAt
    <2>9. /\ Past("arg1") \/ WritePerformed => args'[1] = args[1]
          /\ Past("arg2") \/ WritePerformed => args'[2] = args[2]
        BY <1>2, <1>4, RegistersFollow
    <2>10. HostWrote(1, "arg1", host.a)'
        BY <2>3, <2>5, <2>8, <2>9 DEF HostInv, HostWrote
    <2>11. HostWrote(2, "arg2", host.b)'
        BY <2>3, <2>5, <2>8, <2>9 DEF HostInv, HostWrote
    <2>. QED BY <1>6, <2>2, <2>3, <2>7, <2>10, <2>11 DEF HostInv
<1>. QED BY <1>5, <1>6


\* The words of the argument registers as a read returns them.
LEMMA ArgumentRead ==
    ReadValue(ArgReg[1]) = args[1] /\ ReadValue(ArgReg[2]) = args[2]
<1>1. \A i \in 0 .. 4 : ArgReg[i] = 32 + 16 * i
    BY DEF ArgReg
<1>2. ASSUME NEW k \in {1, 2} PROVE ReadValue(ArgReg[k]) = args[k]
    <2>1. ReadOffset(ArgReg[k]) = ArgReg[k]
        BY <1>1 DEF ReadOffset
    <2>2. ReadOffset(ArgReg[k]) \notin {CTRL, RETL, RETH, COUNTER, COUNTERH}
        BY <1>1, <2>1 DEF CTRL, RETL, RETH, COUNTER, COUNTERH
    <2>3. ReadOffset(ArgReg[k]) \in {ArgReg[i] : i \in 0 .. 4}
        BY <2>1, k \in 0 .. 4
    <2>4. (CHOOSE i \in 0 .. 4 : ArgReg[i] = ReadOffset(ArgReg[k])) = k
        <3>. DEFINE c == CHOOSE i \in 0 .. 4 : ArgReg[i] = ReadOffset(ArgReg[k])
        <3>1. c \in 0 .. 4 /\ ArgReg[c] = ArgReg[k]
            BY <2>1, k \in 0 .. 4
        <3>. HIDE DEF c
        <3>2. c = k
            BY <1>1, <3>1
        <3>. QED BY <3>2 DEF c
    <2>5. ReadValue(ArgReg[k])
            = args[CHOOSE i \in 0 .. 4 : ArgReg[i] = ReadOffset(ArgReg[k])]
        BY <2>2, <2>3 DEF ReadValue
    <2>. QED BY <2>4, <2>5
<1>. QED BY <1>2

\* A job that runs after the cycle ran before it or starts with it.
LEMMA RunningClocked ==
    ASSUME JobInv, Effects, NEW awNow \in BOOLEAN, NEW wNow \in BOOLEAN,
           NEW arNow \in BOOLEAN, Clocked(awNow, wNow, arNow), Running'
    PROVE  /\ \/ Running
              \/ /\ rst /\ pe' = Booted
                 /\ WriteOf("host") /\ WritePerformed /\ HostAt("start")
           /\ Running => pe' = IF Answered("pe") THEN PENext(rdata) ELSE pe
<1>1. /\ Registers
      /\ pe' = IF ~rstn' THEN Halted
               ELSE IF ~rstn THEN Booted
               ELSE IF Answered("pe") THEN PENext(rdata) ELSE pe
      /\ rst \in BOOLEAN /\ grace \in Nat /\ rstn = ~rst
    BY DEF Clocked, Programs, JobInv, RegTypes, RunInv
<1>2. rstn' = ~rst' /\ ~rst' /\ grace' = 0
    BY RegistersClocked DEF RegTypes, RunInv, Running
<1>3. CASE rst
    <2>1. handle_start
        BY <1>1, <1>2, <1>3 DEF Registers, UpdateReset
    <2>2. WriteOf("host") /\ WritePerformed /\ HostAt("start")
        BY <2>1 DEF handle_start, JobInv, Control
    <2>. QED BY <1>1, <1>2, <1>3, <2>2 DEF Running
<1>4. CASE ~rst
    <2>1. /\ rst' = IF handle_start \/ resetAll THEN resetAll ELSE rst
          /\ grace' = IF SetsIntr THEN GraceCycles
                      ELSE IF resetAll THEN 0
                      ELSE IF graceDown THEN grace - 1 ELSE grace
        BY <1>1 DEF Registers, UpdateReset, UpdateGrace
    <2>2. ~resetAll /\ ~SetsIntr
        BY <1>2, <2>1, GraceAssumption
    <2>3. grace = 0
        <3>1. CASE graceDown
            BY <1>1, <1>2, <2>1, <2>2, <3>1 DEF graceDown
        <3>2. CASE ~graceDown
            BY <1>2, <2>1, <2>2, <3>2
        <3>. QED BY <3>1, <3>2
    <2>. QED BY <1>1, <1>2, <1>4, <2>3 DEF Running
<1>. QED BY <1>1, <1>3, <1>4

\* What the core is given: the register it reads.
LEMMA ReadsFollow ==
    ASSUME JobInv, Effects, NEW awNow \in BOOLEAN, NEW wNow \in BOOLEAN,
           NEW arNow \in BOOLEAN, Clocked(awNow, wNow, arNow),
           ReadOf("pe")', ReadPerformed'
    PROVE  /\ ReadOf("pe") /\ ~ReadPerformed /\ pe' = pe
           /\ Head(pe.todo) = "arg1" => rd_s_out'[1] = args[1]
           /\ Head(pe.todo) = "arg2" => rd_s_out'[1] = args[2]
<1>1. ReadOf("pe") /\ ~ReadPerformed
    BY OwnedClocked
<1>2. pe' = pe
    BY <1>1, CoreClocked
<1>3. RegTypes /\ ReadPlace /\ ReadStep(arNow)
    BY DEF JobInv, Clocked
<1>4. ReadQueued /\ rd_s_out' = <<ReadValue(rbus.addr)>>
    <2>1. /\ NoRead => NoRead'
          /\ ReadOffered => (ReadOffered \/ ReadQueued)'
          /\ ReadQueued => rd_s_out' = <<ReadValue(rbus.addr)>>
        BY <1>3, ReadMoves
    <2>2. ~NoRead' /\ ~(ReadOffered \/ ReadQueued)'
        <3>. DEFINE v == rd_s_out'[1]
        <3>1. /\ rd_s_out' = <<v>>
              /\ NoRead' \/ (ReadOffered \/ ReadQueued)' => rd_s_out' = << >>
            BY DEF ReadPerformed, NoRead, ReadOffered, ReadQueued
        <3>. HIDE DEF v
        <3>2. rd_s_out' # << >>
            BY <3>1
        <3>. QED BY <3>1, <3>2
    <2>. QED BY <1>1, <1>3, <2>1, <2>2 DEF ReadPlace
<1>5. /\ Head(pe.todo) = "arg1" => rbus.addr = ArgReg[1]
      /\ Head(pe.todo) = "arg2" => rbus.addr = ArgReg[2]
    BY <1>1 DEF JobInv, Owned
<1>. DEFINE v == ReadValue(rbus.addr)
<1>6. /\ Head(pe.todo) = "arg1" => v = args[1]
      /\ Head(pe.todo) = "arg2" => v = args[2]
    BY <1>5, ArgumentRead
<1>7. rd_s_out' = <<v>>
    BY <1>4
<1>. HIDE DEF v
<1>8. rd_s_out'[1] = v
    BY <1>7
<1>. QED BY <1>1, <1>2, <1>6, <1>8


\* The script after an answer.
LEMMA NextOf ==
    ASSUME CoreScriptOK, pe.todo # << >>, NEW v, pe' = PENext(v),
           Head(pe.todo) \in {"arg1", "arg2", "ret", "trap", "panic", "intr",
                              "text", "hex"}
    PROVE  /\ Head(pe.todo) \in {"arg1", "arg2", "ret", "trap", "panic"} =>
                 pe'.todo = Tail(pe.todo)
           /\ Head(pe.todo) = "intr" => pe'.todo = << >>
           /\ Head(pe.todo) \in {"text", "hex"} => pe'.todo = pe.todo
           /\ pe'.a = IF Head(pe.todo) = "arg1" THEN v ELSE pe.a
           /\ pe'.b = IF Head(pe.todo) = "arg2" THEN v ELSE pe.b
<1>1. pe \in [todo : Seq(CoreStep), a : Nat, b : Nat]
    BY DEF CoreScriptOK
<1>2. CASE Head(pe.todo) = "arg1"
    BY <1>1, <1>2 DEF PENext
<1>3. CASE Head(pe.todo) = "arg2"
    BY <1>1, <1>3 DEF PENext
<1>4. CASE Head(pe.todo) = "intr"
    BY <1>1, <1>4 DEF PENext, setIntr
<1>5. CASE Head(pe.todo) \in {"ret", "trap", "panic"}
    BY <1>1, <1>5 DEF PENext
<1>6. CASE Head(pe.todo) \in {"text", "hex"}
    BY <1>1, <1>6 DEF PENext
<1>. QED BY <1>2, <1>3, <1>4, <1>5, <1>6

\* What is left to do after an answer, but for the step that was answered.
LEMMA LeftAfter ==
    ASSUME CoreScriptOK, pe.todo # << >>, NEW v, pe' = PENext(v),
           Head(pe.todo) \in {"arg1", "arg2", "ret", "trap", "panic", "intr",
                              "text", "hex"}
    PROVE  /\ \A x : Has(pe'.todo, x) => Has(pe.todo, x)
           /\ \A x : Has(pe.todo, x) /\ x # Head(pe.todo) => Has(pe'.todo, x)
           /\ ArgsFirst(pe.todo) => ArgsFirst(pe'.todo)
<1>. DEFINE s == pe.todo
            t == pe'.todo
<1>1. s \in Seq(CoreStep) /\ s # << >>
      /\ \A i \in 1 .. Len(s) : s[i] = "intr" => i = Len(s)
    BY DEF CoreScriptOK
<1>2. \/ t = Tail(s)
      \/ t = << >> /\ Head(s) = "intr"
      \/ t = s
    BY NextOf
<1>. HIDE DEF s, t
<1>3. CASE t = Tail(s)
    BY <1>1, <1>3, ScriptTail, Shortened DEF s, t
<1>4. CASE t = << >> /\ Head(s) = "intr"
    <2>1. Len(s) \in Nat \ {0} /\ Head(s) = s[1]
        BY <1>1, ScriptTail
    <2>2. 1 \in 1 .. Len(s) /\ s[1] = "intr"
        BY <1>4, <2>1
    <2>3. Len(s) = 1
        BY <1>1, <2>2
    <2>4. \A x : Has(s, x) => x = "intr"
        BY <2>2, <2>3 DEF Has
    <2>5. ArgsFirst(t) /\ \A x : ~Has(t, x)
        BY <1>4 DEF ArgsFirst, Has
    <2>. QED BY <1>4, <2>4, <2>5 DEF s, t
<1>5. CASE t = s
    BY <1>5 DEF s, t
<1>. QED BY <1>2, <1>3, <1>4, <1>5

\* Whose answer it is, and to which step.
LEMMA AnswerOf ==
    ASSUME JobInv, Effects, NEW awNow \in BOOLEAN, NEW wNow \in BOOLEAN,
           NEW arNow \in BOOLEAN, Clocked(awNow, wNow, arNow), Answered("pe")
    PROVE  /\ pe.todo # << >>
           /\ \/ /\ WriteOf("pe") /\ WritePerformed /\ ~ReadOf("pe")
                 /\ \/ Head(pe.todo) = "intr"
                    \/ wbus.addr = RETL /\ Head(pe.todo) \in {"ret", "trap", "panic"}
              \/ /\ ReadOf("pe") /\ ReadPerformed /\ ~WriteOf("pe")
                 /\ Head(pe.todo) \in {"arg1", "arg2", "text", "hex"}
                 /\ rdata = rd_s_out[1]
<1>1. /\ WritePerformed => wbus # None
      /\ ReadPerformed => rbus # None
    BY BusesClocked
<1>2. \/ WriteOf("pe") /\ WritePerformed
      \/ ReadOf("pe") /\ ReadPerformed
    BY <1>1 DEF Answered, WriteOf, ReadOf
<1>3. /\ WriteOf("pe") => /\ pe.todo # << >>
                          /\ \/ Head(pe.todo) = "intr"
                             \/ /\ wbus.addr = RETL
                                /\ Head(pe.todo) \in {"ret", "trap", "panic"}
      /\ ReadOf("pe") => pe.todo # << >>
                         /\ Head(pe.todo) \in {"arg1", "arg2", "text", "hex"}
    BY DEF JobInv, Owned
<1>4. ~(WriteOf("pe") /\ ReadOf("pe"))
    <2>1. {"ret", "trap", "panic", "intr"} \cap {"arg1", "arg2", "text", "hex"} = {}
        OBVIOUS
    <2>. QED BY <1>3, <2>1
<1>5. ReadPerformed => rdata = rd_s_out[1]
    <2>. DEFINE v == rd_s_out[1]
    <2>1. ReadPerformed => rd_s_out = <<v>>
        BY DEF ReadPerformed
    <2>. HIDE DEF v
    <2>2. ReadPerformed => rd_s_out # << >> /\ Head(rd_s_out) = v
        BY <2>1
    <2>. QED BY <2>2 DEF rdata, v
<1>. QED BY <1>2, <1>3, <1>4, <1>5


LEMMA CoreServed ==
    ASSUME JobInv, Effects, ServiceInv, NEW awNow \in BOOLEAN,
           NEW wNow \in BOOLEAN, NEW arNow \in BOOLEAN, Clocked(awNow, wNow, arNow)
    PROVE  CoreInv'
<1>1. /\ loaded' = loaded /\ (loaded # None => loaded \in DOMAIN Program)
      /\ loaded \in DOMAIN Program => loaded # None
      /\ rst \in BOOLEAN
    BY NoneIsNothing DEF Clocked, Programs, JobInv, CoreScriptOK, RegTypes
<1>2. /\ wbus' # None => SameWrite /\ ~WritePerformed
      /\ WritePerformed' => WriteQueued
    BY BusesClocked
<1>3. WriteQueued => ~WritePerformed
    BY DEF WriteQueued, WritePerformed
<1>4. /\ WriteOf("pe")' => WriteOf("pe") /\ ~WritePerformed
      /\ ReadOf("pe")' => ReadOf("pe") /\ ~ReadPerformed
    BY OwnedClocked
<1>5. HostAt("wait") => host' = host
    BY HostClocked
<1>6. Running => HostAt("wait") /\ host' = host
    BY <1>5 DEF JobInv, Control, Running
<1>7. Answered("pe") => Head(pe.todo) \in {"arg1", "arg2", "ret", "trap", "panic",
                                           "intr", "text", "hex"}
    BY AnswerOf
<1>8. CoreOrder'
    <2>1. CASE pe' = Halted \/ (pe' = Booted /\ loaded = None)
        <3>1. pe'.todo = << >>
            BY <2>1 DEF Halted, Booted
        <3>. QED BY <3>1 DEF CoreOrder, ArgsFirst, Has
    <2>2. CASE pe' = Booted /\ loaded # None
        <3>1. pe'.todo = Program[loaded]
            BY <2>2 DEF Booted
        <3>2. /\ ArgsFirst(Program[loaded])
              /\ \A step \in {"init", "store", "rom", "trap", "panic"} :
                    Has(Program[loaded], step) => MayFail(loaded)
            BY <1>1, <2>2, CoreScriptFacts
        <3>. QED BY <1>1, <2>2, <3>1, <3>2 DEF CoreOrder
    <2>3. CASE Answered("pe") /\ pe' = PENext(rdata)
        <3>1. /\ \A x : Has(pe'.todo, x) => Has(pe.todo, x)
              /\ ArgsFirst(pe.todo) => ArgsFirst(pe'.todo)
            BY <1>7, <2>3, AnswerOf, LeftAfter DEF JobInv
        <3>. QED BY <1>1, <3>1 DEF ServiceInv, CoreInv, CoreOrder
    <2>4. CASE pe' = pe
        BY <1>1, <2>4 DEF ServiceInv, CoreInv, CoreOrder
    <2>. QED BY <2>1, <2>2, <2>3, <2>4 DEF Clocked, Programs
<1>9. ASSUME Running', ~Running
      PROVE  /\ pe' = Booted /\ ~WriteOf("pe") /\ ~ReadOf("pe") /\ loaded = host.prog
             /\ loaded \in DOMAIN Program /\ pe'.todo = Program[loaded]
             /\ host'.prog = host.prog /\ host'.a = host.a /\ host'.b = host.b
    <2>1. /\ rst /\ pe' = Booted
          /\ WriteOf("host") /\ WritePerformed /\ HostAt("start")
        BY <1>9, RunningClocked
    <2>2. ~WriteOf("pe") /\ ~ReadOf("pe")
        BY <2>1 DEF JobInv, Control, CoreSilent, Waits, WriteOf, ReadOf
    <2>3. loaded = host.prog /\ loaded \in DOMAIN Program
        BY <2>1, Launched DEF ServiceInv
    <2>4. pe'.todo = Program[loaded]
        BY <1>1, <2>1, <2>3 DEF Booted
    <2>5. host'.prog = host.prog /\ host'.a = host.a /\ host'.b = host.b
        BY HostServed DEF ServiceInv, HostAdvances
    <2>. QED BY <2>1, <2>2, <2>3, <2>4, <2>5
<1>10. ASSUME Running', Running
       PROVE  /\ host' = host
              /\ loaded = "simple_sum" => args[1] = host.a /\ args[2] = host.b
              /\ \/ ~Answered("pe") /\ pe' = pe
                 \/ Answered("pe") /\ pe' = PENext(rdata)
    BY <1>6, <1>10, RunningClocked, Launched DEF ServiceInv
<1>11. ASSUME Running', loaded' = "simple_sum"
       PROVE  /\ ~Has(pe'.todo, "arg1") => pe'.a = host'.a
              /\ ~Has(pe'.todo, "arg2") => pe'.b = host'.b
    <2>1. CASE ~Running
        BY <1>1, <1>9, <1>11, <2>1, CoreScriptFacts
    <2>2. CASE Running
        <3>1. /\ ~Has(pe.todo, "arg1") => pe.a = host.a
              /\ ~Has(pe.todo, "arg2") => pe.b = host.b
              /\ ReadOf("pe") /\ ReadPerformed /\ Head(pe.todo) = "arg1" =>
                    rd_s_out[1] = host.a
              /\ ReadOf("pe") /\ ReadPerformed /\ Head(pe.todo) = "arg2" =>
                    rd_s_out[1] = host.b
            BY <1>1, <1>11, <2>2 DEF ServiceInv, CoreInv, CoreTook
        <3>2. CASE pe' = pe
            BY <1>10, <1>11, <2>2, <3>1, <3>2
        <3>3. CASE Answered("pe") /\ pe' = PENext(rdata)
            <4>1. /\ pe'.a = IF Head(pe.todo) = "arg1" THEN rdata ELSE pe.a
                  /\ pe'.b = IF Head(pe.todo) = "arg2" THEN rdata ELSE pe.b
                  /\ \A x : Has(pe.todo, x) /\ x # Head(pe.todo) => Has(pe'.todo, x)
                BY <1>7, <3>3, AnswerOf, NextOf, LeftAfter DEF JobInv
            <4>2. /\ Head(pe.todo) = "arg1" => rdata = host.a
                  /\ Head(pe.todo) = "arg2" => rdata = host.b
                BY <3>1, <3>3, AnswerOf
            <4>3. host' = host
                BY <1>10, <1>11, <2>2
            <4>. QED BY <3>1, <4>1, <4>2, <4>3
        <3>. QED BY <1>10, <1>11, <2>2, <3>2, <3>3
    <2>. QED BY <2>1, <2>2
<1>12. ASSUME Running', loaded' = "simple_sum", ReadOf("pe")', ReadPerformed'
       PROVE  /\ Head(pe'.todo) = "arg1" => rd_s_out'[1] = host'.a
              /\ Head(pe'.todo) = "arg2" => rd_s_out'[1] = host'.b
    <2>1. Running
        BY <1>4, <1>9, <1>12
    <2>2. /\ pe' = pe
          /\ Head(pe.todo) = "arg1" => rd_s_out'[1] = args[1]
          /\ Head(pe.todo) = "arg2" => rd_s_out'[1] = args[2]
        BY <1>12, ReadsFollow
    <2>3. host' = host /\ args[1] = host.a /\ args[2] = host.b
        BY <1>1, <1>10, <1>12, <2>1
    <2>. QED BY <2>2, <2>3
<1>13. CoreTook("arg1", pe.a, host.a)' /\ CoreTook("arg2", pe.b, host.b)'
    BY <1>11, <1>12 DEF CoreTook
<1>14. WriteOf("pe") /\ wbus.addr = RETL => Running
    BY CoreIdle
<1>15. /\ WriteOf("pe") /\ WriteQueued /\ wbus.addr = RETL => ret'[1] = wbus.data
       /\ ~(WriteOf("pe") /\ WriteQueued /\ wbus.addr = RETL) => ret'[1] = ret[1]
    BY RegistersFollow
<1>16. ret'[1] \in Data
    BY <1>15 DEF ServiceInv, CoreInv, CoreReturned
<1>17. ASSUME Running', ~ToReturn' PROVE ret'[1] \in Results(Input)'
    <2>1. CASE ~Running
        <3>1. ~Has(Program[loaded], "ret")
            BY <1>9, <1>17, <2>1 DEF ToReturn
        <3>2. ~Returns(loaded)
            BY <1>9, <1>17, <2>1, <3>1, CoreScriptFacts
        <3>3. Data \subseteq Results(Input)'
            BY <1>9, <1>17, <2>1, <3>2 DEF Results, Input
        <3>. QED BY <1>16, <3>3
    <2>2. CASE Running
        <3>1. host' = host /\ Results(Input)' = Results(Input)
            BY <1>10, <1>17, <2>2 DEF Results, Input
        <3>2. /\ ~ToReturn => ret[1] \in Results(Input)
              /\ WriteOf("pe") /\ wbus.addr = RETL /\ WritePerformed =>
                    ret[1] \in Results(Input)
            BY <2>2 DEF ServiceInv, CoreInv, CoreReturned
        <3>3. CASE ~Answered("pe") /\ pe' = pe
            <4>1. ~ToReturn
                BY <1>17, <3>3 DEF ToReturn
            <4>2. ~(WriteOf("pe") /\ wbus.addr = RETL)
                <5>. SUFFICES ASSUME WriteOf("pe"), wbus.addr = RETL PROVE FALSE
                    OBVIOUS
                <5>1. pe.todo # << >> /\ Head(pe.todo) \in {"ret", "trap", "panic"}
                      /\ pe.todo \in Seq(CoreStep)
                    BY Offsets DEF JobInv, Owned, CoreScriptOK
                <5>2. Has(pe.todo, Head(pe.todo))
                    BY <5>1, ScriptTail
                <5>. QED BY <4>1, <5>1, <5>2 DEF ToReturn
            <4>. QED BY <1>15, <3>1, <3>2, <4>1, <4>2
        <3>4. CASE Answered("pe") /\ pe' = PENext(rdata)
            <4>1. ret'[1] = ret[1]
                BY <1>3, <1>15, <3>4, AnswerOf
            <4>2. CASE Head(pe.todo) \in {"ret", "trap", "panic"}
                <5>1. WriteOf("pe") /\ wbus.addr = RETL /\ WritePerformed
                    BY <3>4, <4>2, AnswerOf
                <5>. QED BY <3>1, <3>2, <4>1, <5>1
            <4>3. CASE Head(pe.todo) \notin {"ret", "trap", "panic"}
                <5>1. \A x : Has(pe.todo, x) /\ x # Head(pe.todo) => Has(pe'.todo, x)
                    BY <1>7, <3>4, AnswerOf, LeftAfter DEF JobInv
                <5>2. ~ToReturn
                    BY <1>17, <4>3, <5>1 DEF ToReturn
                <5>. QED BY <3>1, <3>2, <4>1, <5>2
            <4>. QED BY <4>2, <4>3
        <3>. QED BY <1>10, <1>17, <2>2, <3>3, <3>4
    <2>. QED BY <2>1, <2>2
<1>18. ASSUME WriteOf("pe")', wbus'.addr = RETL
       PROVE  /\ wbus'.data \in Data /\ wbus'.data \in Results(Input)'
              /\ WritePerformed' => ret'[1] = wbus'.data
    <2>1. WriteOf("pe") /\ wbus.addr = RETL /\ wbus'.data = wbus.data
        BY <1>2, <1>18 DEF WriteOf, SameWrite
    <2>2. host' = host
        BY <1>6, <1>14, <2>1
    <2>3. Results(Input)' = Results(Input)
        BY <2>2 DEF Results, Input
    <2>4. wbus.data \in Data /\ wbus.data \in Results(Input)
        BY <2>1 DEF ServiceInv, CoreInv, CoreReturned
    <2>. QED BY <1>2, <1>15, <2>1, <2>3, <2>4
<1>19. CoreReturned'
    BY <1>16, <1>17, <1>18 DEF CoreReturned
<1>. QED BY <1>8, <1>13, <1>19 DEF CoreInv


LEMMA ClockServes ==
    ASSUME JobInv, ServiceInv, Clock
    PROVE  ServiceInv'
<1>1. PICK awNow, wNow, arNow \in BOOLEAN : Tick(awNow, wNow, arNow)
    BY DEF Clock
<1>2. Clocked(awNow, wNow, arNow)
    BY <1>1, TickParts
<1>3. Effects
    BY WriteEffects
<1>. QED BY <1>2, <1>3, HostServed, CoreServed DEF ServiceInv

LEMMA ServiceInvStep ==
    ASSUME <<"template", "simple_sum">> \notin Job, JobInv, ServiceInv,
           [JobNext]_jobvars
    PROVE  ServiceInv'
<1>1. CASE Host
    BY <1>1, NewJobServes, LoadServes, AccessServes, InterruptServes DEF Host
<1>2. CASE HostExits
    BY <1>2, ExitServes
<1>3. CASE Core
    BY <1>3, CoreAccessServes, CoreLocalServes DEF Core
<1>4. CASE Clock
    BY <1>4, ClockServes
<1>5. CASE UNCHANGED jobvars
    <2>1. UNCHANGED <<vars, host, pe, loaded, wbus, rbus>>
        BY <1>5 DEF jobvars, envvars, memvars
    <2>2. HostInv'
        BY <2>1, HostResting DEF ServiceInv
    <2>3. CoreInv'
        BY <2>1 DEF ServiceInv, CoreInv, CoreOrder, CoreTook, CoreReturned, ToReturn,
           Running, ReadOf, WriteOf, ReadPerformed, WritePerformed, Input, Results,
           vars, ctlvars, busvars
    <2>. QED BY <2>2, <2>3 DEF ServiceInv
<1>. QED BY <1>1, <1>2, <1>3, <1>4, <1>5 DEF JobNext

-----------------------------------------------------------------------------
(***************************************************************************)
(* The steps of JobService.                                                *)
(***************************************************************************)
LEMMA Phases ==
    /\ HostAt("wait") /\ ~irq => Phase = "running"
    /\ (HostAt("wait") /\ irq) \/ HostAt("getret") => Phase = "ended"
    /\ ~HostAt("wait") /\ ~HostAt("getret") => Phase = "idle"
BY DEF Phase, HostAt

LEMMA Stutters ==
    ASSUME Phase' = Phase, Phase # "idle" => Input' = Input,
           Phase = "ended" => ret'[1] = ret[1]
    PROVE  UNCHANGED Service!vars
BY DEF Service!vars, Input

LEMMA Launches ==
    ASSUME Phase = "idle", Phase' = "running",
           Input' \in [prog : {j[2] : j \in Job},
                       a : {x[1] : x \in Args} \cup {None},
                       b : {x[2] : x \in Args} \cup {None}]
    PROVE  Service!Next
BY DEF Service!Next, Service!Launch, Input

LEMMA Ends ==
    ASSUME Phase = "running", Phase' = "ended", Input' = Input,
           ret'[1] \in Results(Input)
    PROVE  Service!Next
BY DEF Service!Next, Service!End, Input

LEMMA Collects ==
    ASSUME Phase = "ended", Phase' = "idle"
    PROVE  Service!Next
BY DEF Service!Next, Service!Collect

\* A launched job has a program and operands that the service takes.
LEMMA InputsServed ==
    ASSUME HostInv, host.todo # << >>
    PROVE  Input \in [prog : {j[2] : j \in Job},
                      a : {x[1] : x \in Args} \cup {None},
                      b : {x[2] : x \in Args} \cup {None}]
<1>1. /\ <<host.kind, host.prog>> \in Job
      /\ host.kind = "template" => host.a = None /\ host.b = None
      /\ host.kind # "template" => <<host.a, host.b>> \in Args
    BY DEF HostInv, HostJob
<1>2. host.prog \in {j[2] : j \in Job}
    BY <1>1
<1>3. /\ host.a \in {x[1] : x \in Args} \cup {None}
      /\ host.b \in {x[2] : x \in Args} \cup {None}
    BY <1>1
<1>. QED BY <1>2, <1>3 DEF Input


\* The end of a job: what is in the return register is its result.
LEMMA ResultAtEnd ==
    ASSUME JobInv, ServiceInv, SetsIntr
    PROVE  /\ HostAt("wait") /\ ~irq /\ ret[1] \in Results(Input)
           /\ WriteOf("pe") /\ wbus.addr = IAR
<1>1. /\ WriteOf("pe") /\ wbus.addr = IAR /\ Running /\ HostAt("wait") /\ ~irq
    BY WriteEffects DEF Effects, SetsIntr, Running
<1>. DEFINE s == pe.todo
<1>2. /\ s # << >> /\ Head(s) = "intr" /\ s \in Seq(CoreStep)
      /\ \A i \in 1 .. Len(s) : s[i] = "intr" => i = Len(s)
    BY <1>1, Offsets DEF JobInv, Owned, CoreScriptOK
<1>. HIDE DEF s
<1>3. Len(s) \in Nat \ {0} /\ Head(s) = s[1]
    BY <1>2, ScriptTail
<1>4. 1 \in 1 .. Len(s) /\ s[1] = "intr"
    BY <1>2, <1>3
<1>5. Len(s) = 1
    BY <1>2, <1>4
<1>6. ~ToReturn
    BY <1>4, <1>5 DEF ToReturn, Has, s
<1>. QED BY <1>1, <1>6 DEF ServiceInv, CoreInv, CoreReturned

LEMMA ClockRefines ==
    ASSUME JobInv, ServiceInv, Clock
    PROVE  [Service!Next]_(Service!vars)
<1>1. PICK awNow, wNow, arNow \in BOOLEAN : Tick(awNow, wNow, arNow)
    BY DEF Clock
<1>2. Clocked(awNow, wNow, arNow)
    BY <1>1, TickParts
<1>3. Effects
    BY WriteEffects
<1>4. \/ host' = host
      \/ /\ HostAdvances
         /\ \/ WriteOf("host") /\ WritePerformed
            \/ ReadOf("host") /\ ReadPerformed
    BY <1>2, <1>3, HostServed DEF ServiceInv
<1>5. irq' = (irq \/ SetsIntr)
    BY <1>2 DEF Clocked, Programs
<1>6. /\ ~(WriteOf("pe") /\ wbus.addr = RETL) => ret'[1] = ret[1]
      /\ WriteOf("pe") /\ wbus.addr = RETL => HostAt("wait") /\ ~irq
    BY <1>2, <1>3, RegistersFollow, CoreIdle DEF JobInv, Control, Running
<1>7. irq => HostAt("wait")
    BY DEF JobInv, Control
<1>8. CASE host' = host
    <2>1. /\ Input' = Input
          /\ HostAt("wait")' = HostAt("wait") /\ HostAt("getret")' = HostAt("getret")
        BY <1>8 DEF Input, HostAt
    <2>2. CASE SetsIntr
        <3>1. HostAt("wait") /\ ~irq /\ ret[1] \in Results(Input)
              /\ wbus.addr = IAR
            BY <2>2, ResultAtEnd
        <3>2. Phase = "running"
            BY <3>1 DEF Phase
        <3>3. Phase' = "ended"
            BY <1>5, <2>1, <2>2, <3>1 DEF Phase
        <3>4. ret'[1] = ret[1]
            BY <1>6, <3>1, Offsets
        <3>. QED BY <2>1, <3>1, <3>2, <3>3, <3>4, Ends
    <2>3. CASE ~SetsIntr
        <3>1. irq' = irq
            BY <1>5, <2>3 DEF JobInv, RegTypes
        <3>2. Phase' = Phase
            BY <2>1, <3>1 DEF Phase
        <3>3. Phase = "ended" => ret'[1] = ret[1]
            BY <1>6 DEF Phase, HostAt
        <3>4. UNCHANGED Service!vars
            BY <2>1, <3>2, <3>3, Stutters
        <3>. QED BY <3>4
    <2>. QED BY <2>2, <2>3
<1>9. CASE /\ HostAdvances
           /\ \/ WriteOf("host") /\ WritePerformed
              \/ ReadOf("host") /\ ReadPerformed
    <2>1. /\ WriteOf("host") =>
                HostAt("start") \/ HostAt("arg1") \/ HostAt("arg2") \/ HostAt("arg3")
          /\ ReadOf("host") => HostAt("getret")
        BY DEF JobInv, Owned
    <2>2. /\ HostAt("getret") => host'.todo = << >>
          /\ ~HostAt("getret") => /\ host'.todo # << >>
                                  /\ Head(host'.todo) \in StepsFrom(Head(host.todo))
        BY <1>9, JobKept DEF ServiceInv, HostInv
    <2>3. Input' = Input
        BY <1>9 DEF HostAdvances, Input
    <2>4. CASE HostAt("getret")
        <3>1. Phase = "ended"
            BY <2>4, Phases
        <3>2. Phase' = "idle"
            BY <2>2, <2>4 DEF Phase, HostAt
        <3>. QED BY <3>1, <3>2, Collects
    <2>5. CASE HostAt("start")
        <3>1. HostAt("wait")' /\ ~HostAt("wait") /\ ~HostAt("getret")
            BY <2>2, <2>5 DEF HostAt, StepsFrom
        <3>2. ~irq'
            BY <1>5, <1>7, <3>1, ResultAtEnd
        <3>3. Phase = "idle"
            BY <3>1, Phases
        <3>4. Phase' = "running"
            BY <3>1, <3>2 DEF Phase
        <3>5. host.todo # << >>
            BY <2>5 DEF HostAt
        <3>. QED BY <2>3, <3>3, <3>4, <3>5, InputsServed, Launches DEF ServiceInv
    <2>6. CASE HostAt("arg1") \/ HostAt("arg2") \/ HostAt("arg3")
        <3>1. /\ ~HostAt("wait") /\ ~HostAt("getret")
              /\ ~HostAt("wait")' /\ ~HostAt("getret")'
            BY <2>2, <2>6 DEF HostAt, StepsFrom
        <3>2. Phase = "idle"
            BY <3>1, Phases
        <3>3. Phase' = "idle"
            BY <3>1 DEF Phase
        <3>4. UNCHANGED Service!vars
            BY <3>2, <3>3, Stutters
        <3>. QED BY <3>4
    <2>. QED BY <1>9, <2>1, <2>4, <2>5, <2>6
<1>. QED BY <1>4, <1>8, <1>9

LEMMA HostRefines ==
    ASSUME JobInv, ServiceInv, Host \/ HostExits
    PROVE  [Service!Next]_(Service!vars)
<1>1. CASE NewJob
    <2>1. PICK job \in Job : host'.todo = HostScript[job[1]]
        BY <1>1 DEF NewJob
    <2>2. job[1] \in DOMAIN HostScript
        BY JobAssumption
    <2>3. host'.todo # << >> /\ Head(host'.todo) = "load"
        BY <2>1, <2>2, HostRests
    <2>4. host.todo = << >>
        BY <1>1 DEF NewJob
    <2>5. Phase = "idle" /\ Phase' = "idle"
        BY <2>3, <2>4 DEF Phase, HostAt
    <2>6. UNCHANGED Service!vars
        BY <2>5, Stutters
    <2>. QED BY <2>6
<1>2. CASE LoadProgram
    <2>1. HostAdvances /\ HostAt("load")
        BY <1>2, LoadServes DEF LoadProgram
    <2>2. host'.todo # << >> /\ Head(host'.todo) \in {"arg1", "start"}
        BY <2>1, JobKept DEF ServiceInv, HostInv, HostAt, StepsFrom
    <2>3. Phase = "idle" /\ Phase' = "idle"
        BY <2>1, <2>2 DEF Phase, HostAt
    <2>4. UNCHANGED Service!vars
        BY <2>3, Stutters
    <2>. QED BY <2>4
<1>3. CASE HostAccess
    <2>1. host' = host /\ irq' = irq /\ ret' = ret
        BY <1>3 DEF HostAccess, vars, ctlvars
    <2>2. UNCHANGED Service!vars
        BY <2>1 DEF Service!vars, Phase, HostAt
    <2>. QED BY <2>2
<1>4. CASE TakeInterrupt
    <2>1. /\ HostAdvances /\ HostAt("getret")'
          /\ HostAt("wait") /\ irq /\ ret' = ret
        BY <1>4, InterruptServes DEF TakeInterrupt, vars, ctlvars
    <2>2. Phase = "ended" /\ Phase' = "ended"
        BY <2>1 DEF Phase, HostAt
    <2>3. Input' = Input
        BY <2>1 DEF HostAdvances, Input
    <2>4. UNCHANGED Service!vars
        BY <2>1, <2>2, <2>3, Stutters
    <2>. QED BY <2>4
<1>5. CASE HostExits
    <2>1. host'.todo = << >> /\ ~HostAt("wait")
        BY <1>5, ExitServes
    <2>2. Phase' = "idle"
        BY <2>1 DEF Phase, HostAt
    <2>3. CASE HostAt("getret")
        <3>1. Phase = "ended"
            BY <2>3, Phases
        <3>. QED BY <2>2, <3>1, Collects
    <2>4. CASE ~HostAt("getret")
        <3>1. Phase = "idle"
            BY <2>1, <2>4, Phases
        <3>2. UNCHANGED Service!vars
            BY <2>2, <3>1, Stutters
        <3>. QED BY <3>2
    <2>. QED BY <2>3, <2>4
<1>. QED BY <1>1, <1>2, <1>3, <1>4, <1>5 DEF Host

LEMMA ServiceStep ==
    ASSUME JobInv, ServiceInv, [JobNext]_jobvars
    PROVE  [Service!Next]_(Service!vars)
<1>1. CASE Core \/ UNCHANGED jobvars
    <2>1. host' = host /\ irq' = irq /\ ret' = ret
        BY <1>1 DEF Core, PEAccess, PELocal, initInterrupts, initPrint, print,
           RiskyAccess, PEContinues, jobvars, envvars, vars, ctlvars
    <2>2. UNCHANGED Service!vars
        BY <2>1 DEF Service!vars, Phase, HostAt
    <2>. QED BY <2>2
<1>. QED BY <1>1, HostRefines, ClockRefines DEF JobNext

LEMMA ServiceStarts == JobInit => Service!Init
<1>. SUFFICES ASSUME JobInit PROVE Service!Init
    OBVIOUS
<1>1. host.todo = << >>
    BY DEF JobInit, NoJob
<1>2. Phase = "idle"
    BY <1>1 DEF Phase, HostAt
<1>. QED BY <1>2 DEF Service!Init

(***************************************************************************)
(* The host programs, the controller and the programs of the core together *)
(* implement JobService: every launch of the blocking call ends once, and  *)
(* what the host collects is the result of its own program for its own     *)
(* arguments, or the code of a program that trapped, whatever processes    *)
(* that exited before have left in the registers.  simple_sum must not be  *)
(* run by the host template, which writes no arguments.                    *)
(***************************************************************************)
THEOREM JobsServed ==
    ASSUME <<"template", "simple_sum">> \notin Job
    PROVE  JobSpec => ImplementsService
<1>1. JobInit => JobInv /\ ServiceInv /\ Service!Init
    BY JobInvInit, ServiceInit, ServiceStarts
<1>2. JobInv /\ ServiceInv /\ [JobNext]_jobvars => (JobInv /\ ServiceInv)'
    BY JobStep, ServiceInvStep
<1>3. JobInv /\ ServiceInv /\ [JobNext]_jobvars => [Service!Next]_(Service!vars)
    BY ServiceStep
<1>. QED BY <1>1, <1>2, <1>3, PTL DEF JobSpec, ImplementsService, Service!Spec
=============================================================================
