----------------------- MODULE InstructionCache_proofs ----------------------
(***************************************************************************)
(* The instruction cache, for every geometry, number of slots, set of      *)
(* requests and number of requests in memory.                              *)
(***************************************************************************)
EXTENDS InstructionCache, SequenceLemmas, FiniteSetTheorems

Line == [WordIdx -> Nat]
Addr == Nat
Request == LineReq

-----------------------------------------------------------------------------
(***************************************************************************)
(* What holds whatever the memory holds.                                   *)
(***************************************************************************)
TypeInv ==
    /\ req_fifo \in Seq(Requests) /\ rsp_fifo_rv \in Line \cup {None}
    /\ mem_req_fifo \in Seq(Addr) /\ mem_rsp_fifo \in Seq(Line)
    /\ state \in {"idle", "hit"} /\ token_hit \in Slot
    /\ miss_q \in Seq([token : Slot, addr : Addr])
    /\ hit_req_fifo \in Seq(BOOLEAN)
    /\ cb_i \in Slot /\ cb_o \in Slot /\ cb_n \in 0 .. Slots
    /\ cb_buff \in [Slot -> Line \cup {None}]
    /\ tag_array \in [0 .. Sets - 1 -> (0 .. Tags - 1) \cup {None}]
    /\ pending \in Seq(Addr) /\ expect \in Seq(Addr)
    /\ mem \in [(0 .. Tags - 1) \X (0 .. Sets - 1) -> Line]

ArrayTypes ==
    /\ cm_req_fifo \in Seq(Request) /\ cm_rsp_fifo \in Seq(Line)
    /\ cm_state \in {"idle", "read", "write"} /\ cm_req \in Request
    /\ prev_line \in Line /\ bram \in [0 .. Sets - 1 -> Line] /\ bram_out \in Line

\* The line memory; a write replaces a whole line.
ArrayInv ==
    /\ cm_state = "write" => cm_req.write
    /\ cm_state = "read" => bram_out = bram[Index(cm_req.addr)]
    /\ \A k \in 1 .. Len(AtArray) :
          AtArray[k].write => AtArray[k].strb = WordIdx

\* The slots in the order they were reserved, and how far a slot is in it.
SlotAt(k) == IF cb_o + k < Slots THEN cb_o + k ELSE cb_o + k - Slots
Age(s) == IF s >= cb_o THEN s - cb_o ELSE s - cb_o + Slots
InUse(s) == Age(s) < cb_n

Sent == IF rsp_fifo_rv = None THEN 0 ELSE 1

\* The address a reserved slot was reserved for.
Asked(s) == expect[Sent + Age(s) + 1]

\* What the frontend waits for: a line that waits for it, the slots in order,
\* the requests not looked up yet.
OrderInv ==
    /\ cb_i = SlotAt(cb_n)
    /\ Len(expect) = Sent + cb_n + Len(req_fifo)
    /\ \A k \in 1 .. Len(req_fifo) :
          expect[Sent + cb_n + k] = req_fifo[k].addr

\* A slot in use without its line is waited for once, by a miss or the hit.
Waiting(s) == InUse(s) /\ cb_buff[s] = None
Missed(s) == \E k \in 1 .. Len(miss_q) : miss_q[k].token = s
Hitting(s) == state = "hit" /\ token_hit = s

OwedInv ==
    /\ \A s \in Slot : Waiting(s) => Missed(s) \/ Hitting(s)
    /\ \A s \in Slot : Hitting(s) => Waiting(s)
    /\ \A k \in 1 .. Len(miss_q), s \in Slot : miss_q[k].token = s =>
          Waiting(s) /\ ~Hitting(s) /\ miss_q[k].addr = Asked(s)
    /\ \A j, k \in 1 .. Len(miss_q) :
          miss_q[j].token = miss_q[k].token => j = k

\* The requests at the line memory and its answers, in order: TRUE for the
\* hit, FALSE for a fill, and only the hit reads.
PipeInv ==
    /\ Len(hit_req_fifo) = Len(cm_rsp_fifo) + Len(AtArray)
    /\ Len(hit_req_fifo) <= 2
    /\ \A k \in 1 .. Len(AtArray) :
          hit_req_fifo[Len(cm_rsp_fifo) + k] <=> ~AtArray[k].write
    /\ \A k \in 1 .. Len(hit_req_fifo) : hit_req_fifo[k] => state = "hit"
    /\ \A j, k \in 1 .. Len(hit_req_fifo) :
          hit_req_fifo[j] /\ hit_req_fifo[k] => j = k
    /\ state = "hit" => \E k \in 1 .. Len(hit_req_fifo) : hit_req_fifo[k]
    /\ \A k \in 1 .. Len(AtArray), s \in Slot :
          ~AtArray[k].write /\ Hitting(s) => AtArray[k].addr = Asked(s)

MissLen ==
    Len(miss_q) = Len(mem_rsp_fifo) + Len(pending) + Len(mem_req_fifo)

SlotInv ==
    /\ TypeInv /\ ArrayTypes /\ ArrayInv
    /\ OrderInv /\ OwedInv /\ PipeInv /\ MissLen

-----------------------------------------------------------------------------
(***************************************************************************)
(* What holds while the memory keeps its lines.                            *)
(***************************************************************************)
\* The misses are answered in order, each with its line.
MissInv ==
    /\ \A k \in 1 .. Len(mem_rsp_fifo) : mem_rsp_fifo[k] = MemLine(miss_q[k].addr)
    /\ \A k \in 1 .. Len(pending) :
          MemLine(pending[k]) = MemLine(miss_q[Len(mem_rsp_fifo) + k].addr)
    /\ \A k \in 1 .. Len(mem_req_fifo) :
          MemLine(mem_req_fifo[k]) =
              MemLine(miss_q[Len(mem_rsp_fifo) + Len(pending) + k].addr)

\* The lines that wait to be sent are those asked for.
DeliveryInv ==
    /\ rsp_fifo_rv # None => rsp_fifo_rv = MemLine(expect[1])
    /\ \A s \in Slot : InUse(s) /\ cb_buff[s] # None => cb_buff[s] = MemLine(Asked(s))

\* A hit finds its line when its turn comes, after the write before it.
HitInv ==
    \A s \in Slot : Hitting(s) =>
        /\ \A k \in 1 .. Len(cm_rsp_fifo) :
              hit_req_fifo[k] => cm_rsp_fifo[k] = MemLine(Asked(s))
        /\ Len(AtArray) >= 1 /\ ~AtArray[1].write =>
              bram[Index(AtArray[1].addr)] = MemLine(Asked(s))
        /\ Len(AtArray) = 2 /\ ~AtArray[2].write =>
              IF AtArray[1].write /\ Index(AtArray[1].addr) = Index(AtArray[2].addr)
                THEN AtArray[1].data = MemLine(Asked(s))
                ELSE bram[Index(AtArray[2].addr)] = MemLine(Asked(s))

LineInv == MissInv /\ DeliveryInv /\ HitInv /\ TagsAgree

-----------------------------------------------------------------------------
(***************************************************************************)
(* Addresses.                                                              *)
(***************************************************************************)
LEMMA LineNotNone == None \notin Line /\ None \notin Addr /\ None \notin Request
BY NoneIsNothing DEF Line, Addr, Request

LEMMA RequestsAreRequests ==
    /\ Requests \subseteq Request /\ None \notin Requests
    /\ \A r \in Requests : r.addr \in Addr /\ ~r.write
BY RequestsAssumption, NoneIsNothing DEF Request, LineReq, Addr

LEMMA LineSize == LineBytes \in Nat \ {0} /\ LineBytes * Sets \in Nat \ {0}
<1>1. LineBytes \in Nat \ {0}
    BY GeometryAssumption DEF LineBytes
<1>. DEFINE L == LineBytes
<1>2. L \in Nat \ {0} /\ Sets \in Nat \ {0}
    BY <1>1, GeometryAssumption
<1>. HIDE DEF L
<1>3. L * Sets \in Nat \ {0}
    BY <1>2
<1>. QED BY <1>1, <1>3 DEF L

LEMMA AddressParts ==
    ASSUME NEW a \in Addr
    PROVE  /\ a \in Nat /\ Index(a) \in 0 .. Sets - 1 /\ Tag(a) \in 0 .. Tags - 1
<1>1. a \in Nat /\ Tags \in Nat \ {0}
    BY GeometryAssumption DEF Addr
<1>2. Tag(a) \in 0 .. Tags - 1
    <2>. DEFINE B == LineBytes * Sets
    <2>1. B \in Nat \ {0}
        BY LineSize
    <2>. HIDE DEF B
    <2>2. a \div B \in Nat
        BY <1>1, <2>1
    <2>. DEFINE q == a \div B
    <2>. HIDE DEF q
    <2>3. q % Tags \in 0 .. Tags - 1
        BY <1>1, <2>2 DEF q
    <2>. QED BY <2>3 DEF Tag, B, q
<1>3. Index(a) \in 0 .. Sets - 1
    <2>. DEFINE B == LineBytes
    <2>1. B \in Nat \ {0} /\ Sets \in Nat \ {0}
        BY LineSize, GeometryAssumption
    <2>. HIDE DEF B
    <2>2. a \div B \in Nat
        BY <1>1, <2>1
    <2>. DEFINE q == a \div B
    <2>. HIDE DEF q
    <2>3. q % Sets \in 0 .. Sets - 1
        BY <2>1, <2>2 DEF q
    <2>. QED BY <2>3 DEF Index, B, q
<1>. QED BY <1>1, <1>2, <1>3

(***************************************************************************)
(* Dividing by a product is dividing twice.                                *)
(***************************************************************************)
LEMMA DivideTwice ==
    ASSUME NEW a \in Nat, NEW L \in Nat \ {0}, NEW S \in Nat \ {0}
    PROVE  a \div (L * S) = (a \div L) \div S
<1>. DEFINE q == a \div L
            r == a % L
            p == q \div S
            t == q % S
<1>1. q \in Nat /\ r \in 0 .. L - 1 /\ a = L * q + r
    OBVIOUS
<1>. HIDE DEF q, r
<1>2. p \in Nat /\ t \in 0 .. S - 1 /\ q = S * p + t
    BY <1>1
<1>. HIDE DEF p, t
<1>. DEFINE m == L * t + r
            P == L * S
<1>3. a = P * p + m
    BY <1>1, <1>2
<1>4. P \in Nat \ {0} /\ m \in Nat
    BY <1>1, <1>2
<1>5. m < P
    <2>1. L * t + L <= P
        <3>1. L * (t + 1) <= L * S
            BY <1>2
        <3>2. L * (t + 1) = L * t + L
            BY <1>2
        <3>. QED BY <3>1, <3>2
    <2>2. L * t \in Nat
        BY <1>2
    <2>. QED BY <1>1, <1>4, <2>1, <2>2
<1>. HIDE DEF m, P
<1>6. a \div P = p
    BY <1>2, <1>3, <1>4, <1>5
<1>. QED BY <1>6 DEF P, p, q

LEMMA AlignedAddress ==
    ASSUME NEW a \in Addr
    PROVE  Aligned(a) \in Addr /\ MemLine(Aligned(a)) = MemLine(a)
<1>. DEFINE L == LineBytes
            q == a \div L
            r == a % L
            b == a - r
<1>1. a \in Nat /\ L \in Nat \ {0} /\ Sets \in Nat \ {0}
    BY LineSize, GeometryAssumption DEF Addr
<1>. HIDE DEF L
<1>2. q \in Nat /\ r \in 0 .. L - 1 /\ a = L * q + r
    BY <1>1
<1>. HIDE DEF q
<1>3. b = L * q /\ b \in Nat
    BY <1>1, <1>2
<1>. HIDE DEF r, b
<1>4. b \div L = q
    BY <1>1, <1>2, <1>3
<1>5. b \div (L * Sets) = a \div (L * Sets)
    <2>1. a \div (L * Sets) = q \div Sets
        BY <1>1, DivideTwice, Zenon DEF q
    <2>2. b \div (L * Sets) = (b \div L) \div Sets
        BY <1>1, <1>3, DivideTwice, Zenon
    <2>. QED BY <1>4, <2>1, <2>2
<1>6. Tag(b) = Tag(a) /\ Index(b) = Index(a)
    BY <1>4, <1>5 DEF Tag, Index, L, q
<1>7. b = Aligned(a)
    BY DEF b, r, L, Aligned
<1>. QED BY <1>3, <1>6, <1>7 DEF Addr, MemLine

-----------------------------------------------------------------------------
(***************************************************************************)
(* Queues.  One edge takes the head of a queue, adds an element, or both.  *)
(***************************************************************************)
Bit(b) == IF b THEN 1 ELSE 0

Follows(T, q, r, deq, enq, e) ==
    /\ r \in Seq(T) /\ Len(r) = Len(q) - Bit(deq) + Bit(enq)
    /\ \A k \in 1 .. Len(q) - Bit(deq) : r[k] = q[k + Bit(deq)]
    /\ enq => r[Len(q) - Bit(deq) + 1] = e

LEMMA ClockedFollows ==
    ASSUME NEW T, NEW q \in Seq(T), NEW deq \in BOOLEAN, NEW enq \in BOOLEAN,
           NEW e, deq => q # << >>, enq => e \in T
    PROVE  Follows(T, q, Clocked(q, deq, enq, e), deq, enq, e)
<1>. DEFINE left == IF deq THEN Tail(q) ELSE q
<1>1. /\ left \in Seq(T) /\ Len(left) = Len(q) - Bit(deq) /\ Len(left) \in Nat
      /\ \A k \in 1 .. Len(q) - Bit(deq) : left[k] = q[k + Bit(deq)]
    <2>1. CASE deq
        <3>1. q # << >> /\ Len(q) \in Nat \ {0}
            BY <2>1, EmptySeq
        <3>2. /\ Tail(q) \in Seq(T) /\ Len(Tail(q)) = Len(q) - 1
              /\ \A k \in 1 .. Len(q) - 1 : Tail(q)[k] = q[k + 1]
            BY <3>1
        <3>. QED BY <2>1, <3>1, <3>2 DEF Bit
    <2>2. CASE ~deq
        BY <2>2 DEF Bit
    <2>. QED BY <2>1, <2>2
<1>. HIDE DEF left
<1>2. CASE enq
    <2>1. /\ Append(left, e) \in Seq(T) /\ Len(Append(left, e)) = Len(left) + 1
          /\ \A k \in 1 .. Len(left) : Append(left, e)[k] = left[k]
          /\ Append(left, e)[Len(left) + 1] = e
        BY <1>1, <1>2
    <2>2. Clocked(q, deq, enq, e) = Append(left, e)
        BY <1>2 DEF Clocked, left
    <2>. QED BY <1>1, <1>2, <2>1, <2>2 DEF Follows, Bit
<1>3. CASE ~enq
    <2>1. Clocked(q, deq, enq, e) = left
        BY <1>3 DEF Clocked, left
    <2>. QED BY <1>1, <1>3, <2>1 DEF Follows, Bit
<1>. QED BY <1>2, <1>3

LEMMA NonEmpty ==
    ASSUME NEW T, NEW q \in Seq(T)
    PROVE  /\ Len(q) \in Nat /\ (q # << >> <=> Len(q) > 0)
           /\ q # << >> => Head(q) = q[1] /\ q[1] \in T
           /\ \A k \in 1 .. Len(q) : q[k] \in T
<1>1. q # << >> => Len(q) \in Nat \ {0}
    BY EmptySeq
<1>2. Len(q) > 0 => q # << >>
    OBVIOUS
<1>. QED BY <1>1, <1>2

(***************************************************************************)
(* The requests at the array are a queue as well: it accepts what the FIFO *)
(* before it accepts, and what it is done with goes to the answers.        *)
(***************************************************************************)
ArrayDone == (get_rd_rsp /\ ~cm_req.write) \/ write_data_st

Answer == IF write_data_st THEN Merged ELSE bram_out

LEMMA AtArrayShape ==
    ASSUME ArrayTypes
    PROVE  /\ AtArray \in Seq(Request)
           /\ cm_state = "idle" => AtArray = cm_req_fifo
           /\ cm_state # "idle" =>
                 /\ AtArray # << >> /\ Head(AtArray) = cm_req
                 /\ Tail(AtArray) = cm_req_fifo
                 /\ AtArray[1] = cm_req /\ Len(AtArray) = Len(cm_req_fifo) + 1
           /\ Len(AtArray) \in Nat
<1>1. cm_req_fifo \in Seq(Request) /\ cm_req \in Request
    BY DEF ArrayTypes
<1>. DEFINE b == <<cm_req>> \o cm_req_fifo
<1>2. /\ b \in Seq(Request) /\ b # << >> /\ Head(b) = cm_req
      /\ Tail(b) = cm_req_fifo /\ b[1] = cm_req /\ Len(b) = Len(cm_req_fifo) + 1
    <2>1. Append(<< >>, cm_req) = <<cm_req>> /\ <<cm_req>> \in Seq(Request)
          /\ Len(<<cm_req>>) = 1 /\ <<cm_req>> # << >> /\ Tail(<<cm_req>>) = << >>
          /\ <<cm_req>>[1] = cm_req
        BY <1>1
    <2>2. /\ b \in Seq(Request) /\ Len(b) = 1 + Len(cm_req_fifo)
          /\ b[1] = cm_req /\ b # << >>
        BY <1>1, <2>1
    <2>3. Tail(b) = << >> \o cm_req_fifo
        BY <1>1, <2>1, TailOfConcat
    <2>4. << >> \o cm_req_fifo = cm_req_fifo
        BY <1>1
    <2>. QED BY <2>2, <2>3, <2>4
<1>3. CASE cm_state = "idle"
    BY <1>1, <1>3 DEF AtArray
<1>4. CASE cm_state # "idle"
    <2>1. AtArray = b
        BY <1>4 DEF AtArray
    <2>. HIDE DEF b
    <2>. QED BY <1>1, <1>2, <1>4, <2>1
<1>. QED BY <1>3, <1>4

LEMMA AtArrayStep ==
    ASSUME ArrayTypes, NEW req \in Request \cup {None}, NEW taken \in BOOLEAN,
           CacheMemCycle(req, taken)
    PROVE  /\ ArrayDone => AtArray # << >>
           /\ AtArray' = Clocked(AtArray, ArrayDone, req # None, req)
<1>1. cm_req_fifo \in Seq(Request) /\ cm_state \in {"idle", "read", "write"}
    BY DEF ArrayTypes
<1>2. /\ cm_req_fifo' = Clocked(cm_req_fifo, handle_req, req # None, req)
      /\ cm_req' = IF handle_req THEN Head(cm_req_fifo) ELSE cm_req
    BY DEF CacheMemCycle
<1>3. CASE handle_req
    <2>1. cm_state = "idle" /\ cm_req_fifo # << >> /\ ~ArrayDone
        BY <1>3 DEF handle_req, EMPTY_N, ArrayDone, get_rd_rsp, write_data_st
    <2>2. cm_state' = "read"
        <3>1. ~get_rd_rsp /\ ~write_data_st
            BY <2>1 DEF get_rd_rsp, write_data_st
        <3>. QED BY <1>3, <3>1 DEF CacheMemCycle
    <2>. DEFINE t == Tail(cm_req_fifo)
                h == Head(cm_req_fifo)
    <2>3. t \in Seq(Request) /\ h \in Request /\ <<h>> \o t = cm_req_fifo
        <3>1. Append(<< >>, h) \o t = << >> \o cm_req_fifo
            BY <1>1, <2>1, Moved
        <3>. QED BY <1>1, <2>1, <3>1
    <2>. HIDE DEF t, h
    <2>4. AtArray' = <<h>> \o Clocked(cm_req_fifo, TRUE, req # None, req)
        BY <1>2, <1>3, <2>2 DEF AtArray, h
    <2>5. CASE req = None
        BY <2>1, <2>3, <2>4, <2>5, <1>3 DEF Clocked, AtArray, t
    <2>6. CASE req # None
        <3>1. req \in Request /\ <<h>> \in Seq(Request)
            BY <2>3, <2>6
        <3>2. AtArray' = <<h>> \o Append(t, req)
            BY <2>4, <2>6 DEF Clocked, t
        <3>3. <<h>> \o Append(t, req) = Append(<<h>> \o t, req)
            BY <2>3, <3>1, ConcatOfAppend
        <3>4. Clocked(AtArray, ArrayDone, req # None, req) = Append(cm_req_fifo, req)
            BY <2>1, <2>6 DEF Clocked, AtArray
        <3>. QED BY <2>1, <2>3, <3>2, <3>3, <3>4
    <2>. QED BY <2>5, <2>6
<1>4. CASE ~handle_req
    <2>1. cm_req' = cm_req /\ cm_req_fifo' = Clocked(cm_req_fifo, FALSE, req # None, req)
        BY <1>2, <1>4 DEF Clocked
    <2>2. CASE cm_state = "idle"
        <3>1. cm_state' = "idle" /\ ~ArrayDone
            BY <1>4, <2>2 DEF CacheMemCycle, ArrayDone, get_rd_rsp, write_data_st
        <3>. QED BY <2>1, <2>2, <3>1 DEF AtArray, Clocked
    <2>3. CASE cm_state # "idle" /\ ArrayDone
        <3>1. cm_state' = "idle"
            BY <1>4, <2>3 DEF CacheMemCycle, ArrayDone, get_rd_rsp, write_data_st
        <3>2. AtArray # << >> /\ Tail(AtArray) = cm_req_fifo
            BY <2>3, AtArrayShape
        <3>. QED BY <2>1, <2>3, <3>1, <3>2 DEF AtArray, Clocked
    <2>4. CASE cm_state # "idle" /\ ~ArrayDone
        <3>1. cm_state' # "idle"
            BY <1>1, <1>4, <2>4 DEF CacheMemCycle, ArrayDone, get_rd_rsp, write_data_st
        <3>2. AtArray = <<cm_req>> \o cm_req_fifo
            BY <2>4 DEF AtArray
        <3>3. AtArray' = <<cm_req>> \o Clocked(cm_req_fifo, FALSE, req # None, req)
            BY <2>1, <3>1 DEF AtArray
        <3>4. CASE req = None
            BY <2>4, <3>2, <3>3, <3>4 DEF Clocked
        <3>5. CASE req # None
            <4>1. req \in Request /\ <<cm_req>> \in Seq(Request)
                BY <3>5 DEF ArrayTypes
            <4>2. <<cm_req>> \o Append(cm_req_fifo, req)
                    = Append(<<cm_req>> \o cm_req_fifo, req)
                BY <1>1, <4>1, ConcatOfAppend
            <4>. QED BY <2>4, <3>2, <3>3, <3>5, <4>2 DEF Clocked
        <3>. QED BY <3>4, <3>5
    <2>. QED
        <3>1. cm_state = "idle" => ~ArrayDone
            BY DEF ArrayDone, get_rd_rsp, write_data_st
        <3>2. cm_state # "idle" => AtArray # << >>
            BY AtArrayShape
        <3>. QED BY <2>2, <2>3, <2>4, <3>1, <3>2
<1>. QED
    <2>1. handle_req => ~ArrayDone
        BY DEF handle_req, ArrayDone, get_rd_rsp, write_data_st
    <2>2. ArrayDone => cm_state # "idle"
        BY DEF ArrayDone, get_rd_rsp, write_data_st
    <2>. QED BY <1>3, <1>4, <2>1, <2>2, AtArrayShape

-----------------------------------------------------------------------------
(***************************************************************************)
(* One edge of the whole cache.                                            *)
(***************************************************************************)
MissEntry == [token : Slot, addr : Addr]
FillRequest == [addr |-> Head(miss_q).addr, write |-> TRUE,
                data |-> Head(mem_rsp_fifo), strb |-> WordIdx]

LEMMA Rules ==
    ASSUME SlotInv
    PROVE  /\ core_req => /\ req_fifo # << >> /\ Head(req_fifo) \in Request
                          /\ ~Head(req_fifo).write /\ Head(req_fifo).addr \in Addr
                          /\ Head(req_fifo) # None /\ Head(req_fifo) = req_fifo[1]
                          /\ state = "idle" /\ cb_n < Slots /\ Len(hit_req_fifo) < 2
           /\ core_req => ~fill_rule /\ ~cache_mem_rsp /\ ~send_rsp
           /\ fill_rule => ~cache_mem_rsp
           /\ (Lookup <=> core_req) /\ (Hit => core_req) /\ (Miss <=> core_req /\ ~Hit)
           /\ fill_rule => /\ miss_q # << >> /\ mem_rsp_fifo # << >>
                           /\ FillRequest \in Request /\ FillRequest # None
                           /\ Head(miss_q) = miss_q[1] /\ miss_q[1] \in MissEntry
                           /\ Head(mem_rsp_fifo) = mem_rsp_fifo[1]
                           /\ mem_rsp_fifo[1] \in Line
                           /\ Len(hit_req_fifo) < 2
           /\ cache_mem_rsp => /\ cm_rsp_fifo # << >> /\ hit_req_fifo # << >>
                               /\ Head(cm_rsp_fifo) = cm_rsp_fifo[1]
                               /\ cm_rsp_fifo[1] \in Line
                               /\ Head(hit_req_fifo) = hit_req_fifo[1]
                               /\ hit_req_fifo[1] \in BOOLEAN
           /\ core_req \in BOOLEAN /\ fill_rule \in BOOLEAN
           /\ cache_mem_rsp \in BOOLEAN /\ send_rsp \in BOOLEAN
           /\ Hit \in BOOLEAN /\ Miss \in BOOLEAN /\ HitDone \in BOOLEAN
           /\ ArrayDone \in BOOLEAN
<1>1. /\ req_fifo \in Seq(Requests) /\ miss_q \in Seq(MissEntry)
      /\ mem_rsp_fifo \in Seq(Line) /\ cm_rsp_fifo \in Seq(Line)
      /\ hit_req_fifo \in Seq(BOOLEAN) /\ cm_req.write \in BOOLEAN
    BY DEF SlotInv, TypeInv, ArrayTypes, MissEntry, Request, LineReq
<1>2. ASSUME core_req
      PROVE  /\ req_fifo # << >> /\ Head(req_fifo) \in Request
             /\ ~Head(req_fifo).write /\ Head(req_fifo).addr \in Addr
             /\ Head(req_fifo) # None /\ Head(req_fifo) = req_fifo[1]
             /\ state = "idle" /\ cb_n < Slots /\ Len(hit_req_fifo) < 2
    <2>1. /\ req_fifo # << >> /\ state = "idle" /\ cb_n < Slots
          /\ Len(hit_req_fifo) < 2
        BY <1>2 DEF core_req, EMPTY_N, FULL_N
    <2>2. Head(req_fifo) = req_fifo[1] /\ req_fifo[1] \in Requests
        BY <1>1, <2>1, NonEmpty
    <2>. QED BY <2>1, <2>2, RequestsAreRequests
<1>3. ASSUME fill_rule
      PROVE  /\ miss_q # << >> /\ mem_rsp_fifo # << >>
             /\ FillRequest \in Request /\ FillRequest # None
             /\ Head(miss_q) = miss_q[1] /\ miss_q[1] \in MissEntry
             /\ Head(mem_rsp_fifo) = mem_rsp_fifo[1]
             /\ mem_rsp_fifo[1] \in Line
             /\ Len(hit_req_fifo) < 2
    <2>1. miss_q # << >> /\ mem_rsp_fifo # << >> /\ Len(hit_req_fifo) < 2
        BY <1>3 DEF fill_rule, EMPTY_N, FULL_N
    <2>2. /\ Head(miss_q) = miss_q[1] /\ miss_q[1] \in MissEntry
          /\ Head(mem_rsp_fifo) = mem_rsp_fifo[1] /\ mem_rsp_fifo[1] \in Line
        BY <1>1, <2>1, NonEmpty
    <2>3. FillRequest \in Request
        BY <2>2 DEF FillRequest, Request, LineReq, MissEntry, Addr, Line
    <2>. QED BY <2>1, <2>2, <2>3, LineNotNone
<1>4. ASSUME cache_mem_rsp
      PROVE  /\ cm_rsp_fifo # << >> /\ hit_req_fifo # << >>
             /\ Head(cm_rsp_fifo) = cm_rsp_fifo[1] /\ cm_rsp_fifo[1] \in Line
             /\ Head(hit_req_fifo) = hit_req_fifo[1] /\ hit_req_fifo[1] \in BOOLEAN
    <2>1. cm_rsp_fifo # << >> /\ hit_req_fifo # << >>
        BY <1>4 DEF cache_mem_rsp, EMPTY_N
    <2>. QED BY <1>1, <2>1, NonEmpty
<1>5. (Lookup <=> core_req) /\ (Hit => core_req) /\ (Miss <=> core_req /\ ~Hit)
    <2>1. core_req => ~Head(req_fifo).write
        BY <1>2
    <2>. QED BY <2>1, Zenon DEF Lookup, Hit, Miss
<1>6. /\ core_req => ~fill_rule /\ ~cache_mem_rsp /\ ~send_rsp
      /\ fill_rule => ~cache_mem_rsp
      /\ core_req \in BOOLEAN /\ fill_rule \in BOOLEAN
      /\ cache_mem_rsp \in BOOLEAN /\ send_rsp \in BOOLEAN
    BY Zenon DEF core_req, fill_rule, cache_mem_rsp, send_rsp
<1>7. Hit \in BOOLEAN /\ Miss \in BOOLEAN /\ ArrayDone \in BOOLEAN
    BY Zenon DEF Hit, Miss, ArrayDone, get_rd_rsp, write_data_st
<1>8. HitDone \in BOOLEAN
    BY Zenon DEF HitDone
<1>. QED BY <1>2, <1>3, <1>4, <1>5, <1>6, <1>7, <1>8

Delivers(take) == take /\ Rsp # None

\* What an edge does to the queues.
Queues(req, take, memTake, memGive) ==
    /\ Follows(Requests, req_fifo, req_fifo', core_req, req # None, req)
    /\ Follows(MissEntry, miss_q, miss_q', fill_rule, Miss,
               [token |-> cb_i, addr |-> Head(req_fifo).addr])
    /\ Follows(BOOLEAN, hit_req_fifo, hit_req_fifo', cache_mem_rsp,
               Hit \/ fill_rule, Hit)
    /\ Follows(Addr, mem_req_fifo, mem_req_fifo', memTake, Miss,
               Aligned(Head(req_fifo).addr))
    /\ Follows(Line, mem_rsp_fifo, mem_rsp_fifo', fill_rule, memGive,
               MemLine(Head(pending)))
    /\ Follows(Addr, pending, pending', memGive, memTake, Head(mem_req_fifo))
    /\ Follows(Addr, expect, expect', Delivers(take), req # None, req.addr)
    /\ Follows(Request, AtArray, AtArray', ArrayDone, Hit \/ fill_rule,
               IF Hit THEN Head(req_fifo) ELSE FillRequest)
    /\ Follows(Line, cm_rsp_fifo, cm_rsp_fifo', cache_mem_rsp, ArrayDone, Answer)

LEMMA QueuesMove ==
    ASSUME SlotInv, NEW req \in Requests \cup {None}, NEW take \in BOOLEAN,
           NEW memTake \in BOOLEAN, NEW memGive \in BOOLEAN,
           Clock(req, take, memTake, memGive)
    PROVE  Queues(req, take, memTake, memGive)
<1>1. /\ req_fifo \in Seq(Requests) /\ miss_q \in Seq(MissEntry)
      /\ mem_req_fifo \in Seq(Addr) /\ mem_rsp_fifo \in Seq(Line)
      /\ hit_req_fifo \in Seq(BOOLEAN) /\ pending \in Seq(Addr)
      /\ expect \in Seq(Addr) /\ cm_rsp_fifo \in Seq(Line)
      /\ ArrayTypes /\ cb_i \in Slot
    BY DEF SlotInv, TypeInv, ArrayTypes, MissEntry
<1>2. CacheCycle(req, take, memTake, IF memGive THEN MemLine(Head(pending)) ELSE None)
    BY DEF Clock
<1>3. memTake => mem_req_fifo # << >> /\ Head(mem_req_fifo) \in Addr
    <2>1. memTake => mem_req_fifo # << >>
        BY DEF Clock, EMPTY_N
    <2>. QED BY <1>1, <2>1, NonEmpty
<1>4. memGive => /\ pending # << >>
                 /\ MemLine(Head(pending)) \in Line /\ MemLine(Head(pending)) # None
    <2>1. memGive => pending # << >>
        BY DEF Clock
    <2>2. memGive => Head(pending) \in Addr
        BY <1>1, <2>1, NonEmpty
    <2>3. ASSUME memGive PROVE MemLine(Head(pending)) \in Line
        <3>. DEFINE a == Head(pending)
        <3>1. a \in Addr
            BY <2>2, <2>3
        <3>. HIDE DEF a
        <3>2. MemLine(a) \in Line
            BY <3>1, AddressParts DEF MemLine, SlotInv, TypeInv
        <3>. QED BY <3>2 DEF a
    <2>. QED BY <2>1, <2>3, LineNotNone
<1>5. /\ core_req \in BOOLEAN /\ fill_rule \in BOOLEAN /\ cache_mem_rsp \in BOOLEAN
      /\ Hit \in BOOLEAN /\ Miss \in BOOLEAN /\ ArrayDone \in BOOLEAN
      /\ (req # None) \in BOOLEAN /\ (req # None => req \in Requests)
    BY Rules
<1>6. Follows(Requests, req_fifo, req_fifo', core_req, req # None, req)
    <2>1. req_fifo' = Clocked(req_fifo, core_req, req # None, req)
        BY <1>2 DEF CacheCycle
    <2>2. core_req => req_fifo # << >>
        BY Rules
    <2>. QED BY <1>1, <1>5, <2>1, <2>2, ClockedFollows
<1>7. Follows(MissEntry, miss_q, miss_q', fill_rule, Miss,
              [token |-> cb_i, addr |-> Head(req_fifo).addr])
    <2>. DEFINE e == [token |-> cb_i, addr |-> Head(req_fifo).addr]
    <2>1. miss_q' = Clocked(miss_q, fill_rule, Miss, e)
        BY <1>2 DEF CacheCycle
    <2>2. fill_rule => miss_q # << >>
        BY Rules
    <2>3. Miss => e \in MissEntry
        BY <1>1, Rules DEF MissEntry
    <2>. HIDE DEF e
    <2>4. Follows(MissEntry, miss_q, miss_q', fill_rule, Miss, e)
        BY <1>1, <1>5, <2>1, <2>2, <2>3, ClockedFollows
    <2>. QED BY <2>4 DEF e
<1>8. Follows(BOOLEAN, hit_req_fifo, hit_req_fifo', cache_mem_rsp, Hit \/ fill_rule, Hit)
    <2>1. hit_req_fifo' = Clocked(hit_req_fifo, cache_mem_rsp, Hit \/ fill_rule, Hit)
        BY <1>2 DEF CacheCycle
    <2>2. cache_mem_rsp => hit_req_fifo # << >>
        BY Rules
    <2>. QED BY <1>1, <1>5, <2>1, <2>2, ClockedFollows
<1>9. Follows(Addr, mem_req_fifo, mem_req_fifo', memTake, Miss,
              Aligned(Head(req_fifo).addr))
    <2>. DEFINE e == Aligned(Head(req_fifo).addr)
    <2>1. mem_req_fifo' = Clocked(mem_req_fifo, memTake, Miss, e)
        BY <1>2 DEF CacheCycle
    <2>2. Miss => e \in Addr
        BY Rules, AlignedAddress
    <2>. HIDE DEF e
    <2>3. Follows(Addr, mem_req_fifo, mem_req_fifo', memTake, Miss, e)
        BY <1>1, <1>3, <1>5, <2>1, <2>2, ClockedFollows
    <2>. QED BY <2>3 DEF e
<1>10. Follows(Line, mem_rsp_fifo, mem_rsp_fifo', fill_rule, memGive,
               MemLine(Head(pending)))
    <2>. DEFINE e == IF memGive THEN MemLine(Head(pending)) ELSE None
    <2>1. mem_rsp_fifo' = Clocked(mem_rsp_fifo, fill_rule, e # None, e)
        BY <1>2 DEF CacheCycle
    <2>2. fill_rule => mem_rsp_fifo # << >>
        BY Rules
    <2>3. (e # None) = memGive /\ (memGive => e = MemLine(Head(pending)) /\ e \in Line)
        BY <1>4
    <2>. HIDE DEF e
    <2>4. Follows(Line, mem_rsp_fifo, mem_rsp_fifo', fill_rule, memGive, e)
        BY <1>1, <1>5, <2>1, <2>2, <2>3, ClockedFollows
    <2>. QED BY <2>3, <2>4 DEF Follows
<1>11. Follows(Addr, pending, pending', memGive, memTake, Head(mem_req_fifo))
    <2>1. pending' = Clocked(pending, memGive, memTake, Head(mem_req_fifo))
        BY DEF Clock, Clocked
    <2>. QED BY <1>1, <1>3, <1>4, <2>1, ClockedFollows
<1>12. Follows(Addr, expect, expect', Delivers(take), req # None, req.addr)
    <2>1. Delivers(take) => expect # << >>
        <3>. SUFFICES ASSUME Delivers(take) PROVE expect # << >>
            OBVIOUS
        <3>1. Len(expect) = Sent + cb_n + Len(req_fifo) /\ cb_n \in Nat
              /\ Len(req_fifo) \in Nat
            BY <1>1 DEF SlotInv, OrderInv, TypeInv
        <3>2. Rsp # None
            BY DEF Delivers
        <3>3. Sent = 1 \/ (Sent = 0 /\ cb_n # 0)
            BY <3>2 DEF Rsp, Sent, send_rsp
        <3>4. Len(expect) > 0
            BY <3>1, <3>3
        <3>. QED BY <1>1, <3>4, NonEmpty
    <2>2. expect' = Clocked(expect, Delivers(take), req # None, req.addr)
        <3>1. expect' = Clocked(expect, take /\ Rsp # None /\ expect # << >>,
                                req # None, req.addr)
            BY DEF Clock, Clocked
        <3>. QED BY <2>1, <3>1 DEF Delivers, Clocked
    <2>3. req # None => req.addr \in Addr
        BY <1>5, RequestsAreRequests
    <2>4. Delivers(take) \in BOOLEAN
        BY DEF Delivers
    <2>. QED BY <1>1, <1>5, <2>1, <2>2, <2>3, <2>4, ClockedFollows
<1>13. /\ Follows(Request, AtArray, AtArray', ArrayDone, Hit \/ fill_rule,
                  IF Hit THEN Head(req_fifo) ELSE FillRequest)
       /\ Follows(Line, cm_rsp_fifo, cm_rsp_fifo', cache_mem_rsp, ArrayDone, Answer)
    <2>. DEFINE c == CacheMemRequest
                e == IF Hit THEN Head(req_fifo) ELSE FillRequest
    <2>1. CacheMemCycle(c, cache_mem_rsp)
        BY <1>2 DEF CacheCycle
    <2>2. c = IF Hit THEN Head(req_fifo) ELSE IF fill_rule THEN FillRequest ELSE None
        BY DEF CacheMemRequest, FillRequest
    <2>3. /\ Hit => Head(req_fifo) \in Request /\ Head(req_fifo) # None
          /\ fill_rule => FillRequest \in Request /\ FillRequest # None
        BY Rules
    <2>4. /\ (c # None) = (Hit \/ fill_rule) /\ c \in Request \cup {None}
          /\ Hit \/ fill_rule => c = e /\ e \in Request
        BY <1>5, <2>2, <2>3
    <2>. HIDE DEF c, e
    <2>5. /\ ArrayDone => AtArray # << >>
          /\ AtArray' = Clocked(AtArray, ArrayDone, c # None, c)
        BY <1>1, <1>5, <2>1, <2>4, AtArrayStep
    <2>6. AtArray' = Clocked(AtArray, ArrayDone, Hit \/ fill_rule, e)
        BY <2>4, <2>5 DEF Clocked
    <2>7. AtArray \in Seq(Request)
        BY <1>1, AtArrayShape
    <2>8. (Hit \/ fill_rule) \in BOOLEAN
        OBVIOUS
    <2>9. Follows(Request, AtArray, AtArray', ArrayDone, Hit \/ fill_rule, e)
        BY <1>5, <2>4, <2>5, <2>6, <2>7, <2>8, ClockedFollows
    <2>10. cm_rsp_fifo' = Clocked(cm_rsp_fifo, cache_mem_rsp, ArrayDone, Answer)
        BY <2>1 DEF CacheMemCycle, ArrayDone, Answer
    <2>11. cache_mem_rsp => cm_rsp_fifo # << >>
        BY Rules
    <2>12. Answer \in Line
        BY <1>1 DEF Answer, Merged, Merge, ArrayTypes, Request, LineReq, Line
    <2>13. Follows(Line, cm_rsp_fifo, cm_rsp_fifo', cache_mem_rsp, ArrayDone, Answer)
        BY <1>1, <1>5, <2>10, <2>11, <2>12, ClockedFollows
    <2>. QED BY <2>9, <2>13 DEF e
<1>. QED
    BY <1>6, <1>7, <1>8, <1>9, <1>10, <1>11, <1>12, <1>13 DEF Queues

-----------------------------------------------------------------------------
(***************************************************************************)
(* The registers keep their types.                                         *)
(***************************************************************************)
LEMMA RingArithmetic ==
    /\ 0 \in Slot
    /\ \A k \in Slot : /\ NextSlot(k) \in Slot
                       /\ NextSlot(k) = IF k = Slots - 1 THEN 0 ELSE k + 1
BY SlotsAssumption DEF Slot, NextSlot

LEMMA RspStep ==
    ASSUME SlotInv, NEW req \in Requests \cup {None}, NEW take \in BOOLEAN,
           NEW memTake \in BOOLEAN, NEW memGive \in BOOLEAN,
           Clock(req, take, memTake, memGive)
    PROVE  /\ rsp_fifo_rv' = IF take THEN None ELSE Rsp
           /\ Rsp \in Line \cup {None}
           /\ send_rsp => Rsp = cb_buff[cb_o] /\ Rsp # None /\ Sent = 0 /\ cb_n # 0
           /\ ~send_rsp => Rsp = rsp_fifo_rv
           /\ Sent' = Sent + Bit(send_rsp) - Bit(Delivers(take))
           /\ Sent \in {0, 1} /\ (Delivers(take) => Sent + Bit(send_rsp) = 1)
<1>1. rsp_fifo_rv' = IF take THEN None ELSE Rsp
    BY DEF Clock, CacheCycle
<1>2. /\ rsp_fifo_rv \in Line \cup {None} /\ cb_buff \in [Slot -> Line \cup {None}]
      /\ cb_o \in Slot
    BY DEF SlotInv, TypeInv
<1>3. /\ send_rsp => Rsp = cb_buff[cb_o] /\ Rsp # None /\ rsp_fifo_rv = None /\ cb_n # 0
      /\ ~send_rsp => Rsp = rsp_fifo_rv
    BY DEF Rsp, send_rsp
<1>4. Rsp \in Line \cup {None}
    BY <1>2, <1>3
<1>5. Sent' = IF rsp_fifo_rv' = None THEN 0 ELSE 1
    BY DEF Sent
<1>6. Sent' = Sent + Bit(send_rsp) - Bit(Delivers(take))
    <2>1. CASE send_rsp
        BY <1>1, <1>3, <1>5, <2>1 DEF Sent, Bit, Delivers
    <2>2. CASE ~send_rsp
        BY <1>1, <1>3, <1>5, <2>2 DEF Sent, Bit, Delivers
    <2>. QED BY <2>1, <2>2
<1>7. Delivers(take) => Sent + Bit(send_rsp) = 1
    BY <1>3 DEF Sent, Bit, Delivers
<1>. QED BY <1>1, <1>3, <1>4, <1>6, <1>7 DEF Sent

LEMMA TypesStep ==
    ASSUME SlotInv, NEW req \in Requests \cup {None}, NEW take \in BOOLEAN,
           NEW memTake \in BOOLEAN, NEW memGive \in BOOLEAN,
           Clock(req, take, memTake, memGive)
    PROVE  TypeInv' /\ ArrayTypes'
<1>. USE DEF SlotInv
<1>1. CacheCycle(req, take, memTake, IF memGive THEN MemLine(Head(pending)) ELSE None)
      /\ mem' = mem
    BY DEF Clock
<1>2. Queues(req, take, memTake, memGive)
    BY QueuesMove
<1>3. /\ state \in {"idle", "hit"} /\ token_hit \in Slot
      /\ cb_i \in Slot /\ cb_o \in Slot /\ cb_n \in 0 .. Slots
      /\ cb_buff \in [Slot -> Line \cup {None}]
      /\ tag_array \in [0 .. Sets - 1 -> (0 .. Tags - 1) \cup {None}]
      /\ mem \in [(0 .. Tags - 1) \X (0 .. Sets - 1) -> Line]
      /\ ArrayTypes
    BY DEF TypeInv
<1>4. /\ req_fifo' \in Seq(Requests) /\ mem_req_fifo' \in Seq(Addr)
      /\ mem_rsp_fifo' \in Seq(Line) /\ miss_q' \in Seq(MissEntry)
      /\ hit_req_fifo' \in Seq(BOOLEAN) /\ pending' \in Seq(Addr)
      /\ expect' \in Seq(Addr) /\ cm_rsp_fifo' \in Seq(Line)
    BY <1>2 DEF Queues, Follows
<1>5. state' \in {"idle", "hit"} /\ token_hit' \in Slot
    BY <1>1, <1>3 DEF CacheCycle
<1>6. cb_i' \in Slot /\ cb_o' \in Slot
    BY <1>1, <1>3, RingArithmetic DEF CacheCycle, CompletionBuffer
<1>7. cb_n' \in 0 .. Slots
    <2>1. cb_n' = cb_n + (IF Lookup THEN 1 ELSE 0) - (IF send_rsp THEN 1 ELSE 0)
        BY <1>1 DEF CacheCycle, CompletionBuffer
    <2>2. Lookup => cb_n < Slots
        BY Rules
    <2>3. send_rsp => cb_n # 0
        BY DEF send_rsp
    <2>. QED BY <1>3, <2>1, <2>2, <2>3, SlotsAssumption
<1>8. cb_buff' \in [Slot -> Line \cup {None}]
    <2>1. HitDone => Head(cm_rsp_fifo) \in Line
        BY Rules DEF HitDone
    <2>2. fill_rule => Head(mem_rsp_fifo) \in Line
        BY Rules
    <2>3. cb_buff' =
              IF Lookup THEN [cb_buff EXCEPT ![cb_i] = None]
              ELSE IF HitDone THEN [cb_buff EXCEPT ![token_hit] = Head(cm_rsp_fifo)]
              ELSE IF fill_rule
                THEN [cb_buff EXCEPT ![Head(miss_q).token] = Head(mem_rsp_fifo)]
              ELSE cb_buff
        BY <1>1 DEF CacheCycle, CompletionBuffer
    <2>. QED BY <1>3, <2>1, <2>2, <2>3
<1>9. tag_array' \in [0 .. Sets - 1 -> (0 .. Tags - 1) \cup {None}]
    <2>. DEFINE a == Head(miss_q).addr
    <2>1. fill_rule => a \in Addr
        BY Rules DEF MissEntry
    <2>2. fill_rule => Tag(a) \in 0 .. Tags - 1
        BY <2>1, AddressParts
    <2>3. tag_array' = IF fill_rule THEN [tag_array EXCEPT ![Index(a)] = Tag(a)]
                       ELSE tag_array
        BY <1>1 DEF CacheCycle, FilledTag
    <2>. HIDE DEF a
    <2>. QED BY <1>3, <2>2, <2>3
<1>10. rsp_fifo_rv' \in Line \cup {None}
    BY RspStep
<1>11. TypeInv'
    BY <1>1, <1>3, <1>4, <1>5, <1>6, <1>7, <1>8, <1>9, <1>10 DEF TypeInv, MissEntry
<1>12. ArrayTypes'
    <2>1. CacheMemCycle(CacheMemRequest, cache_mem_rsp)
        BY <1>1 DEF CacheCycle
    <2>2. /\ cm_req_fifo \in Seq(Request)
          /\ cm_state \in {"idle", "read", "write"} /\ cm_req \in Request
          /\ prev_line \in Line /\ bram \in [0 .. Sets - 1 -> Line] /\ bram_out \in Line
        BY <1>3 DEF ArrayTypes
    <2>3. handle_req => cm_req_fifo # << >> /\ Head(cm_req_fifo) \in Request
        <3>1. handle_req => cm_req_fifo # << >>
            BY DEF handle_req, EMPTY_N
        <3>. QED BY <2>2, <3>1, NonEmpty
    <2>4. cm_req_fifo' \in Seq(Request)
        <3>. DEFINE c == CacheMemRequest
        <3>1. c # None => c \in Request
            BY Rules DEF CacheMemRequest, FillRequest
        <3>2. cm_req_fifo' = Clocked(cm_req_fifo, handle_req, c # None, c)
            BY <2>1 DEF CacheMemCycle
        <3>. HIDE DEF c
        <3>3. handle_req \in BOOLEAN /\ (c # None) \in BOOLEAN
            BY DEF handle_req
        <3>. QED BY <2>2, <2>3, <3>1, <3>2, <3>3, ClockedFollows DEF Follows
    <2>5. cm_req' \in Request
        BY <2>1, <2>2, <2>3 DEF CacheMemCycle
    <2>6. cm_state' \in {"idle", "read", "write"}
        <3>1. /\ handle_req => ~get_rd_rsp /\ ~write_data_st
              /\ get_rd_rsp => ~handle_req /\ ~write_data_st
              /\ write_data_st => ~handle_req /\ ~get_rd_rsp
            BY DEF handle_req, get_rd_rsp, write_data_st
        <3>2. cm_state' = CASE handle_req -> "read"
                     [] get_rd_rsp -> IF cm_req.write THEN "write" ELSE "idle"
                     [] write_data_st -> "idle"
                     [] OTHER -> cm_state
            BY <2>1 DEF CacheMemCycle
        <3>. QED BY <2>2, <3>1, <3>2
    <2>7. ASSUME handle_req PROVE bram[Index(Head(cm_req_fifo).addr)] \in Line
        <3>. DEFINE a == Head(cm_req_fifo).addr
        <3>1. a \in Addr
            BY <2>3, <2>7 DEF Request, LineReq, Addr
        <3>. HIDE DEF a
        <3>2. Index(a) \in 0 .. Sets - 1
            BY <3>1, AddressParts
        <3>. QED BY <2>2, <3>2 DEF a
    <2>8. bram_out' \in Line /\ prev_line' \in Line
        BY <2>1, <2>2, <2>7 DEF CacheMemCycle
    <2>9. Merged \in Line
        BY <2>2 DEF Merged, Merge, Request, LineReq, Line
    <2>10. bram' \in [0 .. Sets - 1 -> Line]
        BY <2>1, <2>2, <2>9 DEF CacheMemCycle
    <2>. QED BY <1>4, <2>4, <2>5, <2>6, <2>8, <2>10 DEF ArrayTypes
<1>. QED BY <1>11, <1>12

-----------------------------------------------------------------------------
(***************************************************************************)
(* The slots are a ring.                                                   *)
(***************************************************************************)
LEMMA Ring ==
    ASSUME cb_o \in Slot
    PROVE  /\ \A s \in Slot : Age(s) \in 0 .. Slots - 1
           /\ \A k \in 0 .. Slots - 1 : SlotAt(k) \in Slot /\ Age(SlotAt(k)) = k
           /\ \A s, t \in Slot : Age(s) = Age(t) => s = t
           /\ Age(cb_o) = 0
BY SlotsAssumption DEF Slot, Age, SlotAt

LEMMA RingStep ==
    ASSUME SlotInv, NEW req \in Requests \cup {None}, NEW take \in BOOLEAN,
           NEW memTake \in BOOLEAN, NEW memGive \in BOOLEAN,
           Clock(req, take, memTake, memGive)
    PROVE  /\ \A s \in Slot : InUse(s) /\ ~(send_rsp /\ s = cb_o) =>
                  InUse(s)' /\ Age(s)' = Age(s) - Bit(send_rsp)
           /\ \A s \in Slot : Lookup /\ s = cb_i =>
                  ~InUse(s) /\ InUse(s)' /\ Age(s)' = cb_n
           /\ \A s \in Slot : InUse(s)' => \/ InUse(s) /\ ~(send_rsp /\ s = cb_o)
                                           \/ Lookup /\ s = cb_i
           /\ cb_i' = SlotAt(cb_n)'
           /\ cb_n' = cb_n + Bit(Lookup) - Bit(send_rsp)
           /\ send_rsp => InUse(cb_o)
<1>1. /\ cb_i' = IF Lookup THEN NextSlot(cb_i) ELSE cb_i
      /\ cb_o' = IF send_rsp THEN NextSlot(cb_o) ELSE cb_o
      /\ cb_n' = cb_n + Bit(Lookup) - Bit(send_rsp)
    BY DEF Clock, CacheCycle, CompletionBuffer, Bit
<1>2. /\ cb_i \in Slot /\ cb_o \in Slot /\ cb_n \in 0 .. Slots /\ cb_i = SlotAt(cb_n)
    BY DEF SlotInv, TypeInv, OrderInv
<1>3. Lookup => cb_n < Slots /\ ~send_rsp
    BY Rules
<1>4. send_rsp => cb_n # 0
    BY DEF send_rsp
<1>5. /\ NextSlot(cb_i) = IF cb_i = Slots - 1 THEN 0 ELSE cb_i + 1
      /\ NextSlot(cb_o) = IF cb_o = Slots - 1 THEN 0 ELSE cb_o + 1
    BY DEF NextSlot
<1>. HIDE DEF Lookup, send_rsp
<1>6. CASE send_rsp
    <2>1. /\ cb_i' = cb_i /\ cb_n' = cb_n - 1 /\ ~Lookup /\ cb_n \in 1 .. Slots
          /\ cb_o' = IF cb_o = Slots - 1 THEN 0 ELSE cb_o + 1
        BY <1>1, <1>2, <1>3, <1>4, <1>5, <1>6 DEF Bit
    <2>2. /\ \A s \in Slot : InUse(s) /\ s # cb_o =>
                  InUse(s)' /\ Age(s)' = Age(s) - 1
          /\ \A s \in Slot : InUse(s)' => InUse(s) /\ s # cb_o
          /\ InUse(cb_o)
        BY <1>2, <2>1, SlotsAssumption DEF Slot, Age, InUse
    <2>3. cb_i' = SlotAt(cb_n)'
        BY <1>2, <2>1, SlotsAssumption DEF Slot, SlotAt
    <2>. QED BY <1>1, <1>6, <2>1, <2>2, <2>3 DEF Bit
<1>7. CASE ~send_rsp /\ Lookup
    <2>1. /\ cb_o' = cb_o /\ cb_n' = cb_n + 1 /\ cb_n \in 0 .. Slots - 1
          /\ cb_i' = IF cb_i = Slots - 1 THEN 0 ELSE cb_i + 1
        BY <1>1, <1>2, <1>3, <1>5, <1>7, SlotsAssumption DEF Bit
    <2>2. /\ \A s \in Slot : InUse(s) => InUse(s)' /\ Age(s)' = Age(s)
          /\ \A s \in Slot : s = cb_i => ~InUse(s) /\ InUse(s)' /\ Age(s)' = cb_n
          /\ \A s \in Slot : InUse(s)' => InUse(s) \/ s = cb_i
        BY <1>2, <2>1, SlotsAssumption DEF Slot, Age, InUse, SlotAt
    <2>3. cb_i' = SlotAt(cb_n)'
        BY <1>2, <2>1, SlotsAssumption DEF Slot, SlotAt
    <2>4. \A s \in Slot : Age(s) - 0 = Age(s)
        BY <1>2, Ring
    <2>. QED BY <1>1, <1>7, <2>1, <2>2, <2>3, <2>4 DEF Bit
<1>8. CASE ~send_rsp /\ ~Lookup
    <2>1. cb_o' = cb_o /\ cb_n' = cb_n /\ cb_i' = cb_i
        BY <1>1, <1>2, <1>8 DEF Bit
    <2>2. \A s \in Slot : Age(s) - 0 = Age(s)
        BY <1>2, Ring
    <2>3. \A s \in Slot : (InUse(s)' <=> InUse(s)) /\ Age(s)' = Age(s)
        BY <2>1 DEF InUse, Age
    <2>4. cb_i' = SlotAt(cb_n)'
        BY <1>2, <2>1 DEF SlotAt
    <2>. QED BY <1>1, <1>8, <2>1, <2>2, <2>3, <2>4 DEF Bit
<1>. QED BY <1>6, <1>7, <1>8

(***************************************************************************)
(* A slot keeps its address until it is sent, and a reserved one has that  *)
(* of the request looked up.                                               *)
(***************************************************************************)
LEMMA OrderStep ==
    ASSUME SlotInv, NEW req \in Requests \cup {None}, NEW take \in BOOLEAN,
           NEW memTake \in BOOLEAN, NEW memGive \in BOOLEAN,
           Clock(req, take, memTake, memGive)
    PROVE  /\ OrderInv'
           /\ \A s \in Slot : InUse(s) /\ ~(send_rsp /\ s = cb_o) =>
                  Asked(s)' = Asked(s)
           /\ \A s \in Slot : Lookup /\ s = cb_i => Asked(s)' = Head(req_fifo).addr
           /\ send_rsp => Asked(cb_o) = expect[1] /\ Len(expect) > 0
           /\ Delivers(take) => Len(expect) > 0
           /\ Sent = 1 => Len(expect) > 0
<1>. DEFINE D == Bit(Delivers(take))
            S == Bit(send_rsp)
            L == Bit(Lookup)
            n == Bit(req # None)
            le == Len(expect)
            lr == Len(req_fifo)
<1>1. /\ le \in Nat /\ lr \in Nat /\ le = Sent + cb_n + lr /\ cb_n \in Nat
      /\ \A k \in 1 .. lr : expect[Sent + cb_n + k] = req_fifo[k].addr
      /\ cb_o \in Slot
    BY DEF SlotInv, OrderInv, TypeInv
<1>2. /\ Len(expect') = le - D + n
      /\ \A k \in 1 .. le - D : expect'[k] = expect[k + D]
      /\ req # None => expect'[le - D + 1] = req.addr
    BY QueuesMove DEF Queues, Follows
<1>3. /\ Len(req_fifo') = lr - L + n
      /\ \A k \in 1 .. lr - L : req_fifo'[k] = req_fifo[k + L]
      /\ req # None => req_fifo'[lr - L + 1] = req
    BY QueuesMove, Rules DEF Queues, Follows, Bit
<1>4. /\ Sent \in {0, 1} /\ Sent' = Sent + S - D /\ cb_n' = cb_n + L - S
      /\ D = 1 => Sent + S = 1
      /\ S = 1 => Sent = 0 /\ cb_n > 0
    <2>1. cb_n \in Nat
        BY <1>1
    <2>. QED BY <2>1, RspStep, RingStep DEF Bit
<1>5. /\ D \in {0, 1} /\ S \in {0, 1} /\ L \in {0, 1} /\ n \in {0, 1}
      /\ (L = 1 <=> Lookup) /\ (S = 1 <=> send_rsp) /\ (n = 1 <=> req # None)
      /\ (D = 1 <=> Delivers(take))
    BY DEF Bit
<1>6. /\ L = 1 => S = 0 /\ lr > 0 /\ Head(req_fifo) = req_fifo[1]
    <2>1. Lookup => ~send_rsp /\ req_fifo # << >> /\ Head(req_fifo) = req_fifo[1]
        BY Rules
    <2>2. req_fifo # << >> => lr > 0
        BY NonEmpty DEF SlotInv, TypeInv
    <2>. QED BY <1>5, <2>1, <2>2
<1>7. \A s \in Slot : Age(s) \in 0 .. Slots - 1 /\ (InUse(s) <=> Age(s) < cb_n)
                      /\ (Age(s) = 0 => s = cb_o)
    BY <1>1, Ring DEF InUse
<1>8. /\ \A s \in Slot : InUse(s) /\ ~(send_rsp /\ s = cb_o) => Age(s)' = Age(s) - S
      /\ \A s \in Slot : Lookup /\ s = cb_i => Age(s)' = cb_n
      /\ cb_i' = SlotAt(cb_n)'
    BY RingStep
<1>9. /\ \A s \in Slot : Asked(s) = expect[Sent + Age(s) + 1]
      /\ \A s \in Slot : Asked(s)' = expect'[Sent' + Age(s)' + 1]
    BY DEF Asked
<1>. HIDE DEF D, S, L, n, le, lr
<1>10. ASSUME NEW s \in Slot, InUse(s), ~(send_rsp /\ s = cb_o)
       PROVE  Asked(s)' = Asked(s)
    <2>. DEFINE g == Age(s)
                k == Sent + g + 1 - D
    <2>1. g \in Nat /\ g < cb_n /\ (S = 1 => g > 0)
        BY <1>5, <1>7, <1>10, SlotsAssumption
    <2>2. Age(s)' = g - S
        BY <1>8, <1>10
    <2>3. Asked(s) = expect[Sent + g + 1] /\ Asked(s)' = expect'[Sent' + (g - S) + 1]
        BY <1>9, <2>2
    <2>. HIDE DEF g
    <2>4. /\ Sent' + (g - S) + 1 = k /\ k + D = Sent + g + 1 /\ k \in 1 .. le - D
        BY <1>1, <1>4, <1>5, <2>1
    <2>. HIDE DEF k
    <2>5. expect'[k] = expect[k + D]
        BY <1>2, <2>4
    <2>. QED BY <2>3, <2>4, <2>5
<1>11. ASSUME NEW s \in Slot, Lookup, s = cb_i
       PROVE  Asked(s)' = Head(req_fifo).addr
    <2>. DEFINE k == Sent + cb_n + 1 - D
    <2>1. Asked(s)' = expect'[Sent' + cb_n + 1]
        BY <1>8, <1>9, <1>11
    <2>2. /\ Sent' + cb_n + 1 = k /\ k + D = Sent + cb_n + 1 /\ k \in 1 .. le - D
          /\ lr > 0
        BY <1>1, <1>4, <1>5, <1>6, <1>11
    <2>. HIDE DEF k
    <2>3. expect'[k] = expect[k + D] /\ expect[Sent + cb_n + 1] = req_fifo[1].addr
        BY <1>1, <1>2, <2>2
    <2>4. Head(req_fifo) = req_fifo[1]
        BY <1>5, <1>6, <1>11
    <2>. QED BY <2>1, <2>2, <2>3, <2>4
<1>12. send_rsp => Asked(cb_o) = expect[1] /\ Len(expect) > 0
    <2>1. Age(cb_o) = 0
        BY <1>1, Ring
    <2>2. send_rsp => Sent = 0 /\ le > 0
        BY <1>1, <1>4, <1>5
    <2>3. Asked(cb_o) = expect[Sent + Age(cb_o) + 1]
        BY DEF Asked
    <2>. QED BY <2>1, <2>2, <2>3 DEF le
<1>13. (Delivers(take) => Len(expect) > 0) /\ (Sent = 1 => Len(expect) > 0)
    BY <1>1, <1>4, <1>5 DEF le
<1>14. OrderInv'
    <2>1. Len(expect') = Sent' + cb_n' + Len(req_fifo')
        BY <1>1, <1>2, <1>3, <1>4, <1>5
    <2>2. ASSUME NEW k \in 1 .. Len(req_fifo')
          PROVE  expect'[Sent' + cb_n' + k] = req_fifo'[k].addr
        <3>1. CASE k \in 1 .. lr - L
            <4>. DEFINE j == Sent + cb_n + L + k - D
            <4>1. /\ Sent' + cb_n' + k = j /\ j + D = Sent + cb_n + (k + L)
                  /\ j \in 1 .. le - D /\ k + L \in 1 .. lr
                BY <1>1, <1>4, <1>5, <3>1
            <4>. HIDE DEF j
            <4>2. expect'[j] = expect[j + D] /\ req_fifo'[k] = req_fifo[k + L]
                BY <1>2, <1>3, <3>1, <4>1
            <4>3. expect[Sent + cb_n + (k + L)] = req_fifo[k + L].addr
                BY <1>1, <4>1
            <4>. QED BY <4>1, <4>2, <4>3
        <3>2. CASE k \notin 1 .. lr - L
            <4>1. n = 1 /\ k = lr - L + 1
                BY <1>1, <1>3, <1>5, <3>2
            <4>2. Sent' + cb_n' + k = le - D + 1
                BY <1>1, <1>4, <1>5, <4>1
            <4>. QED BY <1>2, <1>3, <1>5, <4>1, <4>2
        <3>. QED BY <3>1, <3>2
    <2>. QED BY <1>8, <2>1, <2>2 DEF OrderInv
<1>. QED BY <1>10, <1>11, <1>12, <1>13, <1>14

-----------------------------------------------------------------------------
(***************************************************************************)
(* Which slots wait for their line.                                        *)
(***************************************************************************)
LEMMA WaitingStep ==
    ASSUME SlotInv, NEW req \in Requests \cup {None}, NEW take \in BOOLEAN,
           NEW memTake \in BOOLEAN, NEW memGive \in BOOLEAN,
           Clock(req, take, memTake, memGive)
    PROVE  /\ \A s \in Slot : Waiting(s) => ~(send_rsp /\ s = cb_o)
           /\ \A s \in Slot : Waiting(s) => Asked(s)' = Asked(s)
           /\ \A s \in Slot : Waiting(s)' <=>
                 \/ /\ Waiting(s) /\ ~(HitDone /\ s = token_hit)
                    /\ ~(fill_rule /\ s = Head(miss_q).token)
                 \/ Lookup /\ s = cb_i
<1>1. cb_buff' =
          IF Lookup THEN [cb_buff EXCEPT ![cb_i] = None]
          ELSE IF HitDone THEN [cb_buff EXCEPT ![token_hit] = Head(cm_rsp_fifo)]
          ELSE IF fill_rule
            THEN [cb_buff EXCEPT ![Head(miss_q).token] = Head(mem_rsp_fifo)]
          ELSE cb_buff
    BY DEF Clock, CacheCycle, CompletionBuffer
<1>2. /\ cb_buff \in [Slot -> Line \cup {None}] /\ cb_i \in Slot /\ token_hit \in Slot
    BY DEF SlotInv, TypeInv
<1>3. /\ Lookup => ~fill_rule /\ ~HitDone
      /\ fill_rule => ~HitDone
      /\ HitDone => Head(cm_rsp_fifo) # None
      /\ fill_rule => Head(mem_rsp_fifo) # None /\ Head(miss_q).token \in Slot
    BY Rules, LineNotNone DEF HitDone, MissEntry
<1>4. send_rsp => cb_buff[cb_o] # None
    BY DEF send_rsp
<1>5. /\ \A s \in Slot : InUse(s) /\ ~(send_rsp /\ s = cb_o) => InUse(s)'
      /\ \A s \in Slot : Lookup /\ s = cb_i => ~InUse(s) /\ InUse(s)'
      /\ \A s \in Slot : InUse(s)' => \/ InUse(s) /\ ~(send_rsp /\ s = cb_o)
                                      \/ Lookup /\ s = cb_i
    BY RingStep
<1>6. \A s \in Slot : Waiting(s) => ~(send_rsp /\ s = cb_o)
    BY <1>4 DEF Waiting
<1>7. \A s \in Slot : Waiting(s) => Asked(s)' = Asked(s)
    BY <1>6, OrderStep DEF Waiting
<1>8. ASSUME NEW s \in Slot
      PROVE  Waiting(s)' <=>
                 \/ /\ Waiting(s) /\ ~(HitDone /\ s = token_hit)
                    /\ ~(fill_rule /\ s = Head(miss_q).token)
                 \/ Lookup /\ s = cb_i
    <2>1. Waiting(s)' <=> InUse(s)' /\ cb_buff'[s] = None
        BY DEF Waiting
    <2>2. Waiting(s) <=> InUse(s) /\ cb_buff[s] = None
        BY DEF Waiting
    <2>3. cb_buff'[s] = None <=>
              \/ Lookup /\ s = cb_i
              \/ /\ cb_buff[s] = None /\ ~(HitDone /\ s = token_hit)
                 /\ ~(fill_rule /\ s = Head(miss_q).token)
        <3>. HIDE DEF Lookup, HitDone, fill_rule
        <3>1. CASE Lookup
            BY <1>1, <1>2, <1>3, <3>1
        <3>2. CASE ~Lookup /\ HitDone
            BY <1>1, <1>2, <1>3, <3>2
        <3>3. CASE ~Lookup /\ ~HitDone /\ fill_rule
            BY <1>1, <1>2, <1>3, <3>3
        <3>4. CASE ~Lookup /\ ~HitDone /\ ~fill_rule
            BY <1>1, <1>2, <1>3, <3>4
        <3>. QED BY <3>1, <3>2, <3>3, <3>4
    <2>. QED BY <1>5, <1>6, <2>1, <2>2, <2>3
<1>. QED BY <1>6, <1>7, <1>8

LEMMA OwedStep ==
    ASSUME SlotInv, NEW req \in Requests \cup {None}, NEW take \in BOOLEAN,
           NEW memTake \in BOOLEAN, NEW memGive \in BOOLEAN,
           Clock(req, take, memTake, memGive)
    PROVE  OwedInv'
<1>. DEFINE f == Bit(fill_rule)
            m == Bit(Miss)
            lq == Len(miss_q)
            tok == Head(miss_q).token
<1>1. /\ Len(miss_q') = lq - f + m /\ lq \in Nat
      /\ \A k \in 1 .. lq - f : miss_q'[k] = miss_q[k + f]
      /\ Miss => miss_q'[lq - f + 1] = [token |-> cb_i, addr |-> Head(req_fifo).addr]
      /\ \A k \in 1 .. lq : miss_q[k].token \in Slot
      /\ cb_i \in Slot /\ token_hit \in Slot
    <2>1. miss_q \in Seq(MissEntry) /\ cb_i \in Slot /\ token_hit \in Slot
        BY DEF SlotInv, TypeInv, MissEntry
    <2>2. \A k \in 1 .. lq : miss_q[k] \in MissEntry
        BY <2>1, NonEmpty
    <2>3. \A k \in 1 .. lq : miss_q[k].token \in Slot
        BY <2>2 DEF MissEntry
    <2>4. lq \in Nat
        BY <2>1
    <2>. QED BY <2>1, <2>3, <2>4, QueuesMove DEF Queues, Follows
<1>2. /\ f \in {0, 1} /\ m \in {0, 1} /\ (f = 1 <=> fill_rule) /\ (m = 1 <=> Miss)
      /\ fill_rule => lq > 0 /\ tok = miss_q[1].token
      /\ Miss => f = 0 /\ Lookup /\ ~Hit /\ ~HitDone
      /\ Hit => Lookup /\ ~Miss /\ f = 0 /\ ~HitDone
      /\ Lookup => (Hit \/ Miss) /\ state = "idle"
    <2>1. fill_rule => lq > 0
        BY <1>1, Rules, NonEmpty DEF SlotInv, TypeInv
    <2>2. core_req => ~HitDone
        BY Rules DEF HitDone
    <2>. QED BY <2>1, <2>2, Rules DEF Bit
<1>3. /\ \A s \in Slot : Waiting(s) => Missed(s) \/ Hitting(s)
      /\ \A s \in Slot : Hitting(s) => Waiting(s)
      /\ \A k \in 1 .. lq, s \in Slot : miss_q[k].token = s =>
            Waiting(s) /\ ~Hitting(s) /\ miss_q[k].addr = Asked(s)
      /\ \A j, k \in 1 .. lq : miss_q[j].token = miss_q[k].token => j = k
    BY DEF SlotInv, OwedInv
<1>4. /\ \A s \in Slot : Waiting(s) => Asked(s)' = Asked(s)
      /\ \A s \in Slot : Waiting(s)' <=>
            \/ /\ Waiting(s) /\ ~(HitDone /\ s = token_hit) /\ ~(fill_rule /\ s = tok)
            \/ Lookup /\ s = cb_i
    BY WaitingStep
<1>5. /\ \A s \in Slot : Lookup /\ s = cb_i => ~Waiting(s)
      /\ \A s \in Slot : Lookup /\ s = cb_i => Asked(s)' = Head(req_fifo).addr
    BY RingStep, OrderStep DEF Waiting
<1>6. \A s \in Slot : Hitting(s)' <=>
          (Hit /\ s = cb_i) \/ (~Hit /\ ~HitDone /\ Hitting(s))
    <2>1. /\ state' = IF Hit THEN "hit" ELSE IF HitDone THEN "idle" ELSE state
          /\ token_hit' = IF Hit THEN cb_i ELSE token_hit
        BY DEF Clock, CacheCycle
    <2>2. \A s \in Slot : Hitting(s)' <=> state' = "hit" /\ token_hit' = s
        BY DEF Hitting
    <2>. HIDE DEF Hit, HitDone
    <2>. QED BY <2>1, <2>2 DEF Hitting
<1>7. HitDone => state = "hit"
    BY DEF HitDone
<1>8. \A s \in Slot : Missed(s) <=> \E k \in 1 .. lq : miss_q[k].token = s
    BY DEF Missed
<1>9. \A s \in Slot : Missed(s)' <=> \E k \in 1 .. Len(miss_q') : miss_q'[k].token = s
    BY DEF Missed
<1>. HIDE DEF f, m, lq, tok
\* The misses that stay, and the new one.
<1>10. ASSUME NEW k \in 1 .. lq - f, NEW s \in Slot, s = miss_q[k + f].token
       PROVE  /\ k + f \in 1 .. lq /\ miss_q'[k] = miss_q[k + f]
              /\ Waiting(s)' /\ ~(Lookup /\ s = cb_i) /\ ~Hitting(s)'
              /\ miss_q[k + f].addr = Asked(s)'
    <2>. DEFINE j == k + f
    <2>1. j \in 1 .. lq /\ (fill_rule => j # 1)
        BY <1>1, <1>2
    <2>. HIDE DEF j
    <2>2. s = miss_q[j].token
        BY <1>10 DEF j
    <2>3. Waiting(s) /\ ~Hitting(s) /\ miss_q[j].addr = Asked(s)
        BY <1>3, <2>1, <2>2
    <2>4. ~(fill_rule /\ s = tok)
        <3>1. fill_rule => 1 \in 1 .. lq /\ tok = miss_q[1].token
            BY <1>1, <1>2
        <3>. QED BY <1>3, <2>1, <2>2, <3>1
    <2>5. ~(HitDone /\ s = token_hit)
        BY <1>7, <2>3 DEF Hitting
    <2>6. ~(Lookup /\ s = cb_i)
        BY <1>5, <2>3
    <2>7. Waiting(s)' /\ Asked(s)' = Asked(s)
        BY <1>4, <2>3, <2>4, <2>5
    <2>8. ~Hitting(s)'
        BY <1>2, <1>6, <2>3, <2>6
    <2>9. miss_q'[k] = miss_q[j]
        BY <1>1 DEF j
    <2>. QED BY <2>1, <2>3, <2>6, <2>7, <2>8, <2>9 DEF j
<1>11. ASSUME NEW k \in 1 .. Len(miss_q'), k \notin 1 .. lq - f
       PROVE  /\ Miss /\ Lookup /\ k = lq - f + 1
              /\ miss_q'[k].token = cb_i /\ miss_q'[k].addr = Head(req_fifo).addr
    BY <1>1, <1>2, <1>11
<1>12. \A s \in Slot : Waiting(s)' => Missed(s)' \/ Hitting(s)'
    <2>. SUFFICES ASSUME NEW s \in Slot, Waiting(s)' PROVE Missed(s)' \/ Hitting(s)'
        OBVIOUS
    <2>1. CASE Lookup /\ s = cb_i
        <3>1. CASE Hit
            BY <1>6, <2>1, <3>1
        <3>2. CASE Miss
            <4>1. lq - f + 1 \in 1 .. Len(miss_q') /\ miss_q'[lq - f + 1].token = cb_i
                BY <1>1, <1>2, <3>2
            <4>. QED BY <1>9, <2>1, <4>1
        <3>. QED BY <1>2, <2>1, <3>1, <3>2
    <2>2. CASE ~(Lookup /\ s = cb_i)
        <3>1. Waiting(s) /\ ~(HitDone /\ s = token_hit) /\ ~(fill_rule /\ s = tok)
            BY <1>4, <2>2
        <3>2. CASE Hitting(s)
            <4>1. ~HitDone /\ ~Hit
                BY <1>2, <3>1, <3>2 DEF Hitting
            <4>. QED BY <1>6, <3>2, <4>1
        <3>3. CASE Missed(s)
            <4>1. PICK j \in 1 .. lq : miss_q[j].token = s
                BY <1>8, <3>3
            <4>2. j - f \in 1 .. lq - f /\ (j - f) + f = j
                BY <1>1, <1>2, <3>1, <4>1
            <4>3. miss_q'[j - f] = miss_q[j] /\ j - f \in 1 .. Len(miss_q')
                BY <1>1, <1>2, <4>2
            <4>. QED BY <1>9, <4>1, <4>3
        <3>. QED BY <1>3, <3>1, <3>2, <3>3
    <2>. QED BY <2>1, <2>2
<1>13. \A s \in Slot : Hitting(s)' => Waiting(s)'
    <2>. SUFFICES ASSUME NEW s \in Slot, Hitting(s)' PROVE Waiting(s)'
        OBVIOUS
    <2>1. CASE Hit /\ s = cb_i
        BY <1>2, <1>4, <2>1
    <2>2. CASE ~Hit /\ ~HitDone /\ Hitting(s)
        <3>1. Waiting(s)
            BY <1>3, <2>2
        <3>2. fill_rule => s # tok
            <4>1. fill_rule => 1 \in 1 .. lq /\ tok = miss_q[1].token
                BY <1>1, <1>2
            <4>. QED BY <1>3, <2>2, <4>1
        <3>. QED BY <1>4, <2>2, <3>1, <3>2
    <2>. QED BY <1>6, <2>1, <2>2
<1>14. ASSUME NEW k \in 1 .. Len(miss_q'), NEW s \in Slot, miss_q'[k].token = s
       PROVE  Waiting(s)' /\ ~Hitting(s)' /\ miss_q'[k].addr = Asked(s)'
    <2>1. CASE k \in 1 .. lq - f
        BY <1>1, <1>10, <1>14, <2>1
    <2>2. CASE k \notin 1 .. lq - f
        <3>1. /\ Miss /\ Lookup /\ s = cb_i /\ miss_q'[k].addr = Head(req_fifo).addr
            BY <1>11, <1>14, <2>2
        <3>2. Waiting(s)' /\ Asked(s)' = Head(req_fifo).addr
            BY <1>4, <1>5, <3>1
        <3>3. ~Hitting(s)'
            BY <1>2, <1>6, <3>1 DEF Hitting
        <3>. QED BY <3>1, <3>2, <3>3
    <2>. QED BY <2>1, <2>2
<1>15. ASSUME NEW j \in 1 .. Len(miss_q'), NEW k \in 1 .. Len(miss_q'),
              miss_q'[j].token = miss_q'[k].token
       PROVE  j = k
    <2>1. CASE j \in 1 .. lq - f /\ k \in 1 .. lq - f
        <3>1. /\ miss_q'[j] = miss_q[j + f] /\ miss_q'[k] = miss_q[k + f]
              /\ j + f \in 1 .. lq /\ k + f \in 1 .. lq
            BY <1>1, <1>2, <2>1
        <3>2. j + f = k + f
            BY <1>3, <1>15, <3>1
        <3>. QED BY <1>1, <1>2, <2>1, <3>2
    <2>2. CASE j \notin 1 .. lq - f /\ k \notin 1 .. lq - f
        BY <1>11, <2>2
    <2>3. CASE j \in 1 .. lq - f /\ k \notin 1 .. lq - f
        BY <1>1, <1>2, <1>10, <1>11, <1>15, <2>3
    <2>4. CASE j \notin 1 .. lq - f /\ k \in 1 .. lq - f
        BY <1>1, <1>2, <1>10, <1>11, <1>15, <2>4
    <2>. QED BY <2>1, <2>2, <2>3, <2>4
<1>. QED BY <1>12, <1>13, <1>14, <1>15 DEF OwedInv

-----------------------------------------------------------------------------
(***************************************************************************)
(* The line memory, and what is under way at it.                           *)
(***************************************************************************)
LEMMA ArrayStep ==
    ASSUME SlotInv, NEW req \in Requests \cup {None}, NEW take \in BOOLEAN,
           NEW memTake \in BOOLEAN, NEW memGive \in BOOLEAN,
           Clock(req, take, memTake, memGive)
    PROVE  ArrayInv'
<1>1. CacheMemCycle(CacheMemRequest, cache_mem_rsp)
    BY DEF Clock, CacheCycle
<1>2. /\ cm_state \in {"idle", "read", "write"}
      /\ cm_state = "write" => cm_req.write
      /\ cm_state = "read" => bram_out = bram[Index(cm_req.addr)]
    BY DEF SlotInv, ArrayTypes, ArrayInv
<1>3. /\ handle_req => cm_state = "idle" /\ ~get_rd_rsp /\ ~write_data_st
      /\ get_rd_rsp => cm_state = "read" /\ ~handle_req /\ ~write_data_st
      /\ write_data_st => cm_state = "write" /\ ~handle_req /\ ~get_rd_rsp
    BY DEF handle_req, get_rd_rsp, write_data_st
<1>4. /\ cm_state' = CASE handle_req -> "read"
                     [] get_rd_rsp -> IF cm_req.write THEN "write" ELSE "idle"
                     [] write_data_st -> "idle"
                     [] OTHER -> cm_state
      /\ cm_req' = IF handle_req THEN Head(cm_req_fifo) ELSE cm_req
      /\ bram_out' = IF handle_req THEN bram[Index(Head(cm_req_fifo).addr)]
                                   ELSE bram_out
      /\ bram' = IF write_data_st
                   THEN [bram EXCEPT ![Index(cm_req.addr)] = Merged] ELSE bram
    BY <1>1 DEF CacheMemCycle
<1>5. /\ cm_state' = "write" => cm_req'.write
      /\ cm_state' = "read" => bram_out' = bram'[Index(cm_req'.addr)]
    <2>. HIDE DEF handle_req, get_rd_rsp, write_data_st
    <2>1. CASE handle_req
        BY <1>3, <1>4, <2>1
    <2>2. CASE get_rd_rsp
        BY <1>3, <1>4, <2>2
    <2>3. CASE write_data_st
        BY <1>3, <1>4, <2>3
    <2>4. CASE ~handle_req /\ ~get_rd_rsp /\ ~write_data_st
        BY <1>2, <1>4, <2>4
    <2>. QED BY <2>1, <2>2, <2>3, <2>4
<1>6. ASSUME NEW k \in 1 .. Len(AtArray'), AtArray'[k].write
      PROVE  AtArray'[k].strb = WordIdx
    <2>. DEFINE a == Bit(ArrayDone)
                e == Bit(Hit \/ fill_rule)
                x == IF Hit THEN Head(req_fifo) ELSE FillRequest
                lu == Len(AtArray)
    <2>1. /\ Len(AtArray') = lu - a + e /\ lu \in Nat
          /\ a \in {0, 1} /\ e \in {0, 1} /\ (e = 1 <=> Hit \/ fill_rule)
          /\ \A i \in 1 .. lu - a : AtArray'[i] = AtArray[i + a]
          /\ Hit \/ fill_rule => AtArray'[lu - a + 1] = x
        BY QueuesMove, AtArrayShape DEF Queues, Follows, Bit, SlotInv
    <2>2. \A i \in 1 .. lu : AtArray[i].write => AtArray[i].strb = WordIdx
        BY DEF SlotInv, ArrayInv
    <2>3. x.write => x.strb = WordIdx
        <3>1. Hit => ~Head(req_fifo).write
            BY Rules
        <3>. QED BY <3>1 DEF FillRequest
    <2>. HIDE DEF a, e, x, lu
    <2>4. CASE k \in 1 .. lu - a
        <3>1. k + a \in 1 .. lu
            BY <2>1, <2>4
        <3>. QED BY <1>6, <2>1, <2>2, <2>4, <3>1
    <2>5. CASE k \notin 1 .. lu - a
        <3>1. (Hit \/ fill_rule) /\ k = lu - a + 1
            BY <2>1, <2>5
        <3>. QED BY <1>6, <2>1, <2>3, <3>1
    <2>. QED BY <2>4, <2>5
<1>. QED BY <1>5, <1>6 DEF ArrayInv

LEMMA HittingStep ==
    ASSUME SlotInv, NEW req \in Requests \cup {None}, NEW take \in BOOLEAN,
           NEW memTake \in BOOLEAN, NEW memGive \in BOOLEAN,
           Clock(req, take, memTake, memGive)
    PROVE  /\ state' = IF Hit THEN "hit" ELSE IF HitDone THEN "idle" ELSE state
           /\ \A s \in Slot : Hitting(s)' <=>
                 (Hit /\ s = cb_i) \/ (~Hit /\ ~HitDone /\ Hitting(s))
           /\ \A s \in Slot : ~Hit /\ Hitting(s)' => Asked(s)' = Asked(s)
           /\ \A s \in Slot : Hit /\ Hitting(s)' => Asked(s)' = Head(req_fifo).addr
<1>1. /\ state' = IF Hit THEN "hit" ELSE IF HitDone THEN "idle" ELSE state
      /\ token_hit' = IF Hit THEN cb_i ELSE token_hit
    BY DEF Clock, CacheCycle
<1>2. \A s \in Slot : Hitting(s)' <=> state' = "hit" /\ token_hit' = s
    BY DEF Hitting
<1>3. Hit => Lookup
    BY DEF Hit
<1>. HIDE DEF Hit, HitDone, Lookup
<1>4. \A s \in Slot : Hitting(s)' <=>
          (Hit /\ s = cb_i) \/ (~Hit /\ ~HitDone /\ Hitting(s))
    BY <1>1, <1>2 DEF Hitting
<1>5. \A s \in Slot : Hitting(s) => Waiting(s)
    BY DEF SlotInv, OwedInv
<1>6. \A s \in Slot : Waiting(s) => Asked(s)' = Asked(s)
    BY WaitingStep
<1>7. \A s \in Slot : Lookup /\ s = cb_i => Asked(s)' = Head(req_fifo).addr
    BY OrderStep
<1>. QED BY <1>1, <1>3, <1>4, <1>5, <1>6, <1>7

LEMMA PipeStep ==
    ASSUME SlotInv, NEW req \in Requests \cup {None}, NEW take \in BOOLEAN,
           NEW memTake \in BOOLEAN, NEW memGive \in BOOLEAN,
           Clock(req, take, memTake, memGive)
    PROVE  PipeInv'
<1>. DEFINE d == Bit(cache_mem_rsp)
            a == Bit(ArrayDone)
            e == Bit(Hit \/ fill_rule)
            x == IF Hit THEN Head(req_fifo) ELSE FillRequest
            lh == Len(hit_req_fifo)
            lc == Len(cm_rsp_fifo)
            lu == Len(AtArray)
<1>1. /\ Len(hit_req_fifo') = lh - d + e
      /\ \A k \in 1 .. lh - d : hit_req_fifo'[k] = hit_req_fifo[k + d]
      /\ Hit \/ fill_rule => (hit_req_fifo'[lh - d + 1] <=> Hit)
    <2>1. Hit \in BOOLEAN
        BY Rules
    <2>. QED BY <2>1, QueuesMove DEF Queues, Follows
<1>2. Len(cm_rsp_fifo') = lc - d + a
    BY QueuesMove DEF Queues, Follows
<1>3. /\ Len(AtArray') = lu - a + e
      /\ \A k \in 1 .. lu - a : AtArray'[k] = AtArray[k + a]
      /\ Hit \/ fill_rule => AtArray'[lu - a + 1] = x
    BY QueuesMove DEF Queues, Follows
<1>4. /\ lh \in Nat /\ lc \in Nat /\ lu \in Nat
      /\ d = 1 => lh > 0 /\ lc > 0
      /\ a = 1 => lu > 0
      /\ d \in {0, 1} /\ a \in {0, 1} /\ e \in {0, 1}
      /\ (d = 1 <=> cache_mem_rsp) /\ (e = 1 <=> Hit \/ fill_rule)
    <2>1. /\ hit_req_fifo \in Seq(BOOLEAN) /\ cm_rsp_fifo \in Seq(Line)
          /\ AtArray \in Seq(Request)
        BY AtArrayShape DEF SlotInv, TypeInv, ArrayTypes
    <2>2. cache_mem_rsp => hit_req_fifo # << >> /\ cm_rsp_fifo # << >>
        BY Rules
    <2>3. ArrayDone => AtArray # << >>
        <3>1. ArrayDone => cm_state # "idle"
            BY DEF ArrayDone, get_rd_rsp, write_data_st
        <3>. QED BY <3>1, AtArrayShape DEF SlotInv
    <2>4. /\ lh \in Nat /\ lc \in Nat /\ lu \in Nat
          /\ hit_req_fifo # << >> => lh > 0
          /\ cm_rsp_fifo # << >> => lc > 0
          /\ AtArray # << >> => lu > 0
        BY <2>1, NonEmpty
    <2>. QED BY <2>2, <2>3, <2>4 DEF Bit
<1>5. /\ lh = lc + lu /\ lh <= 2
      /\ \A k \in 1 .. lu : hit_req_fifo[lc + k] <=> ~AtArray[k].write
      /\ \A k \in 1 .. lh : hit_req_fifo[k] => state = "hit"
      /\ \A j, k \in 1 .. lh : hit_req_fifo[j] /\ hit_req_fifo[k] => j = k
      /\ state = "hit" => \E k \in 1 .. lh : hit_req_fifo[k]
      /\ \A k \in 1 .. lu, s \in Slot :
            ~AtArray[k].write /\ Hitting(s) => AtArray[k].addr = Asked(s)
    BY DEF SlotInv, PipeInv
<1>6. /\ Hit \/ fill_rule => lh < 2
      /\ Hit => state = "idle" /\ ~cache_mem_rsp
      /\ HitDone <=> cache_mem_rsp /\ state = "hit" /\ hit_req_fifo[1]
      /\ (x.write <=> ~Hit) /\ (Hit => x.addr = Head(req_fifo).addr)
      /\ Hit => ~HitDone
    <2>1. Hit => core_req /\ ~cache_mem_rsp /\ state = "idle" /\ ~Head(req_fifo).write
        BY Rules
    <2>2. core_req \/ fill_rule => lh < 2
        BY Rules
    <2>3. cache_mem_rsp => Head(hit_req_fifo) = hit_req_fifo[1]
        BY Rules
    <2>4. HitDone <=> cache_mem_rsp /\ state = "hit" /\ hit_req_fifo[1]
        BY <2>3 DEF HitDone
    <2>. QED BY <2>1, <2>2, <2>4 DEF FillRequest
<1>7. /\ state' = IF Hit THEN "hit" ELSE IF HitDone THEN "idle" ELSE state
      /\ \A s \in Slot : Hitting(s)' <=>
            (Hit /\ s = cb_i) \/ (~Hit /\ ~HitDone /\ Hitting(s))
      /\ \A s \in Slot : ~Hit /\ Hitting(s)' => Asked(s)' = Asked(s)
      /\ \A s \in Slot : Hit /\ Hitting(s)' => Asked(s)' = Head(req_fifo).addr
    BY HittingStep
<1>. HIDE DEF d, a, e, x, lh, lc, lu, Hit, HitDone, fill_rule, cache_mem_rsp
<1>8. Len(hit_req_fifo') = Len(cm_rsp_fifo') + Len(AtArray') /\ Len(hit_req_fifo') <= 2
    BY <1>1, <1>2, <1>3, <1>4, <1>5, <1>6
<1>9. ASSUME NEW k \in 1 .. Len(AtArray'), k \notin 1 .. lu - a
      PROVE  /\ Hit \/ fill_rule
             /\ AtArray'[k] = x /\ Len(cm_rsp_fifo') + k = lh - d + 1
             /\ hit_req_fifo'[Len(cm_rsp_fifo') + k] <=> Hit
    <2>1. (Hit \/ fill_rule) /\ k = lu - a + 1 /\ Len(cm_rsp_fifo') + k = lh - d + 1
        BY <1>2, <1>3, <1>4, <1>5, <1>9
    <2>. QED BY <1>1, <1>3, <2>1
<1>10. ASSUME NEW k \in 1 .. lu - a
       PROVE  /\ AtArray'[k] = AtArray[k + a] /\ k + a \in 1 .. lu
              /\ hit_req_fifo'[Len(cm_rsp_fifo') + k] = hit_req_fifo[lc + (k + a)]
              /\ lc + (k + a) \in 1 .. lh
    <2>. DEFINE j == Len(cm_rsp_fifo') + k
    <2>1. j + d = lc + (k + a) /\ j \in 1 .. lh - d /\ k + a \in 1 .. lu
          /\ lc + (k + a) \in 1 .. lh
        BY <1>2, <1>4, <1>5
    <2>. HIDE DEF j
    <2>2. hit_req_fifo'[j] = hit_req_fifo[j + d]
        BY <1>1, <2>1
    <2>. QED BY <1>3, <2>1, <2>2 DEF j
<1>11. ASSUME NEW k \in 1 .. Len(AtArray')
       PROVE  hit_req_fifo'[Len(cm_rsp_fifo') + k] <=> ~AtArray'[k].write
    <2>1. CASE k \in 1 .. lu - a
        BY <1>5, <1>10, <2>1
    <2>2. CASE k \notin 1 .. lu - a
        BY <1>6, <1>9, <2>2
    <2>. QED BY <2>1, <2>2
\* The entries of hit_req_fifo that stay, and the new one.
<1>12. ASSUME NEW k \in 1 .. Len(hit_req_fifo'), hit_req_fifo'[k]
       PROVE  \/ k + d \in 1 .. lh /\ hit_req_fifo[k + d] /\ ~HitDone
              \/ Hit /\ k = lh - d + 1
    <2>1. CASE k \in 1 .. lh - d
        <3>1. k + d \in 1 .. lh /\ hit_req_fifo[k + d]
            BY <1>1, <1>4, <1>12, <2>1
        <3>2. HitDone => 1 \in 1 .. lh /\ hit_req_fifo[1] /\ k + d # 1
            BY <1>4, <1>6, <2>1
        <3>. QED BY <1>5, <3>1, <3>2
    <2>2. CASE k \notin 1 .. lh - d
        <3>1. (Hit \/ fill_rule) /\ k = lh - d + 1
            BY <1>1, <1>4, <2>2
        <3>. QED BY <1>1, <1>12, <3>1
    <2>. QED BY <2>1, <2>2
<1>13. ASSUME NEW k \in 1 .. Len(hit_req_fifo'), hit_req_fifo'[k]
       PROVE  state' = "hit"
    <2>1. CASE Hit
        BY <1>7, <2>1
    <2>2. CASE ~Hit
        BY <1>5, <1>7, <1>12, <1>13, <2>2
    <2>. QED BY <2>1, <2>2
<1>14. ASSUME NEW j \in 1 .. Len(hit_req_fifo'), NEW k \in 1 .. Len(hit_req_fifo'),
              hit_req_fifo'[j], hit_req_fifo'[k]
       PROVE  j = k
    <2>1. CASE Hit
        <3>1. \A i \in 1 .. lh : ~hit_req_fifo[i]
            BY <1>5, <1>6, <2>1
        <3>. QED BY <1>12, <1>14, <3>1
    <2>2. CASE ~Hit
        <3>1. j + d = k + d
            BY <1>5, <1>12, <1>14, <2>2
        <3>. QED BY <1>4, <3>1
    <2>. QED BY <2>1, <2>2
<1>15. ASSUME state' = "hit"
       PROVE  \E k \in 1 .. Len(hit_req_fifo') : hit_req_fifo'[k]
    <2>1. CASE Hit
        <3>1. lh - d + 1 \in 1 .. Len(hit_req_fifo') /\ hit_req_fifo'[lh - d + 1]
            BY <1>1, <1>4, <2>1
        <3>. QED BY <3>1
    <2>2. CASE ~Hit
        <3>1. state = "hit" /\ ~HitDone
            BY <1>7, <1>15, <2>2
        <3>2. PICK k \in 1 .. lh : hit_req_fifo[k]
            BY <1>5, <3>1
        <3>3. d = 1 => k # 1
            BY <1>4, <1>6, <3>1, <3>2
        <3>4. k - d \in 1 .. lh - d /\ (k - d) + d = k
              /\ k - d \in 1 .. Len(hit_req_fifo')
            BY <1>1, <1>4, <3>3
        <3>5. hit_req_fifo'[k - d] = hit_req_fifo[k]
            BY <1>1, <3>4
        <3>. QED BY <3>2, <3>4, <3>5
    <2>. QED BY <2>1, <2>2
<1>16. ASSUME NEW k \in 1 .. Len(AtArray'), NEW s \in Slot,
              ~AtArray'[k].write, Hitting(s)'
       PROVE  AtArray'[k].addr = Asked(s)'
    <2>1. CASE k \in 1 .. lu - a
        <3>1. k + a \in 1 .. lu /\ AtArray'[k] = AtArray[k + a]
              /\ ~AtArray[k + a].write
            BY <1>10, <1>16, <2>1
        <3>2. hit_req_fifo[lc + (k + a)] /\ lc + (k + a) \in 1 .. lh
            BY <1>5, <1>10, <2>1, <3>1
        <3>3. ~Hit
            BY <1>5, <1>6, <3>2
        <3>4. Hitting(s) /\ Asked(s)' = Asked(s)
            BY <1>7, <1>16, <3>3
        <3>. QED BY <1>5, <3>1, <3>4
    <2>2. CASE k \notin 1 .. lu - a
        <3>1. Hit /\ AtArray'[k] = x
            BY <1>6, <1>9, <1>16, <2>2
        <3>. QED BY <1>6, <1>7, <1>16, <3>1
    <2>. QED BY <2>1, <2>2
<1>. QED BY <1>8, <1>11, <1>13, <1>14, <1>15, <1>16 DEF PipeInv

LEMMA MissLenStep ==
    ASSUME SlotInv, NEW req \in Requests \cup {None}, NEW take \in BOOLEAN,
           NEW memTake \in BOOLEAN, NEW memGive \in BOOLEAN,
           Clock(req, take, memTake, memGive)
    PROVE  MissLen'
<1>. DEFINE q == Len(miss_q)
            r == Len(mem_rsp_fifo)
            p == Len(pending)
            o == Len(mem_req_fifo)
            f == Bit(fill_rule)
            m == Bit(Miss)
            g == Bit(memGive)
            t == Bit(memTake)
<1>1. q \in Nat /\ r \in Nat /\ p \in Nat /\ o \in Nat /\ q = r + p + o
    BY DEF SlotInv, TypeInv, MissLen
<1>2. /\ Len(miss_q') = q - f + m /\ Len(mem_rsp_fifo') = r - f + g
      /\ Len(pending') = p - g + t /\ Len(mem_req_fifo') = o - t + m
    BY QueuesMove DEF Queues, Follows
<1>3. f \in {0, 1} /\ m \in {0, 1} /\ g \in {0, 1} /\ t \in {0, 1}
    BY DEF Bit
<1>4. MissLen' <=> Len(miss_q') = Len(mem_rsp_fifo') + Len(pending') + Len(mem_req_fifo')
    BY DEF MissLen
<1>. HIDE DEF q, r, p, o, f, m, g, t
<1>. QED BY <1>1, <1>2, <1>3, <1>4

-----------------------------------------------------------------------------
(***************************************************************************)
(* The slots, in every reachable state.                                    *)
(***************************************************************************)
LEMMA CycleKeepsSlots ==
    ASSUME SlotInv, Cycle
    PROVE  SlotInv'
<1>1. PICK req \in Requests \cup {None}, take \in BOOLEAN,
           memTake \in BOOLEAN, memGive \in BOOLEAN :
           Clock(req, take, memTake, memGive)
    BY DEF Cycle
<1>2. TypeInv' /\ ArrayTypes' /\ ArrayInv' /\ OrderInv'
    BY <1>1, TypesStep, ArrayStep, OrderStep
<1>3. OwedInv' /\ PipeInv' /\ MissLen'
    BY <1>1, OwedStep, PipeStep, MissLenStep
<1>. QED BY <1>2, <1>3 DEF SlotInv

LEMMA EmptyQueues ==
    ASSUME NEW T
    PROVE  << >> \in Seq(T) /\ Len(<< >>) = 0 /\ 1 .. Len(<< >>) = {}
OBVIOUS

\* Nothing is asked for, no slot is in use, and nothing is under way.
Resting ==
    /\ expect = << >> /\ req_fifo = << >> /\ rsp_fifo_rv = None
    /\ mem_req_fifo = << >> /\ mem_rsp_fifo = << >> /\ pending = << >>
    /\ state = "idle" /\ miss_q = << >> /\ hit_req_fifo = << >>
    /\ cb_i = cb_o /\ cb_n = 0
    /\ cm_req_fifo = << >> /\ cm_rsp_fifo = << >> /\ cm_state = "idle"

LEMMA QuietRests ==
    ASSUME SlotInv, Quiet
    PROVE  Resting
<1>1. /\ expect = << >> /\ miss_q = << >> /\ hit_req_fifo = << >>
      /\ cm_req_fifo = << >> /\ cm_state = "idle"
    BY DEF Quiet
<1>2. Len(expect) = 0 /\ Len(miss_q) = 0 /\ Len(hit_req_fifo) = 0
    BY <1>1
<1>3. AtArray = << >> /\ Len(AtArray) = 0
    BY <1>1 DEF AtArray
<1>4. /\ req_fifo \in Seq(Requests) /\ mem_req_fifo \in Seq(Addr)
      /\ mem_rsp_fifo \in Seq(Line) /\ pending \in Seq(Addr)
      /\ cm_rsp_fifo \in Seq(Line) /\ cb_n \in Nat /\ cb_o \in Slot
      /\ Sent \in {0, 1} /\ state \in {"idle", "hit"}
    BY DEF SlotInv, TypeInv, ArrayTypes, Sent
<1>5. /\ Len(req_fifo) \in Nat /\ Len(mem_req_fifo) \in Nat
      /\ Len(mem_rsp_fifo) \in Nat /\ Len(pending) \in Nat
      /\ Len(cm_rsp_fifo) \in Nat
    BY <1>4
<1>6. Sent = 0 /\ cb_n = 0 /\ Len(req_fifo) = 0
    <2>1. Len(expect) = Sent + cb_n + Len(req_fifo)
        BY DEF SlotInv, OrderInv
    <2>2. \A x, y, z \in Nat : x + y + z = 0 => x = 0 /\ y = 0 /\ z = 0
        OBVIOUS
    <2>3. Sent \in Nat
        BY <1>4
    <2>. QED BY <1>2, <1>4, <1>5, <2>1, <2>2, <2>3
<1>7. Len(mem_rsp_fifo) = 0 /\ Len(pending) = 0 /\ Len(mem_req_fifo) = 0
    BY <1>2, <1>5 DEF SlotInv, MissLen
<1>8. Len(cm_rsp_fifo) = 0
    BY <1>2, <1>3, <1>5 DEF SlotInv, PipeInv
<1>9. state # "hit"
    <2>1. state = "hit" => \E k \in 1 .. Len(hit_req_fifo) : hit_req_fifo[k]
        BY DEF SlotInv, PipeInv
    <2>. QED BY <1>2, <2>1
<1>10. /\ req_fifo = << >> /\ mem_req_fifo = << >> /\ mem_rsp_fifo = << >>
       /\ pending = << >> /\ cm_rsp_fifo = << >>
    BY <1>4, <1>6, <1>7, <1>8, EmptySeq
<1>11. cb_i = cb_o
    BY <1>4, <1>6, SlotsAssumption DEF SlotInv, OrderInv, SlotAt, Slot
<1>12. rsp_fifo_rv = None
    BY <1>6 DEF Sent
<1>. QED BY <1>1, <1>4, <1>6, <1>9, <1>10, <1>11, <1>12 DEF Resting

\* The registers an empty cache keeps its lines in have their types.
Furnished ==
    /\ token_hit \in Slot /\ cb_o \in Slot
    /\ cb_buff \in [Slot -> Line \cup {None}]
    /\ tag_array \in [0 .. Sets - 1 -> (0 .. Tags - 1) \cup {None}]
    /\ mem \in [(0 .. Tags - 1) \X (0 .. Sets - 1) -> Line]
    /\ cm_req \in Request /\ prev_line \in Line
    /\ bram \in [0 .. Sets - 1 -> Line] /\ bram_out \in Line

LEMMA RestKeepsSlots ==
    ASSUME Resting, Furnished
    PROVE  SlotInv
<1>. USE DEF Resting
<1>1. 1 .. Len(<< >>) = {} /\ Len(<< >>) = 0
    BY EmptyQueues
<1>2. AtArray = << >>
    BY DEF AtArray
<1>3. TypeInv /\ ArrayTypes
    <2>1. 0 \in 0 .. Slots
        BY SlotsAssumption
    <2>. QED BY <2>1, EmptyQueues DEF Furnished, TypeInv, ArrayTypes
<1>4. ArrayInv /\ MissLen
    BY <1>1, <1>2 DEF ArrayInv, MissLen
<1>5. OrderInv
    <2>1. cb_i = SlotAt(cb_n)
        BY SlotsAssumption DEF Furnished, Slot, SlotAt
    <2>2. Sent = 0
        BY DEF Sent
    <2>. QED BY <1>1, <2>1, <2>2 DEF OrderInv
<1>6. OwedInv
    <2>1. \A s \in Slot : Age(s) \in Nat
        BY Ring DEF Furnished
    <2>2. \A s \in Slot : ~Waiting(s) /\ ~Hitting(s)
        BY <2>1 DEF Waiting, Hitting, InUse
    <2>. QED BY <1>1, <2>2 DEF OwedInv
<1>7. PipeInv
    BY <1>1, <1>2 DEF PipeInv
<1>. QED BY <1>3, <1>4, <1>5, <1>6, <1>7 DEF SlotInv

LEMMA ResetKeepsSlots ==
    ASSUME SlotInv, Reset
    PROVE  SlotInv'
<1>1. Resting
    BY QuietRests DEF Reset
<1>2. Resting'
    BY <1>1, Zenon DEF Reset, CacheMemReset, Resting
<1>3. Furnished'
    <2>1. /\ token_hit' \in Slot /\ cb_buff' \in [Slot -> Line \cup {None}]
          /\ tag_array' \in [0 .. Sets - 1 -> (0 .. Tags - 1) \cup {None}]
          /\ cm_req' \in Request /\ prev_line' \in Line
          /\ bram' \in [0 .. Sets - 1 -> Line] /\ bram_out' \in Line
        BY DEF SlotInv, TypeInv, ArrayTypes, Reset, CacheMemReset
    <2>2. cb_o' \in Slot
        BY RingArithmetic DEF Reset
    <2>3. mem' \in [(0 .. Tags - 1) \X (0 .. Sets - 1) -> Line]
        <3>1. mem \in [(0 .. Tags - 1) \X (0 .. Sets - 1) -> Line]
            BY DEF SlotInv, TypeInv
        <3>2. \A l \in Line : OtherLine(l) \in Line
            BY DEF OtherLine, Line
        <3>3. mem' = mem \/ mem' = [l \in DOMAIN mem |-> OtherLine(mem[l])]
            BY DEF Reset
        <3>. QED BY <3>1, <3>2, <3>3
    <2>. QED BY <2>1, <2>2, <2>3 DEF Furnished
<1>4. ASSUME Resting', Furnished' PROVE SlotInv'
    BY <1>4, RestKeepsSlots, PTL
<1>. QED BY <1>2, <1>3, <1>4

LEMMA InitHasSlots ==
    ASSUME Init
    PROVE  SlotInv
<1>1. Resting
    BY DEF Init, CacheMemInit, Resting
<1>2. Furnished
    <2>1. token_hit \in Slot /\ cb_o \in Slot
        BY RingArithmetic DEF Init
    <2>2. ZeroLine \in Line
        BY DEF ZeroLine, Line
    <2>3. NoReq \in Request
        BY <2>2 DEF NoReq, Request, LineReq, Line
    <2>4. mem \in [(0 .. Tags - 1) \X (0 .. Sets - 1) -> Line]
        <3>1. mem = [l \in (0 .. Tags - 1) \X (0 .. Sets - 1) |->
                        [i \in WordIdx |-> 1 + i + WPL * (l[1] * Sets + l[2])]]
            BY DEF Init
        <3>2. ASSUME NEW l \in (0 .. Tags - 1) \X (0 .. Sets - 1)
              PROVE  [i \in WordIdx |-> 1 + i + WPL * (l[1] * Sets + l[2])] \in Line
            <4>1. l[1] \in Nat /\ l[2] \in Nat /\ Sets \in Nat /\ WPL \in Nat
                BY GeometryAssumption
            <4>2. l[1] * Sets \in Nat
                BY <4>1
            <4>. DEFINE p == l[1] * Sets + l[2]
            <4>3. p \in Nat
                BY <4>1, <4>2
            <4>. HIDE DEF p
            <4>4. WPL * p \in Nat
                BY <4>1, <4>3
            <4>5. \A i \in WordIdx : 1 + i + WPL * p \in Nat
                BY <4>4 DEF WordIdx
            <4>. QED BY <4>5 DEF Line, p
        <3>. QED BY <3>1, <3>2
    <2>5. /\ cb_buff \in [Slot -> Line \cup {None}]
          /\ tag_array \in [0 .. Sets - 1 -> (0 .. Tags - 1) \cup {None}]
          /\ cm_req \in Request /\ prev_line \in Line
          /\ bram \in [0 .. Sets - 1 -> Line] /\ bram_out \in Line
        BY <2>2, <2>3 DEF Init, CacheMemInit
    <2>. QED BY <2>1, <2>4, <2>5 DEF Furnished
<1>. QED BY <1>1, <1>2, RestKeepsSlots

LEMMA StutterKeepsSlots ==
    ASSUME SlotInv, UNCHANGED vars
    PROVE  SlotInv'
<1>1. /\ UNCHANGED <<req_fifo, rsp_fifo_rv, mem_req_fifo, mem_rsp_fifo, state,
                     token_hit, miss_q, hit_req_fifo, cb_i, cb_o, cb_n, cb_buff>>
      /\ UNCHANGED <<tag_array, pending, mem, expect, cm_req_fifo, cm_rsp_fifo,
                     cm_state, cm_req, prev_line, bram, bram_out>>
    BY DEF vars, icvars, cmvars
<1>2. AtArray' = AtArray
    BY <1>1 DEF AtArray
<1>3. TypeInv' /\ ArrayTypes'
    BY <1>1 DEF SlotInv, TypeInv, ArrayTypes
<1>4. ArrayInv' /\ MissLen'
    BY <1>1, <1>2 DEF SlotInv, ArrayInv, MissLen
<1>5. OrderInv'
    BY <1>1 DEF SlotInv, OrderInv, SlotAt, Sent
<1>6. \A s \in Slot : /\ Waiting(s)' <=> Waiting(s)
                      /\ Missed(s)' <=> Missed(s)
                      /\ Hitting(s)' <=> Hitting(s)
                      /\ Asked(s)' = Asked(s)
    BY <1>1 DEF Waiting, InUse, Age, Missed, Hitting, Asked, Sent
<1>7. OwedInv'
    BY <1>1, <1>6 DEF SlotInv, OwedInv
<1>8. PipeInv'
    BY <1>1, <1>2, <1>6 DEF SlotInv, PipeInv
<1>. QED BY <1>3, <1>4, <1>5, <1>7, <1>8 DEF SlotInv

(***************************************************************************)
(* Every slot in use is waited for as the completion buffer assumes.       *)
(***************************************************************************)
THEOREM SlotInvariance == Spec => []SlotInv
<1>1. Init => SlotInv
    BY InitHasSlots
<1>2. SlotInv /\ [Next]_vars => SlotInv'
    BY CycleKeepsSlots, ResetKeepsSlots, StutterKeepsSlots DEF Next
<1>. QED BY <1>1, <1>2, PTL DEF Spec

(***************************************************************************)
(* The slots a program counts around the ring are those in use.            *)
(***************************************************************************)
LEMMA ReservedSlots ==
    ASSUME SlotInv
    PROVE  /\ \A s \in Slot : s \in Reserved <=> InUse(s)
           /\ cb_n <= Slots /\ cb_i = (cb_o + cb_n) % Slots
<1>1. /\ cb_o \in Slot /\ cb_n \in 0 .. Slots /\ cb_i = SlotAt(cb_n)
      /\ Slots \in Nat \ {0}
    BY SlotsAssumption DEF SlotInv, TypeInv, OrderInv
<1>2. \A x \in 0 .. 2 * Slots - 1 : x % Slots = IF x < Slots THEN x ELSE x - Slots
    BY <1>1
<1>3. \A k \in 0 .. Slots : (cb_o + k) % Slots = SlotAt(k)
    <2>. SUFFICES ASSUME NEW k \in 0 .. Slots
                  PROVE  (cb_o + k) % Slots = SlotAt(k)
        OBVIOUS
    <2>. DEFINE x == cb_o + k
    <2>1. x \in 0 .. 2 * Slots - 1
        BY <1>1 DEF Slot
    <2>2. SlotAt(k) = IF x < Slots THEN x ELSE x - Slots
        BY <1>1 DEF SlotAt, Slot
    <2>. HIDE DEF x
    <2>3. x % Slots = IF x < Slots THEN x ELSE x - Slots
        BY <1>2, <2>1
    <2>. QED BY <2>2, <2>3 DEF x
<1>4. Reserved = {SlotAt(k) : k \in 0 .. cb_n - 1}
    <2>1. \A k \in 0 .. cb_n - 1 : (cb_o + k) % Slots = SlotAt(k)
        BY <1>1, <1>3
    <2>. QED BY <2>1 DEF Reserved
<1>5. ASSUME NEW s \in Slot
      PROVE  s \in Reserved <=> InUse(s)
    <2>1. ASSUME InUse(s) PROVE s \in Reserved
        <3>1. Age(s) \in 0 .. cb_n - 1 /\ SlotAt(Age(s)) = s
            BY <1>1, <2>1 DEF InUse, Age, SlotAt, Slot
        <3>. QED BY <1>4, <3>1
    <2>2. ASSUME s \in Reserved PROVE InUse(s)
        <3>1. PICK k \in 0 .. cb_n - 1 : s = SlotAt(k)
            BY <1>4, <2>2
        <3>2. Age(SlotAt(k)) = k
            BY <1>1, <3>1, Ring
        <3>. QED BY <1>1, <3>1, <3>2 DEF InUse
    <2>. QED BY <2>1, <2>2
<1>. QED BY <1>1, <1>3, <1>5

LEMMA SlotsAreOwed ==
    ASSUME SlotInv
    PROVE  SlotsOwed
<1>1. ASSUME NEW k \in Slot
      PROVE  Cardinality({j \in DOMAIN miss_q : miss_q[j].token = k})
               + (IF state = "hit" /\ token_hit = k THEN 1 ELSE 0)
                 = IF k \in Reserved /\ cb_buff[k] = None THEN 1 ELSE 0
    <2>. DEFINE J == {j \in DOMAIN miss_q : miss_q[j].token = k}
    <2>1. DOMAIN miss_q = 1 .. Len(miss_q)
        BY DEF SlotInv, TypeInv
    <2>2. /\ Waiting(k) => Missed(k) \/ Hitting(k)
          /\ Hitting(k) => Waiting(k)
          /\ \A j \in 1 .. Len(miss_q) : miss_q[j].token = k =>
                Waiting(k) /\ ~Hitting(k)
          /\ \A i, j \in 1 .. Len(miss_q) :
                miss_q[i].token = k /\ miss_q[j].token = k => i = j
        BY DEF SlotInv, OwedInv
    <2>3. (k \in Reserved /\ cb_buff[k] = None) <=> Waiting(k)
        BY ReservedSlots DEF Waiting
    <2>4. (state = "hit" /\ token_hit = k) <=> Hitting(k)
        BY DEF Hitting
    <2>5. CASE Missed(k)
        <3>1. PICK j \in 1 .. Len(miss_q) : miss_q[j].token = k
            BY <2>5 DEF Missed
        <3>2. J = {j}
            BY <2>1, <2>2, <3>1
        <3>3. Cardinality(J) = 1
            BY <3>2, FS_Singleton
        <3>. QED BY <2>2, <2>3, <2>4, <3>1, <3>3
    <2>6. CASE ~Missed(k)
        <3>1. J = {}
            BY <2>1, <2>6 DEF Missed
        <3>2. Cardinality(J) = 0
            BY <3>1, FS_EmptySet
        <3>. QED BY <2>2, <2>3, <2>4, <2>6, <3>2
    <2>. QED BY <2>5, <2>6
<1>. QED BY <1>1, ReservedSlots DEF SlotsOwed

(***************************************************************************)
(* No answer is lost or overwritten: a reserved slot without its line is   *)
(* owed to exactly one request, and no other slot is.                      *)
(***************************************************************************)
THEOREM EverySlotOwed == Spec => []SlotsOwed
BY SlotInvariance, SlotsAreOwed, PTL

-----------------------------------------------------------------------------
(***************************************************************************)
(* What one edge does to the line memory: the write at its head, if there  *)
(* is one, is done, or the read at its head is answered.                   *)
(***************************************************************************)
LEMMA WholeLine ==
    ASSUME NEW b \in Line, NEW d \in Line
    PROVE  Merge(b, d, WordIdx) = d
BY DEF Merge, Line

LEMMA ArrayHead ==
    ASSUME SlotInv
    PROVE  /\ Len(AtArray) \in 0 .. 2
           /\ \A k \in 1 .. Len(AtArray) :
                 /\ AtArray[k] \in Request /\ AtArray[k].addr \in Addr
                 /\ AtArray[k].write \in BOOLEAN /\ AtArray[k].data \in Line
                 /\ Index(AtArray[k].addr) \in 0 .. Sets - 1
                 /\ AtArray[k].write => AtArray[k].strb = WordIdx
<1>1. AtArray \in Seq(Request) /\ Len(AtArray) \in Nat
    BY AtArrayShape DEF SlotInv
<1>2. Len(AtArray) <= 2
    <2>1. Len(cm_rsp_fifo) \in Nat /\ Len(hit_req_fifo) \in Nat
        BY DEF SlotInv, TypeInv, ArrayTypes
    <2>2. Len(hit_req_fifo) = Len(cm_rsp_fifo) + Len(AtArray) /\ Len(hit_req_fifo) <= 2
        BY DEF SlotInv, PipeInv
    <2>. QED BY <1>1, <2>1, <2>2
<1>3. ASSUME NEW k \in 1 .. Len(AtArray)
      PROVE  /\ AtArray[k] \in Request /\ AtArray[k].addr \in Addr
             /\ AtArray[k].write \in BOOLEAN /\ AtArray[k].data \in Line
             /\ Index(AtArray[k].addr) \in 0 .. Sets - 1
    <2>1. AtArray[k] \in Request
        BY <1>1, NonEmpty
    <2>2. /\ AtArray[k].addr \in Addr /\ AtArray[k].write \in BOOLEAN
          /\ AtArray[k].data \in Line
        BY <2>1 DEF Request, LineReq, Addr, Line
    <2>. QED BY <2>1, <2>2, AddressParts
<1>4. \A k \in 1 .. Len(AtArray) :
          AtArray[k].write => AtArray[k].strb = WordIdx
    BY DEF SlotInv, ArrayInv
<1>5. Len(AtArray) \in 0 .. 2
    <2>. DEFINE n == Len(AtArray)
    <2>1. n \in Nat /\ n <= 2
        BY <1>1, <1>2
    <2>. HIDE DEF n
    <2>2. n \in 0 .. 2
        BY <2>1
    <2>. QED BY <2>2 DEF n
<1>. QED BY <1>3, <1>4, <1>5

LEMMA ArrayWrite ==
    ASSUME SlotInv, NEW req \in Requests \cup {None}, NEW take \in BOOLEAN,
           NEW memTake \in BOOLEAN, NEW memGive \in BOOLEAN,
           Clock(req, take, memTake, memGive)
    PROVE  /\ ArrayDone => Len(AtArray) >= 1
           /\ \A i \in 0 .. Sets - 1 :
                 bram'[i] = IF /\ ArrayDone /\ AtArray[1].write
                               /\ Index(AtArray[1].addr) = i
                              THEN AtArray[1].data ELSE bram[i]
           /\ ArrayDone /\ ~AtArray[1].write =>
                 Answer = bram[Index(AtArray[1].addr)]
<1>1. bram' = IF write_data_st
                THEN [bram EXCEPT ![Index(cm_req.addr)] = Merged] ELSE bram
    BY DEF Clock, CacheCycle, CacheMemCycle
<1>2. /\ ArrayTypes /\ bram \in [0 .. Sets - 1 -> Line] /\ prev_line \in Line
      /\ cm_state = "write" => cm_req.write
      /\ cm_state = "read" => bram_out = bram[Index(cm_req.addr)]
    BY DEF SlotInv, ArrayTypes, ArrayInv
<1>3. /\ get_rd_rsp => cm_state = "read" /\ ~write_data_st
      /\ write_data_st => cm_state = "write"
      /\ ArrayDone <=> (get_rd_rsp /\ ~cm_req.write) \/ write_data_st
    BY Zenon DEF get_rd_rsp, write_data_st, ArrayDone
<1>4. ArrayDone => AtArray[1] = cm_req /\ Len(AtArray) >= 1
    <2>1. ArrayDone => cm_state # "idle"
        BY <1>3
    <2>2. cm_state # "idle" => AtArray[1] = cm_req /\ AtArray # << >>
        BY <1>2, AtArrayShape
    <2>3. AtArray # << >> => Len(AtArray) > 0
        BY <1>2, AtArrayShape, NonEmpty
    <2>4. Len(AtArray) \in Nat
        BY <1>2, AtArrayShape
    <2>. QED BY <2>1, <2>2, <2>3, <2>4
<1>5. ASSUME write_data_st
      PROVE  Merged = AtArray[1].data /\ Index(cm_req.addr) \in 0 .. Sets - 1
    <2>1. AtArray[1] = cm_req /\ 1 \in 1 .. Len(AtArray) /\ cm_req.write
        BY <1>2, <1>3, <1>4, <1>5, ArrayHead
    <2>2. /\ cm_req.strb = WordIdx /\ cm_req.data \in Line
          /\ Index(cm_req.addr) \in 0 .. Sets - 1
        BY <2>1, ArrayHead
    <2>. QED BY <1>2, <2>1, <2>2, WholeLine DEF Merged
<1>. HIDE DEF write_data_st, get_rd_rsp, ArrayDone
<1>6. ASSUME NEW i \in 0 .. Sets - 1
      PROVE  bram'[i] = IF /\ ArrayDone /\ AtArray[1].write
                           /\ Index(AtArray[1].addr) = i
                          THEN AtArray[1].data ELSE bram[i]
    <2>1. CASE write_data_st
        <3>1. ArrayDone /\ AtArray[1].write /\ AtArray[1] = cm_req
            BY <1>2, <1>3, <1>4, <2>1
        <3>. QED BY <1>1, <1>2, <1>5, <2>1, <3>1
    <2>2. CASE ~write_data_st
        <3>1. ~(ArrayDone /\ AtArray[1].write)
            BY <1>3, <1>4, <2>2
        <3>. QED BY <1>1, <2>2, <3>1
    <2>. QED BY <2>1, <2>2
<1>7. ASSUME ArrayDone, ~AtArray[1].write
      PROVE  Answer = bram[Index(AtArray[1].addr)]
    BY <1>2, <1>3, <1>4, <1>7 DEF Answer
<1>. QED BY <1>4, <1>6, <1>7

(***************************************************************************)
(* The line at an index once the writes under way are done.                *)
(***************************************************************************)
Writes(k, i) == AtArray[k].write /\ Index(AtArray[k].addr) = i

ArrayLine(i) ==
    IF Len(AtArray) = 2 /\ Writes(2, i) THEN AtArray[2].data
    ELSE IF Len(AtArray) >= 1 /\ Writes(1, i) THEN AtArray[1].data
    ELSE bram[i]

LinesAreThere == \A i \in 0 .. Sets - 1 : LineValue(i) = ArrayLine(i)

LEMMA LineAtArray ==
    ASSUME SlotInv
    PROVE  LinesAreThere
<1>. SUFFICES ASSUME NEW i \in 0 .. Sets - 1
              PROVE  LineValue(i) = ArrayLine(i)
    BY DEF LinesAreThere
<1>. DEFINE W == {k \in DOMAIN AtArray :
                     AtArray[k].write /\ Index(AtArray[k].addr) = i}
            c == CHOOSE k \in W : \A l \in W : l <= k
<1>1. DOMAIN AtArray = 1 .. Len(AtArray) /\ Len(AtArray) \in 0 .. 2
    BY ArrayHead, AtArrayShape DEF SlotInv
<1>2. \A k : k \in W <=> k \in 1 .. Len(AtArray) /\ Writes(k, i)
    BY <1>1 DEF Writes
<1>3. LineValue(i) = IF W = {} THEN bram[i]
                     ELSE Merge(bram[i], AtArray[c].data, AtArray[c].strb)
    BY DEF LineValue
<1>4. ASSUME NEW k \in W, \A l \in W : l <= k
      PROVE  LineValue(i) = AtArray[k].data
    <2>1. k \in 1 .. Len(AtArray) /\ AtArray[k].write
        BY <1>2, <1>4 DEF Writes
    <2>2. c = k
        <3>1. c \in W /\ \A l \in W : l <= c
            BY <1>4
        <3>. HIDE DEF c
        <3>2. c <= k /\ k <= c /\ c \in Nat /\ k \in Nat
            BY <1>1, <1>2, <1>4, <3>1
        <3>. QED BY <3>2
    <2>3. AtArray[k].strb = WordIdx /\ AtArray[k].data \in Line
        BY <2>1, ArrayHead
    <2>4. bram[i] \in Line
        BY DEF SlotInv, ArrayTypes
    <2>. HIDE DEF c, W
    <2>. QED BY <1>3, <1>4, <2>2, <2>3, <2>4, WholeLine
<1>. HIDE DEF W, c
<1>5. CASE Len(AtArray) = 2 /\ Writes(2, i)
    <2>1. 2 \in W /\ \A l \in W : l <= 2
        BY <1>2, <1>5
    <2>. QED BY <1>4, <1>5, <2>1 DEF ArrayLine
<1>6. CASE ~(Len(AtArray) = 2 /\ Writes(2, i)) /\ Len(AtArray) >= 1 /\ Writes(1, i)
    <2>1. 1 \in W /\ \A l \in W : l <= 1
        BY <1>1, <1>2, <1>6
    <2>. QED BY <1>4, <1>6, <2>1 DEF ArrayLine
<1>7. CASE /\ ~(Len(AtArray) = 2 /\ Writes(2, i))
           /\ ~(Len(AtArray) >= 1 /\ Writes(1, i))
    <2>1. W = {}
        BY <1>1, <1>2, <1>7
    <2>. QED BY <1>3, <1>7, <2>1 DEF ArrayLine
<1>. QED BY <1>5, <1>6, <1>7

(***************************************************************************)
(* Only a fill changes what the line memory will hold.                     *)
(***************************************************************************)
LEMMA LineStep ==
    ASSUME SlotInv, NEW req \in Requests \cup {None}, NEW take \in BOOLEAN,
           NEW memTake \in BOOLEAN, NEW memGive \in BOOLEAN,
           Clock(req, take, memTake, memGive)
    PROVE  \A i \in 0 .. Sets - 1 :
              ArrayLine(i)' = IF fill_rule /\ i = Index(Head(miss_q).addr)
                                THEN Head(mem_rsp_fifo) ELSE ArrayLine(i)
<1>. SUFFICES ASSUME NEW CONSTANT i \in 0 .. Sets - 1
              PROVE  ArrayLine(i)' = IF fill_rule /\ i = Index(Head(miss_q).addr)
                                THEN Head(mem_rsp_fifo) ELSE ArrayLine(i)
    OBVIOUS
<1>. DEFINE a == Bit(ArrayDone)
            e == Bit(Hit \/ fill_rule)
            x == IF Hit THEN Head(req_fifo) ELSE FillRequest
            n == Len(AtArray)
            w1 == Writes(1, i)
            w2 == Writes(2, i)
            d1 == AtArray[1].data
            d2 == AtArray[2].data
<1>1. /\ Len(AtArray') = n - a + e /\ n \in 0 .. 2 /\ n - a + e \in 0 .. 2
      /\ a \in {0, 1} /\ e \in {0, 1} /\ (a = 1 => n >= 1)
      /\ (a = 1 <=> ArrayDone) /\ (e = 1 <=> Hit \/ fill_rule)
    <2>1. SlotInv'
        BY CycleKeepsSlots DEF Cycle
    <2>2. Len(AtArray') \in 0 .. 2
        <3>1. ASSUME SlotInv' PROVE (Len(AtArray) \in 0 .. 2)'
            BY <3>1, ArrayHead, PTL
        <3>. QED BY <2>1, <3>1
    <2>3. Len(AtArray') = n - a + e
        BY QueuesMove DEF Queues, Follows
    <2>. QED BY <2>2, <2>3, ArrayHead, ArrayWrite DEF Bit
<1>2. /\ \A k \in 1 .. n - a : AtArray'[k] = AtArray[k + a]
      /\ Hit \/ fill_rule => AtArray'[n - a + 1] = x
    BY QueuesMove DEF Queues, Follows
<1>3. bram'[i] = IF a = 1 /\ w1 THEN d1 ELSE bram[i]
    BY <1>1, ArrayWrite DEF Writes
<1>4. ArrayLine(i) = IF n = 2 /\ w2 THEN d2 ELSE IF n >= 1 /\ w1 THEN d1 ELSE bram[i]
    BY DEF ArrayLine
<1>5. ArrayLine(i)' =
          IF Len(AtArray') = 2 /\ AtArray'[2].write /\ Index(AtArray'[2].addr) = i
            THEN AtArray'[2].data
          ELSE IF Len(AtArray') >= 1 /\ AtArray'[1].write /\ Index(AtArray'[1].addr) = i
            THEN AtArray'[1].data
          ELSE bram'[i]
    BY DEF ArrayLine, Writes
<1>6. /\ e = 1 => (x.write /\ Index(x.addr) = i
                     <=> fill_rule /\ i = Index(Head(miss_q).addr))
      /\ fill_rule => x.data = Head(mem_rsp_fifo) /\ e = 1
    <2>1. /\ Hit => ~fill_rule /\ ~Head(req_fifo).write
        BY Rules
    <2>. QED BY <1>1, <2>1 DEF FillRequest
<1>7. /\ w1 <=> AtArray[1].write /\ Index(AtArray[1].addr) = i
      /\ w2 <=> AtArray[2].write /\ Index(AtArray[2].addr) = i
    BY DEF Writes
<1>. DEFINE F == fill_rule /\ i = Index(Head(miss_q).addr)
            y == Head(mem_rsp_fifo)
            wx == x.write /\ Index(x.addr) = i
<1>8. /\ e = 1 => (wx <=> F)
      /\ F => x.data = y /\ e = 1
    BY <1>6
<1>9. e = 1 => AtArray'[n - a + 1] = x
    BY <1>1, <1>2
<1>10. d1 = AtArray[1].data /\ d2 = AtArray[2].data
       /\ (wx <=> x.write /\ Index(x.addr) = i)
    OBVIOUS
<1>. HIDE DEF a, e, x, n, w1, w2, d1, d2, F, y, wx
<1>11. ArrayLine(i)' = IF F THEN y ELSE ArrayLine(i)
    <2>1. CASE n - a = 0 /\ e = 0
        BY <1>1, <1>3, <1>4, <1>5, <1>8, <2>1
    <2>2. CASE n - a = 0 /\ e = 1
        <3>1. Len(AtArray') = 1 /\ AtArray'[1] = x
            BY <1>1, <1>9, <2>2
        <3>. QED BY <1>1, <1>3, <1>4, <1>5, <1>8, <1>10, <2>2, <3>1
    <2>3. CASE n - a = 1 /\ e = 0
        <3>1. Len(AtArray') = 1 /\ AtArray'[1] = AtArray[1 + a]
            BY <1>1, <1>2, <2>3
        <3>2. CASE a = 0
            BY <1>1, <1>3, <1>4, <1>5, <1>7, <1>8, <1>10, <2>3, <3>1, <3>2
        <3>3. CASE a = 1
            BY <1>1, <1>3, <1>4, <1>5, <1>7, <1>8, <1>10, <2>3, <3>1, <3>3
        <3>. QED BY <1>1, <3>2, <3>3
    <2>4. CASE n - a = 1 /\ e = 1
        <3>1. Len(AtArray') = 2 /\ AtArray'[1] = AtArray[1 + a] /\ AtArray'[2] = x
            BY <1>1, <1>2, <1>9, <2>4
        <3>2. CASE a = 0
            BY <1>1, <1>3, <1>4, <1>5, <1>7, <1>8, <1>10, <2>4, <3>1, <3>2
        <3>3. CASE a = 1
            BY <1>1, <1>3, <1>4, <1>5, <1>7, <1>8, <1>10, <2>4, <3>1, <3>3
        <3>. QED BY <1>1, <3>2, <3>3
    <2>5. CASE n - a = 2
        <3>1. /\ a = 0 /\ e = 0 /\ n = 2 /\ Len(AtArray') = 2
              /\ AtArray'[1] = AtArray[1] /\ AtArray'[2] = AtArray[2]
            BY <1>1, <1>2, <2>5
        <3>. QED BY <1>1, <1>3, <1>4, <1>5, <1>7, <1>8, <1>10, <3>1
    <2>. QED BY <1>1, <2>1, <2>2, <2>3, <2>4, <2>5
<1>. QED BY <1>11 DEF F, y

-----------------------------------------------------------------------------
(***************************************************************************)
(* The memory answers the misses in order, each with its line.             *)
(***************************************************************************)
LEMMA MissStep ==
    ASSUME SlotInv, MissInv, NEW req \in Requests \cup {None},
           NEW take \in BOOLEAN, NEW memTake \in BOOLEAN,
           NEW memGive \in BOOLEAN, Clock(req, take, memTake, memGive)
    PROVE  MissInv'
<1>. DEFINE q == Len(miss_q)
            r == Len(mem_rsp_fifo)
            p == Len(pending)
            o == Len(mem_req_fifo)
            f == Bit(fill_rule)
            m == Bit(Miss)
            g == Bit(memGive)
            t == Bit(memTake)
            h == Head(req_fifo).addr
<1>1. /\ q \in Nat /\ r \in Nat /\ p \in Nat /\ o \in Nat /\ q = r + p + o
    BY DEF SlotInv, TypeInv, MissLen
<1>2. /\ f \in {0, 1} /\ m \in {0, 1} /\ g \in {0, 1} /\ t \in {0, 1}
      /\ f = 1 => r > 0
      /\ g = 1 => p > 0 /\ Head(pending) = pending[1]
      /\ t = 1 => o > 0 /\ Head(mem_req_fifo) = mem_req_fifo[1]
      /\ m = 1 => MemLine(Aligned(h)) = MemLine(h)
    <2>1. /\ mem_rsp_fifo \in Seq(Line) /\ pending \in Seq(Addr)
          /\ mem_req_fifo \in Seq(Addr)
        BY DEF SlotInv, TypeInv
    <2>2. /\ fill_rule => mem_rsp_fifo # << >>
          /\ memGive => pending # << >>
          /\ memTake => mem_req_fifo # << >>
        BY Rules DEF Clock, EMPTY_N
    <2>3. Miss => MemLine(Aligned(h)) = MemLine(h)
        BY Rules, AlignedAddress
    <2>4. /\ fill_rule => r > 0
          /\ memGive => p > 0 /\ Head(pending) = pending[1]
          /\ memTake => o > 0 /\ Head(mem_req_fifo) = mem_req_fifo[1]
        BY <2>1, <2>2, NonEmpty
    <2>5. /\ (f = 1 <=> fill_rule) /\ (m = 1 <=> Miss)
          /\ (g = 1 <=> memGive) /\ (t = 1 <=> memTake)
          /\ f \in {0, 1} /\ m \in {0, 1} /\ g \in {0, 1} /\ t \in {0, 1}
        BY DEF Bit
    <2>. HIDE DEF f, m, g, t, r, p, o, h
    <2>. QED BY <2>3, <2>4, <2>5
<1>3. /\ Len(miss_q') = q - f + m
      /\ \A k \in 1 .. q - f : miss_q'[k] = miss_q[k + f]
      /\ m = 1 => miss_q'[q - f + 1].addr = h
    BY QueuesMove DEF Queues, Follows, Bit
<1>4. /\ Len(mem_rsp_fifo') = r - f + g
      /\ \A k \in 1 .. r - f : mem_rsp_fifo'[k] = mem_rsp_fifo[k + f]
      /\ g = 1 => mem_rsp_fifo'[r - f + 1] = MemLine(Head(pending))
    BY QueuesMove DEF Queues, Follows, Bit
<1>5. /\ Len(pending') = p - g + t
      /\ \A k \in 1 .. p - g : pending'[k] = pending[k + g]
      /\ t = 1 => pending'[p - g + 1] = Head(mem_req_fifo)
    BY QueuesMove DEF Queues, Follows, Bit
<1>6. /\ Len(mem_req_fifo') = o - t + m
      /\ \A k \in 1 .. o - t : mem_req_fifo'[k] = mem_req_fifo[k + t]
      /\ m = 1 => mem_req_fifo'[o - t + 1] = Aligned(h)
    BY QueuesMove DEF Queues, Follows, Bit
<1>7. /\ \A k \in 1 .. r : mem_rsp_fifo[k] = MemLine(miss_q[k].addr)
      /\ \A k \in 1 .. p : MemLine(pending[k]) = MemLine(miss_q[r + k].addr)
      /\ \A k \in 1 .. o :
            MemLine(mem_req_fifo[k]) = MemLine(miss_q[r + p + k].addr)
    BY DEF MissInv
<1>8. MissInv' <=>
      /\ \A k \in 1 .. Len(mem_rsp_fifo') :
            mem_rsp_fifo'[k] = MemLine(miss_q'[k].addr)
      /\ \A k \in 1 .. Len(pending') :
            MemLine(pending'[k]) = MemLine(miss_q'[Len(mem_rsp_fifo') + k].addr)
      /\ \A k \in 1 .. Len(mem_req_fifo') :
            MemLine(mem_req_fifo'[k]) =
              MemLine(miss_q'[Len(mem_rsp_fifo') + Len(pending') + k].addr)
    <2>1. mem' = mem
        BY DEF Clock
    <2>. QED BY <2>1 DEF MissInv, MemLine
<1>. HIDE DEF q, r, p, o, f, m, g, t, h
\* The miss at a position before and after the edge.
<1>9. \A j \in 1 .. q : j > f => j - f \in 1 .. q - f /\ miss_q'[j - f] = miss_q[j]
    <2>1. ASSUME NEW j \in 1 .. q, j > f
          PROVE  j - f \in 1 .. q - f /\ (j - f) + f = j
        BY <1>1, <1>2, <2>1
    <2>. QED BY <1>3, <2>1
<1>10. ASSUME NEW k \in 1 .. Len(mem_rsp_fifo')
       PROVE  mem_rsp_fifo'[k] = MemLine(miss_q'[k].addr)
    <2>1. CASE k \in 1 .. r - f
        <3>1. k + f \in 1 .. r /\ k \in 1 .. q - f
            BY <1>1, <1>2, <2>1
        <3>. QED BY <1>3, <1>4, <1>7, <2>1, <3>1
    <2>2. CASE k \notin 1 .. r - f
        <3>1. /\ g = 1 /\ k = r - f + 1 /\ 1 \in 1 .. p
              /\ r + 1 \in 1 .. q /\ r + 1 > f /\ (r + 1) - f = k
            BY <1>1, <1>2, <1>4, <2>2
        <3>2. mem_rsp_fifo'[k] = MemLine(pending[1])
            BY <1>2, <1>4, <3>1
        <3>3. MemLine(pending[1]) = MemLine(miss_q[r + 1].addr)
            BY <1>7, <3>1
        <3>. QED BY <1>9, <3>1, <3>2, <3>3
    <2>. QED BY <2>1, <2>2
<1>11. ASSUME NEW k \in 1 .. Len(pending')
       PROVE  MemLine(pending'[k]) =
                  MemLine(miss_q'[Len(mem_rsp_fifo') + k].addr)
    <2>1. CASE k \in 1 .. p - g
        <3>. DEFINE j == r + (k + g)
        <3>1. /\ k + g \in 1 .. p /\ j \in 1 .. q /\ j > f
              /\ j - f = Len(mem_rsp_fifo') + k
            BY <1>1, <1>2, <1>4, <2>1
        <3>2. MemLine(pending[k + g]) = MemLine(miss_q[j].addr)
            BY <1>7, <3>1
        <3>. HIDE DEF j
        <3>3. miss_q'[j - f] = miss_q[j]
            BY <1>9, <3>1
        <3>. QED BY <1>5, <2>1, <3>1, <3>2, <3>3
    <2>2. CASE k \notin 1 .. p - g
        <3>. DEFINE j == r + p + 1
        <3>1. /\ t = 1 /\ k = p - g + 1 /\ 1 \in 1 .. o
              /\ j \in 1 .. q /\ j > f /\ j - f = Len(mem_rsp_fifo') + k
            BY <1>1, <1>2, <1>4, <1>5, <2>2
        <3>2. pending'[k] = mem_req_fifo[1]
            BY <1>2, <1>5, <3>1
        <3>3. MemLine(mem_req_fifo[1]) = MemLine(miss_q[j].addr)
            BY <1>7, <3>1
        <3>. HIDE DEF j
        <3>4. miss_q'[j - f] = miss_q[j]
            BY <1>9, <3>1
        <3>. QED BY <3>1, <3>2, <3>3, <3>4
    <2>. QED BY <2>1, <2>2
<1>12. ASSUME NEW k \in 1 .. Len(mem_req_fifo')
       PROVE  MemLine(mem_req_fifo'[k]) =
                  MemLine(miss_q'[Len(mem_rsp_fifo') + Len(pending') + k].addr)
    <2>1. CASE k \in 1 .. o - t
        <3>. DEFINE j == r + p + (k + t)
        <3>1. /\ k + t \in 1 .. o /\ j \in 1 .. q /\ j > f
              /\ j - f = Len(mem_rsp_fifo') + Len(pending') + k
            BY <1>1, <1>2, <1>4, <1>5, <2>1
        <3>2. MemLine(mem_req_fifo[k + t]) = MemLine(miss_q[j].addr)
            BY <1>7, <3>1
        <3>. HIDE DEF j
        <3>3. miss_q'[j - f] = miss_q[j]
            BY <1>9, <3>1
        <3>. QED BY <1>6, <2>1, <3>1, <3>2, <3>3
    <2>2. CASE k \notin 1 .. o - t
        <3>1. /\ m = 1 /\ k = o - t + 1
              /\ Len(mem_rsp_fifo') + Len(pending') + k = q - f + 1
            BY <1>1, <1>2, <1>4, <1>5, <1>6, <2>2
        <3>. QED BY <1>2, <1>3, <1>6, <3>1
    <2>. QED BY <2>1, <2>2
<1>. QED BY <1>8, <1>10, <1>11, <1>12

(***************************************************************************)
(* What is sent next is the line of the oldest request.                    *)
(***************************************************************************)
LEMMA NextAnswer ==
    ASSUME SlotInv, DeliveryInv
    PROVE  FetchesInOrder
<1>. SUFFICES ASSUME Rsp # None
              PROVE  expect # << >> /\ Rsp = MemLine(Head(expect))
    BY DEF FetchesInOrder
<1>1. /\ expect \in Seq(Addr) /\ cb_o \in Slot /\ cb_n \in Nat
      /\ Len(expect) \in Nat /\ Len(req_fifo) \in Nat
      /\ Len(expect) = Sent + cb_n + Len(req_fifo)
    BY DEF SlotInv, TypeInv, OrderInv
<1>2. CASE send_rsp
    <2>1. cb_n # 0 /\ cb_buff[cb_o] # None /\ Sent = 0 /\ Rsp = cb_buff[cb_o]
        BY <1>2 DEF send_rsp, Sent, Rsp
    <2>2. Age(cb_o) = 0
        BY <1>1, Ring
    <2>3. InUse(cb_o) /\ Asked(cb_o) = expect[1]
        BY <1>1, <2>1, <2>2 DEF InUse, Asked
    <2>4. Rsp = MemLine(expect[1])
        BY <1>1, <2>1, <2>3 DEF DeliveryInv
    <2>5. Len(expect) > 0
        BY <1>1, <2>1
    <2>. QED BY <1>1, <2>4, <2>5, NonEmpty
<1>3. CASE ~send_rsp
    <2>1. Rsp = rsp_fifo_rv /\ rsp_fifo_rv # None /\ Sent = 1
        BY <1>3 DEF Rsp, Sent
    <2>2. Rsp = MemLine(expect[1])
        BY <2>1 DEF DeliveryInv
    <2>3. Len(expect) > 0
        BY <1>1, <2>1
    <2>. QED BY <1>1, <2>2, <2>3, NonEmpty
<1>. QED BY <1>2, <1>3

LEMMA DeliveryStep ==
    ASSUME SlotInv, LineInv, NEW req \in Requests \cup {None},
           NEW take \in BOOLEAN, NEW memTake \in BOOLEAN,
           NEW memGive \in BOOLEAN, Clock(req, take, memTake, memGive)
    PROVE  DeliveryInv'
<1>1. mem' = mem
    BY DEF Clock
<1>2. ASSUME rsp_fifo_rv' # None
      PROVE  rsp_fifo_rv' = MemLine(expect'[1])
    <2>1. ~take /\ rsp_fifo_rv' = Rsp /\ Rsp # None
        BY <1>2, RspStep
    <2>2. expect # << >> /\ Rsp = MemLine(Head(expect))
        BY <2>1, NextAnswer DEF LineInv, FetchesInOrder
    <2>3. Head(expect) = expect[1] /\ Len(expect) > 0 /\ Len(expect) \in Nat
        BY <2>2, NonEmpty DEF SlotInv, TypeInv
    <2>4. Bit(Delivers(take)) = 0
        BY <2>1 DEF Delivers, Bit
    <2>5. \A k \in 1 .. Len(expect) - Bit(Delivers(take)) :
              expect'[k] = expect[k + Bit(Delivers(take))]
        BY QueuesMove DEF Queues, Follows
    <2>6. expect'[1] = expect[1]
        <3>1. 1 \in 1 .. Len(expect) - 0 /\ 1 + 0 = 1
            BY <2>3
        <3>. QED BY <2>4, <2>5, <3>1
    <2>. QED BY <2>1, <2>2, <2>3, <2>6
<1>3. ASSUME NEW s \in Slot, InUse(s)', cb_buff'[s] # None
      PROVE  cb_buff'[s] = MemLine(Asked(s)')
    <2>1. cb_buff' =
              IF Lookup THEN [cb_buff EXCEPT ![cb_i] = None]
              ELSE IF HitDone THEN [cb_buff EXCEPT ![token_hit] = Head(cm_rsp_fifo)]
              ELSE IF fill_rule
                THEN [cb_buff EXCEPT ![Head(miss_q).token] = Head(mem_rsp_fifo)]
              ELSE cb_buff
        BY DEF Clock, CacheCycle, CompletionBuffer
    <2>2. /\ cb_buff \in [Slot -> Line \cup {None}] /\ cb_i \in Slot
          /\ token_hit \in Slot
        BY DEF SlotInv, TypeInv
    <2>. HIDE DEF Lookup, HitDone, fill_rule
    <2>3. ~(Lookup /\ s = cb_i)
        BY <1>3, <2>1, <2>2
    <2>4. InUse(s) /\ Asked(s)' = Asked(s)
        <3>1. InUse(s) /\ ~(send_rsp /\ s = cb_o)
            BY <1>3, <2>3, RingStep
        <3>. QED BY <3>1, OrderStep
    <2>5. CASE ~Lookup /\ HitDone /\ s = token_hit
        <3>1. /\ cache_mem_rsp /\ state = "hit" /\ Head(hit_req_fifo)
              /\ Head(hit_req_fifo) = hit_req_fifo[1] /\ cm_rsp_fifo # << >>
              /\ Head(cm_rsp_fifo) = cm_rsp_fifo[1]
            BY <2>5, Rules DEF HitDone
        <3>2. Len(cm_rsp_fifo) \in Nat /\ Len(cm_rsp_fifo) > 0
            BY <3>1, NonEmpty DEF SlotInv, ArrayTypes
        <3>3. Hitting(s)
            BY <2>5, <3>1 DEF Hitting
        <3>4. \A k \in 1 .. Len(cm_rsp_fifo) :
                  hit_req_fifo[k] => cm_rsp_fifo[k] = MemLine(Asked(s))
            BY <3>3 DEF LineInv, HitInv
        <3>5. cm_rsp_fifo[1] = MemLine(Asked(s))
            <4>1. hit_req_fifo[1]
                BY <3>1
            <4>2. 1 \in 1 .. Len(cm_rsp_fifo)
                BY <3>2
            <4>. QED BY <3>4, <4>1, <4>2
        <3>. QED BY <2>1, <2>2, <2>4, <2>5, <3>1, <3>5
    <2>6. CASE ~Lookup /\ ~HitDone /\ fill_rule /\ s = Head(miss_q).token
        <3>1. /\ miss_q # << >> /\ mem_rsp_fifo # << >>
              /\ Head(miss_q) = miss_q[1] /\ Head(mem_rsp_fifo) = mem_rsp_fifo[1]
            BY <2>6, Rules
        <3>2. 1 \in 1 .. Len(miss_q) /\ 1 \in 1 .. Len(mem_rsp_fifo)
            <4>1. miss_q \in Seq(MissEntry) /\ mem_rsp_fifo \in Seq(Line)
                BY DEF SlotInv, TypeInv, MissEntry
            <4>2. /\ Len(miss_q) \in Nat /\ Len(miss_q) > 0
                  /\ Len(mem_rsp_fifo) \in Nat /\ Len(mem_rsp_fifo) > 0
                BY <3>1, <4>1, NonEmpty
            <4>. QED BY <4>2
        <3>3. mem_rsp_fifo[1] = MemLine(miss_q[1].addr)
            BY <3>2 DEF LineInv, MissInv
        <3>4. miss_q[1].addr = Asked(s)
            BY <2>6, <3>1, <3>2 DEF SlotInv, OwedInv
        <3>. QED BY <2>1, <2>2, <2>4, <2>6, <3>1, <3>3, <3>4
    <2>7. CASE /\ ~(~Lookup /\ HitDone /\ s = token_hit)
               /\ ~(~Lookup /\ ~HitDone /\ fill_rule /\ s = Head(miss_q).token)
        <3>1. cb_buff'[s] = cb_buff[s]
            BY <2>1, <2>2, <2>3, <2>7
        <3>2. cb_buff[s] = MemLine(Asked(s))
            BY <1>3, <2>4, <3>1 DEF LineInv, DeliveryInv
        <3>. QED BY <2>4, <3>1, <3>2
    <2>. QED BY <2>5, <2>6, <2>7
<1>4. DeliveryInv' <=>
        /\ rsp_fifo_rv' # None => rsp_fifo_rv' = MemLine(expect'[1])
        /\ \A s \in Slot :
              InUse(s)' /\ cb_buff'[s] # None => cb_buff'[s] = MemLine(Asked(s)')
    BY <1>1 DEF DeliveryInv, MemLine
<1>. QED BY <1>2, <1>3, <1>4

(***************************************************************************)
(* The hit finds its line: what the lookup found valid is what is read     *)
(* when its turn comes.                                                    *)
(***************************************************************************)
LEMMA HitLine ==
    ASSUME SlotInv, TagsAgree, NEW req \in Requests \cup {None},
           NEW take \in BOOLEAN, NEW memTake \in BOOLEAN,
           NEW memGive \in BOOLEAN, Clock(req, take, memTake, memGive), Hit
    PROVE  /\ Index(Head(req_fifo).addr) \in 0 .. Sets - 1
           /\ ArrayLine(Index(Head(req_fifo).addr)) = MemLine(Head(req_fifo).addr)
<1>. DEFINE h == Head(req_fifo).addr
<1>1. h \in Addr /\ tag_array[Index(h)] = Tag(h)
    BY Rules DEF Hit
<1>. HIDE DEF h
<1>2. Index(h) \in 0 .. Sets - 1 /\ Tag(h) \in 0 .. Tags - 1
    BY <1>1, AddressParts
<1>3. Tag(h) # None
    <2>1. Tag(h) \in Nat
        BY <1>2, GeometryAssumption
    <2>. QED BY <2>1, NoneIsNothing
<1>4. LineValue(Index(h)) = MemLine(h)
    BY <1>1, <1>2, <1>3 DEF TagsAgree, MemLine
<1>5. LineValue(Index(h)) = ArrayLine(Index(h))
    BY <1>2, LineAtArray DEF LinesAreThere
<1>. QED BY <1>2, <1>4, <1>5 DEF h

LEMMA HitStep ==
    ASSUME SlotInv, LineInv, NEW req \in Requests \cup {None},
           NEW take \in BOOLEAN, NEW memTake \in BOOLEAN,
           NEW memGive \in BOOLEAN, Clock(req, take, memTake, memGive)
    PROVE  HitInv'
<1>. DEFINE d == Bit(cache_mem_rsp)
            a == Bit(ArrayDone)
            e == Bit(Hit \/ fill_rule)
            x == IF Hit THEN Head(req_fifo) ELSE FillRequest
            lh == Len(hit_req_fifo)
            lc == Len(cm_rsp_fifo)
            n == Len(AtArray)
            h == Head(req_fifo).addr
<1>1. /\ Len(hit_req_fifo') = lh - d + e
      /\ \A k \in 1 .. lh - d : hit_req_fifo'[k] = hit_req_fifo[k + d]
    BY QueuesMove DEF Queues, Follows
<1>2. /\ Len(cm_rsp_fifo') = lc - d + a
      /\ \A k \in 1 .. lc - d : cm_rsp_fifo'[k] = cm_rsp_fifo[k + d]
      /\ a = 1 => cm_rsp_fifo'[lc - d + 1] = Answer
    BY QueuesMove DEF Queues, Follows, Bit
<1>3. /\ Len(AtArray') = n - a + e
      /\ \A k \in 1 .. n - a : AtArray'[k] = AtArray[k + a]
      /\ e = 1 => AtArray'[n - a + 1] = x
    BY QueuesMove DEF Queues, Follows, Bit
<1>4. /\ lh \in Nat /\ lc \in Nat /\ n \in 0 .. 2 /\ lh = lc + n
      /\ d = 1 => lc > 0
      /\ a = 1 => n > 0
      /\ d \in {0, 1} /\ a \in {0, 1} /\ e \in {0, 1}
      /\ (a = 1 <=> ArrayDone) /\ (e = 1 <=> Hit \/ fill_rule)
    <2>1. hit_req_fifo \in Seq(BOOLEAN) /\ cm_rsp_fifo \in Seq(Line)
        BY DEF SlotInv, TypeInv, ArrayTypes
    <2>2. lh \in Nat /\ lc \in Nat /\ (cm_rsp_fifo # << >> => lc > 0)
        BY <2>1, NonEmpty
    <2>3. cache_mem_rsp => cm_rsp_fifo # << >>
        BY Rules
    <2>4. lh = lc + n
        BY DEF SlotInv, PipeInv
    <2>5. n \in 0 .. 2 /\ (ArrayDone => n >= 1)
        BY ArrayHead, ArrayWrite
    <2>. QED BY <2>2, <2>3, <2>4, <2>5 DEF Bit
<1>5. /\ \A k \in 1 .. n : hit_req_fifo[lc + k] <=> ~AtArray[k].write
      /\ state = "idle" => \A k \in 1 .. lh : ~hit_req_fifo[k]
    BY DEF SlotInv, PipeInv
<1>6. /\ \A i \in 0 .. Sets - 1 :
            bram'[i] = IF a = 1 /\ AtArray[1].write /\ Index(AtArray[1].addr) = i
                         THEN AtArray[1].data ELSE bram[i]
      /\ a = 1 /\ ~AtArray[1].write => Answer = bram[Index(AtArray[1].addr)]
      /\ \A k \in 1 .. n : Index(AtArray[k].addr) \in 0 .. Sets - 1
                           /\ AtArray[k].write \in BOOLEAN
    BY <1>4, ArrayWrite, ArrayHead
<1>7. /\ \A s \in Slot : Hitting(s)' <=>
            (Hit /\ s = cb_i) \/ (~Hit /\ ~HitDone /\ Hitting(s))
      /\ \A s \in Slot : ~Hit /\ Hitting(s)' => Asked(s)' = Asked(s)
      /\ \A s \in Slot : Hit /\ Hitting(s)' => Asked(s)' = h
    BY HittingStep
<1>8. /\ Hit => state = "idle" /\ ~x.write /\ x.addr = h /\ d = 0
      /\ ~Hit => x.write
    BY Rules DEF FillRequest, Bit
<1>9. Hit => /\ Index(h) \in 0 .. Sets - 1
             /\ MemLine(h) =
                   IF n = 2 /\ Writes(2, Index(h)) THEN AtArray[2].data
                   ELSE IF n >= 1 /\ Writes(1, Index(h)) THEN AtArray[1].data
                   ELSE bram[Index(h)]
    BY HitLine DEF LineInv, ArrayLine
\* What is to be shown of the slot of the hit, with the line l it is owed.
<1>. DEFINE Found(l) ==
        /\ \A k \in 1 .. Len(cm_rsp_fifo') :
              hit_req_fifo'[k] => cm_rsp_fifo'[k] = l
        /\ Len(AtArray') >= 1 /\ ~AtArray'[1].write =>
              bram'[Index(AtArray'[1].addr)] = l
        /\ Len(AtArray') = 2 /\ ~AtArray'[2].write =>
              IF AtArray'[1].write /\ Index(AtArray'[1].addr) = Index(AtArray'[2].addr)
                THEN AtArray'[1].data = l
                ELSE bram'[Index(AtArray'[2].addr)] = l
<1>10. HitInv' <=> \A s \in Slot : Hitting(s)' => Found(MemLine(Asked(s)'))
    <2>1. mem' = mem
        BY DEF Clock
    <2>. QED BY <2>1 DEF HitInv, MemLine
<1>11. \A s \in Slot : Hitting(s) =>
        /\ \A k \in 1 .. lc : hit_req_fifo[k] => cm_rsp_fifo[k] = MemLine(Asked(s))
        /\ n >= 1 /\ ~AtArray[1].write =>
              bram[Index(AtArray[1].addr)] = MemLine(Asked(s))
        /\ n = 2 /\ ~AtArray[2].write =>
              IF AtArray[1].write /\ Index(AtArray[1].addr) = Index(AtArray[2].addr)
                THEN AtArray[1].data = MemLine(Asked(s))
                ELSE bram[Index(AtArray[2].addr)] = MemLine(Asked(s))
    BY DEF LineInv, HitInv
<1>. HIDE DEF d, a, e, x, lh, lc, n, h, Hit, HitDone, fill_rule
<1>12. ASSUME Hit
       PROVE  Found(MemLine(h))
    <2>. DEFINE l == MemLine(h)
                i == Index(h)
    <2>1. /\ i \in 0 .. Sets - 1
          /\ l = IF n = 2 /\ AtArray[2].write /\ Index(AtArray[2].addr) = i
                   THEN AtArray[2].data
                 ELSE IF n >= 1 /\ AtArray[1].write /\ Index(AtArray[1].addr) = i
                   THEN AtArray[1].data
                 ELSE bram[i]
        BY <1>9, <1>12 DEF Writes
    <2>2. /\ d = 0 /\ e = 1 /\ AtArray'[n - a + 1] = x /\ ~x.write
          /\ Index(x.addr) = i
          /\ \A k \in 1 .. lh : ~hit_req_fifo[k]
        BY <1>3, <1>4, <1>5, <1>8, <1>12
    <2>. HIDE DEF l, i
    <2>3. \A k \in 1 .. n : AtArray[k].write
        <3>1. ASSUME NEW k \in 1 .. n PROVE lc + k \in 1 .. lh
            BY <1>4
        <3>. QED BY <1>5, <2>2, <3>1
    <2>4. ASSUME NEW k \in 1 .. Len(cm_rsp_fifo') PROVE ~hit_req_fifo'[k]
        <3>1. k \in 1 .. lh - d /\ k + d \in 1 .. lh
            BY <1>2, <1>4, <2>2
        <3>. QED BY <1>1, <2>2, <3>1
    <2>5. ASSUME Len(AtArray') >= 1, ~AtArray'[1].write
          PROVE  bram'[Index(AtArray'[1].addr)] = l
        <3>1. n - a = 0
            <4>1. ASSUME n - a # 0 PROVE FALSE
                <5>1. 1 \in 1 .. n - a /\ 1 + a \in 1 .. n
                    BY <1>4, <4>1
                <5>. QED BY <1>3, <2>3, <2>5, <5>1
            <4>. QED BY <4>1
        <3>2. AtArray'[1] = x
            BY <1>4, <2>2, <3>1
        <3>3. bram'[i] = IF a = 1 /\ AtArray[1].write /\ Index(AtArray[1].addr) = i
                           THEN AtArray[1].data ELSE bram[i]
            BY <1>6, <2>1
        <3>4. CASE n = 0
            BY <1>4, <2>1, <2>2, <3>2, <3>3, <3>4
        <3>5. CASE n = 1 /\ a = 1
            BY <2>1, <2>2, <3>2, <3>3, <3>5
        <3>. QED BY <1>4, <3>1, <3>4, <3>5
    <2>6. ASSUME Len(AtArray') = 2, ~AtArray'[2].write
          PROVE  IF AtArray'[1].write /\ Index(AtArray'[1].addr) = Index(AtArray'[2].addr)
                   THEN AtArray'[1].data = l
                   ELSE bram'[Index(AtArray'[2].addr)] = l
        <3>1. n - a = 1 /\ AtArray'[2] = x /\ AtArray'[1] = AtArray[1 + a]
            <4>1. n - a + e = 2 /\ e = 1
                BY <1>3, <2>2, <2>6
            <4>2. n - a = 1 /\ n - a + 1 = 2 /\ 1 \in 1 .. n - a
                BY <1>4, <4>1
            <4>. QED BY <1>3, <2>2, <4>2
        <3>2. bram'[i] = IF a = 1 /\ AtArray[1].write /\ Index(AtArray[1].addr) = i
                           THEN AtArray[1].data ELSE bram[i]
            BY <1>6, <2>1
        <3>3. CASE n = 1 /\ a = 0
            <4>1. AtArray[1].write /\ AtArray'[1] = AtArray[1]
                BY <2>3, <3>1, <3>3
            <4>. QED BY <2>1, <2>2, <3>1, <3>2, <3>3, <4>1
        <3>4. CASE n = 2 /\ a = 1
            <4>1. AtArray[1].write /\ AtArray[2].write /\ AtArray'[1] = AtArray[2]
                BY <2>3, <3>1, <3>4
            <4>. QED BY <2>1, <2>2, <3>1, <3>2, <3>4, <4>1
        <3>. QED BY <1>4, <3>1, <3>3, <3>4
    <2>7. Found(l)
        BY <2>4, <2>5, <2>6
    <2>. QED BY <2>7 DEF l
<1>13. ASSUME ~Hit, NEW s \in Slot, Hitting(s)
       PROVE  Found(MemLine(Asked(s)))
    <2>. DEFINE l == MemLine(Asked(s))
    <2>1. /\ \A k \in 1 .. lc : hit_req_fifo[k] => cm_rsp_fifo[k] = l
          /\ n >= 1 /\ ~AtArray[1].write => bram[Index(AtArray[1].addr)] = l
          /\ n = 2 /\ ~AtArray[2].write =>
                IF AtArray[1].write /\ Index(AtArray[1].addr) = Index(AtArray[2].addr)
                  THEN AtArray[1].data = l
                  ELSE bram[Index(AtArray[2].addr)] = l
        BY <1>11, <1>13
    <2>. HIDE DEF l
    <2>2. \A k \in 1 .. Len(AtArray') : ~AtArray'[k].write =>
              k \in 1 .. n - a /\ k + a \in 1 .. n /\ AtArray'[k] = AtArray[k + a]
        <3>. SUFFICES ASSUME NEW k \in 1 .. Len(AtArray'), ~AtArray'[k].write
                      PROVE  /\ k \in 1 .. n - a /\ k + a \in 1 .. n
                             /\ AtArray'[k] = AtArray[k + a]
            OBVIOUS
        <3>1. k \in 1 .. n - a
            <4>1. ASSUME k \notin 1 .. n - a PROVE FALSE
                <5>1. e = 1 /\ k = n - a + 1
                    BY <1>3, <1>4, <4>1
                <5>. QED BY <1>3, <1>8, <1>13, <5>1
            <4>. QED BY <4>1
        <3>. QED BY <1>3, <1>4, <3>1
    <2>3. ASSUME NEW k \in 1 .. Len(cm_rsp_fifo'), hit_req_fifo'[k]
          PROVE  cm_rsp_fifo'[k] = l
        <3>1. CASE k \in 1 .. lc - d
            <4>1. k + d \in 1 .. lc /\ k \in 1 .. lh - d
                BY <1>4, <3>1
            <4>2. hit_req_fifo[k + d] /\ cm_rsp_fifo'[k] = cm_rsp_fifo[k + d]
                BY <1>1, <1>2, <2>3, <3>1, <4>1
            <4>. QED BY <2>1, <4>1, <4>2
        <3>2. CASE k \notin 1 .. lc - d
            <4>1. /\ a = 1 /\ k = lc - d + 1 /\ k \in 1 .. lh - d /\ k + d = lc + 1
                  /\ 1 \in 1 .. n
                BY <1>2, <1>4, <3>2
            <4>2. hit_req_fifo'[k] = hit_req_fifo[lc + 1]
                BY <1>1, <4>1
            <4>3. ~AtArray[1].write
                BY <1>5, <2>3, <4>1, <4>2
            <4>4. cm_rsp_fifo'[k] = Answer /\ Answer = bram[Index(AtArray[1].addr)]
                BY <1>2, <1>6, <4>1, <4>3
            <4>. QED BY <1>4, <2>1, <4>1, <4>3, <4>4
        <3>. QED BY <3>1, <3>2
    <2>4. ASSUME Len(AtArray') >= 1, ~AtArray'[1].write
          PROVE  bram'[Index(AtArray'[1].addr)] = l
        <3>1. 1 \in 1 .. Len(AtArray')
            BY <1>3, <1>4, <2>4
        <3>2. 1 + a \in 1 .. n /\ AtArray'[1] = AtArray[1 + a]
            BY <2>2, <2>4, <3>1
        <3>. DEFINE i == Index(AtArray'[1].addr)
        <3>3. i \in 0 .. Sets - 1 /\ i = Index(AtArray[1 + a].addr)
            BY <1>6, <3>2
        <3>. HIDE DEF i
        <3>4. bram'[i] = IF a = 1 /\ AtArray[1].write /\ Index(AtArray[1].addr) = i
                           THEN AtArray[1].data ELSE bram[i]
            BY <1>6, <3>3
        <3>5. CASE a = 0
            <4>1. AtArray'[1] = AtArray[1] /\ n >= 1 /\ i = Index(AtArray[1].addr)
                BY <1>4, <3>2, <3>3, <3>5
            <4>. QED BY <2>1, <2>4, <3>4, <3>5, <4>1 DEF i
        <3>6. CASE a = 1
            <4>1. AtArray'[1] = AtArray[2] /\ n = 2 /\ i = Index(AtArray[2].addr)
                BY <1>4, <3>2, <3>3, <3>6
            <4>. QED BY <2>1, <2>4, <3>4, <3>6, <4>1 DEF i
        <3>. QED BY <1>4, <3>5, <3>6
    <2>5. ASSUME Len(AtArray') = 2, ~AtArray'[2].write
          PROVE  IF AtArray'[1].write /\ Index(AtArray'[1].addr) = Index(AtArray'[2].addr)
                   THEN AtArray'[1].data = l
                   ELSE bram'[Index(AtArray'[2].addr)] = l
        <3>1. 2 + a \in 1 .. n /\ AtArray'[2] = AtArray[2 + a] /\ 2 \in 1 .. n - a
            BY <1>4, <2>2, <2>5
        <3>2. a = 0 /\ n = 2 /\ AtArray'[2] = AtArray[2] /\ AtArray'[1] = AtArray[1]
            BY <1>3, <1>4, <3>1
        <3>3. bram'[Index(AtArray[2].addr)] = bram[Index(AtArray[2].addr)]
            BY <1>6, <3>2
        <3>. QED BY <2>1, <2>5, <3>2, <3>3
    <2>6. Found(l)
        BY <2>3, <2>4, <2>5
    <2>. QED BY <2>6 DEF l
<1>. HIDE DEF Found
<1>14. ASSUME NEW s \in Slot, Hitting(s)'
       PROVE  Found(MemLine(Asked(s)'))
    <2>1. CASE Hit
        BY <1>7, <1>12, <1>14, <2>1
    <2>2. CASE ~Hit
        BY <1>7, <1>13, <1>14, <2>2
    <2>. QED BY <2>1, <2>2
<1>. QED BY <1>10, <1>14

(***************************************************************************)
(* A tag is set with the write of its line.                                *)
(***************************************************************************)
LEMMA TagsStep ==
    ASSUME SlotInv, LineInv, NEW req \in Requests \cup {None},
           NEW take \in BOOLEAN, NEW memTake \in BOOLEAN,
           NEW memGive \in BOOLEAN, Clock(req, take, memTake, memGive)
    PROVE  TagsAgree'
<1>. DEFINE b == Head(miss_q).addr
            y == Head(mem_rsp_fifo)
<1>1. tag_array' = IF fill_rule THEN [tag_array EXCEPT ![Index(b)] = Tag(b)]
                   ELSE tag_array
    BY DEF Clock, CacheCycle, FilledTag
<1>2. /\ mem' = mem
      /\ tag_array \in [0 .. Sets - 1 -> (0 .. Tags - 1) \cup {None}]
    BY DEF Clock, SlotInv, TypeInv
<1>3. fill_rule => y = MemLine(b)
    <2>1. miss_q \in Seq(MissEntry) /\ mem_rsp_fifo \in Seq(Line)
        BY DEF SlotInv, TypeInv, MissEntry
    <2>2. fill_rule => /\ mem_rsp_fifo # << >>
                       /\ Head(miss_q) = miss_q[1] /\ y = mem_rsp_fifo[1]
        BY Rules
    <2>3. mem_rsp_fifo # << >> => Len(mem_rsp_fifo) \in Nat /\ Len(mem_rsp_fifo) > 0
        BY <2>1, NonEmpty
    <2>4. fill_rule => 1 \in 1 .. Len(mem_rsp_fifo)
        BY <2>2, <2>3
    <2>5. \A k \in 1 .. Len(mem_rsp_fifo) : mem_rsp_fifo[k] = MemLine(miss_q[k].addr)
        BY DEF LineInv, MissInv
    <2>. QED BY <2>2, <2>4, <2>5
<1>4. \A i \in 0 .. Sets - 1 :
          ArrayLine(i)' = IF fill_rule /\ i = Index(b) THEN y ELSE ArrayLine(i)
    BY LineStep
<1>5. \A i \in 0 .. Sets - 1 : LineValue(i) = ArrayLine(i)
    BY LineAtArray DEF LinesAreThere
<1>6. \A i \in 0 .. Sets - 1 : LineValue(i)' = ArrayLine(i)'
    <2>1. SlotInv'
        BY CycleKeepsSlots DEF Cycle
    <2>2. ASSUME SlotInv' PROVE LinesAreThere'
        BY <2>2, LineAtArray, PTL
    <2>. QED BY <2>1, <2>2 DEF LinesAreThere
<1>7. \A i \in 0 .. Sets - 1 :
          tag_array[i] # None => LineValue(i) = mem[<<tag_array[i], i>>]
    BY DEF LineInv, TagsAgree
<1>. HIDE DEF b, y, fill_rule
<1>8. ASSUME NEW CONSTANT i \in 0 .. Sets - 1, tag_array'[i] # None
      PROVE  LineValue(i)' = mem[<<tag_array'[i], i>>]
    <2>1. CASE fill_rule /\ i = Index(b)
        <3>1. tag_array'[i] = Tag(b)
            BY <1>1, <1>2, <2>1
        <3>2. LineValue(i)' = y
            BY <1>4, <1>6, <2>1
        <3>3. y = mem[<<Tag(b), i>>]
            BY <1>3, <2>1 DEF MemLine
        <3>. QED BY <3>1, <3>2, <3>3
    <2>2. CASE ~(fill_rule /\ i = Index(b))
        <3>1. tag_array'[i] = tag_array[i]
            BY <1>1, <1>2, <2>2
        <3>2. LineValue(i)' = LineValue(i)
            BY <1>4, <1>5, <1>6, <2>2
        <3>. QED BY <1>7, <1>8, <3>1, <3>2
    <2>. QED BY <2>1, <2>2
<1>9. TagsAgree' <=> \A i \in 0 .. Sets - 1 :
          tag_array'[i] # None => LineValue(i)' = mem'[<<tag_array'[i], i>>]
    BY DEF TagsAgree
<1>. QED BY <1>2, <1>8, <1>9

-----------------------------------------------------------------------------
(***************************************************************************)
(* The lines, in every reachable state.                                    *)
(***************************************************************************)
LEMMA CycleKeepsLines ==
    ASSUME SlotInv, LineInv, Cycle
    PROVE  LineInv'
<1>1. PICK req \in Requests \cup {None}, take \in BOOLEAN,
           memTake \in BOOLEAN, memGive \in BOOLEAN :
           Clock(req, take, memTake, memGive)
    BY DEF Cycle
<1>2. MissInv' /\ DeliveryInv'
    BY <1>1, MissStep, DeliveryStep DEF LineInv
<1>3. HitInv' /\ TagsAgree'
    BY <1>1, HitStep, TagsStep
<1>. QED BY <1>2, <1>3 DEF LineInv

LEMMA RestKeepsLines ==
    ASSUME Resting, Furnished, TagsAgree
    PROVE  LineInv
<1>. USE DEF Resting
<1>1. 1 .. Len(<< >>) = {}
    BY EmptyQueues
<1>2. MissInv
    BY <1>1 DEF MissInv
<1>3. DeliveryInv
    <2>1. \A s \in Slot : Age(s) \in Nat
        BY Ring DEF Furnished
    <2>2. \A s \in Slot : ~InUse(s)
        BY <2>1 DEF InUse
    <2>. QED BY <2>2 DEF DeliveryInv
<1>4. HitInv
    <2>1. \A s \in Slot : ~Hitting(s)
        BY DEF Hitting
    <2>. QED BY <2>1 DEF HitInv
<1>. QED BY <1>2, <1>3, <1>4 DEF LineInv

LEMMA ResetKeepsLines ==
    ASSUME ~Reload, SlotInv, LineInv, Reset
    PROVE  LineInv'
<1>1. Resting
    BY QuietRests DEF Reset
<1>2. Resting'
    BY <1>1, Zenon DEF Reset, CacheMemReset, Resting
<1>3. Furnished'
    <2>1. SlotInv'
        BY ResetKeepsSlots
    <2>. QED BY <2>1 DEF SlotInv, TypeInv, ArrayTypes, Furnished
<1>4. TagsAgree'
    <2>1. /\ mem' = mem /\ tag_array' = tag_array /\ bram' = bram
          /\ AtArray = << >> /\ AtArray' = << >>
        BY <1>1, <1>2 DEF Reset, CacheMemReset, Resting, AtArray
    <2>2. ASSUME NEW CONSTANT i \in 0 .. Sets - 1
          PROVE  LineValue(i)' = LineValue(i)
        BY <2>1 DEF LineValue
    <2>3. \A i \in 0 .. Sets - 1 :
              tag_array[i] # None => LineValue(i) = mem[<<tag_array[i], i>>]
        BY DEF LineInv, TagsAgree
    <2>. QED BY <2>1, <2>2, <2>3 DEF TagsAgree
<1>5. ASSUME Resting', Furnished', TagsAgree' PROVE LineInv'
    BY <1>5, RestKeepsLines, PTL
<1>. QED BY <1>2, <1>3, <1>4, <1>5

LEMMA InitHasLines ==
    ASSUME Init
    PROVE  LineInv
<1>1. Resting
    BY DEF Init, CacheMemInit, Resting
<1>2. Furnished
    BY InitHasSlots DEF SlotInv, TypeInv, ArrayTypes, Furnished
<1>3. TagsAgree
    BY DEF Init, TagsAgree
<1>. QED BY <1>1, <1>2, <1>3, RestKeepsLines

LEMMA StutterKeepsLines ==
    ASSUME SlotInv, LineInv, UNCHANGED vars
    PROVE  LineInv'
<1>1. /\ UNCHANGED <<req_fifo, rsp_fifo_rv, mem_req_fifo, mem_rsp_fifo, state,
                     token_hit, miss_q, hit_req_fifo, cb_i, cb_o, cb_n, cb_buff>>
      /\ UNCHANGED <<tag_array, pending, mem, expect, cm_req_fifo, cm_rsp_fifo,
                     cm_state, cm_req, prev_line, bram, bram_out>>
    BY DEF vars, icvars, cmvars
<1>2. AtArray' = AtArray
    BY <1>1 DEF AtArray
<1>3. MissInv'
    BY <1>1 DEF LineInv, MissInv, MemLine
<1>4. \A s \in Slot : /\ InUse(s)' <=> InUse(s)
                      /\ Hitting(s)' <=> Hitting(s)
                      /\ Asked(s)' = Asked(s)
    BY <1>1 DEF InUse, Age, Hitting, Asked, Sent
<1>5. DeliveryInv'
    BY <1>1, <1>4 DEF LineInv, DeliveryInv, MemLine
<1>6. HitInv'
    BY <1>1, <1>2, <1>4 DEF LineInv, HitInv, MemLine
<1>7. TagsAgree'
    BY <1>1, <1>2 DEF LineInv, TagsAgree, LineValue
<1>. QED BY <1>3, <1>5, <1>6, <1>7 DEF LineInv

(***************************************************************************)
(* The host leaves the program alone between two jobs: a cached line is    *)
(* the line in memory.                                                     *)
(***************************************************************************)
LEMMA LineInvariance ==
    ASSUME ~Reload
    PROVE  Spec => [](SlotInv /\ LineInv)
<1>1. Init => SlotInv /\ LineInv
    BY InitHasSlots, InitHasLines
<1>2. SlotInv /\ LineInv /\ [Next]_vars => SlotInv' /\ LineInv'
    <2>1. SlotInv /\ [Next]_vars => SlotInv'
        BY CycleKeepsSlots, ResetKeepsSlots, StutterKeepsSlots DEF Next
    <2>2. SlotInv /\ LineInv /\ [Next]_vars => LineInv'
        BY CycleKeepsLines, ResetKeepsLines, StutterKeepsLines DEF Next
    <2>. QED BY <2>1, <2>2
<1>. QED BY <1>1, <1>2, PTL DEF Spec

(***************************************************************************)
(* A valid tag stands for the line memory holds, once the fills waiting    *)
(* for the line memory are done.                                           *)
(***************************************************************************)
THEOREM ValidTagsAgree ==
    ASSUME ~Reload
    PROVE  Spec => []TagsAgree
<1>1. LineInv => TagsAgree
    BY DEF LineInv
<1>. QED BY <1>1, LineInvariance, PTL

(***************************************************************************)
(* The lines leave the cache in the order they were asked for, each with   *)
(* what memory holds, however hits, misses and fills overtake each other.  *)
(***************************************************************************)
THEOREM FetchesKeepOrder ==
    ASSUME ~Reload
    PROVE  Spec => []FetchesInOrder
<1>1. SlotInv /\ LineInv => FetchesInOrder
    BY NextAnswer DEF LineInv
<1>. QED BY <1>1, LineInvariance, PTL
=============================================================================
