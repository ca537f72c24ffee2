------------------------- MODULE DataCache_proofs --------------------------
(***************************************************************************)
(* The data cache between frontend, backend and memory, for every          *)
(* geometry, set of bursts and number of answers to a write: a clean line  *)
(* agrees with memory, and no line asked for is left over.                 *)
(***************************************************************************)
EXTENDS DataCacheSystem, SequenceLemmas

Transfer == [addr : Nat, len : Nat]
Gathering == [addr : Nat, line : Line, strb : SUBSET WordIdx,
              axi_data : [Pair -> Value], axi_strb : SUBSET Pair,
              axi_last : BOOLEAN, count : 0 .. 1]

\* A write to memory is for a whole line.
IsLineReq(r) == r \in LineReq /\ (r.write => r.addr % LineBytes = 0)
MemReq == {r \in LineReq : IsLineReq(r)}

CoreTypes ==
    /\ ops \in Nat /\ coreW \in Seq(CoreBeat) /\ coreAw \in Transfer \cup {None}
    /\ f_rd_in \in Transfer \cup {None} /\ f_wr_in_addr \in Transfer \cup {None}
    /\ f_wr_in_data \in CoreBeat \cup {None}
    /\ rd_addr \in Nat /\ wr_req \in Nat /\ cache_wr_req \in Gathering
    /\ f_req_fifo \in Seq(MemReq)

CacheTypes ==
    /\ req_fifo \in Seq(MemReq) /\ mem_req_fifo \in Seq(MemReq)
    /\ mem_rsp_fifo \in Seq(Line)
    /\ state \in {"idle", "access", "miss", "readVictim", "fill", "waitFill",
                  "waitMem"}
    /\ miss_req \in LineReq /\ ~miss_req.write /\ wb_addr \in Nat
    /\ tag_array \in [0 .. Sets - 1 -> (0 .. Tags - 1) \cup {None}]
    /\ dirty_array \in [0 .. Sets - 1 -> SUBSET WordIdx]

ArrayTypes ==
    /\ cm_req_fifo \in Seq(LineReq) /\ cm_rsp_fifo \in Seq(Line)
    /\ cm_state \in {"idle", "read", "write"} /\ cm_req \in LineReq
    /\ prev_line \in Line /\ bram \in [0 .. Sets - 1 -> Line] /\ bram_out \in Line

BackendTypes ==
    /\ b_req_fifo \in Seq(MemReq) /\ b_rsp_fifo \in Seq(Line)
    /\ b_state \in {"idle", "sendData", "read", "waitB"}
    /\ b_req_reg \in LineReq /\ b_line_reg \in Line
    /\ b_line_chunk \in 0 .. Beats - 1
    /\ b_cnt_burst \in 0 .. Beats /\ b_cnt_wr_rsp \in 0 .. 255
    /\ b_state = "sendData" => b_cnt_burst < Beats
    /\ b_wr_rsp_complete \in BOOLEAN
    /\ b_rd_in \in Nat \cup {None} /\ b_wr_in_addr \in Nat \cup {None}
    /\ b_wr_in_data \in WriteBeat \cup {None}
    /\ b_rd_out \in ReadBeat \cup {None} /\ b_wr_out \in {"OKAY", None}

MemoryTypes ==
    /\ mem \in [Words -> Value] /\ s_r \in Seq(ReadBeat)
    /\ s_aw \in Nat \cup {None} /\ s_w \in Seq(WriteBeat) /\ s_b \in Nat

Types ==
    CoreTypes /\ CacheTypes /\ ArrayTypes /\ BackendTypes /\ MemoryTypes

-----------------------------------------------------------------------------
(* The line memory has one request at a time, at one of four places.       *)

ArrayRests == cm_req_fifo = << >> /\ cm_state = "idle" /\ cm_rsp_fifo = << >>

AtArrayQueue(q) ==
    cm_req_fifo = <<q>> /\ cm_state = "idle" /\ cm_rsp_fifo = << >>
BeingRead(q) ==
    /\ cm_req_fifo = << >> /\ cm_state = "read" /\ cm_rsp_fifo = << >>
    /\ cm_req = q /\ bram_out = bram[Index(q.addr)]
BeingWritten(q) ==
    /\ cm_req_fifo = << >> /\ cm_state = "write" /\ cm_rsp_fifo = << >>
    /\ cm_req = q /\ q.write /\ prev_line = bram[Index(q.addr)]
ArrayAnswered ==
    cm_req_fifo = << >> /\ cm_state = "idle" /\ Len(cm_rsp_fifo) = 1

ArrayInv ==
    IF state \in {"access", "readVictim"}
      THEN \/ ArrayAnswered
           \/ \E q \in LineReq :
                 AtArrayQueue(q) \/ BeingRead(q) \/ BeingWritten(q)
      ELSE ArrayRests

-----------------------------------------------------------------------------
(* So has memory.                                                          *)

QueuesHold(m, b, bs, ms) ==
    /\ Len(mem_req_fifo) = m /\ Len(b_req_fifo) = b
    /\ Len(b_rsp_fifo) = bs /\ Len(mem_rsp_fifo) = ms

NoRead == b_rd_in = None /\ b_rd_out = None /\ s_r = << >>
NoAnswers == s_b = 0 /\ b_wr_out = None
NoBeats == b_wr_in_data = None /\ s_w = << >>
NoWrite ==
    b_wr_in_addr = None /\ s_aw = None /\ NoBeats /\ NoAnswers

BackendRests ==
    /\ NoRead /\ NoWrite
    /\ b_state = "idle" \/ (b_state = "waitB" /\ b_wr_rsp_complete)

\* Beat j, from 0, of the line at an address of memory m.
BeatAt(m, a, j) ==
    [data |-> [p \in Pair |-> m[Word(a, 2 * j + p)]], last |-> j = Beats - 1]

Present(x) == IF x = None THEN 0 ELSE 1

\* A read's address waits for memory; its beats come.
ReadOffered(a) ==
    /\ NoWrite /\ b_state = "read" /\ b_line_chunk = 0
    /\ b_rd_in = a /\ b_rd_out = None /\ s_r = << >>
Receiving(a) ==
    /\ NoWrite /\ b_state = "read" /\ b_rd_in = None /\ b_rd_out = None
    /\ b_line_chunk + Len(s_r) = Beats
    /\ \A k \in 1 .. Len(s_r) : s_r[k] = BeatAt(mem, a, b_line_chunk + k - 1)
    /\ \A n \in WordIdx :
          n < 2 * b_line_chunk => b_line_reg[n] = mem[Word(a, n)]

Reading(a) == ReadOffered(a) \/ Receiving(a)

\* A write's address and beats go to memory; its answers come.
Sending(a) ==
    /\ NoRead /\ NoAnswers /\ b_cnt_wr_rsp = 0 /\ ~b_wr_rsp_complete
    /\ b_state = IF b_cnt_burst = Beats THEN "waitB" ELSE "sendData"
    /\ \/ b_wr_in_addr = a /\ s_aw = None
       \/ b_wr_in_addr = None /\ s_aw = a
    /\ Len(s_w) + Present(b_wr_in_data) = b_cnt_burst
    /\ b_wr_in_data # None => (b_wr_in_data.last <=> b_cnt_burst = Beats)
    /\ \A k \in 1 .. Len(s_w) : s_w[k].last <=> k = Beats
Answering(a) ==
    /\ NoRead /\ NoBeats /\ b_wr_in_addr = None /\ s_aw = None
    /\ b_state = "waitB" /\ ~b_wr_rsp_complete
    /\ b_cnt_wr_rsp < Beats
    /\ b_wr_out = None /\ s_b + b_cnt_wr_rsp = AnswersPerBurst

Writing(a) == Sending(a) \/ Answering(a)

\* The line memory holds for an address.
LineOf(a) == MemLine(Tag(a), Index(a))

\* Where a request to memory is.
AtCache(r) == QueuesHold(1, 0, 0, 0) /\ mem_req_fifo[1] = r /\ BackendRests
AtBackend(r) == QueuesHold(0, 1, 0, 0) /\ b_req_fifo[1] = r /\ BackendRests
InBurst(r) ==
    /\ QueuesHold(0, 0, 0, 0)
    /\ IF r.write THEN Writing(r.addr) ELSE Reading(r.addr)
Answered(r) ==
    /\ BackendRests
    /\ \/ /\ QueuesHold(0, 0, 1, 0)
          /\ ~r.write => b_rsp_fifo[1] = LineOf(r.addr)
       \/ /\ QueuesHold(0, 0, 0, 1)
          /\ ~r.write => mem_rsp_fifo[1] = LineOf(r.addr)

InFlight(r) == AtCache(r) \/ AtBackend(r) \/ InBurst(r) \/ Answered(r)

MemRests == QueuesHold(0, 0, 0, 0) /\ BackendRests

\* No clean line is at the address of a write: its line is not there, or dirty.
Harmless(a) == tag_array[Index(a)] # Tag(a) \/ dirty_array[Index(a)] # {}

MemInv ==
    /\ state = "waitMem" =>
          \E r \in MemReq : r.write /\ Harmless(r.addr) /\ InFlight(r)
    /\ state = "waitFill" =>
          \E r \in MemReq : /\ ~r.write /\ r.addr = Aligned(miss_req.addr)
                            /\ InFlight(r)
    /\ state \notin {"waitMem", "waitFill"} => MemRests
    /\ state = "readVictim" =>
          wb_addr % LineBytes = 0 /\ dirty_array[Index(wb_addr)] # {}

DataInv == Types /\ ArrayInv /\ MemInv /\ CleanLinesAgree

-----------------------------------------------------------------------------
(***************************************************************************)
(* Addresses.                                                              *)
(***************************************************************************)
LEMMA NothingIsNothing ==
    /\ None \notin Nat /\ None # "OKAY" /\ None \notin Line /\ None \notin LineReq
    /\ None \notin MemReq /\ None \notin ReadBeat /\ None \notin WriteBeat
    /\ None \notin 0 .. Tags - 1
<1>1. \A x \in 0 .. Tags - 1 : x \in Nat
    BY GeometryAssumption
<1>. QED BY <1>1, NoneIsNothing DEF MemReq

LEMMA BeatsPerLine == Beats \in 1 .. 256 /\ WPL = 2 * Beats /\ WPL \in Nat \ {0}
BY GeometryAssumption, BurstAssumption DEF Beats

LEMMA LineSize == LineBytes \in Nat \ {0} /\ LineBytes * Sets \in Nat \ {0}
<1>1. LineBytes \in Nat \ {0}
    BY GeometryAssumption DEF LineBytes
<1>. DEFINE L == LineBytes
<1>2. L \in Nat \ {0} /\ Sets \in Nat \ {0}
    BY <1>1, GeometryAssumption
<1>. HIDE DEF L
<1>3. L * Sets \in Nat \ {0}
    BY <1>2
<1>. QED BY <1>1, <1>3 DEF L

(***************************************************************************)
(* Division by L, by S and by T in turn.                                   *)
(***************************************************************************)
LEMMA QuotientUnique ==
    ASSUME NEW a \in Nat, NEW L \in Nat \ {0}, NEW p \in Nat, NEW m \in 0 .. L - 1,
           a = L * p + m
    PROVE  a \div L = p /\ a % L = m
OBVIOUS

LEMMA DivideTwice ==
    ASSUME NEW a \in Nat, NEW L \in Nat \ {0}, NEW S \in Nat \ {0}
    PROVE  a \div (L * S) = (a \div L) \div S
<1>. DEFINE q == a \div L
            r == a % L
            p == q \div S
            t == q % S
<1>1. q \in Nat /\ r \in 0 .. L - 1 /\ a = L * q + r
    OBVIOUS
<1>. HIDE DEF q, r
<1>2. p \in Nat /\ t \in 0 .. S - 1 /\ q = S * p + t
    BY <1>1
<1>. HIDE DEF p, t
<1>. DEFINE m == L * t + r
            P == L * S
<1>3. a = P * p + m
    BY <1>1, <1>2
<1>4. P \in Nat \ {0} /\ m \in Nat
    BY <1>1, <1>2
<1>5. m < P
    <2>1. L * t + L <= P
        <3>1. L * (t + 1) <= L * S
            BY <1>2
        <3>2. L * (t + 1) = L * t + L
            BY <1>2
        <3>. QED BY <3>1, <3>2
    <2>2. L * t \in Nat
        BY <1>2
    <2>. QED BY <1>1, <1>4, <2>1, <2>2
<1>. HIDE DEF m, P
<1>6. a \div P = p
    BY <1>2, <1>3, <1>4, <1>5
<1>. QED BY <1>6 DEF P, p, q

(***************************************************************************)
(* The line number of an address, and its parts.                           *)
(***************************************************************************)
LEMMA AddressParts ==
    ASSUME NEW a \in Nat
    PROVE  /\ a \div LineBytes \in Nat
           /\ Index(a) = (a \div LineBytes) % Sets
           /\ Tag(a) = ((a \div LineBytes) \div Sets) % Tags
           /\ Index(a) \in 0 .. Sets - 1 /\ Tag(a) \in 0 .. Tags - 1
<1>. DEFINE L == LineBytes
            q == a \div L
<1>1. L \in Nat \ {0} /\ Sets \in Nat \ {0} /\ Tags \in Nat \ {0}
    BY LineSize, GeometryAssumption
<1>. HIDE DEF L
<1>2. q \in Nat
    BY <1>1
<1>3. a \div (L * Sets) = q \div Sets
    BY <1>1, DivideTwice
<1>4. Index(a) = q % Sets /\ Tag(a) = (q \div Sets) % Tags
    BY <1>3 DEF Index, Tag, L
<1>. HIDE DEF q
<1>. DEFINE p == q \div Sets
<1>5. p \in Nat /\ q % Sets \in 0 .. Sets - 1
    BY <1>1, <1>2
<1>. HIDE DEF p
<1>6. p % Tags \in 0 .. Tags - 1
    BY <1>1, <1>5
<1>. QED BY <1>2, <1>4, <1>5, <1>6 DEF p, q, L

LEMMA AlignedAddress ==
    ASSUME NEW a \in Nat
    PROVE  /\ Aligned(a) \in Nat /\ Aligned(a) % LineBytes = 0
           /\ Tag(Aligned(a)) = Tag(a) /\ Index(Aligned(a)) = Index(a)
<1>. DEFINE L == LineBytes
            q == a \div L
            r == a % L
            b == a - r
<1>1. L \in Nat \ {0}
    BY LineSize
<1>. HIDE DEF L
<1>2. q \in Nat /\ r \in 0 .. L - 1 /\ a = L * q + r
    BY <1>1
<1>. HIDE DEF q
<1>3. b = L * q /\ b \in Nat
    BY <1>1, <1>2
<1>. HIDE DEF r, b
<1>4. b \div L = q /\ b % L = 0
    BY <1>1, <1>2, <1>3
<1>5. b \div L = a \div L
    BY <1>4 DEF q
<1>6. Tag(b) = Tag(a) /\ Index(b) = Index(a)
    BY <1>3, <1>5, AddressParts DEF L
<1>7. b = Aligned(a)
    BY DEF b, r, L, Aligned
<1>. QED BY <1>3, <1>4, <1>6, <1>7 DEF L

(***************************************************************************)
(* The address a victim is written to is that of its tag and index.        *)
(***************************************************************************)
LEMMA VictimAddress ==
    ASSUME NEW t \in 0 .. Tags - 1, NEW i \in 0 .. Sets - 1
    PROVE  LET a == (t * Sets + i) * LineBytes
           IN  a \in Nat /\ a % LineBytes = 0 /\ Tag(a) = t /\ Index(a) = i
<1>. DEFINE L == LineBytes
            q == t * Sets + i
            a == q * L
<1>1. /\ L \in Nat \ {0} /\ Sets \in Nat \ {0} /\ Tags \in Nat \ {0}
      /\ t \in Nat /\ i \in Nat
    BY LineSize, GeometryAssumption
<1>. HIDE DEF L
<1>2. q \in Nat /\ q = Sets * t + i
    BY <1>1
<1>3. q \div Sets = t /\ q % Sets = i
    BY <1>1, <1>2, QuotientUnique
<1>. HIDE DEF q
<1>4. a \in Nat /\ a = L * q + 0
    BY <1>1, <1>2
<1>5. a \div L = q /\ a % L = 0
    BY <1>1, <1>2, <1>4, QuotientUnique
<1>. HIDE DEF a
<1>6. t % Tags = t
    BY <1>1
<1>7. Tag(a) = t /\ Index(a) = i
    BY <1>3, <1>4, <1>5, <1>6, AddressParts DEF L
<1>. QED BY <1>4, <1>5, <1>7 DEF a, q, L

(***************************************************************************)
(* The words of the lines in memory: each at a place of its own.           *)
(***************************************************************************)
Place(t, i, n) == (t * Sets + i) * WPL + n

LEMMA PlaceParts ==
    ASSUME NEW t \in 0 .. Tags - 1, NEW i \in 0 .. Sets - 1, NEW n \in WordIdx
    PROVE  /\ Place(t, i, n) \in Words
           /\ Place(t, i, n) % WPL = n
           /\ (Place(t, i, n) \div WPL) % Sets = i
           /\ (Place(t, i, n) \div WPL) \div Sets = t
<1>. DEFINE q == t * Sets + i
            w == q * WPL + n
<1>1. /\ WPL \in Nat \ {0} /\ Sets \in Nat \ {0} /\ Tags \in Nat \ {0}
      /\ t \in Nat /\ i \in Nat /\ n \in 0 .. WPL - 1
    BY GeometryAssumption DEF WordIdx
<1>2. q \in Nat /\ q = Sets * t + i
    BY <1>1
<1>3. q \div Sets = t /\ q % Sets = i
    BY <1>1, <1>2, QuotientUnique
<1>. DEFINE N == Sets * Tags
<1>4. N \in Nat \ {0} /\ q < N
    <2>1. Sets * (t + 1) <= Sets * Tags
        BY <1>1
    <2>2. Sets * (t + 1) = Sets * t + Sets
        BY <1>1
    <2>3. Sets * t \in Nat /\ Sets * Tags \in Nat \ {0}
        BY <1>1
    <2>. QED BY <1>1, <1>2, <2>1, <2>2, <2>3
<1>. HIDE DEF q, N
<1>5. w \in Nat /\ w = WPL * q + n
    BY <1>1, <1>2
<1>6. w \div WPL = q /\ w % WPL = n
    BY <1>1, <1>2, <1>5, QuotientUnique
<1>7. w < N * WPL /\ N * WPL \in Nat \ {0}
    <2>1. WPL * (q + 1) <= WPL * N
        BY <1>1, <1>2, <1>4
    <2>2. WPL * (q + 1) = WPL * q + WPL
        BY <1>1, <1>2
    <2>3. WPL * q \in Nat /\ N * WPL \in Nat \ {0} /\ N * WPL = WPL * N
        BY <1>1, <1>2, <1>4
    <2>. QED BY <1>1, <1>5, <2>1, <2>2, <2>3
<1>. HIDE DEF w
<1>8. w \in 0 .. N * WPL - 1
    BY <1>5, <1>7
<1>9. w = Place(t, i, n)
    BY DEF w, q, Place
<1>. QED BY <1>3, <1>6, <1>8, <1>9 DEF Words, N

LEMMA PlaceUnique ==
    ASSUME NEW t \in 0 .. Tags - 1, NEW i \in 0 .. Sets - 1, NEW n \in WordIdx,
           NEW u \in 0 .. Tags - 1, NEW j \in 0 .. Sets - 1, NEW m \in WordIdx,
           Place(t, i, n) = Place(u, j, m)
    PROVE  t = u /\ i = j /\ n = m
<1>. DEFINE w == Place(t, i, n)
            v == Place(u, j, m)
<1>1. w % WPL = n /\ (w \div WPL) % Sets = i /\ (w \div WPL) \div Sets = t
    BY PlaceParts
<1>2. v % WPL = m /\ (v \div WPL) % Sets = j /\ (v \div WPL) \div Sets = u
    BY PlaceParts
<1>3. w = v
    OBVIOUS
<1>. HIDE DEF w, v
<1>. QED BY <1>1, <1>2, <1>3, Zenon

LEMMA WordOfLine ==
    ASSUME NEW a \in Nat, a % LineBytes = 0, NEW n \in WordIdx
    PROVE  Word(a, n) = Place(Tag(a), Index(a), n)
<1>. DEFINE L == LineBytes
            q == a \div L
            p == q \div Sets
            i == q % Sets
            u == p \div Tags
            t == p % Tags
            M == Sets * Tags * WPL
            w == Place(t, i, n)
<1>1. /\ L \in Nat \ {0} /\ Sets \in Nat \ {0} /\ Tags \in Nat \ {0}
      /\ WPL \in Nat \ {0} /\ n \in 0 .. WPL - 1
    BY LineSize, GeometryAssumption DEF WordIdx
<1>2. Tag(a) = t /\ Index(a) = i
    BY AddressParts
<1>3. q \in Nat /\ a = L * q /\ a \div 4 = WPL * q
    <2>1. a \div L = q /\ a % L = 0
        OBVIOUS
    <2>. HIDE DEF q, L
    <2>2. q \in Nat /\ a = L * q
        BY <1>1, <2>1
    <2>3. L = 4 * WPL
        BY DEF L, LineBytes
    <2>. DEFINE v == WPL * q
    <2>4. a = 4 * v + 0 /\ v \in Nat
        BY <1>1, <2>2, <2>3
    <2>. HIDE DEF v
    <2>5. a \div 4 = v
        BY <2>4
    <2>. QED BY <2>2, <2>5 DEF v
<1>. HIDE DEF L, q
<1>4. p \in Nat /\ i \in 0 .. Sets - 1 /\ q = Sets * p + i
    BY <1>1, <1>3
<1>. HIDE DEF p, i
<1>5. u \in Nat /\ t \in 0 .. Tags - 1 /\ p = Tags * u + t
    BY <1>1, <1>4
<1>. HIDE DEF u, t
<1>6. w \in Words
    BY <1>4, <1>5, PlaceParts
<1>7. WPL * q + n = M * u + w
    <2>1. q = Sets * Tags * u + (t * Sets + i)
        BY <1>1, <1>4, <1>5
    <2>. DEFINE s == t * Sets + i
                N == Sets * Tags
    <2>2. s \in Nat /\ N \in Nat /\ q = N * u + s
        BY <1>1, <1>4, <1>5, <2>1
    <2>. HIDE DEF s, N
    <2>3. WPL * q + n = (N * WPL) * u + (s * WPL + n)
        BY <1>1, <1>5, <2>2
    <2>. QED BY <2>3 DEF s, N, Place
<1>8. M \in Nat \ {0} /\ w \in 0 .. M - 1
    <2>. DEFINE N == Sets * Tags
    <2>1. N \in Nat \ {0}
        BY <1>1
    <2>. HIDE DEF N
    <2>2. N * WPL \in Nat \ {0}
        BY <1>1, <2>1
    <2>. QED BY <1>6, <2>2 DEF N, Words
<1>9. Word(a, n) = (WPL * q + n) % M
    BY <1>3 DEF Word
<1>. HIDE DEF M, w
<1>. DEFINE x == WPL * q + n
<1>10. x \in Nat
    BY <1>1, <1>3
<1>. HIDE DEF x
<1>11. x % M = w
    BY <1>5, <1>7, <1>8, <1>10, QuotientUnique DEF x
<1>. QED BY <1>2, <1>9, <1>11 DEF w, x

-----------------------------------------------------------------------------
(***************************************************************************)
(* Queues.  One edge takes the head of a queue, adds an element, or both.  *)
(***************************************************************************)
Bit(b) == IF b THEN 1 ELSE 0

Follows(T, q, r, deq, enq, e) ==
    /\ r \in Seq(T) /\ Len(r) = Len(q) - Bit(deq) + Bit(enq)
    /\ \A k \in 1 .. Len(q) - Bit(deq) : r[k] = q[k + Bit(deq)]
    /\ enq => r[Len(q) - Bit(deq) + 1] = e

LEMMA ClockedFollows ==
    ASSUME NEW T, NEW q \in Seq(T), NEW deq \in BOOLEAN, NEW enq \in BOOLEAN,
           NEW e, deq => q # << >>, enq => e \in T
    PROVE  Follows(T, q, Clocked(q, deq, enq, e), deq, enq, e)
<1>. DEFINE left == IF deq THEN Tail(q) ELSE q
<1>1. /\ left \in Seq(T) /\ Len(left) = Len(q) - Bit(deq) /\ Len(left) \in Nat
      /\ \A k \in 1 .. Len(q) - Bit(deq) : left[k] = q[k + Bit(deq)]
    <2>1. CASE deq
        <3>1. q # << >> /\ Len(q) \in Nat \ {0}
            BY <2>1, EmptySeq
        <3>2. /\ Tail(q) \in Seq(T) /\ Len(Tail(q)) = Len(q) - 1
              /\ \A k \in 1 .. Len(q) - 1 : Tail(q)[k] = q[k + 1]
            BY <3>1
        <3>. QED BY <2>1, <3>1, <3>2 DEF Bit
    <2>2. CASE ~deq
        BY <2>2 DEF Bit
    <2>. QED BY <2>1, <2>2
<1>. HIDE DEF left
<1>2. CASE enq
    <2>1. /\ Append(left, e) \in Seq(T) /\ Len(Append(left, e)) = Len(left) + 1
          /\ \A k \in 1 .. Len(left) : Append(left, e)[k] = left[k]
          /\ Append(left, e)[Len(left) + 1] = e
        BY <1>1, <1>2
    <2>2. Clocked(q, deq, enq, e) = Append(left, e)
        BY <1>2 DEF Clocked, left
    <2>. QED BY <1>1, <1>2, <2>1, <2>2 DEF Follows, Bit
<1>3. CASE ~enq
    <2>1. Clocked(q, deq, enq, e) = left
        BY <1>3 DEF Clocked, left
    <2>. QED BY <1>1, <1>3, <2>1 DEF Follows, Bit
<1>. QED BY <1>2, <1>3

LEMMA NonEmpty ==
    ASSUME NEW T, NEW q \in Seq(T)
    PROVE  /\ Len(q) \in Nat /\ (q # << >> <=> Len(q) > 0)
           /\ q # << >> => Head(q) = q[1] /\ q[1] \in T
           /\ \A k \in 1 .. Len(q) : q[k] \in T
<1>1. q # << >> => Len(q) \in Nat \ {0}
    BY EmptySeq
<1>2. Len(q) > 0 => q # << >>
    OBVIOUS
<1>. QED BY <1>1, <1>2

-----------------------------------------------------------------------------
(***************************************************************************)
(* The core and the frontend.                                              *)
(***************************************************************************)
CoreInputs(ar, wb, aw, w) ==
    /\ ar \in ReadBursts \cup {None} /\ wb \in WriteBursts \cup {None}
    /\ aw \in {coreAw, None}
    /\ w = None \/ (coreW # << >> /\ w = Head(coreW))

LEMMA BeatIsWriteBeat == CoreBeat \subseteq WriteBeat
<1>1. \A f \in [Pair -> Nat] : f \in [Pair -> Value]
    BY DEF Value
<1>. QED BY <1>1 DEF CoreBeat, WriteBeat

LEMMA CoreStep ==
    ASSUME Types, NEW ar, NEW wb, NEW aw, NEW w, NEW rready, NEW bready,
           CoreInputs(ar, wb, aw, w), Core(ar, wb, aw, w, rready, bready)
    PROVE  /\ ops' \in Nat /\ coreW' \in Seq(CoreBeat)
           /\ coreAw' \in Transfer \cup {None}
<1>1. ops \in Nat /\ coreW \in Seq(CoreBeat) /\ coreAw \in Transfer \cup {None}
    BY DEF Types, CoreTypes
<1>2. ops' \in Nat
    <2>1. ops' = ops + ((IF ar = None THEN 0 ELSE 1) + (IF wb = None THEN 0 ELSE 1))
        BY DEF Core
    <2>. QED BY <1>1, <2>1
<1>3. wb # None => /\ Len(wb.strb) \in Nat /\ wb.addr \in Nat
                   /\ WriteBeats(wb) \in Seq(CoreBeat)
    <2>. SUFFICES ASSUME wb # None
                  PROVE  /\ Len(wb.strb) \in Nat /\ wb.addr \in Nat
                         /\ WriteBeats(wb) \in Seq(CoreBeat)
        OBVIOUS
    <2>1. wb \in [addr : Nat, strb : Seq(SUBSET Pair)]
        BY BurstsAssumption DEF CoreInputs
    <2>2. wb.addr \in Nat /\ wb.strb \in Seq(SUBSET Pair) /\ Len(wb.strb) \in Nat
        BY <2>1
    <2>3. ASSUME NEW k \in 1 .. Len(wb.strb)
          PROVE  [data |-> [j \in Pair |-> Fresh(k, j)],
                  strb |-> wb.strb[k], last |-> k = Len(wb.strb)] \in CoreBeat
        <3>1. \A j \in Pair : Fresh(k, j) \in Nat
            BY <1>1, <2>2 DEF Fresh, Pair
        <3>2. wb.strb[k] \in SUBSET Pair
            BY <2>2
        <3>. QED BY <3>1, <3>2 DEF CoreBeat
    <2>4. WriteBeats(wb) \in Seq(CoreBeat)
        BY <2>2, <2>3 DEF WriteBeats
    <2>. QED BY <2>2, <2>4
<1>4. coreAw' \in Transfer \cup {None}
    <2>1. coreAw' = IF wb # None THEN [addr |-> wb.addr, len |-> Len(wb.strb)]
                    ELSE IF aw # None /\ f_wr_in_addr = None THEN None
                    ELSE coreAw
        BY DEF Core
    <2>. QED BY <1>1, <1>3, <2>1 DEF Transfer
<1>5. coreW' \in Seq(CoreBeat)
    <2>1. coreW' = IF wb # None THEN WriteBeats(wb)
                   ELSE IF w # None /\ f_wr_in_data = None THEN Tail(coreW)
                   ELSE coreW
        BY DEF Core
    <2>2. w # None => Tail(coreW) \in Seq(CoreBeat)
        BY <1>1 DEF CoreInputs
    <2>. QED BY <1>1, <1>3, <2>1, <2>2
<1>. QED BY <1>2, <1>4, <1>5

LEMMA FrontInputs ==
    ASSUME Types, NEW ar, NEW wb, NEW aw, NEW w, CoreInputs(ar, wb, aw, w)
    PROVE  /\ RdIn(ar) \in Transfer \cup {None}
           /\ WrInAddr(aw) \in Transfer \cup {None}
           /\ WrInData(w) \in CoreBeat \cup {None}
<1>1. /\ coreW \in Seq(CoreBeat) /\ coreAw \in Transfer \cup {None}
      /\ f_rd_in \in Transfer \cup {None} /\ f_wr_in_addr \in Transfer \cup {None}
      /\ f_wr_in_data \in CoreBeat \cup {None}
    BY DEF Types, CoreTypes
<1>2. ar \in Transfer \cup {None} /\ aw \in Transfer \cup {None}
    BY <1>1, BurstsAssumption DEF CoreInputs, Transfer
<1>3. w \in CoreBeat \cup {None}
    BY <1>1 DEF CoreInputs
<1>. QED BY <1>1, <1>2, <1>3 DEF RdIn, WrInAddr, WrInData

(***************************************************************************)
(* Gathering the words of a line.                                          *)
(***************************************************************************)
LEMMA BeatAtHand ==
    ASSUME Types, NEW w, WrInData(w) \in CoreBeat \cup {None}, writes(w)
    PROVE  BeatIn(w) \in WriteBeat
<1>1. cache_wr_req \in Gathering
    BY DEF Types, CoreTypes
<1>2. CASE wr_leftover_data
    BY <1>1, <1>2 DEF BeatIn, Gathering, WriteBeat
<1>3. CASE ~wr_leftover_data
    <2>1. WrInData(w) # None
        BY <1>3 DEF writes, wr_set_line
    <2>. QED BY <1>3, <2>1, BeatIsWriteBeat DEF BeatIn
<1>. QED BY <1>2, <1>3

LEMMA ChunkRange == ASSUME NEW a \in Nat PROVE Chunk(a) \in 0 .. WPL - 1
<1>. DEFINE q == a \div 4
<1>1. q \in Nat
    OBVIOUS
<1>. HIDE DEF q
<1>2. q % WPL \in 0 .. WPL - 1
    BY <1>1, BeatsPerLine
<1>. QED BY <1>2 DEF Chunk, q

LEMMA LineAtHand ==
    ASSUME Types, NEW w, WrInData(w) \in CoreBeat \cup {None}, writes(w)
    PROVE  /\ Gathered(w) \in Line /\ Strobes(w) \in SUBSET WordIdx
           /\ Shifted(w) \in [Pair -> Value] /\ ShiftedStrb(w) \in SUBSET Pair
<1>. DEFINE beat == BeatIn(w)
<1>1. /\ beat.data \in [Pair -> Value] /\ beat.strb \in SUBSET Pair
    BY BeatAtHand DEF WriteBeat
<1>. HIDE DEF beat
<1>2. /\ cache_wr_req.line \in Line /\ cache_wr_req.strb \in SUBSET WordIdx
    BY DEF Types, CoreTypes, Gathering
<1>3. 0 \in Value /\ Mixed \in Value
    BY DEF Value
<1>4. ASSUME NEW n \in WordIdx
      PROVE  Or(cache_wr_req.line[n], Placed(w)[n]) \in Value
    <2>1. Placed(w)[n] = IF n - WrChunk \in beat.strb
                           THEN beat.data[n - WrChunk] ELSE 0
        BY DEF Placed, beat
    <2>2. Placed(w)[n] \in Value
        BY <1>1, <1>3, <2>1
    <2>3. cache_wr_req.line[n] \in Value
        BY <1>2 DEF Line
    <2>. QED BY <1>3, <2>2, <2>3 DEF Or
<1>5. Gathered(w) \in Line
    BY <1>4 DEF Gathered, Line
<1>6. Strobes(w) \in SUBSET WordIdx
    BY <1>2 DEF Strobes
<1>7. Shifted(w) \in [Pair -> Value]
    BY <1>1, <1>3 DEF Shifted, beat
<1>8. ShiftedStrb(w) \in SUBSET Pair
    BY DEF ShiftedStrb
<1>. QED BY <1>5, <1>6, <1>7, <1>8

LEMMA GatherStep ==
    ASSUME Types, NEW ar, NEW aw, NEW w, GatherLine(ar, aw, w),
           WrInAddr(aw) \in Transfer \cup {None},
           WrInData(w) \in CoreBeat \cup {None}
    PROVE  cache_wr_req' \in Gathering
<1>1. cache_wr_req \in Gathering
    BY DEF Types, CoreTypes
<1>2. ZeroLine \in Line /\ ZeroBeat \in [Pair -> Value]
    BY DEF ZeroLine, ZeroBeat, Line, Value
<1>3. CASE wr_get_req(ar, aw)
    <2>1. WrInAddr(aw).addr \in Nat
        BY <1>3 DEF wr_get_req, Transfer
    <2>2. cache_wr_req' =
            [addr |-> WrInAddr(aw).addr, line |-> ZeroLine, strb |-> {},
             axi_data |-> ZeroBeat, axi_strb |-> {}, axi_last |-> FALSE,
             count |-> 0]
        BY <1>3 DEF GatherLine
    <2>. QED BY <1>2, <2>1, <2>2 DEF Gathering
<1>4. CASE ~wr_get_req(ar, aw) /\ writes(w)
    <2>1. /\ cache_wr_req.addr \in Nat /\ cache_wr_req.count \in 0 .. 1
          /\ WrAvail \in 1 .. WPL
        <3>1. cache_wr_req.addr \in Nat /\ cache_wr_req.count \in 0 .. 1
            BY <1>1 DEF Gathering
        <3>2. Chunk(cache_wr_req.addr) \in 0 .. WPL - 1
            BY <3>1, ChunkRange
        <3>. QED BY <3>1, <3>2, BeatsPerLine DEF WrAvail, WrChunk
    <2>2. /\ cache_wr_req.addr + 4 * (IF Straddles THEN WrAvail ELSE NewWords) \in Nat
          /\ (IF Straddles THEN WrAvail ELSE 0) \in 0 .. 1
        BY <2>1, BeatsPerLine DEF NewWords, Straddles
    <2>3. Gathered(w) \in Line /\ Strobes(w) \in SUBSET WordIdx
          /\ Shifted(w) \in [Pair -> Value] /\ ShiftedStrb(w) \in SUBSET Pair
        BY <1>4, LineAtHand
    <2>4. BeatIn(w).last \in BOOLEAN
        BY <1>4, BeatAtHand DEF WriteBeat
    <2>5. cache_wr_req' =
            [addr |-> cache_wr_req.addr
                        + 4 * (IF Straddles THEN WrAvail ELSE NewWords),
             line |-> IF SendsLine(w) THEN ZeroLine ELSE Gathered(w),
             strb |-> IF SendsLine(w) THEN {} ELSE Strobes(w),
             axi_data |-> IF Straddles THEN Shifted(w) ELSE ZeroBeat,
             axi_strb |-> IF Straddles THEN ShiftedStrb(w) ELSE {},
             axi_last |-> Straddles /\ BeatIn(w).last,
             count |-> IF Straddles THEN WrAvail ELSE 0]
        BY <1>4 DEF GatherLine
    <2>6. /\ (IF SendsLine(w) THEN ZeroLine ELSE Gathered(w)) \in Line
          /\ (IF SendsLine(w) THEN {} ELSE Strobes(w)) \in SUBSET WordIdx
          /\ (IF Straddles THEN Shifted(w) ELSE ZeroBeat) \in [Pair -> Value]
          /\ (IF Straddles THEN ShiftedStrb(w) ELSE {}) \in SUBSET Pair
          /\ (Straddles /\ BeatIn(w).last) \in BOOLEAN
        BY <1>2, <2>3
    <2>. QED BY <2>2, <2>5, <2>6 DEF Gathering
<1>5. CASE ~wr_get_req(ar, aw) /\ ~writes(w)
    BY <1>1, <1>5 DEF GatherLine
<1>. QED BY <1>3, <1>4, <1>5

LEMMA FrontStep ==
    ASSUME Types, NEW ar, NEW wb, NEW aw, NEW w, NEW rready, NEW bready,
           CoreInputs(ar, wb, aw, w), Core(ar, wb, aw, w, rready, bready),
           NEW rsp, FrontendCycle(ar, rready, aw, w, bready,
                                  Moves(f_req_fifo, req_fifo), rsp)
    PROVE  CoreTypes'
<1>1. /\ f_rd_in \in Transfer \cup {None} /\ f_wr_in_addr \in Transfer \cup {None}
      /\ f_wr_in_data \in CoreBeat \cup {None} /\ rd_addr \in Nat /\ wr_req \in Nat
      /\ f_req_fifo \in Seq(MemReq)
    BY DEF Types, CoreTypes
<1>2. /\ RdIn(ar) \in Transfer \cup {None} /\ WrInAddr(aw) \in Transfer \cup {None}
      /\ WrInData(w) \in CoreBeat \cup {None}
    BY FrontInputs
<1>3. ops' \in Nat /\ coreW' \in Seq(CoreBeat) /\ coreAw' \in Transfer \cup {None}
    BY CoreStep
<1>4. /\ f_rd_in' \in Transfer \cup {None} /\ f_wr_in_addr' \in Transfer \cup {None}
      /\ f_wr_in_data' \in CoreBeat \cup {None}
    BY <1>2 DEF FrontendCycle, FrontendChannels
<1>5. rd_addr' \in Nat /\ wr_req' \in Nat
    <2>1. /\ rd_get_req(ar) => RdIn(ar).addr \in Nat
          /\ wr_get_req(ar, aw) => WrInAddr(aw).addr \in Nat
        BY <1>2 DEF rd_get_req, wr_get_req, Transfer
    <2>2. rd_addr + LineBytes \in Nat /\ wr_req + LineBytes \in Nat
        BY <1>1, LineSize
    <2>3. /\ rd_addr' = IF rd_get_req(ar) THEN RdIn(ar).addr
                        ELSE IF rd_req_send THEN rd_addr + LineBytes ELSE rd_addr
          /\ wr_req' = IF wr_get_req(ar, aw) THEN WrInAddr(aw).addr
                       ELSE IF SendsLine(w) THEN wr_req + LineBytes ELSE wr_req
        BY DEF FrontendCycle, Requests
    <2>. QED BY <1>1, <2>1, <2>2, <2>3
<1>6. cache_wr_req' \in Gathering
    BY <1>2, GatherStep DEF FrontendCycle
<1>7. f_req_fifo' \in Seq(MemReq)
    <2>. DEFINE e == IF rd_req_send
                       THEN [addr |-> rd_addr, write |-> FALSE,
                             data |-> ZeroLine, strb |-> {}]
                       ELSE [addr |-> Aligned(wr_req), write |-> TRUE,
                             data |-> Gathered(w), strb |-> Strobes(w)]
                deq == Moves(f_req_fifo, req_fifo)
                enq == rd_req_send \/ SendsLine(w)
    <2>1. f_req_fifo' = Clocked(f_req_fifo, deq, enq, e)
        BY DEF FrontendCycle, FrontendFifos
    <2>2. enq => e \in MemReq
        <3>1. CASE rd_req_send
            BY <1>1, <3>1 DEF ZeroLine, Line, Value, LineReq, MemReq, IsLineReq
        <3>2. CASE ~rd_req_send /\ SendsLine(w)
            <4>1. Gathered(w) \in Line /\ Strobes(w) \in SUBSET WordIdx
                BY <1>2, <3>2, LineAtHand DEF SendsLine
            <4>2. Aligned(wr_req) \in Nat /\ Aligned(wr_req) % LineBytes = 0
                BY <1>1, AlignedAddress
            <4>. QED BY <3>2, <4>1, <4>2 DEF LineReq, MemReq, IsLineReq
        <3>. QED BY <3>1, <3>2
    <2>3. deq => f_req_fifo # << >>
        BY DEF Moves, EMPTY_N
    <2>4. deq \in BOOLEAN /\ enq \in BOOLEAN
        BY DEF Moves, EMPTY_N, FULL_N, rd_req_send, SendsLine, writes, wr_set_line,
               wr_leftover_data
    <2>. HIDE DEF e, deq, enq
    <2>. QED BY <1>1, <2>1, <2>2, <2>3, <2>4, ClockedFollows DEF Follows
<1>. QED BY <1>3, <1>4, <1>5, <1>6, <1>7 DEF CoreTypes

-----------------------------------------------------------------------------
(***************************************************************************)
(* The rules of the cache: what fires in which state, on what.             *)
(***************************************************************************)
LineReady == cache_mem_rsp \/ writeback_rsp
SendsMem == WriteMiss \/ writeback_rsp \/ send_fill_req
TakesMem == wait_mem_rsp \/ wait_fill_rsp
AsksArray == ReadHit \/ WriteHit \/ Evicts \/ wait_fill_rsp

LEMMA RulesAreBoolean ==
    /\ ReadHit \in BOOLEAN /\ WriteHit \in BOOLEAN /\ ReadMiss \in BOOLEAN
    /\ WriteMiss \in BOOLEAN /\ Evicts \in BOOLEAN /\ LineReady \in BOOLEAN
    /\ SendsMem \in BOOLEAN /\ TakesMem \in BOOLEAN /\ core_req \in BOOLEAN
    /\ wait_fill_rsp \in BOOLEAN
    /\ \A p, q : Moves(p, q) \in BOOLEAN
BY DEF ReadHit, WriteHit, ReadMiss, WriteMiss, Evicts, LineReady, SendsMem,
       TakesMem, core_req, Hit, cache_mem_rsp, writeback_rsp, send_fill_req,
       wait_mem_rsp, wait_fill_rsp, start_miss, EMPTY_N, FULL_N, Moves

\* The request looked up.
LEMMA LookedUp ==
    ASSUME Types, core_req
    PROVE  LET h == Head(req_fifo)
           IN  /\ h \in MemReq /\ h \in LineReq /\ h.addr \in Nat
               /\ h.write \in BOOLEAN /\ h.strb \in SUBSET WordIdx
               /\ Index(h.addr) \in 0 .. Sets - 1 /\ Tag(h.addr) \in 0 .. Tags - 1
               /\ h.write => h.addr % LineBytes = 0
<1>. DEFINE h == Head(req_fifo)
<1>1. req_fifo \in Seq(MemReq) /\ req_fifo # << >>
    BY DEF Types, CacheTypes, core_req, EMPTY_N
<1>2. h \in MemReq
    BY <1>1, NonEmpty
<1>. HIDE DEF h
<1>3. /\ h \in LineReq /\ h.addr \in Nat /\ h.write \in BOOLEAN
      /\ h.strb \in SUBSET WordIdx
      /\ h.write => h.addr % LineBytes = 0
    BY <1>2 DEF MemReq, IsLineReq, LineReq
<1>4. Index(h.addr) \in 0 .. Sets - 1 /\ Tag(h.addr) \in 0 .. Tags - 1
    BY <1>3, AddressParts
<1>. QED BY <1>2, <1>3, <1>4, Zenon DEF h

LEMMA MissParts ==
    ASSUME Types
    PROVE  /\ Victim \in 0 .. Sets - 1 /\ miss_req.addr \in Nat
           /\ Tag(miss_req.addr) \in 0 .. Tags - 1
<1>1. miss_req.addr \in Nat
    BY DEF Types, CacheTypes, LineReq
<1>. QED BY <1>1, AddressParts DEF Victim

LEMMA VictimParts ==
    ASSUME Types, Evicts
    PROVE  /\ VictimAddr \in Nat /\ VictimAddr % LineBytes = 0
           /\ Index(VictimAddr) = Victim /\ dirty_array[Victim] # {}
<1>1. Victim \in 0 .. Sets - 1
    BY MissParts
<1>2. tag_array[Victim] \in 0 .. Tags - 1 /\ dirty_array[Victim] # {}
    BY <1>1 DEF Types, CacheTypes, Evicts
<1>. QED BY <1>1, <1>2, VictimAddress DEF VictimAddr

\* What the cache asks of the line memory.
LEMMA ArrayRequest ==
    ASSUME Types
    PROVE  /\ AsksArray => CacheMemRequest \in LineReq
           /\ ~AsksArray => CacheMemRequest = None
           /\ CacheMemRequest # None <=> AsksArray
<1>. DEFINE e == CacheMemRequest
<1>1. CASE ReadHit \/ WriteHit
    <2>1. e = Head(req_fifo) /\ core_req
        BY <1>1 DEF CacheMemRequest, ReadHit, WriteHit
    <2>. QED BY <1>1, <2>1, LookedUp, NothingIsNothing DEF AsksArray
<1>2. CASE ~(ReadHit \/ WriteHit) /\ Evicts
    <2>1. e = [addr |-> VictimAddr, write |-> FALSE, data |-> ZeroLine, strb |-> {}]
        BY <1>2 DEF CacheMemRequest
    <2>2. VictimAddr \in Nat
        BY <1>2, VictimParts
    <2>3. e \in LineReq
        BY <2>1, <2>2 DEF LineReq, ZeroLine, Line, Value
    <2>. QED BY <1>2, <2>3, NothingIsNothing DEF AsksArray
<1>3. CASE ~(ReadHit \/ WriteHit) /\ ~Evicts /\ wait_fill_rsp
    <2>1. e = [addr |-> miss_req.addr, write |-> TRUE,
               data |-> Head(mem_rsp_fifo), strb |-> WordIdx]
        BY <1>3 DEF CacheMemRequest
    <2>2. mem_rsp_fifo \in Seq(Line) /\ mem_rsp_fifo # << >>
        BY <1>3 DEF Types, CacheTypes, wait_fill_rsp, EMPTY_N
    <2>3. Head(mem_rsp_fifo) \in Line /\ miss_req.addr \in Nat
        BY <2>2, MissParts, NonEmpty
    <2>4. e \in LineReq
        BY <2>1, <2>3 DEF LineReq
    <2>. QED BY <1>3, <2>4, NothingIsNothing DEF AsksArray
<1>4. CASE ~AsksArray
    BY <1>4 DEF CacheMemRequest, AsksArray
<1>. QED BY <1>1, <1>2, <1>3, <1>4 DEF AsksArray

\* What it asks of memory: a whole line if it is a write.
LEMMA MemoryRequest ==
    ASSUME Types, MemInv, SendsMem
    PROVE  MemRequest \in MemReq
<1>. DEFINE e == MemRequest
<1>1. CASE WriteMiss
    BY <1>1, LookedUp DEF MemRequest, WriteMiss
<1>2. CASE ~WriteMiss /\ writeback_rsp
    <2>1. e = [addr |-> wb_addr, write |-> TRUE, data |-> Head(cm_rsp_fifo),
               strb |-> WordIdx]
        BY <1>2 DEF MemRequest
    <2>2. wb_addr \in Nat /\ wb_addr % LineBytes = 0
        BY <1>2 DEF Types, CacheTypes, MemInv, writeback_rsp
    <2>3. cm_rsp_fifo \in Seq(Line) /\ cm_rsp_fifo # << >>
        BY <1>2 DEF Types, ArrayTypes, writeback_rsp, EMPTY_N
    <2>4. Head(cm_rsp_fifo) \in Line
        BY <2>3, NonEmpty
    <2>. QED BY <2>1, <2>2, <2>4 DEF MemReq, IsLineReq, LineReq
<1>3. CASE ~WriteMiss /\ ~writeback_rsp
    <2>1. e = [miss_req EXCEPT !.addr = Aligned(@)]
        BY <1>3 DEF MemRequest
    <2>2. miss_req \in LineReq /\ ~miss_req.write
        BY DEF Types, CacheTypes
    <2>3. Aligned(miss_req.addr) \in Nat
        BY MissParts, AlignedAddress
    <2>. QED BY <2>1, <2>2, <2>3 DEF MemReq, IsLineReq, LineReq
<1>. QED BY <1>1, <1>2, <1>3

\* The fill asks for the line of the miss.
LEMMA FillRequest ==
    ASSUME Types, state = "fill"
    PROVE  ~MemRequest.write /\ MemRequest.addr = Aligned(miss_req.addr)
<1>1. MemRequest = [miss_req EXCEPT !.addr = Aligned(@)]
    BY DEF MemRequest, WriteMiss, writeback_rsp, core_req
<1>2. miss_req \in LineReq /\ ~miss_req.write
    BY DEF Types, CacheTypes
<1>. QED BY <1>1, <1>2 DEF LineReq

(***************************************************************************)
(* The state, one rule at a time.                                          *)
(***************************************************************************)
LEMMA StateStep ==
    ASSUME Types, StateRegisters
    PROVE  /\ state = "idle" =>
                /\ (ReadHit \/ WriteHit) => state' = "access"
                /\ WriteMiss => state' = "waitMem"
                /\ ReadMiss => state' = "miss"
                /\ ~core_req => state' = "idle"
                /\ core_req <=> ReadHit \/ WriteHit \/ ReadMiss \/ WriteMiss
           /\ state = "miss" =>
                /\ Evicts => state' = "readVictim"
                /\ ~Evicts => state' \in {"miss", "fill"}
           /\ state = "readVictim" =>
                state' = IF writeback_rsp THEN "waitMem" ELSE "readVictim"
           /\ state = "waitMem" =>
                state' \in IF wait_mem_rsp THEN {"idle", "fill"} ELSE {"waitMem"}
           /\ state = "fill" =>
                state' = IF send_fill_req THEN "waitFill" ELSE "fill"
           /\ state = "waitFill" =>
                state' = IF wait_fill_rsp THEN "access" ELSE "waitFill"
           /\ state = "access" =>
                state' = IF cache_mem_rsp THEN "idle" ELSE "access"
           /\ ReadHit \/ WriteHit \/ ReadMiss \/ WriteMiss => state = "idle"
           /\ Evicts => state = "miss"
           /\ writeback_rsp => state = "readVictim"
           /\ wait_mem_rsp => state = "waitMem"
           /\ send_fill_req => state = "fill"
           /\ wait_fill_rsp => state = "waitFill"
           /\ cache_mem_rsp => state = "access"
<1>1. state' = NextState
    BY DEF StateRegisters
<1>2. core_req => Head(req_fifo).write \in BOOLEAN
    BY LookedUp
<1>3. /\ core_req <=> ReadHit \/ WriteHit \/ ReadMiss \/ WriteMiss
      /\ ~(ReadHit \/ WriteHit) \/ ~(ReadMiss \/ WriteMiss)
      /\ ~ReadMiss \/ ~WriteMiss
    BY <1>2 DEF ReadHit, WriteHit, ReadMiss, WriteMiss
<1>4. /\ core_req => state = "idle"
      /\ start_miss => state = "miss"
      /\ Evicts => start_miss
      /\ writeback_rsp => state = "readVictim"
      /\ wait_mem_rsp => state = "waitMem"
      /\ send_fill_req => state = "fill"
      /\ wait_fill_rsp => state = "waitFill"
      /\ cache_mem_rsp => state = "access"
    BY DEF core_req, start_miss, Evicts, writeback_rsp, wait_mem_rsp,
           send_fill_req, wait_fill_rsp, cache_mem_rsp
<1>5. state \in {"idle", "access", "miss", "readVictim", "fill", "waitFill",
                 "waitMem"}
    BY DEF Types, CacheTypes
<1>6. CASE state = "idle"
    BY <1>1, <1>3, <1>4, <1>6 DEF NextState
<1>7. CASE state = "miss"
    BY <1>1, <1>3, <1>4, <1>7 DEF NextState
<1>8. CASE state = "readVictim"
    BY <1>1, <1>3, <1>4, <1>8 DEF NextState
<1>9. CASE state = "waitMem"
    BY <1>1, <1>3, <1>4, <1>9 DEF NextState
<1>10. CASE state = "fill"
    BY <1>1, <1>3, <1>4, <1>10 DEF NextState
<1>11. CASE state = "waitFill"
    BY <1>1, <1>3, <1>4, <1>11 DEF NextState
<1>12. CASE state = "access"
    BY <1>1, <1>3, <1>4, <1>12 DEF NextState
<1>. QED BY <1>5, <1>6, <1>7, <1>8, <1>9, <1>10, <1>11, <1>12

-----------------------------------------------------------------------------
(***************************************************************************)
(* Types of cache and line memory.                                         *)
(***************************************************************************)
LEMMA QueueStep ==
    ASSUME NEW T, None \notin T, NEW q \in Seq(T), NEW deq \in BOOLEAN,
           deq => q # << >>, NEW e \in T \cup {None}
    PROVE  Clocked(q, deq, e # None, e) \in Seq(T)
BY ClockedFollows DEF Follows

LEMMA MergedIsLine ==
    ASSUME NEW x \in Line, NEW y \in Line, NEW s
    PROVE  Merge(x, y, s) \in Line
BY DEF Merge, Line

LEMMA ArrayTypesStep ==
    ASSUME ArrayTypes, NEW e \in LineReq \cup {None}, NEW taken \in BOOLEAN,
           taken => cm_rsp_fifo # << >>, CacheMemCycle(e, taken)
    PROVE  ArrayTypes'
<1>1. /\ cm_req_fifo \in Seq(LineReq) /\ cm_rsp_fifo \in Seq(Line)
      /\ cm_state \in {"idle", "read", "write"} /\ cm_req \in LineReq
      /\ prev_line \in Line /\ bram \in [0 .. Sets - 1 -> Line] /\ bram_out \in Line
    BY DEF ArrayTypes
<1>2. handle_req => Head(cm_req_fifo) \in LineReq
    BY <1>1, NonEmpty DEF handle_req, EMPTY_N
<1>3. ASSUME NEW r \in LineReq
      PROVE  Index(r.addr) \in 0 .. Sets - 1 /\ r.data \in Line
    <2>1. r.addr \in Nat /\ r.data \in Line
        BY DEF LineReq
    <2>. QED BY <2>1, AddressParts
<1>4. Merged \in Line
    BY <1>1, <1>3, MergedIsLine DEF Merged
<1>5. cm_state' \in {"idle", "read", "write"}
    BY <1>1 DEF CacheMemCycle
<1>6. cm_req' \in LineReq
    BY <1>1, <1>2 DEF CacheMemCycle
<1>7. bram_out' \in Line
    <2>1. handle_req => bram[Index(Head(cm_req_fifo).addr)] \in Line
        BY <1>1, <1>2, <1>3
    <2>. QED BY <1>1, <2>1 DEF CacheMemCycle
<1>8. prev_line' \in Line /\ bram' \in [0 .. Sets - 1 -> Line]
    <2>1. prev_line' \in Line
        BY <1>1 DEF CacheMemCycle
    <2>2. Index(cm_req.addr) \in 0 .. Sets - 1
        BY <1>1, <1>3
    <2>3. bram' = IF write_data_st
                    THEN [bram EXCEPT ![Index(cm_req.addr)] = Merged] ELSE bram
        BY DEF CacheMemCycle
    <2>. QED BY <1>1, <1>4, <2>1, <2>2, <2>3
<1>9. cm_req_fifo' \in Seq(LineReq)
    <2>1. cm_req_fifo' = Clocked(cm_req_fifo, handle_req, e # None, e)
        BY DEF CacheMemCycle
    <2>2. handle_req \in BOOLEAN /\ (handle_req => cm_req_fifo # << >>)
        BY DEF handle_req, EMPTY_N
    <2>. QED BY <1>1, <2>1, <2>2, QueueStep, NothingIsNothing
<1>10. cm_rsp_fifo' \in Seq(Line)
    <2>. DEFINE enq == (get_rd_rsp /\ ~cm_req.write) \/ write_data_st
                x == IF write_data_st THEN Merged ELSE bram_out
    <2>1. cm_rsp_fifo' = Clocked(cm_rsp_fifo, taken, enq, x)
        BY DEF CacheMemCycle
    <2>2. enq \in BOOLEAN /\ x \in Line
        BY <1>1, <1>4 DEF get_rd_rsp, write_data_st
    <2>. HIDE DEF enq, x
    <2>. QED BY <1>1, <2>1, <2>2, ClockedFollows DEF Follows
<1>. QED BY <1>5, <1>6, <1>7, <1>8, <1>9, <1>10 DEF ArrayTypes

LEMMA CacheTypesStep ==
    ASSUME Types, MemInv, NEW req \in MemReq \cup {None}, NEW taken \in BOOLEAN,
           NEW memTaken \in BOOLEAN, NEW memRsp \in Line \cup {None},
           memTaken => mem_req_fifo # << >>,
           CacheCycle(req, taken, memTaken, memRsp)
    PROVE  CacheTypes' /\ ArrayTypes'
<1>1. /\ req_fifo \in Seq(MemReq) /\ mem_req_fifo \in Seq(MemReq)
      /\ mem_rsp_fifo \in Seq(Line)
      /\ miss_req \in LineReq /\ ~miss_req.write /\ wb_addr \in Nat
      /\ tag_array \in [0 .. Sets - 1 -> (0 .. Tags - 1) \cup {None}]
      /\ dirty_array \in [0 .. Sets - 1 -> SUBSET WordIdx]
    BY DEF Types, CacheTypes
<1>2. ArrayTypes'
    <2>1. CacheMemRequest \in LineReq \cup {None}
        BY ArrayRequest
    <2>2. LineReady \in BOOLEAN /\ (LineReady => cm_rsp_fifo # << >>)
        BY RulesAreBoolean DEF LineReady, cache_mem_rsp, writeback_rsp, EMPTY_N
    <2>. QED BY <2>1, <2>2, ArrayTypesStep DEF CacheCycle, Types, LineReady
<1>3. req_fifo' \in Seq(MemReq)
    <2>1. req_fifo' = Clocked(req_fifo, core_req, req # None, req)
        BY DEF CacheCycle, Fifos
    <2>2. core_req \in BOOLEAN /\ (core_req => req_fifo # << >>)
        BY RulesAreBoolean DEF core_req, EMPTY_N
    <2>. QED BY <1>1, <2>1, <2>2, QueueStep, NothingIsNothing
<1>4. mem_req_fifo' \in Seq(MemReq)
    <2>1. mem_req_fifo' = Clocked(mem_req_fifo, memTaken, SendsMem, MemRequest)
        BY DEF CacheCycle, Fifos, SendsMem
    <2>2. SendsMem \in BOOLEAN /\ (SendsMem => MemRequest \in MemReq)
        BY RulesAreBoolean, MemoryRequest
    <2>. QED BY <1>1, <2>1, <2>2, ClockedFollows DEF Follows
<1>5. mem_rsp_fifo' \in Seq(Line)
    <2>1. mem_rsp_fifo' = Clocked(mem_rsp_fifo, TakesMem, memRsp # None, memRsp)
        BY DEF CacheCycle, Fifos, TakesMem
    <2>2. TakesMem \in BOOLEAN /\ (TakesMem => mem_rsp_fifo # << >>)
        BY RulesAreBoolean DEF TakesMem, wait_mem_rsp, wait_fill_rsp, EMPTY_N
    <2>. QED BY <1>1, <2>1, <2>2, QueueStep, NothingIsNothing
<1>6. state' \in {"idle", "access", "miss", "readVictim", "fill", "waitFill",
                  "waitMem"}
    <2>1. state \in {"idle", "access", "miss", "readVictim", "fill", "waitFill",
                     "waitMem"}
        BY DEF Types, CacheTypes
    <2>. QED BY <2>1 DEF CacheCycle, StateRegisters, NextState
<1>7. miss_req' \in LineReq /\ ~miss_req'.write
    <2>1. ReadMiss => Head(req_fifo) \in LineReq /\ ~Head(req_fifo).write
        BY LookedUp DEF ReadMiss
    <2>. QED BY <1>1, <2>1 DEF CacheCycle, StateRegisters
<1>8. wb_addr' \in Nat
    BY <1>1, VictimParts DEF CacheCycle, StateRegisters
<1>9. tag_array' \in [0 .. Sets - 1 -> (0 .. Tags - 1) \cup {None}]
    <2>1. tag_array' = IF wait_fill_rsp
                         THEN [tag_array EXCEPT ![Victim] = Tag(miss_req.addr)]
                         ELSE tag_array
        BY DEF CacheCycle, TagArray
    <2>. QED BY <1>1, <2>1, MissParts
<1>10. dirty_array' \in [0 .. Sets - 1 -> SUBSET WordIdx]
    <2>1. WriteHit => /\ Index(Head(req_fifo).addr) \in 0 .. Sets - 1
                      /\ Head(req_fifo).strb \in SUBSET WordIdx
        BY LookedUp DEF WriteHit
    <2>2. dirty_array' =
            IF WriteHit THEN
                [dirty_array EXCEPT ![Index(Head(req_fifo).addr)] =
                    @ \cup Head(req_fifo).strb]
            ELSE IF wait_fill_rsp THEN [dirty_array EXCEPT ![Victim] = {}]
            ELSE dirty_array
        BY DEF CacheCycle, DirtyArray, Marked
    <2>3. CASE WriteHit
        BY <1>1, <2>1, <2>2, <2>3
    <2>4. CASE ~WriteHit
        BY <1>1, <2>2, <2>4
    <2>. QED BY <2>3, <2>4
<1>. QED BY <1>2, <1>3, <1>4, <1>5, <1>6, <1>7, <1>8, <1>9, <1>10 DEF CacheTypes

(***************************************************************************)
(* The line memory: a request moves from place to place.                   *)
(***************************************************************************)
LEMMA Singleton ==
    ASSUME NEW T, NEW q \in Seq(T)
    PROVE  /\ Len(q) = 0 <=> q = << >>
           /\ Len(q) = 1 => q # << >> /\ Head(q) = q[1] /\ q[1] \in T /\ q = <<q[1]>>
           /\ \A x \in T : q = <<x>> => Len(q) = 1 /\ q[1] = x /\ Head(q) = x
<1>1. Len(q) = 0 <=> q = << >>
    BY EmptySeq
<1>2. Len(q) = 1 => q # << >> /\ Head(q) = q[1] /\ q[1] \in T
    BY NonEmpty
<1>3. ASSUME Len(q) = 1 PROVE q = <<q[1]>>
    BY <1>3
<1>. QED BY <1>1, <1>2, <1>3

\* A queue that had at most one element.
LEMMA ClockedSingle ==
    ASSUME NEW T, NEW q \in Seq(T), NEW deq \in BOOLEAN, NEW enq \in BOOLEAN,
           NEW e, enq => e \in T
    PROVE  /\ q = << >> /\ ~deq /\ ~enq => Clocked(q, deq, enq, e) = << >>
           /\ q = << >> /\ ~deq /\ enq => Clocked(q, deq, enq, e) = <<e>>
           /\ Len(q) = 1 /\ deq /\ ~enq => Clocked(q, deq, enq, e) = << >>
           /\ ~deq /\ ~enq => Clocked(q, deq, enq, e) = q
<1>1. ASSUME q = << >>, ~deq, enq PROVE Clocked(q, deq, enq, e) = <<e>>
    <2>1. Clocked(q, deq, enq, e) = Append(<< >>, e)
        BY <1>1 DEF Clocked
    <2>. QED BY <2>1
<1>2. ASSUME Len(q) = 1, deq, ~enq PROVE Clocked(q, deq, enq, e) = << >>
    <2>1. Tail(q) \in Seq(T) /\ Len(Tail(q)) = 0
        BY <1>2
    <2>2. Tail(q) = << >>
        BY <2>1, EmptySeq
    <2>. QED BY <1>2, <2>2 DEF Clocked
<1>3. ASSUME ~deq, ~enq PROVE Clocked(q, deq, enq, e) = q
    BY <1>3 DEF Clocked
<1>. QED BY <1>1, <1>2, <1>3

LEMMA ArrayMove ==
    ASSUME ArrayTypes, NEW e \in LineReq \cup {None}, NEW taken \in BOOLEAN,
           CacheMemCycle(e, taken), NEW q \in LineReq
    PROVE  /\ ArrayRests /\ e = None /\ ~taken => ArrayRests' /\ bram' = bram
           /\ ArrayRests /\ e = q /\ ~taken => AtArrayQueue(q)' /\ bram' = bram
           /\ AtArrayQueue(q) /\ e = None /\ ~taken => BeingRead(q)' /\ bram' = bram
           /\ BeingRead(q) /\ e = None /\ ~taken =>
                /\ IF q.write THEN BeingWritten(q)' ELSE ArrayAnswered'
                /\ bram' = bram
           /\ BeingWritten(q) /\ e = None /\ ~taken =>
                /\ ArrayAnswered'
                /\ bram' = [bram EXCEPT ![Index(q.addr)] =
                               Merge(bram[Index(q.addr)], q.data, q.strb)]
           /\ ArrayAnswered /\ e = None =>
                /\ bram' = bram
                /\ IF taken THEN ArrayRests' ELSE ArrayAnswered'
<1>1. cm_req_fifo \in Seq(LineReq) /\ cm_rsp_fifo \in Seq(Line)
      /\ prev_line \in Line /\ bram_out \in Line /\ Merged \in Line
    <2>1. cm_req.data \in Line /\ prev_line \in Line
        BY DEF ArrayTypes, LineReq
    <2>. QED BY <2>1, MergedIsLine DEF ArrayTypes, Merged
<1>. DEFINE enq == (get_rd_rsp /\ ~cm_req.write) \/ write_data_st
            x == IF write_data_st THEN Merged ELSE bram_out
<1>2. /\ cm_req_fifo' = Clocked(cm_req_fifo, handle_req, e # None, e)
      /\ cm_rsp_fifo' = Clocked(cm_rsp_fifo, taken, enq, x)
    BY DEF CacheMemCycle
<1>3. /\ cm_state' = CASE handle_req -> "read"
                       [] get_rd_rsp -> IF cm_req.write THEN "write" ELSE "idle"
                       [] write_data_st -> "idle"
                       [] OTHER -> cm_state
      /\ cm_req' = IF handle_req THEN Head(cm_req_fifo) ELSE cm_req
      /\ bram_out' = IF handle_req THEN bram[Index(Head(cm_req_fifo).addr)]
                                   ELSE bram_out
      /\ prev_line' = IF get_rd_rsp /\ cm_req.write THEN bram_out ELSE prev_line
      /\ bram' = IF write_data_st
                   THEN [bram EXCEPT ![Index(cm_req.addr)] = Merged] ELSE bram
    BY DEF CacheMemCycle
<1>4. enq \in BOOLEAN /\ x \in Line
    BY <1>1 DEF get_rd_rsp, write_data_st
<1>5. /\ handle_req <=> cm_state = "idle" /\ cm_req_fifo # << >>
      /\ get_rd_rsp => cm_state = "read"
      /\ write_data_st => cm_state = "write"
      /\ cm_rsp_fifo = << >> =>
            /\ get_rd_rsp <=> cm_state = "read"
            /\ write_data_st <=> cm_state = "write"
    <2>1. Len(<< >>) = 0
        OBVIOUS
    <2>. QED BY <2>1 DEF handle_req, get_rd_rsp, write_data_st, EMPTY_N, FULL_N
<1>6. /\ cm_req_fifo = << >> /\ ~handle_req /\ e = None => cm_req_fifo' = << >>
      /\ cm_req_fifo = << >> /\ ~handle_req /\ e = q => cm_req_fifo' = <<q>>
      /\ cm_req_fifo = <<q>> /\ handle_req /\ e = None => cm_req_fifo' = << >>
    <2>1. q # None
        BY NothingIsNothing
    <2>2. cm_req_fifo = <<q>> => Len(cm_req_fifo) = 1
        OBVIOUS
    <2>3. (e # None) \in BOOLEAN /\ (e # None => e \in LineReq)
        OBVIOUS
    <2>4. handle_req \in BOOLEAN
        BY DEF handle_req, EMPTY_N
    <2>. DEFINE h == handle_req
                n == e # None
    <2>5. h \in BOOLEAN /\ n \in BOOLEAN /\ (n => e \in LineReq) /\ (n <=> e # None)
        BY <2>3, <2>4
    <2>6. cm_req_fifo' = Clocked(cm_req_fifo, h, n, e)
        BY <1>2
    <2>. HIDE DEF n, h
    <2>7. /\ cm_req_fifo = << >> /\ ~h /\ ~n => cm_req_fifo' = << >>
          /\ cm_req_fifo = << >> /\ ~h /\ n => cm_req_fifo' = <<e>>
          /\ Len(cm_req_fifo) = 1 /\ h /\ ~n => cm_req_fifo' = << >>
        BY <1>1, <2>5, <2>6, ClockedSingle
    <2>. QED BY <2>1, <2>2, <2>5, <2>7 DEF h
<1>7. /\ cm_rsp_fifo = << >> /\ ~taken /\ ~enq => cm_rsp_fifo' = << >>
      /\ cm_rsp_fifo = << >> /\ ~taken /\ enq => Len(cm_rsp_fifo') = 1
      /\ Len(cm_rsp_fifo) = 1 /\ taken /\ ~enq => cm_rsp_fifo' = << >>
      /\ ~taken /\ ~enq => cm_rsp_fifo' = cm_rsp_fifo
    <2>. HIDE DEF enq, x
    <2>1. Len(<<x>>) = 1
        OBVIOUS
    <2>2. /\ cm_rsp_fifo = << >> /\ ~taken /\ ~enq => cm_rsp_fifo' = << >>
          /\ cm_rsp_fifo = << >> /\ ~taken /\ enq => cm_rsp_fifo' = <<x>>
          /\ Len(cm_rsp_fifo) = 1 /\ taken /\ ~enq => cm_rsp_fifo' = << >>
          /\ ~taken /\ ~enq => cm_rsp_fifo' = cm_rsp_fifo
        BY <1>1, <1>2, <1>4, ClockedSingle
    <2>. QED BY <2>1, <2>2
<1>8. enq <=> (get_rd_rsp /\ ~cm_req.write) \/ write_data_st
    OBVIOUS
<1>. HIDE DEF enq, x
<1>9. cm_req_fifo = <<q>> => cm_req_fifo # << >> /\ Head(cm_req_fifo) = q
    <2>1. Len(<<q>>) = 1 /\ Len(<< >>) = 0 /\ Head(<<q>>) = q
        OBVIOUS
    <2>. QED BY <2>1
<1>10. ASSUME ArrayRests, ~taken
       PROVE  /\ e = None => ArrayRests' /\ bram' = bram
              /\ e = q => AtArrayQueue(q)' /\ bram' = bram
    <2>1. ~handle_req /\ ~get_rd_rsp /\ ~write_data_st /\ ~enq
        BY <1>5, <1>8, <1>10 DEF ArrayRests
    <2>. QED BY <1>3, <1>6, <1>7, <1>10, <2>1 DEF ArrayRests, AtArrayQueue
<1>11. ASSUME AtArrayQueue(q), e = None, ~taken
       PROVE  BeingRead(q)' /\ bram' = bram
    <2>1. handle_req /\ ~get_rd_rsp /\ ~write_data_st /\ ~enq
        BY <1>5, <1>8, <1>9, <1>11 DEF AtArrayQueue
    <2>. QED BY <1>3, <1>6, <1>7, <1>9, <1>11, <2>1 DEF BeingRead, AtArrayQueue
<1>12. ASSUME BeingRead(q), e = None, ~taken
       PROVE  /\ IF q.write THEN BeingWritten(q)' ELSE ArrayAnswered'
              /\ bram' = bram
    <2>1. ~handle_req /\ get_rd_rsp /\ ~write_data_st /\ cm_req = q
        BY <1>5, <1>12 DEF BeingRead
    <2>2. enq <=> ~q.write
        BY <1>8, <2>1
    <2>. QED BY <1>3, <1>6, <1>7, <1>12, <2>1, <2>2
             DEF BeingRead, BeingWritten, ArrayAnswered
<1>13. ASSUME BeingWritten(q), e = None, ~taken
       PROVE  /\ ArrayAnswered'
              /\ bram' = [bram EXCEPT ![Index(q.addr)] =
                             Merge(bram[Index(q.addr)], q.data, q.strb)]
    <2>1. ~handle_req /\ ~get_rd_rsp /\ write_data_st /\ cm_req = q /\ enq
        BY <1>5, <1>8, <1>13 DEF BeingWritten
    <2>2. Merged = Merge(bram[Index(q.addr)], q.data, q.strb)
        BY <1>13, <2>1 DEF BeingWritten, Merged
    <2>. QED BY <1>3, <1>6, <1>7, <1>13, <2>1, <2>2 DEF BeingWritten, ArrayAnswered
<1>14. ASSUME ArrayAnswered, e = None
       PROVE  /\ bram' = bram
              /\ IF taken THEN ArrayRests' ELSE ArrayAnswered'
    <2>1. ~handle_req /\ ~get_rd_rsp /\ ~write_data_st /\ ~enq
        BY <1>5, <1>8, <1>14 DEF ArrayAnswered
    <2>. QED BY <1>3, <1>6, <1>7, <1>14, <2>1 DEF ArrayRests, ArrayAnswered
<1>. QED BY <1>10, <1>11, <1>12, <1>13, <1>14

LEMMA ArrayTaken ==
    ASSUME Types, ArrayInv
    PROVE  /\ LineReady => ArrayAnswered /\ ~AsksArray
           /\ AsksArray => ArrayRests
           /\ ArrayRests => ~LineReady
<1>1. /\ LineReady => state \in {"access", "readVictim"} /\ cm_rsp_fifo # << >>
      /\ AsksArray => state \in {"idle", "miss", "waitFill"}
    BY DEF LineReady, cache_mem_rsp, writeback_rsp, EMPTY_N, AsksArray, ReadHit,
           WriteHit, core_req, Evicts, start_miss, wait_fill_rsp
<1>2. ASSUME LineReady PROVE ArrayAnswered /\ ~AsksArray
    BY <1>1, <1>2 DEF ArrayInv, AtArrayQueue, BeingRead, BeingWritten
<1>3. ASSUME AsksArray PROVE ArrayRests
    BY <1>1, <1>3 DEF ArrayInv
<1>. QED BY <1>1, <1>2, <1>3 DEF ArrayRests

LEMMA ArrayStep ==
    ASSUME Types, ArrayInv, StateRegisters,
           CacheMemCycle(CacheMemRequest, LineReady)
    PROVE  ArrayInv'
<1>. DEFINE e == CacheMemRequest
            B == {"access", "readVictim"}
<1>1. /\ ArrayTypes /\ e \in LineReq \cup {None} /\ (e # None <=> AsksArray)
      /\ LineReady \in BOOLEAN /\ CacheMemCycle(e, LineReady) /\ NoReq \in LineReq
    <2>1. NoReq \in LineReq
        BY DEF NoReq, LineReq, ZeroLine, Line, Value
    <2>. QED BY <2>1, ArrayRequest, RulesAreBoolean DEF Types
<1>2. /\ state' \in B <=> AsksArray \/ (state \in B /\ ~LineReady)
      /\ AsksArray => state \notin B
    BY StateStep DEF Types, CacheTypes, AsksArray, LineReady, core_req
<1>. HIDE DEF e
<1>3. CASE AsksArray
    <2>1. e \in LineReq /\ ArrayRests /\ ~LineReady
        BY <1>1, <1>3, ArrayTaken
    <2>2. PICK q \in LineReq : q = e
        BY <2>1
    <2>3. AtArrayQueue(q)'
        BY <1>1, <2>1, <2>2, ArrayMove
    <2>. QED BY <1>2, <1>3, <2>3 DEF ArrayInv
<1>4. CASE ~AsksArray /\ state \notin B
    <2>1. ArrayRests /\ e = None /\ ~LineReady
        BY <1>1, <1>4, ArrayTaken DEF ArrayInv
    <2>2. ArrayRests'
        BY <1>1, <2>1, ArrayMove
    <2>. QED BY <1>2, <1>4, <2>2 DEF ArrayInv
<1>5. CASE ~AsksArray /\ state \in B
    <2>1. e = None
        BY <1>1, <1>5
    <2>2. CASE ArrayAnswered
        <3>1. IF LineReady THEN ArrayRests' ELSE ArrayAnswered'
            BY <1>1, <2>1, <2>2, ArrayMove
        <3>. QED BY <1>2, <1>5, <3>1 DEF ArrayInv
    <2>3. CASE ~ArrayAnswered
        <3>1. ~LineReady
            BY <2>3, ArrayTaken
        <3>2. PICK q \in LineReq : AtArrayQueue(q) \/ BeingRead(q) \/ BeingWritten(q)
            BY <1>5, <2>3 DEF ArrayInv
        <3>3. ArrayAnswered' \/ AtArrayQueue(q)' \/ BeingRead(q)' \/ BeingWritten(q)'
            BY <1>1, <2>1, <3>1, <3>2, ArrayMove
        <3>. QED BY <1>2, <1>5, <3>1, <3>3 DEF ArrayInv
    <2>. QED BY <2>2, <2>3
<1>. QED BY <1>3, <1>4, <1>5

-----------------------------------------------------------------------------
(***************************************************************************)
(* What a line will hold when the request at the array is done.            *)
(***************************************************************************)
Pending(q, i) ==
    IF q.write /\ Index(q.addr) = i THEN Merge(bram[i], q.data, q.strb)
                                    ELSE bram[i]

LEMMA LineIs ==
    ASSUME NEW i \in 0 .. Sets - 1, NEW q \in LineReq
    PROVE  ArrayTypes =>
              /\ ArrayRests \/ ArrayAnswered => LineValue(i) = bram[i]
              /\ AtArrayQueue(q) \/ BeingRead(q) \/ BeingWritten(q) =>
                    LineValue(i) = Pending(q, i)
<1>. SUFFICES ASSUME ArrayTypes
              PROVE  /\ ArrayRests \/ ArrayAnswered => LineValue(i) = bram[i]
                     /\ AtArrayQueue(q) \/ BeingRead(q) \/ BeingWritten(q) =>
                           LineValue(i) = Pending(q, i)
    OBVIOUS
<1>. DEFINE PendingWrites ==
                {k \in DOMAIN AtArray :
                    AtArray[k].write /\ Index(AtArray[k].addr) = i}
            l == CHOOSE k \in PendingWrites : \A m \in PendingWrites : m <= k
<1>1. LineValue(i) = IF PendingWrites = {} THEN bram[i]
                     ELSE Merge(bram[i], AtArray[l].data, AtArray[l].strb)
    BY DEF LineValue
<1>2. ASSUME ArrayRests \/ ArrayAnswered PROVE LineValue(i) = bram[i]
    <2>1. AtArray = << >>
        BY <1>2 DEF AtArray, ArrayRests, ArrayAnswered
    <2>2. PendingWrites = {}
        BY <2>1
    <2>. QED BY <1>1, <2>2
<1>3. ASSUME AtArrayQueue(q) \/ BeingRead(q) \/ BeingWritten(q)
      PROVE  LineValue(i) = Pending(q, i)
    <2>1. AtArray = <<q>>
        <3>1. <<q>> \o << >> = <<q>>
            OBVIOUS
        <3>. QED BY <1>3, <3>1 DEF AtArray, AtArrayQueue, BeingRead, BeingWritten
    <2>2. DOMAIN AtArray = {1} /\ AtArray[1] = q
        BY <2>1
    <2>3. CASE q.write /\ Index(q.addr) = i
        <3>1. PendingWrites = {1}
            BY <2>2, <2>3
        <3>. HIDE DEF PendingWrites
        <3>2. l = 1
            BY <3>1
        <3>. HIDE DEF l
        <3>. QED BY <1>1, <2>2, <2>3, <3>1, <3>2 DEF Pending
    <2>4. CASE ~(q.write /\ Index(q.addr) = i)
        <3>1. PendingWrites = {}
            BY <2>2, <2>4
        <3>. QED BY <1>1, <2>4, <3>1 DEF Pending
    <2>. QED BY <2>3, <2>4
<1>. QED BY <1>2, <1>3

LEMMA LineIsNext ==
    ASSUME NEW i \in 0 .. Sets - 1, NEW q \in LineReq
    PROVE  (ArrayTypes =>
              /\ ArrayRests \/ ArrayAnswered => LineValue(i) = bram[i]
              /\ AtArrayQueue(q) \/ BeingRead(q) \/ BeingWritten(q) =>
                    LineValue(i) = Pending(q, i))'
<1>1. ArrayTypes =>
        /\ ArrayRests \/ ArrayAnswered => LineValue(i) = bram[i]
        /\ AtArrayQueue(q) \/ BeingRead(q) \/ BeingWritten(q) =>
              LineValue(i) = Pending(q, i)
    BY LineIs
<1>. QED BY <1>1, PTL

(***************************************************************************)
(* It changes only when the cache hands the array a write.                 *)
(***************************************************************************)
LEMMA LineStep ==
    ASSUME Types, ArrayInv, ArrayTypes', CacheMemCycle(CacheMemRequest, LineReady),
           NEW i \in 0 .. Sets - 1
    PROVE  LineValue(i)' =
              IF /\ AsksArray /\ CacheMemRequest.write
                 /\ Index(CacheMemRequest.addr) = i
              THEN Merge(LineValue(i), CacheMemRequest.data, CacheMemRequest.strb)
              ELSE LineValue(i)
<1>. DEFINE e == CacheMemRequest
<1>1. /\ ArrayTypes /\ e \in LineReq \cup {None} /\ (e # None <=> AsksArray)
      /\ LineReady \in BOOLEAN /\ CacheMemCycle(e, LineReady) /\ NoReq \in LineReq
    <2>1. NoReq \in LineReq
        BY DEF NoReq, LineReq, ZeroLine, Line, Value
    <2>. QED BY <2>1, ArrayRequest, RulesAreBoolean DEF Types
<1>. HIDE DEF e
<1>2. ASSUME ArrayRests \/ ArrayAnswered PROVE LineValue(i) = bram[i]
    BY <1>1, <1>2, LineIs
<1>3. ASSUME ArrayRests' \/ ArrayAnswered' PROVE LineValue(i)' = bram'[i]
    <2>1. (ArrayRests \/ ArrayAnswered => LineValue(i) = bram[i])'
        BY <1>1, LineIsNext
    <2>. QED BY <1>3, <2>1
<1>4. CASE AsksArray
    <2>1. e \in LineReq /\ ArrayRests /\ ~LineReady
        BY <1>1, <1>4, ArrayTaken
    <2>2. PICK q \in LineReq : q = e
        BY <2>1
    <2>3. AtArrayQueue(q)' /\ bram' = bram
        BY <1>1, <2>1, <2>2, ArrayMove
    <2>4. LineValue(i)' = Pending(q, i)'
        <3>1. (AtArrayQueue(q) => LineValue(i) = Pending(q, i))'
            BY <1>1, LineIsNext
        <3>. QED BY <2>3, <3>1
    <2>5. Pending(q, i)' = Pending(q, i)
        BY <2>3 DEF Pending
    <2>6. LineValue(i) = bram[i]
        BY <1>2, <2>1
    <2>. QED BY <1>4, <2>2, <2>4, <2>5, <2>6 DEF Pending, e
<1>5. ASSUME ~AsksArray, ArrayRests \/ ArrayAnswered
      PROVE  LineValue(i)' = LineValue(i)
    <2>1. e = None
        BY <1>1, <1>5
    <2>2. bram' = bram /\ (ArrayRests' \/ ArrayAnswered')
        <3>1. CASE ArrayRests
            <4>1. ~LineReady
                BY <3>1, ArrayTaken
            <4>. QED BY <1>1, <2>1, <3>1, <4>1, ArrayMove
        <3>2. CASE ArrayAnswered
            BY <1>1, <2>1, <3>2, ArrayMove
        <3>. QED BY <1>5, <3>1, <3>2
    <2>. QED BY <1>2, <1>3, <1>5, <2>2
<1>6. ASSUME ~AsksArray, ~(ArrayRests \/ ArrayAnswered)
      PROVE  LineValue(i)' = LineValue(i)
    <2>1. e = None /\ ~LineReady
        BY <1>1, <1>6, ArrayTaken
    <2>2. PICK q \in LineReq : AtArrayQueue(q) \/ BeingRead(q) \/ BeingWritten(q)
        BY <1>6 DEF ArrayInv
    <2>3. LineValue(i) = Pending(q, i)
        BY <1>1, <2>2, LineIs
    <2>4. LineValue(i)' = Pending(q, i)'
          \/ (LineValue(i)' = bram'[i] /\ ArrayAnswered')
        <3>1. ArrayAnswered' \/ AtArrayQueue(q)' \/ BeingRead(q)' \/ BeingWritten(q)'
            BY <1>1, <2>1, <2>2, ArrayMove
        <3>2. (AtArrayQueue(q) \/ BeingRead(q) \/ BeingWritten(q)
                  => LineValue(i) = Pending(q, i))'
            BY <1>1, LineIsNext
        <3>. QED BY <1>3, <3>1, <3>2
    <2>5. CASE BeingWritten(q)
        <3>1. /\ ArrayAnswered' /\ q.write
              /\ bram' = [bram EXCEPT ![Index(q.addr)] =
                             Merge(bram[Index(q.addr)], q.data, q.strb)]
            BY <1>1, <2>1, <2>5, ArrayMove DEF BeingWritten
        <3>2. LineValue(i)' = bram'[i]
            BY <1>3, <3>1
        <3>3. bram \in [0 .. Sets - 1 -> Line]
            BY <1>1 DEF ArrayTypes
        <3>4. bram'[i] = Pending(q, i)
            BY <3>1, <3>3 DEF Pending
        <3>. QED BY <2>3, <3>2, <3>4
    <2>6. CASE ~BeingWritten(q)
        <3>1. bram' = bram
            BY <1>1, <2>1, <2>2, <2>6, ArrayMove
        <3>2. ArrayAnswered' => ~q.write
            <4>1. CASE AtArrayQueue(q)
                <5>1. BeingRead(q)'
                    BY <1>1, <2>1, <4>1, ArrayMove
                <5>. QED BY <5>1 DEF BeingRead, ArrayAnswered
            <4>2. CASE BeingRead(q)
                <5>1. q.write => BeingWritten(q)'
                    BY <1>1, <2>1, <4>2, ArrayMove
                <5>. QED BY <5>1 DEF BeingWritten, ArrayAnswered
            <4>. QED BY <2>2, <2>6, <4>1, <4>2
        <3>3. Pending(q, i)' = Pending(q, i)
            BY <3>1 DEF Pending
        <3>4. ~q.write => Pending(q, i) = bram[i]
            BY DEF Pending
        <3>. QED BY <2>3, <2>4, <3>1, <3>2, <3>3, <3>4
    <2>. QED BY <2>5, <2>6
<1>. QED BY <1>4, <1>5, <1>6 DEF e

-----------------------------------------------------------------------------
(***************************************************************************)
(* The backend and memory: types.                                          *)
(***************************************************************************)
MemInputs(r, b) ==
    /\ r = None \/ (s_r # << >> /\ r = Head(s_r))
    /\ b = None \/ (s_b > 0 /\ b = "OKAY")

LEMMA WordInWords == ASSUME NEW a \in Nat, NEW k \in Nat PROVE Word(a, k) \in Words
<1>. DEFINE M == Sets * Tags * WPL
            x == (a \div 4) + k
<1>1. M \in Nat \ {0}
    <2>. DEFINE N == Sets * Tags
    <2>1. N \in Nat \ {0}
        BY GeometryAssumption
    <2>. HIDE DEF N
    <2>2. N * WPL \in Nat \ {0}
        BY <2>1, GeometryAssumption
    <2>. QED BY <2>2 DEF N
<1>2. x \in Nat
    OBVIOUS
<1>. HIDE DEF M, x
<1>3. x % M \in 0 .. M - 1
    BY <1>1, <1>2
<1>. QED BY <1>3 DEF M, x, Word, Words

\* The beat send_data makes.
LEMMA SentBeat == ASSUME Types, send_data PROVE W \in WriteBeat
<1>1. b_cnt_burst \in 0 .. Beats - 1 /\ b_req_reg.data \in Line
    BY BeatsPerLine DEF Types, BackendTypes, LineReq, send_data
<1>2. \A j \in 0 .. 1 : 2 * b_cnt_burst + j \in WordIdx
    BY <1>1, BeatsPerLine DEF WordIdx
<1>3. [j \in 0 .. 1 |-> b_req_reg.data[2 * b_cnt_burst + j]] \in [Pair -> Value]
    BY <1>1, <1>2 DEF Line, Pair
<1>4. {j \in 0 .. 1 : 2 * b_cnt_burst + j \in b_req_reg.strb} \in SUBSET Pair
    BY DEF Pair
<1>. QED BY <1>3, <1>4 DEF W, WriteBeat

LEMMA PortTypes ==
    ASSUME Types, NEW r, NEW b, MemInputs(r, b)
    PROVE  /\ RdOut(r) \in ReadBeat \cup {None} /\ WrOut(b) \in {"OKAY", None}
           /\ AR \in Nat \cup {None} /\ AW \in Nat \cup {None}
           /\ W \in WriteBeat \cup {None}
<1>1. /\ b_req_fifo \in Seq(MemReq) /\ b_rd_in \in Nat \cup {None}
      /\ b_wr_in_addr \in Nat \cup {None} /\ b_wr_in_data \in WriteBeat \cup {None}
      /\ b_rd_out \in ReadBeat \cup {None} /\ b_wr_out \in {"OKAY", None}
      /\ s_r \in Seq(ReadBeat) /\ b_req_reg \in LineReq
      /\ b_cnt_burst \in 0 .. Beats
      /\ b_state = "sendData" => b_cnt_burst < Beats
    BY DEF Types, BackendTypes, MemoryTypes
<1>2. RdOut(r) \in ReadBeat \cup {None}
    <2>1. r \in ReadBeat \cup {None}
        BY <1>1, NonEmpty DEF MemInputs
    <2>. QED BY <1>1, <2>1 DEF RdOut
<1>3. WrOut(b) \in {"OKAY", None}
    BY <1>1 DEF MemInputs, WrOut
<1>4. AR \in Nat \cup {None} /\ AW \in Nat \cup {None}
    <2>1. req_rule => Head(b_req_fifo).addr \in Nat
        BY <1>1, NonEmpty DEF req_rule, EMPTY_N, MemReq, LineReq
    <2>. QED BY <1>1, <2>1 DEF AR, AW, StartsRead, StartsWrite
<1>5. W \in WriteBeat \cup {None}
    <2>1. CASE send_data
        BY <2>1, SentBeat
    <2>2. CASE ~send_data
        BY <1>1, <2>2 DEF W
    <2>. QED BY <2>1, <2>2
<1>. QED BY <1>2, <1>3, <1>4, <1>5

LEMMA FilledIsLine ==
    ASSUME Types, NEW r, RdOut(r) \in ReadBeat
    PROVE  Filled(r) \in Line
<1>1. b_line_reg \in Line /\ RdOut(r).data \in [Pair -> Value]
    BY DEF Types, BackendTypes, ReadBeat
<1>2. \A n \in WordIdx : n % 2 \in Pair
    BY BeatsPerLine DEF WordIdx, Pair
<1>. QED BY <1>1, <1>2 DEF Filled, Line

LEMMA LowEndIsLine == ASSUME Types PROVE LowEnd(b_req_reg) \in Line
<1>1. b_req_reg.data \in Line
    BY DEF Types, BackendTypes, LineReq
<1>2. \A n \in WordIdx : n = 0 \/ n - 1 \in WordIdx
    BY BeatsPerLine DEF WordIdx
<1>. QED BY <1>1, <1>2 DEF LowEnd, Line, Value

LEMMA BackendTypesStep ==
    ASSUME Types, NEW req \in MemReq \cup {None}, NEW taken \in BOOLEAN,
           taken => b_rsp_fifo # << >>,
           NEW r, NEW b, MemInputs(r, b), NEW arready, NEW awready, NEW wready,
           BackendCycle(req, taken, arready, r, awready, wready, b)
    PROVE  BackendTypes'
<1>1. /\ b_req_fifo \in Seq(MemReq) /\ b_rsp_fifo \in Seq(Line)
      /\ b_state \in {"idle", "sendData", "read", "waitB"}
      /\ b_req_reg \in LineReq /\ b_line_reg \in Line
      /\ b_line_chunk \in 0 .. Beats - 1
      /\ b_cnt_burst \in 0 .. Beats /\ b_cnt_wr_rsp \in 0 .. 255
      /\ b_wr_rsp_complete \in BOOLEAN
      /\ b_state = "sendData" => b_cnt_burst < Beats
    BY DEF Types, BackendTypes
<1>2. /\ RdOut(r) \in ReadBeat \cup {None} /\ WrOut(b) \in {"OKAY", None}
      /\ AR \in Nat \cup {None} /\ AW \in Nat \cup {None}
      /\ W \in WriteBeat \cup {None}
    BY PortTypes
<1>3. get_rd(r) => Filled(r) \in Line
    BY <1>2, FilledIsLine DEF get_rd
<1>4. req_rule => Head(b_req_fifo) \in LineReq
    BY <1>1, NonEmpty DEF req_rule, EMPTY_N, MemReq
<1>5. /\ b_req_fifo' \in Seq(MemReq) /\ b_rsp_fifo' \in Seq(Line)
    <2>1. b_req_fifo' \in Seq(MemReq)
        <3>1. b_req_fifo' = Clocked(b_req_fifo, req_rule, req # None, req)
            BY DEF BackendCycle, BackendFifos
        <3>2. req_rule \in BOOLEAN /\ (req_rule => b_req_fifo # << >>)
            BY DEF req_rule, EMPTY_N
        <3>. QED BY <1>1, <3>1, <3>2, QueueStep, NothingIsNothing
    <2>2. b_rsp_fifo' \in Seq(Line)
        <3>. DEFINE enq == (get_rd(r) /\ RdOut(r).last) \/ LastAnswer(b)
                    x == IF get_rd(r) /\ RdOut(r).last THEN Filled(r)
                                                       ELSE LowEnd(b_req_reg)
        <3>1. b_rsp_fifo' = Clocked(b_rsp_fifo, taken, enq, x)
            BY DEF BackendCycle, BackendFifos
        <3>2. enq \in BOOLEAN
            BY DEF get_rd, LastAnswer, get_wr_rsp
        <3>3. x \in Line
            BY <1>3, LowEndIsLine
        <3>. HIDE DEF enq, x
        <3>. QED BY <1>1, <3>1, <3>2, <3>3, ClockedFollows DEF Follows
    <2>. QED BY <2>1, <2>2
<1>6. b_state' \in {"idle", "sendData", "read", "waitB"}
    BY <1>1 DEF BackendCycle, BackendState
<1>7. b_req_reg' \in LineReq
    BY <1>1, <1>4 DEF BackendCycle, BackendCounters
<1>8. b_line_reg' \in Line
    <2>1. ZeroLine \in Line
        BY DEF ZeroLine, Line, Value
    <2>. QED BY <1>1, <1>3, <2>1 DEF BackendCycle, BackendCounters
<1>9. b_line_chunk' \in 0 .. Beats - 1
    <2>1. b_line_chunk' = IF StartsRead THEN 0
                          ELSE IF get_rd(r) /\ ~RdOut(r).last
                            THEN (b_line_chunk + 1) % Beats
                          ELSE b_line_chunk
        BY DEF BackendCycle, BackendCounters
    <2>. DEFINE B == Beats
    <2>2. B \in 1 .. 256
        BY BeatsPerLine
    <2>. HIDE DEF B
    <2>3. \A x \in 0 .. B - 1 : (x + 1) % B \in 0 .. B - 1 /\ 0 \in 0 .. B - 1
        BY <2>2
    <2>. QED BY <1>1, <2>1, <2>2, <2>3 DEF B
<1>10. /\ b_cnt_burst' \in 0 .. Beats
       /\ b_state' = "sendData" => b_cnt_burst' < Beats
    <2>1. /\ b_cnt_burst' = IF StartsWrite THEN 0
                            ELSE IF send_data THEN b_cnt_burst + 1
                            ELSE b_cnt_burst
          /\ BackendState(r)
        BY DEF BackendCycle, BackendCounters
    <2>. DEFINE B == Beats
    <2>2. B \in 1 .. 256 /\ tot_burst = B - 1 /\ b_cnt_burst \in 0 .. B
          /\ (b_state = "sendData" => b_cnt_burst < B)
        BY <1>1, BeatsPerLine DEF tot_burst
    <2>. HIDE DEF B
    <2>3. CASE StartsWrite
        BY <2>1, <2>2, <2>3 DEF B
    <2>4. CASE ~StartsWrite /\ send_data
        <3>1. ~StartsRead /\ ~write_done /\ ~get_rd(r) /\ b_state = "sendData"
            BY <2>4 DEF send_data, StartsRead, req_rule, write_done, get_rd
        <3>2. b_state' = IF b_cnt_burst = B - 1 THEN "waitB" ELSE "sendData"
            <4>1. b_state' = IF b_cnt_burst = tot_burst THEN "waitB" ELSE "sendData"
                BY <2>1, <2>4, <3>1 DEF BackendState
            <4>. QED BY <2>2, <4>1
        <3>3. b_cnt_burst' = b_cnt_burst + 1
            BY <2>1, <2>4
        <3>. QED BY <2>2, <3>1, <3>2, <3>3 DEF B
    <2>5. CASE ~StartsWrite /\ ~send_data
        <3>1. b_state' = "sendData" => b_state = "sendData"
            BY <2>1, <2>5 DEF BackendState
        <3>. QED BY <2>1, <2>2, <2>5, <3>1 DEF B
    <2>. QED BY <2>3, <2>4, <2>5
<1>11. b_cnt_wr_rsp' \in 0 .. 255 /\ b_wr_rsp_complete' \in BOOLEAN
    <2>1. /\ b_cnt_wr_rsp' = IF StartsWrite THEN 0
                             ELSE IF get_wr_rsp(b) THEN (b_cnt_wr_rsp + 1) % 256
                             ELSE b_cnt_wr_rsp
          /\ b_wr_rsp_complete' = IF StartsWrite THEN FALSE
                                  ELSE b_wr_rsp_complete \/ LastAnswer(b)
        BY DEF BackendCycle, BackendCounters
    <2>2. \A x \in 0 .. 255 : (x + 1) % 256 \in 0 .. 255
        OBVIOUS
    <2>3. b_cnt_wr_rsp' \in 0 .. 255
        BY <1>1, <2>1, <2>2
    <2>4. LastAnswer(b) \in BOOLEAN
        BY DEF LastAnswer, get_wr_rsp
    <2>. QED BY <1>1, <2>1, <2>3, <2>4
<1>12. /\ b_rd_in' \in Nat \cup {None} /\ b_wr_in_addr' \in Nat \cup {None}
       /\ b_wr_in_data' \in WriteBeat \cup {None}
       /\ b_rd_out' \in ReadBeat \cup {None} /\ b_wr_out' \in {"OKAY", None}
    BY <1>2 DEF BackendCycle, BackendChannels
<1>. QED BY <1>5, <1>6, <1>7, <1>8, <1>9, <1>10, <1>11, <1>12 DEF BackendTypes

LEMMA MemoryTypesStep ==
    ASSUME Types, NEW r, NEW b, MemInputs(r, b), NEW arready, NEW awready,
           NEW wready, Memory(arready, r, awready, wready, b)
    PROVE  MemoryTypes'
<1>1. /\ mem \in [Words -> Value] /\ s_r \in Seq(ReadBeat)
      /\ s_aw \in Nat \cup {None} /\ s_w \in Seq(WriteBeat) /\ s_b \in Nat
    BY DEF Types, MemoryTypes
<1>2. /\ AR \in Nat \cup {None} /\ AW \in Nat \cup {None}
      /\ W \in WriteBeat \cup {None}
    BY PortTypes
<1>3. AR # None => Burst(AR) \in Seq(ReadBeat)
    <2>. SUFFICES ASSUME AR # None PROVE Burst(AR) \in Seq(ReadBeat)
        OBVIOUS
    <2>1. AR \in Nat
        BY <1>2
    <2>2. ASSUME NEW k \in 1 .. Beats
          PROVE  [data |-> [j \in Pair |-> mem[Word(AR, 2 * (k - 1) + j)]],
                  last |-> k = Beats] \in ReadBeat
        <3>1. \A j \in Pair : 2 * (k - 1) + j \in Nat
            BY BeatsPerLine DEF Pair
        <3>2. \A j \in Pair : mem[Word(AR, 2 * (k - 1) + j)] \in Value
            BY <1>1, <2>1, <3>1, WordInWords
        <3>. QED BY <3>2 DEF ReadBeat
    <2>3. Beats \in Nat
        BY BeatsPerLine
    <2>. QED BY <2>2, <2>3 DEF Burst
<1>4. FullBurst => Stored \in [Words -> Value]
    <2>1. ASSUME NEW k \in Words,
                 NEW h, h = {i \in 1 .. Len(s_w) : \E j \in s_w[i].strb :
                                Word(s_aw, 2 * (i - 1) + j) = k}
          PROVE  (IF h = {} THEN mem[k]
                  ELSE LET i == CHOOSE x \in h : TRUE
                           j == CHOOSE y \in s_w[i].strb :
                                   Word(s_aw, 2 * (i - 1) + y) = k
                       IN  s_w[i].data[j]) \in Value
        <3>. DEFINE i == CHOOSE x \in h : TRUE
                    j == CHOOSE y \in s_w[i].strb : Word(s_aw, 2 * (i - 1) + y) = k
        <3>1. CASE h = {}
            BY <1>1, <3>1
        <3>2. CASE h # {}
            <4>1. i \in h
                BY <3>2
            <4>. HIDE DEF i
            <4>2. i \in 1 .. Len(s_w)
                  /\ \E y \in s_w[i].strb : Word(s_aw, 2 * (i - 1) + y) = k
                BY <2>1, <4>1
            <4>3. j \in s_w[i].strb
                BY <4>2
            <4>. HIDE DEF j
            <4>4. s_w[i] \in WriteBeat
                BY <1>1, <4>2
            <4>5. s_w[i].data[j] \in Value
                BY <4>3, <4>4 DEF WriteBeat
            <4>. QED BY <3>2, <4>5 DEF i, j
        <3>. QED BY <3>1, <3>2
    <2>. QED BY <2>1, Zenon DEF Stored
<1>5. mem' \in [Words -> Value]
    BY <1>1, <1>4 DEF Memory
<1>6. s_r' \in Seq(ReadBeat)
    <2>1. r # None => Tail(s_r) \in Seq(ReadBeat)
        BY <1>1 DEF MemInputs
    <2>2. s_r' = IF AR # None /\ arready THEN Burst(AR)
                 ELSE IF r # None /\ b_rd_out = None THEN Tail(s_r) ELSE s_r
        BY DEF Memory
    <2>. QED BY <1>1, <1>3, <2>1, <2>2
<1>7. s_aw' \in Nat \cup {None}
    BY <1>1, <1>2 DEF Memory
<1>8. s_w' \in Seq(WriteBeat)
    <2>1. W # None => Append(s_w, W) \in Seq(WriteBeat)
        BY <1>1, <1>2
    <2>2. s_w' = IF FullBurst THEN << >>
                 ELSE IF W # None /\ wready THEN Append(s_w, W) ELSE s_w
        BY DEF Memory
    <2>. QED BY <1>1, <2>1, <2>2
<1>9. s_b' \in Nat
    <2>1. s_b' = s_b + (IF FullBurst THEN AnswersPerBurst ELSE 0)
                     - (IF b # None /\ b_wr_out = None THEN 1 ELSE 0)
        BY DEF Memory
    <2>2. AnswersPerBurst \in Nat /\ (b # None => s_b > 0)
        BY AnswersAssumption, BeatsPerLine DEF MemInputs
    <2>. QED BY <1>1, <2>1, <2>2
<1>. QED BY <1>5, <1>6, <1>7, <1>8, <1>9 DEF MemoryTypes

-----------------------------------------------------------------------------
(***************************************************************************)
(* The backend and memory: one burst at a time.                            *)
(***************************************************************************)
BackEdge(req, taken, arready, r, awready, wready, b) ==
    /\ MemInputs(r, b)
    /\ BackendCycle(req, taken, arready, r, awready, wready, b)
    /\ Memory(arready, r, awready, wready, b)

Done(r, b) == (get_rd(r) /\ RdOut(r).last) \/ LastAnswer(b)

\* Registers and channels of a burst, one by one.
LEMMA BackRegisters ==
    ASSUME NEW req, NEW taken, NEW arready, NEW r, NEW awready, NEW wready, NEW b,
           BackEdge(req, taken, arready, r, awready, wready, b)
    PROVE  /\ b_rd_in' = IF AR # None /\ arready THEN None ELSE AR
           /\ b_wr_in_addr' = IF AW # None /\ awready THEN None ELSE AW
           /\ b_wr_in_data' = IF W # None /\ wready THEN None ELSE W
           /\ b_rd_out' = IF get_rd(r) THEN None ELSE RdOut(r)
           /\ b_wr_out' = IF get_wr_rsp(b) THEN None ELSE WrOut(b)
           /\ s_r' = IF AR # None /\ arready THEN Burst(AR)
                     ELSE IF r # None /\ b_rd_out = None THEN Tail(s_r) ELSE s_r
           /\ s_aw' = IF AW # None /\ awready THEN AW
                      ELSE IF FullBurst THEN None ELSE s_aw
           /\ s_w' = IF FullBurst THEN << >>
                     ELSE IF W # None /\ wready THEN Append(s_w, W) ELSE s_w
           /\ mem' = IF FullBurst THEN Stored ELSE mem
           /\ s_b' = s_b + (IF FullBurst THEN AnswersPerBurst ELSE 0)
                         - (IF b # None /\ b_wr_out = None THEN 1 ELSE 0)
           /\ arready => s_r = << >>
           /\ awready => s_aw = None
           /\ wready => ~FullBurst
BY DEF BackEdge, BackendCycle, BackendChannels, Memory

LEMMA BackCounters ==
    ASSUME NEW req, NEW taken, NEW arready, NEW r, NEW awready, NEW wready, NEW b,
           BackEdge(req, taken, arready, r, awready, wready, b)
    PROVE  /\ b_req_reg' = IF req_rule THEN Head(b_req_fifo) ELSE b_req_reg
           /\ b_cnt_burst' = IF StartsWrite THEN 0
                             ELSE IF send_data THEN b_cnt_burst + 1
                             ELSE b_cnt_burst
           /\ b_cnt_wr_rsp' = IF StartsWrite THEN 0
                              ELSE IF get_wr_rsp(b) THEN (b_cnt_wr_rsp + 1) % 256
                              ELSE b_cnt_wr_rsp
           /\ b_wr_rsp_complete' = IF StartsWrite THEN FALSE
                                   ELSE b_wr_rsp_complete \/ LastAnswer(b)
           /\ b_line_chunk' = IF StartsRead THEN 0
                              ELSE IF get_rd(r) /\ ~RdOut(r).last
                                     THEN (b_line_chunk + 1) % Beats
                              ELSE b_line_chunk
           /\ b_line_reg' = IF StartsRead THEN ZeroLine
                            ELSE IF get_rd(r) /\ ~RdOut(r).last THEN Filled(r)
                            ELSE b_line_reg
BY DEF BackEdge, BackendCycle, BackendCounters

LEMMA BackState ==
    ASSUME NEW req, NEW taken, NEW arready, NEW r, NEW awready, NEW wready, NEW b,
           BackEdge(req, taken, arready, r, awready, wready, b)
    PROVE  /\ StartsWrite => b_state' = "sendData"
           /\ StartsRead => b_state' = "read"
           /\ b_state = "idle" /\ ~req_rule => b_state' = "idle"
           /\ b_state = "sendData" =>
                b_state' = IF send_data /\ b_cnt_burst = tot_burst
                             THEN "waitB" ELSE "sendData"
           /\ b_state = "waitB" =>
                b_state' = IF b_wr_rsp_complete THEN "idle" ELSE "waitB"
           /\ b_state = "read" =>
                b_state' = IF get_rd(r) /\ RdOut(r).last THEN "idle" ELSE "read"
<1>1. BackendState(r)
    BY DEF BackEdge, BackendCycle
<1>2. /\ req_rule => b_state = "idle"
      /\ StartsWrite => req_rule
      /\ StartsRead => req_rule
      /\ ~StartsWrite \/ ~StartsRead
      /\ send_data => b_state = "sendData"
      /\ write_done <=> b_state = "waitB" /\ b_wr_rsp_complete
      /\ get_rd(r) => b_state = "read"
    BY DEF req_rule, StartsWrite, StartsRead, send_data, write_done, get_rd
<1>3. CASE StartsWrite
    BY <1>1, <1>2, <1>3 DEF BackendState
<1>4. CASE StartsRead
    BY <1>1, <1>2, <1>4 DEF BackendState
<1>5. CASE b_state = "idle" /\ ~StartsWrite /\ ~StartsRead
    BY <1>1, <1>2, <1>5 DEF BackendState
<1>6. CASE b_state = "sendData"
    BY <1>1, <1>2, <1>6 DEF BackendState
<1>7. CASE b_state = "waitB"
    BY <1>1, <1>2, <1>7 DEF BackendState
<1>8. CASE b_state = "read"
    BY <1>1, <1>2, <1>8 DEF BackendState
<1>. QED BY <1>2, <1>3, <1>4, <1>5, <1>6, <1>7, <1>8

(***************************************************************************)
(* At rest, and when a request is taken up.                                *)
(***************************************************************************)
LEMMA RestingPorts ==
    ASSUME Types, BackendRests, NEW r, NEW b, MemInputs(r, b)
    PROVE  /\ RdOut(r) = None /\ WrOut(b) = None /\ r = None /\ b = None
           /\ ~get_rd(r) /\ ~get_wr_rsp(b) /\ ~LastAnswer(b) /\ ~Done(r, b)
           /\ ~send_data /\ W = None /\ ~FullBurst
           /\ ~StartsRead => AR = None
           /\ ~StartsWrite => AW = None
<1>1. r = None /\ b = None
    BY DEF BackendRests, NoRead, NoWrite, NoAnswers, MemInputs
<1>2. RdOut(r) = None /\ WrOut(b) = None
    BY <1>1 DEF BackendRests, NoRead, NoWrite, NoAnswers, RdOut, WrOut
<1>3. ~get_rd(r) /\ ~get_wr_rsp(b) /\ ~LastAnswer(b) /\ ~Done(r, b)
    BY <1>2 DEF get_rd, get_wr_rsp, LastAnswer, Done
<1>4. ~send_data /\ W = None
    BY DEF BackendRests, NoWrite, NoBeats, send_data, W
<1>5. ~FullBurst
    BY DEF BackendRests, NoWrite, FullBurst
<1>6. /\ ~StartsRead => AR = None
      /\ ~StartsWrite => AW = None
    BY DEF BackendRests, NoRead, NoWrite, AR, AW
<1>. QED BY <1>1, <1>2, <1>3, <1>4, <1>5, <1>6

LEMMA RestStep ==
    ASSUME Types, BackendRests, ~req_rule,
           NEW req, NEW taken, NEW arready, NEW r, NEW awready, NEW wready, NEW b,
           BackEdge(req, taken, arready, r, awready, wready, b)
    PROVE  BackendRests' /\ mem' = mem
<1>1. MemInputs(r, b) /\ s_b \in Nat
    BY DEF BackEdge, Types, MemoryTypes
<1>2. ~StartsRead /\ ~StartsWrite
    BY DEF StartsRead, StartsWrite
<1>3. /\ RdOut(r) = None /\ WrOut(b) = None /\ r = None /\ b = None
      /\ ~get_rd(r) /\ ~get_wr_rsp(b) /\ ~LastAnswer(b)
      /\ W = None /\ ~FullBurst /\ AR = None /\ AW = None
    BY <1>1, <1>2, RestingPorts
<1>4. /\ b_rd_in' = None /\ b_rd_out' = None /\ s_r' = s_r
      /\ b_wr_in_addr' = None /\ b_wr_in_data' = None /\ b_wr_out' = None
      /\ s_aw' = s_aw /\ s_w' = s_w /\ mem' = mem
    BY <1>3, BackRegisters
<1>5. s_b' = s_b
    <2>1. s_b' = s_b + (IF FullBurst THEN AnswersPerBurst ELSE 0)
                     - (IF b # None /\ b_wr_out = None THEN 1 ELSE 0)
        BY BackRegisters
    <2>. QED BY <1>1, <1>3, <2>1
<1>6. b_state' = "idle"
    BY BackState DEF BackendRests
<1>. QED BY <1>4, <1>5, <1>6
         DEF BackendRests, NoRead, NoWrite, NoBeats, NoAnswers

LEMMA StartStep ==
    ASSUME Types, BackendRests, req_rule,
           NEW req, NEW taken, NEW arready, NEW r, NEW awready, NEW wready, NEW b,
           BackEdge(req, taken, arready, r, awready, wready, b),
           NEW q \in MemReq, Head(b_req_fifo) = q
    PROVE  /\ IF q.write THEN Writing(q.addr)' ELSE Reading(q.addr)'
           /\ mem' = mem
<1>. DEFINE a == q.addr
<1>1. /\ MemInputs(r, b) /\ s_b \in Nat /\ a \in Nat /\ a # None
      /\ q.write \in BOOLEAN
    BY NothingIsNothing DEF BackEdge, Types, MemoryTypes, MemReq, LineReq
<1>2. /\ RdOut(r) = None /\ WrOut(b) = None /\ r = None /\ b = None
      /\ ~get_rd(r) /\ ~get_wr_rsp(b) /\ ~LastAnswer(b)
      /\ W = None /\ ~FullBurst /\ ~send_data
      /\ ~StartsRead => AR = None
      /\ ~StartsWrite => AW = None
    BY <1>1, RestingPorts
<1>. HIDE DEF a
<1>3. /\ b_rd_out' = None /\ b_wr_in_data' = None /\ b_wr_out' = None
      /\ s_w' = s_w /\ mem' = mem
    BY <1>2, BackRegisters
<1>4. s_b' = s_b
    <2>1. s_b' = s_b + (IF FullBurst THEN AnswersPerBurst ELSE 0)
                     - (IF b # None /\ b_wr_out = None THEN 1 ELSE 0)
        BY BackRegisters
    <2>. QED BY <1>1, <1>2, <2>1
<1>5. /\ s_r = << >> /\ s_aw = None /\ s_w = << >> /\ s_b = 0
    BY DEF BackendRests, NoRead, NoWrite, NoBeats, NoAnswers
<1>6. CASE q.write
    <2>1. StartsWrite /\ ~StartsRead /\ AW = a /\ AR = None
        BY <1>2, <1>6 DEF StartsWrite, StartsRead, AW, a
    <2>2. /\ b_state' = "sendData" /\ b_cnt_burst' = 0 /\ b_cnt_wr_rsp' = 0
          /\ b_wr_rsp_complete' = FALSE
        BY <2>1, BackState, BackCounters
    <2>3. /\ b_rd_in' = None /\ s_r' = s_r
          /\ \/ b_wr_in_addr' = a /\ s_aw' = None
             \/ b_wr_in_addr' = None /\ s_aw' = a
        BY <1>1, <1>2, <1>5, <2>1, BackRegisters
    <2>4. Beats # 0 /\ Len(<< >>) = 0
        BY BeatsPerLine
    <2>5. NoRead' /\ NoAnswers'
        BY <1>3, <1>4, <1>5, <2>3 DEF NoRead, NoAnswers
    <2>6. /\ Len(s_w') + Present(b_wr_in_data') = b_cnt_burst'
          /\ \A k \in 1 .. Len(s_w') : s_w'[k].last <=> k = Beats
        BY <1>3, <1>5, <2>2, <2>4 DEF Present
    <2>7. Sending(a)'
        BY <1>3, <2>2, <2>3, <2>4, <2>5, <2>6 DEF Sending
    <2>. QED BY <1>3, <1>6, <2>7 DEF Writing, a
<1>7. CASE ~q.write
    <2>1. StartsRead /\ ~StartsWrite /\ AR = a /\ AW = None
        BY <1>2, <1>7 DEF StartsWrite, StartsRead, AR, a
    <2>2. b_state' = "read" /\ b_line_chunk' = 0
        BY <2>1, BackState, BackCounters
    <2>3. NoWrite'
        <3>1. b_wr_in_addr' = None /\ s_aw' = s_aw
            BY <1>2, <2>1, BackRegisters
        <3>. QED BY <1>3, <1>4, <1>5, <3>1 DEF NoWrite, NoBeats, NoAnswers
    <2>4. CASE ~arready
        <3>1. b_rd_in' = a /\ s_r' = s_r
            BY <1>2, <2>1, <2>4, BackRegisters
        <3>. QED BY <1>3, <1>5, <1>7, <2>2, <2>3, <3>1 DEF ReadOffered, Reading, a
    <2>5. CASE arready
        <3>1. b_rd_in' = None /\ s_r' = Burst(a)
            BY <1>1, <2>1, <2>5, BackRegisters
        <3>2. Len(s_r') = Beats
              /\ \A k \in 1 .. Beats : s_r'[k] = BeatAt(mem, a, k - 1)
            <4>1. Len(s_r') = Beats
                BY <3>1, BeatsPerLine DEF Burst
            <4>2. ASSUME NEW k \in 1 .. Beats
                  PROVE  s_r'[k] = BeatAt(mem, a, k - 1)
                <5>1. s_r'[k] = [data |-> [j \in Pair |-> mem[Word(a, 2 * (k - 1) + j)]],
                                 last |-> k = Beats]
                    BY <3>1 DEF Burst
                <5>2. k = Beats <=> k - 1 = Beats - 1
                    BY BeatsPerLine
                <5>. QED BY <5>1, <5>2 DEF BeatAt
            <4>. QED BY <4>1, <4>2
        <3>3. \A k \in 1 .. Beats : 0 + k - 1 = k - 1
            OBVIOUS
        <3>4. /\ b_line_chunk' + Len(s_r') = Beats
              /\ \A k \in 1 .. Len(s_r') :
                    s_r'[k] = BeatAt(mem', a, b_line_chunk' + k - 1)
            BY <1>3, <2>2, <3>2, <3>3, BeatsPerLine
        <3>5. \A n \in WordIdx : ~(n < 2 * b_line_chunk')
            BY <2>2 DEF WordIdx
        <3>6. Receiving(a)'
            BY <1>3, <2>2, <2>3, <3>1, <3>4, <3>5 DEF Receiving
        <3>. QED BY <1>3, <1>7, <3>6 DEF Reading, a
    <2>. QED BY <2>4, <2>5
<1>. QED BY <1>1, <1>6, <1>7

(***************************************************************************)
(* A read: the beats that have come are in their places.                   *)
(***************************************************************************)
LEMMA LineOfWords ==
    ASSUME NEW a \in Nat, a % LineBytes = 0,
           NEW l \in Line, \A n \in WordIdx : l[n] = mem[Word(a, n)]
    PROVE  l = LineOf(a)
<1>1. \A n \in WordIdx : Word(a, n) = (Tag(a) * Sets + Index(a)) * WPL + n
    BY WordOfLine DEF Place
<1>. DEFINE m == (Tag(a) * Sets + Index(a)) * WPL
<1>2. \A n \in WordIdx : l[n] = mem[m + n]
    BY <1>1
<1>. HIDE DEF m
<1>3. l = [n \in WordIdx |-> mem[m + n]]
    BY <1>2 DEF Line
<1>. QED BY <1>3 DEF LineOf, MemLine, m

\* The beat at hand, and what it makes of the line.
LEMMA BeatArrives ==
    ASSUME Types, NEW a \in Nat, Receiving(a), NEW r, NEW b, MemInputs(r, b),
           b_rsp_fifo = << >>
    PROVE  /\ r = None => RdOut(r) = None /\ ~get_rd(r)
           /\ r # None =>
                /\ get_rd(r) /\ s_r # << >> /\ RdOut(r) \in ReadBeat
                /\ RdOut(r) = BeatAt(mem, a, b_line_chunk)
                /\ RdOut(r).last <=> b_line_chunk = Beats - 1
                /\ \A n \in WordIdx :
                      n < 2 * (b_line_chunk + 1) => Filled(r)[n] = mem[Word(a, n)]
<1>. DEFINE c == b_line_chunk
<1>1. /\ s_r \in Seq(ReadBeat) /\ c \in 0 .. Beats - 1 /\ b_state = "read"
      /\ b_rd_out = None /\ \A k \in 1 .. Len(s_r) : s_r[k] = BeatAt(mem, a, c + k - 1)
      /\ \A n \in WordIdx : n < 2 * c => b_line_reg[n] = mem[Word(a, n)]
    BY DEF Types, BackendTypes, MemoryTypes, Receiving
<1>. HIDE DEF c
<1>2. RdOut(r) = r
    BY <1>1 DEF RdOut
<1>3. ASSUME r = None PROVE RdOut(r) = None /\ ~get_rd(r)
    BY <1>2, <1>3 DEF get_rd
<1>4. ASSUME r # None
      PROVE  /\ get_rd(r) /\ s_r # << >> /\ r \in ReadBeat
             /\ r = BeatAt(mem, a, c)
    <2>1. s_r # << >> /\ r = Head(s_r)
        BY <1>4 DEF MemInputs
    <2>2. r = s_r[1] /\ r \in ReadBeat /\ Len(s_r) \in Nat /\ Len(s_r) > 0
        BY <1>1, <2>1, NonEmpty
    <2>3. c + 1 - 1 = c /\ 1 \in 1 .. Len(s_r)
        BY <1>1, <2>2, BeatsPerLine
    <2>4. r = BeatAt(mem, a, c)
        BY <1>1, <2>2, <2>3
    <2>5. get_rd(r)
        BY <1>1, <1>2, <1>4 DEF get_rd, FULL_N
    <2>. QED BY <2>1, <2>2, <2>4, <2>5
<1>5. ASSUME r # None, NEW n \in WordIdx, n < 2 * (c + 1)
      PROVE  Filled(r)[n] = mem[Word(a, n)]
    <2>1. Filled(r)[n] = IF n \div 2 = c THEN r.data[n % 2] ELSE b_line_reg[n]
        BY <1>2 DEF Filled, c
    <2>2. n \in Nat /\ c \in Nat /\ n % 2 \in 0 .. 1 /\ n = 2 * (n \div 2) + (n % 2)
          /\ n \div 2 \in Nat
        BY <1>1, BeatsPerLine DEF WordIdx
    <2>3. CASE n \div 2 = c
        <3>1. r.data[n % 2] = mem[Word(a, 2 * c + (n % 2))]
            BY <1>4, <1>5, <2>2 DEF BeatAt, Pair
        <3>2. 2 * c + (n % 2) = n
            BY <2>2, <2>3
        <3>. QED BY <2>1, <2>3, <3>1, <3>2
    <2>4. CASE n \div 2 # c
        <3>1. n < 2 * c
            BY <1>5, <2>2, <2>4
        <3>. QED BY <1>1, <2>1, <2>4, <3>1
    <2>. QED BY <2>3, <2>4
<1>6. ASSUME r # None PROVE r.last <=> c = Beats - 1
    <2>1. BeatAt(mem, a, c).last <=> c = Beats - 1
        BY DEF BeatAt
    <2>2. r = BeatAt(mem, a, c)
        BY <1>4, <1>6
    <2>. QED BY <2>1, <2>2
<1>. QED BY <1>2, <1>3, <1>4, <1>5, <1>6 DEF c

LEMMA ReadingPorts ==
    ASSUME Types, NEW a \in Nat, Reading(a), NEW r, NEW b, MemInputs(r, b)
    PROVE  /\ ~req_rule /\ ~StartsRead /\ ~StartsWrite /\ ~send_data
           /\ b = None /\ ~get_wr_rsp(b) /\ ~LastAnswer(b) /\ WrOut(b) = None
           /\ AW = None /\ W = None /\ ~FullBurst /\ AR = b_rd_in
           /\ NoWrite /\ b_state = "read"
<1>1. NoWrite /\ b_state = "read"
    BY DEF Reading, ReadOffered, Receiving
<1>2. ~req_rule /\ ~StartsRead /\ ~StartsWrite /\ ~send_data
    BY <1>1 DEF req_rule, StartsRead, StartsWrite, send_data
<1>3. b = None /\ WrOut(b) = None
    BY <1>1 DEF NoWrite, NoAnswers, MemInputs, WrOut
<1>4. ~get_wr_rsp(b) /\ ~LastAnswer(b)
    BY <1>3 DEF get_wr_rsp, LastAnswer
<1>5. AW = None /\ W = None /\ ~FullBurst /\ AR = b_rd_in
    BY <1>1, <1>2 DEF NoWrite, NoBeats, AW, W, AR, FullBurst
<1>. QED BY <1>1, <1>2, <1>3, <1>4, <1>5

LEMMA ReadStep ==
    ASSUME Types, NEW a \in Nat, a % LineBytes = 0, Reading(a), b_rsp_fifo = << >>,
           NEW req, NEW taken, NEW arready, NEW r, NEW awready, NEW wready, NEW b,
           BackEdge(req, taken, arready, r, awready, wready, b)
    PROVE  /\ mem' = mem
           /\ ~Done(r, b) => Reading(a)'
           /\ Done(r, b) => /\ BackendRests' /\ get_rd(r) /\ RdOut(r).last
                            /\ Filled(r) = LineOf(a)
<1>1. MemInputs(r, b)
    BY DEF BackEdge
<1>2. /\ ~StartsRead /\ ~StartsWrite /\ ~send_data
      /\ b = None /\ ~get_wr_rsp(b) /\ ~LastAnswer(b) /\ WrOut(b) = None
      /\ AW = None /\ W = None /\ ~FullBurst /\ AR = b_rd_in
      /\ NoWrite /\ b_state = "read"
    BY <1>1, ReadingPorts
<1>3. mem' = mem /\ NoWrite'
    <2>1. /\ b_wr_in_addr' = None /\ b_wr_in_data' = None /\ b_wr_out' = None
          /\ s_aw' = s_aw /\ s_w' = s_w /\ mem' = mem
        BY <1>2, BackRegisters
    <2>2. s_b = 0 /\ s_aw = None /\ s_w = << >>
        BY <1>2 DEF NoWrite, NoBeats, NoAnswers
    <2>3. s_b' = s_b + (IF FullBurst THEN AnswersPerBurst ELSE 0)
                     - (IF b # None /\ b_wr_out = None THEN 1 ELSE 0)
        BY BackRegisters
    <2>4. s_b' = 0
        BY <1>2, <2>2, <2>3
    <2>. QED BY <2>1, <2>2, <2>4 DEF NoWrite, NoBeats, NoAnswers
<1>4. Done(r, b) <=> get_rd(r) /\ RdOut(r).last
    BY <1>2 DEF Done
<1>5. a # None /\ Beats \in Nat \ {0}
    BY NothingIsNothing, BeatsPerLine
<1>6. CASE ReadOffered(a)
    <2>1. /\ b_rd_in = a /\ b_rd_out = None /\ s_r = << >> /\ b_line_chunk = 0
        BY <1>6 DEF ReadOffered
    <2>2. r = None /\ RdOut(r) = None /\ ~get_rd(r)
        BY <1>1, <2>1 DEF MemInputs, RdOut, get_rd
    <2>3. b_rd_out' = None /\ b_state' = "read" /\ b_line_chunk' = 0
        BY <1>2, <2>1, <2>2, BackRegisters, BackState, BackCounters
    <2>4. CASE ~arready
        <3>1. b_rd_in' = a /\ s_r' = << >>
            BY <1>2, <2>1, <2>2, <2>4, BackRegisters
        <3>. QED BY <1>3, <1>4, <2>2, <2>3, <3>1 DEF ReadOffered, Reading
    <2>5. CASE arready
        <3>1. b_rd_in' = None /\ s_r' = Burst(a)
            BY <1>2, <1>5, <2>1, <2>5, BackRegisters
        <3>2. Len(s_r') = Beats
            BY <1>5, <3>1 DEF Burst
        <3>3. ASSUME NEW k \in 1 .. Beats
              PROVE  s_r'[k] = BeatAt(mem, a, k - 1)
            <4>1. s_r'[k] = [data |-> [j \in Pair |-> mem[Word(a, 2 * (k - 1) + j)]],
                             last |-> k = Beats]
                BY <3>1 DEF Burst
            <4>2. k = Beats <=> k - 1 = Beats - 1
                BY <1>5
            <4>. QED BY <4>1, <4>2 DEF BeatAt
        <3>4. \A k \in 1 .. Beats : 0 + k - 1 = k - 1
            OBVIOUS
        <3>5. /\ b_line_chunk' + Len(s_r') = Beats
              /\ \A k \in 1 .. Len(s_r') :
                    s_r'[k] = BeatAt(mem', a, b_line_chunk' + k - 1)
            BY <1>3, <1>5, <2>3, <3>2, <3>3, <3>4
        <3>6. \A n \in WordIdx : ~(n < 2 * b_line_chunk')
            BY <2>3 DEF WordIdx
        <3>7. Receiving(a)'
            BY <1>3, <2>3, <3>1, <3>5, <3>6 DEF Receiving
        <3>. QED BY <1>3, <1>4, <2>2, <3>7 DEF Reading
    <2>. QED BY <2>4, <2>5
<1>7. CASE Receiving(a)
    <2>. DEFINE c == b_line_chunk
    <2>1. /\ s_r \in Seq(ReadBeat) /\ c \in 0 .. Beats - 1
          /\ b_rd_in = None /\ b_rd_out = None /\ c + Len(s_r) = Beats
          /\ \A k \in 1 .. Len(s_r) : s_r[k] = BeatAt(mem, a, c + k - 1)
          /\ \A n \in WordIdx : n < 2 * c => b_line_reg[n] = mem[Word(a, n)]
        BY <1>7 DEF Types, BackendTypes, MemoryTypes, Receiving
    <2>2. /\ r = None => RdOut(r) = None /\ ~get_rd(r)
          /\ r # None =>
                /\ get_rd(r) /\ s_r # << >> /\ RdOut(r) \in ReadBeat
                /\ RdOut(r).last <=> c = Beats - 1
                /\ \A n \in WordIdx :
                      n < 2 * (c + 1) => Filled(r)[n] = mem[Word(a, n)]
        BY <1>1, <1>7, BeatArrives
    <2>3. /\ b_rd_in' = None /\ b_rd_out' = None
          /\ s_r' = IF r # None THEN Tail(s_r) ELSE s_r
        BY <1>2, <2>1, <2>2, BackRegisters
    <2>4. /\ b_line_chunk' = IF r # None /\ c # Beats - 1 THEN (c + 1) % Beats ELSE c
          /\ b_line_reg' = IF r # None /\ c # Beats - 1 THEN Filled(r) ELSE b_line_reg
          /\ b_state' = IF r # None /\ c = Beats - 1 THEN "idle" ELSE "read"
        BY <1>2, <2>2, BackCounters, BackState
    <2>. HIDE DEF c
    <2>8. c \in Nat /\ c <= Beats - 1 /\ Len(s_r) \in Nat /\ c + Len(s_r) = Beats
          /\ Beats \in Nat
        BY <1>5, <2>1
    <2>5. CASE r = None
        <3>1. Receiving(a)'
            BY <1>3, <1>7, <2>2, <2>3, <2>4, <2>5 DEF Receiving, c
        <3>. QED BY <1>3, <1>4, <2>2, <2>5, <3>1 DEF Reading
    <2>6. CASE r # None /\ c = Beats - 1
        <3>1. Len(s_r) = 1 /\ s_r' = Tail(s_r)
            <4>. DEFINE n == Len(s_r)
                        B == Beats
            <4>1. n \in Nat /\ B \in Nat /\ c \in Nat /\ c + n = B /\ c = B - 1
                BY <2>6, <2>8
            <4>. HIDE DEF n, B
            <4>2. n = 1
                BY <4>1
            <4>. QED BY <2>3, <2>6, <4>2 DEF n
        <3>2. Len(s_r') = 0 /\ s_r' \in Seq(ReadBeat)
            BY <2>1, <2>2, <2>6, <3>1, NonEmpty
        <3>3. s_r' = << >>
            BY <3>2, EmptySeq
        <3>4. BackendRests'
            BY <1>3, <2>3, <2>4, <2>6, <3>3 DEF BackendRests, NoRead
        <3>5. \A n \in WordIdx : Filled(r)[n] = mem[Word(a, n)]
            <4>1. \A n \in WordIdx : n < 2 * (c + 1)
                BY <2>6, BeatsPerLine DEF WordIdx
            <4>. QED BY <2>2, <2>6, <4>1
        <3>6. Filled(r) = LineOf(a)
            BY <2>2, <2>6, <3>5, FilledIsLine, LineOfWords
        <3>. QED BY <1>3, <1>4, <2>2, <2>6, <3>4, <3>6
    <2>7. CASE r # None /\ c # Beats - 1
        <3>1. c + 1 \in 0 .. Beats - 1 /\ (c + 1) % Beats = c + 1
            <4>. DEFINE B == Beats
            <4>1. B \in Nat /\ c \in Nat /\ c + 1 <= B - 1
                BY <2>7, <2>8
            <4>. HIDE DEF B
            <4>2. c + 1 \in 0 .. B - 1 /\ (c + 1) % B = c + 1
                BY <4>1
            <4>. QED BY <4>2 DEF B
        <3>2. /\ s_r' = Tail(s_r) /\ Len(s_r') = Len(s_r) - 1
              /\ \A k \in 1 .. Len(s_r) - 1 : s_r'[k] = s_r[k + 1]
            <4>1. s_r # << >> /\ s_r' = Tail(s_r)
                BY <2>2, <2>3, <2>7
            <4>. QED BY <2>1, <4>1, NonEmpty
        <3>3. b_line_chunk' = c + 1 /\ c + 1 + Len(s_r') = Beats
            <4>1. b_line_chunk' = c + 1
                BY <2>4, <2>7, <3>1
            <4>2. Len(s_r') = Len(s_r) - 1
                BY <3>2
            <4>. QED BY <2>8, <4>1, <4>2
        <3>4. ASSUME NEW k \in 1 .. Len(s_r')
              PROVE  s_r'[k] = BeatAt(mem', a, c + 1 + k - 1)
            <4>1. k \in 1 .. Len(s_r) - 1 /\ k + 1 \in 1 .. Len(s_r)
                  /\ c + (k + 1) - 1 = c + 1 + k - 1
                BY <2>1, <3>2
            <4>2. s_r'[k] = s_r[k + 1]
                BY <3>2, <4>1
            <4>3. s_r[k + 1] = BeatAt(mem, a, c + (k + 1) - 1)
                BY <2>1, <4>1
            <4>. QED BY <1>3, <4>1, <4>2, <4>3
        <3>5. \A n \in WordIdx : n < 2 * (c + 1) => b_line_reg'[n] = mem'[Word(a, n)]
            BY <1>3, <2>2, <2>4, <2>7
        <3>6. Receiving(a)'
            BY <1>3, <2>3, <2>4, <2>7, <3>3, <3>4, <3>5 DEF Receiving
        <3>. QED BY <1>3, <1>4, <2>2, <2>7, <3>6 DEF Reading
    <2>. QED BY <2>5, <2>6, <2>7
<1>. QED BY <1>6, <1>7 DEF Reading

-----------------------------------------------------------------------------
(***************************************************************************)
(* A write: the beats that have gone are counted; memory changes at the    *)
(* words of the line only.                                                 *)
(***************************************************************************)
LEMMA StoredElsewhere ==
    ASSUME Types, NEW a \in Nat, a % LineBytes = 0, s_aw = a, Len(s_w) = Beats,
           NEW t \in 0 .. Tags - 1, NEW i \in 0 .. Sets - 1, NEW n \in WordIdx,
           t # Tag(a) \/ i # Index(a)
    PROVE  Stored[Place(t, i, n)] = mem[Place(t, i, n)]
<1>. DEFINE k == Place(t, i, n)
<1>1. k \in Words /\ Tag(a) \in 0 .. Tags - 1 /\ Index(a) \in 0 .. Sets - 1
    BY PlaceParts, AddressParts
<1>2. ASSUME NEW x \in 1 .. Len(s_w), NEW j \in s_w[x].strb
      PROVE  Word(s_aw, 2 * (x - 1) + j) # k
    <2>1. x \in 1 .. Beats /\ s_w[x] \in WriteBeat
        BY NonEmpty DEF Types, MemoryTypes
    <2>2. j \in 0 .. 1
        BY <2>1 DEF WriteBeat, Pair
    <2>. DEFINE m == 2 * (x - 1) + j
    <2>3. m \in WordIdx
        BY <2>1, <2>2, BeatsPerLine DEF WordIdx
    <2>. HIDE DEF m
    <2>4. Word(a, m) = Place(Tag(a), Index(a), m)
        BY <2>3, WordOfLine
    <2>5. Place(Tag(a), Index(a), m) # k
        <3>. SUFFICES ASSUME Place(t, i, n) = Place(Tag(a), Index(a), m)
                      PROVE  FALSE
            OBVIOUS
        <3>1. t = Tag(a) /\ i = Index(a)
            BY <1>1, <2>3, PlaceUnique
        <3>. QED BY <3>1
    <2>. QED BY <2>4, <2>5 DEF m
<1>. HIDE DEF k
<1>3. {x \in 1 .. Len(s_w) :
          \E j \in s_w[x].strb : Word(s_aw, 2 * (x - 1) + j) = k} = {}
    BY <1>2
<1>4. Stored[k] = mem[k]
    BY <1>1, <1>3 DEF Stored
<1>. QED BY <1>4 DEF k

\* Outside the line at an address, memory is as it was.
OthersKept(a) ==
    \A t \in 0 .. Tags - 1, i \in 0 .. Sets - 1, n \in WordIdx :
        t # Tag(a) \/ i # Index(a) => mem'[Place(t, i, n)] = mem[Place(t, i, n)]

LEMMA WritingPorts ==
    ASSUME Types, NEW a \in Nat, Writing(a), NEW r, NEW b, MemInputs(r, b)
    PROVE  /\ ~req_rule /\ ~StartsRead /\ ~StartsWrite
           /\ r = None /\ RdOut(r) = None /\ ~get_rd(r)
           /\ AR = None /\ AW = b_wr_in_addr /\ NoRead
<1>1. /\ NoRead /\ b_wr_out = None
      /\ b_state = "sendData" \/ (b_state = "waitB" /\ ~b_wr_rsp_complete)
    BY DEF Writing, Sending, Answering, NoAnswers
<1>2. ~req_rule /\ ~StartsRead /\ ~StartsWrite
    BY <1>1 DEF req_rule, StartsRead, StartsWrite
<1>3. r = None /\ RdOut(r) = None /\ ~get_rd(r)
    BY <1>1 DEF NoRead, MemInputs, RdOut, get_rd
<1>4. AR = None /\ AW = b_wr_in_addr
    BY <1>1, <1>2 DEF NoRead, AR, AW
<1>. QED BY <1>1, <1>2, <1>3, <1>4

LEMMA WritingRests ==
    ASSUME Types, NEW a \in Nat, Writing(a),
           NEW req, NEW taken, NEW arready, NEW r, NEW awready, NEW wready, NEW b,
           BackEdge(req, taken, arready, r, awready, wready, b)
    PROVE  NoRead'
<1>1. MemInputs(r, b)
    BY DEF BackEdge
<1>2. r = None /\ RdOut(r) = None /\ ~get_rd(r) /\ AR = None /\ NoRead
    BY <1>1, WritingPorts
<1>3. b_rd_in' = None /\ b_rd_out' = None /\ s_r' = s_r
    BY <1>2, BackRegisters
<1>. QED BY <1>2, <1>3 DEF NoRead

LEMMA AnswerStep ==
    ASSUME Types, NEW a \in Nat, Answering(a), b_rsp_fifo = << >>,
           NEW req, NEW taken, NEW arready, NEW r, NEW awready, NEW wready, NEW b,
           BackEdge(req, taken, arready, r, awready, wready, b)
    PROVE  /\ mem' = mem
           /\ ~Done(r, b) => Writing(a)'
           /\ Done(r, b) => BackendRests'
<1>. DEFINE c == b_cnt_wr_rsp
            B == Beats
            got == b # None
<1>1. MemInputs(r, b) /\ Writing(a)
    BY DEF BackEdge, Writing
<1>2. /\ ~req_rule /\ ~StartsRead /\ ~StartsWrite
      /\ r = None /\ RdOut(r) = None /\ ~get_rd(r)
      /\ AR = None /\ AW = b_wr_in_addr
    BY <1>1, WritingPorts
<1>3. /\ NoBeats /\ b_wr_in_addr = None /\ s_aw = None /\ b_wr_out = None
      /\ b_state = "waitB" /\ ~b_wr_rsp_complete
      /\ ~send_data /\ W = None /\ ~FullBurst /\ AW = None
    BY <1>2 DEF Answering, NoBeats, send_data, W, FullBurst
<1>4. /\ WrOut(b) = b
      /\ get_wr_rsp(b) <=> got
      /\ LastAnswer(b) <=> got /\ c = B - 1
      /\ Done(r, b) <=> got /\ c = B - 1
    <2>1. WrOut(b) = b
        BY <1>3 DEF WrOut
    <2>2. get_wr_rsp(b) <=> got
        BY <2>1 DEF get_wr_rsp, FULL_N
    <2>3. LastAnswer(b) <=> got /\ c = B - 1
        BY <2>2 DEF LastAnswer, tot_burst
    <2>. QED BY <1>2, <2>1, <2>2, <2>3 DEF Done
<1>5. /\ b_wr_in_addr' = None /\ b_wr_in_data' = None /\ b_wr_out' = None
      /\ s_aw' = s_aw /\ s_w' = s_w /\ mem' = mem
    BY <1>2, <1>3, <1>4, BackRegisters
<1>6. b_state' = "waitB" /\ (b_wr_rsp_complete' <=> got /\ c = B - 1)
    BY <1>2, <1>3, <1>4, BackState, BackCounters
<1>7. NoRead'
    BY <1>1, WritingRests
<1>8. NoBeats' /\ b_wr_in_addr' = None /\ s_aw' = None
    BY <1>3, <1>5 DEF NoBeats
<1>9. /\ B \in 1 .. 256 /\ c \in Nat /\ c < B /\ s_b \in Nat
      /\ s_b + c = AnswersPerBurst /\ AnswersPerBurst \in 0 .. B
      /\ got => s_b > 0
    <2>1. b_cnt_wr_rsp \in 0 .. 255 /\ s_b \in Nat
        BY DEF Types, BackendTypes, MemoryTypes
    <2>2. b_cnt_wr_rsp < Beats /\ s_b + b_cnt_wr_rsp = AnswersPerBurst
        BY DEF Answering
    <2>3. got => s_b > 0
        BY <1>1 DEF MemInputs
    <2>. HIDE DEF got
    <2>4. b_cnt_wr_rsp \in Nat
        BY <2>1
    <2>. QED BY <2>1, <2>2, <2>3, <2>4, BeatsPerLine, AnswersAssumption
<1>10. s_b' = IF got THEN s_b - 1 ELSE s_b
    <2>1. s_b' = s_b + (IF FullBurst THEN AnswersPerBurst ELSE 0)
                     - (IF b # None /\ b_wr_out = None THEN 1 ELSE 0)
        BY BackRegisters
    <2>. QED BY <1>3, <1>9, <2>1
<1>11. b_cnt_wr_rsp' = IF got THEN (c + 1) % 256 ELSE c
    BY <1>2, <1>4, BackCounters
<1>. HIDE DEF c, B, got
<1>12. CASE got /\ c = B - 1
    <2>1. s_b' = 0
        BY <1>9, <1>10, <1>12
    <2>2. BackendRests'
        BY <1>5, <1>6, <1>7, <1>8, <1>12, <2>1
           DEF BackendRests, NoWrite, NoAnswers
    <2>. QED BY <1>4, <1>5, <1>12, <2>2
<1>13. CASE ~(got /\ c = B - 1)
    <2>1. b_cnt_wr_rsp' < B /\ s_b' + b_cnt_wr_rsp' = AnswersPerBurst
        <3>1. CASE got
            <4>1. c + 1 < B /\ (c + 1) % 256 = c + 1
                BY <1>9, <1>13, <3>1
            <4>. QED BY <1>9, <1>10, <1>11, <3>1, <4>1
        <3>2. CASE ~got
            BY <1>9, <1>10, <1>11, <3>2
        <3>. QED BY <3>1, <3>2
    <2>2. Answering(a)'
        BY <1>5, <1>6, <1>7, <1>8, <1>13, <2>1 DEF Answering, B
    <2>. QED BY <1>4, <1>5, <1>13, <2>2 DEF Writing
<1>. QED BY <1>12, <1>13

\* Beats and answers while the burst goes out.
LEMMA SendingPorts ==
    ASSUME Types, NEW a \in Nat, Sending(a), NEW r, NEW b, MemInputs(r, b)
    PROVE  /\ b = None /\ WrOut(b) = None /\ ~get_wr_rsp(b) /\ ~LastAnswer(b)
           /\ ~Done(r, b)
<1>1. s_b = 0 /\ b_wr_out = None /\ Writing(a)
    BY DEF Sending, NoAnswers, Writing
<1>2. b = None /\ WrOut(b) = None
    BY <1>1 DEF MemInputs, WrOut
<1>3. ~get_wr_rsp(b) /\ ~LastAnswer(b)
    BY <1>2 DEF get_wr_rsp, LastAnswer
<1>. QED BY <1>1, <1>2, <1>3, WritingPorts DEF Done

LEMMA SendStep ==
    ASSUME Types, NEW a \in Nat, a % LineBytes = 0, Sending(a),
           NEW req, NEW taken, NEW arready, NEW r, NEW awready, NEW wready, NEW b,
           BackEdge(req, taken, arready, r, awready, wready, b)
    PROVE  OthersKept(a) /\ ~Done(r, b) /\ Writing(a)'
<1>. DEFINE c == b_cnt_burst
            B == Beats
            n == Len(s_w)
            x == b_wr_in_data
<1>1. MemInputs(r, b) /\ Writing(a)
    BY DEF BackEdge, Writing
<1>2. /\ ~StartsRead /\ ~StartsWrite /\ AW = b_wr_in_addr
      /\ b = None /\ WrOut(b) = None /\ ~get_wr_rsp(b) /\ ~LastAnswer(b)
      /\ ~Done(r, b) /\ NoRead'
    BY <1>1, WritingPorts, SendingPorts, WritingRests
<1>3. /\ b_cnt_wr_rsp = 0 /\ ~b_wr_rsp_complete
      /\ b_state = IF c = B THEN "waitB" ELSE "sendData"
      /\ \/ b_wr_in_addr = a /\ s_aw = None
         \/ b_wr_in_addr = None /\ s_aw = a
      /\ n + Present(x) = c
      /\ x # None => (x.last <=> c = B)
      /\ \A k \in 1 .. n : s_w[k].last <=> k = B
      /\ s_b = 0
    BY DEF Sending, NoAnswers
<1>4. /\ B \in 1 .. 256 /\ c \in 0 .. B /\ s_w \in Seq(WriteBeat) /\ n \in Nat
      /\ W \in WriteBeat \cup {None} /\ a # None
      /\ Present(x) \in {0, 1} /\ (x = None <=> Present(x) = 0)
    BY <1>1, BeatsPerLine, PortTypes, NothingIsNothing, NonEmpty
       DEF Types, BackendTypes, MemoryTypes, Present
<1>5. b_cnt_wr_rsp' = 0 /\ b_wr_rsp_complete' = FALSE /\ b_wr_out' = None
    BY <1>2, <1>3, BackCounters, BackRegisters DEF Types, BackendTypes
<1>6. s_b' = IF FullBurst THEN AnswersPerBurst ELSE 0
    <2>1. s_b' = s_b + (IF FullBurst THEN AnswersPerBurst ELSE 0)
                     - (IF b # None /\ b_wr_out = None THEN 1 ELSE 0)
        BY BackRegisters
    <2>2. AnswersPerBurst \in Nat
        BY AnswersAssumption, BeatsPerLine
    <2>. QED BY <1>2, <1>3, <2>1, <2>2
<1>7. CASE FullBurst
    <2>1. s_aw # None /\ s_w # << >> /\ s_w[n].last
        BY <1>7 DEF FullBurst
    <2>2. n \in 1 .. n
        BY <1>4, <2>1, NonEmpty
    <2>3. n = B
        BY <1>3, <2>1, <2>2
    <2>4. c = B /\ x = None
        <3>. HIDE DEF c, B, n, x
        <3>. QED BY <1>3, <1>4, <2>3
    <2>5. /\ s_aw = a /\ b_wr_in_addr = None /\ b_state = "waitB"
          /\ ~send_data /\ W = None /\ AW = None
        <3>1. s_aw = a /\ b_wr_in_addr = None /\ b_state = "waitB"
            BY <1>3, <2>1, <2>4
        <3>. QED BY <1>2, <2>4, <3>1 DEF send_data, W
    <2>6. /\ b_wr_in_addr' = None /\ b_wr_in_data' = None /\ s_aw' = None
          /\ s_w' = << >> /\ mem' = Stored
        BY <1>7, <2>5, BackRegisters
    <2>7. b_state' = "waitB"
        BY <1>3, <2>5, BackState
    <2>8. s_b' + b_cnt_wr_rsp' = AnswersPerBurst /\ b_cnt_wr_rsp' < Beats
        BY <1>4, <1>5, <1>6, <1>7, AnswersAssumption
    <2>9. Answering(a)'
        BY <1>2, <1>5, <2>6, <2>7, <2>8 DEF Answering, NoBeats
    <2>10. OthersKept(a)
        BY <2>3, <2>5, <2>6, StoredElsewhere DEF OthersKept
    <2>. QED BY <1>2, <2>9, <2>10 DEF Writing
<1>8. CASE ~FullBurst
    <2>1. /\ b_wr_in_addr' = IF AW # None /\ awready THEN None ELSE AW
          /\ b_wr_in_data' = IF W # None /\ wready THEN None ELSE W
          /\ s_aw' = IF AW # None /\ awready THEN AW ELSE s_aw
          /\ s_w' = IF W # None /\ wready THEN Append(s_w, W) ELSE s_w
          /\ mem' = mem
        BY <1>8, BackRegisters
    <2>2. \/ b_wr_in_addr' = a /\ s_aw' = None
          \/ b_wr_in_addr' = None /\ s_aw' = a
        BY <1>2, <1>3, <1>4, <2>1
    <2>3. OthersKept(a)
        BY <2>1 DEF OthersKept
    <2>4. NoAnswers'
        BY <1>5, <1>6, <1>8 DEF NoAnswers
    \* The beat offered is the last exactly if it completes the burst.
    <2>. DEFINE d == b_cnt_burst'
    <2>5. /\ d \in 0 .. B /\ (W # None => (W.last <=> d = B))
          /\ n + Present(W) = d
          /\ b_state' = IF d = B THEN "waitB" ELSE "sendData"
        <3>1. CASE send_data
            <4>1. b_state = "sendData" /\ x = None
                BY <3>1 DEF send_data
            <4>2. c # B
                BY <1>3, <4>1
            <4>3. d = c + 1
                BY <1>2, <3>1, BackCounters
            <4>4. W # None /\ W.last = (c = B - 1)
                <5>1. W = [data |-> [j \in 0 .. 1 |-> b_req_reg.data[2 * c + j]],
                           strb |-> {j \in 0 .. 1 : 2 * c + j \in b_req_reg.strb},
                           last |-> c = tot_burst]
                    BY <3>1 DEF W
                <5>2. W.last = (c = B - 1)
                    BY <5>1 DEF tot_burst
                <5>3. W \in WriteBeat
                    BY <3>1, SentBeat
                <5>. QED BY <5>2, <5>3, NothingIsNothing
            <4>5. b_state' = IF c = B - 1 THEN "waitB" ELSE "sendData"
                BY <3>1, <4>1, BackState DEF tot_burst
            <4>6. Present(W) = 1 /\ Present(x) = 0
                BY <4>1, <4>4 DEF Present
            <4>. HIDE DEF c, B, n, x, d
            <4>7. d \in 0 .. B /\ (d = B <=> c = B - 1) /\ n + 1 = d
                BY <1>3, <1>4, <4>2, <4>3, <4>6
            <4>. QED BY <4>4, <4>5, <4>6, <4>7
        <3>2. CASE ~send_data
            <4>1. d = c /\ W = x
                BY <1>2, <3>2, BackCounters DEF W
            <4>2. b_state' = b_state
                BY <1>2, <1>3, <3>2, BackState
            <4>. QED BY <1>3, <1>4, <4>1, <4>2
        <3>. QED BY <3>1, <3>2
    <2>6. /\ Len(s_w') + Present(b_wr_in_data') = d
          /\ b_wr_in_data' # None => (b_wr_in_data'.last <=> d = B)
          /\ \A k \in 1 .. Len(s_w') : s_w'[k].last <=> k = B
        <3>1. CASE W # None /\ wready
            <4>1. s_w' = Append(s_w, W) /\ b_wr_in_data' = None /\ W \in WriteBeat
                BY <1>4, <2>1, <3>1
            <4>2. /\ Len(s_w') = n + 1 /\ s_w'[n + 1] = W
                  /\ \A k \in 1 .. n : s_w'[k] = s_w[k]
                BY <1>4, <4>1
            <4>3. Present(W) = 1 /\ Present(b_wr_in_data') = 0
                BY <3>1, <4>1 DEF Present
            <4>4. n + 1 = d /\ (W.last <=> d = B)
                BY <2>5, <3>1, <4>3
            <4>. HIDE DEF c, B, n, x, d
            <4>5. \A k \in 1 .. n + 1 : k = n + 1 \/ k \in 1 .. n
                BY <1>4
            <4>6. \A k \in 1 .. n + 1 : s_w'[k].last <=> k = B
                BY <1>3, <4>2, <4>4, <4>5
            <4>7. d + 0 = d
                BY <1>4, <4>4
            <4>. QED BY <4>1, <4>2, <4>3, <4>4, <4>6, <4>7
        <3>2. CASE ~(W # None /\ wready)
            <4>1. s_w' = s_w /\ b_wr_in_data' = W
                BY <2>1, <3>2
            <4>. QED BY <1>3, <2>5, <4>1
        <3>. QED BY <3>1, <3>2
    <2>7. Sending(a)'
        BY <1>2, <1>5, <2>2, <2>4, <2>5, <2>6 DEF Sending
    <2>. QED BY <1>2, <2>3, <2>7 DEF Writing
<1>. QED BY <1>7, <1>8

LEMMA WriteStep ==
    ASSUME Types, NEW a \in Nat, a % LineBytes = 0, Writing(a), b_rsp_fifo = << >>,
           NEW req, NEW taken, NEW arready, NEW r, NEW awready, NEW wready, NEW b,
           BackEdge(req, taken, arready, r, awready, wready, b)
    PROVE  /\ OthersKept(a)
           /\ ~Done(r, b) => Writing(a)'
           /\ Done(r, b) => BackendRests'
<1>1. CASE Sending(a)
    BY <1>1, SendStep
<1>2. CASE Answering(a)
    BY <1>2, AnswerStep DEF OthersKept
<1>. QED BY <1>1, <1>2 DEF Writing

-----------------------------------------------------------------------------
(***************************************************************************)
(* The request at memory moves from place to place.                        *)
(***************************************************************************)
MemEdge(req, taken, arready, r, awready, wready, b) ==
    /\ CacheCycle(req, taken, Moves(mem_req_fifo, b_req_fifo),
                  Passed(b_rsp_fifo, mem_rsp_fifo))
    /\ BackEdge(Passed(mem_req_fifo, b_req_fifo),
                Moves(b_rsp_fifo, mem_rsp_fifo),
                arready, r, awready, wready, b)

LEMMA QueueEdges ==
    ASSUME NEW req, NEW taken, NEW arready, NEW r, NEW awready, NEW wready, NEW b,
           MemEdge(req, taken, arready, r, awready, wready, b)
    PROVE  /\ mem_req_fifo' = Clocked(mem_req_fifo, Moves(mem_req_fifo, b_req_fifo),
                                      SendsMem, MemRequest)
           /\ b_req_fifo' = Clocked(b_req_fifo, req_rule,
                                    Passed(mem_req_fifo, b_req_fifo) # None,
                                    Passed(mem_req_fifo, b_req_fifo))
           /\ b_rsp_fifo' = Clocked(b_rsp_fifo, Moves(b_rsp_fifo, mem_rsp_fifo),
                                    Done(r, b),
                                    IF get_rd(r) /\ RdOut(r).last
                                      THEN Filled(r) ELSE LowEnd(b_req_reg))
           /\ mem_rsp_fifo' = Clocked(mem_rsp_fifo, TakesMem,
                                      Passed(b_rsp_fifo, mem_rsp_fifo) # None,
                                      Passed(b_rsp_fifo, mem_rsp_fifo))
BY DEF MemEdge, BackEdge, CacheCycle, Fifos, BackendCycle, BackendFifos, SendsMem,
       TakesMem, Done

\* A queue p that hands on to a queue q, with one element in both at most.
LEMMA HandedOn ==
    ASSUME NEW T, None \notin T, NEW p \in Seq(T), NEW q \in Seq(T),
           Len(p) + Len(q) <= 1, NEW enq \in BOOLEAN, NEW deq \in BOOLEAN,
           deq => q # << >>, NEW e, enq => e \in T
    PROVE  /\ p = << >> =>
                /\ Clocked(p, Moves(p, q), enq, e) = IF enq THEN <<e>> ELSE << >>
                /\ Clocked(q, deq, Passed(p, q) # None, Passed(p, q))
                     = IF deq THEN << >> ELSE q
           /\ Len(p) = 1 =>
                /\ ~enq => Clocked(p, Moves(p, q), enq, e) = << >>
                /\ Clocked(q, deq, Passed(p, q) # None, Passed(p, q)) = p
<1>1. /\ Len(p) \in Nat /\ Len(q) \in Nat
      /\ (p = << >> <=> Len(p) = 0) /\ (q = << >> <=> Len(q) = 0)
      /\ Len(p) = 1 => Head(p) \in T /\ p = <<Head(p)>>
    BY NonEmpty, Singleton
<1>2. ASSUME p = << >>
      PROVE  /\ Clocked(p, Moves(p, q), enq, e) = IF enq THEN <<e>> ELSE << >>
             /\ Clocked(q, deq, Passed(p, q) # None, Passed(p, q))
                  = IF deq THEN << >> ELSE q
    <2>1. Moves(p, q) = FALSE /\ Passed(p, q) = None
        BY <1>2 DEF Moves, Passed, EMPTY_N
    <2>2. (Passed(p, q) # None) = FALSE
        BY <2>1
    <2>3. Clocked(p, FALSE, enq, e) = IF enq THEN <<e>> ELSE << >>
        <3>1. CASE enq
            BY <1>2, <3>1, ClockedSingle
        <3>2. CASE ~enq
            BY <1>2, <3>2 DEF Clocked
        <3>. QED BY <3>1, <3>2
    <2>4. Clocked(q, deq, FALSE, Passed(p, q)) = IF deq THEN << >> ELSE q
        <3>1. CASE deq
            <4>1. Len(q) = 1 /\ Tail(q) = << >>
                <5>. DEFINE n == Len(q)
                            m == Len(p)
                <5>3. n \in Nat /\ m \in Nat /\ n # 0 /\ m + n <= 1
                    BY <1>1, <3>1
                <5>. HIDE DEF n, m
                <5>4. n = 1
                    BY <5>3
                <5>1. Len(q) = 1
                    BY <5>4 DEF n
                <5>2. Tail(q) \in Seq(T) /\ Len(Tail(q)) = 0
                    BY <3>1, <5>1
                <5>. QED BY <5>1, <5>2, NonEmpty
            <4>. QED BY <3>1, <4>1 DEF Clocked
        <3>2. CASE ~deq
            BY <3>2 DEF Clocked
        <3>. QED BY <3>1, <3>2
    <2>. QED BY <2>1, <2>2, <2>3, <2>4
<1>3. ASSUME Len(p) = 1
      PROVE  /\ ~enq => Clocked(p, Moves(p, q), enq, e) = << >>
             /\ Clocked(q, deq, Passed(p, q) # None, Passed(p, q)) = p
    <2>1. q = << >> /\ ~deq /\ p # << >> /\ Len(q) < 2
        BY <1>1, <1>3
    <2>2. Moves(p, q) = TRUE /\ Passed(p, q) = Head(p)
        BY <2>1 DEF Moves, Passed, EMPTY_N, FULL_N
    <2>3. (Passed(p, q) # None) = TRUE
        BY <1>1, <1>3, <2>2
    <2>4. Clocked(q, FALSE, TRUE, Head(p)) = <<Head(p)>>
        BY <2>1 DEF Clocked
    <2>5. ASSUME ~enq PROVE Clocked(p, TRUE, FALSE, e) = << >>
        <3>1. Tail(p) \in Seq(T) /\ Len(Tail(p)) = 0
            BY <1>3, <2>1
        <3>2. Tail(p) = << >>
            BY <3>1, NonEmpty
        <3>. QED BY <3>2 DEF Clocked
    <2>6. deq = FALSE /\ (~enq => enq = FALSE)
        BY <2>1
    <2>. QED BY <1>1, <1>3, <2>2, <2>3, <2>4, <2>5, <2>6
<1>. QED BY <1>2, <1>3

\* The queues to memory and back, with one element in all at most.
LEMMA QueueMoves ==
    ASSUME Types, NEW req, NEW taken, NEW arready, NEW r, NEW awready, NEW wready,
           NEW b, MemEdge(req, taken, arready, r, awready, wready, b),
           Len(mem_req_fifo) + Len(b_req_fifo) <= 1,
           Len(b_rsp_fifo) + Len(mem_rsp_fifo) <= 1,
           NEW q \in MemReq, SendsMem => MemRequest = q
    PROVE  /\ mem_req_fifo = << >> =>
                /\ mem_req_fifo' = IF SendsMem THEN <<q>> ELSE << >>
                /\ b_req_fifo' = IF req_rule THEN << >> ELSE b_req_fifo
           /\ Len(mem_req_fifo) = 1 =>
                /\ ~SendsMem => mem_req_fifo' = << >>
                /\ b_req_fifo' = mem_req_fifo
           /\ b_rsp_fifo = << >> =>
                /\ b_rsp_fifo' = IF Done(r, b)
                                   THEN << IF get_rd(r) /\ RdOut(r).last
                                             THEN Filled(r)
                                             ELSE LowEnd(b_req_reg) >>
                                   ELSE << >>
                /\ mem_rsp_fifo' = IF TakesMem THEN << >> ELSE mem_rsp_fifo
           /\ Len(b_rsp_fifo) = 1 =>
                /\ ~Done(r, b) => b_rsp_fifo' = << >>
                /\ mem_rsp_fifo' = b_rsp_fifo
<1>1. /\ mem_req_fifo \in Seq(MemReq) /\ b_req_fifo \in Seq(MemReq)
      /\ b_rsp_fifo \in Seq(Line) /\ mem_rsp_fifo \in Seq(Line)
    BY DEF Types, CacheTypes, BackendTypes
<1>2. /\ SendsMem \in BOOLEAN /\ TakesMem \in BOOLEAN /\ req_rule \in BOOLEAN
      /\ Done(r, b) \in BOOLEAN
      /\ req_rule => b_req_fifo # << >>
      /\ TakesMem => mem_rsp_fifo # << >>
    BY RulesAreBoolean
       DEF req_rule, Done, LastAnswer, get_rd, get_wr_rsp, EMPTY_N, TakesMem,
           wait_mem_rsp, wait_fill_rsp
<1>. DEFINE x == IF get_rd(r) /\ RdOut(r).last THEN Filled(r) ELSE LowEnd(b_req_reg)
<1>3. Done(r, b) => x \in Line
    <2>1. MemInputs(r, b)
        BY DEF MemEdge, BackEdge
    <2>2. get_rd(r) => RdOut(r) \in ReadBeat
        BY <2>1, PortTypes DEF get_rd
    <2>. QED BY <2>2, FilledIsLine, LowEndIsLine
<1>4. SendsMem => MemRequest \in MemReq
    OBVIOUS
<1>5. None \notin MemReq /\ None \notin Line
    BY NothingIsNothing
<1>6. /\ mem_req_fifo' = Clocked(mem_req_fifo, Moves(mem_req_fifo, b_req_fifo),
                                 SendsMem, MemRequest)
      /\ b_req_fifo' = Clocked(b_req_fifo, req_rule,
                               Passed(mem_req_fifo, b_req_fifo) # None,
                               Passed(mem_req_fifo, b_req_fifo))
      /\ b_rsp_fifo' = Clocked(b_rsp_fifo, Moves(b_rsp_fifo, mem_rsp_fifo),
                               Done(r, b), x)
      /\ mem_rsp_fifo' = Clocked(mem_rsp_fifo, TakesMem,
                                 Passed(b_rsp_fifo, mem_rsp_fifo) # None,
                                 Passed(b_rsp_fifo, mem_rsp_fifo))
    BY QueueEdges
<1>. HIDE DEF x
<1>7. /\ mem_req_fifo = << >> =>
            /\ mem_req_fifo' = IF SendsMem THEN <<MemRequest>> ELSE << >>
            /\ b_req_fifo' = IF req_rule THEN << >> ELSE b_req_fifo
      /\ Len(mem_req_fifo) = 1 =>
            /\ ~SendsMem => mem_req_fifo' = << >>
            /\ b_req_fifo' = mem_req_fifo
    BY <1>1, <1>2, <1>4, <1>5, <1>6, HandedOn
<1>8. /\ b_rsp_fifo = << >> =>
            /\ b_rsp_fifo' = IF Done(r, b) THEN <<x>> ELSE << >>
            /\ mem_rsp_fifo' = IF TakesMem THEN << >> ELSE mem_rsp_fifo
      /\ Len(b_rsp_fifo) = 1 =>
            /\ ~Done(r, b) => b_rsp_fifo' = << >>
            /\ mem_rsp_fifo' = b_rsp_fifo
    BY <1>1, <1>2, <1>3, <1>5, <1>6, HandedOn
<1>. QED BY <1>7, <1>8 DEF x

(***************************************************************************)
(* From rest to memory, through the burst and back.                        *)
(***************************************************************************)
LEMMA QueuesShort ==
    ASSUME Types, NEW m \in 0 .. 1, NEW n \in 0 .. 1, NEW bs \in 0 .. 1,
           NEW ms \in 0 .. 1, QueuesHold(m, n, bs, ms)
    PROVE  /\ mem_req_fifo = << >> <=> m = 0
           /\ b_req_fifo = << >> <=> n = 0
           /\ b_rsp_fifo = << >> <=> bs = 0
           /\ mem_rsp_fifo = << >> <=> ms = 0
           /\ n = 0 => ~req_rule
           /\ ms = 0 => ~TakesMem
<1>1. /\ mem_req_fifo \in Seq(MemReq) /\ b_req_fifo \in Seq(MemReq)
      /\ b_rsp_fifo \in Seq(Line) /\ mem_rsp_fifo \in Seq(Line)
    BY DEF Types, CacheTypes, BackendTypes
<1>2. /\ mem_req_fifo = << >> <=> m = 0
      /\ b_req_fifo = << >> <=> n = 0
      /\ b_rsp_fifo = << >> <=> bs = 0
      /\ mem_rsp_fifo = << >> <=> ms = 0
    BY <1>1, Singleton DEF QueuesHold
<1>. QED BY <1>2
         DEF req_rule, TakesMem, wait_mem_rsp, wait_fill_rsp, EMPTY_N

\* At rest, a request of the cache begins.
LEMMA FromRest ==
    ASSUME Types, NEW req, NEW taken, NEW arready, NEW r, NEW awready, NEW wready,
           NEW b, MemEdge(req, taken, arready, r, awready, wready, b),
           NEW q \in MemReq, SendsMem => MemRequest = q, MemRests
    PROVE  mem' = mem /\ IF SendsMem THEN AtCache(q)' ELSE MemRests'
<1>1. QueuesHold(0, 0, 0, 0) /\ BackendRests
    BY DEF MemRests
<1>2. /\ mem_req_fifo = << >> /\ b_req_fifo = << >> /\ b_rsp_fifo = << >>
      /\ mem_rsp_fifo = << >> /\ ~req_rule /\ ~TakesMem
    BY <1>1, QueuesShort
<1>3. ~Done(r, b) /\ BackendRests' /\ mem' = mem
    BY <1>1, <1>2, RestStep, RestingPorts DEF MemEdge, BackEdge
<1>4. Len(mem_req_fifo) + Len(b_req_fifo) <= 1
      /\ Len(b_rsp_fifo) + Len(mem_rsp_fifo) <= 1
    BY <1>1 DEF QueuesHold
<1>5. /\ mem_req_fifo' = IF SendsMem THEN <<q>> ELSE << >>
      /\ b_req_fifo' = << >> /\ b_rsp_fifo' = << >> /\ mem_rsp_fifo' = << >>
    BY <1>2, <1>3, <1>4, QueueMoves
<1>6. Len(<<q>>) = 1 /\ <<q>>[1] = q /\ Len(<< >>) = 0
    OBVIOUS
<1>. QED BY <1>3, <1>5, <1>6 DEF AtCache, MemRests, QueuesHold

LEMMA FromCache ==
    ASSUME Types, NEW req, NEW taken, NEW arready, NEW r, NEW awready, NEW wready,
           NEW b, MemEdge(req, taken, arready, r, awready, wready, b),
           NEW q \in MemReq, ~SendsMem, AtCache(q)
    PROVE  mem' = mem /\ AtBackend(q)' /\ ~TakesMem
<1>1. QueuesHold(1, 0, 0, 0) /\ BackendRests /\ mem_req_fifo[1] = q
    BY DEF AtCache
<1>2. /\ b_req_fifo = << >> /\ b_rsp_fifo = << >>
      /\ mem_rsp_fifo = << >> /\ ~req_rule /\ ~TakesMem
    BY <1>1, QueuesShort
<1>3. ~Done(r, b) /\ BackendRests' /\ mem' = mem
    BY <1>1, <1>2, RestStep, RestingPorts DEF MemEdge, BackEdge
<1>4. Len(mem_req_fifo) = 1 /\ Len(mem_req_fifo) + Len(b_req_fifo) <= 1
      /\ Len(b_rsp_fifo) + Len(mem_rsp_fifo) <= 1
    BY <1>1 DEF QueuesHold
<1>5. /\ mem_req_fifo' = << >> /\ b_req_fifo' = mem_req_fifo
      /\ b_rsp_fifo' = << >> /\ mem_rsp_fifo' = << >>
    BY <1>2, <1>3, <1>4, QueueMoves
<1>6. Len(<< >>) = 0
    OBVIOUS
<1>. QED BY <1>1, <1>2, <1>3, <1>4, <1>5, <1>6 DEF AtBackend, QueuesHold

LEMMA FromBackend ==
    ASSUME Types, NEW req, NEW taken, NEW arready, NEW r, NEW awready, NEW wready,
           NEW b, MemEdge(req, taken, arready, r, awready, wready, b),
           NEW q \in MemReq, ~SendsMem, AtBackend(q)
    PROVE  mem' = mem /\ (AtBackend(q)' \/ InBurst(q)') /\ ~TakesMem
<1>1. QueuesHold(0, 1, 0, 0) /\ BackendRests /\ b_req_fifo[1] = q
    BY DEF AtBackend
<1>2. /\ mem_req_fifo = << >> /\ b_req_fifo # << >> /\ b_rsp_fifo = << >>
      /\ mem_rsp_fifo = << >> /\ ~TakesMem
    BY <1>1, QueuesShort
<1>3. ~Done(r, b) /\ BackEdge(Passed(mem_req_fifo, b_req_fifo),
                              Moves(b_rsp_fifo, mem_rsp_fifo),
                              arready, r, awready, wready, b)
    BY <1>1, RestingPorts DEF MemEdge, BackEdge
<1>4. Len(b_req_fifo) = 1 /\ Len(mem_req_fifo) + Len(b_req_fifo) <= 1
      /\ Len(b_rsp_fifo) + Len(mem_rsp_fifo) <= 1
    BY <1>1 DEF QueuesHold
<1>5. /\ mem_req_fifo' = << >>
      /\ b_req_fifo' = IF req_rule THEN << >> ELSE b_req_fifo
      /\ b_rsp_fifo' = << >> /\ mem_rsp_fifo' = << >>
    BY <1>2, <1>3, <1>4, QueueMoves
<1>6. Len(<< >>) = 0
    OBVIOUS
<1>7. CASE req_rule
    <2>1. Head(b_req_fifo) = q
        BY <1>1, <1>2, NonEmpty DEF Types, BackendTypes
    <2>2. (IF q.write THEN Writing(q.addr)' ELSE Reading(q.addr)') /\ mem' = mem
        BY <1>1, <1>3, <1>7, <2>1, StartStep
    <2>3. QueuesHold(0, 0, 0, 0)'
        BY <1>5, <1>6, <1>7 DEF QueuesHold
    <2>. QED BY <1>2, <2>2, <2>3 DEF InBurst
<1>8. CASE ~req_rule
    <2>1. BackendRests' /\ mem' = mem
        BY <1>1, <1>3, <1>8, RestStep
    <2>. QED BY <1>1, <1>2, <1>4, <1>5, <1>6, <1>8, <2>1 DEF AtBackend, QueuesHold
<1>. QED BY <1>7, <1>8

LEMMA FromBurst ==
    ASSUME Types, NEW req, NEW taken, NEW arready, NEW r, NEW awready, NEW wready,
           NEW b, MemEdge(req, taken, arready, r, awready, wready, b),
           NEW q \in MemReq, ~SendsMem, InBurst(q), q.addr % LineBytes = 0
    PROVE  /\ IF q.write THEN OthersKept(q.addr) ELSE mem' = mem
           /\ InBurst(q)' \/ Answered(q)'
           /\ ~TakesMem
<1>1. QueuesHold(0, 0, 0, 0) /\ q.addr \in Nat
    BY DEF InBurst, MemReq, LineReq
<1>2. /\ mem_req_fifo = << >> /\ b_req_fifo = << >> /\ b_rsp_fifo = << >>
      /\ mem_rsp_fifo = << >> /\ ~TakesMem /\ ~req_rule
    BY <1>1, QueuesShort
<1>3. BackEdge(Passed(mem_req_fifo, b_req_fifo), Moves(b_rsp_fifo, mem_rsp_fifo),
               arready, r, awready, wready, b)
    BY DEF MemEdge
<1>4. Len(mem_req_fifo) + Len(b_req_fifo) <= 1
      /\ Len(b_rsp_fifo) + Len(mem_rsp_fifo) <= 1
    BY <1>1 DEF QueuesHold
<1>5. /\ mem_req_fifo' = << >> /\ b_req_fifo' = << >> /\ mem_rsp_fifo' = << >>
      /\ b_rsp_fifo' = IF Done(r, b)
                         THEN << IF get_rd(r) /\ RdOut(r).last
                                   THEN Filled(r) ELSE LowEnd(b_req_reg) >>
                         ELSE << >>
    BY <1>2, <1>4, QueueMoves
<1>6. Len(<< >>) = 0
    OBVIOUS
<1>7. /\ Done(r, b) => QueuesHold(0, 0, 1, 0)'
      /\ ~Done(r, b) => QueuesHold(0, 0, 0, 0)'
    <2>1. \A x : Len(<<x>>) = 1
        OBVIOUS
    <2>. QED BY <1>5, <1>6, <2>1 DEF QueuesHold
<1>8. CASE q.write
    <2>1. /\ OthersKept(q.addr)
          /\ ~Done(r, b) => Writing(q.addr)'
          /\ Done(r, b) => BackendRests'
        BY <1>1, <1>2, <1>3, <1>8, WriteStep DEF InBurst
    <2>. QED BY <1>2, <1>7, <1>8, <2>1 DEF InBurst, Answered
<1>9. CASE ~q.write
    <2>1. /\ mem' = mem
          /\ ~Done(r, b) => Reading(q.addr)'
          /\ Done(r, b) => /\ BackendRests' /\ get_rd(r) /\ RdOut(r).last
                           /\ Filled(r) = LineOf(q.addr)
        BY <1>1, <1>2, <1>3, <1>9, ReadStep DEF InBurst
    <2>2. CASE ~Done(r, b)
        BY <1>2, <1>7, <1>9, <2>1, <2>2 DEF InBurst
    <2>3. CASE Done(r, b)
        <3>1. LineOf(q.addr)' = LineOf(q.addr)
            BY <2>1 DEF LineOf, MemLine
        <3>2. b_rsp_fifo'[1] = LineOf(q.addr)'
            BY <1>5, <2>1, <2>3, <3>1
        <3>. QED BY <1>2, <1>7, <1>9, <2>1, <2>3, <3>2 DEF Answered
    <2>. QED BY <2>2, <2>3
<1>. QED BY <1>8, <1>9

LEMMA FromAnswered ==
    ASSUME Types, NEW req, NEW taken, NEW arready, NEW r, NEW awready, NEW wready,
           NEW b, MemEdge(req, taken, arready, r, awready, wready, b),
           NEW q \in MemReq, ~SendsMem, Answered(q)
    PROVE  /\ mem' = mem
           /\ IF TakesMem THEN MemRests' ELSE Answered(q)'
           /\ TakesMem /\ ~q.write => mem_rsp_fifo[1] = LineOf(q.addr)
<1>1. BackendRests
      /\ \/ /\ QueuesHold(0, 0, 1, 0)
            /\ ~q.write => b_rsp_fifo[1] = LineOf(q.addr)
         \/ /\ QueuesHold(0, 0, 0, 1)
            /\ ~q.write => mem_rsp_fifo[1] = LineOf(q.addr)
    BY DEF Answered
<1>2. mem_req_fifo = << >> /\ b_req_fifo = << >> /\ ~req_rule
    BY <1>1, QueuesShort
<1>3. ~Done(r, b) /\ BackendRests' /\ mem' = mem
    BY <1>1, <1>2, RestStep, RestingPorts DEF MemEdge, BackEdge
<1>4. Len(mem_req_fifo) + Len(b_req_fifo) <= 1
      /\ Len(b_rsp_fifo) + Len(mem_rsp_fifo) <= 1
    <2>1. Len(mem_req_fifo) = 0 /\ Len(b_req_fifo) = 0
        BY <1>1 DEF QueuesHold
    <2>2. \/ Len(b_rsp_fifo) = 0 /\ Len(mem_rsp_fifo) = 1
          \/ Len(b_rsp_fifo) = 1 /\ Len(mem_rsp_fifo) = 0
        BY <1>1 DEF QueuesHold
    <2>. QED BY <2>1, <2>2
<1>5. mem_req_fifo' = << >> /\ b_req_fifo' = << >> /\ Len(<< >>) = 0
    BY <1>2, <1>4, QueueMoves
<1>6. LineOf(q.addr)' = LineOf(q.addr)
    BY <1>3 DEF LineOf, MemLine
<1>7. CASE /\ QueuesHold(0, 0, 1, 0)
           /\ ~q.write => b_rsp_fifo[1] = LineOf(q.addr)
    <2>1. Len(b_rsp_fifo) = 1 /\ ~TakesMem
        BY <1>7, QueuesShort DEF QueuesHold
    <2>2. b_rsp_fifo' = << >> /\ mem_rsp_fifo' = b_rsp_fifo
        BY <1>3, <1>4, <2>1, QueueMoves
    <2>. QED BY <1>3, <1>5, <1>6, <1>7, <2>1, <2>2 DEF Answered, QueuesHold
<1>8. CASE /\ QueuesHold(0, 0, 0, 1)
           /\ ~q.write => mem_rsp_fifo[1] = LineOf(q.addr)
    <2>1. b_rsp_fifo = << >> /\ Len(mem_rsp_fifo) = 1
        BY <1>8, QueuesShort DEF QueuesHold
    <2>2. /\ b_rsp_fifo' = << >>
          /\ mem_rsp_fifo' = IF TakesMem THEN << >> ELSE mem_rsp_fifo
        BY <1>3, <1>4, <2>1, QueueMoves
    <2>. QED BY <1>3, <1>5, <1>6, <1>8, <2>1, <2>2
             DEF Answered, MemRests, QueuesHold
<1>. QED BY <1>1, <1>7, <1>8

\* All of the way.
LEMMA Onwards ==
    ASSUME Types, NEW req, NEW taken, NEW arready, NEW r, NEW awready, NEW wready,
           NEW b, MemEdge(req, taken, arready, r, awready, wready, b),
           NEW q \in MemReq, ~SendsMem, InFlight(q), q.addr % LineBytes = 0
    PROVE  /\ IF q.write THEN OthersKept(q.addr) ELSE mem' = mem
           /\ IF TakesMem THEN MemRests' ELSE InFlight(q)'
           /\ TakesMem => mem' = mem
           /\ TakesMem /\ ~q.write => mem_rsp_fifo[1] = LineOf(q.addr)
<1>1. CASE AtCache(q)
    BY <1>1, FromCache DEF InFlight, OthersKept
<1>2. CASE AtBackend(q)
    BY <1>2, FromBackend DEF InFlight, OthersKept
<1>3. CASE InBurst(q)
    BY <1>3, FromBurst DEF InFlight
<1>4. CASE Answered(q)
    BY <1>4, FromAnswered DEF InFlight, OthersKept
<1>. QED BY <1>1, <1>2, <1>3, <1>4 DEF InFlight

-----------------------------------------------------------------------------
(***************************************************************************)
(* The cache's own registers around a request to memory.                   *)
(***************************************************************************)
LEMMA CacheRegisters ==
    ASSUME NEW req, NEW taken, NEW memTaken, NEW memRsp,
           CacheCycle(req, taken, memTaken, memRsp)
    PROVE  /\ StateRegisters
           /\ ~ReadMiss => miss_req' = miss_req
           /\ wb_addr' = IF Evicts THEN VictimAddr ELSE wb_addr
           /\ ~wait_fill_rsp => tag_array' = tag_array
           /\ ~wait_fill_rsp /\ ~WriteHit => dirty_array' = dirty_array
BY DEF CacheCycle, StateRegisters, TagArray, DirtyArray

LEMMA SendsFrom ==
    /\ ReadHit \/ WriteHit \/ ReadMiss \/ WriteMiss => state = "idle"
    /\ Evicts => state = "miss"
    /\ writeback_rsp => state = "readVictim"
    /\ send_fill_req => state = "fill"
    /\ wait_mem_rsp => state = "waitMem"
    /\ wait_fill_rsp => state = "waitFill"
BY DEF ReadHit, WriteHit, ReadMiss, WriteMiss, core_req, Evicts, start_miss,
       writeback_rsp, send_fill_req, wait_mem_rsp, wait_fill_rsp

LEMMA SomeRequest ==
    ASSUME Types, MemInv
    PROVE  \E q \in MemReq : SendsMem => MemRequest = q
<1>1. SendsMem => MemRequest \in MemReq
    BY MemoryRequest
<1>2. NoReq \in MemReq
    BY GeometryAssumption
       DEF NoReq, MemReq, IsLineReq, LineReq, Line, Value, ZeroLine
<1>. QED BY <1>1, <1>2

LEMMA MemStep ==
    ASSUME Types, MemInv,
           NEW req, NEW taken, NEW arready, NEW r, NEW awready, NEW wready,
           NEW b, MemEdge(req, taken, arready, r, awready, wready, b)
    PROVE  MemInv'
<1>1. CacheCycle(req, taken, Moves(mem_req_fifo, b_req_fifo),
                 Passed(b_rsp_fifo, mem_rsp_fifo))
    BY DEF MemEdge
<1>2. /\ StateRegisters
      /\ ~ReadMiss => miss_req' = miss_req
      /\ wb_addr' = IF Evicts THEN VictimAddr ELSE wb_addr
      /\ ~wait_fill_rsp => tag_array' = tag_array
      /\ ~wait_fill_rsp /\ ~WriteHit => dirty_array' = dirty_array
    BY <1>1, CacheRegisters
<1>3. /\ SendsMem <=> WriteMiss \/ writeback_rsp \/ send_fill_req
      /\ TakesMem <=> wait_mem_rsp \/ wait_fill_rsp
    BY DEF SendsMem, TakesMem
<1>5. PICK q \in MemReq : SendsMem => MemRequest = q
    BY SomeRequest
\* From a state in which nothing is at memory.
<1>7. ASSUME state \notin {"waitMem", "waitFill"}
      PROVE  mem' = mem /\ IF SendsMem THEN AtCache(q)' ELSE MemRests'
    <2>1. MemRests
        BY <1>7 DEF MemInv
    <2>. QED BY <1>5, <2>1, FromRest
<1>8. CASE state = "idle"
    <2>1. ~writeback_rsp /\ ~send_fill_req /\ ~Evicts /\ ~wait_fill_rsp
        BY <1>8, SendsFrom
    <2>2. CASE WriteMiss
        <3>1. state' = "waitMem" /\ AtCache(q)'
            BY <1>2, <1>3, <1>7, <1>8, <2>2, StateStep
        <3>2. q = Head(req_fifo) /\ ~Hit /\ Head(req_fifo).write
            BY <1>3, <1>5, <2>2 DEF MemRequest, WriteMiss
        <3>3. tag_array' = tag_array
            BY <1>2, <2>1
        <3>4. q.write /\ Harmless(q.addr)'
            BY <3>2, <3>3 DEF Harmless, Hit
        <3>. QED BY <3>1, <3>4 DEF MemInv, InFlight
    <2>3. CASE ~WriteMiss
        <3>1. state' \in {"idle", "access", "miss"} /\ MemRests'
            BY <1>2, <1>3, <1>7, <1>8, <2>1, <2>3, StateStep
        <3>. QED BY <3>1 DEF MemInv
    <2>. QED BY <2>2, <2>3
<1>9. CASE state = "miss"
    <2>1. ~WriteMiss /\ ~writeback_rsp /\ ~send_fill_req /\ ~wait_fill_rsp
          /\ ~WriteHit
        BY <1>9, SendsFrom
    <2>2. MemRests'
        BY <1>3, <1>7, <1>9, <2>1
    <2>3. CASE Evicts
        <3>1. state' = "readVictim" /\ wb_addr' = VictimAddr
              /\ dirty_array' = dirty_array
            BY <1>2, <1>9, <2>1, <2>3, StateStep
        <3>2. VictimAddr % LineBytes = 0 /\ dirty_array[Index(VictimAddr)] # {}
            BY <2>3, VictimParts
        <3>3. wb_addr' % LineBytes = 0 /\ dirty_array'[Index(wb_addr')] # {}
            BY <3>1, <3>2
        <3>4. (wb_addr % LineBytes = 0 /\ dirty_array[Index(wb_addr)] # {})'
            BY <3>3 DEF LineBytes, Index
        <3>. QED BY <2>2, <3>1, <3>4 DEF MemInv
    <2>4. CASE ~Evicts
        <3>1. state' \in {"miss", "fill"}
            BY <1>2, <1>9, <2>4, StateStep
        <3>. QED BY <2>2, <3>1 DEF MemInv
    <2>. QED BY <2>3, <2>4
<1>10. CASE state = "readVictim"
    <2>1. ~WriteMiss /\ ~send_fill_req /\ ~wait_fill_rsp /\ ~WriteHit /\ ~Evicts
        BY <1>10, SendsFrom
    <2>2. wb_addr' = wb_addr /\ dirty_array' = dirty_array
        BY <1>2, <2>1
    <2>3. wb_addr % LineBytes = 0 /\ dirty_array[Index(wb_addr)] # {}
        BY <1>10 DEF MemInv
    <2>4. CASE writeback_rsp
        <3>1. state' = "waitMem" /\ AtCache(q)'
            BY <1>2, <1>3, <1>7, <1>10, <2>4, StateStep
        <3>2. q.write /\ q.addr = wb_addr
            BY <1>3, <1>5, <2>1, <2>4 DEF MemRequest
        <3>3. Harmless(q.addr)'
            BY <2>2, <2>3, <3>2 DEF Harmless
        <3>. QED BY <3>1, <3>2, <3>3 DEF MemInv, InFlight
    <2>5. CASE ~writeback_rsp
        <3>1. state' = "readVictim" /\ MemRests'
            BY <1>2, <1>3, <1>7, <1>10, <2>1, <2>5, StateStep
        <3>2. (wb_addr % LineBytes = 0 /\ dirty_array[Index(wb_addr)] # {})'
            BY <2>2, <2>3 DEF LineBytes, Index
        <3>. QED BY <3>1, <3>2 DEF MemInv
    <2>. QED BY <2>4, <2>5
<1>11. CASE state = "waitMem"
    <2>1. PICK p \in MemReq : p.write /\ Harmless(p.addr) /\ InFlight(p)
        BY <1>11 DEF MemInv
    <2>2. ~SendsMem /\ ~wait_fill_rsp /\ ~WriteHit
        BY <1>3, <1>11, SendsFrom
    <2>3. p.addr % LineBytes = 0
        BY <2>1 DEF MemReq, IsLineReq
    <2>4. IF TakesMem THEN MemRests' ELSE InFlight(p)'
        BY <2>1, <2>2, <2>3, Onwards
    <2>5. Harmless(p.addr)'
        BY <1>2, <2>1, <2>2 DEF Harmless
    <2>6. state' \in IF wait_mem_rsp THEN {"idle", "fill"} ELSE {"waitMem"}
        BY <1>2, <1>11, StateStep
    <2>7. CASE wait_mem_rsp
        BY <1>3, <2>4, <2>6, <2>7 DEF MemInv
    <2>8. CASE ~wait_mem_rsp
        BY <1>3, <2>1, <2>2, <2>4, <2>5, <2>6, <2>8 DEF MemInv
    <2>. QED BY <2>7, <2>8
<1>12. CASE state = "fill"
    <2>1. ~WriteMiss /\ ~writeback_rsp /\ ~ReadMiss
        BY <1>12, SendsFrom
    <2>2. CASE send_fill_req
        <3>1. state' = "waitFill" /\ AtCache(q)' /\ miss_req' = miss_req
            BY <1>2, <1>3, <1>7, <1>12, <2>1, <2>2, StateStep
        <3>2. ~q.write /\ q.addr = Aligned(miss_req.addr)
            BY <1>3, <1>5, <1>12, <2>2, FillRequest
        <3>3. q.addr = Aligned(miss_req'.addr)
            BY <3>1, <3>2
        <3>. QED BY <3>1, <3>2, <3>3 DEF MemInv, InFlight
    <2>3. CASE ~send_fill_req
        <3>1. state' = "fill" /\ MemRests'
            BY <1>2, <1>3, <1>7, <1>12, <2>1, <2>3, StateStep
        <3>. QED BY <3>1 DEF MemInv
    <2>. QED BY <2>2, <2>3
<1>13. CASE state = "waitFill"
    <2>1. PICK p \in MemReq : /\ ~p.write /\ p.addr = Aligned(miss_req.addr)
                              /\ InFlight(p)
        BY <1>13 DEF MemInv
    <2>2. ~SendsMem /\ ~ReadMiss /\ ~wait_mem_rsp
        BY <1>3, <1>13, SendsFrom
    <2>3. p.addr % LineBytes = 0
        BY <2>1, MissParts, AlignedAddress
    <2>4. IF TakesMem THEN MemRests' ELSE InFlight(p)'
        BY <2>1, <2>2, <2>3, Onwards
    <2>5. p.addr = Aligned(miss_req'.addr)
        BY <1>2, <2>1, <2>2
    <2>6. state' = IF wait_fill_rsp THEN "access" ELSE "waitFill"
        BY <1>2, <1>13, StateStep
    <2>7. CASE wait_fill_rsp
        BY <1>3, <2>4, <2>6, <2>7 DEF MemInv
    <2>8. CASE ~wait_fill_rsp
        BY <1>3, <2>1, <2>2, <2>4, <2>5, <2>6, <2>8 DEF MemInv
    <2>. QED BY <2>7, <2>8
<1>14. CASE state = "access"
    <2>1. ~SendsMem
        BY <1>3, <1>14, SendsFrom
    <2>2. state' \in {"idle", "access"} /\ MemRests'
        BY <1>2, <1>7, <1>14, <2>1, StateStep
    <2>. QED BY <2>2 DEF MemInv
<1>. QED BY <1>8, <1>9, <1>10, <1>11, <1>12, <1>13, <1>14 DEF Types, CacheTypes

(***************************************************************************)
(* A clean line agrees with memory, edge by edge.                          *)
(***************************************************************************)
LEMMA RestKept ==
    ASSUME Types, MemInv, state \notin {"waitMem", "waitFill"},
           NEW req, NEW taken, NEW arready, NEW r, NEW awready, NEW wready,
           NEW b, MemEdge(req, taken, arready, r, awready, wready, b)
    PROVE  mem' = mem
<1>1. PICK q \in MemReq : SendsMem => MemRequest = q
    BY SomeRequest
<1>2. MemRests
    BY DEF MemInv
<1>. QED BY <1>1, <1>2, FromRest

\* Memory keeps the words of a clean line.
LEMMA LineKept ==
    ASSUME Types, MemInv,
           NEW req, NEW taken, NEW arready, NEW r, NEW awready, NEW wready,
           NEW b, MemEdge(req, taken, arready, r, awready, wready, b),
           NEW i \in 0 .. Sets - 1, NEW t \in 0 .. Tags - 1, NEW n \in WordIdx,
           tag_array[i] = t, dirty_array[i] = {}
    PROVE  mem'[Place(t, i, n)] = mem[Place(t, i, n)]
<1>1. CASE state = "waitMem"
    <2>1. PICK p \in MemReq : p.write /\ Harmless(p.addr) /\ InFlight(p)
        BY <1>1 DEF MemInv
    <2>2. ~SendsMem
        BY <1>1, SendsFrom DEF SendsMem
    <2>3. p.addr % LineBytes = 0
        BY <2>1 DEF MemReq, IsLineReq
    <2>4. OthersKept(p.addr)
        BY <2>1, <2>2, <2>3, Onwards
    <2>5. t # Tag(p.addr) \/ i # Index(p.addr)
        BY <2>1 DEF Harmless
    <2>. QED BY <2>4, <2>5 DEF OthersKept
<1>2. CASE state = "waitFill"
    <2>1. PICK p \in MemReq : /\ ~p.write /\ p.addr = Aligned(miss_req.addr)
                              /\ InFlight(p)
        BY <1>2 DEF MemInv
    <2>2. ~SendsMem
        BY <1>2, SendsFrom DEF SendsMem
    <2>3. p.addr % LineBytes = 0
        BY <2>1, MissParts, AlignedAddress
    <2>4. mem' = mem
        BY <2>1, <2>2, <2>3, Onwards
    <2>. QED BY <2>4
<1>3. CASE state \notin {"waitMem", "waitFill"}
    BY <1>3, RestKept
<1>. QED BY <1>1, <1>2, <1>3

\* The writes the cache hands the array.
LEMMA WritesArray ==
    ASSUME Types, AsksArray, CacheMemRequest.write
    PROVE  \/ WriteHit /\ Index(CacheMemRequest.addr) = Index(Head(req_fifo).addr)
           \/ wait_fill_rsp /\ Index(CacheMemRequest.addr) = Victim
<1>1. CASE ReadHit \/ WriteHit
    <2>1. CacheMemRequest = Head(req_fifo)
        BY <1>1 DEF CacheMemRequest
    <2>. QED BY <1>1, <2>1 DEF ReadHit
<1>2. CASE ~(ReadHit \/ WriteHit) /\ Evicts
    <2>1. CacheMemRequest = [addr |-> VictimAddr, write |-> FALSE,
                             data |-> ZeroLine, strb |-> {}]
        BY <1>2 DEF CacheMemRequest
    <2>. QED BY <2>1
<1>3. CASE ~(ReadHit \/ WriteHit) /\ ~Evicts
    <2>1. wait_fill_rsp
        BY <1>3 DEF AsksArray
    <2>2. CacheMemRequest = [addr |-> miss_req.addr, write |-> TRUE,
                             data |-> Head(mem_rsp_fifo), strb |-> WordIdx]
        BY <1>3, <2>1 DEF CacheMemRequest
    <2>. QED BY <2>1, <2>2 DEF Victim
<1>. QED BY <1>1, <1>2, <1>3

LEMMA CleanStep ==
    ASSUME Types, Types', ArrayInv, MemInv, CleanLinesAgree,
           NEW req, NEW taken, NEW arready, NEW r, NEW awready, NEW wready,
           NEW b, MemEdge(req, taken, arready, r, awready, wready, b)
    PROVE  CleanLinesAgree'
<1>1. CacheCycle(req, taken, Moves(mem_req_fifo, b_req_fifo),
                 Passed(b_rsp_fifo, mem_rsp_fifo))
    BY DEF MemEdge
<1>2. CacheMemCycle(CacheMemRequest, LineReady)
    BY <1>1 DEF CacheCycle, LineReady
<1>3. SUFFICES ASSUME NEW i \in 0 .. Sets - 1,
                      tag_array'[i] # None, dirty_array'[i] = {}
               PROVE  LineValue(i)' = MemLine(tag_array[i], i)'
    BY DEF CleanLinesAgree
<1>4. LineValue(i)' =
         IF /\ AsksArray /\ CacheMemRequest.write
            /\ Index(CacheMemRequest.addr) = i
         THEN Merge(LineValue(i), CacheMemRequest.data, CacheMemRequest.strb)
         ELSE LineValue(i)
    BY <1>2, LineStep DEF Types
<1>5. /\ tag_array \in [0 .. Sets - 1 -> (0 .. Tags - 1) \cup {None}]
      /\ dirty_array \in [0 .. Sets - 1 -> SUBSET WordIdx]
      /\ tag_array'[i] \in 0 .. Tags - 1
      /\ Victim \in 0 .. Sets - 1
    BY <1>3, MissParts DEF Types, CacheTypes
\* What memory holds for the line stays, unless the line is harmed.
<1>6. CASE wait_fill_rsp /\ Victim = i
    <2>1. /\ state = "waitFill" /\ ~SendsMem /\ TakesMem
          /\ ~ReadHit /\ ~WriteHit /\ ~Evicts /\ AsksArray
        BY <1>6, SendsFrom DEF SendsMem, TakesMem, AsksArray
    <2>2. PICK p \in MemReq : /\ ~p.write /\ p.addr = Aligned(miss_req.addr)
                              /\ InFlight(p)
        BY <2>1 DEF MemInv
    <2>3. p.addr % LineBytes = 0 /\ Tag(p.addr) = Tag(miss_req.addr)
          /\ Index(p.addr) = i
        BY <1>6, <2>2, MissParts, AlignedAddress DEF Victim
    <2>4. mem' = mem /\ mem_rsp_fifo[1] = LineOf(p.addr)
        BY <2>1, <2>2, <2>3, Onwards
    <2>5. CacheMemRequest = [addr |-> miss_req.addr, write |-> TRUE,
                             data |-> Head(mem_rsp_fifo), strb |-> WordIdx]
        BY <1>6, <2>1 DEF CacheMemRequest
    <2>6. mem_rsp_fifo \in Seq(Line) /\ mem_rsp_fifo # << >>
        BY <1>6 DEF wait_fill_rsp, EMPTY_N, Types, CacheTypes
    <2>7. Head(mem_rsp_fifo) = mem_rsp_fifo[1] /\ mem_rsp_fifo[1] \in Line
        BY <2>6, NonEmpty
    <2>8. LineValue(i)' = Merge(LineValue(i), Head(mem_rsp_fifo), WordIdx)
        <3>1. CacheMemRequest.write /\ Index(CacheMemRequest.addr) = i
              /\ CacheMemRequest.data = Head(mem_rsp_fifo)
              /\ CacheMemRequest.strb = WordIdx
            BY <1>6, <2>5 DEF Victim
        <3>. QED BY <1>4, <2>1, <3>1
    <2>9. LineValue(i)' = LineOf(p.addr)
        BY <2>4, <2>7, <2>8 DEF Merge, Line
    <2>10. tag_array'[i] = Tag(miss_req.addr)
        BY <1>1, <1>5, <1>6 DEF CacheCycle, TagArray
    <2>11. MemLine(tag_array[i], i)' = MemLine(Tag(p.addr), Index(p.addr))
        BY <2>3, <2>4, <2>10 DEF MemLine
    <2>. QED BY <2>9, <2>11 DEF LineOf
<1>7. CASE ~(wait_fill_rsp /\ Victim = i)
    <2>1. tag_array'[i] = tag_array[i]
        BY <1>1, <1>5, <1>7 DEF CacheCycle, TagArray
    <2>2. CASE WriteHit /\ Index(Head(req_fifo).addr) = i
        <3>1. /\ state = "idle" /\ ~wait_fill_rsp /\ AsksArray
            BY <2>2, SendsFrom DEF AsksArray
        <3>2. dirty_array'[i] = dirty_array[i] \cup Head(req_fifo).strb
            BY <1>1, <1>5, <2>2 DEF CacheCycle, DirtyArray, Marked
        <3>3. dirty_array[i] = {} /\ Head(req_fifo).strb = {}
            BY <1>3, <3>2
        <3>4. CacheMemRequest = Head(req_fifo)
            BY <2>2 DEF CacheMemRequest
        <3>5. LineValue(i) = MemLine(tag_array[i], i)
            BY <1>3, <2>1, <3>3 DEF CleanLinesAgree
        <3>6. \A y : Merge(MemLine(tag_array[i], i), y, {}) = MemLine(tag_array[i], i)
            BY DEF Merge, MemLine
        <3>7. LineValue(i)' = LineValue(i)
            BY <1>4, <3>3, <3>4, <3>5, <3>6
        <3>8. mem' = mem
            BY <3>1, RestKept
        <3>. QED BY <2>1, <3>5, <3>7, <3>8 DEF MemLine
    <2>3. CASE ~(WriteHit /\ Index(Head(req_fifo).addr) = i)
        <3>1. dirty_array'[i] = dirty_array[i]
            BY <1>1, <1>5, <1>7, <2>3 DEF CacheCycle, DirtyArray
        <3>2. LineValue(i) = MemLine(tag_array[i], i)
            BY <1>3, <2>1, <3>1 DEF CleanLinesAgree
        <3>3. ~(/\ AsksArray /\ CacheMemRequest.write
                /\ Index(CacheMemRequest.addr) = i)
            BY <1>7, <2>3, WritesArray
        <3>4. LineValue(i)' = LineValue(i)
            BY <1>4, <3>3
        <3>5. \A n \in WordIdx : mem'[Place(tag_array[i], i, n)]
                                   = mem[Place(tag_array[i], i, n)]
            BY <1>3, <1>5, <2>1, <3>1, LineKept
        <3>6. MemLine(tag_array[i], i)' = MemLine(tag_array[i], i)
            BY <2>1, <3>5 DEF MemLine, Place
        <3>. QED BY <3>2, <3>4, <3>6
    <2>. QED BY <2>2, <2>3
<1>. QED BY <1>6, <1>7
-----------------------------------------------------------------------------
(***************************************************************************)
(* One clock edge of all parts.                                            *)
(***************************************************************************)
LEMMA EdgeTypes ==
    ASSUME Types, MemInv,
           NEW ar, NEW wb, NEW aw, NEW w, NEW rready, NEW bready, NEW arready,
           NEW r, NEW awready, NEW wready, NEW b,
           CoreInputs(ar, wb, aw, w), MemInputs(r, b),
           Clock(ar, wb, aw, w, rready, bready, arready, r, awready, wready, b)
    PROVE  Types'
<1>1. /\ f_req_fifo \in Seq(MemReq) /\ mem_req_fifo \in Seq(MemReq)
      /\ b_rsp_fifo \in Seq(Line)
    BY DEF Types, CoreTypes, CacheTypes, BackendTypes
<1>2. /\ Passed(f_req_fifo, req_fifo) \in MemReq \cup {None}
      /\ Passed(mem_req_fifo, b_req_fifo) \in MemReq \cup {None}
      /\ Passed(b_rsp_fifo, mem_rsp_fifo) \in Line \cup {None}
    BY <1>1, NonEmpty DEF Passed, Moves, EMPTY_N
<1>3. /\ Moves(rsp_fifo, f_rsp_fifo) \in BOOLEAN
      /\ Moves(mem_req_fifo, b_req_fifo) \in BOOLEAN
      /\ Moves(b_rsp_fifo, mem_rsp_fifo) \in BOOLEAN
      /\ Moves(mem_req_fifo, b_req_fifo) => mem_req_fifo # << >>
      /\ Moves(b_rsp_fifo, mem_rsp_fifo) => b_rsp_fifo # << >>
    BY RulesAreBoolean DEF Moves, EMPTY_N
<1>4. CoreTypes'
    <2>1. /\ Core(ar, wb, aw, w, rready, bready)
          /\ FrontendCycle(ar, rready, aw, w, bready, Moves(f_req_fifo, req_fifo),
                           Passed(rsp_fifo, f_rsp_fifo))
        BY DEF Clock
    <2>. QED BY <2>1, FrontStep
<1>5. CacheTypes' /\ ArrayTypes'
    <2>1. CacheCycle(Passed(f_req_fifo, req_fifo), Moves(rsp_fifo, f_rsp_fifo),
                     Moves(mem_req_fifo, b_req_fifo),
                     Passed(b_rsp_fifo, mem_rsp_fifo))
        BY DEF Clock
    <2>. QED BY <1>2, <1>3, <2>1, CacheTypesStep
<1>6. BackendTypes'
    <2>1. BackendCycle(Passed(mem_req_fifo, b_req_fifo),
                       Moves(b_rsp_fifo, mem_rsp_fifo),
                       arready, r, awready, wready, b)
        BY DEF Clock
    <2>. QED BY <1>2, <1>3, <2>1, BackendTypesStep
<1>7. MemoryTypes'
    <2>1. Memory(arready, r, awready, wready, b)
        BY DEF Clock
    <2>. QED BY <2>1, MemoryTypesStep
<1>. QED BY <1>4, <1>5, <1>6, <1>7 DEF Types

LEMMA EdgeStep ==
    ASSUME DataInv,
           NEW ar, NEW wb, NEW aw, NEW w, NEW rready, NEW bready, NEW arready,
           NEW r, NEW awready, NEW wready, NEW b,
           CoreInputs(ar, wb, aw, w), MemInputs(r, b),
           Clock(ar, wb, aw, w, rready, bready, arready, r, awready, wready, b)
    PROVE  DataInv'
<1>. DEFINE req == Passed(f_req_fifo, req_fifo)
            taken == Moves(rsp_fifo, f_rsp_fifo)
<1>1. Types /\ ArrayInv /\ MemInv /\ CleanLinesAgree
    BY DEF DataInv
<1>2. Types'
    BY <1>1, EdgeTypes
<1>3. MemEdge(req, taken, arready, r, awready, wready, b)
    BY DEF Clock, MemEdge, BackEdge
<1>4. StateRegisters /\ CacheMemCycle(CacheMemRequest, LineReady)
    BY <1>3 DEF MemEdge, CacheCycle, LineReady
<1>. HIDE DEF req, taken
<1>5. ArrayInv'
    BY <1>1, <1>4, ArrayStep
<1>6. MemInv'
    BY <1>1, <1>3, MemStep
<1>7. CleanLinesAgree'
    BY <1>1, <1>2, <1>3, CleanStep
<1>. QED BY <1>2, <1>5, <1>6, <1>7 DEF DataInv

LEMMA CycleStep == ASSUME DataInv, Cycle PROVE DataInv'
<1>1. PICK ar \in ReadBursts \cup {None}, wb \in WriteBursts \cup {None},
           offerA \in Choice(coreAw # None), offerW \in Choice(coreW # << >>),
           arready \in Choice(AR # None /\ s_r = << >>),
           awready \in Choice(AW # None /\ s_aw = None),
           wready \in Choice(W # None /\ ~FullBurst),
           giveR \in Choice(s_r # << >>), giveB \in Choice(s_b > 0),
           ready \in BOOLEAN :
              Clock(ar, wb, If(offerA, coreAw), If(offerW, Head(coreW)),
                    ready, ready, arready, If(giveR, Head(s_r)),
                    awready, wready, If(giveB, "OKAY"))
    BY DEF Cycle
<1>2. CoreInputs(ar, wb, If(offerA, coreAw), If(offerW, Head(coreW)))
    BY <1>1 DEF CoreInputs, If, Choice
<1>3. MemInputs(If(giveR, Head(s_r)), If(giveB, "OKAY"))
    BY <1>1 DEF MemInputs, If, Choice
<1>. QED BY <1>1, <1>2, <1>3, EdgeStep

(***************************************************************************)
(* A reset at rest clears registers; tags, dirty bits, lines and memory    *)
(* keep what they hold.                                                    *)
(***************************************************************************)
LEMMA EmptyTypes ==
    \A T : << >> \in Seq(T)
OBVIOUS

LEMMA ResetTypes == ASSUME Types, Reset PROVE Types'
<1>1. CoreTypes'
    BY EmptyTypes DEF Types, CoreTypes, Reset, FrontendReset
<1>2. CacheTypes'
    BY EmptyTypes DEF Types, CacheTypes, Reset, CacheReset
<1>3. ArrayTypes'
    BY EmptyTypes DEF Types, ArrayTypes, Reset, CacheReset, CacheMemReset
<1>4. BackendTypes'
    <2>1. /\ b_req_fifo' = << >> /\ b_rsp_fifo' = << >> /\ b_state' = "idle"
          /\ b_line_chunk' = 0 /\ b_cnt_burst' = 0 /\ b_cnt_wr_rsp' = 0
          /\ b_wr_rsp_complete' = FALSE
          /\ b_rd_in' = None /\ b_wr_in_addr' = None /\ b_wr_in_data' = None
          /\ b_rd_out' = None /\ b_wr_out' = None
          /\ b_req_reg' = b_req_reg /\ b_line_reg' = b_line_reg
        BY DEF Reset, BackendReset
    <2>2. b_req_fifo' \in Seq(MemReq) /\ b_rsp_fifo' \in Seq(Line)
        BY <2>1, EmptyTypes
    <2>3. 0 \in 0 .. Beats - 1 /\ 0 \in 0 .. Beats /\ 0 \in 0 .. 255
        BY BeatsPerLine
    <2>4. b_req_reg \in LineReq /\ b_line_reg \in Line
        BY DEF Types, BackendTypes
    <2>. QED BY <2>1, <2>2, <2>3, <2>4 DEF BackendTypes
<1>5. MemoryTypes'
    BY EmptyTypes DEF Types, MemoryTypes, Reset
<1>. QED BY <1>1, <1>2, <1>3, <1>4, <1>5 DEF Types

LEMMA ResetStep == ASSUME DataInv, ~ResetAnytime, Reset PROVE DataInv'
<1>1. Types' /\ Types
    BY ResetTypes DEF DataInv
<1>2. ArrayRests /\ ArrayRests'
    BY DEF Reset, Quiet, PipelineEmpty, CacheReset, CacheMemReset, ArrayRests
<1>3. state' = "idle"
    BY DEF Reset, CacheReset
<1>4. ArrayInv'
    BY <1>2, <1>3 DEF ArrayInv
<1>5. MemRests'
    BY DEF Reset, CacheReset, BackendReset, MemRests, QueuesHold, BackendRests,
           NoRead, NoWrite, NoBeats, NoAnswers
<1>6. MemInv'
    BY <1>3, <1>5 DEF MemInv
<1>7. CleanLinesAgree'
    <2>1. tag_array' = tag_array /\ dirty_array' = dirty_array /\ bram' = bram
          /\ mem' = mem
        BY DEF Reset, CacheReset, CacheMemReset
    <2>2. ASSUME NEW i \in 0 .. Sets - 1
          PROVE  LineValue(i)' = LineValue(i)
        <3>1. NoReq \in LineReq
            BY DEF NoReq, LineReq, ZeroLine, Line, Value
        <3>2. LineValue(i) = bram[i]
            BY <1>1, <1>2, <3>1, LineIs DEF Types
        <3>3. LineValue(i)' = bram'[i]
            BY <1>1, <1>2, <3>1, LineIsNext DEF Types
        <3>. QED BY <2>1, <3>2, <3>3
    <2>3. ASSUME NEW i \in 0 .. Sets - 1
          PROVE  MemLine(tag_array[i], i)' = MemLine(tag_array[i], i)
        BY <2>1 DEF MemLine
    <2>. QED BY <2>1, <2>2, <2>3 DEF DataInv, CleanLinesAgree
<1>. QED BY <1>1, <1>4, <1>6, <1>7 DEF DataInv

LEMMA StutterStep == ASSUME DataInv, UNCHANGED vars PROVE DataInv'
<1>1. UNCHANGED fvars /\ UNCHANGED cvars /\ UNCHANGED bvars /\ UNCHANGED envvars
    BY DEF vars
<1>2. Types'
    <2>1. CoreTypes'
        BY <1>1 DEF DataInv, Types, CoreTypes, fvars, envvars
    <2>2. CacheTypes'
        BY <1>1 DEF DataInv, Types, CacheTypes, cvars
    <2>3. ArrayTypes'
        BY <1>1 DEF DataInv, Types, ArrayTypes, cvars, cmvars
    <2>4. BackendTypes'
        BY <1>1 DEF DataInv, Types, BackendTypes, bvars
    <2>5. MemoryTypes'
        BY <1>1 DEF DataInv, Types, MemoryTypes, envvars
    <2>. QED BY <2>1, <2>2, <2>3, <2>4, <2>5 DEF Types
<1>3. ArrayInv'
    BY <1>1 DEF DataInv, ArrayInv, ArrayRests, AtArrayQueue, BeingRead, BeingWritten,
                ArrayAnswered, cvars, cmvars
<1>4. MemInv'
    <2>1. BackendRests' = BackendRests
        BY <1>1 DEF BackendRests, NoRead, NoWrite, NoBeats, NoAnswers, bvars, envvars
    <2>2. MemRests' = MemRests
        BY <1>1, <2>1 DEF MemRests, QueuesHold, bvars, cvars
    <2>3. ASSUME NEW a
          PROVE  Reading(a)' = Reading(a) /\ Writing(a)' = Writing(a)
        <3>1. Reading(a)' = Reading(a)
            BY <1>1 DEF Reading, ReadOffered, Receiving, NoWrite, NoBeats, NoAnswers,
                        bvars, envvars
        <3>2. Writing(a)' = Writing(a)
            BY <1>1 DEF Writing, Sending, Answering, NoRead, NoBeats, NoAnswers,
                        bvars, envvars
        <3>. QED BY <3>1, <3>2
    <2>4. ASSUME NEW q
          PROVE  InFlight(q)' = InFlight(q) /\ Harmless(q.addr)' = Harmless(q.addr)
        <3>1. AtCache(q)' = AtCache(q) /\ AtBackend(q)' = AtBackend(q)
            BY <1>1, <2>1 DEF AtCache, AtBackend, QueuesHold, bvars, cvars
        <3>2. InBurst(q)' = InBurst(q)
            BY <1>1, <2>3 DEF InBurst, QueuesHold, bvars, cvars
        <3>3. Answered(q)' = Answered(q)
            BY <1>1, <2>1 DEF Answered, QueuesHold, LineOf, MemLine, bvars, cvars,
                              envvars
        <3>4. Harmless(q.addr)' = Harmless(q.addr)
            BY <1>1 DEF Harmless, cvars
        <3>. QED BY <3>1, <3>2, <3>3, <3>4 DEF InFlight
    <2>5. /\ state' = state /\ miss_req' = miss_req /\ wb_addr' = wb_addr
          /\ dirty_array' = dirty_array
        BY <1>1 DEF cvars
    <2>. QED BY <2>2, <2>4, <2>5 DEF DataInv, MemInv
<1>5. CleanLinesAgree'
    <2>1. /\ tag_array' = tag_array /\ dirty_array' = dirty_array /\ mem' = mem
          /\ AtArray' = AtArray /\ bram' = bram
        BY <1>1 DEF AtArray, cvars, cmvars, envvars
    <2>2. \A i \in 0 .. Sets - 1 : LineValue(i)' = LineValue(i)
        BY <2>1 DEF LineValue
    <2>3. \A i \in 0 .. Sets - 1 : MemLine(tag_array[i], i)' = MemLine(tag_array[i], i)
        BY <2>1 DEF MemLine
    <2>. QED BY <2>1, <2>2, <2>3 DEF DataInv, CleanLinesAgree
<1>. QED BY <1>2, <1>3, <1>4, <1>5 DEF DataInv

(***************************************************************************)
(* At configuration nothing is valid and nothing on its way.               *)
(***************************************************************************)
LEMMA InitTypes == ASSUME Init PROVE Types
<1>1. /\ ZeroLine \in Line /\ ZeroBeat \in [Pair -> Value] /\ NoReq \in LineReq
      /\ NoLineReq \in LineReq /\ ~NoReq.write
    BY DEF ZeroLine, ZeroBeat, Line, Value, NoReq, NoLineReq, LineReq
<1>2. 0 \in Nat /\ 0 \in 0 .. 1 /\ 0 \in 0 .. 255 /\ Beats \in Nat \ {0}
      /\ 0 \in 0 .. Beats - 1 /\ 0 \in 0 .. Beats
    BY BeatsPerLine
<1>3. CoreTypes
    BY <1>1, <1>2, EmptyTypes
       DEF Init, FrontendInit, CoreTypes, Gathering
<1>4. CacheTypes
    BY <1>1, <1>2, EmptyTypes DEF Init, CacheInit, CacheTypes
<1>5. ArrayTypes
    BY <1>1, <1>2, EmptyTypes DEF Init, CacheInit, CacheMemInit, ArrayTypes
<1>6. BackendTypes
    <2>1. /\ b_req_fifo = << >> /\ b_rsp_fifo = << >> /\ b_state = "idle"
          /\ b_req_reg = NoLineReq /\ b_line_reg = ZeroLine /\ b_line_chunk = 0
          /\ b_cnt_burst = 0 /\ b_cnt_wr_rsp = 0 /\ b_wr_rsp_complete = FALSE
          /\ b_rd_in = None /\ b_wr_in_addr = None /\ b_wr_in_data = None
          /\ b_rd_out = None /\ b_wr_out = None
        BY DEF Init, BackendInit
    <2>2. b_req_fifo \in Seq(MemReq) /\ b_rsp_fifo \in Seq(Line)
        BY <2>1, EmptyTypes
    <2>. QED BY <1>1, <1>2, <2>1, <2>2 DEF BackendTypes
<1>7. MemoryTypes
    <2>1. mem \in [Words -> Value]
        BY DEF Init, Words, Value
    <2>. QED BY <1>2, <2>1, EmptyTypes DEF Init, MemoryTypes
<1>. QED BY <1>3, <1>4, <1>5, <1>6, <1>7 DEF Types

LEMMA InitHolds == ASSUME Init PROVE DataInv
<1>1. Types
    BY InitTypes
<1>2. ArrayInv
    BY DEF Init, CacheInit, CacheMemInit, ArrayInv, ArrayRests
<1>3. MemInv
    BY DEF Init, CacheInit, BackendInit, MemInv, MemRests, QueuesHold, BackendRests,
           NoRead, NoWrite, NoBeats, NoAnswers
<1>4. CleanLinesAgree
    <2>1. tag_array = [i \in 0 .. Sets - 1 |-> None]
        BY DEF Init, CacheInit
    <2>. QED BY <2>1 DEF CleanLinesAgree
<1>. QED BY <1>1, <1>2, <1>3, <1>4 DEF DataInv

(***************************************************************************)
(* The data cache's queues and registers have their types, the array and   *)
(* memory are at one request each, and clean lines agree with memory, as   *)
(* long as a reset comes at rest.                                          *)
(***************************************************************************)
THEOREM DataCacheInvariant ==
    ASSUME ~ResetAnytime
    PROVE  Spec => []DataInv
<1>1. Init => DataInv
    BY InitHolds
<1>2. DataInv /\ [Next]_vars => DataInv'
    BY CycleStep, ResetStep, StutterStep DEF Next
<1>. QED BY <1>1, <1>2, PTL DEF Spec

(***************************************************************************)
(* A line without dirty words holds what memory holds, so start_miss may   *)
(* throw it away: whatever the geometry, the bursts of the core, the       *)
(* delays of the memory and the number of answers it gives to a write.     *)
(***************************************************************************)
THEOREM CleanLinesStay ==
    ASSUME ~ResetAnytime
    PROVE  Spec => []CleanLinesAgree
<1>1. DataInv => CleanLinesAgree
    BY DEF DataInv
<1>. QED BY <1>1, DataCacheInvariant, PTL
-----------------------------------------------------------------------------
(***************************************************************************)
(* Lines asked for and lines consumed.  Every line the frontend asks for   *)
(* is on its way or with the cache until it is taken: so many are on their *)
(* way, and so many more will be asked for, as the bursts still read.      *)
(***************************************************************************)
Line0(a) == a \div LineBytes

\* A burst as rd_req_fifo has it: its last line, and how many it touches.
LastLine(c) == Line0(c.addr + 8 * c.beats - 1)
LineCount(c) == LastLine(c) - Line0(c.addr) + 1

\* Bursts of words that the counters of beats and lines can count.
Countable ==
    {c \in [addr : Nat, beats : 1 .. BeatMod - 1] :
        c.addr % 4 = 0 /\ LineCount(c) <= LineMod}

BurstOf(ar) == [addr |-> ar.addr, beats |-> ar.len % BeatMod]
CountableReads == \A ar \in ReadBursts : ar.len < BeatMod /\ BurstOf(ar) \in Countable

Busy == IF state = "idle" THEN 0 ELSE 1
OnTheWay ==
    Len(f_req_fifo) + Len(req_fifo) + Busy + Len(rsp_fifo) + Len(f_rsp_fifo)

StillAsked == IF core_state = "readLines" THEN total_req - cnt_req ELSE 0

QueuedLines(q) ==
    (IF Len(q) > 0 THEN LineCount(q[1]) ELSE 0)
        + (IF Len(q) > 1 THEN LineCount(q[2]) ELSE 0)
BurstLines ==
    IF axi_state = "idle" THEN 0
    ELSE LastLine(curr_info) - Line0(v_axi_data.addr)
            + (IF axi_state = "waitLine" THEN 1 ELSE 0)

WriteStates == {"setLine", "leftover", "waitWrite"}
FrontTypes ==
    /\ core_state \in {"idle", "readLines"} \cup WriteStates
    /\ axi_state \in {"idle", "waitLine", "sameLine", "write"}
    /\ axi_state = "write" <=> core_state \in WriteStates
    /\ rsp_fifo \in Seq(Line) /\ f_rsp_fifo \in Seq(Line)
    /\ f_rd_in \in ReadBursts \cup {None}
    /\ rd_req_fifo \in Seq(Countable) /\ Len(rd_req_fifo) <= 2
    /\ write_miss \in BOOLEAN

\* Where the burst being read is: whole beats and, at the beginning of a line,
\* half a beat.
BurstPlace ==
    axi_state \in {"waitLine", "sameLine"} =>
        /\ curr_info \in Countable /\ cnt_bits \in 0 .. curr_info.beats - 1
        /\ v_axi_data.count \in 0 .. 1
        /\ v_axi_data.addr
              = curr_info.addr + 8 * cnt_bits + 4 * v_axi_data.count
        /\ v_axi_data.count = 1 =>
              axi_state = "waitLine" /\ Chunk(v_axi_data.addr) = 0

AskInv ==
    core_state = "readLines" =>
        total_req \in Nat /\ cnt_req \in Nat /\ cnt_req < total_req

Balanced ==
    IF axi_state = "write"
      THEN /\ rd_req_fifo = << >>
           /\ OnTheWay = IF core_state = "waitWrite" THEN 1 ELSE 0
      ELSE OnTheWay + StillAsked = BurstLines + QueuedLines(rd_req_fifo)

\* The backend goes to rest while its answer is on the way.
AnswerGiven ==
    b_state = "waitB" /\ b_wr_rsp_complete => b_rsp_fifo # << >>

CountInv == FrontTypes /\ BurstPlace /\ AskInv /\ Balanced /\ AnswerGiven

(***************************************************************************)
(* A word's line and place, and those of the next word.                    *)
(***************************************************************************)
LEMMA WordSteps ==
    ASSUME NEW a \in Nat, a % 4 = 0
    PROVE  /\ Line0(a) \in Nat /\ Chunk(a) \in 0 .. WPL - 1
           /\ Line0(a + 3) = Line0(a) /\ (a + 4) % 4 = 0
           /\ Chunk(a) = WPL - 1 =>
                Line0(a + 4) = Line0(a) + 1 /\ Chunk(a + 4) = 0
           /\ Chunk(a) # WPL - 1 =>
                Line0(a + 4) = Line0(a) /\ Chunk(a + 4) = Chunk(a) + 1
<1>. DEFINE w == a \div 4
            p == w \div WPL
            c == w % WPL
<1>1. w \in Nat /\ a = 4 * w
    OBVIOUS
<1>. HIDE DEF w
<1>2. WPL \in Nat \ {0} /\ p \in Nat /\ c \in 0 .. WPL - 1 /\ w = WPL * p + c
    <2>1. WPL \in Nat \ {0}
        BY BeatsPerLine
    <2>. QED BY <1>1, <2>1
<1>. HIDE DEF p, c
<1>3. Chunk(a) = c
    BY DEF Chunk, c, w
<1>. DEFINE L == LineBytes
            P == WPL * p
<1>4. L = 4 * WPL /\ L \in Nat \ {0} /\ P \in Nat
    BY <1>2 DEF LineBytes
<1>5. L * p = 4 * P
    BY <1>2, <1>4
<1>6. w = P + c /\ a = L * p + 4 * c
    BY <1>1, <1>2, <1>5
<1>7. 4 * c \in 0 .. L - 1 /\ 4 * c + 3 \in 0 .. L - 1
    BY <1>2, <1>4
<1>8. a \div L = p /\ (a + 3) \div L = p
    <2>1. a \div L = p
        BY <1>2, <1>4, <1>6, <1>7, QuotientUnique
    <2>2. a + 3 = L * p + (4 * c + 3)
        BY <1>2, <1>4, <1>5, <1>6
    <2>. HIDE DEF L
    <2>3. (a + 3) \div L = p
        BY <1>2, <1>4, <1>7, <2>2, QuotientUnique
    <2>. QED BY <2>1, <2>3
<1>9. (a + 4) % 4 = 0 /\ (a + 4) \div 4 = w + 1
    BY <1>1
<1>10. ASSUME c = WPL - 1
       PROVE  (a + 4) \div L = p + 1 /\ (w + 1) % WPL = 0
    <2>1. w + 1 = WPL * (p + 1) + 0 /\ a + 4 = L * (p + 1) + 0
        BY <1>2, <1>4, <1>5, <1>6, <1>10
    <2>. HIDE DEF L, P
    <2>2. p + 1 \in Nat /\ 0 \in 0 .. WPL - 1 /\ 0 \in 0 .. L - 1
        BY <1>2, <1>4
    <2>3. (w + 1) % WPL = 0
        BY <1>1, <1>2, <2>1, <2>2, QuotientUnique
    <2>4. (a + 4) \div L = p + 1
        BY <1>2, <1>4, <2>1, <2>2, QuotientUnique
    <2>. QED BY <2>3, <2>4
<1>11. ASSUME c # WPL - 1
       PROVE  (a + 4) \div L = p /\ (w + 1) % WPL = c + 1
    <2>1. /\ w + 1 = WPL * p + (c + 1) /\ a + 4 = L * p + (4 * c + 4)
          /\ c + 1 \in 0 .. WPL - 1 /\ 4 * c + 4 \in 0 .. L - 1
        BY <1>2, <1>4, <1>5, <1>6, <1>11
    <2>. DEFINE d == c + 1
                v == w + 1
    <2>. HIDE DEF L, P
    <2>2. (w + 1) % WPL = c + 1
        <3>1. v = WPL * p + d /\ d \in 0 .. WPL - 1 /\ v \in Nat
            BY <1>1, <2>1
        <3>. HIDE DEF d, v
        <3>2. v % WPL = d
            BY <1>2, <3>1, QuotientUnique
        <3>. QED BY <3>2 DEF d, v
    <2>3. (a + 4) \div L = p
        BY <1>2, <1>4, <2>1, QuotientUnique
    <2>. QED BY <2>2, <2>3
<1>12. Chunk(a + 4) = (w + 1) % WPL
    BY <1>9 DEF Chunk
<1>. QED BY <1>2, <1>3, <1>8, <1>9, <1>10, <1>11, <1>12 DEF Line0, L

LEMMA LineOrder ==
    ASSUME NEW a \in Nat, NEW b \in Nat, a <= b
    PROVE  Line0(a) \in Nat /\ Line0(b) \in Nat /\ Line0(a) <= Line0(b)
<1>. DEFINE L == LineBytes
            p == a \div L
            q == b \div L
<1>1. L \in Nat \ {0}
    BY LineSize
<1>. HIDE DEF L
<1>. DEFINE r == a % L
            s == b % L
<1>2. /\ p \in Nat /\ r \in 0 .. L - 1 /\ a = L * p + r
      /\ q \in Nat /\ s \in 0 .. L - 1 /\ b = L * q + s
    BY <1>1
<1>. HIDE DEF p, q, r, s
<1>3. p <= q
    <2>. SUFFICES ASSUME q + 1 <= p PROVE FALSE
        BY <1>2
    <2>1. L * (q + 1) <= L * p
        BY <1>1, <1>2
    <2>2. L * (q + 1) = L * q + L /\ L * q \in Nat /\ L * p \in Nat
        BY <1>1, <1>2
    <2>. DEFINE x == L * q
                y == L * p
    <2>3. x \in Nat /\ y \in Nat /\ x + L <= y /\ a = y + r /\ b = x + s
        BY <1>2, <2>1, <2>2
    <2>. HIDE DEF x, y
    <2>. QED BY <1>1, <1>2, <2>3
<1>. QED BY <1>2, <1>3 DEF p, q, L, Line0

LEMMA NextDiffers ==
    ASSUME NEW p \in Nat, NEW M \in Nat, M >= 2
    PROVE  (p + 1) % M # p % M
<1>. DEFINE x == p \div M
            r == p % M
<1>1. x \in Nat /\ r \in 0 .. M - 1 /\ p = M * x + r
    OBVIOUS
<1>. HIDE DEF x, r
<1>2. CASE r < M - 1
    <2>1. p + 1 = M * x + (r + 1) /\ r + 1 \in 0 .. M - 1
        BY <1>1, <1>2
    <2>2. (p + 1) % M = r + 1
        BY <1>1, <2>1, QuotientUnique
    <2>. QED BY <1>1, <2>2 DEF r
<1>3. CASE r = M - 1
    <2>1. p + 1 = M * (x + 1) + 0 /\ x + 1 \in Nat
        BY <1>1, <1>3
    <2>2. (p + 1) % M = 0
        BY <1>1, <2>1, QuotientUnique
    <2>. QED BY <1>1, <1>3, <2>2 DEF r
<1>. QED BY <1>1, <1>2, <1>3

(***************************************************************************)
(* What is known of a burst that can be counted, and that LinesOf counts   *)
(* it right.                                                               *)
(***************************************************************************)
LEMMA BurstParts ==
    ASSUME NEW c \in Countable
    PROVE  /\ c.addr \in Nat /\ c.addr % 4 = 0 /\ c.beats \in 1 .. BeatMod - 1
           /\ c.addr + 8 * c.beats - 1 \in Nat
           /\ Line0(c.addr) \in Nat /\ LastLine(c) \in Nat
           /\ Line0(c.addr) <= LastLine(c) /\ LineCount(c) \in 1 .. LineMod
<1>1. /\ c.addr \in Nat /\ c.addr % 4 = 0 /\ c.beats \in 1 .. BeatMod - 1
      /\ LineCount(c) <= LineMod /\ LineMod \in Nat
    BY CounterAssumption DEF Countable
<1>2. c.addr + 8 * c.beats - 1 \in Nat /\ c.addr <= c.addr + 8 * c.beats - 1
    BY <1>1, CounterAssumption
<1>3. /\ Line0(c.addr) \in Nat /\ LastLine(c) \in Nat
      /\ Line0(c.addr) <= LastLine(c)
    BY <1>1, <1>2, LineOrder DEF LastLine
<1>. QED BY <1>1, <1>2, <1>3 DEF LineCount

LEMMA LinesCounted ==
    ASSUME CountableReads, NEW ar \in ReadBursts
    PROVE  /\ BurstOf(ar) \in Countable
           /\ LinesOf(ar.addr, ar.len) = LineCount(BurstOf(ar))
<1>. DEFINE c == BurstOf(ar)
            d == LastLine(c) - Line0(c.addr)
<1>1. c \in Countable /\ c.addr = ar.addr /\ c.beats = ar.len % BeatMod
    BY DEF CountableReads, BurstOf
<1>. HIDE DEF c
<1>2. d \in 0 .. LineMod - 1 /\ LineMod \in Nat \ {0}
    BY <1>1, BurstParts, CounterAssumption DEF LineCount
<1>3. d % LineMod = d
    BY <1>2
<1>4. LinesOf(ar.addr, ar.len) = (d % LineMod) + 1
    BY <1>1 DEF LinesOf, LastLine, Line0
<1>5. LineCount(c) = d + 1
    BY DEF LineCount
<1>. QED BY <1>1, <1>3, <1>4, <1>5 DEF c

-----------------------------------------------------------------------------
(***************************************************************************)
(* A line on its way moves from queue to queue.                            *)
(***************************************************************************)
Ends == (wait_mem_rsp /\ write_miss) \/ cache_mem_rsp
Takes == wr_rq_wait \/ rd_axi_wait_data
Asks(w) == rd_req_send \/ SendsLine(w)

LEMMA ClockedLength ==
    ASSUME NEW T, NEW q \in Seq(T), NEW deq \in BOOLEAN, NEW enq \in BOOLEAN,
           NEW e, deq => q # << >>
    PROVE  Len(Clocked(q, deq, enq, e)) = Len(q) - Bit(deq) + Bit(enq)
<1>. DEFINE U == T \cup {e}
<1>1. q \in Seq(U)
    OBVIOUS
<1>. HIDE DEF U
<1>2. e \in U
    BY DEF U
<1>. QED BY <1>1, <1>2, ClockedFollows DEF Follows

LEMMA BusyStep ==
    ASSUME Types, write_miss \in BOOLEAN, StateRegisters
    PROVE  Busy' = Busy + Bit(core_req) - Bit(Ends) /\ write_miss' \in BOOLEAN
<1>1. state' = NextState
    BY DEF StateRegisters
<1>2. /\ state = "waitMem" /\ wait_mem_rsp =>
            state' = IF write_miss THEN "idle" ELSE "fill"
    <2>. SUFFICES ASSUME state = "waitMem", wait_mem_rsp
                  PROVE  state' = IF write_miss THEN "idle" ELSE "fill"
        OBVIOUS
    <2>1. ~(ReadHit \/ WriteHit) /\ ~WriteMiss /\ ~ReadMiss
        BY SendsFrom
    <2>2. /\ ~start_miss /\ ~cache_mem_rsp /\ ~wait_fill_rsp /\ ~send_fill_req
          /\ ~writeback_rsp
        BY DEF start_miss, cache_mem_rsp, wait_fill_rsp, send_fill_req,
               writeback_rsp
    <2>. QED BY <1>1, <2>1, <2>2 DEF NextState
<1>3. /\ core_req => state = "idle"
      /\ wait_mem_rsp => state = "waitMem"
      /\ cache_mem_rsp => state = "access"
    BY DEF core_req, wait_mem_rsp, cache_mem_rsp
<1>4. state \in {"idle", "access", "miss", "readVictim", "fill", "waitFill",
                 "waitMem"}
    BY DEF Types, CacheTypes
<1>5. /\ state = "idle" => (state' # "idle" <=> core_req)
      /\ state # "idle" => (state' = "idle" <=> Ends)
    <2>1. CASE state = "idle"
        BY <2>1, StateStep
    <2>2. CASE state = "waitMem"
        BY <1>2, <1>3, <2>2, StateStep DEF Ends
    <2>3. CASE state = "access"
        BY <1>3, <2>3, StateStep DEF Ends
    <2>4. CASE state \in {"miss", "readVictim", "fill", "waitFill"}
        BY <1>3, <2>4, StateStep DEF Ends
    <2>. QED BY <1>4, <2>1, <2>2, <2>3, <2>4
<1>6. write_miss' \in BOOLEAN
    BY RulesAreBoolean DEF StateRegisters
<1>7. (core_req => state = "idle") /\ (Ends => state # "idle")
    BY <1>3 DEF Ends
<1>. QED BY <1>5, <1>6, <1>7 DEF Busy, Bit

LEMMA LengthsNow ==
    ASSUME Types, FrontTypes
    PROVE  /\ Len(f_req_fifo) \in Nat /\ Len(req_fifo) \in Nat
           /\ Len(rsp_fifo) \in Nat /\ Len(f_rsp_fifo) \in Nat /\ Busy \in 0 .. 1
           /\ OnTheWay \in Nat
<1>1. /\ Len(f_req_fifo) \in Nat /\ Len(req_fifo) \in Nat
      /\ Len(rsp_fifo) \in Nat /\ Len(f_rsp_fifo) \in Nat /\ Busy \in 0 .. 1
    BY DEF Types, CoreTypes, CacheTypes, FrontTypes, Busy
<1>. QED BY <1>1 DEF OnTheWay

LEMMA WayStep ==
    ASSUME Types, FrontTypes,
           NEW ar, NEW aw, NEW w, NEW rready, NEW bready, NEW memTaken, NEW memRsp,
           FrontendCycle(ar, rready, aw, w, bready, Moves(f_req_fifo, req_fifo),
                         Passed(rsp_fifo, f_rsp_fifo)),
           CacheCycle(Passed(f_req_fifo, req_fifo), Moves(rsp_fifo, f_rsp_fifo),
                      memTaken, memRsp)
    PROVE  /\ OnTheWay' = OnTheWay + Bit(Asks(w)) - Bit(Takes)
           /\ rsp_fifo' \in Seq(Line) /\ f_rsp_fifo' \in Seq(Line)
           /\ write_miss' \in BOOLEAN
<1>. DEFINE m1 == Moves(f_req_fifo, req_fifo)
            m2 == Moves(rsp_fifo, f_rsp_fifo)
            req == Passed(f_req_fifo, req_fifo)
            rsp == Passed(rsp_fifo, f_rsp_fifo)
            line == IF cache_mem_rsp THEN Head(cm_rsp_fifo) ELSE Head(mem_rsp_fifo)
<1>1. /\ f_req_fifo \in Seq(MemReq) /\ req_fifo \in Seq(MemReq)
      /\ rsp_fifo \in Seq(Line) /\ f_rsp_fifo \in Seq(Line)
      /\ cm_rsp_fifo \in Seq(Line) /\ mem_rsp_fifo \in Seq(Line)
      /\ write_miss \in BOOLEAN
    BY DEF Types, CoreTypes, CacheTypes, ArrayTypes, FrontTypes
<1>2. /\ m1 \in BOOLEAN /\ m2 \in BOOLEAN /\ core_req \in BOOLEAN
      /\ Ends \in BOOLEAN /\ Takes \in BOOLEAN /\ Asks(w) \in BOOLEAN
    BY RulesAreBoolean DEF Ends, Takes, Asks, wr_rq_wait, rd_axi_wait_data,
       rd_req_send, SendsLine, wait_mem_rsp, cache_mem_rsp
<1>3. /\ m1 => f_req_fifo # << >>
      /\ m2 => rsp_fifo # << >>
      /\ core_req => req_fifo # << >>
      /\ Takes => f_rsp_fifo # << >>
      /\ cache_mem_rsp => cm_rsp_fifo # << >>
      /\ wait_mem_rsp => mem_rsp_fifo # << >>
    BY DEF Moves, EMPTY_N, core_req, Takes, wr_rq_wait, rd_axi_wait_data,
           cache_mem_rsp, wait_mem_rsp
<1>4. /\ req \in MemReq \cup {None} /\ (req # None <=> m1)
      /\ rsp \in Line \cup {None} /\ (rsp # None <=> m2)
    BY <1>1, <1>3, NonEmpty, NothingIsNothing DEF Passed
<1>5. Ends => line \in Line
    BY <1>1, <1>3, NonEmpty DEF Ends
<1>6. \E e : f_req_fifo' = Clocked(f_req_fifo, m1, Asks(w), e)
    BY DEF FrontendCycle, FrontendFifos, Asks
<1>7. /\ req_fifo' = Clocked(req_fifo, core_req, req # None, req)
      /\ rsp_fifo' = Clocked(rsp_fifo, m2, Ends, line)
      /\ f_rsp_fifo' = Clocked(f_rsp_fifo, Takes, rsp # None, rsp)
    BY DEF CacheCycle, Fifos, FrontendCycle, FrontendFifos, Ends, Takes
<1>. HIDE DEF m1, m2, req, rsp, line
<1>8. Len(f_req_fifo') = Len(f_req_fifo) - Bit(m1) + Bit(Asks(w))
    BY <1>1, <1>2, <1>3, <1>6, ClockedLength
<1>9. Len(req_fifo') = Len(req_fifo) - Bit(core_req) + Bit(m1)
    BY <1>1, <1>2, <1>3, <1>4, <1>7, ClockedLength
<1>10. rsp_fifo' \in Seq(Line) /\ Len(rsp_fifo') = Len(rsp_fifo) - Bit(m2) + Bit(Ends)
    <2>1. Follows(Line, rsp_fifo, Clocked(rsp_fifo, m2, Ends, line), m2, Ends, line)
        BY <1>1, <1>2, <1>3, <1>5, ClockedFollows
    <2>. QED BY <1>7, <2>1 DEF Follows
<1>11. /\ f_rsp_fifo' \in Seq(Line)
       /\ Len(f_rsp_fifo') = Len(f_rsp_fifo) - Bit(Takes) + Bit(m2)
    <2>1. (m2 => rsp \in Line) /\ (rsp # None) = m2
        BY <1>2, <1>4
    <2>2. f_rsp_fifo' = Clocked(f_rsp_fifo, Takes, m2, rsp)
        BY <1>7, <2>1
    <2>3. Follows(Line, f_rsp_fifo, Clocked(f_rsp_fifo, Takes, m2, rsp), Takes, m2,
                  rsp)
        BY <1>1, <1>2, <1>3, <2>1, ClockedFollows
    <2>. QED BY <2>2, <2>3 DEF Follows
<1>12. Busy' = Busy + Bit(core_req) - Bit(Ends) /\ write_miss' \in BOOLEAN
    BY <1>1, BusyStep DEF CacheCycle
<1>13. /\ Bit(m1) \in 0 .. 1 /\ Bit(m2) \in 0 .. 1 /\ Bit(core_req) \in 0 .. 1
       /\ Bit(Ends) \in 0 .. 1 /\ Bit(Takes) \in 0 .. 1 /\ Bit(Asks(w)) \in 0 .. 1
    BY DEF Bit
<1>14. OnTheWay' = Len(f_req_fifo') + Len(req_fifo') + Busy' + Len(rsp_fifo')
                     + Len(f_rsp_fifo')
    BY DEF OnTheWay, Busy
<1>15. OnTheWay' = OnTheWay + Bit(Asks(w)) - Bit(Takes)
    <2>1. OnTheWay = Len(f_req_fifo) + Len(req_fifo) + Busy + Len(rsp_fifo)
                       + Len(f_rsp_fifo)
        BY DEF OnTheWay
    <2>2. /\ Len(f_req_fifo) \in Nat /\ Len(req_fifo) \in Nat
          /\ Len(rsp_fifo) \in Nat /\ Len(f_rsp_fifo) \in Nat /\ Busy \in Nat
        BY LengthsNow
    <2>. DEFINE n1 == Len(f_req_fifo')
                n2 == Len(req_fifo')
                n3 == Len(rsp_fifo')
                n4 == Len(f_rsp_fifo')
                n == Busy'
                b1 == Bit(m1)
                b2 == Bit(m2)
                b3 == Bit(core_req)
                b4 == Bit(Ends)
                b5 == Bit(Takes)
                b6 == Bit(Asks(w))
    <2>3. /\ n1 = Len(f_req_fifo) - b1 + b6
          /\ n2 = Len(req_fifo) - b3 + b1
          /\ n3 = Len(rsp_fifo) - b2 + b4
          /\ n4 = Len(f_rsp_fifo) - b5 + b2
          /\ n = Busy + b3 - b4
          /\ OnTheWay' = n1 + n2 + n + n3 + n4
        BY <1>8, <1>9, <1>10, <1>11, <1>12, <1>14
    <2>4. /\ b1 \in 0 .. 1 /\ b2 \in 0 .. 1 /\ b3 \in 0 .. 1
          /\ b4 \in 0 .. 1 /\ b5 \in 0 .. 1 /\ b6 \in 0 .. 1
        BY <1>13
    <2>5. SUFFICES OnTheWay' = OnTheWay + b6 - b5
        OBVIOUS
    <2>. HIDE DEF n1, n2, n3, n4, n, b1, b2, b3, b4, b5, b6
    <2>. QED BY <2>1, <2>2, <2>3, <2>4
<1>. QED BY <1>10, <1>11, <1>12, <1>15

-----------------------------------------------------------------------------
(***************************************************************************)
(* The next words of a burst: in the line at hand, or in the next one.     *)
(***************************************************************************)
ReadsBurst == axi_state \in {"waitLine", "sameLine"}

LEMMA PlaceNow ==
    ASSUME BurstPlace, ReadsBurst
    PROVE  LET a == v_axi_data.addr
               c == curr_info
           IN  /\ c \in Countable /\ a \in Nat /\ a % 4 = 0
               /\ cnt_bits \in 0 .. c.beats - 1 /\ v_axi_data.count \in 0 .. 1
               /\ a = c.addr + 8 * cnt_bits + 4 * v_axi_data.count
               /\ v_axi_data.count = 1 => Chunk(a) = 0
               /\ Chunk(a) \in 0 .. WPL - 1 /\ Line0(a) \in Nat /\ Avail = WPL - Chunk(a)
               /\ Partial <=> Chunk(a) = WPL - 1
               /\ Line0(c.addr) <= Line0(a) /\ Line0(a) <= LastLine(c)
<1>. DEFINE a == v_axi_data.addr
            c == curr_info
            k == v_axi_data.count
<1>1. /\ c \in Countable /\ cnt_bits \in 0 .. c.beats - 1 /\ k \in 0 .. 1
      /\ a = c.addr + 8 * cnt_bits + 4 * k /\ (k = 1 => Chunk(a) = 0)
    BY DEF BurstPlace, ReadsBurst
<1>2. c.addr \in Nat /\ c.addr % 4 = 0 /\ c.beats \in Nat
      /\ c.addr + 8 * c.beats - 1 \in Nat
    BY <1>1, BurstParts, CounterAssumption
<1>. HIDE DEF a, c, k
<1>3. a \in Nat /\ a % 4 = 0 /\ c.addr <= a /\ a <= c.addr + 8 * c.beats - 1
    <2>. DEFINE x == c.addr
                y == c.beats
                n == cnt_bits
    <2>1. /\ x \in Nat /\ x % 4 = 0 /\ y \in Nat /\ n \in Nat /\ n <= y - 1
          /\ k \in 0 .. 1 /\ a = x + 8 * n + 4 * k
        BY <1>1, <1>2
    <2>. HIDE DEF x, y, n
    <2>2. a \in Nat /\ x <= a /\ a <= x + 8 * y - 1
        BY <2>1
    <2>3. a % 4 = 0
        BY <2>1
    <2>. QED BY <2>2, <2>3 DEF x, y
<1>4. Chunk(a) \in 0 .. WPL - 1 /\ Line0(a) \in Nat
    BY <1>3, WordSteps
<1>5. Avail = WPL - Chunk(a) /\ (Partial <=> Chunk(a) = WPL - 1)
    <2>1. Avail = WPL - Chunk(a) /\ (Partial <=> Avail < 2)
        BY DEF Avail, Partial, a
    <2>. QED BY <1>4, <2>1, BeatsPerLine
<1>6. Line0(c.addr) <= Line0(a) /\ Line0(a) <= LastLine(c)
    BY <1>2, <1>3, LineOrder DEF LastLine
<1>. QED BY <1>1, <1>3, <1>4, <1>5, <1>6 DEF a, c, k

LEMMA NextPlace ==
    ASSUME BurstPlace, ReadsBurst
    PROVE  LET p == Line0(v_axi_data.addr)
               c == curr_info
           IN  /\ Partial =>
                    /\ v_axi_data.count = 0 /\ Avail = 1
                    /\ AddrNext = c.addr + 8 * cnt_bits + 4
                    /\ Line0(AddrNext) = p + 1 /\ Chunk(AddrNext) = 0
               /\ ~Partial =>
                    /\ AddrNext = c.addr + 8 * (cnt_bits + 1)
                    /\ Line0(AddrNext) \in {p, p + 1}
                    /\ LastBeat <=> cnt_bits + 1 = c.beats
                    /\ LastBeat => LastLine(c) = p
                    /\ ~LastBeat => (SameLine <=> Line0(AddrNext) = p)
<1>. DEFINE a == v_axi_data.addr
            c == curr_info
            k == v_axi_data.count
            n == cnt_bits
            p == Line0(a)
            g == Chunk(a)
<1>1. /\ c \in Countable /\ a \in Nat /\ a % 4 = 0 /\ n \in 0 .. c.beats - 1
      /\ k \in 0 .. 1 /\ a = c.addr + 8 * n + 4 * k /\ (k = 1 => g = 0)
      /\ g \in 0 .. WPL - 1 /\ p \in Nat /\ Avail = WPL - g
      /\ (Partial <=> g = WPL - 1) /\ Line0(c.addr) <= p
    BY PlaceNow
<1>2. /\ c.addr \in Nat /\ c.addr % 4 = 0 /\ c.beats \in 1 .. BeatMod - 1
      /\ Line0(c.addr) \in Nat /\ LastLine(c) \in Nat
      /\ LineCount(c) = LastLine(c) - Line0(c.addr) + 1 /\ LineCount(c) <= LineMod
      /\ LineCount(c) \in Nat /\ BeatMod \in Nat /\ LineMod \in Nat
    BY <1>1, BurstParts, CounterAssumption DEF LineCount
<1>3. WPL \in Nat /\ WPL >= 2
    BY BeatsPerLine
<1>4. AddrNext = a + 4 * (IF Partial THEN Avail ELSE 2 - k)
    BY DEF AddrNext
<1>5. LastBeat <=> (n + 1) % BeatMod = c.beats
    BY DEF LastBeat
<1>6. SameLine <=> Line0(AddrNext) % LineMod = p % LineMod
    BY DEF SameLine, Line0
<1>7. /\ a + 4 \in Nat /\ (a + 4) % 4 = 0
      /\ g = WPL - 1 => Line0(a + 4) = p + 1 /\ Chunk(a + 4) = 0
      /\ g # WPL - 1 => Line0(a + 4) = p /\ Chunk(a + 4) = g + 1
    BY <1>1, WordSteps
<1>8. LastLine(c) = Line0(c.addr + 8 * c.beats - 4)
    <2>. DEFINE e == c.addr + 8 * c.beats - 4
    <2>1. e \in Nat /\ e % 4 = 0 /\ e + 3 = c.addr + 8 * c.beats - 1
        BY <1>2
    <2>. HIDE DEF e
    <2>2. Line0(e + 3) = Line0(e)
        BY <2>1, WordSteps
    <2>. QED BY <2>1, <2>2 DEF LastLine, e
<1>. HIDE DEF a, c, k, n, p, g
<1>9. ASSUME Partial
      PROVE  /\ k = 0 /\ Avail = 1 /\ AddrNext = c.addr + 8 * n + 4
             /\ Line0(AddrNext) = p + 1 /\ Chunk(AddrNext) = 0
    <2>1. k = 0 /\ Avail = 1
        BY <1>1, <1>3, <1>9
    <2>2. AddrNext = a + 4 /\ AddrNext = c.addr + 8 * n + 4
        BY <1>1, <1>2, <1>4, <1>9, <2>1
    <2>. QED BY <1>1, <1>7, <1>9, <2>1, <2>2
<1>10. ASSUME ~Partial
       PROVE  /\ AddrNext = c.addr + 8 * (n + 1) /\ Line0(AddrNext) \in {p, p + 1}
              /\ AddrNext \in Nat /\ Line0(AddrNext - 4) = p
    <2>1. AddrNext = a + 4 * (2 - k) /\ AddrNext = c.addr + 8 * (n + 1)
        BY <1>1, <1>2, <1>4, <1>10
    <2>2. CASE k = 1
        <3>1. AddrNext = a + 4 /\ AddrNext - 4 = a
            BY <1>1, <2>1, <2>2
        <3>. QED BY <1>1, <1>3, <1>7, <1>10, <2>1, <2>2, <3>1 DEF p
    <2>3. CASE k = 0
        <3>. DEFINE b == a + 4
        <3>1. AddrNext = b + 4 /\ AddrNext - 4 = b /\ b \in Nat /\ b % 4 = 0
            BY <1>1, <1>7, <2>1, <2>3
        <3>2. Line0(b) = p
            BY <1>1, <1>7, <1>10
        <3>. HIDE DEF b
        <3>3. Line0(b + 4) \in {p, p + 1}
            BY <3>1, <3>2, WordSteps
        <3>. QED BY <2>1, <3>1, <3>2, <3>3
    <2>. QED BY <1>1, <2>2, <2>3
<1>11. LastBeat <=> n + 1 = c.beats
    <2>1. n + 1 \in Nat /\ n + 1 < BeatMod
        BY <1>1, <1>2
    <2>. DEFINE m == n + 1
    <2>2. m \in Nat /\ m \in 0 .. BeatMod - 1 /\ m = BeatMod * 0 + m
          /\ BeatMod \in Nat \ {0}
        BY <1>2, <2>1
    <2>. HIDE DEF m
    <2>3. m % BeatMod = m
        BY <2>2, QuotientUnique
    <2>. QED BY <1>5, <2>3 DEF m
<1>12. ASSUME ~Partial, LastBeat PROVE LastLine(c) = p
    <2>1. AddrNext - 4 = c.addr + 8 * c.beats - 4
        <3>1. n + 1 = c.beats /\ AddrNext = c.addr + 8 * (n + 1)
            BY <1>10, <1>11, <1>12
        <3>. DEFINE x == c.addr
                    y == c.beats
        <3>2. x \in Nat /\ y \in Nat /\ AddrNext = x + 8 * y
            BY <1>2, <3>1
        <3>. HIDE DEF x, y
        <3>3. AddrNext - 4 = x + 8 * y - 4
            BY <3>2
        <3>. QED BY <3>3 DEF x, y
    <2>. QED BY <1>8, <1>10, <1>12, <2>1
<1>13. ASSUME ~Partial, ~LastBeat PROVE SameLine <=> Line0(AddrNext) = p
    <2>1. Line0(AddrNext) <= LastLine(c)
        <3>1. AddrNext <= c.addr + 8 * c.beats - 1 /\ c.addr + 8 * c.beats - 1 \in Nat
            <4>1. n + 1 # c.beats /\ AddrNext = c.addr + 8 * (n + 1)
                BY <1>10, <1>11, <1>13
            <4>. DEFINE x == c.addr
                        y == c.beats
            <4>2. x \in Nat /\ y \in Nat /\ n \in 0 .. y - 1 /\ n + 1 # y
                  /\ AddrNext = x + 8 * (n + 1)
                BY <1>1, <1>2, <4>1
            <4>. HIDE DEF x, y
            <4>3. AddrNext <= x + 8 * y - 1 /\ x + 8 * y - 1 \in Nat
                BY <4>2
            <4>. QED BY <4>3 DEF x, y
        <3>. QED BY <1>10, <1>13, <3>1, LineOrder DEF LastLine
    <2>2. ASSUME Line0(AddrNext) = p + 1 PROVE ~SameLine
        <3>1. LineMod >= 2
            BY <1>1, <1>2, <2>1, <2>2
        <3>2. (p + 1) % LineMod # p % LineMod
            BY <1>1, <1>2, <3>1, NextDiffers
        <3>. QED BY <1>6, <2>2, <3>2
    <2>. QED BY <1>1, <1>6, <1>10, <1>13, <2>2
<1>. QED BY <1>9, <1>10, <1>11, <1>12, <1>13 DEF a, c, k, n, p, g

(***************************************************************************)
(* The burst being read moves on by what is taken of it.                   *)
(***************************************************************************)
Loaded == IF rd_axi_ready THEN LineCount(Head(rd_req_fifo)) ELSE 0

LEMMA BurstStep ==
    ASSUME FrontTypes, BurstPlace, NEW ar, NEW aw, ReadData, AxiState(ar, aw),
           ~wr_get_req(ar, aw), axi_state # "write"
    PROVE  /\ BurstPlace' /\ axi_state' \in {"idle", "waitLine", "sameLine"}
           /\ BurstLines \in Int /\ Loaded \in Int
           /\ BurstLines' = BurstLines + Loaded - Bit(rd_axi_wait_data)
<1>. DEFINE c == curr_info
            a == v_axi_data.addr
            p == Line0(a)
<1>1. axi_state \in {"idle", "waitLine", "sameLine"} /\ ~WriteDone
    BY DEF FrontTypes, WriteDone, wr_rq_wait
<1>2. /\ rd_axi_ready => axi_state = "idle"
      /\ reads => ReadsBurst
      /\ rd_axi_wait_data => reads /\ axi_state = "waitLine"
      /\ reads /\ axi_state = "waitLine" => rd_axi_wait_data
    BY DEF rd_axi_ready, reads, rd_axi_wait_data, rd_axi_sending_data, ReadsBurst
<1>3. BurstLines' = IF axi_state' = "idle" THEN 0
                    ELSE LastLine(curr_info') - Line0(v_axi_data'.addr)
                           + (IF axi_state' = "waitLine" THEN 1 ELSE 0)
    BY DEF BurstLines, LastLine, Line0
<1>4. CASE rd_axi_ready
    <2>. DEFINE h == Head(rd_req_fifo)
    <2>1. h \in Countable
        BY <1>4, NonEmpty DEF FrontTypes, rd_axi_ready, EMPTY_N
    <2>2. /\ axi_state = "idle" /\ axi_state' = "waitLine" /\ ~reads
          /\ ~rd_axi_wait_data
        BY <1>1, <1>2, <1>4 DEF AxiState, ReadsBurst
    <2>3. /\ curr_info' = h /\ cnt_bits' = 0
          /\ v_axi_data' = [addr |-> h.addr, data |-> ZeroBeat, count |-> 0]
        BY <1>4 DEF ReadData
    <2>. HIDE DEF h
    <2>4. /\ h.addr \in Nat /\ h.beats \in 1 .. BeatMod - 1 /\ LineCount(h) \in Int
          /\ LineCount(h) = LastLine(h) - Line0(h.addr) + 1
          /\ LastLine(h) \in Nat /\ Line0(h.addr) \in Nat
        BY <2>1, BurstParts DEF LineCount
    <2>5. BurstPlace'
        <3>1. v_axi_data'.addr = h.addr /\ v_axi_data'.count = 0
            BY <2>3
        <3>2. 0 \in 0 .. h.beats - 1 /\ h.addr = h.addr + 8 * 0 + 4 * 0
            BY <2>4, CounterAssumption
        <3>. QED BY <2>1, <2>2, <2>3, <3>1, <3>2 DEF BurstPlace
    <2>6. BurstLines = 0 /\ Loaded = LineCount(h)
        BY <1>4, <2>2 DEF BurstLines, Loaded, h
    <2>7. BurstLines' = LineCount(h)
        BY <1>3, <2>2, <2>3, <2>4
    <2>. QED BY <2>2, <2>4, <2>5, <2>6, <2>7 DEF Bit
<1>5. CASE ~rd_axi_ready /\ ~reads
    <2>1. /\ axi_state' = axi_state /\ curr_info' = curr_info /\ cnt_bits' = cnt_bits
          /\ v_axi_data' = v_axi_data /\ ~rd_axi_wait_data
        BY <1>1, <1>2, <1>5 DEF AxiState, ReadData
    <2>2. BurstPlace'
        BY <2>1 DEF BurstPlace, Chunk
    <2>3. BurstLines' = BurstLines /\ Loaded = 0
        BY <1>3, <1>5, <2>1 DEF BurstLines, Loaded
    <2>4. BurstLines \in Int
        <3>1. CASE axi_state = "idle"
            BY <3>1 DEF BurstLines
        <3>2. CASE ReadsBurst
            <4>1. LastLine(c) \in Nat /\ p \in Nat
                BY <3>2, PlaceNow, BurstParts
            <4>. QED BY <4>1 DEF BurstLines
        <3>. QED BY <1>1, <3>1, <3>2 DEF ReadsBurst
    <2>. QED BY <1>1, <2>1, <2>2, <2>3, <2>4 DEF Bit
<1>6. CASE reads
    <2>1. /\ c \in Countable /\ p \in Nat /\ cnt_bits \in 0 .. c.beats - 1
          /\ LastLine(c) \in Nat /\ c.addr \in Nat /\ c.beats \in Nat
        <3>1. c \in Countable /\ p \in Nat /\ cnt_bits \in 0 .. c.beats - 1
            BY <1>2, <1>6, PlaceNow
        <3>2. /\ LastLine(c) \in Nat /\ c.addr \in Nat
              /\ c.beats \in 1 .. BeatMod - 1 /\ BeatMod \in Nat
            BY <3>1, BurstParts, CounterAssumption
        <3>. QED BY <3>1, <3>2
    <2>2. ~rd_axi_ready /\ ReadsBurst /\ Loaded = 0
        BY <1>2, <1>6 DEF ReadsBurst, Loaded
    <2>3. /\ BurstLines = LastLine(c) - p + (IF axi_state = "waitLine" THEN 1 ELSE 0)
          /\ Bit(rd_axi_wait_data) = IF axi_state = "waitLine" THEN 1 ELSE 0
        BY <1>2, <1>6, <2>2 DEF BurstLines, ReadsBurst, Bit
    <2>4. /\ BurstLines \in Int
          /\ BurstLines + Loaded - Bit(rd_axi_wait_data) = LastLine(c) - p
        <3>. DEFINE x == LastLine(c)
                    y == Bit(rd_axi_wait_data)
        <3>1. x \in Int /\ p \in Int /\ y \in Int /\ BurstLines = x - p + y
              /\ Loaded = 0
            BY <2>1, <2>2, <2>3
        <3>. HIDE DEF x, y, p
        <3>2. BurstLines \in Int /\ BurstLines + Loaded - y = x - p
            BY <3>1
        <3>. QED BY <3>2 DEF x, y, p
    <2>5. /\ curr_info' = c
          /\ cnt_bits' = IF Partial THEN cnt_bits ELSE (cnt_bits + 1) % BeatMod
          /\ v_axi_data'.addr = AddrNext
          /\ v_axi_data'.count = IF Partial THEN v_axi_data.count + Avail ELSE 0
        BY <1>6, <2>2 DEF ReadData
    <2>6. CASE Partial
        <3>1. axi_state' = "waitLine"
            BY <1>1, <1>6, <2>2, <2>6 DEF AxiState
        <3>2. /\ v_axi_data.count = 0 /\ Avail = 1
              /\ AddrNext = c.addr + 8 * cnt_bits + 4
              /\ Line0(AddrNext) = p + 1 /\ Chunk(AddrNext) = 0
            BY <2>2, <2>6, NextPlace
        <3>3. v_axi_data'.count = 1 /\ cnt_bits' = cnt_bits
            BY <2>5, <2>6, <3>2
        <3>4. Chunk(v_axi_data'.addr) = 0
            BY <2>5, <3>2
        <3>5. AddrNext = c.addr + 8 * cnt_bits + 4 * 1
            BY <3>2
        <3>6. BurstPlace'
            BY <2>1, <2>5, <3>1, <3>3, <3>4, <3>5 DEF BurstPlace, Chunk
        <3>7. BurstLines' = LastLine(c) - (p + 1) + 1
            BY <1>3, <2>5, <3>1, <3>2
        <3>8. BurstLines' = LastLine(c) - p
            BY <2>1, <3>7
        <3>. QED BY <2>2, <2>4, <3>1, <3>6, <3>8
    <2>7. CASE ~Partial
        <3>1. axi_state' = IF LastBeat THEN "idle"
                           ELSE IF SameLine THEN "sameLine" ELSE "waitLine"
            BY <1>1, <1>6, <2>2, <2>7 DEF AxiState
        <3>2. /\ AddrNext = c.addr + 8 * (cnt_bits + 1)
              /\ Line0(AddrNext) \in {p, p + 1}
              /\ LastBeat <=> cnt_bits + 1 = c.beats
              /\ LastBeat => LastLine(c) = p
              /\ ~LastBeat => (SameLine <=> Line0(AddrNext) = p)
            BY <2>2, <2>7, NextPlace
        <3>3. v_axi_data'.count = 0
            BY <2>5, <2>7
        <3>4. BurstLines' = LastLine(c) - p
            <4>1. CASE LastBeat
                BY <1>3, <2>1, <3>1, <3>2, <4>1
            <4>2. CASE ~LastBeat /\ SameLine
                BY <1>3, <2>1, <2>5, <3>1, <3>2, <4>2
            <4>3. CASE ~LastBeat /\ ~SameLine
                <5>1. Line0(AddrNext) = p + 1 /\ axi_state' = "waitLine"
                    BY <3>1, <3>2, <4>3
                <5>2. BurstLines' = LastLine(c) - (p + 1) + 1
                    BY <1>3, <2>5, <5>1
                <5>. QED BY <2>1, <5>2
            <4>. QED BY <4>1, <4>2, <4>3
        <3>5. BurstPlace'
            <4>1. CASE LastBeat
                BY <3>1, <4>1 DEF BurstPlace
            <4>2. CASE ~LastBeat
                <5>. DEFINE n == cnt_bits + 1
                <5>1. n \in 0 .. c.beats - 1 /\ n < BeatMod /\ BeatMod \in Nat \ {0}
                    <6>1. c.beats < BeatMod /\ BeatMod \in Nat \ {0}
                        BY <2>1, BurstParts, CounterAssumption
                    <6>. QED BY <2>1, <3>2, <4>2, <6>1
                <5>2. cnt_bits' = n % BeatMod
                    BY <2>5, <2>7
                <5>3. AddrNext = c.addr + 8 * n
                    BY <3>2
                <5>. HIDE DEF n
                <5>4. n % BeatMod = n
                    <6>1. n = BeatMod * 0 + n /\ n \in Nat /\ n \in 0 .. BeatMod - 1
                        BY <2>1, <5>1
                    <6>. QED BY <5>1, <6>1, QuotientUnique
                <5>5. AddrNext = c.addr + 8 * n + 4 * 0
                    BY <2>1, <5>1, <5>3
                <5>. QED BY <2>1, <2>5, <3>3, <5>1, <5>2, <5>4, <5>5 DEF BurstPlace
            <4>. QED BY <4>1, <4>2
        <3>. QED BY <2>2, <2>4, <3>1, <3>4, <3>5
    <2>. QED BY <2>6, <2>7
<1>. QED BY <1>4, <1>5, <1>6

(***************************************************************************)
(* Bursts accepted wait in rd_req_fifo, and their lines are asked for.     *)
(***************************************************************************)
Accepted(ar) ==
    IF rd_get_req(ar) THEN LineCount(BurstOf(RdIn(ar))) ELSE 0

LEMMA AcceptedBurst ==
    ASSUME CountableReads, FrontTypes, NEW ar \in ReadBursts \cup {None}
    PROVE  /\ RdIn(ar) \in ReadBursts \cup {None} /\ Accepted(ar) \in Nat
           /\ rd_get_req(ar) =>
                /\ BurstOf(RdIn(ar)) \in Countable
                /\ LinesOf(RdIn(ar).addr, RdIn(ar).len) = Accepted(ar)
                /\ Accepted(ar) >= 1
<1>1. RdIn(ar) \in ReadBursts \cup {None}
    BY DEF RdIn, FrontTypes
<1>2. ASSUME rd_get_req(ar)
      PROVE  /\ BurstOf(RdIn(ar)) \in Countable
             /\ LinesOf(RdIn(ar).addr, RdIn(ar).len) = Accepted(ar)
             /\ Accepted(ar) \in Nat /\ Accepted(ar) >= 1
    <2>1. RdIn(ar) \in ReadBursts
        BY <1>1, <1>2 DEF rd_get_req
    <2>2. BurstOf(RdIn(ar)) \in Countable
          /\ LinesOf(RdIn(ar).addr, RdIn(ar).len) = LineCount(BurstOf(RdIn(ar)))
        BY <2>1, LinesCounted
    <2>3. LineCount(BurstOf(RdIn(ar))) \in 1 .. LineMod /\ LineMod \in Nat
        BY <2>2, BurstParts, CounterAssumption
    <2>. QED BY <1>2, <2>2, <2>3 DEF Accepted
<1>. QED BY <1>1, <1>2 DEF Accepted

LEMMA QueuedOf ==
    ASSUME NEW q, Len(q) = 0 \/ Len(q) = 1 \/ Len(q) = 2,
           Len(q) = 1 => LineCount(q[1]) \in Int,
           Len(q) = 2 => LineCount(q[1]) \in Int /\ LineCount(q[2]) \in Int
    PROVE  /\ QueuedLines(q) \in Int
           /\ Len(q) = 0 => QueuedLines(q) = 0
           /\ Len(q) = 1 => QueuedLines(q) = LineCount(q[1])
           /\ Len(q) = 2 => QueuedLines(q) = LineCount(q[1]) + LineCount(q[2])
<1>1. CASE Len(q) = 0
    BY <1>1 DEF QueuedLines
<1>2. CASE Len(q) = 1
    BY <1>2 DEF QueuedLines
<1>3. CASE Len(q) = 2
    BY <1>3 DEF QueuedLines
<1>. QED BY <1>1, <1>2, <1>3

LEMMA QueuedMoves ==
    ASSUME NEW q \in Seq(Countable), Len(q) <= 2,
           NEW deq \in BOOLEAN, NEW enq \in BOOLEAN, NEW e,
           deq => q # << >>, enq => Len(q) < 2 /\ e \in Countable
    PROVE  LET r == Clocked(q, deq, enq, e)
           IN  /\ r \in Seq(Countable) /\ Len(r) <= 2 /\ QueuedLines(q) \in Int
               /\ QueuedLines(r) = QueuedLines(q)
                                    - (IF deq THEN LineCount(Head(q)) ELSE 0)
                                    + (IF enq THEN LineCount(e) ELSE 0)
<1>. DEFINE r == Clocked(q, deq, enq, e)
            out == IF deq THEN LineCount(Head(q)) ELSE 0
            in == IF enq THEN LineCount(e) ELSE 0
<1>5. \A c \in Countable : LineCount(c) \in Int
    BY BurstParts, CounterAssumption
<1>6. Len(q) \in Nat /\ (Len(q) = 0 \/ Len(q) = 1 \/ Len(q) = 2)
    <2>. DEFINE n == Len(q)
    <2>1. n \in Nat /\ n <= 2
        BY NonEmpty
    <2>. HIDE DEF n
    <2>2. n = 0 \/ n = 1 \/ n = 2
        BY <2>1
    <2>. QED BY <2>1, <2>2 DEF n
<1>7. /\ r \in Seq(Countable) /\ Len(r) = Len(q) - Bit(deq) + Bit(enq)
      /\ \A k \in 1 .. Len(q) - Bit(deq) : r[k] = q[k + Bit(deq)]
      /\ enq => r[Len(q) - Bit(deq) + 1] = e
    BY ClockedFollows DEF Follows
<1>8. /\ q # << >> => Head(q) = q[1] /\ Len(q) > 0
      /\ \A k \in 1 .. Len(q) : q[k] \in Countable
    BY NonEmpty
<1>. HIDE DEF r, out, in
<1>9. Len(r) <= 2
    BY <1>6, <1>7 DEF Bit
<1>10. /\ Len(q) = 1 => LineCount(q[1]) \in Int
       /\ Len(q) = 2 => LineCount(q[1]) \in Int /\ LineCount(q[2]) \in Int
       /\ enq => LineCount(e) \in Int
    <2>1. CASE Len(q) = 0
        BY <1>5, <2>1
    <2>2. CASE Len(q) = 1
        BY <1>5, <1>8, <2>2
    <2>3. CASE Len(q) = 2
        BY <1>5, <1>8, <2>3
    <2>. QED BY <1>6, <2>1, <2>2, <2>3
<1>11. QueuedLines(q) \in Int
    BY <1>6, <1>10, QueuedOf
<1>12. QueuedLines(r) = QueuedLines(q) - out + in
    <2>1. CASE ~deq /\ ~enq
        <3>1. Len(r) = Len(q) /\ \A k \in 1 .. Len(q) : r[k] = q[k]
            BY <1>6, <1>7, <2>1 DEF Bit
        <3>2. QueuedLines(r) = QueuedLines(q)
            BY <1>6, <3>1 DEF QueuedLines
        <3>. QED BY <1>11, <2>1, <3>2 DEF out, in
    <2>2. CASE deq /\ ~enq
        <3>1. /\ Len(r) = Len(q) - 1 /\ Len(q) > 0 /\ Head(q) = q[1]
              /\ Len(q) = 2 => r[1] = q[2]
            BY <1>6, <1>7, <1>8, <2>2 DEF Bit
        <3>2. out = LineCount(q[1]) /\ in = 0
            BY <2>2, <3>1 DEF out, in
        <3>3. CASE Len(q) = 1
            <4>1. Len(r) = 0 /\ QueuedLines(r) = 0
                BY <3>1, <3>3, QueuedOf
            <4>. QED BY <1>6, <1>10, <3>2, <3>3, <4>1, QueuedOf
        <3>4. CASE Len(q) = 2
            <4>1. Len(r) = 1 /\ r[1] = q[2] /\ LineCount(q[2]) \in Int
                  /\ LineCount(q[1]) \in Int
                BY <1>10, <3>1, <3>4
            <4>2. QueuedLines(r) = LineCount(q[2])
                BY <4>1, QueuedOf
            <4>3. QueuedLines(q) = LineCount(q[1]) + LineCount(q[2])
                BY <1>6, <1>10, <3>4, QueuedOf
            <4>. QED BY <3>2, <4>1, <4>2, <4>3
        <3>. QED BY <1>6, <3>1, <3>3, <3>4
    <2>3. CASE ~deq /\ enq
        <3>1. /\ Len(r) = Len(q) + 1 /\ Len(q) < 2 /\ r[Len(q) + 1] = e
              /\ Len(q) = 1 => r[1] = q[1]
            BY <1>6, <1>7, <2>3 DEF Bit
        <3>2. out = 0 /\ in = LineCount(e) /\ LineCount(e) \in Int
            BY <1>10, <2>3 DEF out, in
        <3>3. CASE Len(q) = 0
            <4>1. Len(r) = 1 /\ r[1] = e /\ QueuedLines(q) = 0
                BY <1>6, <1>10, <3>1, <3>3, QueuedOf
            <4>2. QueuedLines(r) = LineCount(e)
                BY <3>2, <4>1, QueuedOf
            <4>. QED BY <3>2, <4>1, <4>2
        <3>4. CASE Len(q) = 1
            <4>1. Len(r) = 2 /\ r[1] = q[1] /\ r[2] = e /\ LineCount(q[1]) \in Int
                BY <1>10, <3>1, <3>4
            <4>2. QueuedLines(q) = LineCount(q[1])
                BY <1>6, <1>10, <3>4, QueuedOf
            <4>3. QueuedLines(r) = LineCount(q[1]) + LineCount(e)
                BY <3>2, <4>1, QueuedOf
            <4>. QED BY <3>2, <4>1, <4>2, <4>3
        <3>. QED BY <1>6, <3>1, <3>3, <3>4
    <2>4. CASE deq /\ enq
        <3>1. /\ Len(r) = 1 /\ Len(q) = 1 /\ r[1] = e /\ Head(q) = q[1]
            BY <1>6, <1>7, <1>8, <2>4 DEF Bit
        <3>2. out = LineCount(q[1]) /\ in = LineCount(e)
              /\ LineCount(e) \in Int /\ LineCount(q[1]) \in Int
            BY <1>10, <2>4, <3>1 DEF out, in
        <3>3. QueuedLines(q) = LineCount(q[1]) /\ QueuedLines(r) = LineCount(e)
            BY <3>1, <3>2, QueuedOf
        <3>. QED BY <3>2, <3>3
    <2>. QED BY <2>1, <2>2, <2>3, <2>4
<1>. QED BY <1>7, <1>9, <1>11, <1>12 DEF r, out, in

LEMMA QueuedStep ==
    ASSUME CountableReads, FrontTypes, NEW ar \in ReadBursts \cup {None},
           rd_req_fifo' = Clocked(rd_req_fifo, rd_axi_ready, rd_get_req(ar),
                                  BurstOf(RdIn(ar)))
    PROVE  /\ rd_req_fifo' \in Seq(Countable) /\ Len(rd_req_fifo') <= 2
           /\ QueuedLines(rd_req_fifo) \in Int
           /\ QueuedLines(rd_req_fifo')
                = QueuedLines(rd_req_fifo) - Loaded + Accepted(ar)
<1>1. rd_req_fifo \in Seq(Countable) /\ Len(rd_req_fifo) <= 2
    BY DEF FrontTypes
<1>2. /\ rd_axi_ready \in BOOLEAN /\ rd_get_req(ar) \in BOOLEAN
      /\ rd_axi_ready => rd_req_fifo # << >>
      /\ rd_get_req(ar) => Len(rd_req_fifo) < 2
    BY DEF rd_axi_ready, rd_get_req, EMPTY_N, FULL_N
<1>3. rd_get_req(ar) => BurstOf(RdIn(ar)) \in Countable
    BY AcceptedBurst
<1>. QED BY <1>1, <1>2, <1>3, QueuedMoves DEF Loaded, Accepted

LEMMA AskStep ==
    ASSUME CountableReads, FrontTypes, AskInv, axi_state # "write",
           NEW ar \in ReadBursts \cup {None}, NEW aw, NEW w,
           ~wr_get_req(ar, aw), CoreState(ar, aw, w), Requests(ar, aw, w)
    PROVE  /\ AskInv' /\ core_state' \in {"idle", "readLines"}
           /\ StillAsked \in Int /\ Accepted(ar) \in Int /\ Bit(Asks(w)) \in Int
           /\ StillAsked' = StillAsked + Accepted(ar) - Bit(Asks(w))
<1>1. core_state \in {"idle", "readLines"}
    BY DEF FrontTypes
<1>2. /\ rd_get_req(ar) => core_state = "idle"
      /\ rd_req_send => core_state = "readLines"
      /\ ~writes(w) /\ ~wr_rq_wait /\ ~SendsLine(w)
    BY <1>1 DEF rd_get_req, rd_req_send, writes, wr_set_line, wr_leftover_data,
                wr_rq_wait, SendsLine
<1>3. Accepted(ar) \in Nat /\ Bit(Asks(w)) \in Int
      /\ (rd_get_req(ar) => LinesOf(RdIn(ar).addr, RdIn(ar).len) = Accepted(ar)
                            /\ Accepted(ar) >= 1)
    BY AcceptedBurst DEF Bit
<1>4. /\ total_req' = IF rd_get_req(ar) THEN LinesOf(RdIn(ar).addr, RdIn(ar).len)
                      ELSE total_req
      /\ cnt_req' = IF rd_get_req(ar) THEN 0
                    ELSE IF rd_req_send THEN cnt_req + 1 ELSE cnt_req
    BY <1>2 DEF Requests
<1>5. Bit(Asks(w)) = IF rd_req_send THEN 1 ELSE 0
    BY <1>2 DEF Asks, Bit
<1>6. core_state = "readLines" =>
        total_req \in Nat /\ cnt_req \in Nat /\ cnt_req < total_req
    BY DEF AskInv
<1>7. StillAsked' = IF core_state' = "readLines" THEN total_req' - cnt_req' ELSE 0
    BY DEF StillAsked
<1>8. CASE core_state = "idle" /\ rd_get_req(ar)
    <2>1. core_state' = "readLines" /\ ~rd_req_send
        BY <1>2, <1>8 DEF CoreState
    <2>2. total_req' = Accepted(ar) /\ cnt_req' = 0 /\ Accepted(ar) >= 1
        BY <1>3, <1>4, <1>8
    <2>3. AskInv'
        BY <1>3, <2>2 DEF AskInv
    <2>4. StillAsked = 0
        BY <1>8 DEF StillAsked
    <2>. QED BY <1>3, <1>5, <1>7, <2>1, <2>2, <2>3, <2>4
<1>9. CASE core_state = "idle" /\ ~rd_get_req(ar)
    <2>1. core_state' = "idle" /\ ~rd_req_send
        BY <1>2, <1>9 DEF CoreState
    <2>2. StillAsked = 0 /\ StillAsked' = 0 /\ Accepted(ar) = 0
        BY <1>7, <1>9, <2>1 DEF StillAsked, Accepted
    <2>3. AskInv'
        BY <2>1 DEF AskInv
    <2>4. Bit(Asks(w)) = 0
        BY <1>5, <2>1
    <2>. QED BY <2>1, <2>2, <2>3, <2>4
<1>10. CASE core_state = "readLines" /\ rd_req_send
    <2>1. ~rd_get_req(ar)
        BY <1>2, <1>10
    <2>2. core_state' = IF cnt_req + 1 = total_req THEN "idle" ELSE "readLines"
        BY <1>2, <1>10, <2>1 DEF CoreState
    <2>3. total_req' = total_req /\ cnt_req' = cnt_req + 1 /\ Accepted(ar) = 0
        BY <1>4, <1>10, <2>1 DEF Accepted
    <2>4. AskInv'
        BY <1>6, <1>10, <2>2, <2>3 DEF AskInv
    <2>5. StillAsked = total_req - cnt_req
        BY <1>10 DEF StillAsked
    <2>6. StillAsked' = total_req - cnt_req - 1
        BY <1>6, <1>7, <1>10, <2>2, <2>3
    <2>. QED BY <1>3, <1>5, <1>6, <1>10, <2>2, <2>3, <2>4, <2>5, <2>6
<1>11. CASE core_state = "readLines" /\ ~rd_req_send
    <2>1. ~rd_get_req(ar) /\ core_state' = "readLines"
        BY <1>2, <1>11 DEF CoreState
    <2>2. total_req' = total_req /\ cnt_req' = cnt_req /\ Accepted(ar) = 0
        BY <1>4, <1>11, <2>1 DEF Accepted
    <2>3. AskInv'
        BY <1>6, <1>11, <2>2 DEF AskInv
    <2>4. StillAsked = total_req - cnt_req /\ StillAsked' = total_req - cnt_req
        BY <1>7, <1>11, <2>1, <2>2 DEF StillAsked
    <2>. QED BY <1>3, <1>5, <1>6, <1>11, <2>1, <2>2, <2>3, <2>4
<1>. QED BY <1>1, <1>8, <1>9, <1>10, <1>11

-----------------------------------------------------------------------------
(***************************************************************************)
(* One clock edge: reading, starting to write, writing.                    *)
(***************************************************************************)
FrontEdge(ar, rready, aw, w, bready, memTaken, memRsp) ==
    /\ FrontendCycle(ar, rready, aw, w, bready, Moves(f_req_fifo, req_fifo),
                     Passed(rsp_fifo, f_rsp_fifo))
    /\ CacheCycle(Passed(f_req_fifo, req_fifo), Moves(rsp_fifo, f_rsp_fifo),
                  memTaken, memRsp)

LEMMA EdgeParts ==
    ASSUME CountableReads, Types, FrontTypes, NEW ar \in ReadBursts \cup {None},
           NEW aw, NEW w, NEW rready, NEW bready, NEW memTaken, NEW memRsp,
           FrontEdge(ar, rready, aw, w, bready, memTaken, memRsp)
    PROVE  /\ CoreState(ar, aw, w) /\ AxiState(ar, aw) /\ ReadData
           /\ Requests(ar, aw, w)
           /\ OnTheWay \in Nat /\ OnTheWay' = OnTheWay + Bit(Asks(w)) - Bit(Takes)
           /\ rd_req_fifo' \in Seq(Countable) /\ Len(rd_req_fifo') <= 2
           /\ QueuedLines(rd_req_fifo) \in Int
           /\ QueuedLines(rd_req_fifo')
                = QueuedLines(rd_req_fifo) - Loaded + Accepted(ar)
           /\ rd_req_fifo' = Clocked(rd_req_fifo, rd_axi_ready, rd_get_req(ar),
                                     BurstOf(RdIn(ar)))
           /\ rsp_fifo' \in Seq(Line) /\ f_rsp_fifo' \in Seq(Line)
           /\ write_miss' \in BOOLEAN /\ f_rd_in' \in ReadBursts \cup {None}
<1>1. CoreState(ar, aw, w) /\ AxiState(ar, aw) /\ ReadData /\ Requests(ar, aw, w)
    BY DEF FrontEdge, FrontendCycle
<1>2. /\ OnTheWay' = OnTheWay + Bit(Asks(w)) - Bit(Takes)
      /\ rsp_fifo' \in Seq(Line) /\ f_rsp_fifo' \in Seq(Line)
      /\ write_miss' \in BOOLEAN
    BY WayStep DEF FrontEdge
<1>3. rd_req_fifo' = Clocked(rd_req_fifo, rd_axi_ready, rd_get_req(ar),
                             BurstOf(RdIn(ar)))
    BY DEF FrontEdge, FrontendCycle, FrontendFifos, BurstOf
<1>4. f_rd_in' = IF rd_get_req(ar) THEN None ELSE RdIn(ar)
    BY DEF FrontEdge, FrontendCycle, FrontendChannels
<1>5. f_rd_in' \in ReadBursts \cup {None}
    BY <1>4, AcceptedBurst
<1>6. OnTheWay \in Nat
    BY LengthsNow
<1>7. /\ rd_req_fifo' \in Seq(Countable) /\ Len(rd_req_fifo') <= 2
      /\ QueuedLines(rd_req_fifo) \in Int
      /\ QueuedLines(rd_req_fifo')
           = QueuedLines(rd_req_fifo) - Loaded + Accepted(ar)
    BY <1>3, QueuedStep
<1>. QED BY <1>1, <1>2, <1>3, <1>5, <1>6, <1>7

LEMMA ReadingEdge ==
    ASSUME CountableReads, Types, FrontTypes, BurstPlace, AskInv, Balanced,
           NEW ar \in ReadBursts \cup {None}, NEW aw, NEW w,
           NEW rready, NEW bready, NEW memTaken, NEW memRsp,
           FrontEdge(ar, rready, aw, w, bready, memTaken, memRsp),
           axi_state # "write", ~wr_get_req(ar, aw)
    PROVE  FrontTypes' /\ BurstPlace' /\ AskInv' /\ Balanced'
<1>1. CoreState(ar, aw, w) /\ AxiState(ar, aw) /\ ReadData /\ Requests(ar, aw, w)
    BY EdgeParts
<1>2. /\ OnTheWay \in Nat /\ OnTheWay' = OnTheWay + Bit(Asks(w)) - Bit(Takes)
      /\ QueuedLines(rd_req_fifo) \in Int
      /\ QueuedLines(rd_req_fifo')
           = QueuedLines(rd_req_fifo) - Loaded + Accepted(ar)
    BY EdgeParts
<1>3. /\ AskInv' /\ core_state' \in {"idle", "readLines"}
      /\ StillAsked \in Int /\ Accepted(ar) \in Int /\ Bit(Asks(w)) \in Int
      /\ StillAsked' = StillAsked + Accepted(ar) - Bit(Asks(w))
    BY <1>1, AskStep
<1>4. /\ BurstPlace' /\ axi_state' \in {"idle", "waitLine", "sameLine"}
      /\ BurstLines \in Int /\ Loaded \in Int
      /\ BurstLines' = BurstLines + Loaded - Bit(rd_axi_wait_data)
    BY <1>1, BurstStep
<1>5. Bit(Takes) = Bit(rd_axi_wait_data) /\ Bit(Takes) \in Int
    BY DEF Takes, wr_rq_wait, Bit
<1>6. FrontTypes'
    <2>1. axi_state' # "write" /\ core_state' \notin WriteStates
        BY <1>3, <1>4 DEF WriteStates
    <2>. QED BY <1>3, <1>4, <2>1, EdgeParts DEF FrontTypes
<1>7. Balanced'
    <2>1. OnTheWay + StillAsked = BurstLines + QueuedLines(rd_req_fifo)
        BY DEF Balanced
    <2>. DEFINE o == OnTheWay'
                s == StillAsked'
                l == BurstLines'
                q == QueuedLines(rd_req_fifo')
    <2>2. /\ o = OnTheWay + Bit(Asks(w)) - Bit(rd_axi_wait_data)
          /\ s = StillAsked + Accepted(ar) - Bit(Asks(w))
          /\ l = BurstLines + Loaded - Bit(rd_axi_wait_data)
          /\ q = QueuedLines(rd_req_fifo) - Loaded + Accepted(ar)
        BY <1>2, <1>3, <1>4, <1>5
    <2>. HIDE DEF o, s, l, q
    <2>3. o + s = l + q
        BY <1>2, <1>3, <1>4, <1>5, <2>1, <2>2
    <2>4. (OnTheWay + StillAsked = BurstLines + QueuedLines(rd_req_fifo))'
        BY <2>3 DEF o, s, l, q, QueuedLines, LineCount, LastLine, Line0, LineBytes
    <2>5. axi_state' # "write"
        BY <1>4
    <2>. QED BY <2>4, <2>5 DEF Balanced
<1>. QED BY <1>3, <1>4, <1>6, <1>7

LEMMA WritingStarts ==
    ASSUME CountableReads, Types, FrontTypes, Balanced,
           NEW ar \in ReadBursts \cup {None}, NEW aw, NEW w,
           NEW rready, NEW bready, NEW memTaken, NEW memRsp,
           FrontEdge(ar, rready, aw, w, bready, memTaken, memRsp),
           wr_get_req(ar, aw)
    PROVE  FrontTypes' /\ BurstPlace' /\ AskInv' /\ Balanced'
<1>1. /\ core_state = "idle" /\ axi_state = "idle" /\ rd_req_fifo = << >>
      /\ ~rd_get_req(ar)
    BY DEF wr_get_req, EMPTY_N
<1>2. /\ ~rd_req_send /\ ~writes(w) /\ ~wr_rq_wait /\ ~WriteDone /\ ~reads
      /\ ~rd_axi_ready
    BY <1>1 DEF rd_req_send, writes, wr_set_line, wr_leftover_data, wr_rq_wait,
                WriteDone, reads, rd_axi_wait_data, rd_axi_sending_data,
                rd_axi_ready, EMPTY_N
<1>3. ~Asks(w) /\ ~Takes
    BY <1>2 DEF Asks, SendsLine, Takes, reads
<1>4. core_state' = "setLine" /\ axi_state' = "write"
    <2>1. CoreState(ar, aw, w) /\ AxiState(ar, aw)
        BY EdgeParts
    <2>. QED BY <1>1, <1>2, <2>1 DEF CoreState, AxiState
<1>5. OnTheWay = 0
    <2>1. StillAsked = 0 /\ BurstLines = 0 /\ QueuedLines(rd_req_fifo) = 0
        BY <1>1 DEF StillAsked, BurstLines, QueuedLines
    <2>2. OnTheWay \in Nat
        BY EdgeParts
    <2>. QED BY <1>1, <2>1, <2>2 DEF Balanced
<1>6. OnTheWay' = 0
    BY <1>3, <1>5, EdgeParts DEF Bit
<1>7. rd_req_fifo' = << >>
    BY <1>1, <1>2, EdgeParts DEF Clocked
<1>8. FrontTypes'
    BY <1>4, EdgeParts DEF FrontTypes, WriteStates
<1>. QED BY <1>4, <1>6, <1>7, <1>8 DEF BurstPlace, AskInv, Balanced

LEMMA WritingEdge ==
    ASSUME CountableReads, Types, FrontTypes, Balanced,
           NEW ar \in ReadBursts \cup {None}, NEW aw, NEW w,
           NEW rready, NEW bready, NEW memTaken, NEW memRsp,
           FrontEdge(ar, rready, aw, w, bready, memTaken, memRsp),
           axi_state = "write"
    PROVE  FrontTypes' /\ BurstPlace' /\ AskInv' /\ Balanced'
<1>1. /\ core_state \in WriteStates /\ rd_req_fifo = << >>
      /\ OnTheWay = IF core_state = "waitWrite" THEN 1 ELSE 0
    BY DEF FrontTypes, Balanced
<1>2. /\ ~rd_get_req(ar) /\ ~wr_get_req(ar, aw) /\ ~rd_req_send /\ ~rd_axi_ready
      /\ ~reads
    BY <1>1 DEF WriteStates, rd_get_req, wr_get_req, rd_req_send, rd_axi_ready,
                reads, rd_axi_wait_data, rd_axi_sending_data
<1>3. /\ writes(w) => core_state \in {"setLine", "leftover"}
      /\ wr_rq_wait => core_state = "waitWrite"
      /\ SendsLine(w) => writes(w)
    BY DEF writes, wr_set_line, wr_leftover_data, wr_rq_wait, SendsLine
<1>4. (Asks(w) <=> SendsLine(w)) /\ (Takes <=> wr_rq_wait)
    BY <1>2 DEF Asks, Takes, reads
<1>5. /\ CoreState(ar, aw, w) /\ AxiState(ar, aw)
      /\ OnTheWay' = OnTheWay + Bit(Asks(w)) - Bit(Takes)
    BY EdgeParts
<1>6. rd_req_fifo' = << >>
    BY <1>1, <1>2, EdgeParts DEF Clocked
\* It is enough to know the two states and whether a line is on its way.
<1>7. ASSUME \/ core_state' \in WriteStates /\ axi_state' = "write"
             \/ core_state' = "idle" /\ axi_state' = "idle",
             OnTheWay' = IF core_state' = "waitWrite" THEN 1 ELSE 0
      PROVE  FrontTypes' /\ BurstPlace' /\ AskInv' /\ Balanced'
    <2>1. FrontTypes'
        BY <1>7, EdgeParts DEF FrontTypes, WriteStates
    <2>2. BurstPlace' /\ AskInv'
        BY <1>7 DEF BurstPlace, AskInv, WriteStates
    <2>3. CASE axi_state' = "write"
        BY <1>6, <1>7, <2>1, <2>2, <2>3 DEF Balanced
    <2>4. CASE core_state' = "idle" /\ axi_state' = "idle"
        <3>1. StillAsked' = 0 /\ BurstLines' = 0
            BY <2>4 DEF StillAsked, BurstLines
        <3>2. QueuedLines(rd_req_fifo)' = 0
            BY <1>6 DEF QueuedLines
        <3>. QED BY <1>7, <2>1, <2>2, <2>4, <3>1, <3>2 DEF Balanced
    <2>. QED BY <1>7, <2>3, <2>4
<1>8. CASE writes(w)
    <2>1. ~wr_rq_wait /\ ~WriteDone /\ OnTheWay = 0
        BY <1>1, <1>3, <1>8 DEF WriteDone
    <2>2. core_state' = IF SendsLine(w) THEN "waitWrite" ELSE "setLine"
        BY <1>2, <1>5, <1>8, <2>1 DEF CoreState
    <2>3. axi_state' = "write"
        BY <1>2, <1>5, <2>1 DEF AxiState
    <2>4. OnTheWay' = IF SendsLine(w) THEN 1 ELSE 0
        BY <1>4, <1>5, <2>1 DEF Bit
    <2>. QED BY <1>7, <2>2, <2>3, <2>4 DEF WriteStates
<1>9. CASE wr_rq_wait
    <2>1. ~writes(w) /\ ~SendsLine(w) /\ OnTheWay = 1
        BY <1>1, <1>3, <1>9
    <2>2. core_state' = IF cache_wr_req.axi_strb # {} THEN "leftover"
                        ELSE IF last_req THEN "idle" ELSE "setLine"
        BY <1>2, <1>5, <1>9, <2>1 DEF CoreState
    <2>3. axi_state' = IF WriteDone THEN "idle" ELSE "write"
        BY <1>2, <1>5 DEF AxiState
    <2>4. WriteDone <=> cache_wr_req.axi_strb = {} /\ last_req
        BY <1>9 DEF WriteDone
    <2>5. OnTheWay' = 0
        BY <1>4, <1>5, <1>9, <2>1 DEF Bit
    <2>6. CASE WriteDone
        BY <1>7, <2>2, <2>3, <2>4, <2>5, <2>6
    <2>7. CASE ~WriteDone
        BY <1>7, <2>2, <2>3, <2>4, <2>5, <2>7 DEF WriteStates
    <2>. QED BY <2>6, <2>7
<1>10. CASE ~writes(w) /\ ~wr_rq_wait
    <2>1. ~SendsLine(w) /\ ~WriteDone
        BY <1>3, <1>10 DEF WriteDone
    <2>2. core_state' = core_state /\ axi_state' = "write"
        BY <1>2, <1>5, <1>10, <2>1 DEF CoreState, AxiState
    <2>3. OnTheWay' = OnTheWay
        BY <1>1, <1>4, <1>5, <1>10, <2>1 DEF Bit
    <2>. QED BY <1>1, <1>7, <2>2, <2>3
<1>. QED BY <1>8, <1>9, <1>10

(***************************************************************************)
(* The backend completes a write in the cycle in which it answers it.      *)
(***************************************************************************)
LEMMA UnansweredWhileSending ==
    ASSUME Types, MemInv, b_state = "sendData"
    PROVE  ~b_wr_rsp_complete /\ NoAnswers
<1>1. ~BackendRests
    BY DEF BackendRests
<1>2. ASSUME NEW q, InFlight(q)
      PROVE  ~b_wr_rsp_complete /\ NoAnswers
    <2>1. Reading(q.addr) \/ Writing(q.addr)
        BY <1>1, <1>2 DEF InFlight, AtCache, AtBackend, Answered, InBurst
    <2>2. ~Reading(q.addr) /\ ~Answering(q.addr)
        BY DEF Reading, ReadOffered, Receiving, Answering
    <2>. QED BY <2>1, <2>2 DEF Writing, Sending
<1>3. state \in {"waitMem", "waitFill"}
    BY <1>1 DEF MemInv, MemRests
<1>. QED BY <1>2, <1>3 DEF MemInv

LEMMA AnswerGivenStep ==
    ASSUME Types, MemInv, AnswerGiven,
           NEW req, NEW taken, NEW arready, NEW r, NEW awready, NEW wready,
           NEW b, MemEdge(req, taken, arready, r, awready, wready, b)
    PROVE  AnswerGiven'
<1>. SUFFICES ASSUME b_state' = "waitB", b_wr_rsp_complete', b_rsp_fifo' = << >>
              PROVE  FALSE
    BY DEF AnswerGiven
<1>1. BackEdge(Passed(mem_req_fifo, b_req_fifo), Moves(b_rsp_fifo, mem_rsp_fifo),
               arready, r, awready, wready, b)
    BY DEF MemEdge
<1>2. ~Done(r, b)
    <2>. SUFFICES ASSUME Done(r, b) PROVE FALSE
        OBVIOUS
    <2>. DEFINE e == IF get_rd(r) /\ RdOut(r).last
                       THEN Filled(r) ELSE LowEnd(b_req_reg)
                q == IF Moves(b_rsp_fifo, mem_rsp_fifo)
                       THEN Tail(b_rsp_fifo) ELSE b_rsp_fifo
    <2>1. b_rsp_fifo' = Append(q, e)
        BY QueueEdges DEF Clocked
    <2>2. q \in Seq(Line)
        BY DEF Types, BackendTypes, Moves, EMPTY_N
    <2>. HIDE DEF q, e
    <2>3. Append(q, e) # << >>
        <3>. DEFINE U == Line \cup {e}
        <3>1. q \in Seq(U) /\ e \in U
            BY <2>2
        <3>. HIDE DEF U
        <3>2. Len(Append(q, e)) = Len(q) + 1 /\ Len(q) \in Nat
            BY <3>1
        <3>. QED BY <3>2, EmptySeq
    <2>. QED BY <2>1, <2>3
<1>3. ~LastAnswer(b)
    BY <1>2 DEF Done
<1>4. b_wr_rsp_complete /\ ~StartsWrite
    BY <1>1, <1>3, BackCounters
<1>5. b_state # "sendData"
    BY <1>4, UnansweredWhileSending
<1>6. b_state \notin {"read", "waitB"}
    BY <1>1, <1>4, BackState
<1>7. b_state = "idle"
    BY <1>5, <1>6 DEF Types, BackendTypes
<1>8. /\ StartsRead => b_state' = "read"
      /\ ~req_rule => b_state' = "idle"
      /\ req_rule => StartsWrite \/ StartsRead
    BY <1>1, <1>7, BackState DEF StartsWrite, StartsRead
<1>. QED BY <1>4, <1>8

-----------------------------------------------------------------------------
LEMMA CountEdge ==
    ASSUME CountableReads, DataInv, CountInv,
           NEW ar, NEW wb, NEW aw, NEW w, NEW rready, NEW bready, NEW arready,
           NEW r, NEW awready, NEW wready, NEW b,
           CoreInputs(ar, wb, aw, w), MemInputs(r, b),
           Clock(ar, wb, aw, w, rready, bready, arready, r, awready, wready, b)
    PROVE  CountInv'
<1>. DEFINE memTaken == Moves(mem_req_fifo, b_req_fifo)
            memRsp == Passed(b_rsp_fifo, mem_rsp_fifo)
<1>1. Types /\ MemInv /\ ar \in ReadBursts \cup {None}
    BY DEF DataInv, CoreInputs
<1>2. /\ FrontTypes /\ BurstPlace /\ AskInv /\ Balanced /\ AnswerGiven
    BY DEF CountInv
<1>3. FrontEdge(ar, rready, aw, w, bready, memTaken, memRsp)
    BY DEF Clock, FrontEdge
<1>4. MemEdge(Passed(f_req_fifo, req_fifo), Moves(rsp_fifo, f_rsp_fifo),
              arready, r, awready, wready, b)
    BY DEF Clock, MemEdge, BackEdge
<1>. HIDE DEF memTaken, memRsp
<1>5. AnswerGiven'
    BY <1>1, <1>2, <1>4, AnswerGivenStep
<1>6. FrontTypes' /\ BurstPlace' /\ AskInv' /\ Balanced'
    <2>1. CASE axi_state = "write"
        BY <1>1, <1>2, <1>3, <2>1, WritingEdge
    <2>2. CASE wr_get_req(ar, aw)
        BY <1>1, <1>2, <1>3, <2>2, WritingStarts
    <2>3. CASE axi_state # "write" /\ ~wr_get_req(ar, aw)
        BY <1>1, <1>2, <1>3, <2>3, ReadingEdge
    <2>. QED BY <2>1, <2>2, <2>3
<1>. QED BY <1>5, <1>6 DEF CountInv

LEMMA CountCycle ==
    ASSUME CountableReads, DataInv, CountInv, Cycle PROVE CountInv'
<1>1. PICK ar \in ReadBursts \cup {None}, wb \in WriteBursts \cup {None},
           offerA \in Choice(coreAw # None), offerW \in Choice(coreW # << >>),
           arready \in Choice(AR # None /\ s_r = << >>),
           awready \in Choice(AW # None /\ s_aw = None),
           wready \in Choice(W # None /\ ~FullBurst),
           giveR \in Choice(s_r # << >>), giveB \in Choice(s_b > 0),
           ready \in BOOLEAN :
              Clock(ar, wb, If(offerA, coreAw), If(offerW, Head(coreW)),
                    ready, ready, arready, If(giveR, Head(s_r)),
                    awready, wready, If(giveB, "OKAY"))
    BY DEF Cycle
<1>2. CoreInputs(ar, wb, If(offerA, coreAw), If(offerW, Head(coreW)))
    BY <1>1 DEF CoreInputs, If, Choice
<1>3. MemInputs(If(giveR, Head(s_r)), If(giveB, "OKAY"))
    BY <1>1 DEF MemInputs, If, Choice
<1>. QED BY <1>1, <1>2, <1>3, CountEdge

\* With all queues empty and every machine idle, nothing is owed.
LEMMA CountAtRest ==
    ASSUME core_state = "idle", axi_state = "idle", rd_req_fifo = << >>,
           f_rd_in = None, write_miss = FALSE, b_state = "idle", state = "idle",
           f_req_fifo = << >>, req_fifo = << >>, rsp_fifo = << >>,
           f_rsp_fifo = << >>
    PROVE  CountInv
<1>1. FrontTypes
    <2>1. << >> \in Seq(Countable) /\ << >> \in Seq(Line) /\ Len(<< >>) = 0
        BY EmptyTypes
    <2>2. Len(rd_req_fifo) <= 2
        BY <2>1
    <2>. QED BY <2>1, <2>2 DEF FrontTypes, WriteStates
<1>2. BurstPlace /\ AskInv /\ AnswerGiven
    BY DEF BurstPlace, AskInv, AnswerGiven
<1>3. OnTheWay = 0 /\ StillAsked = 0 /\ BurstLines = 0
      /\ QueuedLines(rd_req_fifo) = 0
    BY DEF OnTheWay, Busy, StillAsked, BurstLines, QueuedLines
<1>. QED BY <1>1, <1>2, <1>3 DEF CountInv, Balanced

LEMMA CountInit == ASSUME Init PROVE CountInv
BY CountAtRest DEF Init, FrontendInit, CacheInit, BackendInit

LEMMA CountReset == ASSUME Reset PROVE CountInv'
<1>1. /\ core_state' = "idle" /\ axi_state' = "idle" /\ rd_req_fifo' = << >>
      /\ f_rd_in' = None /\ write_miss' = FALSE /\ b_state' = "idle"
      /\ state' = "idle" /\ f_req_fifo' = << >> /\ req_fifo' = << >>
      /\ rsp_fifo' = << >> /\ f_rsp_fifo' = << >>
    BY DEF Reset, FrontendReset, CacheReset, BackendReset
<1>2. FrontTypes'
    <2>1. << >> \in Seq(Countable) /\ << >> \in Seq(Line) /\ Len(<< >>) = 0
        BY EmptyTypes
    <2>2. Len(rd_req_fifo') <= 2
        BY <1>1, <2>1
    <2>. QED BY <1>1, <2>1, <2>2 DEF FrontTypes, WriteStates
<1>3. BurstPlace' /\ AskInv' /\ AnswerGiven'
    BY <1>1 DEF BurstPlace, AskInv, AnswerGiven
<1>4. OnTheWay' = 0 /\ StillAsked' = 0 /\ BurstLines' = 0
      /\ QueuedLines(rd_req_fifo)' = 0
    BY <1>1 DEF OnTheWay, Busy, StillAsked, BurstLines, QueuedLines
<1>. QED BY <1>1, <1>2, <1>3, <1>4 DEF CountInv, Balanced

LEMMA CountStutter == ASSUME CountInv, UNCHANGED vars PROVE CountInv'
<1>1. UNCHANGED fvars /\ UNCHANGED cvars /\ UNCHANGED bvars
    BY DEF vars
<1>2. FrontTypes' /\ AskInv' /\ AnswerGiven'
    BY <1>1 DEF CountInv, FrontTypes, AskInv, AnswerGiven, fvars, cvars, bvars
<1>3. BurstPlace'
    BY <1>1 DEF CountInv, BurstPlace, Chunk, fvars
<1>4. OnTheWay' = OnTheWay /\ StillAsked' = StillAsked /\ BurstLines' = BurstLines
    BY <1>1 DEF OnTheWay, Busy, StillAsked, BurstLines, LastLine, Line0, LineBytes,
                fvars, cvars
<1>5. QueuedLines(rd_req_fifo)' = QueuedLines(rd_req_fifo)
    BY <1>1 DEF QueuedLines, LineCount, LastLine, Line0, LineBytes, fvars
<1>6. Balanced'
    BY <1>1, <1>4, <1>5 DEF CountInv, Balanced, fvars
<1>. QED BY <1>2, <1>3, <1>6 DEF CountInv

LEMMA EmptyPipeline ==
    ASSUME DataInv, CountInv, FrontendIdle PROVE PipelineEmpty
<1>1. Types /\ FrontTypes /\ ArrayInv /\ MemInv
    BY DEF DataInv, CountInv
<1>2. OnTheWay = 0
    <2>1. StillAsked = 0 /\ BurstLines = 0 /\ QueuedLines(rd_req_fifo) = 0
        BY DEF FrontendIdle, StillAsked, BurstLines, QueuedLines
    <2>2. OnTheWay \in Nat /\ axi_state # "write"
        BY <1>1, LengthsNow DEF FrontendIdle
    <2>. QED BY <2>1, <2>2 DEF CountInv, Balanced
<1>3. /\ Len(f_req_fifo) = 0 /\ Len(req_fifo) = 0 /\ Len(rsp_fifo) = 0
      /\ Len(f_rsp_fifo) = 0 /\ Busy = 0
    <2>. DEFINE a == Len(f_req_fifo)
                c == Len(req_fifo)
                d == Len(rsp_fifo)
                e == Len(f_rsp_fifo)
    <2>1. a \in Nat /\ c \in Nat /\ d \in Nat /\ e \in Nat /\ Busy \in Nat
          /\ a + c + Busy + d + e = 0
        BY <1>1, <1>2, LengthsNow DEF OnTheWay
    <2>. HIDE DEF a, c, d, e
    <2>2. a = 0 /\ c = 0 /\ d = 0 /\ e = 0 /\ Busy = 0
        BY <2>1
    <2>. QED BY <2>2 DEF a, c, d, e
<1>4. /\ f_req_fifo = << >> /\ req_fifo = << >> /\ rsp_fifo = << >>
      /\ f_rsp_fifo = << >> /\ state = "idle"
    BY <1>1, <1>3, EmptySeq
       DEF Types, CoreTypes, CacheTypes, FrontTypes, Busy
<1>5. ArrayRests /\ MemRests
    BY <1>1, <1>4 DEF ArrayInv, MemInv
<1>6. /\ mem_req_fifo = << >> /\ b_req_fifo = << >> /\ b_rsp_fifo = << >>
      /\ mem_rsp_fifo = << >>
    BY <1>1, <1>5, EmptySeq DEF Types, CacheTypes, BackendTypes, MemRests, QueuesHold
<1>7. b_state = "idle"
    BY <1>5, <1>6 DEF MemRests, BackendRests, CountInv, AnswerGiven
<1>. QED BY <1>4, <1>5, <1>6, <1>7 DEF PipelineEmpty, ArrayRests

(***************************************************************************)
(* When the frontend has no transaction, no line is left in any queue or   *)
(* machine between it and memory: the lines asked for are exactly the      *)
(* lines consumed.  The bursts read start at a word and have no more beats *)
(* and lines than the frontend's counters of them can hold.                *)
(***************************************************************************)
THEOREM NothingStaysBehind ==
    ASSUME ~ResetAnytime, CountableReads
    PROVE  Spec => []NothingLeftBehind
<1>1. Init => DataInv /\ CountInv
    BY InitHolds, CountInit
<1>2. DataInv /\ CountInv /\ [Next]_vars => (DataInv /\ CountInv)'
    <2>1. DataInv /\ CountInv /\ Cycle => (DataInv /\ CountInv)'
        BY CycleStep, CountCycle
    <2>2. DataInv /\ CountInv /\ Reset => (DataInv /\ CountInv)'
        BY ResetStep, CountReset
    <2>3. DataInv /\ CountInv /\ UNCHANGED vars => (DataInv /\ CountInv)'
        BY StutterStep, CountStutter
    <2>. QED BY <2>1, <2>2, <2>3 DEF Next
<1>3. DataInv /\ CountInv => NothingLeftBehind
    BY EmptyPipeline DEF NothingLeftBehind
<1>. QED BY <1>1, <1>2, <1>3, PTL DEF Spec
=============================================================================
