--------------------------- MODULE SequenceLemmas ---------------------------
(***************************************************************************)
(* Facts about sequences that the proofs about queues rest on: what a map  *)
(* does to a queue, and when the contents of a chain of queues stay the    *)
(* same while elements move along it.                                      *)
(***************************************************************************)
EXTENDS Integers, Sequences, SequenceTheorems, TLAPS

\* The images under f of the elements of q.
Image(f, q) == [i \in 1 .. Len(q) |-> f[q[i]]]

LEMMA ImageIsSeq ==
    ASSUME NEW S, NEW T, NEW f, \A r \in S : f[r] \in T, NEW q \in Seq(S)
    PROVE  Image(f, q) \in Seq(T)
<1>1. \A i \in 1 .. Len(q) : f[q[i]] \in T
    BY ElementOfSeq
<1>. QED BY <1>1, LenProperties DEF Image

LEMMA ImageLen ==
    ASSUME NEW S, NEW f, NEW q \in Seq(S)
    PROVE  Len(Image(f, q)) = Len(q)
BY LenProperties DEF Image

LEMMA ImageOfTail ==
    ASSUME NEW S, NEW f, NEW q \in Seq(S), q # << >>
    PROVE  /\ Image(f, q) # << >>
           /\ Head(Image(f, q)) = f[Head(q)]
           /\ Image(f, Tail(q)) = Tail(Image(f, q))
<1>. DEFINE T == {f[r] : r \in S}
<1>1. /\ Tail(q) \in Seq(S) /\ Len(Tail(q)) = Len(q) - 1
      /\ \A i \in 1 .. Len(Tail(q)) : Tail(q)[i] = q[i + 1]
      /\ Len(q) \in Nat \ {0}
    BY HeadTailProperties, EmptySeq
<1>2. /\ Image(f, q) \in Seq(T) /\ Len(Image(f, q)) = Len(q)
      /\ Image(f, Tail(q)) \in Seq(T) /\ Len(Image(f, Tail(q))) = Len(q) - 1
    <2>1. \A r \in S : f[r] \in T
        OBVIOUS
    <2>. HIDE DEF T
    <2>2. Image(f, q) \in Seq(T)
        BY <2>1, ImageIsSeq
    <2>3. Image(f, Tail(q)) \in Seq(T)
        BY <1>1, <2>1, ImageIsSeq
    <2>4. Len(Image(f, q)) = Len(q) /\ Len(Image(f, Tail(q))) = Len(Tail(q))
        BY <1>1, ImageLen
    <2>. QED BY <1>1, <2>2, <2>3, <2>4
<1>3. Image(f, q) # << >>
    BY <1>1, <1>2, EmptySeq
<1>4. /\ Tail(Image(f, q)) \in Seq(T) /\ Len(Tail(Image(f, q))) = Len(q) - 1
      /\ \A i \in 1 .. Len(q) - 1 :
            Tail(Image(f, q))[i] = Image(f, q)[i + 1]
    BY <1>2, <1>3, HeadTailProperties
<1>5. \A i \in 1 .. Len(q) - 1 : Image(f, Tail(q))[i] = Tail(Image(f, q))[i]
    BY <1>1, <1>4 DEF Image
<1>6. Image(f, Tail(q)) = Tail(Image(f, q))
    BY <1>1, <1>2, <1>3, <1>4, <1>5, SeqEqual
<1>7. Head(Image(f, q)) = f[Head(q)]
    BY <1>1, <1>2, <1>3 DEF Image
<1>. QED BY <1>3, <1>6, <1>7

LEMMA ImageOfAppend ==
    ASSUME NEW S, NEW f, NEW q \in Seq(S), NEW e \in S
    PROVE  Image(f, Append(q, e)) = Append(Image(f, q), f[e])
<1>. DEFINE T == {f[r] : r \in S}
<1>1. /\ Append(q, e) \in Seq(S) /\ Len(Append(q, e)) = Len(q) + 1
      /\ \A i \in 1 .. Len(q) : Append(q, e)[i] = q[i]
      /\ Append(q, e)[Len(q) + 1] = e
      /\ Len(q) \in Nat
    BY AppendProperties, LenProperties
<1>2. /\ Image(f, q) \in Seq(T) /\ Len(Image(f, q)) = Len(q)
      /\ Image(f, Append(q, e)) \in Seq(T)
      /\ Len(Image(f, Append(q, e))) = Len(q) + 1
    <2>1. \A r \in S : f[r] \in T
        OBVIOUS
    <2>. HIDE DEF T
    <2>2. Image(f, q) \in Seq(T)
        BY <2>1, ImageIsSeq
    <2>3. Image(f, Append(q, e)) \in Seq(T)
        BY <1>1, <2>1, ImageIsSeq
    <2>4. /\ Len(Image(f, q)) = Len(q)
          /\ Len(Image(f, Append(q, e))) = Len(Append(q, e))
        BY <1>1, ImageLen
    <2>. QED BY <1>1, <2>2, <2>3, <2>4
<1>3. /\ Append(Image(f, q), f[e]) \in Seq(T)
      /\ Len(Append(Image(f, q), f[e])) = Len(q) + 1
      /\ \A i \in 1 .. Len(q) : Append(Image(f, q), f[e])[i] = Image(f, q)[i]
      /\ Append(Image(f, q), f[e])[Len(q) + 1] = f[e]
    BY <1>2, AppendProperties
<1>4. \A i \in 1 .. Len(q) + 1 :
         Image(f, Append(q, e))[i] = Append(Image(f, q), f[e])[i]
    BY <1>1, <1>3 DEF Image
<1>. QED BY <1>2, <1>3, <1>4, SeqEqual

-----------------------------------------------------------------------------
LEMMA TailOfConcat ==
    ASSUME NEW T, NEW s \in Seq(T), NEW t \in Seq(T), s # << >>
    PROVE  s \o t # << >> /\ Tail(s \o t) = Tail(s) \o t
<1>1. /\ s \o t \in Seq(T) /\ Len(s \o t) = Len(s) + Len(t)
      /\ \A i \in 1 .. Len(s) + Len(t) :
            (s \o t)[i] = IF i <= Len(s) THEN s[i] ELSE t[i - Len(s)]
    BY ConcatProperties
<1>2. /\ Tail(s) \in Seq(T) /\ Len(Tail(s)) = Len(s) - 1
      /\ \A i \in 1 .. Len(Tail(s)) : Tail(s)[i] = s[i + 1]
      /\ Len(s) \in Nat \ {0} /\ Len(t) \in Nat
    BY HeadTailProperties, EmptySeq, LenProperties
<1>3. s \o t # << >>
    BY <1>1, <1>2, EmptySeq
<1>4. /\ Tail(s \o t) \in Seq(T) /\ Len(Tail(s \o t)) = Len(s) + Len(t) - 1
      /\ \A i \in 1 .. Len(s) + Len(t) - 1 : Tail(s \o t)[i] = (s \o t)[i + 1]
    BY <1>1, <1>3, HeadTailProperties
<1>5. /\ Tail(s) \o t \in Seq(T) /\ Len(Tail(s) \o t) = Len(s) - 1 + Len(t)
      /\ \A i \in 1 .. Len(s) - 1 + Len(t) : (Tail(s) \o t)[i] =
            IF i <= Len(s) - 1 THEN Tail(s)[i] ELSE t[i - (Len(s) - 1)]
    BY <1>2, ConcatProperties
<1>6. \A i \in 1 .. Len(s) + Len(t) - 1 : Tail(s \o t)[i] = (Tail(s) \o t)[i]
    BY <1>1, <1>2, <1>4, <1>5
<1>. QED BY <1>2, <1>3, <1>4, <1>5, <1>6, SeqEqual

LEMMA TailOfAppend ==
    ASSUME NEW T, NEW s \in Seq(T), NEW e \in T, s # << >>
    PROVE  Tail(Append(s, e)) = Append(Tail(s), e)
<1>1. /\ <<e>> \in Seq(T) /\ Append(s, e) = s \o <<e>>
      /\ Tail(s) \in Seq(T) /\ Append(Tail(s), e) = Tail(s) \o <<e>>
    <2>1. Tail(s) \in Seq(T)
        BY HeadTailProperties
    <2>. QED BY <2>1, AppendIsConcat
<1>. QED BY <1>1, TailOfConcat

LEMMA ConcatOfAppend ==
    ASSUME NEW T, NEW s \in Seq(T), NEW t \in Seq(T), NEW e \in T
    PROVE  s \o Append(t, e) = Append(s \o t, e)
<1>1. Append(t, e) = t \o <<e>> /\ <<e>> \in Seq(T)
    BY AppendIsConcat
<1>2. s \o t \in Seq(T) /\ Append(s \o t, e) = (s \o t) \o <<e>>
    BY ConcatProperties, AppendIsConcat
<1>3. (s \o t) \o <<e>> = s \o (t \o <<e>>)
    BY <1>1, ConcatAssociative
<1>. QED BY <1>1, <1>2, <1>3

(***************************************************************************)
(* Taking the head of one queue to the end of the one before it leaves     *)
(* their concatenation as it was.                                          *)
(***************************************************************************)
LEMMA Moved ==
    ASSUME NEW T, NEW s \in Seq(T), NEW t \in Seq(T), t # << >>
    PROVE  Append(s, Head(t)) \o Tail(t) = s \o t
<1>1. Head(t) \in T /\ Tail(t) \in Seq(T) /\ <<Head(t)>> \in Seq(T)
    BY HeadTailProperties
<1>2. Append(s, Head(t)) = s \o <<Head(t)>>
    BY <1>1, AppendIsConcat
<1>3. (s \o <<Head(t)>>) \o Tail(t) = s \o (<<Head(t)>> \o Tail(t))
    BY <1>1, ConcatAssociative
<1>4. <<Head(t)>> \o Tail(t) = t
    <2>1. /\ Len(t) \in Nat \ {0} /\ Len(Tail(t)) = Len(t) - 1
          /\ \A i \in 1 .. Len(Tail(t)) : Tail(t)[i] = t[i + 1]
          /\ Head(t) = t[1]
        BY HeadTailProperties, EmptySeq
    <2>2. /\ <<Head(t)>> \o Tail(t) \in Seq(T)
          /\ Len(<<Head(t)>> \o Tail(t)) = Len(t)
          /\ \A i \in 1 .. Len(t) : (<<Head(t)>> \o Tail(t))[i] =
                IF i <= 1 THEN <<Head(t)>>[i] ELSE Tail(t)[i - 1]
        BY <1>1, <2>1, ConcatProperties
    <2>3. \A i \in 1 .. Len(t) : (<<Head(t)>> \o Tail(t))[i] = t[i]
        BY <2>1, <2>2
    <2>. QED BY <2>2, <2>3, SeqEqual
<1>. QED BY <1>2, <1>3, <1>4

\* The same with a queue x behind the two.
LEMMA MovedBefore ==
    ASSUME NEW T, NEW s \in Seq(T), NEW t \in Seq(T), NEW x \in Seq(T), t # << >>
    PROVE  Append(s, Head(t)) \o (Tail(t) \o x) = s \o (t \o x)
<1>1. Head(t) \in T /\ Tail(t) \in Seq(T) /\ Append(s, Head(t)) \in Seq(T)
    BY HeadTailProperties, AppendProperties
<1>2. Append(s, Head(t)) \o (Tail(t) \o x) = (Append(s, Head(t)) \o Tail(t)) \o x
    BY <1>1, ConcatAssociative
<1>3. Append(s, Head(t)) \o Tail(t) = s \o t
    BY Moved
<1>4. (s \o t) \o x = s \o (t \o x)
    BY ConcatAssociative
<1>. QED BY <1>2, <1>3, <1>4

-----------------------------------------------------------------------------
(***************************************************************************)
(* A chain of six queues, a the one its elements leave it by, that holds h *)
(* from its oldest element to its newest.                                  *)
(***************************************************************************)
Chain(T, h, a, b, c, d, e, f) ==
    /\ a \in Seq(T) /\ b \in Seq(T) /\ c \in Seq(T)
    /\ d \in Seq(T) /\ e \in Seq(T) /\ f \in Seq(T)
    /\ h = a \o (b \o (c \o (d \o (e \o f))))

LEMMA ChainParts ==
    ASSUME NEW T, NEW h, NEW a, NEW b, NEW c, NEW d, NEW e, NEW f,
           Chain(T, h, a, b, c, d, e, f)
    PROVE  /\ h \in Seq(T)
           /\ e \o f \in Seq(T)
           /\ d \o (e \o f) \in Seq(T)
           /\ c \o (d \o (e \o f)) \in Seq(T)
           /\ b \o (c \o (d \o (e \o f))) \in Seq(T)
           /\ Len(h) = Len(a) + Len(b) + Len(c) + Len(d) + Len(e) + Len(f)
           /\ Len(a) \in Nat /\ Len(b) \in Nat /\ Len(c) \in Nat
           /\ Len(d) \in Nat /\ Len(e) \in Nat /\ Len(f) \in Nat
           /\ a \in Seq(T) /\ b \in Seq(T) /\ c \in Seq(T)
           /\ d \in Seq(T) /\ e \in Seq(T) /\ f \in Seq(T)
<1>. USE DEF Chain
<1>1. e \o f \in Seq(T) /\ Len(e \o f) = Len(e) + Len(f)
    BY ConcatProperties
<1>2. d \o (e \o f) \in Seq(T) /\ Len(d \o (e \o f)) = Len(d) + Len(e \o f)
    BY <1>1, ConcatProperties
<1>3. /\ c \o (d \o (e \o f)) \in Seq(T)
      /\ Len(c \o (d \o (e \o f))) = Len(c) + Len(d \o (e \o f))
    BY <1>2, ConcatProperties
<1>4. /\ b \o (c \o (d \o (e \o f))) \in Seq(T)
      /\ Len(b \o (c \o (d \o (e \o f)))) = Len(b) + Len(c \o (d \o (e \o f)))
    BY <1>3, ConcatProperties
<1>5. h \in Seq(T) /\ Len(h) = Len(a) + Len(b \o (c \o (d \o (e \o f))))
    BY <1>4, ConcatProperties
<1>6. /\ Len(a) \in Nat /\ Len(b) \in Nat /\ Len(c) \in Nat
      /\ Len(d) \in Nat /\ Len(e) \in Nat /\ Len(f) \in Nat
    BY LenProperties
<1>. QED BY <1>1, <1>2, <1>3, <1>4, <1>5, <1>6

\* The oldest element leaves.
LEMMA ChainTail ==
    ASSUME NEW T, NEW h, NEW a, NEW b, NEW c, NEW d, NEW e, NEW f,
           Chain(T, h, a, b, c, d, e, f), a # << >>
    PROVE  h # << >> /\ Chain(T, Tail(h), Tail(a), b, c, d, e, f)
<1>0. /\ a \in Seq(T) /\ b \in Seq(T) /\ c \in Seq(T)
      /\ d \in Seq(T) /\ e \in Seq(T) /\ f \in Seq(T)
    BY DEF Chain
<1>1. b \o (c \o (d \o (e \o f))) \in Seq(T)
    BY ChainParts
<1>2. Tail(a) \in Seq(T)
    BY HeadTailProperties DEF Chain
<1>3. h # << >> /\ Tail(h) = Tail(a) \o (b \o (c \o (d \o (e \o f))))
    BY <1>1, TailOfConcat DEF Chain
<1>. QED BY <1>2, <1>3 DEF Chain

\* A new element enters.
LEMMA ChainAppend ==
    ASSUME NEW T, NEW h, NEW a, NEW b, NEW c, NEW d, NEW e, NEW f, NEW x \in T,
           Chain(T, h, a, b, c, d, e, f)
    PROVE  Chain(T, Append(h, x), a, b, c, d, e, Append(f, x))
<1>0. /\ a \in Seq(T) /\ b \in Seq(T) /\ c \in Seq(T)
      /\ d \in Seq(T) /\ e \in Seq(T) /\ f \in Seq(T)
    BY DEF Chain
<1>1. /\ e \o f \in Seq(T) /\ d \o (e \o f) \in Seq(T)
      /\ c \o (d \o (e \o f)) \in Seq(T)
      /\ b \o (c \o (d \o (e \o f))) \in Seq(T)
    BY ChainParts
<1>2. \A s, t \in Seq(T) : s \o Append(t, x) = Append(s \o t, x)
    BY ConcatOfAppend
<1>3. /\ e \o Append(f, x) = Append(e \o f, x)
      /\ d \o Append(e \o f, x) = Append(d \o (e \o f), x)
      /\ c \o Append(d \o (e \o f), x) = Append(c \o (d \o (e \o f)), x)
    BY <1>0, <1>1, <1>2
<1>4. b \o Append(c \o (d \o (e \o f)), x)
         = Append(b \o (c \o (d \o (e \o f))), x)
    BY <1>0, <1>1, <1>2
<1>5. a \o Append(b \o (c \o (d \o (e \o f))), x)
         = Append(a \o (b \o (c \o (d \o (e \o f)))), x)
    BY <1>0, <1>1, <1>2
<1>6. Append(f, x) \in Seq(T)
    BY <1>0, AppendProperties
<1>. QED BY <1>0, <1>3, <1>4, <1>5, <1>6 DEF Chain

\* The head of a queue moves to the end of the next.
LEMMA ChainBtoA ==
    ASSUME NEW T, NEW h, NEW a, NEW b, NEW c, NEW d, NEW e, NEW f,
           Chain(T, h, a, b, c, d, e, f), b # << >>
    PROVE  Chain(T, h, Append(a, Head(b)), Tail(b), c, d, e, f)
<1>0. /\ a \in Seq(T) /\ b \in Seq(T) /\ c \in Seq(T)
      /\ d \in Seq(T) /\ e \in Seq(T) /\ f \in Seq(T)
    BY DEF Chain
<1>1. c \o (d \o (e \o f)) \in Seq(T)
    BY ChainParts
<1>2. Append(a, Head(b)) \in Seq(T) /\ Tail(b) \in Seq(T)
    BY <1>0, HeadTailProperties, AppendProperties
<1>3. \A y \in Seq(T) : Append(a, Head(b)) \o (Tail(b) \o y) = a \o (b \o y)
    <2>1. a \in Seq(T) /\ b \in Seq(T)
        BY DEF Chain
    <2>. QED BY <2>1, MovedBefore
<1>. QED BY <1>1, <1>2, <1>3 DEF Chain

LEMMA ChainCtoB ==
    ASSUME NEW T, NEW h, NEW a, NEW b, NEW c, NEW d, NEW e, NEW f,
           Chain(T, h, a, b, c, d, e, f), c # << >>
    PROVE  Chain(T, h, a, Append(b, Head(c)), Tail(c), d, e, f)
<1>0. /\ a \in Seq(T) /\ b \in Seq(T) /\ c \in Seq(T)
      /\ d \in Seq(T) /\ e \in Seq(T) /\ f \in Seq(T)
    BY DEF Chain
<1>1. d \o (e \o f) \in Seq(T)
    BY ChainParts
<1>2. Append(b, Head(c)) \in Seq(T) /\ Tail(c) \in Seq(T)
    BY <1>0, HeadTailProperties, AppendProperties
<1>3. \A y \in Seq(T) : Append(b, Head(c)) \o (Tail(c) \o y) = b \o (c \o y)
    <2>1. b \in Seq(T) /\ c \in Seq(T)
        BY DEF Chain
    <2>. QED BY <2>1, MovedBefore
<1>. QED BY <1>1, <1>2, <1>3 DEF Chain

LEMMA ChainDtoC ==
    ASSUME NEW T, NEW h, NEW a, NEW b, NEW c, NEW d, NEW e, NEW f,
           Chain(T, h, a, b, c, d, e, f), d # << >>
    PROVE  Chain(T, h, a, b, Append(c, Head(d)), Tail(d), e, f)
<1>0. /\ a \in Seq(T) /\ b \in Seq(T) /\ c \in Seq(T)
      /\ d \in Seq(T) /\ e \in Seq(T) /\ f \in Seq(T)
    BY DEF Chain
<1>1. e \o f \in Seq(T)
    BY ChainParts
<1>2. Append(c, Head(d)) \in Seq(T) /\ Tail(d) \in Seq(T)
    BY <1>0, HeadTailProperties, AppendProperties
<1>3. \A y \in Seq(T) : Append(c, Head(d)) \o (Tail(d) \o y) = c \o (d \o y)
    <2>1. c \in Seq(T) /\ d \in Seq(T)
        BY DEF Chain
    <2>. QED BY <2>1, MovedBefore
<1>. QED BY <1>1, <1>2, <1>3 DEF Chain

LEMMA ChainEtoD ==
    ASSUME NEW T, NEW h, NEW a, NEW b, NEW c, NEW d, NEW e, NEW f,
           Chain(T, h, a, b, c, d, e, f), e # << >>
    PROVE  Chain(T, h, a, b, c, Append(d, Head(e)), Tail(e), f)
<1>0. /\ a \in Seq(T) /\ b \in Seq(T) /\ c \in Seq(T)
      /\ d \in Seq(T) /\ e \in Seq(T) /\ f \in Seq(T)
    BY DEF Chain
<1>1. Append(d, Head(e)) \in Seq(T) /\ Tail(e) \in Seq(T)
    BY <1>0, HeadTailProperties, AppendProperties
<1>2. Append(d, Head(e)) \o (Tail(e) \o f) = d \o (e \o f)
    BY <1>0, MovedBefore
<1>. QED BY <1>1, <1>2 DEF Chain

LEMMA ChainFtoE ==
    ASSUME NEW T, NEW h, NEW a, NEW b, NEW c, NEW d, NEW e, NEW f,
           Chain(T, h, a, b, c, d, e, f), f # << >>
    PROVE  Chain(T, h, a, b, c, d, Append(e, Head(f)), Tail(f))
<1>0. /\ a \in Seq(T) /\ b \in Seq(T) /\ c \in Seq(T)
      /\ d \in Seq(T) /\ e \in Seq(T) /\ f \in Seq(T)
    BY DEF Chain
<1>1. Append(e, Head(f)) \in Seq(T) /\ Tail(f) \in Seq(T)
    BY <1>0, HeadTailProperties, AppendProperties
<1>2. Append(e, Head(f)) \o Tail(f) = e \o f
    BY <1>0, Moved
<1>. QED BY <1>1, <1>2 DEF Chain

\* The three queues in the middle are empty, and an element passes them by.
LEMMA ChainEtoA ==
    ASSUME NEW T, NEW h, NEW a, NEW e, NEW f,
           Chain(T, h, a, << >>, << >>, << >>, e, f), e # << >>
    PROVE  Chain(T, h, Append(a, Head(e)), << >>, << >>, << >>, Tail(e), f)
<1>1. e \o f \in Seq(T)
    BY ChainParts
<1>2. Append(a, Head(e)) \in Seq(T) /\ Tail(e) \in Seq(T)
    BY HeadTailProperties, AppendProperties DEF Chain
<1>3. Append(a, Head(e)) \o (Tail(e) \o f) = a \o (e \o f)
    BY MovedBefore DEF Chain
<1>4. \A s \in Seq(T) : << >> \o s = s
    BY ConcatEmptySeq
<1>5. h = a \o (e \o f)
    BY <1>1, <1>4 DEF Chain
<1>6. Tail(e) \o f \in Seq(T)
    BY <1>2, ConcatProperties DEF Chain
<1>. QED BY <1>2, <1>3, <1>4, <1>5, <1>6 DEF Chain

\* Where the elements of the two oldest queues stand in the whole.
LEMMA ChainElements ==
    ASSUME NEW T, NEW h, NEW a, NEW b, NEW c, NEW d, NEW e, NEW f,
           Chain(T, h, a, b, c, d, e, f)
    PROVE  /\ \A i \in 1 .. Len(a) : h[i] = a[i]
           /\ \A i \in 1 .. Len(b) : h[Len(a) + i] = b[i]
<1>. DEFINE x == c \o (d \o (e \o f))
<1>1. /\ x \in Seq(T) /\ b \o x \in Seq(T)
      /\ Len(a) \in Nat /\ Len(b) \in Nat /\ Len(x) \in Nat
    BY ChainParts, LenProperties
<1>2. a \in Seq(T) /\ b \in Seq(T) /\ h = a \o (b \o x)
    BY DEF Chain
<1>. HIDE DEF x
<1>3. /\ Len(b \o x) = Len(b) + Len(x)
      /\ \A i \in 1 .. Len(b) + Len(x) :
            (b \o x)[i] = IF i <= Len(b) THEN b[i] ELSE x[i - Len(b)]
    BY <1>1, <1>2, ConcatProperties
<1>4. \A i \in 1 .. Len(a) + Len(b \o x) :
         h[i] = IF i <= Len(a) THEN a[i] ELSE (b \o x)[i - Len(a)]
    BY <1>1, <1>2, ConcatProperties
<1>5. \A i \in 1 .. Len(a) : h[i] = a[i]
    BY <1>1, <1>3, <1>4
<1>6. ASSUME NEW i \in 1 .. Len(b) PROVE h[Len(a) + i] = b[i]
    <2>1. h[Len(a) + i] = (b \o x)[i]
        BY <1>1, <1>3, <1>4
    <2>2. (b \o x)[i] = b[i]
        BY <1>1, <1>3
    <2>. QED BY <2>1, <2>2
<1>. QED BY <1>5, <1>6
=============================================================================
